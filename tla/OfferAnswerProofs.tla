--------------------------- MODULE OfferAnswerProofs --------------------------
(***************************************************************************)
(* Proofs about OfferAnswer: what getSdpLine finds, what the parser keeps, *)
(* and that an answer follows the offer, for any offer and any camera.     *)
(***************************************************************************)
EXTENDS OfferAnswer, SequenceTheorems, WellFoundedInduction, TLAPS

-----------------------------------------------------------------------------
(* The first and the last of some places *)

\* A set of numbers has a least one.
LEMMA LeastOf ==
  ASSUME NEW S, S \subseteq Nat, S # {}
  PROVE  Min(S) \in S /\ \A y \in S : Min(S) <= y
<1> DEFINE below == {pair \in Nat \X Nat : pair[1] < pair[2]}
<1>1. IsWellFoundedOn(below, Nat)
  BY NatLessThanWellFounded DEF OpToRel
<1>2. PICK x \in S : \A y \in S : ~(<<y, x>> \in below)
  <2> HIDE DEF below
  <2> QED
    BY <1>1, WFMin
<1>3. ASSUME NEW y \in S PROVE x <= y
  <2>1. x \in Nat /\ y \in Nat
    OBVIOUS
  <2>2. ~(<<y, x>> \in below)
    BY <1>2
  <2>3. ~(y < x)
    BY <2>1, <2>2
  <2> QED
    BY <2>1, <2>3
<1>4. \E z \in S : \A y \in S : z <= y
  BY <1>3
<1> QED
  BY <1>4 DEF Min

\* Of some places of a sequence one is the last.
LEMMA GreatestOf ==
  ASSUME NEW n \in Nat, NEW S, S \subseteq 1..n, S # {}
  PROVE  Max(S) \in S /\ \A y \in S : y <= Max(S)
<1> DEFINE T == {n - x : x \in S}
<1>1. T \subseteq Nat /\ T # {}
  <2>1. \A x \in S : x \in 1..n
    OBVIOUS
  <2>2. \A x \in S : n - x \in Nat
    BY <2>1
  <2> QED
    BY <2>2
<1>2. PICK t \in T : \A u \in T : t <= u
  <2> HIDE DEF T
  <2> QED
    BY <1>1, LeastOf
<1>3. PICK x \in S : t = n - x
  OBVIOUS
<1>4. ASSUME NEW y \in S PROVE y <= x
  <2>1. t <= n - y
    BY <1>2
  <2>2. x \in 1..n /\ y \in 1..n
    OBVIOUS
  <2> QED
    BY <1>3, <2>1, <2>2
<1>5. \E z \in S : \A y \in S : y <= z
  BY <1>4
<1> QED
  BY <1>5 DEF Max

-----------------------------------------------------------------------------
(* getSdpLine *)

FoundType == [pt : Int, rtpmap : SdpLine \cup {NoLine}, fmtp : SdpLine \cup {NoLine}]

\* fmtpLine is empty or a line of its kind
FoundOK(state) ==
    /\ state \in FoundType
    /\ state.fmtp = NoLine \/ state.fmtp.is = "fmtp"

\* An empty string names no codec.
LEMMA NoLineFacts == NoLine.names = {}
  BY DEF NoLine, Line

\* The last of some lines is one of them.
LEMMA LastOfOK ==
  ASSUME NEW sdp_ \in Seq(SdpLine), NEW lines, lines \subseteq DOMAIN sdp_, NEW before
  PROVE  /\ lines = {} => LastOf(sdp_, lines, before) = before
         /\ lines # {} => \E i \in lines : i = Max(lines) /\ LastOf(sdp_, lines, before) = sdp_[i]
<1>1. CASE lines = {}
  BY <1>1 DEF LastOf
<1>2. CASE lines # {}
  <2>1. Max(lines) \in lines
    BY <1>2, GreatestOf
  <2> QED
    BY <1>2, <2>1 DEF LastOf
<1> QED
  BY <1>1, <1>2

\* the lines of an SDP that name a codec, and the rtpmap lines among them
NamingLines(sdp_, codec)  == {line \in Lines(sdp_) : codec \in line.names}
MappingLines(sdp_, codec) == {line \in NamingLines(sdp_, codec) : line.is = "rtpmap"}

\* A search finds the last line that names the codec, and has the payload type of an
\* rtpmap line that does, of this line if it is one; or there is no such line and all
\* stays as it was.
LEMMA SearchOK ==
  ASSUME NEW sdp_ \in Seq(SdpLine), NEW codec, NEW state, FoundOK(state)
  PROVE  LET new == Search(sdp_, codec, state)
         IN  /\ FoundOK(new)
             /\ \/ /\ new.rtpmap \in NamingLines(sdp_, codec)
                   /\ MappingLines(sdp_, codec) # {} =>
                         /\ \E line \in MappingLines(sdp_, codec) : line.pt = new.pt
                         /\ new.rtpmap.is = "rtpmap" => new.pt = new.rtpmap.pt
                \/ /\ new.rtpmap = state.rtpmap
                   /\ NamingLines(sdp_, codec) = {}
<1> DEFINE new    == Search(sdp_, codec, state)
           named  == Naming(sdp_, codec, Len(sdp_))
           mapped == Mapping(sdp_, codec, Len(sdp_))
           fits   == Fitting(sdp_, codec, state.pt)
<1>1. /\ named \subseteq DOMAIN sdp_ /\ fits \subseteq DOMAIN sdp_
      /\ mapped = {i \in named : sdp_[i].is = "rtpmap"}
      /\ \A i \in DOMAIN sdp_ : i \in named <=> codec \in sdp_[i].names
  BY DEF Naming, Mapping, Fitting
<1>2. /\ state.rtpmap \in SdpLine \cup {NoLine} /\ state.fmtp \in SdpLine \cup {NoLine}
      /\ state.pt \in Int
  BY DEF FoundOK, FoundType
<1>3. /\ new = [pt |-> new.pt, rtpmap |-> new.rtpmap, fmtp |-> new.fmtp]
      /\ new.rtpmap = LastOf(sdp_, named, state.rtpmap)
      /\ new.fmtp = LastOf(sdp_, fits, state.fmtp)
      /\ new.pt = IF mapped = {} THEN state.pt ELSE sdp_[Max(mapped)].pt
  BY DEF Search, Known
<1>4. new.fmtp \in SdpLine \cup {NoLine} /\ (new.fmtp = NoLine \/ new.fmtp.is = "fmtp")
  <2>1. \A i \in fits : sdp_[i].is = "fmtp"
    BY DEF Fitting
  <2> HIDE DEF fits, named, mapped, new
  <2>2. CASE fits = {}
    <3>1. new.fmtp = state.fmtp
      BY <1>3, <2>2 DEF LastOf
    <3> QED
      BY <1>2, <3>1 DEF FoundOK
  <2>3. CASE fits # {}
    <3>1. PICK i \in fits : new.fmtp = sdp_[i]
      <4>1. \E i \in fits : LastOf(sdp_, fits, state.fmtp) = sdp_[i]
        BY <1>1, <2>3, LastOfOK
      <4> QED
        BY <1>3, <4>1
    <3> QED
      BY <1>1, <2>1, <3>1
  <2> QED
    BY <2>2, <2>3
<1>5. CASE named = {}
  <2>1. mapped = {} /\ NamingLines(sdp_, codec) = {}
    BY <1>1, <1>5 DEF NamingLines, Lines
  <2>2. new.rtpmap = state.rtpmap /\ new.pt = state.pt
    BY <1>3, <1>5, <2>1 DEF LastOf
  <2>3. FoundOK(new)
    <3> HIDE DEF new, named, mapped, fits
    <3> QED
      BY <1>2, <1>3, <1>4, <2>2 DEF FoundOK, FoundType
  <2> QED
    BY <2>1, <2>2, <2>3
<1>6. CASE named # {}
  <2> HIDE DEF named, mapped, fits, new
  <2>1. PICK i \in named : i = Max(named) /\ new.rtpmap = sdp_[i]
    BY <1>1, <1>3, <1>6, LastOfOK
  <2>2. new.rtpmap \in NamingLines(sdp_, codec) /\ new.rtpmap \in SdpLine
    BY <1>1, <2>1 DEF Lines, NamingLines
  <2>3. CASE mapped = {}
    <3>1. MappingLines(sdp_, codec) = {} /\ new.pt = state.pt
      BY <1>1, <1>3, <2>3 DEF MappingLines, NamingLines, Lines
    <3>2. FoundOK(new)
      BY <1>2, <1>3, <1>4, <2>2, <3>1 DEF FoundOK, FoundType
    <3> QED
      BY <2>2, <3>1, <3>2 DEF new
  <2>4. CASE mapped # {}
    <3>1. /\ Max(mapped) \in mapped /\ \A k \in mapped : k <= Max(mapped)
          /\ \A k \in named : k <= i
      <4>1. mapped \subseteq 1..Len(sdp_) /\ named \subseteq 1..Len(sdp_) /\ Len(sdp_) \in Nat
        BY <1>1
      <4>2. Max(mapped) \in mapped /\ \A k \in mapped : k <= Max(mapped)
        BY <2>4, <4>1, GreatestOf
      <4>3. \A k \in named : k <= Max(named)
        BY <1>6, <4>1, GreatestOf
      <4> QED
        BY <2>1, <4>2, <4>3
    <3>2. Max(mapped) \in DOMAIN sdp_ /\ sdp_[Max(mapped)] \in SdpLine
      BY <1>1, <3>1
    <3>3. sdp_[Max(mapped)] \in MappingLines(sdp_, codec) /\ new.pt = sdp_[Max(mapped)].pt
      BY <1>1, <1>3, <2>4, <3>1, <3>2 DEF MappingLines, NamingLines, Lines
    <3>4. new.rtpmap.is = "rtpmap" => new.pt = new.rtpmap.pt
      <4> SUFFICES ASSUME new.rtpmap.is = "rtpmap" PROVE i = Max(mapped)
        BY <2>1, <3>3
      <4>1. i \in mapped /\ Max(mapped) \in named
        BY <1>1, <2>1, <3>1
      <4>2. i <= Max(mapped) /\ Max(mapped) <= i /\ i \in Nat /\ Max(mapped) \in Nat
        BY <1>1, <3>1, <4>1
      <4> QED
        BY <4>2
    <3>5. FoundOK(new)
      <4>1. new.pt \in Int
        BY <3>2, <3>3 DEF SdpLine
      <4> QED
        BY <1>3, <1>4, <2>2, <4>1 DEF FoundOK, FoundType
    <3> QED
      BY <2>2, <3>3, <3>4, <3>5 DEF new
  <2> QED
    BY <2>3, <2>4
<1> QED
  BY <1>5, <1>6

\* An offer that states no direction below an m= line leaves what was known.
LEMMA DirectionsOK ==
  ASSUME NEW sdp_ \in Seq(SdpLine), NEW before \in [Media -> Direction \cup {Unset}]
  PROVE  /\ Directions(sdp_, before) \in [Media -> Direction]
         /\ \A media \in Media :
               DirectionBelow(sdp_, media) = {} /\ before[media] # Unset =>
                   Directions(sdp_, before)[media] = before[media]
         /\ \A media \in Media :
               DirectionBelow(sdp_, media) # {} =>
                   /\ Min(DirectionBelow(sdp_, media)) \in DirectionBelow(sdp_, media)
                   /\ \A j \in DirectionBelow(sdp_, media) : Min(DirectionBelow(sdp_, media)) <= j
                   /\ Directions(sdp_, before)[media] = sdp_[Min(DirectionBelow(sdp_, media))].of
<1>1. ASSUME NEW media \in Media, DirectionBelow(sdp_, media) # {}
      PROVE  /\ Min(DirectionBelow(sdp_, media)) \in DirectionBelow(sdp_, media)
             /\ \A j \in DirectionBelow(sdp_, media) : Min(DirectionBelow(sdp_, media)) <= j
             /\ Directions(sdp_, before)[media] = sdp_[Min(DirectionBelow(sdp_, media))].of
             /\ Directions(sdp_, before)[media] \in Direction
  <2>1. DirectionBelow(sdp_, media) \subseteq Nat
    BY DEF DirectionBelow
  <2>2. /\ Min(DirectionBelow(sdp_, media)) \in DirectionBelow(sdp_, media)
        /\ \A j \in DirectionBelow(sdp_, media) : Min(DirectionBelow(sdp_, media)) <= j
    BY <1>1, <2>1, LeastOf
  <2>3. Directions(sdp_, before)[media] = sdp_[Min(DirectionBelow(sdp_, media))].of
    BY <1>1 DEF Directions
  <2>4. \A j \in DirectionBelow(sdp_, media) : sdp_[j].of \in Direction
    BY DEF DirectionBelow
  <2> QED
    BY <2>2, <2>3, <2>4
<1>2. ASSUME NEW media \in Media, DirectionBelow(sdp_, media) = {}
      PROVE  /\ Directions(sdp_, before)[media] \in Direction
             /\ before[media] # Unset => Directions(sdp_, before)[media] = before[media]
  <2>1. Directions(sdp_, before)[media] =
            IF before[media] = Unset THEN "sendrecv" ELSE before[media]
    BY <1>2 DEF Directions
  <2> QED
    BY <2>1 DEF Direction
<1>3. DOMAIN Directions(sdp_, before) = Media
      /\ Directions(sdp_, before) = [media \in Media |-> Directions(sdp_, before)[media]]
  BY DEF Directions
<1> HIDE DEF Media, Direction
<1> QED
  BY <1>1, <1>2, <1>3

\* The direction found for a media is one its first section states, if it states one.
LEMMA StatedIsFound ==
  ASSUME offer \in Seq(SdpLine), NEW before \in [Media -> Direction \cup {Unset}],
         NEW media \in Media, Stated(media) # {}
  PROVE  Directions(offer, before)[media] \in Stated(media)
<1> DEFINE below  == DirectionBelow(offer, media)
           stated == {j \in DOMAIN offer :
                        /\ offer[j].is = "dir" /\ offer[j].of \in Direction
                        /\ \E i \in 1..j : /\ FirstSection(i, media)
                                           /\ \A k \in (i + 1)..j : offer[k].is # "m"}
<1>1. PICK j \in stated : TRUE
  BY DEF Stated
<1>2. PICK i \in 1..j : FirstSection(i, media) /\ \A k \in (i + 1)..j : offer[k].is # "m"
  OBVIOUS
<1>3. j \in below
  BY <1>2 DEF DirectionBelow, FirstSection
<1>4. /\ Min(below) \in below /\ Min(below) <= j
      /\ Directions(offer, before)[media] = offer[Min(below)].of
  BY <1>3, DirectionsOK
<1>5. PICK h \in 1..Min(below) : offer[h].is = "m" /\ offer[h].of = media
  BY <1>4 DEF DirectionBelow
<1>6. i \in Nat /\ h \in Nat /\ j \in Nat /\ Min(below) \in Nat /\ 1 <= h /\ h <= Min(below)
  <2>1. Min(below) \in DOMAIN offer /\ j \in DOMAIN offer
    BY <1>4 DEF DirectionBelow
  <2> HIDE DEF below
  <2> QED
    BY <1>2, <1>5, <2>1
<1>7. i <= h
  <2>1. ~(h \in 1..(i - 1))
    BY <1>2, <1>5 DEF FirstSection
  <2> HIDE DEF below
  <2> QED
    BY <1>6, <2>1
<1>8. Min(below) \in stated
  <2>1. i \in 1..Min(below) /\ \A k \in (i + 1)..Min(below) : k \in (i + 1)..j
    <3> HIDE DEF below, stated
    <3> QED
      BY <1>2, <1>4, <1>6, <1>7
  <2>2. Min(below) \in DOMAIN offer /\ offer[Min(below)].is = "dir" /\ offer[Min(below)].of \in Direction
    BY <1>4 DEF DirectionBelow
  <2> QED
    BY <1>2, <2>1, <2>2
<1> QED
  BY <1>4, <1>8 DEF Stated

-----------------------------------------------------------------------------
(* sdp_message_parse *)

\* Where a call of sdp_message_parse leads, there is another call or the error.
LEMMA CallsOK ==
  /\ "end" \notin DOMAIN P!Calls /\ "error" \notin DOMAIN P!Calls
  /\ "v" \in DOMAIN P!Calls /\ "i" \in DOMAIN P!Calls
  /\ \A c \in DOMAIN P!Calls : /\ P!Calls[c].onto \in DOMAIN P!Calls \cup {"error"}
                             /\ P!Calls[c].past \in DOMAIN P!Calls \cup {"error"}
<1> DEFINE C == {"v", "s1", "o", "s2", "i", "u", "e", "p", "c", "b", "t", "r", "t2", "z",
                 "k", "a", "m", "mi", "mc", "mb", "mk", "ma"}
<1>1. DOMAIN P!Calls = C
  BY DEF P!Calls
<1>2. \A c \in C : /\ P!Calls[c].onto \in C \cup {"error"}
                  /\ P!Calls[c].past \in C \cup {"error"}
  BY DEF P!Calls, P!Call
<1> QED
  BY <1>1, <1>2

\* A line parser looks at the first line that has a letter.
LEMMA FromOK ==
  ASSUME NEW T, rest \in Seq(T), P!From # 0
  PROVE  /\ P!From \in DOMAIN rest /\ P!Line = rest[P!From]
         /\ rest[P!From].is \notin P!NoEqual
         /\ \A k \in 1..(P!From - 1) : rest[k].is \in P!NoEqual
<1> DEFINE some == {i \in 1..Len(rest) : rest[i].is \notin P!NoEqual}
<1>1. P!From = IF some # {} THEN Min(some) ELSE 0
  BY DEF P!From, P!SelectInSeq, P!Min, Min
<1>2. some # {} /\ some \subseteq Nat
  BY <1>1
<1>3. P!From \in some /\ \A y \in some : P!From <= y
  <2> HIDE DEF some
  <2> QED
    BY <1>1, <1>2, LeastOf
<1>4. ASSUME NEW k \in 1..(P!From - 1) PROVE rest[k].is \in P!NoEqual
  <2>1. P!From \in 1..Len(rest)
    BY <1>3
  <2>2. k \in 1..Len(rest) /\ ~(P!From <= k)
    BY <2>1
  <2> QED
    BY <1>3, <2>2
<1> QED
  BY <1>3, <1>4 DEF P!Line

Kept(message) == UNION {Lines(message[n].a) : n \in DOMAIN message}

\* The parser has lost no attribute: what it has passed is in the structure.
NothingLost ==
    \A line \in Lines(offer) :
        P!Letter(line) = "a" => line \in Lines(rest) \cup Kept(sdp)

SdpType == Seq([P!Field -> Seq(Lines(offer))])

ParserInv ==
    /\ offer \in Seq(SdpLine)
    /\ rest \in Seq(Lines(offer))
    /\ step \in DOMAIN P!Calls \cup {"end", "error"}
    /\ sdp \in SdpType /\ sdp # <<>>
    /\ step = "end" => rest = <<>> \/ Head(rest).is = "empty"
    /\ NothingLost

\* A message is kept in which no attribute is missing.
Keeps(letter, kept) ==
    /\ kept \in SdpType /\ kept # <<>>
    /\ Kept(sdp) \subseteq Kept(kept)
    /\ letter = "a" => P!Line \in Kept(kept)

\* What a line parser puts to one place of a section is kept with what was there.
LEMMA PutKeeps ==
  ASSUME sdp \in SdpType, NEW n \in DOMAIN sdp, NEW f \in P!Field,
         NEW lines \in Seq(Lines(offer)),
         f = "a" => Lines(sdp[n].a) \subseteq Lines(lines)
  PROVE  LET kept == [sdp EXCEPT ![n][f] = lines]
         IN  /\ kept \in SdpType /\ kept # <<>>
             /\ Kept(sdp) \subseteq Kept(kept)
             /\ f = "a" => Lines(lines) \subseteq Kept(kept)
<1> DEFINE kept == [sdp EXCEPT ![n][f] = lines]
           Part == [P!Field -> Seq(Lines(offer))]
<1>1. sdp \in Seq(Part) /\ sdp[n] \in Part
  BY DEF SdpType
<1>2. [sdp[n] EXCEPT ![f] = lines] \in Part
  BY <1>1
<1>3. kept = [sdp EXCEPT ![n] = [sdp[n] EXCEPT ![f] = lines]]
  OBVIOUS
<1>4. kept \in Seq(Part) /\ DOMAIN kept = DOMAIN sdp /\ kept # <<>>
  <2> HIDE DEF Part, kept
  <2> QED
    BY <1>1, <1>2, <1>3
<1>5. "a" \in P!Field
  BY DEF P!Field
<1>6. \A k \in DOMAIN sdp : kept[k].a = IF k = n /\ f = "a" THEN lines ELSE sdp[k].a
  <2> TAKE k \in DOMAIN sdp
  <2>1. sdp[k] \in Part
    BY <1>1
  <2>2. CASE k = n
    <3>1. kept[k] = [sdp[n] EXCEPT ![f] = lines]
      BY <1>3, <2>2
    <3> HIDE DEF kept
    <3> QED
      BY <1>1, <1>5, <2>2, <3>1
  <2>3. CASE k # n
    BY <1>3, <2>3
  <2> QED
    BY <2>2, <2>3
<1>7. Kept(sdp) \subseteq Kept(kept)
  <2> HIDE DEF kept
  <2> QED
    BY <1>4, <1>6 DEF Kept
<1>8. f = "a" => Lines(lines) \subseteq Kept(kept)
  <2> HIDE DEF kept
  <2> QED
    BY <1>4, <1>6 DEF Kept
<1> QED
  BY <1>4, <1>7, <1>8 DEF SdpType

\* A new section starts without attributes.
LEMMA SectionKeeps ==
  ASSUME sdp \in SdpType, NEW line \in Lines(offer)
  PROVE  LET kept == Append(sdp, [P!Nothing EXCEPT !.m = <<line>>])
         IN  kept \in SdpType /\ kept # <<>> /\ Kept(sdp) \subseteq Kept(kept)
<1> DEFINE Part == [P!Field -> Seq(Lines(offer))]
           new  == [P!Nothing EXCEPT !.m = <<line>>]
           kept == Append(sdp, new)
<1>1. P!Nothing \in Part
  BY DEF P!Nothing
<1>2. new \in Part
  <2>1. <<line>> \in Seq(Lines(offer))
    OBVIOUS
  <2> HIDE DEF Part
  <2>2. \A s \in Seq(Lines(offer)) : [P!Nothing EXCEPT !.m = s] \in Part
    BY <1>1 DEF Part
  <2> QED
    BY <2>1, <2>2
<1>3. sdp \in Seq(Part)
  BY DEF SdpType
<1>4. /\ kept \in Seq(Part) /\ kept # <<>>
      /\ \A k \in DOMAIN sdp : k \in DOMAIN kept /\ kept[k] = sdp[k]
  <2> HIDE DEF Part, new
  <2> QED
    BY <1>2, <1>3
<1>5. Kept(sdp) \subseteq Kept(kept)
  <2> HIDE DEF kept
  <2> QED
    BY <1>4 DEF Kept
<1> QED
  BY <1>4, <1>5 DEF SdpType

\* A line parser that keeps what it takes keeps the invariant.
LEMMA ParseKeeps ==
  ASSUME ParserInv, NEW letter, NEW kept, P!Parse(letter, kept),
         P!Line \in Lines(offer) => Keeps(letter, kept)
  PROVE  ParserInv'
<1>1. offer' = offer /\ step \in DOMAIN P!Calls /\ P!Calls[step].letter = letter
  BY DEF P!Parse, P!Running
<1>2. \A next_ \in DOMAIN P!Calls \cup {"error"} :
         P!GoTo(next_) => /\ step' \in DOMAIN P!Calls \cup {"end", "error"}
                          /\ step' = "end" => rest' = <<>> \/ Head(rest').is = "empty"
  BY CallsOK DEF P!GoTo, P!Ends
<1>3. CASE step' = "error" /\ UNCHANGED <<rest, sdp>>
  BY <1>1, <1>3 DEF ParserInv, NothingLost, SdpType
<1>4. CASE UNCHANGED <<rest, sdp>> /\ P!GoTo(P!Calls[step].past)
  <2>1. /\ step' \in DOMAIN P!Calls \cup {"end", "error"}
        /\ step' = "end" => rest' = <<>> \/ Head(rest').is = "empty"
    BY <1>1, <1>2, <1>4, CallsOK
  <2> QED
    BY <1>1, <1>4, <2>1 DEF ParserInv, NothingLost, SdpType
<1>5. CASE /\ P!Result(letter) = "OSIP_WF"
           /\ rest' = SubSeq(rest, P!From + 1, Len(rest))
           /\ sdp' = kept
           /\ P!GoTo(P!Calls[step].onto)
  <2>1. /\ step' \in DOMAIN P!Calls \cup {"end", "error"}
        /\ step' = "end" => rest' = <<>> \/ Head(rest').is = "empty"
    BY <1>1, <1>2, <1>5, CallsOK
  <2>2. P!From # 0 /\ P!Letter(P!Line) = letter
    BY <1>5 DEF P!Result
  <2>3. rest \in Seq(Lines(offer))
    BY DEF ParserInv
  <2>4. /\ P!From \in 1..Len(rest) /\ P!Line = rest[P!From]
        /\ \A k \in 1..(P!From - 1) : rest[k].is \in P!NoEqual
    BY <2>2, <2>3, FromOK
  <2>5. P!Line \in Lines(offer)
    BY <2>3, <2>4
  <2>6. Keeps(letter, kept)
    BY <2>5
  <2>7. /\ rest' \in Seq(Lines(offer))
        /\ \A k \in (P!From + 1)..Len(rest) : rest[k] \in Lines(rest')
    <3>1. /\ rest' \in Seq(Lines(offer)) /\ Len(rest') = Len(rest) - P!From
          /\ \A k \in 1..Len(rest') : rest'[k] = rest[P!From + k]
      BY <1>5, <2>3, <2>4
    <3>2. ASSUME NEW k \in (P!From + 1)..Len(rest) PROVE rest[k] \in Lines(rest')
      <4>1. k - P!From \in 1..Len(rest') /\ P!From + (k - P!From) = k
        BY <2>3, <2>4, <3>1
      <4>2. rest'[k - P!From] = rest[k]
        BY <3>1, <4>1
      <4> QED
        BY <3>1, <4>1, <4>2 DEF Lines
    <3> QED
      BY <3>1, <3>2
  <2>8. ASSUME NEW line \in Lines(offer), P!Letter(line) = "a"
        PROVE  line \in Lines(rest') \cup Kept(sdp')
    <3>1. CASE line \in Kept(sdp)
      BY <1>5, <2>6, <3>1 DEF Keeps
    <3>2. CASE line \in Lines(rest)
      <4>1. PICK k \in 1..Len(rest) : line = rest[k]
        BY <2>3, <3>2 DEF Lines
      <4>2. CASE k \in 1..(P!From - 1)
        BY <2>4, <2>8, <4>1, <4>2 DEF P!NoEqual, P!Letter
      <4>3. CASE k = P!From
        BY <1>5, <2>2, <2>4, <2>6, <2>8, <4>1, <4>3 DEF Keeps
      <4>4. CASE k \in (P!From + 1)..Len(rest)
        BY <2>7, <4>1, <4>4
      <4> QED
        BY <2>3, <2>4, <4>2, <4>3, <4>4
    <3> QED
      BY <2>8, <3>1, <3>2 DEF ParserInv, NothingLost
  <2> QED
    BY <1>1, <1>5, <2>1, <2>6, <2>7, <2>8 DEF ParserInv, NothingLost, Keeps, SdpType
<1> QED
  BY <1>3, <1>4, <1>5 DEF P!Parse

\* A field that is set to the line, or has it appended, has lines of the offer.
LEMMA SetKeeps ==
  ASSUME ParserInv, P!Line \in Lines(offer), NEW letter, letter # "a",
         NEW n \in DOMAIN sdp, NEW f \in P!Field \ {"a"}
  PROVE  Keeps(letter, P!Set(n, f))
<1>1. <<P!Line>> \in Seq(Lines(offer))
  OBVIOUS
<1> QED
  BY <1>1, PutKeeps DEF ParserInv, Keeps, P!Set

LEMMA AddKeeps ==
  ASSUME ParserInv, P!Line \in Lines(offer), NEW letter,
         NEW n \in DOMAIN sdp, NEW f \in P!Field, letter = "a" => f = "a"
  PROVE  Keeps(letter, P!Add(n, f))
<1> DEFINE lines == Append(sdp[n][f], P!Line)
<1>1. sdp[n][f] \in Seq(Lines(offer))
  <2>1. sdp[n] \in [P!Field -> Seq(Lines(offer))]
    BY DEF ParserInv, SdpType
  <2> QED
    BY <2>1
<1>2. /\ lines \in Seq(Lines(offer)) /\ P!Line \in Lines(lines)
      /\ Lines(sdp[n][f]) \subseteq Lines(lines)
  <2>1. /\ lines \in Seq(Lines(offer)) /\ Len(lines) = Len(sdp[n][f]) + 1
        /\ lines[Len(lines)] = P!Line
        /\ \A k \in 1..Len(sdp[n][f]) : lines[k] = sdp[n][f][k]
    BY <1>1
  <2>2. Len(lines) \in 1..Len(lines) /\ \A k \in 1..Len(sdp[n][f]) : k \in 1..Len(lines)
    BY <1>1, <2>1
  <2>3. DOMAIN lines = 1..Len(lines) /\ DOMAIN sdp[n][f] = 1..Len(sdp[n][f])
    BY <1>1, <2>1
  <2> HIDE DEF lines
  <2> QED
    BY <2>1, <2>2, <2>3 DEF Lines
<1>3. P!Add(n, f) = [sdp EXCEPT ![n][f] = lines]
  BY DEF P!Add
<1>4. /\ P!Add(n, f) \in SdpType /\ P!Add(n, f) # <<>>
      /\ Kept(sdp) \subseteq Kept(P!Add(n, f))
      /\ f = "a" => Lines(lines) \subseteq Kept(P!Add(n, f))
  <2> HIDE DEF lines
  <2>1. f = "a" => Lines(sdp[n].a) \subseteq Lines(lines)
    BY <1>2
  <2> QED
    <3>1. sdp \in SdpType
      BY DEF ParserInv
    <3> QED
      BY <1>2, <1>3, <2>1, <3>1, PutKeeps
<1> QED
  BY <1>2, <1>4 DEF Keeps

\* The parser keeps its invariant.
LEMMA ParserNext ==
  ASSUME ParserInv, P!Next
  PROVE  ParserInv'
<1>1. P!Session \in DOMAIN sdp /\ P!Latest \in DOMAIN sdp
  BY DEF ParserInv, SdpType, P!Session, P!Latest
<1>2. P!Field = {"v", "o", "s", "i", "u", "e", "p", "c", "b", "t", "z", "k", "a", "m"}
  BY DEF P!Field
<1>v. CASE P!parse_v
  BY <1>v, <1>1, <1>2, ParseKeeps, SetKeeps DEF P!parse_v
<1>o. CASE P!parse_o
  BY <1>o, <1>1, <1>2, ParseKeeps, SetKeeps DEF P!parse_o
<1>s. CASE P!parse_s
  BY <1>s, <1>1, <1>2, ParseKeeps, SetKeeps DEF P!parse_s
<1>i. CASE P!parse_i
  BY <1>i, <1>1, <1>2, ParseKeeps, SetKeeps DEF P!parse_i
<1>u. CASE P!parse_u
  BY <1>u, <1>1, <1>2, ParseKeeps, SetKeeps DEF P!parse_u
<1>e. CASE P!parse_e
  BY <1>e, <1>1, <1>2, ParseKeeps, AddKeeps DEF P!parse_e
<1>p. CASE P!parse_p
  BY <1>p, <1>1, <1>2, ParseKeeps, AddKeeps DEF P!parse_p
<1>c. CASE P!parse_c
  <2>1. P!Line \in Lines(offer) =>
            Keeps("c", IF P!Medias = {} THEN P!Set(P!Session, "c") ELSE P!Add(P!Latest, "c"))
    BY <1>1, <1>2, SetKeeps, AddKeeps
  <2> QED
    BY <1>c, <2>1, ParseKeeps DEF P!parse_c
<1>b. CASE P!parse_b
  BY <1>b, <1>1, <1>2, ParseKeeps, AddKeeps DEF P!parse_b
<1>t. CASE P!parse_t
  BY <1>t, <1>1, <1>2, ParseKeeps, AddKeeps DEF P!parse_t
<1>r. CASE P!parse_r
  BY <1>r, <1>1, <1>2, ParseKeeps, AddKeeps DEF P!parse_r
<1>z. CASE P!parse_z
  BY <1>z, <1>1, <1>2, ParseKeeps, SetKeeps DEF P!parse_z
<1>k. CASE P!parse_k
  BY <1>k, <1>1, <1>2, ParseKeeps, SetKeeps DEF P!parse_k
<1>a. CASE P!parse_a
  BY <1>a, <1>1, <1>2, ParseKeeps, AddKeeps DEF P!parse_a
<1>m. CASE P!parse_m
  <2>1. P!Line \in Lines(offer) =>
            Keeps("m", Append(sdp, [P!Nothing EXCEPT !.m = <<P!Line>>]))
    BY SectionKeeps DEF ParserInv, Keeps
  <2> QED
    BY <1>m, <2>1, ParseKeeps DEF P!parse_m
<1> QED
  BY <1>v, <1>o, <1>s, <1>i, <1>u, <1>e, <1>p, <1>c, <1>b, <1>t, <1>r, <1>z, <1>k, <1>a,
     <1>m DEF P!Next

-----------------------------------------------------------------------------
(* genSdp *)

SectionType ==
    [media : Media, port : BOOLEAN, track : TrackOf, pt : Int, rtpmap : SdpLine,
     fmtp : SdpLine \cup {NoLine}, dir : Direction]

TypesInv ==
    /\ camera = <<>> \/ camera \in Cameras
    /\ ports \subseteq Media
    /\ next \in 1..(Len(camera) + 1)
    /\ recv \in [Media -> BOOLEAN]
    /\ FoundOK(found)
    /\ dir \in [Media -> Direction \cup {Unset}]
    /\ sendPt \in [Media -> Int]
    /\ answer \in Seq(SectionType)

\* genSdp runs once the SDP was parsed to its end.
FateInv ==
    /\ fate \in {"parsing", "refused", "thrown", "answering"}
    /\ fate = "answering" => step = "end"
    /\ fate # "answering" => next = 1 /\ answer = <<>> /\ found.rtpmap = NoLine

\* A line found is one of the offer, or of a track genSdp is past.
TrackLines   == UNION {Lines(camera[k].sdp) : k \in 1..(next - 1)}
FoundInv == found.rtpmap \in Lines(offer) \cup TrackLines \cup {NoLine}

IsLast(i) == \A j \in DOMAIN answer : j > i => answer[j].media # answer[i].media

\* What is said of a section, before one asks what the parser has kept.
AnswerInv ==
    \A i \in DOMAIN answer :
        /\ answer[i].rtpmap # NoLine
        /\ Offered(answer[i].track.codec) # {} => FollowsOffer(answer[i], Lines(offer))
        /\ IsLast(i) => sendPt[answer[i].media] = answer[i].pt

CallInv ==
    ParserInv /\ TypesInv /\ FateInv /\ FoundInv /\ AnswerInv /\ OfferedIsAnswered
    /\ DirectionMirrored

\* The answer to a direction is a direction.
LEMMA MirroredOK == ASSUME NEW d \in Direction PROVE Mirrored[d] \in Direction
  BY DEF Mirrored, Direction

\* The track genSdp comes to.
LEMMA TrackOK ==
  ASSUME CallInv, next <= Len(camera)
  PROVE  /\ camera \in Cameras /\ camera \in Seq(TrackOf) /\ next \in DOMAIN camera
         /\ Track \in TrackOf /\ Track.sdp \in Seq(SdpLine)
         /\ \A i \in DOMAIN Track.sdp : Track.sdp[i].is # "dir"
<1>1. camera # <<>> /\ next \in 1..Len(camera)
  BY DEF CallInv, TypesInv
<1>2. camera \in Cameras
  BY <1>1 DEF CallInv, TypesInv
<1>3. camera \in Seq(TrackOf)
  BY <1>2, SdpAssumption
<1>4. next \in DOMAIN camera
  BY <1>1, <1>3
<1>5. Track \in TrackOf
  BY <1>3, <1>4 DEF Track
<1>6. Track.sdp \in Seq(SdpLine)
  BY <1>5 DEF TrackOf
<1>7. \A i \in DOMAIN Track.sdp : Track.sdp[i].is # "dir"
  BY <1>2, <1>4, CameraAssumption DEF Track
<1> QED
  BY <1>2, <1>3, <1>4, <1>5, <1>6, <1>7

\* What genSdp holds when it writes a section of the codec: lines as in the offer if
\* the offer has an rtpmap line of it.
RepeatsOffer(remote, codec) ==
    Offered(codec) # {} =>
        /\ remote.rtpmap \in Lines(offer) /\ codec \in remote.rtpmap.names
        /\ \E line \in Offered(codec) : line.pt = remote.pt
        /\ remote.rtpmap.is = "rtpmap" => remote.pt = remote.rtpmap.pt

\* What getSdpLine finds for a track is of the offer, or what it had before.
LEMMA RemoteOK ==
  ASSUME CallInv, next <= Len(camera)
  PROVE  LET remote == Search(offer, Track.codec, found)
         IN  /\ FoundOK(remote)
             /\ remote.rtpmap \in Lines(offer) \cup TrackLines \cup {NoLine}
             /\ RepeatsOffer(remote, Track.codec)
             /\ Offered(Track.codec) # {} => remote.rtpmap # NoLine
<1> DEFINE remote == Search(offer, Track.codec, found)
<1>1. offer \in Seq(SdpLine) /\ FoundOK(found)
  BY DEF CallInv, ParserInv, TypesInv
<1>2. /\ FoundOK(remote)
      /\ \/ /\ remote.rtpmap \in NamingLines(offer, Track.codec)
            /\ MappingLines(offer, Track.codec) # {} =>
                  /\ \E line \in MappingLines(offer, Track.codec) : line.pt = remote.pt
                  /\ remote.rtpmap.is = "rtpmap" => remote.pt = remote.rtpmap.pt
         \/ /\ remote.rtpmap = found.rtpmap
            /\ NamingLines(offer, Track.codec) = {}
  BY <1>1, SearchOK
<1>3. Offered(Track.codec) = MappingLines(offer, Track.codec)
  BY DEF Offered, MappingLines, NamingLines
<1> HIDE DEF remote
<1>4. CASE remote.rtpmap \in NamingLines(offer, Track.codec)
  <2>1. remote.rtpmap \in Lines(offer) /\ Track.codec \in remote.rtpmap.names
    BY <1>4 DEF NamingLines
  <2>2. remote.rtpmap # NoLine
    BY <2>1, NoLineFacts
  <2>3. RepeatsOffer(remote, Track.codec)
    <3> SUFFICES ASSUME Offered(Track.codec) # {}
                 PROVE  /\ \E line \in Offered(Track.codec) : line.pt = remote.pt
                        /\ remote.rtpmap.is = "rtpmap" => remote.pt = remote.rtpmap.pt
      BY <2>1 DEF RepeatsOffer
    <3>1. NamingLines(offer, Track.codec) # {}
      BY <1>4
    <3> QED
      BY <1>2, <1>3, <3>1
  <2> QED
    BY <1>2, <2>1, <2>2, <2>3 DEF remote
<1>5. CASE remote.rtpmap = found.rtpmap /\ NamingLines(offer, Track.codec) = {}
  <2>1. Offered(Track.codec) = {}
    BY <1>3, <1>5 DEF MappingLines
  <2> QED
    BY <1>2, <1>5, <2>1 DEF CallInv, FoundInv, RepeatsOffer, remote
<1> QED
  BY <1>2, <1>4, <1>5

\* What the offer states does not change.
LEMMA StatedKept ==
  ASSUME offer' = offer, NEW media PROVE Stated(media)' = Stated(media)
  BY DEF Stated, FirstSection

\* genSdp goes past a track: this may be done without a section when it has no
\* port or was not offered.
LEMMA PassedOver ==
  ASSUME CallInv, next <= Len(camera), next' = next + 1,
         UNCHANGED <<offer, ports, camera, recv, sendPt, answer>>,
         ~HasPort(Track.media) \/ Offered(Track.codec) = {}
  PROVE  AnswerInv' /\ OfferedIsAnswered' /\ DirectionMirrored'
<1>1. AnswerInv'
  BY DEF CallInv, AnswerInv, FollowsOffer, Offered, IsLast, Lines
<1>2. OfferedIsAnswered'
  <2>1. next \in Nat
    BY DEF CallInv, TypesInv
  <2>2. ASSUME NEW n \in 1..(next' - 1) PROVE n \in 1..(next - 1) \/ n = next
    BY <2>1
  <2> QED
    BY <2>2 DEF CallInv, OfferedIsAnswered, HasPort, Offered, Lines, Track
<1>3. DirectionMirrored'
  BY StatedKept DEF CallInv, DirectionMirrored
<1> QED
  BY <1>1, <1>2, <1>3

\* Or it writes a section.
LEMMA Written ==
  ASSUME CallInv, next <= Len(camera), next' = next + 1,
         UNCHANGED <<offer, ports, camera, recv>>,
         NEW media \in Media, NEW remote, FoundOK(remote), remote.rtpmap # NoLine,
         remote.rtpmap \in SdpLine, RepeatsOffer(remote, Track.codec),
         NEW fmtp \in SdpLine \cup {NoLine},
         NEW directions \in [Media -> Direction],
         Stated(media) # {} => directions[media] \in Stated(media),
         Write(media, remote, fmtp, directions)
  PROVE  /\ sendPt' \in [Media -> Int] /\ answer' \in Seq(SectionType)
         /\ AnswerInv' /\ OfferedIsAnswered' /\ DirectionMirrored'
<1> DEFINE d   == IF recv[media] THEN Mirrored[directions[media]] ELSE "sendonly"
           new == [media |-> media, port |-> HasPort(media), track |-> Track,
                   pt |-> remote.pt, rtpmap |-> remote.rtpmap, fmtp |-> fmtp, dir |-> d]
           n   == Len(answer)
<1>1. remote.rtpmap \in SdpLine
  OBVIOUS
<1>2. remote.pt \in Int
  BY DEF FoundOK, FoundType
<1>3. d \in Direction
  <2>1. directions[media] \in Direction /\ "sendonly" \in Direction
    BY DEF Direction
  <2> QED
    BY <2>1, MirroredOK
<1>4. HasPort(media) \in BOOLEAN /\ Track \in TrackOf
  BY TrackOK DEF HasPort
<1>5. new \in SectionType
  <2> HIDE DEF d
  <2> QED
    BY <1>1, <1>2, <1>3, <1>4 DEF SectionType
<1>6. answer' = Append(answer, new) /\ sendPt' = [sendPt EXCEPT ![media] = remote.pt]
  BY DEF Write
<1>7. answer \in Seq(SectionType) /\ sendPt \in [Media -> Int]
  BY DEF CallInv, TypesInv
<1>8. sendPt' \in [Media -> Int]
  BY <1>2, <1>6, <1>7
<1>9. new.media = media /\ new.track = Track /\ new.pt = remote.pt
      /\ new.rtpmap = remote.rtpmap /\ new.dir = d
  OBVIOUS
<1> HIDE DEF new
<1>10. /\ answer' \in Seq(SectionType) /\ n \in Nat
       /\ DOMAIN answer = 1..n /\ DOMAIN answer' = 1..(n + 1)
       /\ answer'[n + 1] = new
       /\ \A i \in 1..n : answer'[i] = answer[i]
  BY <1>5, <1>6, <1>7
<1> HIDE DEF n, d
<1>11. AnswerInv'
  <2>0. \A codec : Offered(codec)' = Offered(codec)
    BY DEF Offered, Lines
  <2> SUFFICES ASSUME NEW i \in DOMAIN answer'
               PROVE  /\ answer'[i].rtpmap # NoLine
                      /\ Offered(answer'[i].track.codec) # {} =>
                             FollowsOffer(answer'[i], Lines(offer))
                      /\ IsLast(i)' => sendPt'[answer'[i].media] = answer'[i].pt
    BY <2>0 DEF AnswerInv, FollowsOffer, Lines
  <2>1. CASE i = n + 1
    <3>1. answer'[i] = new
      BY <1>10, <2>1
    <3>2. sendPt'[answer'[i].media] = answer'[i].pt
      BY <1>6, <1>7, <1>9, <3>1
    <3>3. Offered(Track.codec) # {} => FollowsOffer(new, Lines(offer))
      BY <1>9 DEF RepeatsOffer, FollowsOffer, Offered
    <3> QED
      BY <1>9, <3>1, <3>2, <3>3
  <2>2. CASE i \in 1..n
    <3>1. answer'[i] = answer[i] /\ i \in DOMAIN answer
      BY <1>10, <2>2
    <3>2. ASSUME IsLast(i)' PROVE answer[i].media # media /\ IsLast(i)
      <4>1. n + 1 \in DOMAIN answer' /\ n + 1 > i
        BY <1>10, <2>2
      <4>2. answer[i].media # media
        BY <1>9, <1>10, <3>1, <3>2, <4>1 DEF IsLast
      <4>3. IsLast(i)
        BY <1>10, <3>1, <3>2 DEF IsLast
      <4> QED
        BY <4>2, <4>3
    <3>3. IsLast(i)' => sendPt'[answer'[i].media] = answer'[i].pt
      <4>0. answer[i] \in SectionType
        BY <1>7, <3>1
      <4>1. answer[i].media \in Media
        BY <4>0 DEF SectionType
      <4> QED
        BY <1>6, <1>7, <3>1, <3>2, <4>1 DEF CallInv, AnswerInv
    <3> QED
      BY <3>1, <3>3 DEF CallInv, AnswerInv
  <2> QED
    BY <1>10, <2>1, <2>2
<1>12. OfferedIsAnswered'
  <2> SUFFICES ASSUME NEW k \in 1..(next' - 1),
                      HasPort(camera[k].media), Offered(camera[k].codec) # {}
               PROVE  \E i \in DOMAIN answer' : answer'[i].track = camera[k]
    BY DEF OfferedIsAnswered, HasPort, Offered, Lines
  <2>1. next \in Nat
    BY DEF CallInv, TypesInv
  <2>2. CASE k = next
    <3>1. n + 1 \in DOMAIN answer' /\ answer'[n + 1].track = camera[k]
      BY <1>9, <1>10, <2>2 DEF Track
    <3> QED
      BY <3>1
  <2>3. CASE k \in 1..(next - 1)
    <3>1. PICK i \in DOMAIN answer : answer[i].track = camera[k]
      BY <2>3 DEF CallInv, OfferedIsAnswered
    <3> QED
      BY <1>10, <3>1
  <2> QED
    BY <2>1, <2>2, <2>3
<1>13. DirectionMirrored'
  <2> SUFFICES ASSUME NEW i \in DOMAIN answer',
                      recv[answer'[i].media], Stated(answer'[i].media) # {}
               PROVE  \E e \in Stated(answer'[i].media) : answer'[i].dir = Mirrored[e]
    BY StatedKept DEF DirectionMirrored
  <2>1. CASE i = n + 1
    BY <1>9, <1>10, <2>1 DEF d
  <2>2. CASE i \in 1..n
    BY <1>10, <2>2 DEF CallInv, DirectionMirrored
  <2>3. i \in 1..n \/ i = n + 1
    BY <1>10
  <2> QED
    BY <2>1, <2>2, <2>3
<1> QED
  BY <1>8, <1>10, <1>11, <1>12, <1>13

\* What is done outside the parser keeps what it has.
LEMMA ParserKept ==
  ASSUME ParserInv, UNCHANGED <<offer, rest, step, sdp>> PROVE ParserInv'
<1>1. Kept(sdp)' = Kept(sdp)
  BY DEF Kept, Lines
<1>2. NothingLost'
  BY <1>1 DEF ParserInv, NothingLost, Lines
<1>3. SdpType' = SdpType
  BY DEF SdpType, Lines
<1> QED
  BY <1>2, <1>3 DEF ParserInv, Lines

\* genSdp keeps the invariant.
LEMMA GenNext ==
  ASSUME CallInv, fate = "answering", Next, UNCHANGED <<parseVars, fate>>
  PROVE  CallInv'
<1> DEFINE remote == Search(offer, Track.codec, found)
           before == Directions(offer, dir)
<1>0. ParserInv' /\ FateInv'
  <2>1. offer' = offer /\ UNCHANGED <<rest, step, sdp, fate>>
    BY DEF parseVars, Next, SkipTrack, VideoTrack, AudioTrack
  <2>2. ParserInv'
    BY <2>1, ParserKept DEF CallInv
  <2>3. FateInv'
    BY <2>1 DEF CallInv, FateInv
  <2> QED
    BY <2>2, <2>3
<1>1. next <= Len(camera) /\ next' = next + 1 /\ UNCHANGED <<offer, ports, camera, recv>>
  BY DEF Next, SkipTrack, VideoTrack, AudioTrack
<1>2. /\ FoundOK(remote)
      /\ remote.rtpmap \in Lines(offer) \cup TrackLines \cup {NoLine}
      /\ RepeatsOffer(remote, Track.codec)
      /\ Offered(Track.codec) # {} => remote.rtpmap # NoLine
  BY <1>1, RemoteOK
<1>3. /\ before \in [Media -> Direction]
      /\ \A media \in Media : Stated(media) # {} => before[media] \in Stated(media)
  <2>1. offer \in Seq(SdpLine) /\ dir \in [Media -> Direction \cup {Unset}]
    BY DEF CallInv, ParserInv, TypesInv
  <2> QED
    BY <2>1, DirectionsOK, StatedIsFound
<1>4. next' \in 1..(Len(camera') + 1)
  BY <1>1 DEF CallInv, TypesInv
<1>5. TrackLines' = TrackLines \cup Lines(Track.sdp)
  <2>1. 1..(next' - 1) = 1..(next - 1) \cup {next}
    BY <1>1 DEF CallInv, TypesInv
  <2> QED
    BY <1>1, <2>1 DEF TrackLines, Lines, Track
<1> HIDE DEF remote, before
<1>6. CASE SkipTrack
  <2>1. ~HasPort(Track.media) /\ UNCHANGED <<found, dir, sendPt, answer>>
    BY <1>6 DEF SkipTrack, NoRoom
  <2>2. AnswerInv' /\ OfferedIsAnswered' /\ DirectionMirrored'
    BY <1>1, <2>1, PassedOver
  <2>3. TypesInv'
    BY <1>1, <1>4, <2>1 DEF CallInv, TypesInv, FoundOK
  <2>4. FoundInv'
    BY <1>1, <1>5, <2>1 DEF CallInv, FoundInv, Lines
  <2> QED
    BY <1>0, <2>2, <2>3, <2>4 DEF CallInv
<1>7. CASE AudioTrack
  <2>1. found' = remote /\ dir' = before
    BY <1>7 DEF AudioTrack, remote, before
  <2>2. FoundInv'
    BY <1>1, <1>2, <1>5, <2>1 DEF FoundInv, Lines
  <2>3. FoundOK(found') /\ dir' \in [Media -> Direction \cup {Unset}]
    BY <1>2, <1>3, <2>1
  <2>4. CASE Answers(remote)
    <3>1. Write("audio", remote, NoLine, before)
      BY <1>7, <2>1, <2>4 DEF AudioTrack, remote
    <3>2. /\ "audio" \in Media /\ remote.rtpmap # NoLine
          /\ remote.rtpmap \in SdpLine /\ NoLine \in SdpLine \cup {NoLine}
      BY <1>2, <2>4 DEF Media, Answers, FoundOK, FoundType
    <3>3. /\ sendPt' \in [Media -> Int] /\ answer' \in Seq(SectionType)
          /\ AnswerInv' /\ OfferedIsAnswered' /\ DirectionMirrored'
      BY <1>1, <1>2, <1>3, <3>1, <3>2, Written
    <3>4. TypesInv'
      BY <1>1, <1>4, <2>3, <3>3 DEF CallInv, TypesInv, FoundOK
    <3> QED
      BY <1>0, <2>2, <3>3, <3>4 DEF CallInv
  <2>5. CASE ~Answers(remote)
    <3>1. UNCHANGED <<sendPt, answer>> /\ Offered(Track.codec) = {}
      BY <1>2, <1>7, <2>5 DEF AudioTrack, remote, Answers
    <3>2. AnswerInv' /\ OfferedIsAnswered' /\ DirectionMirrored'
      BY <1>1, <3>1, PassedOver
    <3>3. TypesInv'
      BY <1>1, <1>4, <2>3, <3>1 DEF CallInv, TypesInv, FoundOK
    <3> QED
      BY <1>0, <2>2, <3>2, <3>3 DEF CallInv
  <2> QED
    BY <2>4, <2>5
<1>8. CASE VideoTrack
  <2> DEFINE own  == Search(Track.sdp, Track.codec, remote)
             fmtp == Renumbered(own, remote)
  <2>1. CASE Answers(remote)
    <3>1. /\ found' = [own EXCEPT !.fmtp = fmtp]
          /\ dir' = Directions(Track.sdp, before)
          /\ Write("video", remote, fmtp, dir')
      BY <1>8, <2>1 DEF VideoTrack, remote, before
    <3>2. /\ FoundOK(own)
          /\ \/ own.rtpmap \in Lines(Track.sdp)
             \/ own.rtpmap = remote.rtpmap
      BY <1>1, <1>2, TrackOK, SearchOK DEF NamingLines
    <3>3. fmtp \in SdpLine \cup {NoLine} /\ (fmtp = NoLine \/ fmtp.is = "fmtp")
      <4>1. CASE own.fmtp # NoLine /\ own.fmtp.pt = own.pt
        <5>1. /\ own.fmtp \in SdpLine /\ own.fmtp.is = "fmtp" /\ remote.pt \in Int
              /\ fmtp = [own.fmtp EXCEPT !.pt = remote.pt]
          <6> HIDE DEF own
          <6> QED
            BY <1>2, <3>2, <4>1 DEF FoundOK, FoundType, Renumbered
        <5> HIDE DEF own, fmtp
        <5> QED
          BY <5>1 DEF SdpLine
      <4>2. CASE ~(own.fmtp # NoLine /\ own.fmtp.pt = own.pt)
        <5>1. fmtp = own.fmtp
          BY <4>2 DEF Renumbered
        <5> HIDE DEF own, fmtp
        <5> QED
          BY <3>2, <5>1 DEF FoundOK, FoundType
      <4> QED
        BY <4>1, <4>2
    <3> HIDE DEF own, fmtp
    <3>4. FoundOK(found') /\ found'.rtpmap = own.rtpmap
      BY <3>1, <3>2, <3>3 DEF FoundOK, FoundType
    <3>5. /\ dir' \in [Media -> Direction]
          /\ \A media \in Media : dir'[media] = before[media]
      <4>1. before \in [Media -> Direction \cup {Unset}]
        BY <1>3
      <4>2. \A media \in Media : before[media] # Unset
        BY <1>3 DEF Direction, Unset
      <4>3. \A media \in Media : DirectionBelow(Track.sdp, media) = {}
        BY <1>1, TrackOK DEF DirectionBelow
      <4> QED
        BY <1>1, <3>1, <4>1, <4>2, <4>3, TrackOK, DirectionsOK
    <3>6. /\ "video" \in Media /\ remote.rtpmap # NoLine
          /\ remote.rtpmap \in SdpLine
      BY <1>2, <2>1 DEF Media, Answers, FoundOK, FoundType
    <3>7. Stated("video") # {} => dir'["video"] \in Stated("video")
      BY <1>3, <3>5, <3>6
    <3>8. /\ sendPt' \in [Media -> Int] /\ answer' \in Seq(SectionType)
          /\ AnswerInv' /\ OfferedIsAnswered' /\ DirectionMirrored'
      BY <1>1, <1>2, <3>1, <3>3, <3>5, <3>6, <3>7, Written
    <3>9. TypesInv'
      BY <1>1, <1>4, <3>4, <3>5, <3>8 DEF CallInv, TypesInv, FoundOK
    <3>10. FoundInv'
      BY <1>1, <1>2, <1>5, <3>2, <3>4 DEF FoundInv, Lines
    <3> QED
      BY <1>0, <3>8, <3>9, <3>10 DEF CallInv
  <2>2. CASE ~Answers(remote)
    <3>1. /\ UNCHANGED <<sendPt, answer>> /\ Offered(Track.codec) = {}
          /\ found' = remote /\ dir' = before
      BY <1>2, <1>8, <2>2 DEF VideoTrack, remote, before, Answers
    <3>2. AnswerInv' /\ OfferedIsAnswered' /\ DirectionMirrored'
      BY <1>1, <3>1, PassedOver
    <3>3. FoundOK(found') /\ dir' \in [Media -> Direction \cup {Unset}]
      BY <1>2, <1>3, <3>1
    <3>4. TypesInv'
      BY <1>1, <1>4, <3>1, <3>3 DEF CallInv, TypesInv, FoundOK
    <3>5. FoundInv'
      BY <1>1, <1>2, <1>5, <3>1 DEF FoundInv, Lines
    <3> QED
      BY <1>0, <3>2, <3>4, <3>5 DEF CallInv
  <2> QED
    BY <2>1, <2>2
<1> QED
  BY <1>6, <1>7, <1>8 DEF Next

-----------------------------------------------------------------------------
(* The call *)

\* The invariant holds when the body comes in,
LEMMA CallInitOK == CallInit => CallInv
<1> SUFFICES ASSUME CallInit PROVE CallInv
  OBVIOUS
<1>1. /\ offer \in Seq(SdpLine) /\ ports = {} /\ camera = <<>> /\ next = 1
      /\ recv = [media \in Media |-> FALSE]
      /\ found = [pt |-> 0, rtpmap |-> NoLine, fmtp |-> NoLine]
      /\ dir = [media \in Media |-> Unset] /\ answer = <<>>
      /\ sendPt = [audio |-> 0, video |-> 99]
  BY SdpAssumption DEF CallInit, Init
<1>2. rest = offer /\ step = "v" /\ sdp = <<P!Nothing>> /\ fate = "parsing"
  BY DEF CallInit, P!Init
<1>3. ParserInv
  <2>1. rest \in Seq(Lines(offer))
    BY <1>1, <1>2 DEF Lines
  <2>2. P!Nothing \in [P!Field -> Seq(Lines(offer))]
    BY DEF P!Nothing
  <2>3. sdp \in SdpType /\ sdp # <<>>
    BY <1>2, <2>2 DEF SdpType
  <2>4. NothingLost
    BY <1>2 DEF NothingLost
  <2>5. step \in DOMAIN P!Calls \cup {"end", "error"} /\ step # "end"
    BY <1>2, CallsOK
  <2> QED
    BY <1>1, <2>1, <2>3, <2>4, <2>5 DEF ParserInv
<1>4. TypesInv
  <2>1. sendPt \in [Media -> Int]
    BY <1>1 DEF Media
  <2>2. FoundOK(found)
    BY <1>1 DEF FoundOK, FoundType
  <2>3. recv \in [Media -> BOOLEAN] /\ dir \in [Media -> Direction \cup {Unset}]
    BY <1>1
  <2>4. next \in 1..(Len(camera) + 1) /\ answer \in Seq(SectionType)
    BY <1>1
  <2> QED
    BY <1>1, <2>1, <2>2, <2>3, <2>4 DEF TypesInv
<1>5. FateInv /\ FoundInv
  BY <1>1, <1>2 DEF FateInv, FoundInv
<1>6. AnswerInv /\ OfferedIsAnswered /\ DirectionMirrored
  BY <1>1 DEF AnswerInv, OfferedIsAnswered, DirectionMirrored
<1> QED
  BY <1>3, <1>4, <1>5, <1>6 DEF CallInv

\* What parsing and the end of Init leave to genSdp.
LEMMA NoSectionYet ==
  ASSUME CallInv, fate # "answering", UNCHANGED <<offer, next, answer>>
  PROVE  AnswerInv' /\ OfferedIsAnswered' /\ DirectionMirrored'
<1>1. next = 1 /\ answer = <<>>
  BY DEF CallInv, FateInv
<1> QED
  BY <1>1 DEF AnswerInv, OfferedIsAnswered, DirectionMirrored

\* A step of the parser leaves the answer as it is.
LEMMA VarsKept ==
  ASSUME CallInv, UNCHANGED vars
  PROVE  TypesInv' /\ FoundInv' /\ AnswerInv' /\ OfferedIsAnswered' /\ DirectionMirrored'
<1>1. TypesInv'
  BY DEF CallInv, TypesInv, vars, FoundOK
<1>2. FoundInv' /\ AnswerInv'
  BY DEF CallInv, FoundInv, TrackLines, AnswerInv, FollowsOffer, Offered, vars, IsLast, Lines
<1>3. OfferedIsAnswered'
  BY DEF CallInv, OfferedIsAnswered, vars, HasPort, Offered, Lines
<1>4. DirectionMirrored'
  BY StatedKept DEF CallInv, DirectionMirrored, vars
<1> QED
  BY <1>1, <1>2, <1>3, <1>4

\* and every step keeps it.
LEMMA CallNextOK == CallInv /\ [CallNext]_callVars => CallInv'
<1> SUFFICES ASSUME CallInv, [CallNext]_callVars PROVE CallInv'
  OBVIOUS
<1>1. CASE Parses
  <2>1. ParserInv'
    BY <1>1, ParserNext DEF Parses, CallInv
  <2>2. fate # "answering"
    <3>1. step # "end"
      BY <1>1, CallsOK DEF Parses, P!Next, P!Running, P!Parse, P!parse_v, P!parse_o, P!parse_s,
         P!parse_i, P!parse_u, P!parse_e, P!parse_p, P!parse_c, P!parse_b, P!parse_t,
         P!parse_r, P!parse_z, P!parse_k, P!parse_a, P!parse_m
    <3> QED
      BY <3>1 DEF CallInv, FateInv
  <2>3. FateInv'
    BY <1>1, <2>2 DEF CallInv, FateInv, Parses, vars
  <2> QED
    BY <1>1, <2>1, <2>3, VarsKept DEF Parses, CallInv
<1>2. CASE InitRefuses \/ InitThrows
  <2>1. UNCHANGED <<vars, rest, step, sdp>> /\ fate = "parsing" /\ fate' \in {"refused", "thrown"}
    BY <1>2 DEF InitRefuses, InitThrows, parseVars
  <2>2. ParserInv'
    BY <2>1, ParserKept DEF CallInv, vars
  <2>3. FateInv'
    BY <2>1 DEF CallInv, FateInv, vars
  <2> QED
    BY <2>1, <2>2, <2>3, VarsKept DEF CallInv
<1>3. CASE InitGoesOn
  <2>1. /\ UNCHANGED <<rest, step, sdp>> /\ step = "end"
        /\ fate = "parsing" /\ fate' = "answering" /\ Begin(Present)
    BY <1>3 DEF InitGoesOn, parseVars, P!Accepted
  <2>2. /\ camera' \in Cameras /\ ports' \subseteq Media /\ recv' \in [Media -> BOOLEAN]
        /\ UNCHANGED <<offer, next, dir, sendPt, answer>>
        /\ \E pt \in Garbage : found' = [found EXCEPT !.pt = pt]
    BY <2>1 DEF Begin, Present
  <2>3. ParserInv'
    BY <2>1, <2>2, ParserKept DEF CallInv
  <2>4. next = 1 /\ answer = <<>> /\ found.rtpmap = NoLine
    BY <2>1 DEF CallInv, FateInv
  <2>5. found'.rtpmap = NoLine /\ FoundOK(found')
    BY <2>2, <2>4, SdpAssumption DEF CallInv, TypesInv, FoundOK, FoundType
  <2>6. FateInv' /\ FoundInv'
    BY <2>1, <2>2, <2>5 DEF FateInv, FoundInv
  <2>7. TypesInv'
    <3>1. camera' \in Seq(TrackOf)
      BY <2>2, SdpAssumption
    <3>2. next' \in 1..(Len(camera') + 1)
      BY <2>2, <2>4, <3>1
    <3> QED
      BY <2>2, <2>5, <3>2 DEF CallInv, TypesInv, FoundOK
  <2> QED
    BY <2>1, <2>2, <2>3, <2>6, <2>7, NoSectionYet DEF CallInv
<1>4. CASE GenSdp
  BY <1>4, GenNext DEF GenSdp
<1>5. CASE UNCHANGED callVars
  <2>1. UNCHANGED <<vars, offer, rest, step, sdp, next, answer, found, fate>>
    BY <1>5 DEF callVars, vars, parseVars
  <2>2. ParserInv'
    BY <2>1, ParserKept DEF CallInv
  <2>3. FateInv'
    BY <2>1 DEF CallInv, FateInv
  <2> QED
    BY <2>1, <2>2, <2>3, VarsKept DEF CallInv
<1> QED
  BY <1>1, <1>2, <1>3, <1>4, <1>5 DEF CallNext

\* The invariant the theorems rest on.
THEOREM CallInvariant == Spec => []CallInv
<1>1. CallInit => CallInv
  BY CallInitOK
<1>2. CallInv /\ [CallNext]_callVars => CallInv'
  BY CallNextOK
<1> QED
  BY <1>1, <1>2, PTL DEF Spec

\* CallTypeOK: what the call, the parser and genSdp keep has its type.
THEOREM CallTypes == Spec => []CallTypeOK
<1>1. CallInv => CallTypeOK
  <2> SUFFICES ASSUME CallInv PROVE CallTypeOK
    OBVIOUS
  <2>1. ASSUME NEW i \in DOMAIN answer
        PROVE  answer[i].media \in Media /\ answer[i].dir \in Direction
    <3>1. answer[i] \in SectionType
      BY DEF CallInv, TypesInv
    <3> QED
      BY <3>1 DEF SectionType
  <2>2. /\ found.rtpmap \in Lines(offer) \cup {NoLine}
                           \cup UNION {Lines(camera[n].sdp) : n \in 1..(next - 1)}
        /\ \A i \in DOMAIN answer : answer[i].rtpmap # NoLine
    BY DEF CallInv, FoundInv, TrackLines, AnswerInv
  <2>3. /\ ports \subseteq Media /\ next \in 1..(Len(camera) + 1)
        /\ recv \in [Media -> BOOLEAN] /\ dir \in [Media -> Direction \cup {Unset}]
        /\ sendPt \in [Media -> Int]
        /\ found.fmtp = NoLine \/ found.fmtp.is = "fmtp"
    BY DEF CallInv, TypesInv, FoundOK
  <2>4. TypeOK
    BY ONLY <2>1, <2>2, <2>3 DEF TypeOK
  <2> QED
    BY <2>4 DEF CallInv, ParserInv, FateInv, SdpType, CallTypeOK
<1> QED
  BY <1>1, CallInvariant, PTL

\* OfferedIsAnswered: a track of the camera whose codec and media the caller offers
\* gets a section.
THEOREM EveryOfferIsAnswered == Spec => []OfferedIsAnswered
<1>1. CallInv => OfferedIsAnswered
  BY DEF CallInv
<1> QED
  BY <1>1, CallInvariant, PTL

\* DirectionMirrored: a section of the answer has the direction opposite to the one
\* the first section of its media in the offer states.
THEOREM DirectionIsMirrored == Spec => []DirectionMirrored
<1>1. CallInv => DirectionMirrored
  BY DEF CallInv
<1> QED
  BY <1>1, CallInvariant, PTL

\* AnsweredAsOffered: a section for a codec the offer has an rtpmap line of repeats a
\* line that names it, under the payload type of such an rtpmap line, which the parser
\* has kept, and which is also what is sent.
THEOREM AnswersAsOffered == Spec => []AnsweredAsOffered
<1>1. CallInv => AnsweredAsOffered
  <2> SUFFICES ASSUME CallInv, NEW i \in DOMAIN answer
               PROVE  /\ Offered(answer[i].track.codec) # {} =>
                             FollowsOffer(answer[i], IF GoesOn THEN Lines(offer) ELSE Parsed)
                      /\ (\A j \in DOMAIN answer : j > i => answer[j].media # answer[i].media)
                         => sendPt[answer[i].media] = answer[i].pt
    BY DEF AnsweredAsOffered
  <2>1. /\ Offered(answer[i].track.codec) # {} => FollowsOffer(answer[i], Lines(offer))
        /\ IsLast(i) => sendPt[answer[i].media] = answer[i].pt
    BY DEF CallInv, AnswerInv
  <2>2. CASE ~GoesOn
    <3>1. fate = "answering"
      <4>1. answer # <<>>
        OBVIOUS
      <4> QED
        BY <4>1 DEF CallInv, FateInv
    <3>2. rest = <<>> \/ Head(rest).is = "empty"
      BY <3>1 DEF CallInv, FateInv, ParserInv
    <3>3. rest \in Seq(Lines(offer)) /\ Len(rest) <= 1
      BY <2>2 DEF CallInv, ParserInv, GoesOn
    <3>4. \A line \in Lines(rest) : line.is = "empty"
      BY <3>2, <3>3 DEF Lines
    <3>5. ASSUME NEW codec, NEW line \in Offered(codec) PROVE line \in Parsed
      <4>1. line \in Lines(offer) /\ line.is = "rtpmap"
        BY DEF Offered
      <4>2. line \in Lines(rest) \cup Kept(sdp)
        BY <4>1 DEF CallInv, ParserInv, NothingLost, P!Letter
      <4>3. line \in Kept(sdp)
        BY <3>4, <4>1, <4>2
      <4> QED
        BY <4>3 DEF Kept, Parsed
    <3> QED
      BY <2>1, <2>2, <3>5 DEF FollowsOffer, IsLast
  <2>3. CASE GoesOn
    BY <2>1, <2>3 DEF IsLast
  <2> QED
    BY <2>2, <2>3
<1> QED
  BY <1>1, CallInvariant, PTL

-----------------------------------------------------------------------------
(* The parser and the grammar *)

\* how many lines the parser has read, and what it looks at next
Taken   == Len(offer) - Len(rest)
Real(n) == offer[n].is \notin P!NoEqual
IsNext(n) == /\ n \in DOMAIN offer /\ n > Taken /\ Real(n)
             /\ \A k \in (Taken + 1)..(n - 1) : ~Real(k)

\* the lines read, those of the section that is read, and a letter among them
Behind  == {n \in P!Proper : n <= Taken}
Current == {n \in Behind : P!SameSection(n, Taken)}
Read(l) == \E n \in Behind : P!L(n) = l

SessionSteps == {"v", "s1", "o", "s2", "i", "u", "e", "p", "c", "b", "t", "r", "t2", "z", "k",
                 "a"}
MediaSteps   == {"mi", "mc", "mb", "mk", "ma"}

\* the last place in the order a line of the section may have when a call is made
Upto ==
    [v |-> 0, s1 |-> 1, o |-> 2, s2 |-> 2, i |-> 2, u |-> 3, e |-> 5, p |-> 6, c |-> 6,
     b |-> 8, t |-> 8, r |-> 9, t2 |-> 9, z |-> 9, k |-> 10, a |-> 12,
     mi |-> 0, mc |-> 7, mb |-> 8, mk |-> 8, ma |-> 12, m |-> 12]

\* the letters that may not follow when a call is made
Passed ==
    [v  |-> {},
     s1 |-> {"v"},
     o  |-> {"v", "s"},
     s2 |-> {"v", "o"},
     i  |-> {"v", "o", "s"},
     u  |-> {"v", "o", "s", "i"},
     e  |-> {"v", "o", "s", "i", "u"},
     p  |-> {"v", "o", "s", "i", "u", "e"},
     c  |-> {"v", "o", "s", "i", "u", "e", "p"},
     b  |-> {"v", "o", "s", "i", "u", "e", "p", "c"},
     t  |-> {"v", "o", "s", "i", "u", "e", "p", "c", "b"},
     r  |-> {"v", "o", "s", "i", "u", "e", "p", "c", "b"},
     t2 |-> {"v", "o", "s", "i", "u", "e", "p", "c", "b", "r"},
     z  |-> {"v", "o", "s", "i", "u", "e", "p", "c", "b", "r", "t"},
     k  |-> {"v", "o", "s", "i", "u", "e", "p", "c", "b", "r", "t", "z"},
     a  |-> {"v", "o", "s", "i", "u", "e", "p", "c", "b", "r", "t", "z", "k"},
     m  |-> {"v", "o", "s", "i", "u", "e", "p", "c", "b", "r", "t", "z", "k", "a"},
     mi |-> {}, mc |-> {"i"}, mb |-> {"i", "c"}, mk |-> {"i", "c", "b"},
     ma |-> {"i", "c", "b", "k"}]

\* What was read is the beginning of an SDP.
BehindInv ==
    /\ Taken > 0 => Real(Taken)
    /\ \A k \in 1..Taken : ~P!EndsAt(k)
    /\ \A n \in Behind : P!WellPlaced(n)
    /\ \A n \in Behind : P!L(n) = "r" => \E j \in P!Proper : j < n /\ P!L(j) = "t"
    /\ step # "v" => Read("v")
    /\ step \notin {"v", "s1", "o"} => Read("o")
    /\ step \in P!MayEnd \cup {"end"} => Read("t")
    /\ sdp[1].s # <<>> <=> Read("s")

\* A call is made where the section is, and the SDP does not end there.
StepInv ==
    /\ step = "v" => Taken = 0
    /\ step \in SessionSteps => ~P!InMedia(Taken)
    /\ step \in MediaSteps => P!InMedia(Taken)
    /\ step \in P!MayEnd => rest # <<>> /\ Head(rest).is # "empty"
    /\ \A j \in Current : /\ P!Order[P!L(j)] <= Upto[step]
                          /\ step = "o" => P!L(j) # "o"
                          /\ step \in {"s1", "s2"} => P!L(j) # "s"

\* A line that was passed over, or can no more be taken, does not follow what was read.
LateInv ==
    \A n \in DOMAIN offer :
        IsNext(n) /\ P!L(n) \in Passed[step] /\ P!InPlace(P!L(n), P!InMedia(Taken)) =>
            \E j \in Current : ~P!Follows(P!L(n), P!L(j), P!InMedia(Taken))

GrammarInv ==
    /\ Taken \in 0..Len(offer) /\ rest = SubSeq(offer, Taken + 1, Len(offer))
    /\ step = "error" => ~P!Grammatical
    /\ step # "error" => BehindInv
    /\ step \in DOMAIN P!Calls => StepInv /\ LateInv

\* There is no line with a letter ahead when none is found.
LEMMA FromNone ==
  ASSUME NEW T, rest \in Seq(T), P!From = 0
  PROVE  \A k \in 1..Len(rest) : rest[k].is \in P!NoEqual
<1> DEFINE some == {i \in 1..Len(rest) : rest[i].is \notin P!NoEqual}
<1>1. P!From = IF some # {} THEN Min(some) ELSE 0
  BY DEF P!From, P!SelectInSeq, P!Min, Min
<1>2. some # {} => Min(some) \in some
  <2>1. some \subseteq Nat
    OBVIOUS
  <2> HIDE DEF some
  <2> QED
    BY <2>1, LeastOf
<1>3. some = {}
  BY <1>1, <1>2
<1> QED
  BY <1>3

\* What the parser looks at is the next line of the offer that has a letter.
LEMMA AheadOK ==
  ASSUME ParserInv, GrammarInv
  PROVE  /\ P!From # 0 => /\ P!From \in 1..Len(rest) /\ IsNext(Taken + P!From)
                          /\ P!Line = offer[Taken + P!From]
         /\ P!From = 0 => \A k \in (Taken + 1)..Len(offer) : ~Real(k)
<1>1. /\ offer \in Seq(SdpLine) /\ rest \in Seq(Lines(offer)) /\ Taken \in 0..Len(offer)
      /\ rest = SubSeq(offer, Taken + 1, Len(offer))
  BY DEF ParserInv, GrammarInv
<1>2. /\ Len(rest) = Len(offer) - Taken
      /\ \A k \in 1..Len(rest) : rest[k] = offer[Taken + k]
  <2>1. /\ Taken \in Nat /\ Len(offer) \in Nat /\ Taken + 1 <= Len(offer) + 1
        /\ \A k \in Taken + 1..Len(offer) : offer[k] \in SdpLine
    BY <1>1
  <2> HIDE DEF Taken
  <2>2. /\ Len(rest) = Len(offer) - Taken
        /\ \A k \in 1..Len(rest) : rest[k] = offer[(Taken + 1) + k - 1]
    BY <1>1, <2>1
  <2>3. \A k \in 1..Len(rest) : (Taken + 1) + k - 1 = Taken + k
    BY <2>1, <2>2
  <2> QED
    BY <2>2, <2>3
<1>3. \A k \in (Taken + 1)..Len(offer) : /\ k - Taken \in 1..Len(rest)
                                         /\ rest[k - Taken] = offer[k]
  <2> TAKE k \in (Taken + 1)..Len(offer)
  <2>1. k - Taken \in 1..Len(rest) /\ Taken + (k - Taken) = k
    BY <1>1, <1>2
  <2> QED
    BY <1>2, <2>1
<1>4. ASSUME P!From = 0, NEW k \in (Taken + 1)..Len(offer) PROVE ~Real(k)
  BY <1>1, <1>3, <1>4, FromNone DEF Real
<1>5. ASSUME P!From # 0
      PROVE  /\ P!From \in 1..Len(rest) /\ IsNext(Taken + P!From)
             /\ P!Line = offer[Taken + P!From]
  <2>1. P!From \in 1..Len(rest) /\ P!Line = rest[P!From]
        /\ rest[P!From].is \notin P!NoEqual
        /\ \A k \in 1..(P!From - 1) : rest[k].is \in P!NoEqual
    <3>1. DOMAIN rest = 1..Len(rest)
      BY <1>1
    <3> QED
      BY <1>1, <1>5, <3>1, FromOK
  <2>2. P!Line = offer[Taken + P!From] /\ P!Line.is \notin P!NoEqual
    <3>1. P!Line = offer[Taken + P!From]
      BY <1>2, <2>1
    <3> QED
      BY <1>2, <2>1, <3>1
  <2>3. Taken + P!From \in DOMAIN offer /\ Taken + P!From > Taken
    BY <1>1, <1>2, <2>1
  <2>4. ASSUME NEW k \in (Taken + 1)..(Taken + P!From - 1) PROVE ~Real(k)
    <3>1. k \in (Taken + 1)..Len(offer) /\ k - Taken \in 1..(P!From - 1)
      BY <1>1, <1>2, <2>1, <2>3
    <3> QED
      BY <1>3, <2>1, <3>1 DEF Real
  <2> QED
    <3>1. IsNext(Taken + P!From)
      <4>1. Real(Taken + P!From)
        BY <2>2 DEF Real
      <4>2. Taken \in Int /\ P!From \in Int
        BY <1>1, <2>1
      <4>3. \A k \in (Taken + 1)..(Taken + P!From - 1) : ~Real(k)
        BY <2>4, <4>2
      <4> QED
        BY <2>3, <4>1, <4>2, <4>3 DEF IsNext
    <3> QED
      BY <2>1, <2>2, <3>1
<1> QED
  BY <1>4, <1>5

\* A time was read only when the SDP may end.
LEMMA TimeMeansMayEnd ==
  ASSUME GrammarInv, step \in DOMAIN P!Calls, Read("t") PROVE step \in P!MayEnd
<1>1. BehindInv /\ StepInv
  <2>1. step # "error"
    BY CallsOK
  <2> QED
    BY <2>1 DEF GrammarInv
<1>2. PICK j \in Behind : P!L(j) = "t"
  BY DEF Read
<1>3. DOMAIN P!Calls \ P!MayEnd = {"v", "s1", "o", "s2", "i", "u", "e", "p", "c", "b", "t"}
  BY DEF P!Calls, P!MayEnd
<1>4. ASSUME step \notin P!MayEnd PROVE FALSE
  <2>1. step \in {"v", "s1", "o", "s2", "i", "u", "e", "p", "c", "b", "t"}
    BY <1>3, <1>4
  <2>2. ~P!InMedia(Taken)
    BY <1>1, <2>1 DEF StepInv, SessionSteps
  <2>3. j \in Current
    BY <1>2, <2>2 DEF Behind, Current, P!InMedia, P!SameSection
  <2>4. P!Order["t"] <= Upto[step]
    BY <1>1, <1>2, <2>3 DEF StepInv
  <2>5. P!Order["t"] = 9
    BY DEF P!Order
  <2>6. Upto[step] \in 0..8
    BY <2>1 DEF Upto
  <2> QED
    BY <2>4, <2>5, <2>6
<1> QED
  BY <1>4

\* The SDP has no end before the next line.
LEMMA NotEnded ==
  ASSUME ParserInv, GrammarInv, step \in DOMAIN P!Calls,
         NEW n \in DOMAIN offer, n > Taken, \A k \in (Taken + 1)..(n - 1) : ~Real(k)
  PROVE  n \in P!Extent
<1>1. BehindInv /\ StepInv
  <2>1. step # "error"
    BY CallsOK
  <2> QED
    BY <2>1 DEF GrammarInv
<1>2. /\ offer \in Seq(SdpLine) /\ rest \in Seq(Lines(offer)) /\ Taken \in 0..Len(offer)
      /\ rest = SubSeq(offer, Taken + 1, Len(offer))
  BY DEF ParserInv, GrammarInv
<1>3. ASSUME NEW k \in 1..n, P!EndsAt(k) PROVE FALSE
  <2>1. /\ k > 1 /\ offer[k].is = "empty" /\ Real(k - 1)
        /\ \E j \in 1..(k - 1) : offer[j].is = "t"
    BY <1>3 DEF P!EndsAt, Real
  <2>2. k > Taken
    BY <1>1, <1>2, <1>3 DEF BehindInv
  <2>3. k - 1 = Taken
    <3>1. ~(k - 1 \in (Taken + 1)..(n - 1))
      BY <2>1
    <3> QED
      BY <1>2, <2>2, <3>1
  <2>4. PICK j \in 1..Taken : offer[j].is = "t"
    BY <2>1, <2>3
  <2>5. Read("t")
    <3>1. j \in DOMAIN offer /\ \A i \in 1..j : i \in 1..Taken
      BY <1>2, <2>4
    <3>2. j \in P!Extent
      BY <1>1, <3>1 DEF BehindInv, P!Extent
    <3>3. j \in P!Proper
      BY <2>4, <3>2 DEF P!Proper, P!NoEqual
    <3> QED
      BY <2>4, <3>3 DEF Read, Behind, P!L, P!Letter
  <2>6. rest # <<>> /\ Head(rest).is # "empty"
    BY <1>1, <2>5, TimeMeansMayEnd DEF StepInv
  <2>7. Head(rest) = offer[Taken + 1]
    BY <1>2, <2>6
  <2> QED
    BY <1>2, <2>1, <2>3, <2>6, <2>7
<1> QED
  BY <1>3 DEF P!Extent

\* What the next line is added to.
LEMMA NextBehind ==
  ASSUME ParserInv, GrammarInv, step \in DOMAIN P!Calls, NEW n, IsNext(n)
  PROVE  /\ n \in P!Proper /\ n \in Nat /\ Taken \in Nat /\ Taken < n
         /\ \A k : k \in P!Proper /\ k <= n <=> k \in Behind \/ k = n
         /\ P!SameSection(n, n)
         /\ P!L(n) # "m" => /\ P!InMedia(n) <=> P!InMedia(Taken)
                            /\ \A j \in Behind : P!SameSection(j, n) <=> j \in Current
         /\ P!L(n) = "m" => /\ P!InMedia(n)
                            /\ \A j \in Behind : ~P!SameSection(j, n)
<1>1. n \in DOMAIN offer /\ n > Taken /\ Real(n) /\ \A k \in (Taken + 1)..(n - 1) : ~Real(k)
  BY DEF IsNext
<1>2. n \in P!Proper
  BY <1>1, NotEnded DEF P!Proper, Real
<1>3. offer \in Seq(SdpLine) /\ Taken \in Nat /\ n \in Nat
  BY <1>1 DEF ParserInv, GrammarInv
<1>4. P!Proper \subseteq Nat
  BY <1>3 DEF P!Proper, P!Extent
<1>5. ASSUME NEW k \in P!Proper, k <= n, k # n PROVE k <= Taken
  <2>1. ~(k \in (Taken + 1)..(n - 1))
    BY <1>1 DEF P!Proper, Real
  <2> QED
    BY <1>3, <1>4, <1>5, <2>1
<1>6. \A k : k \in P!Proper /\ k <= n <=> k \in Behind \/ k = n
  BY <1>1, <1>2, <1>3, <1>4, <1>5 DEF Behind
<1>7. P!SameSection(n, n)
  BY <1>3, <1>4 DEF P!SameSection
<1>8. ASSUME P!L(n) # "m"
      PROVE  /\ P!InMedia(n) <=> P!InMedia(Taken)
             /\ \A j \in Behind : P!SameSection(j, n) <=> j \in Current
  BY <1>6, <1>8 DEF P!InMedia, P!SameSection, Current, Behind
<1>9. ASSUME P!L(n) = "m"
      PROVE  P!InMedia(n) /\ \A j \in Behind : ~P!SameSection(j, n)
  BY <1>1, <1>2, <1>3, <1>4, <1>6, <1>9 DEF P!InMedia, P!SameSection, Behind
<1> QED
  BY <1>1, <1>2, <1>3, <1>6, <1>7, <1>8, <1>9

\* Two kinds of calls, beside the one that may follow either.
LEMMA StepsOK ==
  /\ DOMAIN P!Calls = SessionSteps \cup MediaSteps \cup {"m"}
  /\ SessionSteps \cap MediaSteps = {} /\ "m" \notin SessionSteps \cup MediaSteps
  /\ P!MayEnd \subseteq DOMAIN P!Calls /\ "t" \notin P!MayEnd
  /\ DOMAIN P!Calls \ P!MayEnd = {"v", "s1", "o", "s2", "i", "u", "e", "p", "c", "b", "t"}
<1>1. DOMAIN P!Calls = SessionSteps \cup MediaSteps \cup {"m"}
  BY DEF P!Calls, SessionSteps, MediaSteps
<1>2. /\ SessionSteps \cap MediaSteps = {} /\ "m" \notin SessionSteps \cup MediaSteps
  BY DEF SessionSteps, MediaSteps
<1>3. P!MayEnd \subseteq SessionSteps \cup MediaSteps \cup {"m"} /\ "t" \notin P!MayEnd
  BY DEF P!MayEnd, SessionSteps, MediaSteps
<1>4. DOMAIN P!Calls \ P!MayEnd = {"v", "s1", "o", "s2", "i", "u", "e", "p", "c", "b", "t"}
  BY DEF P!Calls, P!MayEnd
<1> QED
  BY <1>1, <1>2, <1>3, <1>4

\* A call of the session takes a letter of the session, in its place.
LEMMA SessionOnto ==
  ASSUME NEW c \in SessionSteps
  PROVE  LET l  == P!Calls[c].letter
             on == P!Calls[c].onto
         IN  /\ on \in SessionSteps /\ on # "v" /\ l \in P!OfSession
             /\ P!Order[l] \in Nat /\ Upto[c] <= P!Order[l] /\ P!Order[l] <= Upto[on]
             /\ Upto[c] = P!Order[l] => c \in {"o", "s2"} \/ P!Repeats(l, FALSE)
             /\ \A y \in Passed[on] :
                   \/ ~(P!Order[l] <= P!Order[y])
                   \/ l = y /\ ~P!Repeats(y, FALSE)
                   \/ c = "s2" /\ y = "o"
<1> USE DEF SessionSteps
<1>1. P!Calls[c].onto \in SessionSteps /\ P!Calls[c].onto # "v" /\ P!Calls[c].letter \in P!OfSession
  BY DEF P!Calls, P!Call, P!OfSession, P!Field
<1>2. /\ P!Order[P!Calls[c].letter] \in Nat
      /\ Upto[c] <= P!Order[P!Calls[c].letter]
      /\ P!Order[P!Calls[c].letter] <= Upto[P!Calls[c].onto]
      /\ Upto[c] = P!Order[P!Calls[c].letter] =>
             c \in {"o", "s2"} \/ P!Repeats(P!Calls[c].letter, FALSE)
  BY DEF P!Calls, P!Call, P!Order, Upto, P!Repeats
<1>3. ASSUME NEW y \in Passed[P!Calls[c].onto]
      PROVE  \/ ~(P!Order[P!Calls[c].letter] <= P!Order[y])
             \/ P!Calls[c].letter = y /\ ~P!Repeats(y, FALSE)
             \/ c = "s2" /\ y = "o"
  BY DEF P!Calls, P!Call, P!Order, Passed, P!Repeats
<1> QED
  BY <1>1, <1>2, <1>3

\* So does a call of a media.
LEMMA MediaOnto ==
  ASSUME NEW c \in MediaSteps
  PROVE  LET l  == P!Calls[c].letter
             on == P!Calls[c].onto
         IN  /\ on \in MediaSteps /\ l \in P!OfMedia \ {"m"}
             /\ P!Order[l] \in Nat /\ Upto[c] <= P!Order[l] /\ P!Order[l] <= Upto[on]
             /\ Upto[c] = P!Order[l] => P!Repeats(l, TRUE)
             /\ \A y \in Passed[on] :
                   \/ ~(P!Order[l] <= P!Order[y])
                   \/ l = y /\ ~P!Repeats(y, TRUE)
<1> USE DEF MediaSteps
<1>1. P!Calls[c].onto \in MediaSteps /\ P!Calls[c].letter \in P!OfMedia \ {"m"}
  BY DEF P!Calls, P!Call, P!OfMedia
<1>2. /\ P!Order[P!Calls[c].letter] \in Nat
      /\ Upto[c] <= P!Order[P!Calls[c].letter]
      /\ P!Order[P!Calls[c].letter] <= Upto[P!Calls[c].onto]
      /\ Upto[c] = P!Order[P!Calls[c].letter] => P!Repeats(P!Calls[c].letter, TRUE)
  BY DEF P!Calls, P!Call, P!Order, Upto, P!Repeats
<1>3. ASSUME NEW y \in Passed[P!Calls[c].onto]
      PROVE  \/ ~(P!Order[P!Calls[c].letter] <= P!Order[y])
             \/ P!Calls[c].letter = y /\ ~P!Repeats(y, TRUE)
  BY DEF P!Calls, P!Call, P!Order, Passed, P!Repeats
<1> QED
  BY <1>1, <1>2, <1>3

\* What the control of sdp_message_parse says of single calls.
LEMMA OntoOK ==
  ASSUME NEW c \in DOMAIN P!Calls
  PROVE  LET l  == P!Calls[c].letter
             on == P!Calls[c].onto
         IN  /\ on \in DOMAIN P!Calls /\ on # "v"
             /\ l = "m" <=> c = "m"
             /\ c = "m" => on = "mi"
             /\ c \in {"v", "o"} => l = c
             /\ on \in {"s1", "o", "s2"} => <<c, l, on>> \in {<<"v", "v", "s1">>, <<"s1", "s", "o">>,
                                                              <<"o", "o", "s2">>}
             /\ c \in {"s1", "s2"} => l = "s"
             /\ on \notin {"s1", "o"} => c \notin {"v", "s1"}
             /\ on \in P!MayEnd => c \in P!MayEnd \/ l = "t"
             /\ c \in P!MayEnd => on \in P!MayEnd
             /\ l = "t" => on \in P!MayEnd
             /\ l = "r" => c \in P!MayEnd
<1>1. c \in SessionSteps \cup MediaSteps \cup {"m"}
  BY StepsOK
<1> QED
  BY <1>1 DEF P!Calls, P!Call, P!MayEnd, SessionSteps, MediaSteps

\* A line that is passed over goes to a later call, or to the error.
LEMMA PastOK ==
  ASSUME NEW c \in DOMAIN P!Calls
  PROVE  LET l  == P!Calls[c].letter
             pa == P!Calls[c].past
         IN  /\ pa = "error" <=> c \in {"v", "o", "t", "m"}
             /\ pa # "error" =>
                   /\ pa \in DOMAIN P!Calls /\ pa \notin {"v", "s1", "s2"}
                   /\ pa = "o" => c = "s1"
                   /\ pa # "o" => c # "s1"
                   /\ c \in SessionSteps => pa \in SessionSteps \cup {"m"}
                   /\ c \in MediaSteps => pa \in MediaSteps \cup {"m"}
                   /\ Upto[c] <= Upto[pa] /\ Upto[c] \in Nat /\ Upto[pa] \in Nat
                   /\ pa \in P!MayEnd => c \in P!MayEnd
                   /\ c \in P!MayEnd => pa \in P!MayEnd
                   /\ Passed[pa] \subseteq Passed[c] \cup {l}
                        \cup IF c \in MediaSteps THEN P!OfSession \ P!OfMedia ELSE {}
<1> DEFINE l  == P!Calls[c].letter
           pa == P!Calls[c].past
<1>1. c \in SessionSteps \cup MediaSteps \cup {"m"}
  BY StepsOK
<1> USE DEF SessionSteps, MediaSteps
<1>2. pa = "error" <=> c \in {"v", "o", "t", "m"}
  BY <1>1 DEF P!Calls, P!Call
<1>3. pa # "error" =>
          /\ pa \in SessionSteps \cup MediaSteps \cup {"m"} /\ pa \notin {"v", "s1", "s2"}
          /\ pa = "o" => c = "s1"
          /\ pa # "o" => c # "s1"
          /\ c \in SessionSteps => pa \in SessionSteps \cup {"m"}
          /\ c \in MediaSteps => pa \in MediaSteps \cup {"m"}
          /\ pa \in P!MayEnd => c \in P!MayEnd
          /\ c \in P!MayEnd => pa \in P!MayEnd
  BY <1>1 DEF P!Calls, P!Call, P!MayEnd
<1>4. pa # "error" => Upto[c] <= Upto[pa] /\ Upto[c] \in Nat /\ Upto[pa] \in Nat
  BY <1>1 DEF P!Calls, P!Call, Upto
<1>5. ASSUME pa # "error", NEW y \in Passed[pa]
      PROVE  y \in Passed[c] \cup {l} \cup IF c \in MediaSteps THEN P!OfSession \ P!OfMedia ELSE {}
  BY <1>1, <1>5 DEF P!Calls, P!Call, Passed, P!OfSession, P!OfMedia, P!Field
<1> QED
  BY <1>2, <1>3, <1>4, <1>5, StepsOK
\* Letters of either kind have a place; a time stands in the session only.
LEMMA PlacesOK ==
  /\ \A l \in P!OfSession \cup P!OfMedia : P!Order[l] \in Nat
  /\ "m" \notin P!OfSession
  /\ \A l \in {"v", "o", "t"} : l \notin P!OfMedia
  /\ (P!OfSession \cup P!OfMedia) \ {"m"} \subseteq Passed["m"]
  /\ \A l \in P!OfSession : P!Order[l] <= P!Order["v"] => l = "v"
  /\ \A l \in P!OfSession : P!Order[l] <= P!Order["o"] => l \in {"o"} \cup Passed["o"]
  /\ \A l \in P!OfSession : P!Order[l] <= P!Order["t"] => l \in {"t", "r"} \cup Passed["t"]
<1> DEFINE S == {"v", "o", "s", "i", "u", "e", "p", "c", "b", "t", "z", "k", "a", "r"}
<1>1. P!OfSession = S
  BY DEF P!OfSession, P!Field
<1>2. P!OfMedia = {"m", "i", "c", "b", "k", "a"}
  BY DEF P!OfMedia
<1>3. \A l \in S \cup {"m"} : P!Order[l] \in Nat
  BY DEF P!Order
<1>4. \A l \in {"v", "o", "t"} : l \notin P!OfMedia
  BY <1>2
<1>5. (S \cup P!OfMedia) \ {"m"} \subseteq Passed["m"]
  BY <1>2 DEF Passed
<1>6. \A l \in S : P!Order[l] <= P!Order["v"] => l = "v"
  BY DEF P!Order
<1>7. \A l \in S : P!Order[l] <= P!Order["o"] => l \in {"o"} \cup Passed["o"]
  BY DEF P!Order, Passed
<1>8. \A l \in S : P!Order[l] <= P!Order["t"] => l \in {"t", "r"} \cup Passed["t"]
  BY DEF P!Order, Passed
<1> QED
  BY <1>1, <1>2, <1>3, <1>4, <1>5, <1>6, <1>7, <1>8

\* What was read of the section that is read has its place there.
LEMMA CurrentOK ==
  ASSUME ParserInv, GrammarInv, step \in DOMAIN P!Calls, NEW j \in Current
  PROVE  /\ j \in Behind /\ P!InPlace(P!L(j), P!InMedia(Taken)) /\ P!Order[P!L(j)] \in Nat
         /\ step \in SessionSteps => /\ Current = Behind /\ ~P!InMedia(Taken)
                                     /\ P!L(j) \in P!OfSession
         /\ step \in MediaSteps => P!InMedia(Taken) /\ P!L(j) \in P!OfMedia
         /\ P!Order[P!L(j)] <= Upto[step]
<1>1. BehindInv /\ StepInv
  <2>1. step # "error"
    BY CallsOK
  <2> QED
    BY <2>1 DEF GrammarInv
<1>2. j \in Behind /\ j \in P!Proper /\ j <= Taken /\ P!SameSection(j, Taken)
  BY DEF Current, Behind
<1>3. P!InMedia(j) <=> P!InMedia(Taken)
  <2>1. offer \in Seq(SdpLine) /\ Taken \in Nat
    BY DEF ParserInv, GrammarInv
  <2>2. P!Proper \subseteq Nat
    BY <2>1 DEF P!Proper, P!Extent
  <2>3. ASSUME NEW k \in P!Proper, k <= Taken, P!L(k) = "m" PROVE k <= j
    BY <1>2, <2>1, <2>2, <2>3 DEF P!SameSection
  <2>4. ASSUME NEW k \in P!Proper, k <= j PROVE k <= Taken
    BY <1>2, <2>1, <2>2, <2>4
  <2> QED
    BY <2>3, <2>4 DEF P!InMedia
<1>4. P!InPlace(P!L(j), P!InMedia(Taken))
  BY <1>1, <1>2, <1>3 DEF BehindInv, P!WellPlaced, P!InPlace
<1>5. P!Order[P!L(j)] \in Nat
  BY <1>4, PlacesOK DEF P!InPlace
<1>6. ASSUME step \in SessionSteps
      PROVE  Current = Behind /\ ~P!InMedia(Taken) /\ P!L(j) \in P!OfSession
  <2>1. ~P!InMedia(Taken)
    BY <1>1, <1>6 DEF StepInv
  <2>2. Current = Behind
    BY <2>1 DEF Current, Behind, P!SameSection, P!InMedia
  <2> QED
    BY <1>4, <2>1, <2>2 DEF P!InPlace
<1>7. ASSUME step \in MediaSteps PROVE P!InMedia(Taken) /\ P!L(j) \in P!OfMedia
  BY <1>1, <1>4, <1>7 DEF StepInv, P!InPlace
<1> QED
  BY <1>1, <1>2, <1>4, <1>5, <1>6, <1>7 DEF StepInv

\* In the session, all that was read is of the section.
LEMMA SessionIsCurrent ==
  ASSUME ParserInv, GrammarInv, step \in SessionSteps
  PROVE  Current = Behind /\ ~P!InMedia(Taken)
<1>1. StepInv
  BY StepsOK DEF GrammarInv
<1>2. ~P!InMedia(Taken)
  BY <1>1 DEF StepInv
<1> QED
  BY <1>2 DEF Current, Behind, P!SameSection, P!InMedia

\* A line with the letter of the call follows what was read, if it is not spoilt.
LEMMA NextIsPlaced ==
  ASSUME ParserInv, GrammarInv, step \in DOMAIN P!Calls, NEW n, IsNext(n),
         P!L(n) = P!Calls[step].letter, ~P!Bad(offer[n])
  PROVE  /\ P!WellPlaced(n)
         /\ P!L(n) = "r" => \E j \in P!Proper : j < n /\ P!L(j) = "t"
<1> DEFINE l == P!Calls[step].letter
<1>1. BehindInv /\ StepInv
  <2>1. step # "error"
    BY CallsOK
  <2> QED
    BY <2>1 DEF GrammarInv
<1>2. /\ n \in P!Proper /\ n \in Nat /\ Taken \in Nat /\ Taken < n
      /\ \A j \in P!Proper : j < n => j \in Behind
      /\ l # "m" => /\ P!InMedia(n) <=> P!InMedia(Taken)
                    /\ \A j \in Behind : P!SameSection(j, n) <=> j \in Current
      /\ l = "m" => P!InMedia(n) /\ \A j \in Behind : ~P!SameSection(j, n)
  <2>1. /\ n \in P!Proper /\ n \in Nat /\ Taken \in Nat /\ Taken < n
        /\ \A k : k \in P!Proper /\ k <= n <=> k \in Behind \/ k = n
    BY NextBehind
  <2>2. P!Proper \subseteq Nat
    BY DEF ParserInv, P!Proper, P!Extent
  <2>3. \A j \in P!Proper : j < n => j \in Behind
    BY <2>1, <2>2
  <2> QED
    BY <2>1, <2>3, NextBehind
<1>3. ASSUME l = "r" PROVE \E j \in P!Proper : j < n /\ P!L(j) = "t"
  <2>1. Read("t")
    BY <1>1, <1>3, OntoOK DEF BehindInv
  <2> QED
    <3>1. PICK j \in Behind : P!L(j) = "t"
      BY <2>1 DEF Read
    <3>2. j \in P!Proper /\ j \in Nat /\ j <= Taken
      BY <3>1 DEF ParserInv, Behind, P!Proper, P!Extent
    <3> QED
      BY <1>2, <3>1, <3>2
<1>4. CASE step \in SessionSteps
  <2>1. /\ l \in P!OfSession /\ P!Order[l] \in Nat /\ Upto[step] <= P!Order[l]
        /\ Upto[step] = P!Order[l] => step \in {"o", "s2"} \/ P!Repeats(l, FALSE)
    BY <1>4, SessionOnto
  <2>2. ~P!InMedia(Taken) /\ ~P!InMedia(n)
    BY <1>2, <1>4, <2>1, PlacesOK, SessionIsCurrent
  <2>3. ASSUME NEW j \in P!Proper, j < n, P!SameSection(j, n)
        PROVE  P!Follows(l, P!L(j), FALSE)
    <3>1. j \in Current
      BY <1>2, <2>1, <2>3, PlacesOK
    <3>2. P!Order[P!L(j)] \in Nat /\ P!Order[P!L(j)] <= Upto[step]
      BY <3>1, CurrentOK
    <3>3. Upto[step] \in Nat
      BY <1>4 DEF SessionSteps, Upto
    <3>4. P!Order[P!L(j)] <= P!Order[l]
      BY <2>1, <3>2, <3>3
    <3>5. ASSUME P!L(j) = l PROVE P!Repeats(l, FALSE)
      <4>1. Upto[step] = P!Order[l]
        BY <2>1, <3>2, <3>3, <3>5
      <4>2. step # "o" /\ step # "s2"
        BY <1>1, <3>1, <3>5, OntoOK DEF StepInv
      <4> QED
        BY <2>1, <4>1, <4>2
    <3> QED
      BY <3>4, <3>5 DEF P!Follows
  <2> QED
    BY <1>2, <1>3, <2>1, <2>2, <2>3 DEF P!WellPlaced, P!InPlace, P!Follows, P!Repeats
<1>5. CASE step \in MediaSteps
  <2>1. /\ l \in P!OfMedia \ {"m"} /\ P!Order[l] \in Nat /\ Upto[step] <= P!Order[l]
        /\ Upto[step] = P!Order[l] => P!Repeats(l, TRUE)
    BY <1>5, MediaOnto
  <2>2. P!InMedia(Taken) /\ P!InMedia(n)
    BY <1>1, <1>2, <1>5, <2>1 DEF StepInv
  <2>3. ASSUME NEW j \in P!Proper, j < n, P!SameSection(j, n)
        PROVE  P!Follows(l, P!L(j), TRUE)
    <3>1. j \in Current
      BY <1>2, <2>1, <2>3
    <3>2. P!Order[P!L(j)] \in Nat /\ P!Order[P!L(j)] <= Upto[step]
      BY <3>1, CurrentOK
    <3>3. Upto[step] \in Nat
      BY <1>5 DEF MediaSteps, Upto
    <3>4. P!Order[P!L(j)] <= P!Order[l]
      BY <2>1, <3>2, <3>3
    <3>5. ASSUME P!L(j) = l PROVE P!Repeats(l, TRUE)
      <4>1. Upto[step] = P!Order[l]
        BY <2>1, <3>2, <3>3, <3>5
      <4> QED
        BY <2>1, <4>1
    <3> QED
      BY <3>4, <3>5 DEF P!Follows
  <2> QED
    BY <1>2, <1>3, <2>1, <2>2, <2>3 DEF P!WellPlaced, P!InPlace, P!Follows, P!Repeats
<1>6. CASE step = "m"
  <2>1. l = "m"
    BY <1>6, OntoOK
  <2>2. P!InPlace("m", TRUE)
    BY DEF P!InPlace, P!OfMedia
  <2> QED
    BY <1>2, <1>3, <2>1, <2>2 DEF P!WellPlaced
<1> QED
  BY <1>4, <1>5, <1>6, StepsOK

\* A parser puts a name of the session where there is one only for a line of it.
LEMMA PutName ==
  ASSUME ParserInv, NEW n \in DOMAIN sdp, NEW f \in P!Field, NEW lines
  PROVE  [sdp EXCEPT ![n][f] = lines][1].s = IF n = 1 /\ f = "s" THEN lines ELSE sdp[1].s
<1> DEFINE kept == [sdp EXCEPT ![n][f] = lines]
           Part == [P!Field -> Seq(Lines(offer))]
<1>1. sdp \in Seq(Part) /\ sdp # <<>>
  BY DEF ParserInv, SdpType
<1>2. 1 \in DOMAIN sdp /\ sdp[1] \in Part
  BY <1>1
<1>3. "s" \in P!Field
  BY DEF P!Field
<1>4. kept[1] = IF n = 1 THEN [sdp[1] EXCEPT ![f] = lines] ELSE sdp[1]
  BY <1>2
<1> HIDE DEF kept
<1>5. DOMAIN sdp[1] = P!Field
  BY <1>2
<1>6. CASE n = 1
  BY <1>3, <1>4, <1>5, <1>6
<1>7. CASE n # 1
  BY <1>4, <1>7
<1> QED
  BY <1>6, <1>7 DEF kept

\* Each step is one call of a line parser.
LEMMA OneCall ==
  ASSUME ParserInv, P!Next
  PROVE  /\ step \in DOMAIN P!Calls
         /\ \E kept : /\ P!Parse(P!Calls[step].letter, kept)
                      /\ kept[1].s # <<>> <=> sdp[1].s # <<>> \/ P!Calls[step].letter = "s"
<1> DEFINE Names(letter, kept) == kept[1].s # <<>> <=> sdp[1].s # <<>> \/ letter = "s"
<1>1. P!Session = 1 /\ P!Session \in DOMAIN sdp /\ P!Latest \in DOMAIN sdp
  BY DEF ParserInv, SdpType, P!Session, P!Latest
<1>2. ASSUME NEW n \in DOMAIN sdp, NEW f \in P!Field, f # "s", NEW letter, letter # "s"
      PROVE  Names(letter, P!Set(n, f)) /\ Names(letter, P!Add(n, f))
  BY <1>2, PutName DEF P!Set, P!Add
<1>3. P!Field = {"v", "o", "s", "i", "u", "e", "p", "c", "b", "t", "z", "k", "a", "m"}
  BY DEF P!Field
<1>4. Names("s", P!Set(P!Session, "s"))
  <2>1. P!Set(P!Session, "s")[1].s = <<P!Line>>
    BY <1>1, <1>3, PutName DEF P!Set
  <2> QED
    BY <2>1
<1>5. Names("m", Append(sdp, [P!Nothing EXCEPT !.m = <<P!Line>>]))
  BY <1>1 DEF ParserInv, SdpType
<1>6. \E letter, kept : P!Parse(letter, kept) /\ Names(letter, kept)
  <2> HIDE DEF Names
  <2>v. CASE P!parse_v
    BY <2>v, <1>1, <1>2, <1>3 DEF P!parse_v
  <2>o. CASE P!parse_o
    BY <2>o, <1>1, <1>2, <1>3 DEF P!parse_o
  <2>s. CASE P!parse_s
    BY <2>s, <1>4 DEF P!parse_s
  <2>i. CASE P!parse_i
    BY <2>i, <1>1, <1>2, <1>3 DEF P!parse_i
  <2>u. CASE P!parse_u
    BY <2>u, <1>1, <1>2, <1>3 DEF P!parse_u
  <2>e. CASE P!parse_e
    BY <2>e, <1>1, <1>2, <1>3 DEF P!parse_e
  <2>p. CASE P!parse_p
    BY <2>p, <1>1, <1>2, <1>3 DEF P!parse_p
  <2>c. CASE P!parse_c
    <3>1. Names("c", IF P!Medias = {} THEN P!Set(P!Session, "c") ELSE P!Add(P!Latest, "c"))
      BY <1>1, <1>2, <1>3
    <3> QED
      BY <2>c, <3>1 DEF P!parse_c
  <2>b. CASE P!parse_b
    BY <2>b, <1>1, <1>2, <1>3 DEF P!parse_b
  <2>t. CASE P!parse_t
    BY <2>t, <1>1, <1>2, <1>3 DEF P!parse_t
  <2>r. CASE P!parse_r
    BY <2>r, <1>1, <1>2, <1>3 DEF P!parse_r
  <2>z. CASE P!parse_z
    BY <2>z, <1>1, <1>2, <1>3 DEF P!parse_z
  <2>k. CASE P!parse_k
    BY <2>k, <1>1, <1>2, <1>3 DEF P!parse_k
  <2>a. CASE P!parse_a
    BY <2>a, <1>1, <1>2, <1>3 DEF P!parse_a
  <2>m. CASE P!parse_m
    BY <2>m, <1>5 DEF P!parse_m
  <2> QED
    BY <2>v, <2>o, <2>s, <2>i, <2>u, <2>e, <2>p, <2>c, <2>b, <2>t, <2>r, <2>z, <2>k, <2>a,
       <2>m DEF P!Next
<1>7. \A letter, kept : P!Parse(letter, kept) =>
          step \in DOMAIN P!Calls /\ letter = P!Calls[step].letter
  BY DEF P!Parse, P!Running
<1> QED
  BY <1>6, <1>7

\* What a text is stays what it is as it is parsed.
LEMMA SameText ==
  ASSUME offer' = offer
  PROVE  /\ P!Extent' = P!Extent /\ P!Proper' = P!Proper
         /\ P!Grammatical' <=> P!Grammatical
         /\ \A k : /\ P!EndsAt(k)' <=> P!EndsAt(k)
                   /\ P!L(k)' = P!L(k)
                   /\ Real(k)' <=> Real(k)
                   /\ P!InMedia(k)' <=> P!InMedia(k)
                   /\ P!WellPlaced(k)' <=> P!WellPlaced(k)
                   /\ \A j : P!SameSection(j, k)' <=> P!SameSection(j, k)
<1>1. \A k : P!EndsAt(k)' <=> P!EndsAt(k)
  BY DEF P!EndsAt
<1>2. P!Extent' = P!Extent
  BY <1>1 DEF P!Extent
<1>3. P!Proper' = P!Proper
  BY <1>2 DEF P!Proper
<1>4. \A k : P!L(k)' = P!L(k) /\ (Real(k)' <=> Real(k))
  BY DEF P!L, Real
<1>5. \A k : P!InMedia(k)' <=> P!InMedia(k)
  BY <1>3, <1>4 DEF P!InMedia
<1>6. \A k, j : P!SameSection(j, k)' <=> P!SameSection(j, k)
  BY <1>3, <1>4 DEF P!SameSection
<1>7. \A k : P!WellPlaced(k)' <=> P!WellPlaced(k)
  BY <1>3, <1>4, <1>5, <1>6 DEF P!WellPlaced, P!InPlace, P!Follows, P!Repeats
<1>8. P!Grammatical' <=> P!Grammatical
  BY <1>2, <1>3, <1>4, <1>7 DEF P!Grammatical
<1> QED
  BY <1>1, <1>2, <1>3, <1>4, <1>5, <1>6, <1>7, <1>8

-----------------------------------------------------------------------------
(* The parser takes a line *)

Takes(n) ==
    /\ IsNext(n) /\ offer' = offer /\ rest' = SubSeq(offer, n + 1, Len(offer))
    /\ P!L(n) = P!Calls[step].letter /\ ~P!Bad(offer[n])
    /\ sdp'[1].s # <<>> <=> sdp[1].s # <<>> \/ P!L(n) = "s"
    /\ P!GoTo(P!Calls[step].onto)

\* What was read once a line is taken.
LEMMA AfterTaking ==
  ASSUME ParserInv, GrammarInv, step \in DOMAIN P!Calls, NEW n, Takes(n)
  PROVE  /\ Taken' = n /\ n \in P!Proper /\ n \in 1..Len(offer)
         /\ Behind' = Behind \cup {n} /\ n \notin Behind
         /\ \A l : Read(l)' <=> Read(l) \/ P!L(n) = l
         /\ P!InMedia(Taken)' <=> P!InMedia(n)
         /\ Current' = IF P!L(n) = "m" THEN {n} ELSE Current \cup {n}
         /\ \A k \in 1..n : ~P!EndsAt(k)
<1>1. IsNext(n) /\ offer' = offer /\ rest' = SubSeq(offer, n + 1, Len(offer))
  BY DEF Takes
<1>2. /\ n \in P!Proper /\ n \in Nat /\ Taken \in Nat /\ Taken < n
      /\ \A k : k \in P!Proper /\ k <= n <=> k \in Behind \/ k = n
      /\ P!SameSection(n, n)
      /\ P!L(n) # "m" => \A j \in Behind : P!SameSection(j, n) <=> j \in Current
      /\ P!L(n) = "m" => \A j \in Behind : ~P!SameSection(j, n)
  BY <1>1, NextBehind
<1>3. n \in 1..Len(offer) /\ offer \in Seq(SdpLine)
  BY <1>1 DEF IsNext, ParserInv
<1>4. Taken' = n
  <2>1. Len(rest') = Len(offer) - n
    BY <1>1, <1>3
  <2> QED
    BY <1>1, <1>3, <2>1 DEF Taken
<1>5. Behind' = Behind \cup {n} /\ n \notin Behind
  <2>1. P!Proper' = P!Proper
    BY <1>1, SameText
  <2>2. Behind' = {k \in P!Proper : k <= n}
    BY <1>4, <2>1 DEF Behind
  <2>3. n \notin Behind
    BY <1>2 DEF Behind
  <2>4. Behind \subseteq P!Proper
    BY DEF Behind
  <2> QED
    BY <1>2, <2>2, <2>3, <2>4
<1>6. ASSUME NEW l PROVE Read(l)' <=> Read(l) \/ P!L(n) = l
  BY <1>1, <1>5 DEF Read, P!L
<1>7. P!InMedia(Taken)' <=> P!InMedia(n)
  <2>1. P!Proper' = P!Proper
    BY <1>1, SameText
  <2> QED
    BY <1>1, <1>4, <2>1 DEF P!InMedia, P!L
<1>8. Current' = {k \in Behind' : P!SameSection(k, n)}
  <2>1. P!Proper' = P!Proper
    BY <1>1, SameText
  <2> QED
    BY <1>1, <1>4, <2>1 DEF Current, P!SameSection, P!L
<1>9. Current' = IF P!L(n) = "m" THEN {n} ELSE Current \cup {n}
  <2>1. Current \subseteq Behind
    BY DEF Current
  <2> QED
    BY <1>2, <1>5, <1>8, <2>1
<1>10. \A k \in 1..n : ~P!EndsAt(k)
  BY <1>2 DEF P!Proper, P!Extent
<1> QED
  BY <1>2, <1>3, <1>4, <1>5, <1>6, <1>7, <1>9, <1>10

\* Where the parser goes then.
LEMMA WhereTo ==
  ASSUME ParserInv, GrammarInv, step \in DOMAIN P!Calls, NEW n, Takes(n)
  PROVE  /\ \/ step' = "end" /\ P!Calls[step].onto \in P!MayEnd
            \/ /\ step' = P!Calls[step].onto /\ step' \in DOMAIN P!Calls
               /\ step' \in P!MayEnd => rest' # <<>> /\ Head(rest').is # "empty"
               /\ step' = "s2" => ~Read("s")'
            \/ /\ step' = "i" /\ step = "o" /\ Read("s")'
         /\ sdp'[1].s # <<>> <=> Read("s")'
         /\ step' # "v" /\ step' # "error"
<1>1. P!GoTo(P!Calls[step].onto)
  BY DEF Takes
<1>2. sdp'[1].s # <<>> <=> Read("s")'
  <2>1. sdp[1].s # <<>> <=> Read("s")
    <3>1. step # "error"
      BY CallsOK
    <3> QED
      BY <3>1 DEF GrammarInv, BehindInv
  <2>2. Read("s")' <=> Read("s") \/ P!L(n) = "s"
    BY AfterTaking
  <2> QED
    BY <2>1, <2>2 DEF Takes
<1>3. P!Calls[step].onto \in DOMAIN P!Calls /\ P!Calls[step].onto # "v"
  BY OntoOK
<1>4. CASE P!SkipS2(P!Calls[step].onto)
  <2>1. P!Calls[step].onto = "s2" /\ Read("s")'
    BY <1>2, <1>4 DEF P!SkipS2
  <2>2. step = "o"
    BY <2>1, OntoOK
  <2>3. step' = "i"
    <3>1. ~P!Ends(P!Calls[step].onto)
      BY <2>1 DEF P!Ends, P!MayEnd
    <3> QED
      BY <1>1, <1>4, <3>1 DEF P!GoTo
  <2> QED
    BY <1>2, <2>1, <2>2, <2>3
<1>5. CASE ~P!SkipS2(P!Calls[step].onto) /\ P!Ends(P!Calls[step].onto)
  <2>1. step' = "end"
    BY <1>1, <1>5 DEF P!GoTo
  <2> QED
    BY <1>2, <1>5, <2>1 DEF P!Ends
<1>6. CASE ~P!SkipS2(P!Calls[step].onto) /\ ~P!Ends(P!Calls[step].onto)
  <2>1. step' = P!Calls[step].onto
    BY <1>1, <1>6 DEF P!GoTo
  <2>2. step' = "s2" => ~Read("s")'
    BY <1>2, <1>6, <2>1 DEF P!SkipS2
  <2>3. step' \in P!MayEnd => rest' # <<>> /\ Head(rest').is # "empty"
    BY <1>6, <2>1 DEF P!Ends
  <2>4. step' # "error"
    BY <1>3, <2>1, CallsOK
  <2> QED
    BY <1>2, <1>3, <2>1, <2>2, <2>3, <2>4
<1> QED
  BY <1>4, <1>5, <1>6

\* It is still the beginning of an SDP.
LEMMA BehindTaken ==
  ASSUME ParserInv, GrammarInv, step \in DOMAIN P!Calls, NEW n, Takes(n)
  PROVE  BehindInv'
<1>1. BehindInv
  <2>1. step # "error"
    BY CallsOK
  <2> QED
    BY <2>1 DEF GrammarInv
<1>2. /\ Taken' = n /\ Behind' = Behind \cup {n} /\ \A k \in 1..n : ~P!EndsAt(k)
      /\ \A l : Read(l)' <=> Read(l) \/ P!L(n) = l
  BY AfterTaking
<1>3. IsNext(n) /\ offer' = offer
  BY DEF Takes
<1>4. /\ P!WellPlaced(n)
      /\ P!L(n) = "r" => \E j \in P!Proper : j < n /\ P!L(j) = "t"
  BY NextIsPlaced DEF Takes
<1>5. /\ P!Proper' = P!Proper
      /\ \A k : P!WellPlaced(k)' <=> P!WellPlaced(k)
  BY <1>3, SameText
<1>6. Real(Taken)'
  <2>1. Real(n)
    BY <1>3 DEF IsNext
  <2> QED
    BY <1>2, <1>3, <2>1 DEF Real
<1>7. \A k \in 1..Taken' : ~P!EndsAt(k)'
  BY <1>2, <1>3 DEF P!EndsAt
<1>8. \A k \in Behind' : P!WellPlaced(k)'
  BY <1>1, <1>2, <1>4, <1>5 DEF BehindInv
<1>9. \A k \in Behind' : P!L(k)' = "r" => \E j \in P!Proper' : j < k /\ P!L(j)' = "t"
  BY <1>1, <1>2, <1>3, <1>4, <1>5 DEF BehindInv, P!L
<1>10. /\ step' # "v" => Read("v")'
       /\ step' \notin {"v", "s1", "o"} => Read("o")'
       /\ step' \in P!MayEnd \cup {"end"} => Read("t")'
  <2>1. \/ step' = P!Calls[step].onto
        \/ step' = "i" /\ step = "o"
        \/ step' = "end" /\ P!Calls[step].onto \in P!MayEnd
    BY WhereTo
  <2>2. P!L(n) = P!Calls[step].letter
    BY DEF Takes
  <2>3. Read("v")'
    <3>1. CASE step = "v"
      BY <1>2, <2>2, <3>1, OntoOK
    <3>2. CASE step # "v"
      BY <1>1, <1>2, <3>2 DEF BehindInv
    <3> QED
      BY <3>1, <3>2
  <2>4. ASSUME step' \notin {"v", "s1", "o"} PROVE Read("o")'
    <3>1. CASE step = "o"
      BY <1>2, <2>2, <3>1, OntoOK
    <3>2. CASE step # "o"
      <4>1. step \notin {"v", "s1"}
        <5>1. P!Calls[step].onto \notin {"s1", "o"}
          <6>1. P!MayEnd \cap {"s1", "o"} = {}
            BY DEF P!MayEnd
          <6> QED
            BY <2>1, <2>4, <3>2, <6>1
        <5> QED
          BY <5>1, OntoOK
      <4>2. Read("o")
        BY <1>1, <3>2, <4>1 DEF BehindInv
      <4> QED
        BY <1>2, <4>2
    <3> QED
      BY <3>1, <3>2
  <2>5. ASSUME step' \in P!MayEnd \cup {"end"} PROVE Read("t")'
    <3>1. P!Calls[step].onto \in P!MayEnd
      <4>1. "i" \notin P!MayEnd \cup {"end"}
        BY DEF P!MayEnd
      <4>2. "end" \notin DOMAIN P!Calls /\ P!Calls[step].onto \in DOMAIN P!Calls
        BY CallsOK, OntoOK
      <4> QED
        BY <2>1, <2>5, <4>1, <4>2
    <3>2. step \in P!MayEnd \/ P!L(n) = "t"
      BY <2>2, <3>1, OntoOK
    <3>3. step \in P!MayEnd => Read("t")
      BY <1>1 DEF BehindInv
    <3> QED
      BY <1>2, <3>2, <3>3
  <2> QED
    BY <2>3, <2>4, <2>5
<1>11. sdp'[1].s # <<>> <=> Read("s")'
  BY WhereTo
<1> QED
  BY <1>6, <1>7, <1>8, <1>9, <1>10, <1>11 DEF BehindInv

\* What a call is made for, once a line was taken.
LEMMA StepTaken ==
  ASSUME ParserInv, GrammarInv, step \in DOMAIN P!Calls, NEW n, Takes(n),
         step' \in DOMAIN P!Calls
  PROVE  StepInv'
<1> DEFINE l == P!Calls[step].letter
<1>1. StepInv
  <2>1. step # "error"
    BY CallsOK
  <2> QED
    BY <2>1 DEF GrammarInv
<1>2. /\ Taken' = n /\ Behind' = Behind \cup {n} /\ n \notin Behind
      /\ P!InMedia(Taken)' <=> P!InMedia(n)
      /\ Current' = IF l = "m" THEN {n} ELSE Current \cup {n}
  BY AfterTaking DEF Takes
<1>3. IsNext(n) /\ offer' = offer /\ P!L(n) = l
  BY DEF Takes
<1>4. \A k : P!L(k)' = P!L(k)
  BY <1>3 DEF P!L
<1>5. /\ \/ /\ step' = P!Calls[step].onto
            /\ step' \in P!MayEnd => rest' # <<>> /\ Head(rest').is # "empty"
            /\ step' = "s2" => ~Read("s")'
         \/ step' = "i" /\ step = "o"
      /\ step' # "v"
  BY WhereTo, CallsOK
<1>6. step' \in P!MayEnd => rest' # <<>> /\ Head(rest').is # "empty"
  BY <1>5 DEF P!MayEnd
<1>7. /\ step \in SessionSteps => step' \in SessionSteps
      /\ step \in MediaSteps => step' \in MediaSteps
      /\ step = "m" => step' \in MediaSteps
  <2>1. "i" \in SessionSteps /\ "o" \in SessionSteps /\ "o" \notin MediaSteps /\ "mi" \in MediaSteps
    BY DEF SessionSteps, MediaSteps
  <2>2. step = "m" => P!Calls[step].onto = "mi"
    BY OntoOK
  <2> QED
    <3>1. step \in SessionSteps => P!Calls[step].onto \in SessionSteps
      BY SessionOnto
    <3>2. step \in MediaSteps => P!Calls[step].onto \in MediaSteps
      BY MediaOnto
    <3> QED
      BY <1>5, <2>1, <2>2, <3>1, <3>2
<1>8. /\ step' \in SessionSteps => ~P!InMedia(Taken)'
      /\ step' \in MediaSteps => P!InMedia(Taken)'
  <2>1. step \in SessionSteps \/ step \in MediaSteps => l # "m"
    BY SessionOnto, MediaOnto, PlacesOK
  <2>2. l # "m" => (P!InMedia(n) <=> P!InMedia(Taken))
    BY <1>3, NextBehind
  <2>3. step \in SessionSteps => ~P!InMedia(Taken)
    BY SessionIsCurrent
  <2>4. step \in MediaSteps => P!InMedia(Taken)
    BY <1>1 DEF StepInv
  <2>5. step = "m" => P!InMedia(n)
    BY <1>3, OntoOK, NextBehind
  <2> QED
    BY <1>2, <1>7, <2>1, <2>2, <2>3, <2>4, <2>5, StepsOK
<1>9. ASSUME NEW j \in Current'
      PROVE  /\ P!Order[P!L(j)] <= Upto[step']
             /\ step' = "o" => P!L(j) # "o"
             /\ step' \in {"s1", "s2"} => P!L(j) # "s"
  <2>1. (Upto[step] <= P!Order[l] /\ P!Order[l] <= Upto[step']) \/ step = "m"
    <3>1. CASE step \in SessionSteps
      <4>1. Upto["i"] = Upto["s2"]
        BY DEF Upto
      <4>2. step = "o" => P!Calls[step].onto = "s2"
        BY DEF P!Calls, P!Call
      <4>3. Upto[step'] = Upto[P!Calls[step].onto]
        BY <1>5, <4>1, <4>2
      <4> QED
        BY <3>1, <4>3, SessionOnto
    <3>2. CASE step \in MediaSteps
      <4>1. step' = P!Calls[step].onto
        BY <1>5, <3>2, StepsOK DEF MediaSteps
      <4> QED
        BY <3>2, <4>1, MediaOnto
    <3> QED
      BY <3>1, <3>2, StepsOK
  <2>2. CASE step = "m"
    <3>1. l = "m" /\ step' = "mi"
      BY <1>5, <2>2, OntoOK
    <3>2. j = n
      BY <1>2, <1>9, <3>1
    <3>3. P!Order["m"] <= Upto["mi"]
      BY DEF P!Order, Upto
    <3> QED
      BY <1>3, <3>1, <3>2, <3>3
  <2>3. CASE step # "m"
    <3>1. j \in Current \cup {n}
      BY <1>2, <1>9, <2>3, OntoOK
    <3>2. Upto[step] \in Nat /\ Upto[step'] \in Nat /\ P!Order[l] \in Nat
      <4>1. \A c \in SessionSteps \cup MediaSteps : Upto[c] \in Nat
        BY DEF SessionSteps, MediaSteps, Upto
      <4>2. step \in SessionSteps \cup MediaSteps /\ step' \in SessionSteps \cup MediaSteps
        BY <1>7, <2>3, StepsOK
      <4> QED
        BY <4>1, <4>2, SessionOnto, MediaOnto
    <3>3. P!Order[P!L(j)] <= Upto[step']
      <4>1. CASE j = n
        BY <1>3, <2>1, <2>3, <4>1
      <4>2. CASE j \in Current
        <5>1. P!Order[P!L(j)] \in Nat /\ P!Order[P!L(j)] <= Upto[step]
          BY <4>2, CurrentOK
        <5> QED
          BY <2>1, <2>3, <3>2, <5>1
      <4> QED
        BY <3>1, <4>1, <4>2
    <3>4. ASSUME step' = "o" PROVE P!L(j) # "o"
      <4>1. step = "s1" /\ l = "s"
        BY <1>5, <3>4, OntoOK
      <4>2. P!Order["o"] = 2 /\ Upto["s1"] = 1
        BY DEF P!Order, Upto
      <4>3. ASSUME j \in Current PROVE P!L(j) # "o"
        <5>1. P!Order[P!L(j)] <= 1
          BY <4>1, <4>2, <4>3, CurrentOK
        <5> QED
          BY <4>2, <5>1
      <4> QED
        BY <1>3, <3>1, <4>1, <4>3
    <3>5. ASSUME step' = "s1" PROVE P!L(j) # "s"
      <4>1. step = "v" /\ l = "v"
        BY <1>5, <3>5, OntoOK
      <4>2. Behind = {}
        BY <1>1, <4>1 DEF StepInv, Behind, P!Proper, P!Extent
      <4> QED
        BY <1>3, <3>1, <4>1, <4>2 DEF Current
    <3>6. ASSUME step' = "s2" PROVE P!L(j) # "s"
      <4>1. ~Read("s")'
        BY <1>5, <3>6
      <4>2. j \in Behind'
        BY <1>2, <3>1 DEF Current
      <4> QED
        BY <1>4, <4>1, <4>2 DEF Read
    <3> QED
      BY <3>3, <3>4, <3>5, <3>6
  <2> QED
    BY <2>2, <2>3
<1>10. step' # "v"
  BY <1>5
<1> QED
  BY <1>4, <1>6, <1>8, <1>9, <1>10 DEF StepInv

\* A line that came too late does not follow what was read before.
LEMMA LateTaken ==
  ASSUME ParserInv, GrammarInv, step \in DOMAIN P!Calls, NEW n, Takes(n),
         step' \in DOMAIN P!Calls
  PROVE  LateInv'
<1> DEFINE l == P!Calls[step].letter
<1>1. /\ Taken' = n /\ Behind' = Behind \cup {n} /\ n \notin Behind
      /\ P!InMedia(Taken)' <=> P!InMedia(n)
      /\ Current' = IF l = "m" THEN {n} ELSE Current \cup {n}
      /\ \A x : Read(x)' <=> Read(x) \/ P!L(n) = x
  BY AfterTaking DEF Takes
<1>2. IsNext(n) /\ offer' = offer /\ P!L(n) = l
  BY DEF Takes
<1>3. BehindInv
  <2>1. step # "error"
    BY CallsOK
  <2> QED
    BY <2>1 DEF GrammarInv
<1>4. \/ step' = P!Calls[step].onto
      \/ step' = "i" /\ step = "o" /\ Read("s")'
  BY WhereTo, CallsOK
<1>5. n \in Current'
  BY <1>1
<1>6. \A k : P!L(k)' = P!L(k)
  BY <1>2 DEF P!L
<1>7. SUFFICES ASSUME NEW y \in Passed[step'], P!InPlace(y, P!InMedia(n))
               PROVE  \E j \in Current' : ~P!Follows(y, P!L(j), P!InMedia(n))
  BY <1>1, <1>6 DEF LateInv, P!InPlace, P!Follows, P!Repeats
<1>8. CASE step \in SessionSteps
  <2>1. ~P!InMedia(n) /\ l # "m"
    <3>1. l # "m"
      BY <1>8, SessionOnto, PlacesOK
    <3> QED
      BY <1>2, <1>8, <3>1, NextBehind, SessionIsCurrent
  <2>2. SUFFICES \E j \in Current' : ~P!Follows(y, P!L(j), FALSE)
    BY <2>1 DEF P!Follows, P!Repeats
  <2>3. ASSUME NEW x, Read(x)' PROVE \E j \in Current' : P!L(j) = x
    BY <1>1, <1>2, <1>6, <1>8, <2>1, <2>3, SessionIsCurrent DEF Read
  <2>4. CASE step' = P!Calls[step].onto
    <3>1. \/ ~(P!Order[l] <= P!Order[y])
          \/ l = y /\ ~P!Repeats(y, FALSE)
          \/ step = "s2" /\ y = "o"
      BY <1>8, <2>4, SessionOnto
    <3>2. CASE ~(P!Order[l] <= P!Order[y]) \/ (l = y /\ ~P!Repeats(y, FALSE))
      BY <1>2, <1>5, <3>2 DEF P!Follows
    <3>3. CASE step = "s2" /\ y = "o"
      <4>1. Read("o")'
        BY <1>1, <1>3, <3>3 DEF BehindInv
      <4>2. PICK j \in Current' : P!L(j) = "o"
        BY <2>3, <4>1
      <4>3. ~P!Repeats("o", FALSE)
        BY DEF P!Repeats
      <4> QED
        BY <3>3, <4>2, <4>3 DEF P!Follows
    <3> QED
      BY <3>1, <3>2, <3>3
  <2>5. CASE step' = "i" /\ step = "o" /\ Read("s")'
    <3>1. y \in {"v", "o", "s"} /\ l = "o"
      BY <2>5, OntoOK DEF Passed
    <3>2. PICK j \in Current' : P!L(j) = "s"
      BY <2>3, <2>5
    <3>3. ~P!Repeats("o", FALSE) /\ ~P!Repeats("s", FALSE) /\ ~(P!Order["o"] <= P!Order["v"])
      BY DEF P!Repeats, P!Order
    <3> QED
      BY <1>2, <1>5, <3>1, <3>2, <3>3 DEF P!Follows
  <2> QED
    BY <1>4, <2>4, <2>5
<1>9. CASE step \in MediaSteps
  <2>1. step' = P!Calls[step].onto
    BY <1>4, <1>9 DEF MediaSteps
  <2>2. P!InMedia(n)
    <3>1. l # "m"
      BY <1>9, MediaOnto
    <3>2. P!InMedia(Taken)
      BY <1>9, CallsOK DEF GrammarInv, StepInv
    <3> QED
      BY <1>2, <3>1, <3>2, NextBehind
  <2>3. SUFFICES \E j \in Current' : ~P!Follows(y, P!L(j), TRUE)
    BY <2>2 DEF P!Follows, P!Repeats
  <2>4. \/ ~(P!Order[l] <= P!Order[y])
        \/ l = y /\ ~P!Repeats(y, TRUE)
    BY <1>9, <2>1, MediaOnto
  <2> QED
    BY <1>2, <1>5, <2>4 DEF P!Follows
<1>10. CASE step = "m"
  <2>1. step' = "mi"
    BY <1>4, <1>10, OntoOK
  <2> QED
    BY <2>1 DEF Passed
<1> QED
  BY <1>8, <1>9, <1>10, StepsOK

-----------------------------------------------------------------------------
(* The parser passes over a line, or gives up *)

\* What was read stays, and the line passed over is late.
LEMMA PassedOn ==
  ASSUME ParserInv, GrammarInv, step \in DOMAIN P!Calls, UNCHANGED <<offer, rest, sdp>>,
         P!From # 0, P!Letter(P!Line) # P!Calls[step].letter,
         P!GoTo(P!Calls[step].past), P!Calls[step].past # "error"
  PROVE  GrammarInv'
<1> DEFINE l    == P!Calls[step].letter
           past == P!Calls[step].past
<1>1. BehindInv /\ StepInv /\ LateInv
  <2>1. step # "error"
    BY CallsOK
  <2> QED
    BY <2>1 DEF GrammarInv
<1>2. /\ past \in DOMAIN P!Calls /\ past \notin {"v", "s1", "s2", "error", "end"}
      /\ step \notin {"v", "o", "t", "m"}
      /\ past = "o" => step = "s1"
      /\ past # "o" => step # "s1"
      /\ step \in SessionSteps => past \in SessionSteps \cup {"m"}
      /\ step \in MediaSteps => past \in MediaSteps \cup {"m"}
      /\ Upto[step] <= Upto[past] /\ Upto[step] \in Nat /\ Upto[past] \in Nat
      /\ past \in P!MayEnd => step \in P!MayEnd
      /\ Passed[past] \subseteq Passed[step] \cup {l}
           \cup IF step \in MediaSteps THEN P!OfSession \ P!OfMedia ELSE {}
  BY PastOK, CallsOK
<1> HIDE DEF past
<1>3. step' = past
  <2>1. ~P!SkipS2(past)
    BY <1>2 DEF P!SkipS2
  <2>2. ~P!Ends(past)
    BY <1>1, <1>2 DEF P!Ends, StepInv
  <2> QED
    BY <2>1, <2>2 DEF P!GoTo, past
<1>4. /\ Taken' = Taken /\ P!Proper' = P!Proper /\ Behind' = Behind
      /\ \A k : P!L(k)' = P!L(k)
  <2>1. P!Proper' = P!Proper
    BY SameText
  <2> QED
    BY <2>1 DEF Taken, Behind, P!L
<1>5. /\ Current' = Current
      /\ P!InMedia(Taken)' <=> P!InMedia(Taken)
      /\ \A x : Read(x)' <=> Read(x)
  BY <1>4 DEF Current, P!SameSection, P!InMedia, Read
<1>6. BehindInv'
  <2>1. /\ Taken' > 0 => Real(Taken)'
        /\ \A k \in 1..Taken' : ~P!EndsAt(k)'
    BY <1>1, <1>4 DEF BehindInv, Real, P!EndsAt
  <2>2. \A k \in Behind' : P!WellPlaced(k)'
    <3>1. \A k : P!WellPlaced(k)' <=> P!WellPlaced(k)
      BY SameText
    <3> QED
      BY <1>1, <1>4, <3>1 DEF BehindInv
  <2>3. \A k \in Behind' : P!L(k)' = "r" => \E j \in P!Proper' : j < k /\ P!L(j)' = "t"
    BY <1>1, <1>4 DEF BehindInv
  <2>4. /\ step' # "v" => Read("v")'
        /\ step' \notin {"v", "s1", "o"} => Read("o")'
        /\ step' \in P!MayEnd \cup {"end"} => Read("t")'
    BY <1>1, <1>2, <1>3, <1>5 DEF BehindInv
  <2>5. sdp'[1].s # <<>> <=> Read("s")'
    BY <1>1, <1>5 DEF BehindInv
  <2> QED
    BY <2>1, <2>2, <2>3, <2>4, <2>5 DEF BehindInv
<1>7. StepInv'
  <2>1. /\ step' \in SessionSteps => ~P!InMedia(Taken)'
        /\ step' \in MediaSteps => P!InMedia(Taken)'
    <3>1. past \in SessionSteps => step \in SessionSteps
      BY <1>2, StepsOK
    <3>2. past \in MediaSteps => step \in MediaSteps
      BY <1>2, StepsOK
    <3> QED
      BY <1>1, <1>3, <1>5, <3>1, <3>2 DEF StepInv
  <2>2. step' \in P!MayEnd => rest' # <<>> /\ Head(rest').is # "empty"
    BY <1>1, <1>2, <1>3 DEF StepInv
  <2>3. ASSUME NEW j \in Current'
        PROVE  P!Order[P!L(j)] <= Upto[step'] /\ (step' = "o" => P!L(j) # "o")
    <3>0. j \in Current
      BY <1>5, <2>3
    <3>1. P!Order[P!L(j)] \in Nat /\ P!Order[P!L(j)] <= Upto[step]
      BY <3>0, CurrentOK
    <3>2. P!Order[P!L(j)] <= Upto[past]
      BY <1>2, <3>1
    <3>3. ASSUME past = "o" PROVE P!L(j) # "o"
      <4>1. P!Order["o"] = 2 /\ Upto["s1"] = 1
        BY DEF P!Order, Upto
      <4> QED
        BY <1>2, <3>1, <3>3, <4>1
    <3> QED
      BY <1>3, <3>2, <3>3
  <2>4. step' \notin {"v", "s1", "s2"}
    BY <1>2, <1>3
  <2> QED
    BY <1>4, <2>1, <2>2, <2>3, <2>4 DEF StepInv
<1>8. LateInv'
  <2> SUFFICES ASSUME NEW n \in DOMAIN offer, IsNext(n), P!L(n) \in Passed[past],
                      P!InPlace(P!L(n), P!InMedia(Taken))
               PROVE  \E j \in Current : ~P!Follows(P!L(n), P!L(j), P!InMedia(Taken))
    BY <1>3, <1>4, <1>5
       DEF LateInv, P!InPlace, P!Follows, P!Repeats, IsNext, Real, P!L
  <2>1. P!L(n) # l
    <3>1. IsNext(Taken + P!From) /\ P!Line = offer[Taken + P!From]
      BY AheadOK
    <3>2. n = Taken + P!From
      <4>1. offer \in Seq(SdpLine) /\ Taken \in Nat
        BY DEF ParserInv, GrammarInv
      <4>2. n \in Nat /\ Taken + P!From \in Nat
        BY <3>1, <4>1 DEF IsNext
      <4> QED
        BY <3>1, <4>1, <4>2 DEF IsNext
    <3> QED
      BY <3>1, <3>2 DEF P!L
  <2>2. ASSUME step \in MediaSteps PROVE P!L(n) \in P!OfMedia
    <3>1. P!InMedia(Taken)
      BY <1>1, <2>2 DEF StepInv
    <3> QED
      BY <3>1 DEF P!InPlace
  <2>3. P!L(n) \in Passed[step]
    BY <1>2, <2>1, <2>2
  <2> QED
    BY <1>1, <2>3 DEF LateInv
<1>9. Taken' \in 0..Len(offer') /\ rest' = SubSeq(offer', Taken' + 1, Len(offer'))
  BY <1>4 DEF GrammarInv
<1> QED
  BY <1>2, <1>3, <1>6, <1>7, <1>8, <1>9 DEF GrammarInv

\* With no line ahead, the text is cut off or goes on behind the end of its SDP.
LEMMA NothingAhead ==
  ASSUME ParserInv, GrammarInv, step \in DOMAIN P!Calls, P!From = 0
  PROVE  ~P!Grammatical
<1>1. BehindInv /\ StepInv
  <2>1. step # "error"
    BY CallsOK
  <2> QED
    BY <2>1 DEF GrammarInv
<1>2. /\ offer \in Seq(SdpLine) /\ rest \in Seq(Lines(offer)) /\ Taken \in 0..Len(offer)
      /\ rest = SubSeq(offer, Taken + 1, Len(offer))
  BY DEF ParserInv, GrammarInv
<1>3. P!Proper = Behind
  <2>1. \A k \in (Taken + 1)..Len(offer) : ~Real(k)
    BY AheadOK
  <2>2. ASSUME NEW k \in P!Proper PROVE k <= Taken
    <3>1. k \in 1..Len(offer) /\ Real(k)
      BY <1>2 DEF P!Proper, P!Extent, Real
    <3>2. k \notin (Taken + 1)..Len(offer)
      BY <2>1, <3>1
    <3> QED
      BY <1>2, <3>1, <3>2
  <2> QED
    BY <2>2 DEF Behind
<1> SUFFICES ASSUME P!Grammatical PROVE FALSE
  OBVIOUS
<1>4. rest # <<>>
  <2>1. Read("t")
    BY <1>3 DEF P!Grammatical, Read
  <2> QED
    BY <1>1, <2>1, TimeMeansMayEnd DEF StepInv
<1>5. Taken + 1 \in DOMAIN offer
  BY <1>2, <1>4
<1>6. Taken + 1 \in P!Extent
  <2> DEFINE n == Taken + 1
  <2>1. n \in DOMAIN offer /\ n > Taken /\ \A k \in (Taken + 1)..(n - 1) : ~Real(k)
    BY <1>2, <1>5
  <2> HIDE DEF n
  <2>2. n \in P!Extent
    BY <2>1, NotEnded
  <2> QED
    BY <2>2 DEF n
<1>7. PICK n \in Behind : \A k \in P!Extent : k <= n
  BY <1>3 DEF P!Grammatical
<1>8. n \in Nat /\ n <= Taken /\ Taken + 1 <= n
  BY <1>2, <1>6, <1>7 DEF Behind, P!Proper, P!Extent
<1> QED
  BY <1>2, <1>8

\* A line that a call cannot do without, and is not there, is nowhere.
LEMMA NotThere ==
  ASSUME ParserInv, GrammarInv, step \in {"v", "o", "t", "m"},
         NEW n, IsNext(n), P!L(n) # P!Calls[step].letter
  PROVE  ~P!Grammatical
<1>1. step \in DOMAIN P!Calls /\ P!Calls[step].letter = step
  BY DEF P!Calls, P!Call
<1>2. BehindInv /\ StepInv /\ LateInv
  <2>1. step # "error"
    BY <1>1, CallsOK
  <2> QED
    BY <1>1, <2>1 DEF GrammarInv
<1>3. /\ n \in P!Proper /\ n \in Nat /\ Taken \in Nat /\ Taken < n
      /\ P!L(n) # "m" => /\ P!InMedia(n) <=> P!InMedia(Taken)
                         /\ \A j \in Behind : P!SameSection(j, n) <=> j \in Current
  BY <1>1, NextBehind
<1>4. P!Proper \subseteq Nat
  BY DEF ParserInv, P!Proper, P!Extent
<1> SUFFICES ASSUME P!Grammatical PROVE FALSE
  OBVIOUS
<1>5. P!WellPlaced(n)
  BY <1>3 DEF P!Grammatical
\* a line that can no more be taken contradicts LateInv
<1>6. P!L(n) # "m" => P!L(n) \notin Passed[step]
  <2> SUFFICES ASSUME P!L(n) # "m", P!L(n) \in Passed[step] PROVE FALSE
    OBVIOUS
  <2>1. P!InPlace(P!L(n), P!InMedia(Taken))
    BY <1>3, <1>5 DEF P!WellPlaced, P!InPlace
  <2>2. PICK j \in Current : ~P!Follows(P!L(n), P!L(j), P!InMedia(Taken))
    BY <1>2, <2>1 DEF LateInv, IsNext
  <2>3. j \in P!Proper /\ j < n /\ P!SameSection(j, n)
    <3>1. j \in Behind
      BY <2>2 DEF Current
    <3>2. j \in P!Proper /\ j <= Taken
      BY <3>1 DEF Behind
    <3> QED
      BY <1>3, <1>4, <2>2, <3>1, <3>2
  <2> QED
    BY <1>3, <1>5, <2>2, <2>3 DEF P!WellPlaced, P!Follows, P!Repeats
<1>7. CASE step = "m"
  <2>1. P!L(n) \in P!OfSession \cup P!OfMedia
    BY <1>5 DEF P!WellPlaced, P!InPlace
  <2> QED
    BY <1>1, <1>6, <1>7, <2>1, PlacesOK
<1>8. CASE step \in {"v", "o", "t"}
  <2>1. step \in SessionSteps /\ Current = Behind /\ ~P!InMedia(Taken)
    BY <1>8, SessionIsCurrent DEF SessionSteps
  <2>2. ~Read(step)
    <3> SUFFICES ASSUME NEW j \in Current, P!L(j) = step PROVE FALSE
      BY <2>1 DEF Read
    <3>1. CASE step = "v"
      <4>1. Taken = 0 /\ j \in 1..Len(offer) /\ j <= Taken
        BY <1>2, <3>1 DEF ParserInv, StepInv, Current, Behind, P!Proper, P!Extent
      <4> QED
        BY <4>1
    <3>2. CASE step = "o"
      BY <1>2, <3>2 DEF StepInv
    <3>3. CASE step = "t"
      <4>1. P!Order["t"] = 9 /\ Upto["t"] = 8
        BY DEF P!Order, Upto
      <4> QED
        BY <1>1, <3>3, <4>1, CurrentOK
    <3> QED
      BY <1>8, <3>1, <3>2, <3>3
  <2>3. PICK h \in P!Proper : P!L(h) = step
    BY <1>8 DEF P!Grammatical
  <2>4. n < h
    <3>1. ~(h <= Taken)
      BY <2>2, <2>3 DEF Read, Behind
    <3>2. h \notin (Taken + 1)..(n - 1)
      BY <2>3 DEF IsNext, P!Proper, Real
    <3>3. h # n
      BY <1>1, <2>3
    <3>4. h \in Nat
      BY <1>4
    <3> QED
      BY <1>3, <3>1, <3>2, <3>3, <3>4
  <2>5. P!InPlace(step, P!InMedia(h)) /\ ~P!InMedia(h)
    <3>1. P!InPlace(step, P!InMedia(h))
      BY <2>3 DEF P!Grammatical, P!WellPlaced
    <3> QED
      BY <1>8, <3>1, PlacesOK DEF P!InPlace
  <2>6. P!L(n) # "m"
    BY <1>3, <1>4, <2>4, <2>5 DEF P!InMedia
  <2>7. P!SameSection(n, h)
    BY <2>5 DEF P!SameSection, P!InMedia
  <2>8. P!L(n) \in P!OfSession
    <3>1. ~P!InMedia(n)
      BY <1>3, <2>1, <2>6
    <3> QED
      BY <1>5, <3>1 DEF P!WellPlaced, P!InPlace
  <2>9. P!Order[P!L(n)] <= P!Order[step]
    <3>1. P!WellPlaced(h)
      BY DEF P!Grammatical
    <3> QED
      BY <1>3, <2>3, <2>4, <2>7, <3>1 DEF P!WellPlaced, P!Follows
  <2>10. CASE step = "v"
    BY <1>1, <2>8, <2>9, <2>10, PlacesOK
  <2>11. CASE step = "o"
    BY <1>1, <1>6, <2>6, <2>8, <2>9, <2>11, PlacesOK
  <2>12. CASE step = "t"
    <3>1. P!L(n) = "r"
      BY <1>1, <1>6, <2>6, <2>8, <2>9, <2>12, PlacesOK
    <3>2. PICK j \in P!Proper : j < n /\ P!L(j) = "t"
      BY <1>3, <3>1 DEF P!Grammatical
    <3>3. j \in Behind
      <4>1. j \in P!Proper /\ j <= n
        BY <1>3, <1>4, <3>2
      <4>2. j # n
        BY <3>1, <3>2
      <4> QED
        BY <1>1, <4>1, <4>2, NextBehind
    <3> QED
      BY <2>2, <2>12, <3>2, <3>3 DEF Read
  <2> QED
    BY <1>8, <2>10, <2>11, <2>12
<1> QED
  BY <1>7, <1>8

-----------------------------------------------------------------------------
(* The parser accepts the grammar *)

\* When the parser is at its end, the text is an SDP up to there.
LEMMA EndIsGrammatical ==
  ASSUME ParserInv, GrammarInv, step = "end" PROVE P!Grammatical /\ P!Proper = Behind
<1>1. BehindInv
  BY DEF GrammarInv
<1>2. /\ offer \in Seq(SdpLine) /\ rest \in Seq(Lines(offer)) /\ Taken \in 0..Len(offer)
      /\ rest = SubSeq(offer, Taken + 1, Len(offer))
      /\ rest = <<>> \/ Head(rest).is = "empty"
  BY DEF ParserInv, GrammarInv
<1>3. Read("v") /\ Read("o") /\ Read("t")
  BY <1>1 DEF BehindInv
<1>4. \A k \in Behind : k \in 1..Taken
  BY <1>2 DEF Behind, P!Proper, P!Extent
<1>5. Taken > 0 /\ Real(Taken)
  <2>1. PICK j \in Behind : P!L(j) = "v"
    BY <1>3 DEF Read
  <2>2. Taken > 0
    BY <1>2, <1>4, <2>1
  <2> QED
    BY <1>1, <2>2 DEF BehindInv
<1>6. \A k \in P!Extent : k <= Taken
  <2> SUFFICES ASSUME NEW k \in P!Extent, ~(k <= Taken) PROVE FALSE
    OBVIOUS
  <2>1. k \in 1..Len(offer) /\ k > Taken
    BY <1>2 DEF P!Extent
  <2>2. rest # <<>>
    <3>1. Len(rest) = Len(offer) - Taken
      BY <1>2
    <3>2. Len(rest) # 0
      BY <1>2, <2>1, <3>1
    <3> QED
      BY <3>2
  <2>3. Head(rest) = offer[Taken + 1]
    BY <1>2, <2>2
  <2>4. \E j \in 1..Taken : offer[j].is = "t"
    <3>1. PICK j \in Behind : P!L(j) = "t"
      BY <1>3 DEF Read
    <3>2. offer[j].is = "t"
      BY <3>1 DEF P!L, P!Letter
    <3> QED
      BY <1>4, <3>2
  <2>5. P!EndsAt(Taken + 1)
    <3> DEFINE n == Taken + 1
    <3>1. n > 1 /\ n - 1 = Taken
      BY <1>2, <1>5
    <3>2. offer[n].is = "empty"
      BY <1>2, <2>2, <2>3
    <3> HIDE DEF n
    <3>3. P!EndsAt(n)
      BY <1>5, <2>4, <3>1, <3>2 DEF P!EndsAt, Real
    <3> QED
      BY <3>3 DEF n
  <2>6. Taken + 1 \in 1..k
    BY <1>2, <2>1
  <2> QED
    BY <2>5, <2>6 DEF P!Extent
<1>7. P!Proper = Behind
  BY <1>6 DEF Behind, P!Proper
<1>8. Taken \in P!Proper
  <2>1. Taken \in DOMAIN offer
    BY <1>2, <1>5
  <2>2. Taken \in P!Extent
    BY <1>1, <2>1 DEF BehindInv, P!Extent
  <2> QED
    BY <1>5, <2>2 DEF P!Proper, Real
<1>9. \A l \in {"v", "o", "t"} : \E n \in P!Proper : P!L(n) = l
  BY <1>3, <1>7 DEF Read
<1>10. /\ \A n \in P!Proper : P!WellPlaced(n)
       /\ \A n \in P!Proper : P!L(n) = "r" => \E j \in P!Proper : j < n /\ P!L(j) = "t"
  BY <1>1, <1>7 DEF BehindInv
<1> QED
  BY <1>6, <1>7, <1>8, <1>9, <1>10 DEF P!Grammatical

\* Nothing is read before the first call.
LEMMA GrammarInit == CallInit => GrammarInv
<1> SUFFICES ASSUME CallInit PROVE GrammarInv
  OBVIOUS
<1>1. offer \in Seq(SdpLine) /\ rest = offer /\ step = "v" /\ sdp = <<P!Nothing>>
  BY SdpAssumption DEF CallInit, Init, P!Init
<1>2. Taken = 0 /\ rest = SubSeq(offer, Taken + 1, Len(offer))
  BY <1>1 DEF Taken
<1>3. Behind = {}
  BY <1>1, <1>2 DEF Behind, P!Proper, P!Extent
<1>4. Current = {} /\ ~P!InMedia(Taken) /\ \A l : ~Read(l)
  BY <1>3 DEF Current, P!InMedia, Read, Behind
<1>5. "v" \notin P!MayEnd \cup {"end"} /\ "v" \notin MediaSteps
  BY DEF P!MayEnd, MediaSteps
<1>6. sdp[1].s = <<>>
  BY <1>1 DEF P!Nothing, P!Field
<1>7. BehindInv
  BY <1>1, <1>2, <1>3, <1>4, <1>5, <1>6 DEF BehindInv
<1>8. StepInv
  BY <1>1, <1>2, <1>4, <1>5 DEF StepInv
<1>9. LateInv
  BY <1>1 DEF LateInv, Passed
<1>10. Taken \in 0..Len(offer) /\ step # "error"
  BY <1>1, <1>2
<1> QED
  BY <1>2, <1>7, <1>8, <1>9, <1>10 DEF GrammarInv

\* A line parser keeps the invariant.
LEMMA GrammarNext ==
  ASSUME ParserInv, GrammarInv, P!Next PROVE GrammarInv'
<1> DEFINE l == P!Calls[step].letter
<1>1. step \in DOMAIN P!Calls
  BY OneCall
<1>2. PICK kept : /\ P!Parse(l, kept)
                  /\ kept[1].s # <<>> <=> sdp[1].s # <<>> \/ l = "s"
  BY OneCall
<1>3. offer' = offer
  BY <1>2 DEF P!Parse
<1>4. /\ offer \in Seq(SdpLine) /\ rest \in Seq(Lines(offer)) /\ Taken \in 0..Len(offer)
      /\ rest = SubSeq(offer, Taken + 1, Len(offer))
  BY DEF ParserInv, GrammarInv
<1>5. ASSUME ~P!Grammatical, step' = "error", UNCHANGED rest PROVE GrammarInv'
  <2>1. ~P!Grammatical'
    BY <1>3, <1>5, SameText
  <2>2. Taken' \in 0..Len(offer') /\ rest' = SubSeq(offer', Taken' + 1, Len(offer'))
    BY <1>3, <1>4, <1>5 DEF Taken
  <2> QED
    BY <1>5, <2>1, <2>2, CallsOK DEF GrammarInv
<1>6. P!From # 0 => /\ P!From \in 1..Len(rest) /\ IsNext(Taken + P!From)
                    /\ P!Line = offer[Taken + P!From]
                    /\ P!L(Taken + P!From) = P!Letter(P!Line)
  BY AheadOK DEF P!L
<1>7. CASE P!Result(l) = "ERR_ERROR" /\ step' = "error" /\ UNCHANGED <<rest, sdp>>
  <2>1. CASE P!From = 0
    BY <1>1, <1>5, <1>7, <2>1, NothingAhead
  <2>2. CASE P!From # 0
    <3>1. P!Bad(P!Line)
      BY <1>7, <2>2 DEF P!Result
    <3>2. Taken + P!From \in P!Proper /\ P!Bad(offer[Taken + P!From])
      BY <1>1, <1>6, <2>2, <3>1, NextBehind
    <3>3. ~P!Grammatical
      BY <3>2 DEF P!Grammatical, P!WellPlaced
    <3> QED
      BY <1>5, <1>7, <3>3
  <2> QED
    BY <2>1, <2>2
<1>8. CASE P!Result(l) = "ERR_DISCARD" /\ UNCHANGED <<rest, sdp>> /\ P!GoTo(P!Calls[step].past)
  <2>1. P!From # 0 /\ P!Letter(P!Line) # l
    BY <1>8 DEF P!Result
  <2>2. CASE P!Calls[step].past = "error"
    <3>1. step \in {"v", "o", "t", "m"}
      BY <1>1, <2>2, PastOK
    <3>2. ~P!Grammatical
      BY <1>6, <2>1, <3>1, NotThere
    <3>3. step' = "error"
      <4>1. ~P!SkipS2("error") /\ ~P!Ends("error")
        BY DEF P!SkipS2, P!Ends, P!MayEnd
      <4> QED
        BY <1>8, <2>2, <4>1 DEF P!GoTo
    <3> QED
      BY <1>5, <1>8, <3>2, <3>3
  <2>3. CASE P!Calls[step].past # "error"
    BY <1>1, <1>3, <1>8, <2>1, <2>3, PassedOn
  <2> QED
    BY <2>2, <2>3
<1>9. CASE /\ P!Result(l) = "OSIP_WF"
           /\ rest' = SubSeq(rest, P!From + 1, Len(rest))
           /\ sdp' = kept
           /\ P!GoTo(P!Calls[step].onto)
  <2> DEFINE n == Taken + P!From
  <2>1. P!From # 0 /\ P!Letter(P!Line) = l /\ ~P!Bad(P!Line)
    BY <1>9 DEF P!Result
  <2>2. rest' = SubSeq(offer, n + 1, Len(offer))
    <3>1. P!From \in 1..Len(rest)
      BY <1>6, <2>1
    <3> QED
      BY <1>4, <1>9, <3>1
  <2>3. Takes(n)
    BY <1>2, <1>3, <1>6, <1>9, <2>1, <2>2 DEF Takes
  <2> HIDE DEF n
  <2>4. Taken' = n /\ n \in 1..Len(offer)
    BY <1>1, <2>3, AfterTaking
  <2>5. BehindInv' /\ step' # "error"
    BY <1>1, <2>3, BehindTaken, WhereTo
  <2>6. step' \in DOMAIN P!Calls => StepInv' /\ LateInv'
    BY <1>1, <2>3, StepTaken, LateTaken
  <2> QED
    BY <1>3, <2>2, <2>4, <2>5, <2>6 DEF GrammarInv
<1> QED
  BY <1>2, <1>7, <1>8, <1>9 DEF P!Parse

\* What Init and genSdp do afterwards leaves the parser alone.
LEMMA GrammarKept ==
  ASSUME GrammarInv, UNCHANGED <<offer, rest, step, sdp>> PROVE GrammarInv'
<1>1. /\ Taken' = Taken /\ P!Proper' = P!Proper
      /\ P!Grammatical' <=> P!Grammatical
      /\ \A k : P!WellPlaced(k)' <=> P!WellPlaced(k)
  BY SameText DEF Taken
<1>2. Behind' = Behind /\ \A k : P!L(k)' = P!L(k)
  BY <1>1 DEF Behind, P!L
<1>3. /\ Current' = Current
      /\ P!InMedia(Taken)' <=> P!InMedia(Taken)
      /\ \A x : Read(x)' <=> Read(x)
  BY <1>1, <1>2 DEF Current, P!SameSection, P!InMedia, Read
<1>4. BehindInv => BehindInv'
  BY <1>1, <1>2, <1>3 DEF BehindInv, Real, P!EndsAt
<1>5. StepInv => StepInv'
  BY <1>1, <1>2, <1>3 DEF StepInv
<1>6. LateInv => LateInv'
  BY <1>1, <1>2, <1>3
     DEF LateInv, P!InPlace, P!Follows, P!Repeats, IsNext, Real, P!L
<1> QED
  BY <1>1, <1>4, <1>5, <1>6 DEF GrammarInv

\* AcceptsGrammar: the parser accepts a text exactly when it is an SDP up to its end.
THEOREM AcceptsTheGrammar == Spec => []AcceptsGrammar
<1>1. CallInit => GrammarInv
  BY GrammarInit
<1>2. CallInv /\ GrammarInv /\ [CallNext]_callVars => GrammarInv'
  <2> SUFFICES ASSUME CallInv, GrammarInv, [CallNext]_callVars PROVE GrammarInv'
    OBVIOUS
  <2>1. CASE Parses
    BY <2>1, GrammarNext DEF Parses, CallInv
  <2>2. CASE ~Parses
    <3>1. UNCHANGED <<offer, rest, step, sdp>>
      BY <2>2 DEF CallNext, InitRefuses, InitThrows, InitGoesOn, GenSdp, Begin, Next, SkipTrack,
         VideoTrack, AudioTrack, callVars, vars, parseVars
    <3> QED
      BY <3>1, GrammarKept
  <2> QED
    BY <2>1, <2>2
<1>3. CallInv /\ GrammarInv => AcceptsGrammar
  BY EndIsGrammatical DEF CallInv, GrammarInv, AcceptsGrammar, P!AcceptsGrammar, P!Accepted,
     P!Rejected
<1> QED
  BY <1>1, <1>2, <1>3, CallInvariant, PTL DEF Spec
-----------------------------------------------------------------------------
(* Printing *)

\* what FlattenSeq joins step by step
Joins(f, seqs, n) ==
    /\ f = [i \in 1..n |-> f[i]]
    /\ \A i \in 1..n : f[i] = IF i = 1 THEN seqs[i] ELSE f[i - 1] \o seqs[i]

\* There is such a function,
LEMMA JoinsOne ==
  ASSUME NEW seqs, NEW n \in Nat PROVE \E f : Joins(f, seqs, n)
<1> DEFINE none == {m \in Nat : ~ \E f : Joins(f, seqs, m)}
<1> SUFFICES ASSUME none # {} PROVE FALSE
  OBVIOUS
<1>1. PICK m \in none : \A y \in none : m <= y
  <2>1. none \subseteq Nat
    OBVIOUS
  <2> HIDE DEF none
  <2> QED
    BY <2>1, LeastOf
<1>2. CASE m = 0
  <2>1. Joins(<<>>, seqs, 0)
    BY DEF Joins
  <2> QED
    BY <1>2, <2>1
<1>3. CASE m > 0
  <2>1. m \in Nat /\ m - 1 \in Nat /\ ~(m <= m - 1)
    BY <1>3
  <2>2. PICK f : Joins(f, seqs, m - 1)
    BY <1>1, <2>1
  <2> HIDE DEF none
  <2> DEFINE g == [i \in 1..m |-> IF i \in 1..(m - 1) THEN f[i]
                                  ELSE IF m = 1 THEN seqs[m] ELSE f[m - 1] \o seqs[m]]
  <2>3. ASSUME NEW i \in 1..m PROVE g[i] = IF i = 1 THEN seqs[i] ELSE g[i - 1] \o seqs[i]
    <3>1. CASE i \in 1..(m - 1)
      <4>1. f[i] = IF i = 1 THEN seqs[i] ELSE f[i - 1] \o seqs[i]
        BY <2>2, <3>1 DEF Joins
      <4>2. i # 1 => i - 1 \in 1..(m - 1) /\ i - 1 \in 1..m
        BY <2>1, <3>1
      <4> QED
        BY <3>1, <4>1, <4>2
    <3>2. CASE i = m
      <4>1. m # 1 => m - 1 \in 1..(m - 1) /\ m - 1 \in 1..m
        BY <2>1
      <4>2. m \notin 1..(m - 1)
        BY <2>1
      <4> QED
        BY <3>2, <4>1, <4>2
    <3> QED
      BY <2>1, <3>1, <3>2
  <2>4. g = [i \in 1..m |-> g[i]]
    OBVIOUS
  <2> HIDE DEF g
  <2>5. Joins(g, seqs, m)
    BY <2>3, <2>4 DEF Joins
  <2> QED
    BY <1>1, <2>5 DEF none
<1> QED
  BY <1>1, <1>2, <1>3

\* and FlattenSeq takes its last value.
LEMMA FlatJoins ==
  ASSUME NEW seqs, Len(seqs) \in Nat, Len(seqs) # 0
  PROVE  \E f : Joins(f, seqs, Len(seqs)) /\ P!FlattenSeq(seqs) = f[Len(seqs)]
<1> DEFINE n == Len(seqs)
           F == CHOOSE f : f = [i \in 1..n |-> IF i = 1 THEN seqs[i] ELSE f[i - 1] \o seqs[i]]
<1>1. P!FlattenSeq(seqs) = F[n]
  BY DEF P!FlattenSeq
<1>2. PICK f : Joins(f, seqs, n)
  BY JoinsOne
<1>3. f = [i \in 1..n |-> IF i = 1 THEN seqs[i] ELSE f[i - 1] \o seqs[i]]
  BY <1>2 DEF Joins
<1>4. \E f_ : f_ = [i \in 1..n |-> IF i = 1 THEN seqs[i] ELSE f_[i - 1] \o seqs[i]]
  BY <1>3
<1>5. F = [i \in 1..n |-> IF i = 1 THEN seqs[i] ELSE F[i - 1] \o seqs[i]]
  BY <1>4
<1> HIDE DEF F
<1>6. Joins(F, seqs, n)
  BY <1>5 DEF Joins
<1> QED
  BY <1>1, <1>6

\* It joins sequences to a sequence.
LEMMA JoinsSeq ==
  ASSUME NEW T, NEW seqs \in Seq(Seq(T)), NEW f, Joins(f, seqs, Len(seqs)),
         NEW n \in 1..Len(seqs)
  PROVE  f[n] \in Seq(T)
<1> DEFINE bad == {i \in 1..Len(seqs) : f[i] \notin Seq(T)}
<1> SUFFICES ASSUME bad # {} PROVE FALSE
  OBVIOUS
<1>1. PICK m \in bad : \A y \in bad : m <= y
  <2>1. bad \subseteq Nat
    OBVIOUS
  <2> HIDE DEF bad
  <2> QED
    BY <2>1, LeastOf
<1>2. m \in 1..Len(seqs) /\ f[m] = IF m = 1 THEN seqs[m] ELSE f[m - 1] \o seqs[m]
  BY DEF Joins
<1>3. seqs[m] \in Seq(T)
  BY <1>2
<1>4. CASE m = 1
  BY <1>2, <1>3, <1>4
<1>5. CASE m # 1
  <2>1. m - 1 \in 1..Len(seqs) /\ ~(m <= m - 1)
    BY <1>2, <1>5
  <2>2. f[m - 1] \in Seq(T)
    BY <1>1, <2>1
  <2>3. f[m - 1] \o seqs[m] \in Seq(T)
    BY <1>3, <2>2, ConcatProperties
  <2> QED
    BY <1>2, <1>5, <2>3
<1> QED
  BY <1>4, <1>5

\* An element is appended to a join by appending it to the second part.
LEMMA AppendPasses ==
  ASSUME NEW T, NEW a \in Seq(T), NEW b \in Seq(T), NEW x \in T
  PROVE  a \o Append(b, x) = Append(a \o b, x)
<1>1. /\ Append(b, x) = b \o <<x>> /\ <<x>> \in Seq(T)
      /\ a \o b \in Seq(T) /\ Append(a \o b, x) = (a \o b) \o <<x>>
  BY AppendIsConcat, ConcatProperties
<1> QED
  BY <1>1, ConcatAssociative

\* a line is put to part k, and behind this there are only empty parts
PutsLast(seqs, new, k, x) ==
    /\ k \in 1..Len(seqs) /\ Len(new) = Len(seqs)
    /\ \A i \in (k + 1)..Len(seqs) : seqs[i] = <<>>
    /\ \A i \in 1..Len(seqs) : new[i] = IF i = k THEN Append(seqs[i], x) ELSE seqs[i]

\* Then it comes last.
LEMMA FlatPut ==
  ASSUME NEW T, NEW seqs \in Seq(Seq(T)), NEW new \in Seq(Seq(T)), NEW k, NEW x \in T,
         PutsLast(seqs, new, k, x)
  PROVE  P!FlattenSeq(new) = Append(P!FlattenSeq(seqs), x)
<1>0. /\ k \in 1..Len(seqs) /\ Len(new) = Len(seqs)
      /\ \A i \in (k + 1)..Len(seqs) : seqs[i] = <<>>
      /\ \A i \in 1..Len(seqs) : new[i] = IF i = k THEN Append(seqs[i], x) ELSE seqs[i]
  BY DEF PutsLast
<1> DEFINE n == Len(seqs)
<1>1. /\ n \in Nat /\ n # 0 /\ Len(new) = n
      /\ \A i \in 1..n : seqs[i] \in Seq(T) /\ new[i] = IF i = k THEN Append(seqs[i], x) ELSE seqs[i]
  BY <1>0
<1>2. PICK f : Joins(f, seqs, n) /\ P!FlattenSeq(seqs) = f[n]
  BY <1>0, <1>1, FlatJoins
<1>3. PICK g : Joins(g, new, n) /\ P!FlattenSeq(new) = g[n]
  BY <1>0, <1>1, FlatJoins
<1>4. \A i \in 1..n : f[i] \in Seq(T)
  BY <1>2, JoinsSeq
<1> DEFINE Fits(i) == g[i] = IF i < k THEN f[i] ELSE Append(f[i], x)
           bad     == {i \in 1..n : ~Fits(i)}
<1>5. bad = {}
  <2> SUFFICES ASSUME bad # {} PROVE FALSE
    OBVIOUS
  <2>1. PICK m \in bad : \A y \in bad : m <= y
    <3>1. bad \subseteq Nat
      OBVIOUS
    <3> HIDE DEF bad
    <3> QED
      BY <3>1, LeastOf
  <2>2. m \in 1..n /\ ~Fits(m)
    OBVIOUS
  <2>3. m # 1 => m - 1 \in 1..n /\ Fits(m - 1)
    <3>1. m # 1 => m - 1 \in 1..n /\ ~(m <= m - 1)
      BY <1>0, <1>1, <2>2
    <3> QED
      BY <2>1, <3>1
  <2> HIDE DEF bad
  <2>4. /\ f[m] = IF m = 1 THEN seqs[m] ELSE f[m - 1] \o seqs[m]
        /\ g[m] = IF m = 1 THEN new[m] ELSE g[m - 1] \o new[m]
    BY <1>2, <1>3, <2>2 DEF Joins
  <2>5. CASE m < k
    <3>1. new[m] = seqs[m]
      BY <1>1, <2>2, <2>5
    <3>2. m # 1 => g[m - 1] = f[m - 1]
      <4>1. m # 1 => m - 1 < k
        BY <1>0, <1>1, <2>2, <2>5
      <4> QED
        BY <2>3, <4>1
    <3>3. g[m] = f[m]
      BY <2>4, <3>1, <3>2
    <3> QED
      BY <2>2, <2>5, <3>3
  <2>6. CASE m = k
    <3>0. new[m] = Append(seqs[m], x) /\ seqs[m] \in Seq(T) /\ ~(m < k)
      <4>1. m \in 1..n /\ m \in Nat
        BY <1>0, <1>1, <2>2
      <4>2. new[m] = IF m = k THEN Append(seqs[m], x) ELSE seqs[m]
        BY <1>0, <1>1, <4>1
      <4>3. seqs[m] \in Seq(T)
        BY <1>0, <1>1, <4>1
      <4>4. ~(m < k)
        BY <2>6, <4>1
      <4> QED
        BY <2>6, <4>2, <4>3, <4>4
    <3>1. CASE m = 1
      <4>1. g[m] = Append(f[m], x)
        BY <2>4, <3>0, <3>1
      <4> QED
        BY <2>2, <3>0, <4>1
    <3>2. CASE m # 1
      <4>0. g[m - 1] = f[m - 1]
        <5>1. m - 1 < k
          BY <1>0, <1>1, <2>2, <2>6
        <5> QED
          BY <2>3, <3>2, <5>1
      <4>1. g[m] = f[m - 1] \o Append(seqs[m], x)
        BY <2>4, <3>0, <3>2, <4>0
      <4>2. f[m - 1] \in Seq(T)
        BY <1>4, <2>3, <3>2
      <4>3. f[m - 1] \o Append(seqs[m], x) = Append(f[m - 1] \o seqs[m], x)
        <5> DEFINE a == f[m - 1]
                   b == seqs[m]
        <5>1. a \in Seq(T) /\ b \in Seq(T) /\ x \in T
          BY <3>0, <4>2
        <5> HIDE DEF a, b
        <5>2. a \o Append(b, x) = Append(a \o b, x)
          BY <5>1, AppendPasses
        <5> QED
          BY <5>2 DEF a, b
      <4>4. g[m] = Append(f[m], x)
        BY <2>4, <3>2, <4>1, <4>3
      <4> QED
        BY <2>2, <3>0, <4>4
    <3> QED
      BY <3>1, <3>2
  <2>7. CASE m > k
    <3>1. m # 1 /\ seqs[m] = <<>> /\ new[m] = <<>> /\ ~(m - 1 < k)
      BY <1>0, <1>1, <2>2, <2>7
    <3> DEFINE a == f[m - 1]
    <3>2. a \in Seq(T)
      BY <1>4, <2>3, <3>1
    <3>3. g[m - 1] = Append(a, x)
      BY <2>3, <3>1
    <3>4. f[m] = a \o <<>> /\ g[m] = Append(a, x) \o <<>>
      BY <2>4, <3>1, <3>3
    <3> HIDE DEF a
    <3>5. a \o <<>> = a /\ Append(a, x) \o <<>> = Append(a, x)
      BY <3>2, AppendProperties, ConcatEmptySeq
    <3>6. f[m] = a /\ g[m] = Append(a, x)
      BY <3>4, <3>5
    <3>7. ~(m < k)
      BY <1>0, <1>1, <2>2, <2>7
    <3>8. g[m] = Append(f[m], x)
      BY <3>6
    <3> HIDE DEF a
    <3> QED
      BY <2>2, <3>7, <3>8
  <2> QED
    BY <1>0, <1>1, <2>2, <2>5, <2>6, <2>7
<1>6. g[n] = Append(f[n], x)
  <2>1. n \in 1..n /\ ~(n < k)
    BY <1>0, <1>1
  <2>2. Fits(n)
    <3> HIDE DEF Fits
    <3> QED
      BY <1>5, <2>1
  <2> QED
    BY <2>1, <2>2
<1> QED
  BY <1>2, <1>3, <1>6

\* A further sequence comes last.
LEMMA FlatAppend ==
  ASSUME NEW T, NEW seqs \in Seq(Seq(T)), NEW s \in Seq(T)
  PROVE  P!FlattenSeq(Append(seqs, s)) = P!FlattenSeq(seqs) \o s
<1> DEFINE n   == Len(seqs)
           new == Append(seqs, s)
<1>1. /\ n \in Nat /\ Len(new) = n + 1 /\ new[n + 1] = s
      /\ \A i \in 1..n : seqs[i] \in Seq(T) /\ new[i] = seqs[i]
  OBVIOUS
<1> HIDE DEF new
<1>2. PICK g : Joins(g, new, n + 1) /\ P!FlattenSeq(new) = g[n + 1]
  BY <1>1, FlatJoins
<1>3. g[n + 1] = IF n + 1 = 1 THEN s ELSE g[n] \o s
  <2> DEFINE p == n + 1
  <2>1. p \in 1..p /\ p - 1 = n /\ new[p] = s
    BY <1>1
  <2>2. Joins(g, new, p)
    BY <1>2
  <2> HIDE DEF p
  <2>3. g[p] = IF p = 1 THEN new[p] ELSE g[p - 1] \o new[p]
    BY <2>1, <2>2 DEF Joins
  <2> QED
    BY <2>1, <2>3 DEF p
<1>4. CASE n = 0
  <2>1. P!FlattenSeq(seqs) = <<>>
    BY <1>4 DEF P!FlattenSeq
  <2> QED
    BY <1>2, <1>3, <1>4, <2>1 DEF new
<1>5. CASE n # 0
  <2>1. PICK f : Joins(f, seqs, n) /\ P!FlattenSeq(seqs) = f[n]
    BY <1>1, <1>5, FlatJoins
  <2> DEFINE bad == {i \in 1..n : g[i] # f[i]}
  <2>2. bad = {}
    <3> SUFFICES ASSUME bad # {} PROVE FALSE
      OBVIOUS
    <3>1. PICK m \in bad : \A y \in bad : m <= y
      <4>1. bad \subseteq Nat
        OBVIOUS
      <4> HIDE DEF bad
      <4> QED
        BY <4>1, LeastOf
    <3>2. m \in 1..n /\ g[m] # f[m]
      OBVIOUS
    <3>3. m # 1 => m - 1 \in 1..n /\ g[m - 1] = f[m - 1]
      <4>1. m # 1 => m - 1 \in 1..n /\ ~(m <= m - 1)
        BY <1>1, <3>2
      <4> QED
        BY <3>1, <4>1
    <3> HIDE DEF bad
    <3>4. m \in 1..(n + 1)
      BY <1>1, <3>2
    <3>5. /\ f[m] = IF m = 1 THEN seqs[m] ELSE f[m - 1] \o seqs[m]
          /\ g[m] = IF m = 1 THEN new[m] ELSE g[m - 1] \o new[m]
      BY <1>2, <2>1, <3>2, <3>4 DEF Joins
    <3> QED
      BY <1>1, <3>2, <3>3, <3>5
  <2>3. g[n] = f[n]
    BY <1>1, <1>5, <2>2
  <2> QED
    BY <1>1, <1>2, <1>3, <1>5, <2>1, <2>3 DEF new
<1> QED
  BY <1>4, <1>5


\* the field a line is kept in
Slot(l) == IF l = "r" THEN "t" ELSE l

\* what the parser has kept of the section it is in, was read there
FieldInv ==
    /\ Len(sdp) = 1 <=> ~P!InMedia(Taken)
    /\ \A f \in P!Field : sdp[Len(sdp)][f] # <<>> => \E j \in Current : Slot(P!L(j)) = f

\* Empty parts are joined to nothing.
LEMMA FlatNone ==
  ASSUME NEW T, NEW seqs \in Seq(Seq(T)), \A i \in 1..Len(seqs) : seqs[i] = <<>>
  PROVE  P!FlattenSeq(seqs) = <<>>
<1> DEFINE n == Len(seqs)
<1>1. CASE n = 0
  BY <1>1 DEF P!FlattenSeq
<1>2. CASE n # 0
  <2>1. PICK f : Joins(f, seqs, n) /\ P!FlattenSeq(seqs) = f[n]
    BY <1>2, FlatJoins
  <2> DEFINE some == {i \in 1..n : f[i] # <<>>}
  <2>2. some = {}
    <3> SUFFICES ASSUME some # {} PROVE FALSE
      OBVIOUS
    <3>1. PICK m \in some : \A y \in some : m <= y
      <4>1. some \subseteq Nat
        OBVIOUS
      <4> HIDE DEF some
      <4> QED
        BY <4>1, LeastOf
    <3>2. m \in 1..n /\ f[m] # <<>>
      OBVIOUS
    <3>3. m # 1 => m - 1 \in 1..n /\ f[m - 1] = <<>>
      <4>1. m # 1 => m - 1 \in 1..n /\ ~(m <= m - 1)
        BY <3>2
      <4> QED
        BY <3>1, <4>1
    <3> HIDE DEF some
    <3>4. f[m] = IF m = 1 THEN seqs[m] ELSE f[m - 1] \o seqs[m]
      BY <2>1, <3>2 DEF Joins
    <3> QED
      BY <3>2, <3>3, <3>4
  <2> QED
    BY <1>2, <2>1, <2>2
<1> QED
  BY <1>1, <1>2

\* What they are joined to is a sequence.
LEMMA FlatType ==
  ASSUME NEW T, NEW seqs \in Seq(Seq(T)) PROVE P!FlattenSeq(seqs) \in Seq(T)
<1> DEFINE n == Len(seqs)
<1>1. CASE n = 0
  BY <1>1 DEF P!FlattenSeq
<1>2. CASE n # 0
  <2>1. PICK f : Joins(f, seqs, n) /\ P!FlattenSeq(seqs) = f[n]
    BY <1>2, FlatJoins
  <2>2. n \in 1..n
    BY <1>2
  <2>3. f[n] \in Seq(T)
    BY <2>1, <2>2, JoinsSeq
  <2> QED
    BY <2>1, <2>3
<1> QED
  BY <1>1, <1>2

\* A function on 1..n is a sequence of that length.
LEMMA FunctionIsSeq ==
  ASSUME NEW S, NEW n \in Nat, NEW f \in [1..n -> S] PROVE f \in Seq(S) /\ Len(f) = n
<1>1. f \in Seq(S)
  <2>1. \A i \in 1..n : f[i] \in S
    OBVIOUS
  <2>2. f = [i \in 1..n |-> f[i]]
    OBVIOUS
  <2>3. [i \in 1..n |-> f[i]] \in Seq(S)
    BY <2>1
  <2> QED
    BY <2>2, <2>3
<1>2. Len(f) \in Nat /\ 1..Len(f) = 1..n
  BY <1>1, LenProperties
<1> QED
  BY <1>1, <1>2

\* The parts that are printed, and the print, are sequences.
LEMMA PartsType ==
  ASSUME NEW T, NEW order \in Seq(P!Field), NEW part \in [P!Field -> Seq(T)]
  PROVE  LET seqs == [i \in DOMAIN order |-> part[order[i]]]
         IN  seqs \in Seq(Seq(T)) /\ Len(seqs) = Len(order)
<1> DEFINE seqs == [i \in DOMAIN order |-> part[order[i]]]
<1>1. Len(order) \in Nat /\ DOMAIN order = 1..Len(order)
  BY LenProperties
<1>2. \A i \in 1..Len(order) : part[order[i]] \in Seq(T)
  <2>1. \A i \in 1..Len(order) : order[i] \in P!Field
    BY ElementOfSeq
  <2> QED
    BY <2>1
<1>3. seqs \in [1..Len(order) -> Seq(T)]
  BY <1>1, <1>2
<1>4. seqs \in Seq(Seq(T)) /\ Len(seqs) = Len(order)
  <2> HIDE DEF seqs
  <2> QED
    BY <1>1, <1>3, FunctionIsSeq
<1> QED
  BY <1>4

\* What is printed of a section is a sequence.
LEMMA PrintedType ==
  ASSUME NEW T, NEW order \in Seq(P!Field), NEW part \in [P!Field -> Seq(T)]
  PROVE  P!Printed(part, order) \in Seq(T)
<1> DEFINE seqs == [i \in DOMAIN order |-> part[order[i]]]
<1>1. seqs \in Seq(Seq(T))
  BY PartsType
<1> HIDE DEF seqs
<1>2. P!FlattenSeq(seqs) \in Seq(T)
  BY <1>1, FlatType
<1> QED
  BY <1>2 DEF P!Printed, seqs

\* The orders of the printer are those of the grammar, but for an s before the o.
PrintOrder(order) ==
    /\ order \in Seq(P!Field)
    /\ \A k, i \in 1..Len(order) : order[k] = order[i] => k = i
    /\ \A k, i \in 1..Len(order) :
           k < i => \/ ~(P!Order[order[i]] <= P!Order[order[k]])
                    \/ order[k] = "o" /\ order[i] = "s"

\* Both orders are such, and have every field of their section.
LEMMA SessionOrder ==
  /\ PrintOrder(P!OrderOfSession)
  /\ \A f \in P!Field \ {"m"} : \E k \in 1..Len(P!OrderOfSession) : P!OrderOfSession[k] = f
<1> DEFINE order == P!OrderOfSession
<1>1. order = <<"v", "o", "s", "i", "u", "e", "p", "c", "b", "t", "z", "k", "a">>
  BY DEF P!OrderOfSession
<1>2. P!Field = {"v", "o", "s", "i", "u", "e", "p", "c", "b", "t", "z", "k", "a", "m"}
  BY DEF P!Field
<1>3. /\ P!Order["v"] = 1 /\ P!Order["o"] = 2 /\ P!Order["s"] = 2 /\ P!Order["i"] = 3
      /\ P!Order["u"] = 4 /\ P!Order["e"] = 5 /\ P!Order["p"] = 6 /\ P!Order["c"] = 7
      /\ P!Order["b"] = 8 /\ P!Order["t"] = 9 /\ P!Order["z"] = 10 /\ P!Order["k"] = 11
      /\ P!Order["a"] = 12
  BY DEF P!Order
<1> HIDE DEF order
<1>4. /\ Len(order) = 13 /\ order \in Seq(P!Field)
      /\ order[1] = "v" /\ order[2] = "o" /\ order[3] = "s" /\ order[4] = "i"
      /\ order[5] = "u" /\ order[6] = "e" /\ order[7] = "p" /\ order[8] = "c"
      /\ order[9] = "b" /\ order[10] = "t" /\ order[11] = "z" /\ order[12] = "k"
      /\ order[13] = "a"
  BY <1>1, <1>2
<1>5. \A k, i \in 1..13 : order[k] = order[i] => k = i
  BY <1>4
<1>6. \A k, i \in 1..13 :
          k < i => \/ ~(P!Order[order[i]] <= P!Order[order[k]])
                   \/ order[k] = "o" /\ order[i] = "s"
  <2> DEFINE place(k) == P!Order[order[k]]
  <2>0. /\ place(1) = 1 /\ place(2) = 2 /\ place(3) = 2 /\ place(4) = 3 /\ place(5) = 4
        /\ place(6) = 5 /\ place(7) = 6 /\ place(8) = 7 /\ place(9) = 8 /\ place(10) = 9
        /\ place(11) = 10 /\ place(12) = 11 /\ place(13) = 12
    BY <1>3, <1>4
  <2> HIDE DEF place
  <2>1. \A k \in 1..13 : place(k) = IF k <= 2 THEN k ELSE k - 1
    BY <2>0
  <2>2. \A k, i \in 1..13 : k < i => ~(place(i) <= place(k)) \/ (k = 2 /\ i = 3)
    BY <2>1
  <2> QED
    BY <1>4, <2>2 DEF place
<1>7. \A f \in P!Field \ {"m"} : \E k \in 1..13 : order[k] = f
  BY <1>2, <1>4
<1> QED
  BY <1>4, <1>5, <1>6, <1>7 DEF PrintOrder, order

LEMMA MediaOrder ==
  /\ PrintOrder(P!OrderOfMedia)
  /\ \A f \in P!OfMedia : \E k \in 1..Len(P!OrderOfMedia) : P!OrderOfMedia[k] = f
<1> DEFINE order == P!OrderOfMedia
<1>1. order = <<"m", "i", "c", "b", "k", "a">>
  BY DEF P!OrderOfMedia
<1>2. /\ P!Field = {"v", "o", "s", "i", "u", "e", "p", "c", "b", "t", "z", "k", "a", "m"}
      /\ P!OfMedia = {"m", "i", "c", "b", "k", "a"}
  BY DEF P!Field, P!OfMedia
<1>3. /\ P!Order["m"] = 0 /\ P!Order["i"] = 3 /\ P!Order["c"] = 7
      /\ P!Order["b"] = 8 /\ P!Order["k"] = 11 /\ P!Order["a"] = 12
  BY DEF P!Order
<1> HIDE DEF order
<1>4. /\ Len(order) = 6 /\ order \in Seq(P!Field)
      /\ order[1] = "m" /\ order[2] = "i" /\ order[3] = "c" /\ order[4] = "b"
      /\ order[5] = "k" /\ order[6] = "a"
  BY <1>1, <1>2
<1>5. \A k, i \in 1..6 : order[k] = order[i] => k = i
  BY <1>4
<1>6. \A k, i \in 1..6 :
          k < i => \/ ~(P!Order[order[i]] <= P!Order[order[k]])
                   \/ order[k] = "o" /\ order[i] = "s"
  BY <1>3, <1>4
<1>7. \A f \in P!OfMedia : \E k \in 1..6 : order[k] = f
  BY <1>2, <1>4
<1> QED
  BY <1>4, <1>5, <1>6, <1>7 DEF PrintOrder, order

\* the section has only what comes before f, or is f
RoomFor(f, part, order) ==
    \A i \in 1..Len(order) :
        part[order[i]] # <<>> =>
            P!Order[order[i]] <= P!Order[f] /\ ~(f = "o" /\ order[i] = "s")

\* a section, and one with a line put to a field
PartType(T)   == [P!Field -> Seq(T)]
Put(part, f, x) == [part EXCEPT ![f] = Append(part[f], x)]

PutTo(message, k, f, x) == [message EXCEPT ![k] = Put(message[k], f, x)]

\* A section with a line put to it is a section.
LEMMA PutType ==
  ASSUME NEW T, NEW part \in PartType(T), NEW f \in P!Field, NEW x \in T
  PROVE  Put(part, f, x) \in PartType(T)
<1>1. part \in [P!Field -> Seq(T)] /\ part[f] \in Seq(T)
  BY DEF PartType
<1>2. Append(part[f], x) \in Seq(T)
  BY <1>1, AppendProperties
<1> QED
  BY <1>1, <1>2 DEF Put, PartType

\* A line put to a section is printed last, if there is room.
LEMMA SectionPut ==
  ASSUME NEW T, NEW order, NEW part \in PartType(T), NEW f, NEW x \in T,
         PrintOrder(order), RoomFor(f, part, order), \E k \in 1..Len(order) : order[k] = f
  PROVE  P!Printed(Put(part, f, x), order)
             = Append(P!Printed(part, order), x)
<1> DEFINE put == Put(part, f, x)
<1>0. part \in [P!Field -> Seq(T)]
  BY DEF PartType
<1>1. order \in Seq(P!Field)
  BY DEF PrintOrder
<1>2. PICK k \in 1..Len(order) : order[k] = f
  OBVIOUS
<1>3. f \in P!Field
  BY <1>1, <1>2, ElementOfSeq
<1>4. put \in [P!Field -> Seq(T)]
  BY <1>3, PutType DEF PartType
<1>5. \A i \in 1..Len(order) : order[i] = order[k] => i = k
  BY DEF PrintOrder
<1>6. \A i \in (k + 1)..Len(order) : part[order[i]] = <<>>
  <2> TAKE i \in (k + 1)..Len(order)
  <2>1. i \in 1..Len(order) /\ k < i
    <3>1. Len(order) \in Nat
      BY <1>1, LenProperties
    <3> QED
      BY <3>1
  <2>2. \/ ~(P!Order[order[i]] <= P!Order[f])
        \/ f = "o" /\ order[i] = "s"
    BY <1>2, <2>1 DEF PrintOrder
  <2> QED
    BY <2>1, <2>2 DEF RoomFor
<1>7. \A i \in 1..Len(order) :
          put[order[i]] = IF order[i] = order[k] THEN Append(part[order[i]], x)
                          ELSE part[order[i]]
  <2>1. \A i \in 1..Len(order) : order[i] \in P!Field
    BY <1>1, ElementOfSeq
  <2>2. put = [part EXCEPT ![f] = Append(part[f], x)]
    BY DEF Put
  <2> HIDE DEF put
  <2> QED
    BY <1>0, <1>2, <2>1, <2>2
<1> HIDE DEF put
<1> DEFINE seqs == [i \in DOMAIN order |-> part[order[i]]]
           new  == [i \in DOMAIN order |-> put[order[i]]]
<1>8. DOMAIN order = 1..Len(order)
  BY <1>1, LenProperties
<1>9. /\ seqs \in Seq(Seq(T)) /\ Len(seqs) = Len(order)
      /\ new \in Seq(Seq(T)) /\ Len(new) = Len(order)
  <2>1. seqs \in Seq(Seq(T)) /\ Len(seqs) = Len(order)
    BY <1>0, <1>1, PartsType
  <2>2. new \in Seq(Seq(T)) /\ Len(new) = Len(order)
    BY <1>1, <1>4, PartsType
  <2> HIDE DEF seqs, new
  <2> QED
    BY <2>1, <2>2
<1>10. PutsLast(seqs, new, k, x)
  <2>1. \A i \in (k + 1)..Len(seqs) : seqs[i] = <<>>
    <3>1. Len(order) \in Nat
      BY <1>1, LenProperties
    <3>2. \A i \in (k + 1)..Len(order) : i \in DOMAIN order
      BY <1>8, <3>1
    <3> QED
      BY <1>6, <1>9, <3>2
  <2>2. \A i \in 1..Len(seqs) : new[i] = IF i = k THEN Append(seqs[i], x) ELSE seqs[i]
    BY <1>5, <1>7, <1>8, <1>9
  <2> HIDE DEF seqs, new
  <2> QED
    BY <1>9, <2>1, <2>2 DEF PutsLast
<1>11. P!FlattenSeq(new) = Append(P!FlattenSeq(seqs), x)
  <2> HIDE DEF seqs, new
  <2> QED
    BY <1>9, <1>10, FlatPut
<1>12. P!Printed(put, order) = Append(P!Printed(part, order), x)
  BY <1>11 DEF P!Printed
<1> QED
  BY <1>12 DEF put

\* A section with nothing in it is printed as nothing.
LEMMA PrintedNothing ==
  ASSUME NEW order \in Seq(P!Field)
  PROVE  P!Printed(P!Nothing, order) = <<>>
<1> DEFINE seqs == [i \in DOMAIN order |-> P!Nothing[order[i]]]
           T    == {}
<1>1. P!Nothing \in [P!Field -> Seq(T)]
  BY DEF P!Nothing
<1>2. seqs \in Seq(Seq(T)) /\ Len(seqs) = Len(order)
  <2> HIDE DEF T
  <2> QED
    BY <1>1, PartsType
<1>3. \A i \in 1..Len(order) : order[i] \in P!Field
  BY ElementOfSeq
<1>4. \A i \in 1..Len(seqs) : seqs[i] = <<>>
  <2>1. DOMAIN order = 1..Len(order)
    BY LenProperties
  <2> QED
    BY <1>2, <1>3, <2>1 DEF P!Nothing
<1>5. P!FlattenSeq(seqs) = <<>>
  <2> HIDE DEF seqs, T
  <2> QED
    BY <1>2, <1>4, FlatNone
<1> QED
  BY <1>5 DEF P!Printed

-----------------------------------------------------------------------------
(* The parser keeps what it reads *)

\* the message once a line of a letter is put to the section that is read
Stored(l) ==
    IF l = "m" THEN Append(sdp, [P!Nothing EXCEPT !.m = <<P!Line>>])
    ELSE PutTo(sdp, Len(sdp), Slot(l), P!Line)

\* there is a place for it in this section
Roomy(l) ==
    /\ Len(sdp) # 1 => l \in P!OfMedia
    /\ l # "m" /\ sdp[Len(sdp)][Slot(l)] # <<>> => P!Repeats(l, Len(sdp) # 1)

\* A line parser puts its line to the section that is read, if there is a place for it.
LEMMA Stores ==
  ASSUME ParserInv, P!Next, P!Result(P!Calls[step].letter) = "OSIP_WF",
         Roomy(P!Calls[step].letter)
  PROVE  sdp' = Stored(P!Calls[step].letter)
<1> DEFINE l    == P!Calls[step].letter
           Part == [P!Field -> Seq(Lines(offer))]
           last == Len(sdp)
<1>1. /\ last \in DOMAIN sdp /\ sdp \in Seq(Part) /\ sdp[last] \in Part
      /\ P!Session = 1 /\ P!Latest = last /\ P!Medias = 2..last /\ last \in Nat /\ last # 0
  BY DEF ParserInv, SdpType, P!Session, P!Latest, P!Medias
<1>2. P!Field = {"v", "o", "s", "i", "u", "e", "p", "c", "b", "t", "z", "k", "a", "m"}
  BY DEF P!Field
<1>3. ASSUME NEW k, NEW kept, P!Parse(k, kept) PROVE k = l /\ sdp' = kept
  <2>1. k = l
    BY <1>3 DEF P!Parse
  <2> QED
    BY <1>3, <2>1 DEF P!Parse
<1>4. ASSUME NEW f \in P!Field
      PROVE  P!Add(last, f) = PutTo(sdp, last, f, P!Line)
  BY <1>1 DEF P!Add, Put, PutTo
<1>5. ASSUME NEW f \in P!Field, sdp[last][f] = <<>> PROVE P!Set(last, f) = P!Add(last, f)
  <2>1. Append(sdp[last][f], P!Line) = <<P!Line>>
    BY <1>5
  <2> QED
    BY <1>1, <2>1 DEF P!Set, P!Add
<1> HIDE DEF l, last
<1>6. ASSUME NEW k, k = l, k # "m", k \notin {"e", "p", "b", "t", "r", "a"},
             last # 1 => k # "c"
      PROVE  sdp[last][Slot(k)] = <<>>
  BY <1>6 DEF Roomy, P!Repeats, l, last
<1>7. l \notin P!OfMedia => last = 1
  BY DEF Roomy, l, last
<1>8. P!OfMedia = {"m", "i", "c", "b", "k", "a"}
  BY DEF P!OfMedia
<1>9. \A k : k # "r" => Slot(k) = k
  BY DEF Slot
<1>10. Slot("r") = "t"
  BY DEF Slot
<1>11. \A k : k # "m" =>
           Stored(k) = PutTo(sdp, last, Slot(k), P!Line)
  BY DEF Stored, last, PutTo
<1>12. ASSUME NEW k, k = l, k \in P!Field \ {"m", "e", "p", "b", "t", "a"},
              last # 1 => k # "c"
       PROVE  P!Set(last, k) = Stored(k)
  <2>1. k \in P!Field /\ k # "m" /\ k # "r"
    BY <1>2, <1>12
  <2>2. sdp[last][k] = <<>>
    BY <1>2, <1>6, <1>9, <1>12, <2>1
  <2>3. P!Set(last, k) = P!Add(last, k)
    BY <1>5, <2>1, <2>2
  <2>4. Slot(k) = k
    BY <1>9, <2>1
  <2> QED
    BY <1>4, <1>11, <2>1, <2>3, <2>4
<1>13. ASSUME NEW k \in P!Field \ {"m"} PROVE P!Add(last, k) = Stored(k)
  <2>1. k # "r" /\ k # "m"
    BY <1>2
  <2>2. Slot(k) = k
    BY <1>9, <2>1
  <2> QED
    BY <1>4, <1>11, <2>1, <2>2
<1>14. P!Add(last, "t") = Stored("r")
  <2>1. "r" # "m" /\ "t" \in P!Field
    BY <1>2
  <2>2. Stored("r") = PutTo(sdp, last, Slot("r"), P!Line)
    BY <1>11, <2>1
  <2>3. P!Add(last, "t") = PutTo(sdp, last, "t", P!Line)
    BY <1>4, <2>1
  <2> QED
    BY <1>10, <2>2, <2>3
<1>v. CASE P!parse_v
  <2>1. "v" = l /\ sdp' = P!Set(1, "v")
    BY <1>v, <1>1, <1>3 DEF P!parse_v
  <2> QED
    BY <1>2, <1>7, <1>8, <1>12, <2>1 DEF l
<1>o. CASE P!parse_o
  <2>1. "o" = l /\ sdp' = P!Set(1, "o")
    BY <1>o, <1>1, <1>3 DEF P!parse_o
  <2> QED
    BY <1>2, <1>7, <1>8, <1>12, <2>1 DEF l
<1>s. CASE P!parse_s
  <2>1. "s" = l /\ sdp' = P!Set(1, "s")
    BY <1>s, <1>1, <1>3 DEF P!parse_s
  <2> QED
    BY <1>2, <1>7, <1>8, <1>12, <2>1 DEF l
<1>u. CASE P!parse_u
  <2>1. "u" = l /\ sdp' = P!Set(1, "u")
    BY <1>u, <1>1, <1>3 DEF P!parse_u
  <2> QED
    BY <1>2, <1>7, <1>8, <1>12, <2>1 DEF l
<1>z. CASE P!parse_z
  <2>1. "z" = l /\ sdp' = P!Set(1, "z")
    BY <1>z, <1>1, <1>3 DEF P!parse_z
  <2> QED
    BY <1>2, <1>7, <1>8, <1>12, <2>1 DEF l
<1>i. CASE P!parse_i
  <2>1. "i" = l /\ sdp' = P!Set(last, "i")
    BY <1>i, <1>1, <1>3 DEF P!parse_i
  <2> QED
    BY <1>2, <1>12, <2>1 DEF l
<1>k. CASE P!parse_k
  <2>1. "k" = l /\ sdp' = P!Set(last, "k")
    BY <1>k, <1>1, <1>3 DEF P!parse_k
  <2> QED
    BY <1>2, <1>12, <2>1 DEF l
<1>c. CASE P!parse_c
  <2>1. "c" = l /\ sdp' = IF 2..last = {} THEN P!Set(1, "c") ELSE P!Add(last, "c")
    BY <1>c, <1>1, <1>3 DEF P!parse_c
  <2>2. CASE last = 1
    <3>1. sdp' = P!Set(1, "c")
      BY <2>1, <2>2
    <3> QED
      BY <1>2, <1>12, <2>1, <2>2, <3>1 DEF l
  <2>3. CASE last # 1
    <3>1. 2..last # {}
      <4>1. last \in Nat /\ last # 0 /\ last # 1
        BY <1>1, <2>3
      <4>2. 2 \in 2..last
        BY <4>1
      <4> QED
        BY <4>2
    <3> QED
      BY <1>2, <1>13, <2>1, <3>1 DEF l
  <2> QED
    BY <2>2, <2>3
<1>e. CASE P!parse_e
  <2>1. "e" = l /\ sdp' = P!Add(1, "e")
    BY <1>e, <1>1, <1>3 DEF P!parse_e
  <2> QED
    BY <1>2, <1>7, <1>8, <1>13, <2>1 DEF l
<1>p. CASE P!parse_p
  <2>1. "p" = l /\ sdp' = P!Add(1, "p")
    BY <1>p, <1>1, <1>3 DEF P!parse_p
  <2> QED
    BY <1>2, <1>7, <1>8, <1>13, <2>1 DEF l
<1>t. CASE P!parse_t
  <2>1. "t" = l /\ sdp' = P!Add(1, "t")
    BY <1>t, <1>1, <1>3 DEF P!parse_t
  <2> QED
    BY <1>2, <1>7, <1>8, <1>13, <2>1 DEF l
<1>r. CASE P!parse_r
  <2>1. "r" = l /\ sdp' = P!Add(1, "t")
    BY <1>r, <1>1, <1>3 DEF P!parse_r
  <2> QED
    BY <1>7, <1>8, <1>14, <2>1 DEF l
<1>b. CASE P!parse_b
  <2>1. "b" = l /\ sdp' = P!Add(last, "b")
    BY <1>b, <1>1, <1>3 DEF P!parse_b
  <2> QED
    BY <1>2, <1>13, <2>1 DEF l
<1>a. CASE P!parse_a
  <2>1. "a" = l /\ sdp' = P!Add(last, "a")
    BY <1>a, <1>1, <1>3 DEF P!parse_a
  <2> QED
    BY <1>2, <1>13, <2>1 DEF l
<1>m. CASE P!parse_m
  <2>1. "m" = l /\ sdp' = Append(sdp, [P!Nothing EXCEPT !.m = <<P!Line>>])
    BY <1>m, <1>3 DEF P!parse_m
  <2> QED
    BY <2>1 DEF Stored, l
<1> QED
  BY <1>v, <1>o, <1>s, <1>i, <1>u, <1>e, <1>p, <1>c, <1>b, <1>t, <1>r, <1>z, <1>k, <1>a, <1>m
     DEF P!Next

\* What was kept of the section comes before the line that is taken, or may be repeated.
LEMMA Room ==
  ASSUME ParserInv, GrammarInv, FieldInv, step \in DOMAIN P!Calls, NEW n, Takes(n)
  PROVE  /\ Roomy(P!L(n))
         /\ P!L(n) \in P!OfSession \cup P!OfMedia /\ Slot(P!L(n)) \in P!Field
         /\ P!L(n) # "m" =>
                /\ Len(sdp) = 1 <=> ~P!InMedia(n)
                /\ \A f \in P!Field :
                       sdp[Len(sdp)][f] # <<>> => P!Order[f] <= P!Order[Slot(P!L(n))]
<1> DEFINE l == P!L(n)
<1>1. IsNext(n) /\ ~P!Bad(offer[n]) /\ l = P!Calls[step].letter
  BY DEF Takes
<1>2. P!WellPlaced(n)
  BY <1>1, NextIsPlaced
<1>3. l \in IF P!InMedia(n) THEN P!OfMedia ELSE P!OfSession
  BY <1>2 DEF P!WellPlaced, P!InPlace
<1>4. /\ P!OfMedia = {"m", "i", "c", "b", "k", "a"}
      /\ P!Field = {"v", "o", "s", "i", "u", "e", "p", "c", "b", "t", "z", "k", "a", "m"}
      /\ P!OfSession = (P!Field \ {"m"}) \cup {"r"}
  BY DEF P!OfMedia, P!Field, P!OfSession
<1>5. \A y \in P!OfSession \cup P!OfMedia : P!Order[Slot(y)] = P!Order[y] /\ Slot(y) \in P!Field
  <2>1. P!Order["r"] = P!Order["t"]
    BY DEF P!Order
  <2> QED
    BY <1>4, <2>1 DEF Slot
<1>6. ASSUME l # "m" PROVE Len(sdp) = 1 <=> ~P!InMedia(n)
  <2>1. P!InMedia(n) <=> P!InMedia(Taken)
    BY <1>1, <1>6, NextBehind
  <2> QED
    BY <2>1 DEF FieldInv
<1>7. ASSUME l # "m", NEW f \in P!Field, sdp[Len(sdp)][f] # <<>>
      PROVE  /\ P!Order[f] <= P!Order[Slot(l)]
             /\ f = Slot(l) => P!Repeats(l, P!InMedia(n))
  <2>1. PICK j \in Current : Slot(P!L(j)) = f
    BY <1>7 DEF FieldInv
  <2> DEFINE y == P!L(j)
  <2>2. j \in Behind /\ j \in P!Proper /\ j <= Taken
    BY <2>1 DEF Current, Behind
  <2>3. j < n /\ P!SameSection(j, n)
    <3>1. /\ n \in Nat /\ Taken \in Nat /\ Taken < n
          /\ P!SameSection(j, n)
      BY <1>1, <1>7, <2>1, <2>2, NextBehind
    <3>2. j \in Nat
      BY <2>2 DEF P!Proper, P!Extent, ParserInv
    <3> QED
      BY <2>2, <3>1, <3>2
  <2>4. P!Order[y] <= P!Order[l] /\ (y = l => P!Repeats(l, P!InMedia(n)))
    BY <1>2, <2>2, <2>3 DEF P!WellPlaced, P!Follows, P!Repeats
  <2>5. y \in P!OfSession \cup P!OfMedia
    BY <2>1, CurrentOK DEF P!InPlace
  <2> HIDE DEF y, l
  <2>6. P!Order[Slot(y)] = P!Order[y] /\ P!Order[Slot(l)] = P!Order[l] /\ Slot(y) = f
    BY <1>3, <1>5, <2>1, <2>5 DEF y
  <2>7. ASSUME f = Slot(l) PROVE P!Repeats(l, P!InMedia(n))
    <3>1. y = l \/ l \in {"t", "r"}
      BY <2>6, <2>7 DEF Slot
    <3> QED
      BY <2>4, <3>1 DEF P!Repeats
  <2> QED
    BY <2>4, <2>6, <2>7
<1>8. Slot(l) \in P!Field
  BY <1>3, <1>5
<1>9. Roomy(l)
  <2>1. ASSUME Len(sdp) # 1 PROVE l \in P!OfMedia
    BY <1>3, <1>4, <1>6, <2>1
  <2>2. ASSUME l # "m", sdp[Len(sdp)][Slot(l)] # <<>> PROVE P!Repeats(l, Len(sdp) # 1)
    <3>1. P!Repeats(l, P!InMedia(n))
      BY <1>7, <1>8, <2>2
    <3>2. Len(sdp) # 1 <=> P!InMedia(n)
      BY <1>6, <2>2
    <3> QED
      BY <3>1, <3>2 DEF P!Repeats
  <2> QED
    BY <2>1, <2>2 DEF Roomy
<1> QED
  BY <1>3, <1>6, <1>7, <1>8, <1>9


\* what is printed of a message, and of its medias
MediaTexts(message) ==
    [k \in 1..(Len(message) - 1) |-> P!Printed(message[k + 1], P!OrderOfMedia)]

Text(message) ==
    P!Printed(message[1], P!OrderOfSession) \o P!FlattenSeq(MediaTexts(message))

\* The printer prints this text.
LEMMA TextIsPrinted == P!to_str = Text(sdp) /\ P!to_str' = Text(sdp')
  BY DEF P!to_str, Text, MediaTexts, P!append_media, P!Session

\* The text and its parts are sequences.
LEMMA TextType ==
  ASSUME NEW T, NEW message \in Seq(PartType(T)), message # <<>>
  PROVE  /\ MediaTexts(message) \in Seq(Seq(T)) /\ Len(MediaTexts(message)) = Len(message) - 1
         /\ P!Printed(message[1], P!OrderOfSession) \in Seq(T)
         /\ P!FlattenSeq(MediaTexts(message)) \in Seq(T)
<1> DEFINE n == Len(message) - 1
<1>1. n \in Nat /\ 1 \in 1..Len(message) /\ Len(message) \in Nat
  <2>1. Len(message) \in Nat \ {0}
    BY EmptySeq
  <2> QED
    BY <2>1
<1>2. \A k \in 1..Len(message) : message[k] \in PartType(T)
  BY ElementOfSeq
<1>3. P!OrderOfSession \in Seq(P!Field) /\ P!OrderOfMedia \in Seq(P!Field)
  BY SessionOrder, MediaOrder DEF PrintOrder
<1>4. \A k \in 1..n : P!Printed(message[k + 1], P!OrderOfMedia) \in Seq(T)
  <2> TAKE k \in 1..n
  <2>1. k + 1 \in 1..Len(message)
    BY <1>1
  <2>2. message[k + 1] \in [P!Field -> Seq(T)]
    BY <1>2, <2>1 DEF PartType
  <2> QED
    BY <1>3, <2>2, PrintedType
<1>5. MediaTexts(message) \in [1..n -> Seq(T)]
  BY <1>4 DEF MediaTexts
<1> HIDE DEF n
<1>6. MediaTexts(message) \in Seq(Seq(T)) /\ Len(MediaTexts(message)) = n
  BY <1>1, <1>5, FunctionIsSeq
<1>7. P!FlattenSeq(MediaTexts(message)) \in Seq(T)
  BY <1>6, FlatType
<1>8. P!Printed(message[1], P!OrderOfSession) \in Seq(T)
  <2>1. message[1] \in [P!Field -> Seq(T)]
    BY <1>1, <1>2 DEF PartType
  <2> QED
    BY <1>3, <2>1, PrintedType
<1> QED
  BY <1>6, <1>7, <1>8 DEF n

\* A line put to the session is printed last while there is no media,
LEMMA SessionShows ==
  ASSUME NEW T, NEW message \in Seq(PartType(T)), Len(message) = 1,
         NEW f \in P!Field \ {"m"}, NEW x \in T, RoomFor(f, message[1], P!OrderOfSession)
  PROVE  Text(PutTo(message, 1, f, x)) = Append(Text(message), x)
<1> DEFINE part == message[1]
           put  == Put(part, f, x)
           new  == [message EXCEPT ![1] = put]
<1>1. part \in PartType(T)
  BY ElementOfSeq
<1> HIDE DEF part
<1>2. put \in PartType(T)
  BY <1>1, PutType
<1>3. P!Printed(put, P!OrderOfSession) = Append(P!Printed(part, P!OrderOfSession), x)
  <2>1. RoomFor(f, part, P!OrderOfSession)
    BY DEF part
  <2> QED
    BY <1>1, <2>1, SectionPut, SessionOrder
<1> HIDE DEF put
<1>4. new \in Seq(PartType(T)) /\ Len(new) = 1 /\ new[1] = put
  <2> DEFINE k == 1
  <2>1. k \in 1..Len(message)
    OBVIOUS
  <2> HIDE DEF k
  <2>2. /\ [message EXCEPT ![k] = put] \in Seq(PartType(T))
        /\ Len([message EXCEPT ![k] = put]) = Len(message)
        /\ [message EXCEPT ![k] = put][k] = put
    BY <1>2, <2>1, ExceptSeq
  <2> QED
    BY <2>2 DEF k
<1> HIDE DEF new
<1>5. ASSUME NEW s \in Seq(PartType(T)), Len(s) = 1
      PROVE  Text(s) = P!Printed(s[1], P!OrderOfSession)
  <2>1. s # <<>>
    BY <1>5
  <2>2. /\ MediaTexts(s) \in Seq(Seq(T)) /\ Len(MediaTexts(s)) = 1 - 1
        /\ P!Printed(s[1], P!OrderOfSession) \in Seq(T)
    BY <1>5, <2>1, TextType
  <2>3. P!FlattenSeq(MediaTexts(s)) = <<>>
    <3>1. \A i \in 1..Len(MediaTexts(s)) : MediaTexts(s)[i] = <<>>
      BY <2>2
    <3> QED
      BY <2>2, <3>1, FlatNone
  <2> QED
    BY <2>2, <2>3, ConcatEmptySeq DEF Text
<1>6. Text(new) = P!Printed(put, P!OrderOfSession)
  BY <1>4, <1>5
<1>7. Text(message) = P!Printed(part, P!OrderOfSession)
  BY <1>5 DEF part
<1> QED
  BY <1>3, <1>6, <1>7 DEF new, put, part, PutTo

\* and one put to the last media.
LEMMA MediaShows ==
  ASSUME NEW T, NEW message \in Seq(PartType(T)), NEW last, last = Len(message), last > 1,
         NEW f \in P!OfMedia, NEW x \in T, RoomFor(f, message[last], P!OrderOfMedia)
  PROVE  Text(PutTo(message, last, f, x)) = Append(Text(message), x)
<1> DEFINE part == message[last]
           put  == Put(part, f, x)
           new  == [message EXCEPT ![last] = put]
           old  == MediaTexts(message)
           tail == MediaTexts(new)
<1>0. last \in Nat /\ last \in 1..Len(message) /\ last > 1
  <2>1. Len(message) \in Nat
    BY LenProperties
  <2> QED
    BY <2>1
<1>1. part \in PartType(T)
  BY <1>0, ElementOfSeq
<1> HIDE DEF part
<1>2. put \in PartType(T)
  <2>1. f \in P!Field
    BY DEF P!OfMedia, P!Field
  <2> QED
    BY <1>1, <2>1, PutType
<1>3. P!Printed(put, P!OrderOfMedia) = Append(P!Printed(part, P!OrderOfMedia), x)
  <2>1. RoomFor(f, part, P!OrderOfMedia)
    BY DEF part
  <2> QED
    BY <1>1, <2>1, SectionPut, MediaOrder
<1> HIDE DEF put
<1>4. /\ new \in Seq(PartType(T)) /\ Len(new) = last
      /\ \A i \in 1..last : new[i] = IF i = last THEN put ELSE message[i]
  BY <1>0, <1>2, ExceptSeq
<1> HIDE DEF new
<1>5. /\ old \in Seq(Seq(T)) /\ Len(old) = last - 1
      /\ tail \in Seq(Seq(T)) /\ Len(tail) = last - 1
      /\ P!Printed(message[1], P!OrderOfSession) \in Seq(T)
      /\ P!FlattenSeq(old) \in Seq(T)
  <2>1. message # <<>> /\ new # <<>>
    BY <1>0, <1>4
  <2>2. Len(message) = last
    OBVIOUS
  <2> QED
    BY <1>4, <2>1, <2>2, TextType
<1>6. PutsLast(old, tail, last - 1, x)
  <2> DEFINE k == last - 1
  <2>1. k \in 1..k /\ k + 1 = last /\ k \in Nat
    BY <1>0
  <2>2. ASSUME NEW i \in 1..k
        PROVE  /\ old[i] = P!Printed(message[i + 1], P!OrderOfMedia)
               /\ tail[i] = P!Printed(new[i + 1], P!OrderOfMedia)
    BY <1>4 DEF MediaTexts
  <2>3. ASSUME NEW i \in 1..k PROVE tail[i] = IF i = k THEN Append(old[i], x) ELSE old[i]
    <3>1. CASE i = k
      <4>0. last \in 1..last /\ i + 1 = last
        BY <1>0, <2>1, <3>1
      <4>1. old[i] = P!Printed(part, P!OrderOfMedia) /\ tail[i] = P!Printed(put, P!OrderOfMedia)
        BY <1>4, <2>2, <4>0 DEF part
      <4> QED
        BY <1>3, <3>1, <4>1
    <3>2. CASE i # k
      <4>1. i + 1 \in 1..last /\ i + 1 # last
        BY <1>0, <3>2
      <4>2. new[i + 1] = message[i + 1]
        BY <1>4, <4>1
      <4> QED
        BY <2>2, <3>2, <4>2
    <3> QED
      BY <3>1, <3>2
  <2>4. Len(old) = k /\ Len(tail) = k
    BY <1>5
  <2> HIDE DEF k, old, tail
  <2>5. PutsLast(old, tail, k, x)
    BY <2>1, <2>3, <2>4 DEF PutsLast
  <2> QED
    BY <2>5 DEF k
<1>7. P!FlattenSeq(tail) = Append(P!FlattenSeq(old), x)
  <2> HIDE DEF old, tail
  <2> QED
    BY <1>5, <1>6, FlatPut
<1>8. new[1] = message[1]
  BY <1>0, <1>4
<1>9. P!Printed(message[1], P!OrderOfSession) \o Append(P!FlattenSeq(old), x)
          = Append(P!Printed(message[1], P!OrderOfSession) \o P!FlattenSeq(old), x)
  <2> DEFINE a == P!Printed(message[1], P!OrderOfSession)
             b == P!FlattenSeq(old)
  <2>1. a \in Seq(T) /\ b \in Seq(T)
    BY <1>5
  <2> HIDE DEF a, b
  <2>2. a \o Append(b, x) = Append(a \o b, x)
    BY <2>1, AppendPasses
  <2> QED
    BY <2>2 DEF a, b
<1>10. Text(new) = Append(Text(message), x)
  BY <1>7, <1>8, <1>9 DEF Text
<1> QED
  BY <1>10 DEF new, put, part, PutTo

\* A media with its m line is printed behind what there was.
LEMMA NextMediaShows ==
  ASSUME NEW T, NEW message \in Seq(PartType(T)), message # <<>>, NEW x \in T
  PROVE  Text(Append(message, [P!Nothing EXCEPT !.m = <<x>>])) = Append(Text(message), x)
<1> DEFINE put  == [P!Nothing EXCEPT !.m = <<x>>]
           new  == Append(message, put)
           old  == MediaTexts(message)
           tail == MediaTexts(new)
           last == Len(message)
<1>0. "m" \in P!Field /\ "m" \in P!OfMedia
  BY DEF P!OfMedia, P!Field
<1>1. P!Nothing \in PartType(T) /\ \A f \in P!Field : P!Nothing[f] = <<>>
  <2>1. <<>> \in Seq(T)
    OBVIOUS
  <2> QED
    BY <2>1 DEF P!Nothing, PartType
<1>2. put = Put(P!Nothing, "m", x)
  <2>1. P!Nothing["m"] = <<>>
    BY <1>0, <1>1
  <2>2. Append(<<>>, x) = <<x>>
    OBVIOUS
  <2> QED
    BY <2>1, <2>2 DEF Put
<1>3. put \in PartType(T)
  BY <1>0, <1>1, <1>2, PutType
<1> HIDE DEF put
<1>4. P!Printed(put, P!OrderOfMedia) = <<x>>
  <2>1. P!OrderOfMedia \in Seq(P!Field)
    BY MediaOrder DEF PrintOrder
  <2>2. P!Printed(P!Nothing, P!OrderOfMedia) = <<>>
    BY <2>1, PrintedNothing
  <2>3. RoomFor("m", P!Nothing, P!OrderOfMedia)
    BY <1>1, <2>1, ElementOfSeq DEF RoomFor
  <2>4. PrintOrder(P!OrderOfMedia) /\ \E k \in 1..Len(P!OrderOfMedia) : P!OrderOfMedia[k] = "m"
    BY <1>0, MediaOrder
  <2>5. P!Printed(put, P!OrderOfMedia) = Append(P!Printed(P!Nothing, P!OrderOfMedia), x)
    BY <1>1, <1>2, <2>3, <2>4, SectionPut
  <2> QED
    BY <2>2, <2>5
<1>5. /\ new \in Seq(PartType(T)) /\ Len(new) = last + 1 /\ new[last + 1] = put
      /\ \A i \in 1..last : new[i] = message[i]
      /\ new # <<>>
  BY <1>3, AppendProperties
<1>6. last \in Nat /\ last > 0
  <2>1. last \in Nat \ {0}
    BY EmptySeq
  <2> QED
    BY <2>1
<1> HIDE DEF new
<1>7. /\ old \in Seq(Seq(T)) /\ Len(old) = last - 1
      /\ tail \in Seq(Seq(T)) /\ Len(tail) = last
      /\ P!Printed(message[1], P!OrderOfSession) \in Seq(T)
      /\ P!FlattenSeq(old) \in Seq(T)
  <2>1. /\ old \in Seq(Seq(T)) /\ Len(old) = last - 1
        /\ P!Printed(message[1], P!OrderOfSession) \in Seq(T)
        /\ P!FlattenSeq(old) \in Seq(T)
    BY TextType
  <2>2. tail \in Seq(Seq(T)) /\ Len(tail) = Len(new) - 1
    BY <1>5, TextType
  <2>3. Len(new) - 1 = last
    BY <1>5, <1>6
  <2> QED
    BY <2>1, <2>2, <2>3
<1>8. tail = Append(old, <<x>>)
  <2>1. ASSUME NEW i \in 1..last PROVE tail[i] = IF i = last THEN <<x>> ELSE old[i]
    <3>1. tail[i] = P!Printed(new[i + 1], P!OrderOfMedia)
      BY <1>5, <1>6 DEF MediaTexts
    <3>2. CASE i = last
      BY <1>4, <1>5, <3>1, <3>2
    <3>3. CASE i # last
      <4>1. i + 1 \in 1..last /\ i \in 1..(last - 1)
        BY <1>6, <3>3
      <4>2. new[i + 1] = message[i + 1]
        BY <1>5, <4>1
      <4>3. old[i] = P!Printed(message[i + 1], P!OrderOfMedia)
        BY <4>1 DEF MediaTexts
      <4> QED
        BY <3>1, <3>3, <4>2, <4>3
    <3> QED
      BY <3>2, <3>3
  <2>2. <<x>> \in Seq(T)
    OBVIOUS
  <2> HIDE DEF old, tail, last
  <2>3. /\ Append(old, <<x>>) \in Seq(Seq(T)) /\ Len(Append(old, <<x>>)) = last
        /\ \A i \in 1..last : Append(old, <<x>>)[i] = IF i = last THEN <<x>> ELSE old[i]
    BY <1>6, <1>7, <2>2, AppendProperties
  <2> QED
    BY <1>7, <2>1, <2>3, SeqEqual
<1>9. P!FlattenSeq(tail) = P!FlattenSeq(old) \o <<x>>
  <2>1. <<x>> \in Seq(T)
    OBVIOUS
  <2> HIDE DEF old, tail
  <2> QED
    BY <1>7, <1>8, <2>1, FlatAppend
<1>10. P!Printed(message[1], P!OrderOfSession) \o (P!FlattenSeq(old) \o <<x>>)
           = Append(P!Printed(message[1], P!OrderOfSession) \o P!FlattenSeq(old), x)
  <2> DEFINE a == P!Printed(message[1], P!OrderOfSession)
             b == P!FlattenSeq(old)
  <2>1. a \in Seq(T) /\ b \in Seq(T)
    BY <1>7
  <2> HIDE DEF a, b
  <2>2. a \o Append(b, x) = Append(a \o b, x) /\ Append(b, x) = b \o <<x>>
    BY <2>1, AppendPasses, AppendIsConcat
  <2> QED
    BY <2>2 DEF a, b
<1>11. Text(new) = Append(Text(message), x)
  <2>1. new[1] = message[1]
    BY <1>5, <1>6
  <2> QED
    BY <1>9, <1>10, <2>1 DEF Text
<1> QED
  BY <1>11 DEF new, put

\* The line that is taken comes behind those read.
LEMMA LinesTaken ==
  ASSUME ParserInv, GrammarInv, step \in DOMAIN P!Calls, NEW n, Takes(n)
  PROVE  /\ P!LinesAt(Behind) \in Seq(Lines(offer)) /\ offer[n] \in Lines(offer)
         /\ P!LinesAt(Behind)' = Append(P!LinesAt(Behind), offer[n])
<1> DEFINE T    == Lines(offer)
           seqs == [k \in DOMAIN offer |-> IF k \in Behind THEN <<offer[k]>> ELSE <<>>]
           new  == [k \in DOMAIN offer |-> IF k \in Behind' THEN <<offer[k]>> ELSE <<>>]
           N    == Len(offer)
<1>1. /\ offer' = offer /\ Taken < n /\ Taken \in Nat /\ n \in 1..N
      /\ Behind' = Behind \cup {n} /\ n \notin Behind
  <2>1. IsNext(n) /\ offer' = offer
    BY DEF Takes
  <2> QED
    BY <2>1, AfterTaking, NextBehind
<1>2. offer \in Seq(SdpLine) /\ N \in Nat /\ DOMAIN offer = 1..N
  BY DEF ParserInv
<1>3. \A k \in 1..N : offer[k] \in T
  BY <1>2 DEF Lines
<1>4. seqs \in [1..N -> Seq(T)] /\ new \in [1..N -> Seq(T)]
  BY <1>2, <1>3
<1>5. \A k \in Behind : k <= Taken
  BY DEF Behind
<1>6. \A k \in 1..N : /\ k > n => seqs[k] = <<>>
                      /\ new[k] = IF k = n THEN Append(seqs[k], offer[n]) ELSE seqs[k]
  <2> TAKE k \in 1..N
  <2>1. ASSUME k > n PROVE k \notin Behind
    BY <1>1, <1>5, <2>1
  <2>2. seqs[k] = IF k \in Behind THEN <<offer[k]>> ELSE <<>>
    BY <1>2
  <2>3. new[k] = IF k \in Behind' THEN <<offer[k]>> ELSE <<>>
    BY <1>2
  <2>4. k \in Behind' <=> k \in Behind \/ k = n
    BY <1>1
  <2>5. Append(<<>>, offer[n]) = <<offer[n]>>
    OBVIOUS
  <2> HIDE DEF seqs, new
  <2> QED
    BY <1>1, <2>1, <2>2, <2>3, <2>4, <2>5
<1> HIDE DEF seqs, new, T
<1>7. /\ seqs \in Seq(Seq(T)) /\ Len(seqs) = N
      /\ new \in Seq(Seq(T)) /\ Len(new) = N
  <2> HIDE DEF N
  <2> QED
    BY <1>2, <1>4, FunctionIsSeq
<1>8. PutsLast(seqs, new, n, offer[n])
  <2> HIDE DEF N
  <2>1. \A k \in (n + 1)..N : k \in 1..N /\ k > n
    BY <1>1, <1>2
  <2>2. \A k \in (n + 1)..N : seqs[k] = <<>>
    BY <1>6, <2>1
  <2> QED
    BY <1>1, <1>6, <1>7, <2>2 DEF PutsLast
<1>9. P!FlattenSeq(new) = Append(P!FlattenSeq(seqs), offer[n])
  BY <1>1, <1>3, <1>7, <1>8, FlatPut
<1>10. P!FlattenSeq(seqs) \in Seq(T)
  BY <1>7, FlatType
<1> QED
  BY <1>1, <1>3, <1>9, <1>10 DEF P!LinesAt, seqs, new, T

\* What is kept of the section was read there.
LEMMA FieldTaken ==
  ASSUME ParserInv, GrammarInv, FieldInv, step \in DOMAIN P!Calls, NEW n, Takes(n),
         sdp' = Stored(P!L(n))
  PROVE  FieldInv'
<1> DEFINE l    == P!L(n)
           last == Len(sdp)
<1>1. /\ offer' = offer
      /\ P!InMedia(Taken)' <=> P!InMedia(n)
      /\ Current' = IF l = "m" THEN {n} ELSE Current \cup {n}
  BY AfterTaking DEF Takes
<1>2. /\ last \in Nat /\ last # 0 /\ last \in DOMAIN sdp
      /\ sdp \in Seq(PartType(Lines(offer))) /\ sdp[last] \in PartType(Lines(offer))
  BY DEF ParserInv, SdpType, PartType
<1>3. \A j : P!L(j)' = P!L(j)
  BY <1>1 DEF P!L
<1>4. CASE l = "m"
  <2>1. Len(sdp') = last + 1 /\ sdp'[last + 1] = [P!Nothing EXCEPT !.m = <<P!Line>>]
    BY <1>2, <1>4 DEF Stored
  <2>2. P!InMedia(n)
    BY <1>4, NextBehind DEF Takes
  <2>3. Len(sdp') # 1
    BY <1>2, <2>1
  <2>4. ASSUME NEW f \in P!Field, sdp'[Len(sdp')][f] # <<>> PROVE f = "m"
    BY <2>1, <2>4 DEF P!Nothing
  <2>5. Slot("m") = "m"
    BY DEF Slot
  <2> QED
    BY <1>1, <1>3, <1>4, <2>2, <2>3, <2>4, <2>5 DEF FieldInv
<1>5. CASE l # "m"
  <2>1. sdp' = PutTo(sdp, last, Slot(l), P!Line)
    BY <1>5 DEF Stored
  <2>2. Len(sdp') = last /\ sdp'[last] = Put(sdp[last], Slot(l), P!Line)
    BY <1>2, <2>1 DEF PutTo
  <2>3. last = 1 <=> ~P!InMedia(n)
    BY <1>5, Room
  <2>4. ASSUME NEW f \in P!Field, sdp'[last][f] # <<>>
        PROVE  \E j \in Current' : Slot(P!L(j)') = f
    <3>1. CASE f = Slot(l)
      BY <1>1, <1>3, <1>5, <3>1
    <3>2. CASE f # Slot(l)
      <4>1. sdp[last][f] # <<>>
        BY <1>2, <2>2, <2>4, <3>2 DEF Put, PartType
      <4>2. PICK j \in Current : Slot(P!L(j)) = f
        BY <4>1 DEF FieldInv
      <4> QED
        BY <1>1, <1>3, <1>5, <4>2
    <3> QED
      BY <3>1, <3>2
  <2> QED
    BY <1>1, <2>2, <2>3, <2>4 DEF FieldInv
<1> QED
  BY <1>4, <1>5

\* The line that is taken is printed last, but for an o behind an s.
LEMMA TextTaken ==
  ASSUME ParserInv, GrammarInv, FieldInv, step \in DOMAIN P!Calls, NEW n, Takes(n),
         P!Line = offer[n], sdp' = Stored(P!L(n)),
         ~(P!L(n) = "o" /\ sdp[1].s # <<>>)
  PROVE  P!to_str' = Append(P!to_str, offer[n])
<1> DEFINE l    == P!L(n)
           last == Len(sdp)
           T    == Lines(offer)
           x    == offer[n]
           f    == Slot(l)
<1>1. P!to_str = Text(sdp) /\ P!to_str' = Text(sdp')
  BY TextIsPrinted
<1>2. /\ last \in Nat /\ last # 0 /\ sdp # <<>>
      /\ sdp \in Seq(PartType(T))
  BY DEF ParserInv, SdpType, PartType
<1>3. x \in T
  BY LinesTaken
<1>4. /\ Roomy(l) /\ l \in P!OfSession \cup P!OfMedia /\ f \in P!Field
      /\ l # "m" =>
            /\ last = 1 <=> ~P!InMedia(n)
            /\ \A y \in P!Field : sdp[last][y] # <<>> => P!Order[y] <= P!Order[f]
  BY Room
<1>5. CASE l = "m"
  <2>1. sdp' = Append(sdp, [P!Nothing EXCEPT !.m = <<x>>])
    BY <1>5 DEF Stored
  <2> HIDE DEF T, x
  <2> QED
    BY <1>1, <1>2, <1>3, <2>1, NextMediaShows DEF x
<1>6. CASE l # "m"
  <2>1. sdp' = PutTo(sdp, last, f, x)
    BY <1>6 DEF Stored
  <2>2. f # "m" /\ (f \in {"o"} => l = "o")
    BY <1>6 DEF Slot
  <2>3. CASE last = 1
    <3>1. RoomFor(f, sdp[1], P!OrderOfSession)
      <4>1. \A i \in 1..Len(P!OrderOfSession) : P!OrderOfSession[i] \in P!Field
        BY SessionOrder, ElementOfSeq DEF PrintOrder
      <4>2. sdp[1]["s"] # <<>> => f # "o"
        BY <2>2
      <4> HIDE DEF f
      <4> QED
        BY <1>4, <1>6, <2>3, <4>1, <4>2 DEF RoomFor
    <3>2. sdp' = PutTo(sdp, 1, f, x) /\ Len(sdp) = 1 /\ f \in P!Field \ {"m"}
      BY <1>4, <2>1, <2>2, <2>3
    <3> HIDE DEF T, x, f
    <3>3. Text(PutTo(sdp, 1, f, x)) = Append(Text(sdp), x)
      BY <1>2, <1>3, <3>1, <3>2, SessionShows
    <3> QED
      BY <1>1, <3>2, <3>3 DEF x
  <2>4. CASE last # 1
    <3>0. l \in P!OfMedia
      BY <1>4, <2>4 DEF Roomy
    <3>1. f \in P!OfMedia /\ f # "o"
      BY <3>0 DEF Slot, P!OfMedia
    <3>2. RoomFor(f, sdp[last], P!OrderOfMedia)
      <4>1. \A i \in 1..Len(P!OrderOfMedia) : P!OrderOfMedia[i] \in P!Field
        BY MediaOrder, ElementOfSeq DEF PrintOrder
      <4>2. \A y \in P!Field : sdp[last][y] # <<>> => P!Order[y] <= P!Order[f]
        BY <1>4, <1>6
      <4> HIDE DEF f, last
      <4> QED
        BY <3>1, <4>1, <4>2 DEF RoomFor
    <3>3. last > 1 /\ last = Len(sdp)
      <4>1. last \in Nat /\ last # 0 /\ last # 1
        BY <1>2, <2>4
      <4> HIDE DEF last
      <4>2. last > 1
        BY <4>1
      <4> QED
        BY <4>2 DEF last
    <3> HIDE DEF T, x, f, last
    <3>4. Text(PutTo(sdp, last, f, x)) = Append(Text(sdp), x)
      BY <1>2, <1>3, <3>1, <3>2, <3>3, MediaShows
    <3> QED
      BY <1>1, <2>1, <3>4 DEF x
  <2> QED
    BY <2>3, <2>4
<1> QED
  BY <1>5, <1>6

\* the message before there is a media: nothing, a v, a v and an s
Empty          == <<P!Nothing>>
Begun(a)       == PutTo(Empty, 1, "v", a)
Named(a, b)    == PutTo(Begun(a), 1, "s", b)

\* Printed, the message has the lines read; how it begins tells when an o goes before an s.
PrintInv ==
    LET read == P!LinesAt(Behind)
    IN  /\ P!to_str = P!InPrintedOrder(read)
        /\ step = "v" => read = <<>> /\ sdp = Empty
        /\ step = "s1" => \E a \in Lines(offer) : read = <<a>> /\ sdp = Begun(a)
        /\ step = "o" => \E a \in Lines(offer) :
               \/ read = <<a>> /\ sdp = Begun(a)
               \/ \E b \in Lines(offer) : b.is = "s" /\ read = <<a, b>> /\ sdp = Named(a, b)
        /\ step \notin {"v", "s1", "o"} =>
               Len(read) >= 2 /\ (Len(read) = 2 => read[2].is # "s")

\* What is appended does not change the order of what is there, unless a name is at its end.
LEMMA OrderedAppend ==
  ASSUME NEW T, NEW lines \in Seq(T), NEW x \in T, Len(lines) = 2 => lines[2].is # "s"
  PROVE  P!InPrintedOrder(Append(lines, x)) = Append(P!InPrintedOrder(lines), x)
<1> DEFINE new == Append(lines, x)
           n   == Len(lines)
<1>1. /\ new \in Seq(T) /\ Len(new) = n + 1 /\ new[n + 1] = x
      /\ \A i \in 1..n : new[i] = lines[i] /\ n \in Nat
  BY AppendProperties, LenProperties
<1> HIDE DEF new
<1>2. n \in Nat
  BY LenProperties
<1>3. CASE n < 2
  <2>1. ~(Len(new) > 2) /\ ~(n > 2)
    BY <1>1, <1>2, <1>3
  <2> QED
    BY <2>1 DEF P!InPrintedOrder, new
<1>4. CASE n = 2
  <2>1. new[2].is # "s" /\ ~(n > 2)
    BY <1>1, <1>4
  <2> QED
    BY <2>1 DEF P!InPrintedOrder, new
<1>5. CASE n > 2
  <2>1. /\ Len(new) > 2 /\ new[2] = lines[2] /\ new[3] = lines[3]
        /\ 2 \in 1..n /\ 3 \in 1..n /\ lines[2] \in T /\ lines[3] \in T
    <3>1. 2 \in 1..n /\ 3 \in 1..n
      BY <1>2, <1>5
    <3> QED
      BY <1>1, <1>2, <1>5, <3>1, ElementOfSeq
  <2>2. CASE lines[2].is # "s"
    BY <1>5, <2>1, <2>2 DEF P!InPrintedOrder, new
  <2>3. CASE lines[2].is = "s"
    <3> DEFINE swap == [lines EXCEPT ![2] = lines[3], ![3] = lines[2]]
               both == [new EXCEPT ![2] = new[3], ![3] = new[2]]
    <3>1. swap \in Seq(T) /\ Len(swap) = n
      BY <2>1
    <3>2. both \in Seq(T) /\ Len(both) = n + 1
      BY <1>1, <1>2, <2>1
    <3>3. \A i \in 1..n :
              swap[i] = IF i = 2 THEN lines[3] ELSE IF i = 3 THEN lines[2] ELSE lines[i]
      BY <2>1
    <3>4. \A i \in 1..(n + 1) :
              both[i] = IF i = 2 THEN lines[3] ELSE IF i = 3 THEN lines[2] ELSE new[i]
      BY <1>1, <1>2, <2>1
    <3> HIDE DEF swap, both
    <3>5. /\ Append(swap, x) \in Seq(T) /\ Len(Append(swap, x)) = n + 1
          /\ \A i \in 1..n : Append(swap, x)[i] = swap[i]
          /\ Append(swap, x)[n + 1] = x
      BY <3>1, AppendProperties
    <3>6. \A i \in 1..(n + 1) : both[i] = Append(swap, x)[i]
      <4> TAKE i \in 1..(n + 1)
      <4>1. CASE i = n + 1
        BY <1>1, <1>2, <1>5, <3>4, <3>5, <4>1
      <4>2. CASE i \in 1..n
        BY <1>1, <1>2, <3>3, <3>4, <3>5, <4>2
      <4>3. i = n + 1 \/ i \in 1..n
        <5> HIDE DEF n
        <5> QED
          BY <1>2
      <4> QED
        BY <4>1, <4>2, <4>3
    <3>7. both = Append(swap, x)
      BY <3>2, <3>5, <3>6, SeqEqual
    <3> QED
      BY <1>5, <2>1, <2>3, <3>7 DEF P!InPrintedOrder, swap, both, new
  <2> QED
    BY <2>2, <2>3
<1>6. n < 2 \/ n = 2 \/ n > 2
  <2> HIDE DEF n
  <2> QED
    BY <1>2
<1> QED
  BY <1>3, <1>4, <1>5, <1>6

\* Nothing is printed of an empty message.
LEMMA EmptyText == /\ Text(Empty) = <<>>
                   /\ \A T : Empty \in Seq(PartType(T))
                   /\ Len(Empty) = 1 /\ Empty[1] = P!Nothing
<1>1. \A T : Empty \in Seq(PartType(T)) /\ Len(Empty) = 1 /\ Empty[1] = P!Nothing
  <2> TAKE T
  <2>1. <<>> \in Seq(T)
    OBVIOUS
  <2>2. P!Nothing \in PartType(T)
    BY <2>1 DEF P!Nothing, PartType
  <2> QED
    BY <2>2 DEF Empty
<1>2. P!Printed(Empty[1], P!OrderOfSession) = <<>>
  BY <1>1, PrintedNothing, SessionOrder DEF PrintOrder
<1>3. P!FlattenSeq(MediaTexts(Empty)) = <<>>
  <2> DEFINE T == {}
  <2>1. Empty \in Seq(PartType(T)) /\ Len(Empty) = 1 /\ Empty # <<>>
    BY <1>1
  <2> HIDE DEF T
  <2>2. MediaTexts(Empty) \in Seq(Seq(T)) /\ Len(MediaTexts(Empty)) = 1 - 1
    BY <2>1, TextType
  <2>3. \A i \in 1..Len(MediaTexts(Empty)) : MediaTexts(Empty)[i] = <<>>
    BY <2>2
  <2> QED
    BY <2>2, <2>3, FlatNone
<1>4. <<>> \o <<>> = <<>>
  OBVIOUS
<1> QED
  BY <1>1, <1>2, <1>3, <1>4 DEF Text

\* A line put to a message without media.
LEMMA OnePut ==
  ASSUME NEW T, NEW s \in Seq(PartType(T)), Len(s) = 1, NEW f \in P!Field, NEW x \in T
  PROVE  /\ PutTo(s, 1, f, x) \in Seq(PartType(T)) /\ Len(PutTo(s, 1, f, x)) = 1
         /\ s[1] \in PartType(T) /\ PutTo(s, 1, f, x)[1] = Put(s[1], f, x)
<1>1. s[1] \in PartType(T)
  BY ElementOfSeq
<1> DEFINE put == Put(s[1], f, x)
<1>2. put \in PartType(T)
  BY <1>1, PutType
<1> DEFINE k   == 1
           new == [s EXCEPT ![k] = put]
<1>3. k \in 1..Len(s)
  OBVIOUS
<1> HIDE DEF put, k
<1>4. new \in Seq(PartType(T)) /\ Len(new) = Len(s) /\ new[k] = put
  BY <1>2, <1>3, ExceptSeq
<1>5. new = PutTo(s, 1, f, x)
  BY DEF PutTo, put, k
<1> HIDE DEF new
<1> QED
  BY <1>1, <1>4, <1>5 DEF k, put

\* A put changes its own field only;
LEMMA PutAlone ==
  ASSUME NEW T, NEW part \in PartType(T), NEW f \in P!Field, NEW x \in T, NEW g \in P!Field
  PROVE  Put(part, f, x)[g] = IF g = f THEN Append(part[f], x) ELSE part[g]
  BY DEF Put, PartType

\* two puts to different fields go in either order.
LEMMA PutsCommute ==
  ASSUME NEW T, NEW part \in PartType(T), NEW f \in P!Field, NEW g \in P!Field, f # g,
         NEW x \in T, NEW y \in T
  PROVE  Put(Put(part, f, x), g, y) = Put(Put(part, g, y), f, x)
<1> DEFINE one == Put(part, f, x)
           two == Put(part, g, y)
<1>1. one \in PartType(T) /\ two \in PartType(T)
  BY PutType
<1>2. Put(one, g, y) \in PartType(T) /\ Put(two, f, x) \in PartType(T)
  BY <1>1, PutType
<1>3. /\ \A h \in P!Field : one[h] = IF h = f THEN Append(part[f], x) ELSE part[h]
      /\ \A h \in P!Field : two[h] = IF h = g THEN Append(part[g], y) ELSE part[h]
  BY PutAlone
<1> HIDE DEF one, two
<1>4. ASSUME NEW h \in P!Field PROVE Put(one, g, y)[h] = Put(two, f, x)[h]
  <2>1. Put(one, g, y)[h] = IF h = g THEN Append(one[g], y) ELSE one[h]
    BY <1>1, PutAlone
  <2>2. Put(two, f, x)[h] = IF h = f THEN Append(two[f], x) ELSE two[h]
    BY <1>1, PutAlone
  <2> QED
    BY <1>3, <2>1, <2>2
<1>5. Put(one, g, y) = Put(two, f, x)
  BY <1>2, <1>4 DEF PartType
<1> QED
  BY <1>5 DEF one, two

\* short texts
LEMMA AppendTo ==
  /\ \A x : Append(<<>>, x) = <<x>>
  /\ \A a, x : Append(<<a>>, x) = <<a, x>>
  /\ \A a, b, x : Append(<<a, b>>, x) = <<a, b, x>>
<1>1. ASSUME NEW x PROVE Append(<<>>, x) = <<x>>
  OBVIOUS
<1>2. ASSUME NEW a, NEW x PROVE Append(<<a>>, x) = <<a, x>>
  <2> DEFINE T    == {a, x}
             one  == <<a>>
             pair == <<a, x>>
  <2>1. /\ one \in Seq(T) /\ Len(one) = 1 /\ one[1] = a
        /\ pair \in Seq(T) /\ Len(pair) = 2 /\ pair[1] = a /\ pair[2] = x /\ x \in T
    OBVIOUS
  <2> HIDE DEF one, pair, T
  <2> DEFINE new == Append(one, x)
  <2>2. one \in Seq(T) /\ x \in T
    BY <2>1
  <2>3. /\ new \in Seq(T) /\ Len(new) = Len(one) + 1 /\ new[Len(one) + 1] = x
        /\ \A i \in 1..Len(one) : new[i] = one[i]
    BY <2>2, AppendProperties
  <2> HIDE DEF new
  <2>4. /\ Len(new) = 2
        /\ new[1] = a /\ new[2] = x
    BY <2>1, <2>3
  <2>5. new = pair
    BY <2>1, <2>3, <2>4, SeqEqual
  <2> QED
    BY <2>5 DEF new, one, pair
<1>3. ASSUME NEW a, NEW b, NEW x PROVE Append(<<a, b>>, x) = <<a, b, x>>
  <2> DEFINE T    == {a, b, x}
             two  == <<a, b>>
             all  == <<a, b, x>>
  <2>1. /\ two \in Seq(T) /\ Len(two) = 2 /\ two[1] = a /\ two[2] = b
        /\ all \in Seq(T) /\ Len(all) = 3 /\ all[1] = a /\ all[2] = b /\ all[3] = x
        /\ x \in T
    OBVIOUS
  <2> HIDE DEF two, all, T
  <2> DEFINE new == Append(two, x)
  <2>2. two \in Seq(T) /\ x \in T
    BY <2>1
  <2>3. /\ new \in Seq(T) /\ Len(new) = Len(two) + 1 /\ new[Len(two) + 1] = x
        /\ \A i \in 1..Len(two) : new[i] = two[i]
    BY <2>2, AppendProperties
  <2> HIDE DEF new
  <2>4. /\ Len(new) = 3
        /\ new[1] = a /\ new[2] = b /\ new[3] = x
    BY <2>1, <2>3
  <2>5. new = all
    BY <2>1, <2>3, <2>4, SeqEqual
  <2> QED
    BY <2>5 DEF new, two, all
<1> QED
  BY <1>1, <1>2, <1>3

\* An o behind an s goes before it.
LEMMA NamedShows ==
  ASSUME NEW T, NEW a \in T, NEW b \in T, NEW x \in T
  PROVE  /\ Begun(a)[1].s = <<>> /\ Named(a, b)[1].s = <<b>>
         /\ Text(PutTo(Named(a, b), 1, "o", x)) = <<a, x, b>>
<1> DEFINE owned == PutTo(Begun(a), 1, "o", x)
           all   == PutTo(owned, 1, "s", b)
           back  == PutTo(Named(a, b), 1, "o", x)
<1>1. "v" \in P!Field /\ "o" \in P!Field /\ "s" \in P!Field
  BY DEF P!Field
<1>2. /\ Empty \in Seq(PartType(T)) /\ Len(Empty) = 1
      /\ \A g \in P!Field : Empty[1][g] = <<>>
  BY EmptyText DEF P!Nothing
<1>3. /\ Begun(a) \in Seq(PartType(T)) /\ Len(Begun(a)) = 1
      /\ Empty[1] \in PartType(T) /\ Begun(a)[1] = Put(Empty[1], "v", a)
  BY <1>1, <1>2, OnePut DEF Begun
<1>4. /\ owned \in Seq(PartType(T)) /\ Len(owned) = 1
      /\ Begun(a)[1] \in PartType(T) /\ owned[1] = Put(Begun(a)[1], "o", x)
  BY <1>1, <1>3, OnePut
<1>5. /\ Named(a, b) \in Seq(PartType(T)) /\ Len(Named(a, b)) = 1
      /\ Named(a, b)[1] = Put(Begun(a)[1], "s", b)
  BY <1>1, <1>3, OnePut DEF Named
<1>6. \A g \in P!Field : Begun(a)[1][g] = IF g = "v" THEN <<a>> ELSE <<>>
  <2> TAKE g \in P!Field
  <2>1. Begun(a)[1][g] = IF g = "v" THEN Append(Empty[1]["v"], a) ELSE Empty[1][g]
    BY <1>1, <1>3, PutAlone
  <2>2. Append(<<>>, a) = <<a>>
    OBVIOUS
  <2> QED
    BY <1>1, <1>2, <2>1, <2>2
<1> HIDE DEF owned
<1>7. \A g \in P!Field : owned[1][g] = IF g = "o" THEN <<x>>
                                       ELSE IF g = "v" THEN <<a>> ELSE <<>>
  <2> TAKE g \in P!Field
  <2>1. owned[1][g] = IF g = "o" THEN Append(Begun(a)[1]["o"], x) ELSE Begun(a)[1][g]
    BY <1>1, <1>4, PutAlone
  <2>2. Append(<<>>, x) = <<x>>
    OBVIOUS
  <2> QED
    BY <1>1, <1>6, <2>1, <2>2
<1>8. back = all
  <2>1. /\ back \in Seq(PartType(T)) /\ Len(back) = 1
        /\ back[1] = Put(Named(a, b)[1], "o", x)
    BY <1>1, <1>5, OnePut
  <2>2. /\ all \in Seq(PartType(T)) /\ Len(all) = 1
        /\ all[1] = Put(owned[1], "s", b)
    BY <1>1, <1>4, OnePut
  <2> HIDE DEF back, all
  <2>3. Put(Put(Begun(a)[1], "s", b), "o", x) = Put(Put(Begun(a)[1], "o", x), "s", b)
    BY <1>1, <1>4, PutsCommute
  <2>4. back[1] = all[1]
    BY <1>4, <1>5, <2>1, <2>2, <2>3
  <2> QED
    BY <2>1, <2>2, <2>4, SeqEqual
<1>9. \A i \in 1..Len(P!OrderOfSession) : P!OrderOfSession[i] \in P!Field
  BY SessionOrder, ElementOfSeq DEF PrintOrder
<1>10. P!Order["v"] = 1 /\ P!Order["o"] = 2 /\ P!Order["s"] = 2
  BY DEF P!Order
<1>11. Text(Begun(a)) = <<a>>
  <2>1. RoomFor("v", Empty[1], P!OrderOfSession)
    BY <1>2, <1>9 DEF RoomFor
  <2>2. Text(Begun(a)) = Append(Text(Empty), a)
    BY <1>1, <1>2, <2>1, SessionShows DEF Begun
  <2> QED
    BY <2>2, EmptyText
<1>12. Text(owned) = <<a, x>>
  <2>1. RoomFor("o", Begun(a)[1], P!OrderOfSession)
    BY <1>6, <1>9, <1>10 DEF RoomFor
  <2>2. Text(owned) = Append(Text(Begun(a)), x)
    BY <1>1, <1>3, <2>1, SessionShows DEF owned
  <2> QED
    BY <1>11, <2>2, AppendTo
<1>13. Text(all) = <<a, x, b>>
  <2>1. RoomFor("s", owned[1], P!OrderOfSession)
    BY <1>7, <1>9, <1>10 DEF RoomFor
  <2>2. Text(all) = Append(Text(owned), b)
    BY <1>1, <1>4, <2>1, SessionShows
  <2> QED
    BY <1>12, <2>2, AppendTo
<1>14. Begun(a)[1].s = <<>> /\ Named(a, b)[1].s = <<b>>
  <2>1. Put(Begun(a)[1], "s", b)["s"] = Append(Begun(a)[1]["s"], b)
    <3>1. Begun(a)[1] \in PartType(T)
      BY <1>4
    <3> DEFINE part == Begun(a)[1]
    <3> HIDE DEF part
    <3>2. part \in PartType(T)
      BY <3>1 DEF part
    <3>3. Put(part, "s", b)["s"] = Append(part["s"], b)
      BY <1>1, <3>2 DEF Put, PartType
    <3> QED
      BY <3>3 DEF part
  <2> QED
    BY <1>1, <1>5, <1>6, <2>1, AppendTo
<1> QED
  BY <1>8, <1>13, <1>14

\* The o has one call.
LEMMA OnlyO ==
  ASSUME NEW c \in DOMAIN P!Calls, P!Calls[c].letter = "o" PROVE c = "o"
<1>1. c \in SessionSteps \cup MediaSteps \cup {"m"}
  BY StepsOK
<1> QED
  BY <1>1 DEF P!Calls, P!Call, SessionSteps, MediaSteps

\* The lines read and what they are printed as, once one is taken.
LEMMA PrintTaken ==
  ASSUME ParserInv, GrammarInv, FieldInv, PrintInv, step \in DOMAIN P!Calls, NEW n, Takes(n),
         P!Line = offer[n], sdp' = Stored(P!L(n))
  PROVE  PrintInv'
<1> DEFINE T    == Lines(offer)
           x    == offer[n]
           read == P!LinesAt(Behind)
<1>1. /\ read \in Seq(T) /\ x \in T /\ P!LinesAt(Behind)' = Append(read, x)
      /\ offer' = offer /\ P!L(n) = P!Calls[step].letter /\ P!L(n) = P!Letter(x)
  BY LinesTaken DEF Takes, P!L
<1>2. step = "v" => read = <<>> /\ sdp = Empty
  BY DEF PrintInv
<1>3. step = "s1" => \E a \in T : read = <<a>> /\ sdp = Begun(a)
  BY DEF PrintInv
<1>4. step = "o" => \E a \in T :
          \/ read = <<a>> /\ sdp = Begun(a)
          \/ \E b \in T : b.is = "s" /\ read = <<a, b>> /\ sdp = Named(a, b)
  BY DEF PrintInv
<1>5. step \notin {"v", "s1", "o"} => Len(read) >= 2 /\ (Len(read) = 2 => read[2].is # "s")
  BY DEF PrintInv
<1>6. P!to_str = P!InPrintedOrder(read)
  BY DEF PrintInv
<1>7. step \in {"v", "s1", "o"} => Len(sdp) = 1
  <2>1. step \in {"v", "s1", "o"} => step \in SessionSteps /\ step # "error"
    BY DEF SessionSteps
  <2>2. step \in {"v", "s1", "o"} => ~P!InMedia(Taken)
    BY <2>1 DEF GrammarInv, StepInv
  <2> QED
    BY <2>2 DEF FieldInv
<1>8. /\ P!Letter(x) = "s" => x.is = "s"
      /\ P!Letter(x) # "s" => x.is # "s"
  BY DEF P!Letter
<1>9. P!L(n) = "o" => step = "o"
  BY <1>1, OnlyO
<1>10. step \in {"v", "o"} => P!L(n) = step
  BY <1>1, OntoOK
<1>11. step = "s1" => P!L(n) = "s"
  BY <1>1, OntoOK
<1> HIDE DEF read, x, T
<1>12. P!to_str' = P!InPrintedOrder(Append(read, x))
  <2>1. CASE P!L(n) = "o" /\ sdp[1].s # <<>>
    <3>1. PICK a \in T, b \in T : b.is = "s" /\ read = <<a, b>> /\ sdp = Named(a, b)
      BY <1>1, <1>4, <1>9, <2>1, NamedShows
    <3>2. sdp' = PutTo(Named(a, b), 1, "o", x)
      <4>1. Slot("o") = "o" /\ "o" # "m"
        BY DEF Slot
      <4>2. sdp' = PutTo(sdp, Len(sdp), Slot("o"), P!Line)
        BY <2>1, <4>1 DEF Stored
      <4> QED
        BY <1>7, <1>9, <2>1, <3>1, <4>1, <4>2 DEF x
    <3>3. P!to_str' = <<a, x, b>>
      <4>1. P!to_str' = Text(sdp')
        BY TextIsPrinted
      <4>2. Text(PutTo(Named(a, b), 1, "o", x)) = <<a, x, b>>
        BY <1>1, NamedShows
      <4> QED
        BY <3>2, <4>1, <4>2
    <3>4. Append(read, x) = <<a, b, x>>
      BY <3>1, AppendTo
    <3>5. P!InPrintedOrder(<<a, b, x>>) = <<a, x, b>>
      BY <3>1 DEF P!InPrintedOrder
    <3> QED
      BY <3>3, <3>4, <3>5
  <2>2. CASE ~(P!L(n) = "o" /\ sdp[1].s # <<>>)
    <3>1. P!to_str' = Append(P!to_str, x)
      BY <2>2, TextTaken DEF x
    <3>2. Len(read) = 2 => read[2].is # "s"
      <4>1. CASE step = "v"
        BY <1>2, <4>1
      <4>2. CASE step = "s1"
        BY <1>3, <4>2
      <4>3. CASE step = "o"
        <5>1. PICK a \in T :
                  \/ read = <<a>> /\ sdp = Begun(a)
                  \/ \E b \in T : b.is = "s" /\ read = <<a, b>> /\ sdp = Named(a, b)
          BY <1>4, <4>3
        <5>2. CASE read = <<a>>
          BY <5>2
        <5>3. ASSUME NEW b \in T, sdp = Named(a, b) PROVE FALSE
          <6>1. Named(a, b)[1].s = <<b>>
            BY NamedShows
          <6> QED
            BY <1>10, <2>2, <4>3, <5>3, <6>1
        <5> QED
          BY <5>1, <5>2, <5>3
      <4>4. CASE step \notin {"v", "s1", "o"}
        BY <1>5, <4>4
      <4> QED
        BY <4>1, <4>2, <4>3, <4>4
    <3> QED
      BY <1>1, <1>6, <3>1, <3>2, OrderedAppend
  <2> QED
    BY <2>1, <2>2
<1>13. CASE step' = "s1"
  <2>1. step = "v"
    BY <1>13, WhereTo, OntoOK DEF P!MayEnd
  <2>2. Append(read, x) = <<x>>
    BY <1>2, <2>1, AppendTo
  <2>3. sdp' = Begun(x)
    <3>1. Slot("v") = "v" /\ "v" # "m"
      BY DEF Slot
    <3> QED
      BY <1>2, <1>7, <1>10, <2>1, <3>1 DEF Stored, Begun, x
  <2> QED
    BY <1>1, <1>12, <1>13, <2>2, <2>3 DEF PrintInv, T
<1>14. CASE step' = "o"
  <2>1. step = "s1"
    BY <1>14, WhereTo, OntoOK DEF P!MayEnd
  <2>2. PICK a \in T : read = <<a>> /\ sdp = Begun(a)
    BY <1>3, <2>1
  <2>3. Append(read, x) = <<a, x>> /\ x.is = "s"
    BY <1>1, <1>8, <1>11, <2>1, <2>2, AppendTo
  <2>4. sdp' = Named(a, x)
    <3>1. Slot("s") = "s" /\ "s" # "m"
      BY DEF Slot
    <3> QED
      BY <1>7, <1>11, <2>1, <2>2, <3>1 DEF Stored, Named, x
  <2> QED
    BY <1>1, <1>12, <1>14, <2>2, <2>3, <2>4 DEF PrintInv, T
<1>15. CASE step' \notin {"s1", "o"}
  <2>1. step \notin {"v", "s1"}
    BY <1>15, WhereTo, OntoOK DEF P!MayEnd
  <2>2. Len(Append(read, x)) >= 2
        /\ (Len(Append(read, x)) = 2 => Append(read, x)[2].is # "s")
    <3>1. CASE step = "o"
      <4>1. x.is # "s"
        BY <1>1, <1>8, <1>10, <3>1
      <4>2. PICK a \in T : read = <<a>> \/ \E b \in T : read = <<a, b>>
        BY <1>4, <3>1
      <4>3. CASE read = <<a>>
        BY <4>1, <4>3, AppendTo
      <4>4. ASSUME NEW b \in T, read = <<a, b>> PROVE Len(Append(read, x)) = 3
        BY <4>4, AppendTo
      <4> QED
        BY <4>2, <4>3, <4>4
    <3>2. CASE step # "o"
      <4>1. Len(read) >= 2 /\ Len(read) \in Nat
        BY <1>1, <1>5, <2>1, <3>2
      <4>2. Len(Append(read, x)) = Len(read) + 1
        BY <1>1
      <4> QED
        BY <4>1, <4>2
    <3> QED
      BY <3>1, <3>2
  <2>3. step' # "v"
    BY WhereTo
  <2> QED
    BY <1>1, <1>12, <1>15, <2>2, <2>3 DEF PrintInv
<1> QED
  BY <1>13, <1>14, <1>15

\* A call that passes over its line goes to a later one.
LEMMA PastGoes ==
  ASSUME step \in DOMAIN P!Calls, P!GoTo(P!Calls[step].past), step' # "error"
  PROVE  /\ step \notin {"v", "o"}
         /\ IF step = "s1" THEN step' = "o" ELSE step' \notin {"v", "s1", "o"}
<1> DEFINE past == P!Calls[step].past
<1>1. /\ past = "error" <=> step \in {"v", "o", "t", "m"}
      /\ past # "error" => /\ past \in DOMAIN P!Calls /\ past \notin {"v", "s1", "s2"}
                           /\ past = "o" => step = "s1"
                           /\ past # "o" => step # "s1"
  BY PastOK
<1> HIDE DEF past
<1>2. "error" \notin P!MayEnd /\ "o" \notin P!MayEnd
  BY DEF P!MayEnd
<1>3. step' \in {past, "end"} /\ (past \notin P!MayEnd => step' = past)
  <2>1. ~P!SkipS2(past)
    BY <1>1 DEF P!SkipS2
  <2> QED
    BY <2>1 DEF P!GoTo, P!Ends, past
<1>4. past # "error"
  BY <1>2, <1>3
<1> QED
  BY <1>1, <1>2, <1>3, <1>4

\* What is read and kept stays as it is while nothing is taken.
LEMMA SameRead ==
  ASSUME UNCHANGED <<offer, rest, sdp>>
  PROVE  /\ P!LinesAt(Behind)' = P!LinesAt(Behind) /\ P!to_str' = P!to_str
         /\ FieldInv' <=> FieldInv
<1>1. Taken' = Taken /\ P!Proper' = P!Proper
  BY SameText DEF Taken
<1>2. Behind' = Behind /\ \A k : P!L(k)' = P!L(k)
  BY <1>1 DEF Behind, P!L
<1>3. /\ Current' = Current
      /\ P!InMedia(Taken)' <=> P!InMedia(Taken)
  BY <1>1, <1>2 DEF Current, P!SameSection, P!InMedia
<1>4. P!to_str' = P!to_str
  BY TextIsPrinted
<1>5. P!LinesAt(Behind)' = P!LinesAt(Behind)
  BY <1>2 DEF P!LinesAt
<1>6. FieldInv' <=> FieldInv
  BY <1>2, <1>3 DEF FieldInv
<1> QED
  BY <1>4, <1>5, <1>6

\* A line parser keeps what was read, and what is printed of it.
LEMMA PrintNext ==
  ASSUME ParserInv, GrammarInv, FieldInv, PrintInv, P!Next, step' # "error"
  PROVE  FieldInv' /\ PrintInv'
<1> DEFINE l == P!Calls[step].letter
<1>1. step \in DOMAIN P!Calls
  BY OneCall
<1>2. PICK kept : /\ P!Parse(l, kept)
                  /\ kept[1].s # <<>> <=> sdp[1].s # <<>> \/ l = "s"
  BY OneCall
<1>3. offer' = offer
  BY <1>2 DEF P!Parse
<1>4. /\ offer \in Seq(SdpLine) /\ rest \in Seq(Lines(offer)) /\ Taken \in 0..Len(offer)
      /\ rest = SubSeq(offer, Taken + 1, Len(offer))
  BY DEF ParserInv, GrammarInv
<1>5. P!From # 0 => /\ P!From \in 1..Len(rest) /\ IsNext(Taken + P!From)
                    /\ P!Line = offer[Taken + P!From]
                    /\ P!L(Taken + P!From) = P!Letter(P!Line)
  BY AheadOK DEF P!L
<1>6. CASE UNCHANGED <<rest, sdp>> /\ P!GoTo(P!Calls[step].past)
  <2>1. /\ step \notin {"v", "o"}
        /\ IF step = "s1" THEN step' = "o" ELSE step' \notin {"v", "s1", "o"}
    BY <1>1, <1>6, PastGoes
  <2>2. P!LinesAt(Behind)' = P!LinesAt(Behind) /\ P!to_str' = P!to_str /\ FieldInv'
    BY <1>3, <1>6, SameRead
  <2>3. CASE step = "s1"
    BY <1>3, <1>6, <2>1, <2>2, <2>3 DEF PrintInv
  <2>4. CASE step # "s1"
    BY <1>3, <2>1, <2>2, <2>4 DEF PrintInv
  <2> QED
    BY <2>2, <2>3, <2>4
<1>7. CASE /\ P!Result(l) = "OSIP_WF"
           /\ rest' = SubSeq(rest, P!From + 1, Len(rest))
           /\ sdp' = kept
           /\ P!GoTo(P!Calls[step].onto)
  <2> DEFINE n == Taken + P!From
  <2>1. P!From # 0 /\ P!Letter(P!Line) = l /\ ~P!Bad(P!Line)
    BY <1>7 DEF P!Result
  <2>2. rest' = SubSeq(offer, n + 1, Len(offer))
    <3>1. P!From \in 1..Len(rest)
      BY <1>5, <2>1
    <3> QED
      BY <1>4, <1>7, <3>1
  <2>3. Takes(n) /\ P!L(n) = l /\ P!Line = offer[n]
    BY <1>2, <1>3, <1>5, <1>7, <2>1, <2>2 DEF Takes
  <2> HIDE DEF n
  <2>4. sdp' = Stored(P!L(n))
    BY <1>1, <1>7, <2>3, Room, Stores
  <2> QED
    BY <1>1, <2>3, <2>4, FieldTaken, PrintTaken
<1> QED
  BY <1>2, <1>6, <1>7 DEF P!Parse

\* Nothing is read and kept before the first call.
LEMMA PrintInit == CallInit => FieldInv /\ PrintInv
<1> SUFFICES ASSUME CallInit PROVE FieldInv /\ PrintInv
  OBVIOUS
<1>1. offer \in Seq(SdpLine) /\ rest = offer /\ step = "v" /\ sdp = Empty
  BY SdpAssumption DEF CallInit, Init, P!Init, Empty
<1>2. Taken = 0
  BY <1>1 DEF Taken
<1>3. Behind = {}
  BY <1>1, <1>2 DEF Behind, P!Proper, P!Extent
<1>4. ~P!InMedia(Taken)
  BY <1>3 DEF P!InMedia, Behind
<1>5. Len(Empty) = 1 /\ Empty[1] = P!Nothing /\ Text(Empty) = <<>>
  BY EmptyText
<1>6. FieldInv
  BY <1>1, <1>4, <1>5 DEF FieldInv, P!Nothing
<1>7. P!LinesAt(Behind) = <<>>
  <2> DEFINE N    == Len(offer)
             seqs == [k \in DOMAIN offer |-> IF k \in Behind THEN <<offer[k]>> ELSE <<>>]
  <2>1. N \in Nat /\ DOMAIN offer = 1..N
    BY <1>1
  <2>2. seqs \in [1..N -> Seq(SdpLine)] /\ \A k \in 1..N : seqs[k] = <<>>
    BY <1>3, <2>1
  <2> HIDE DEF seqs
  <2>3. seqs \in Seq(Seq(SdpLine)) /\ Len(seqs) = N
    <3> HIDE DEF N
    <3> QED
      BY <2>1, <2>2, FunctionIsSeq
  <2>4. P!FlattenSeq(seqs) = <<>>
    BY <2>2, <2>3, FlatNone
  <2> QED
    BY <2>4 DEF P!LinesAt, seqs
<1>8. P!InPrintedOrder(<<>>) = <<>>
  BY DEF P!InPrintedOrder
<1>9. P!to_str = <<>>
  BY <1>1, <1>5, TextIsPrinted
<1> QED
  BY <1>1, <1>6, <1>7, <1>8, <1>9 DEF PrintInv

\* What Init and genSdp do afterwards leaves it so.
LEMMA PrintKept ==
  ASSUME FieldInv, PrintInv, UNCHANGED <<offer, rest, step, sdp>> PROVE FieldInv' /\ PrintInv'
  BY SameRead DEF PrintInv

\* PrintsWhatWasParsed: printed, an accepted SDP has the lines it was read from.
THEOREM PrintsTheText == Spec => []PrintsWhatWasParsed
<1> DEFINE Inv == step # "error" => FieldInv /\ PrintInv
<1>1. CallInit => GrammarInv /\ Inv
  BY GrammarInit, PrintInit
<1>2. CallInv /\ GrammarInv /\ Inv /\ [CallNext]_callVars => GrammarInv' /\ Inv'
  <2> SUFFICES ASSUME CallInv, GrammarInv, Inv, [CallNext]_callVars PROVE GrammarInv' /\ Inv'
    OBVIOUS
  <2>1. CASE Parses
    <3>1. GrammarInv' /\ step # "error"
      <4>1. step \in DOMAIN P!Calls
        BY <2>1, OneCall DEF Parses, CallInv
      <4> QED
        BY <2>1, <4>1, GrammarNext, CallsOK DEF Parses, CallInv
    <3> QED
      BY <2>1, <3>1, PrintNext DEF Parses, CallInv
  <2>2. CASE ~Parses
    <3>1. UNCHANGED <<offer, rest, step, sdp>>
      BY <2>2 DEF CallNext, InitRefuses, InitThrows, InitGoesOn, GenSdp, Begin, Next, SkipTrack,
         VideoTrack, AudioTrack, callVars, vars, parseVars
    <3> QED
      BY <3>1, GrammarKept, PrintKept
  <2> QED
    BY <2>1, <2>2
<1>3. CallInv /\ GrammarInv /\ Inv => PrintsWhatWasParsed
  <2> SUFFICES ASSUME CallInv, GrammarInv, Inv, step = "end"
               PROVE  P!to_str = P!InPrintedOrder(P!LinesAt(P!Proper))
    BY DEF PrintsWhatWasParsed, P!PrintsWhatWasParsed, P!Accepted
  <2>1. P!Proper = Behind
    BY EndIsGrammatical DEF CallInv
  <2> QED
    BY <2>1 DEF PrintInv
<1> QED
  BY <1>1, <1>2, <1>3, CallInvariant, PTL DEF Spec
=============================================================================
