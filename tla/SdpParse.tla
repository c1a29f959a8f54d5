------------------------------- MODULE SdpParse ------------------------------
(***************************************************************************)
(* sdp_message_parse of osip: one call of a line parser per step, in the   *)
(* order the SDP grammar has its lines, and sdp_message_to_str, which      *)
(* prints what was kept.                                                   *)
(*                                                                         *)
(* A text is the sequence of its lines, each ended by CRLF.  A line has a  *)
(* letter, which is the character before its first "="; its value may be   *)
(* bad for the parser of this letter (a token is missing, or it is empty). *)
(* A line without "=" is "junk" or "empty".  The letters of an a= line     *)
(* tell its attribute for the sake of who uses the SDP.                    *)
(*                                                                         *)
(* Left out: allocations that fail, and texts with mere LF or CR as ends.  *)
(***************************************************************************)
EXTENDS Integers, SequencesExt

VARIABLES
    text,    \* the body that is parsed
    rest,    \* the lines from *next on
    step,    \* the call sdp_message_parse makes next, or "end" or "error"
    sdp      \* sdp_message_t: the fields of the session, then those of its medias

vars == <<text, rest, step, sdp>>

Letter(line) == IF line.is \in {"rtpmap", "fmtp", "dir"} THEN "a" ELSE line.is
NoEqual      == {"junk", "empty"}
Bad(line)    == line.of = "bad"

Field   == {"v", "o", "s", "i", "u", "e", "p", "c", "b", "t", "z", "k", "a", "m"}
Nothing == [f \in Field |-> <<>>]

-----------------------------------------------------------------------------
(* The order of the calls: after a line that matches, and past one that is *)
(* another's.  s1 and s2 are the two places of s, t2 is a further time,    *)
(* and mi to ma are what follows an m.  (Past a line it has not taken, the *)
(* loop of times tries r and t once more, for the same line.)              *)

Call(letter, onto, past) == [letter |-> letter, onto |-> onto, past |-> past]

Calls ==
    [v  |-> Call("v", "s1", "error"), s1 |-> Call("s", "o", "o"),
     o  |-> Call("o", "s2", "error"), s2 |-> Call("s", "i", "i"),
     i  |-> Call("i", "u", "u"),      u  |-> Call("u", "e", "e"),
     e  |-> Call("e", "e", "p"),      p  |-> Call("p", "p", "c"),
     c  |-> Call("c", "b", "b"),      b  |-> Call("b", "b", "t"),
     t  |-> Call("t", "r", "error"),  r  |-> Call("r", "r", "t2"),
     t2 |-> Call("t", "r", "z"),      z  |-> Call("z", "k", "k"),
     k  |-> Call("k", "a", "a"),      a  |-> Call("a", "a", "m"),
     m  |-> Call("m", "mi", "error"), mi |-> Call("i", "mc", "mc"),
     mc |-> Call("c", "mc", "mb"),    mb |-> Call("b", "mb", "mk"),
     mk |-> Call("k", "ma", "ma"),    ma |-> Call("a", "ma", "m")]

\* once a time was read, the SDP may end after any line
MayEnd == {"r", "t2", "z", "k", "a", "m", "mi", "mc", "mb", "mk", "ma"}

Running == step \in DOMAIN Calls

\* mistake: an s after the o is taken although there was one before it
SkipS2Never(next) == FALSE

\* the second place of s is not tried when the first had one
SkipS2(next) == next = "s2" /\ sdp'[1].s # <<>>

Ends(next) == next \in MayEnd /\ (rest' = <<>> \/ Head(rest').is = "empty")

GoTo(next) ==
    step' = CASE SkipS2(next) -> "i"
              [] Ends(next)   -> "end"
              [] OTHER        -> next

\* where the next "=" is: lines without one are passed over
From == SelectInSeq(rest, LAMBDA line : line.is \notin NoEqual)

-----------------------------------------------------------------------------
(* The line parsers.  "kept" is the message once the line is in it.         *)

\* the line a parser takes
Line == rest[From]

Result(letter) ==
    IF From = 0 THEN "ERR_ERROR"
    ELSE IF Letter(Line) # letter THEN "ERR_DISCARD"
    ELSE IF Bad(Line) THEN "ERR_ERROR"
    ELSE "OSIP_WF"

Parse(letter, kept) ==
    /\ Running /\ Calls[step].letter = letter
    /\ UNCHANGED text
    /\ \/ /\ Result(letter) = "ERR_ERROR"
          /\ step' = "error"
          /\ UNCHANGED <<rest, sdp>>
       \/ /\ Result(letter) = "ERR_DISCARD"
          /\ UNCHANGED <<rest, sdp>>
          /\ GoTo(Calls[step].past)
       \/ /\ Result(letter) = "OSIP_WF"
          /\ rest' = SubSeq(rest, From + 1, Len(rest))
          /\ sdp' = kept
          /\ GoTo(Calls[step].onto)

Session == 1
Medias  == 2..Len(sdp)

\* the last media, if there is one
Latest == Len(sdp)

Set(n, f) == [sdp EXCEPT ![n][f] = <<Line>>]
Add(n, f) == [sdp EXCEPT ![n][f] = Append(@, Line)]

parse_v == Parse("v", Set(Session, "v"))
parse_o == Parse("o", Set(Session, "o"))
parse_s == Parse("s", Set(Session, "s"))

\* mistake: what is said of a media is taken for the session's
parse_iOfSession == Parse("i", Set(Session, "i"))

parse_i == Parse("i", Set(Latest, "i"))
parse_u == Parse("u", Set(Session, "u"))
parse_e == Parse("e", Add(Session, "e"))
parse_p == Parse("p", Add(Session, "p"))

\* the session has one, a media a list
parse_c == Parse("c", IF Medias = {} THEN Set(Session, "c")
                      ELSE Add(Latest, "c"))

parse_b == Parse("b", Add(Latest, "b"))
parse_t == Parse("t", Add(Session, "t"))

\* a repeat is put to the last time, behind which the list here has it
parse_r == Parse("r", Add(Session, "t"))
parse_z == Parse("z", Set(Session, "z"))
parse_k == Parse("k", Set(Latest, "k"))
parse_a == Parse("a", Add(Latest, "a"))
parse_m == Parse("m", Append(sdp, [Nothing EXCEPT !.m = <<Line>>]))

Init ==
    /\ rest = text
    /\ step = "v"
    /\ sdp = <<Nothing>>

Next ==
    \/ parse_v \/ parse_o \/ parse_s \/ parse_i \/ parse_u \/ parse_e \/ parse_p
    \/ parse_c \/ parse_b \/ parse_t \/ parse_r \/ parse_z \/ parse_k \/ parse_a
    \/ parse_m

Accepted == step = "end"
Rejected == step = "error"

-----------------------------------------------------------------------------
(* sdp_message_to_str *)

Printed(part, order) == FlattenSeq([n \in DOMAIN order |-> part[order[n]]])

OrderOfSession == <<"v", "o", "s", "i", "u", "e", "p", "c", "b", "t", "z", "k", "a">>
OrderOfMedia   == <<"m", "i", "c", "b", "k", "a">>

append_media(media) == Printed(media, OrderOfMedia)

to_str ==
    Printed(sdp[Session], OrderOfSession)
    \o FlattenSeq([n \in 1..(Len(sdp) - 1) |-> append_media(sdp[n + 1])])

-----------------------------------------------------------------------------
(* What is an SDP, without a parser *)

\* an empty line right behind a line ends an SDP that has a time
EndsAt(n) ==
    /\ n > 1 /\ text[n].is = "empty" /\ text[n - 1].is \notin NoEqual
    /\ \E j \in 1..(n - 1) : text[j].is = "t"

\* the places of the SDP, and of its lines that count
Extent == {n \in DOMAIN text : \A k \in 1..n : ~EndsAt(k)}
Proper == {n \in Extent : text[n].is \notin NoEqual}
L(n)   == Letter(text[n])

\* a media starts with its m
InMedia(n)        == \E j \in Proper : j <= n /\ L(j) = "m"
SameSection(j, n) == \A k \in Proper : j < k /\ k <= n => L(k) # "m"

Order ==
    [v |-> 1, o |-> 2, s |-> 2, i |-> 3, u |-> 4, e |-> 5, p |-> 6, c |-> 7, b |-> 8,
     t |-> 9, r |-> 9, z |-> 10, k |-> 11, a |-> 12, m |-> 0]

OfSession == (Field \ {"m"}) \cup {"r"}
OfMedia   == {"m", "i", "c", "b", "k", "a"}

InPlace(l, media) == l \in IF media THEN OfMedia ELSE OfSession
Repeats(l, media) == l \in {"e", "p", "b", "t", "r", "a"} \/ (media /\ l = "c")

\* what comes before l in its section is of an earlier place, or is repeated
Follows(l, before, media) ==
    Order[before] <= Order[l] /\ (before = l => Repeats(l, media))

\* a line is where the grammar has it, once if it may not be repeated
WellPlaced(n) ==
    /\ InPlace(L(n), InMedia(n)) /\ ~Bad(text[n])
    /\ \A j \in Proper : j < n /\ SameSection(j, n) => Follows(L(n), L(j), InMedia(n))

Grammatical ==
    /\ \A n \in Proper : WellPlaced(n)
    /\ \A l \in {"v", "o", "t"} : \E n \in Proper : L(n) = l
    /\ \A n \in Proper : L(n) = "r" => \E j \in Proper : j < n /\ L(j) = "t"
    /\ \E n \in Proper : \A k \in Extent : k <= n

\* the lines of some places, in their order
LinesAt(places) ==
    FlattenSeq([n \in DOMAIN text |-> IF n \in places THEN <<text[n]>> ELSE <<>>])

\* The lines as the printer has them: an s before the o moves behind it.
InPrintedOrder(lines) ==
    IF Len(lines) > 2 /\ lines[2].is = "s" THEN [lines EXCEPT ![2] = lines[3], ![3] = lines[2]]
    ELSE lines

\* The chain of calls, each of which may pass over its line, with its two places
\* of s and the loop of times and repeats, accepts what follows the grammar: every
\* line in its place, at most one s, though before or behind the o.
AcceptsGrammar ==
    /\ Accepted => Grammatical
    /\ Rejected => ~Grammatical

\* Nothing is lost, doubled or put to another section on the way through the
\* structure: printed, an accepted SDP has the lines it was read from.
PrintsWhatWasParsed ==
    Accepted => to_str = InPrintedOrder(LinesAt(Proper))
=============================================================================
