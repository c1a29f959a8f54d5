--------------------------- MODULE NonInviteProofs --------------------------
(***************************************************************************)
(* What holds of NonInvite for any times that obey its two assumptions and *)
(* any number of responses: its types, that at most one copy of the request*)
(* is on the way, that an answer the client learns was given, that no copy *)
(* comes after the server forgot the request, and that the two transactions*)
(* do the steps of an Exchange.                                            *)
(***************************************************************************)
EXTENDS NonInvite, TLAPS

LEMMA NumbersOK ==
    /\ T1 \in Nat /\ T2 \in Nat /\ T4 \in Nat /\ Life \in Nat /\ Delay \in Nat
    /\ T1 > 0 /\ T2 > 0 /\ T4 > 0 /\ Life > 0
    /\ Delay < T1 /\ T1 <= T2 /\ T1 < Life
  BY TimeAssumption DEF TimeAssumption

\* the names of the responses are not those of states and failures
LEMMA NamesOK ==
    \A a \in Answer :
       a \notin {"none", "1xx", "request", "idle", "waiting", "timeout", "error"}
  BY TimeAssumption DEF TimeAssumption

\* Timer E never waits for more than T2.
LEMMA LengthOK ==
    ASSUME TypeOK
    PROVE  Length \in 0..T2
  <1>1. /\ timerF \in Int /\ timerE.length \in Nat
    BY NumbersOK DEF TypeOK
  <1>2. T2 \in 0..T2
    BY NumbersOK
  <1> DEFINE age    == Life - timerF
             wanted == IF age < T1 THEN T1
                       ELSE IF age < 2 * T1 THEN 2 * T1
                       ELSE IF age < 4 * T1 THEN 4 * T1
                       ELSE 2 * timerE.length
  <1>3. wanted \in Nat
    BY <1>1, NumbersOK
  <1>4. Length = IF nict = "proceeding" \/ wanted > T2 THEN T2 ELSE wanted
    BY DEF Length
  <1> HIDE DEF wanted
  <1> QED
    BY <1>2, <1>3, <1>4, NumbersOK

-----------------------------------------------------------------------------
(* Types *)

LEMMA WireOK ==
    ASSUME TypeOK, NEW m \in Message, Sends(m)
    PROVE  wire' \in [Message -> -1..Delay]
  BY NumbersOK DEF TypeOK, Sends

LEMMA InitTypeOK == Init => TypeOK
  BY NumbersOK DEF Init, TypeOK, Message, Response

LEMMA NictTypeOK ==
    ASSUME TypeOK, Nict
    PROVE  TypeOK'
  <1> USE NumbersOK
  <1>1. "request" \in Message
    BY DEF Message
  <1>2. CASE SndRequest
    BY <1>1, <1>2, WireOK DEF SndRequest, Starts, Ends, Stopped, TypeOK, serverVars
  <1>3. CASE TimeoutE
    <2>1. Length \in 0..T2
      BY LengthOK
    <2> QED
      BY <1>1, <1>3, <2>1, WireOK DEF TimeoutE, Starts, Ends, Stopped, TypeOK, serverVars
  <1>4. CASE TimeoutF
    BY <1>4 DEF TimeoutF, Ends, Stopped, TypeOK, serverVars
  <1>5. CASE TimeoutK
    BY <1>5 DEF TimeoutK, TypeOK, serverVars
  <1>6. CASE Rcv1xx
    BY <1>6 DEF Rcv1xx, Starts, TypeOK, serverVars
  <1>7. ASSUME NEW a \in Answer, Rcv23456xx(a)
        PROVE  TypeOK'
    BY <1>7 DEF Rcv23456xx, Stopped, TypeOK, serverVars
  <1> QED
    BY <1>2, <1>3, <1>4, <1>5, <1>6, <1>7 DEF Nict

LEMMA NistTypeOK ==
    ASSUME TypeOK, Nist
    PROVE  TypeOK'
  <1> USE NumbersOK DEF clientVars
  <1>1. CASE RcvRequest
    BY <1>1 DEF RcvRequest, TypeOK
  <1>2. CASE RcvRequestAgain
    <2>1. CASE response = "none"
      \* it is not, but the types need not know: nothing is sent under that name
      <3>1. wire' \in [Message -> -1..Delay]
        BY <1>2 DEF RcvRequestAgain, Sends, TypeOK
      <3> QED
        BY <1>2, <3>1 DEF RcvRequestAgain, Lost, TypeOK
    <2>2. CASE response \in Response
      BY <1>2, <2>2, WireOK DEF RcvRequestAgain, Lost, TypeOK, Message
    <2> QED
      BY <2>1, <2>2 DEF TypeOK
  <1>3. CASE Snd1xx
    <2>1. "1xx" \in Message /\ "1xx" \in Response
      BY DEF Message, Response
    <2> QED
      BY <1>3, <2>1, WireOK DEF Snd1xx, Lost, TypeOK
  <1>4. CASE Snd23456xx
    <2>1. fifo \in Message /\ fifo \in Response
      BY <1>4 DEF Snd23456xx, Message, Response
    <2> QED
      BY <1>4, <2>1, WireOK DEF Snd23456xx, Lost, TypeOK
  <1>5. CASE TimeoutJ
    BY <1>5 DEF TimeoutJ, TypeOK
  <1> QED
    BY <1>1, <1>2, <1>3, <1>4, <1>5 DEF Nist

LEMMA OtherTypeOK ==
    ASSUME TypeOK, Submit \/ ReleaseUnanswered \/ User
    PROVE  TypeOK'
  <1>1. CASE Submit
    BY <1>1 DEF Submit, TypeOK, serverVars
  <1>2. CASE ReleaseUnanswered
    BY <1>2 DEF ReleaseUnanswered, TypeOK, clientVars
  <1>3. CASE Provisional
    BY <1>3 DEF Provisional, TypeOK, Response, clientVars
  <1>4. ASSUME NEW a \in Answer, SendAnswer(a)
        PROVE  TypeOK'
    BY <1>4 DEF SendAnswer, TypeOK, Response, clientVars
  <1> QED
    BY <1>1, <1>2, <1>3, <1>4 DEF User

LEMMA TickTypeOK ==
    ASSUME TypeOK, Tick
    PROVE  TypeOK'
  <1> USE NumbersOK
  <1>1. timerE' \in [length: 0..T2, left: 0..T2]
    <2>1. Less(timerE.left, Waiting) \in 0..T2
      BY DEF TypeOK, Waiting, Less
    <2> QED
      BY <2>1 DEF Tick, TypeOK
  <1>2. timerF' \in 0..Life /\ timerK' \in 0..T4 /\ timerJ' \in 0..Life
    BY DEF Tick, TypeOK, Less
  <1>3. wire' \in [Message -> -1..Delay]
    BY DEF Tick, TypeOK, Arrives
  <1> QED
    BY <1>1, <1>2, <1>3 DEF Tick, TypeOK

\* The variables of NonInvite keep their types; in particular timer E stays
\* within T2 however often a request is resent.
THEOREM NonInviteTypeOK == Safety => []TypeOK
  <1>1. TypeOK /\ [Next]_vars => TypeOK'
    <2>1. CASE UNCHANGED vars
      BY <2>1 DEF TypeOK, vars, clientVars, serverVars
    <2> QED
      BY <2>1, NictTypeOK, NistTypeOK, OtherTypeOK, TickTypeOK DEF Next
  <1> QED
    BY <1>1, InitTypeOK, PTL DEF Safety

-----------------------------------------------------------------------------
(* One copy of the request on the way *)

CopyInv ==
    /\ nict \in {"none", "pretrying", "trying", "proceeding"} => timerE.length >= T1
    /\ Waiting /\ Arrives("request") => timerE.left > wire["request"]

LEMMA LengthIsLong ==
    ASSUME TypeOK, timerE.length >= T1
    PROVE  Length >= T1
  <1>1. timerE.length \in Nat /\ timerF \in Int
    BY NumbersOK DEF TypeOK
  <1> QED
    BY <1>1, NumbersOK DEF Length

\* responses go the other way
LEMMA ResponsesAreNoRequests ==
    ASSUME TypeOK, TypeOK', CopyInv, Nist
    PROVE  CopyInv'
  <1>1. UNCHANGED clientVars
    BY DEF Nist, RcvRequest, RcvRequestAgain, Snd1xx, Snd23456xx, TimeoutJ
  <1>2. wire'["request"] = wire["request"]
    <2>1. response # "request" /\ fifo # "request"
      BY NamesOK DEF TypeOK, Response
    <2>2. ASSUME NEW m, m # "request", Sends(m)
          PROVE  wire'["request"] = wire["request"]
      <3>1. "request" \in Message /\ DOMAIN wire = Message
        BY DEF Message, TypeOK
      <3>2. wire = [x \in Message |-> wire[x]]
        BY DEF TypeOK
      <3> QED
        BY <2>2, <3>1, <3>2 DEF Sends
    <2> QED
      BY <2>1, <2>2 DEF Nist, RcvRequest, RcvRequestAgain, Snd1xx, Snd23456xx, TimeoutJ
  <1> QED
    BY <1>1, <1>2 DEF CopyInv, Waiting, Arrives, clientVars

LEMMA NictCopyInv ==
    ASSUME TypeOK, TypeOK', CopyInv, Nict
    PROVE  CopyInv'
  <1> USE NumbersOK DEF CopyInv, Waiting, Arrives, serverVars
  <1>1. "request" \in Message /\ wire["request"] \in -1..Delay
    BY DEF Message, TypeOK
  <1>2. CASE SndRequest
    BY <1>1, <1>2 DEF SndRequest, Starts, Sends, Ends, Stopped, TypeOK
  <1>3. CASE TimeoutE
    <2>1. Length >= T1 /\ Length \in 0..T2
      BY <1>3, LengthIsLong, LengthOK DEF TimeoutE
    <2> QED
      BY <1>1, <1>3, <2>1 DEF TimeoutE, Starts, Sends, Ends, TypeOK
  <1>4. CASE TimeoutF
    BY <1>4 DEF TimeoutF, Ends
  <1>5. CASE TimeoutK
    BY <1>5 DEF TimeoutK
  <1>6. CASE Rcv1xx
    BY <1>1, <1>6 DEF Rcv1xx, Starts, TypeOK
  <1>7. ASSUME NEW a \in Answer, Rcv23456xx(a)
        PROVE  CopyInv'
    BY <1>7 DEF Rcv23456xx
  <1> QED
    BY <1>2, <1>3, <1>4, <1>5, <1>6, <1>7 DEF Nict

LEMMA TickCopyInv ==
    ASSUME TypeOK, CopyInv, Tick
    PROVE  CopyInv'
  <1> USE DEF CopyInv, Waiting, Arrives
  <1>1. "request" \in Message /\ wire["request"] \in Int /\ timerE.left \in Nat
    BY NumbersOK DEF Message, TypeOK
  <1>2. timerE'.length = timerE.length /\ timerE'.left = Less(timerE.left, Waiting)
    BY DEF Tick, TypeOK
  <1>3. wire'["request"] = IF wire["request"] >= 0 THEN wire["request"] - 1 ELSE -1
    BY <1>1 DEF Tick
  <1> QED
    BY <1>1, <1>2, <1>3 DEF Tick, Less

LEMMA OtherCopyInv ==
    ASSUME CopyInv, Submit \/ ReleaseUnanswered \/ User \/ UNCHANGED vars
    PROVE  CopyInv'
  BY DEF CopyInv, Waiting, Arrives, Submit, ReleaseUnanswered, User, Provisional, SendAnswer,
         vars, clientVars

LEMMA InitCopyInv == Init => CopyInv
  BY NumbersOK DEF Init, CopyInv, Waiting

\* Timer E never sends a copy of the request while one may still arrive, for any
\* T1 that is longer than a datagram's way.
THEOREM OneCopy == Safety => OneCopyOnTheWay
  <1>1. TypeOK /\ TypeOK' /\ CopyInv /\ [Next]_vars => CopyInv'
    BY ResponsesAreNoRequests, NictCopyInv, TickCopyInv, OtherCopyInv DEF Next
  <1>2. TypeOK /\ CopyInv => (TimeoutE => ~Arrives("request"))
    <2>1. TypeOK => wire["request"] \in Int
      BY NumbersOK DEF TypeOK, Message
    <2> QED
      BY <2>1 DEF CopyInv, TimeoutE, Arrives
  <1> QED
    BY <1>1, <1>2, InitCopyInv, NonInviteTypeOK, PTL DEF Safety, OneCopyOnTheWay

-----------------------------------------------------------------------------
(* The steps of an Exchange *)

\* whatever is told, kept or on the way as an answer was given by the application
GivenInv ==
    /\ \A a \in Answer : Arrives(a) => a \in given
    /\ response \in Answer => response \in given
    /\ fifo \in Answer => fifo \in given
    /\ outcome \in Answer => outcome \in given

\* how the states of the two transactions go with what their users know
UserInv ==
    /\ outcome = "none" <=> nict \in {"none", "pretrying", "trying", "proceeding"}
    /\ nict = "none" => ~Arrives("request")
    /\ nist # "none" => user \in {"asked", "answered"}
    /\ nist # "none" => nict # "none"
    /\ nist = "none" /\ user = "asked" => nict = "terminated" /\ ~Arrives("request")
    /\ user = "unasked" => nist = "none"
    /\ nist = "completed" \/ fifo \in Answer => user # "asked"
    /\ nist \in {"none", "completed"} => fifo = "none"

ExchangeInv == TypeOK /\ GivenInv /\ UserInv

\* Sending one message leaves the others where they are.
LEMMA OthersStay ==
    ASSUME TypeOK, NEW sent, Sends(sent), NEW m \in Message, m # sent
    PROVE  wire'[m] = wire[m]
  <1>1. wire = [x \in Message |-> wire[x]]
    BY DEF TypeOK
  <1> QED
    BY <1>1 DEF Sends

LEMMA InitExchangeInv == Init => ExchangeInv
  <1>1. Init => GivenInv
    BY NamesOK DEF Init, GivenInv, Arrives, Message, Response
  <1>2. Init => UserInv
    BY NamesOK DEF Init, UserInv, Arrives, Message
  <1> QED
    BY <1>1, <1>2, InitTypeOK DEF ExchangeInv

LEMMA GivenStep ==
    ASSUME ExchangeInv, Next
    PROVE  GivenInv'
  <1> USE DEF ExchangeInv
  <1>1. \A a \in Answer : a \in Message /\ a # "request" /\ a # "1xx" /\ a # "none"
    BY NamesOK DEF Message, Response
  <1>2. CASE SndRequest \/ TimeoutE
    <2>1. \A a \in Answer : wire'[a] = wire[a]
      BY <1>1, <1>2, OthersStay DEF SndRequest, TimeoutE
    <2>2. outcome' \in {outcome, "error"}
      BY <1>2 DEF SndRequest, TimeoutE, Ends
    <2> QED
      BY <1>2, <2>1, <2>2, NamesOK DEF GivenInv, Arrives, SndRequest, TimeoutE, serverVars
  <1>3. CASE TimeoutF \/ TimeoutK \/ Rcv1xx \/ Submit
    BY <1>3, NamesOK
    DEF GivenInv, Arrives, TimeoutF, TimeoutK, Rcv1xx, Submit, Ends, serverVars
  <1>4. ASSUME NEW a \in Answer, Rcv23456xx(a)
        PROVE  GivenInv'
    BY <1>4 DEF GivenInv, Arrives, Rcv23456xx, serverVars
  <1>5. CASE RcvRequestAgain \/ Snd1xx \/ Snd23456xx
    <2>1. ASSUME NEW a \in Answer, Arrives(a)'
          PROVE  a \in given
      <3>1. CASE wire'[a] = wire[a]
        BY <2>1, <3>1 DEF GivenInv, Arrives
      <3>2. CASE wire'[a] # wire[a]
        <4>1. RcvRequestAgain => a = response
          BY <1>1, <3>2, OthersStay DEF RcvRequestAgain
        <4>2. ~Snd1xx
          BY <1>1, <3>2, OthersStay DEF Snd1xx
        <4>3. Snd23456xx => a = fifo
          BY <1>1, <3>2, OthersStay DEF Snd23456xx
        <4> QED
          BY <1>5, <4>1, <4>2, <4>3 DEF GivenInv
      <3> QED
        BY <3>1, <3>2
    <2>2. given' = given /\ outcome' = outcome
      BY <1>5 DEF RcvRequestAgain, Snd1xx, Snd23456xx, clientVars
    <2>3. response' \in {response, "1xx", fifo} /\ fifo' \in {fifo, "none"}
      BY <1>5 DEF RcvRequestAgain, Snd1xx, Snd23456xx, Lost
    <2> QED
      BY <1>1, <2>1, <2>2, <2>3 DEF GivenInv
  <1>6. CASE RcvRequest \/ TimeoutJ \/ ReleaseUnanswered \/ Provisional
    BY <1>1, <1>6 DEF GivenInv, Arrives, RcvRequest, TimeoutJ, ReleaseUnanswered, Provisional,
                      clientVars
  <1>7. ASSUME NEW a \in Answer, SendAnswer(a)
        PROVE  GivenInv'
    BY <1>7 DEF GivenInv, Arrives, SendAnswer, clientVars
  <1>8. CASE Tick
    <2>1. \A a \in Answer : wire'[a] = IF wire[a] >= 0 THEN wire[a] - 1 ELSE -1
      BY <1>1, <1>8 DEF Tick, Arrives
    <2>2. \A m \in Message : wire[m] \in Int
      BY NumbersOK DEF TypeOK
    <2> QED
      BY <1>1, <1>8, <2>1, <2>2 DEF Tick, GivenInv, Arrives
  <1> QED
    BY <1>2, <1>3, <1>4, <1>5, <1>6, <1>7, <1>8 DEF Next, Nict, Nist, User

LEMMA UserStep ==
    ASSUME ExchangeInv, Next
    PROVE  UserInv'
  <1> USE NamesOK DEF ExchangeInv, UserInv
  <1>1. "request" \in Message
    BY DEF Message
  <1>2. CASE Submit \/ TimeoutF \/ TimeoutK \/ Rcv1xx
    BY <1>2 DEF Submit, TimeoutF, TimeoutK, Rcv1xx, Ends, Waiting, Arrives, serverVars
  <1>3. CASE SndRequest \/ TimeoutE
    BY <1>3 DEF SndRequest, TimeoutE, Ends, Waiting, Arrives, serverVars
  <1>4. ASSUME NEW a \in Answer, Rcv23456xx(a)
        PROVE  UserInv'
    BY <1>4, NamesOK DEF Rcv23456xx, Waiting, Arrives, serverVars
  <1>5. CASE Nist
    <2>1. UNCHANGED <<nict, outcome>>
      BY <1>5 DEF Nist, RcvRequest, RcvRequestAgain, Snd1xx, Snd23456xx, TimeoutJ, clientVars
    <2>2. wire'["request"] = wire["request"]
      <3>1. response # "request" /\ fifo # "request"
        BY NamesOK DEF TypeOK, Response
      <3> QED
        BY <1>1, <1>5, <3>1, OthersStay
        DEF Nist, RcvRequest, RcvRequestAgain, Snd1xx, Snd23456xx, TimeoutJ
    <2>3. CASE RcvRequest
      BY <2>1, <2>2, <2>3 DEF RcvRequest, Arrives
    <2>4. CASE RcvRequestAgain \/ Snd1xx \/ Snd23456xx
      BY <2>1, <2>2, <2>4 DEF RcvRequestAgain, Snd1xx, Snd23456xx, Lost, Arrives
    <2>5. CASE TimeoutJ
      BY <2>1, <2>2, <2>5 DEF TimeoutJ, Arrives
    <2> QED
      BY <1>5, <2>3, <2>4, <2>5 DEF Nist
  <1>6. CASE ReleaseUnanswered \/ User
    BY <1>6 DEF ReleaseUnanswered, User, Provisional, SendAnswer, Arrives, clientVars
  <1>7. CASE Tick
    <2>1. wire'["request"] = IF wire["request"] >= 0 THEN wire["request"] - 1 ELSE -1
      BY <1>1, <1>7 DEF Tick, Arrives
    <2>2. wire["request"] \in Int
      BY <1>1, NumbersOK DEF TypeOK
    <2> QED
      BY <1>7, <2>1, <2>2 DEF Tick, Arrives
  <1> QED
    BY <1>2, <1>3, <1>4, <1>5, <1>6, <1>7 DEF Next, Nict

LEMMA ExchangeInvHolds == Safety => []ExchangeInv
  <1>1. ExchangeInv /\ [Next]_vars => ExchangeInv'
    <2>1. CASE Next
      BY <2>1, GivenStep, UserStep, NictTypeOK, NistTypeOK, OtherTypeOK, TickTypeOK
      DEF ExchangeInv, Next
    <2>2. CASE UNCHANGED vars
      BY <2>2 DEF ExchangeInv, TypeOK, GivenInv, UserInv, Arrives, vars, clientVars, serverVars
    <2> QED
      BY <2>1, <2>2
  <1> QED
    BY <1>1, InitExchangeInv, PTL DEF Safety

\* An answer the client's application is told is one the server's gave.
THEOREM LearntWasGiven == Safety => [](outcome \in Answer => outcome \in given)
  BY ExchangeInvHolds, PTL DEF ExchangeInv, GivenInv

-----------------------------------------------------------------------------
(* The server outlives the copies of its request *)

MultiplesOf(n) == {k * n : k \in Int}

\* what timer F reads at the next resending
NextResend == timerF - timerE.left

\* the age of the client when the final answer was sent, or its age now
AgeAtAnswer == IF nist = "completed" THEN timerJ - timerF ELSE Life - timerF

StartInv ==
    nict \in {"none", "pretrying"} =>
        /\ nist = "none" /\ user = "unasked" /\ ~Arrives("request")
        /\ timerF = Life /\ timerE.length = T1

\* Without a provisional response timer E divides timer F.  A provisional response
\* starts timer E anew, but none comes later than Delay after the final answer was
\* sent: "r" is the age of the client when the last one came.
ResendInv ==
    /\ nict = "trying" => {timerE.length, NextResend} \subseteq MultiplesOf(T1)
    /\ nict = "proceeding" =>
         \E r \in Nat : r <= AgeAtAnswer + Delay /\ NextResend + r \in MultiplesOf(T2)
    /\ Waiting /\ Arrives("1xx") => Life - timerF + wire["1xx"] <= AgeAtAnswer + Delay

ForgetInv ==
    /\ nist = "completed" => response \in Answer
    /\ nist = "completed" /\ Waiting => timerJ >= timerF
    /\ nist = "completed" /\ Arrives("request") => wire["request"] < timerJ
    /\ ServerOutlivesCopies

OutliveInv == StartInv /\ ResendInv /\ ForgetInv

LEMMA MultiplesOK ==
    ASSUME NEW n \in Nat, NEW a \in MultiplesOf(n), NEW b \in MultiplesOf(n)
    PROVE  a \in Int /\ a + b \in MultiplesOf(n) /\ a - b \in MultiplesOf(n)
  <1>1. PICK i \in Int : a = i * n
    BY DEF MultiplesOf
  <1>2. PICK j \in Int : b = j * n
    BY DEF MultiplesOf
  <1>3. i + j \in Int /\ i - j \in Int /\ i * n \in Int
    OBVIOUS
  <1>4. a + b = (i + j) * n /\ a - b = (i - j) * n
    BY <1>1, <1>2
  <1>5. a + b \in MultiplesOf(n)
    BY <1>3, <1>4, Zenon DEF MultiplesOf
  <1>6. a - b \in MultiplesOf(n)
    BY <1>3, <1>4, Zenon DEF MultiplesOf
  <1> QED
    BY <1>1, <1>3, <1>5, <1>6

LEMMA PositiveMultiple ==
    ASSUME NEW n \in Nat, NEW a \in MultiplesOf(n), a > 0
    PROVE  a >= n
  <1>1. PICK k \in Int : a = k * n
    BY DEF MultiplesOf
  <1>2. CASE k <= 0
    <2>1. k * n <= 0
      BY <1>2
    <2> QED
      BY <1>1, <2>1
  <1>3. CASE k >= 1
    <2>1. (k - 1) * n >= 0
      BY <1>3
    <2>2. k * n = (k - 1) * n + n
      BY <1>1
    <2> QED
      BY <1>1, <2>1, <2>2
  <1> QED
    BY <1>2, <1>3

LEMMA TimesAreMultiples ==
    /\ {T1, 2 * T1, 4 * T1, T2, Life} \subseteq MultiplesOf(T1)
    /\ {T2, Life} \subseteq MultiplesOf(T2)
    /\ T2 >= 2 * T1
  <1> USE NumbersOK
  <1>1. PICK m \in 2..T2 : T2 = m * T1
    BY RatioAssumption DEF RatioAssumption
  <1>2. PICK l \in 1..Life : Life = l * T2
    BY RatioAssumption DEF RatioAssumption
  <1>3. T1 = 1 * T1 /\ T2 = 1 * T2
    OBVIOUS
  <1>4. (l * m) \in Int /\ Life = (l * m) * T1
    BY <1>1, <1>2
  <1>5. (m - 2) * T1 >= 0 /\ m * T1 = (m - 2) * T1 + 2 * T1
    BY <1>1
  <1> QED
    BY <1>1, <1>2, <1>3, <1>4, <1>5 DEF MultiplesOf

LEMMA InitOutliveInv == Init => OutliveInv
  <1>1. \A m \in Message : Init => ~Arrives(m)
    BY DEF Init, Arrives
  <1>2. "request" \in Message /\ "1xx" \in Message
    BY DEF Message, Response
  <1> QED
    BY <1>1, <1>2, NumbersOK
    DEF Init, OutliveInv, StartInv, ResendInv, ForgetInv, ServerOutlivesCopies, Waiting

\* A resending that still takes place comes early enough for its copy to be gone
\* when timer J fires.
LEMMA ResendInTime ==
    ASSUME TypeOK, ResendInv, ForgetInv,
           Waiting, timerE.left = 0, timerF > 0, nist = "completed"
    PROVE  timerJ > Delay
  <1> USE NumbersOK
  <1>1. timerF \in Nat /\ timerJ \in Nat /\ timerJ >= timerF /\ NextResend = timerF
    BY DEF TypeOK, ForgetInv, NextResend
  <1>2. CASE nict = "trying"
    <2>1. timerF >= T1
      BY <1>1, <1>2, PositiveMultiple DEF ResendInv
    <2> QED
      BY <1>1, <2>1
  <1>3. CASE nict = "proceeding"
    <2>1. PICK r \in Nat : r <= timerJ - timerF + Delay /\ timerF + r \in MultiplesOf(T2)
      BY <1>1, <1>3 DEF ResendInv, AgeAtAnswer
    <2>2. timerF + r >= T2
      BY <1>1, <2>1, PositiveMultiple
    <2> QED
      BY <1>1, <2>1, <2>2, TimesAreMultiples
  <1> QED
    BY <1>2, <1>3 DEF Waiting

\* However long timer E is made, it stays a multiple of T1.
LEMMA LengthIsMultiple ==
    ASSUME TypeOK, timerE.length \in MultiplesOf(T1)
    PROVE  Length \in MultiplesOf(T1)
  <1>1. 2 * timerE.length \in MultiplesOf(T1)
    <2>1. timerE.length + timerE.length \in MultiplesOf(T1) /\ timerE.length \in Int
      BY MultiplesOK, NumbersOK
    <2> QED
      BY <2>1
  <1> QED
    BY <1>1, TimesAreMultiples DEF Length

LEMMA NictResendInv ==
    ASSUME TypeOK, TypeOK', OutliveInv, Nict
    PROVE  ResendInv'
  <1> USE NumbersOK DEF OutliveInv
  <1>1. timerF \in Nat /\ timerJ \in Nat /\ timerE.left \in Nat /\ timerE.length \in Nat
    BY DEF TypeOK
  <1>2. UNCHANGED <<nist, timerJ>>
    BY DEF Nict, SndRequest, TimeoutE, TimeoutF, TimeoutK, Rcv1xx, Rcv23456xx, serverVars
  <1>3. ASSUME nict' \notin {"trying", "proceeding"}
        PROVE  ResendInv'
    BY <1>3 DEF ResendInv, Waiting
  <1>4. ASSUME nict' \in {"trying", "proceeding"}, UNCHANGED timerF,
               wire'["1xx"] = wire["1xx"], Waiting
        PROVE  /\ UNCHANGED AgeAtAnswer
               /\ Waiting' /\ Arrives("1xx")' => (Life - timerF + wire["1xx"] <= AgeAtAnswer + Delay)'
    BY <1>2, <1>4 DEF ResendInv, AgeAtAnswer, Arrives
  <1>5. CASE SndRequest
    <2>1. CASE nict' = "trying"
      <3>1. timerE' = [length |-> T1, left |-> T1] /\ timerF' = Life
        BY <1>5, <2>1 DEF SndRequest, Starts, StartInv, Ends
      <3>2. NextResend' = Life - T1 /\ timerE'.length = T1
        BY <3>1 DEF NextResend
      <3>3. nist' # "completed" /\ wire' \in [Message -> -1..Delay] /\ "1xx" \in Message
        BY <1>2, <1>5 DEF SndRequest, StartInv, TypeOK, Message, Response
      <3>4. Life - timerF' + wire'["1xx"] <= AgeAtAnswer' + Delay
        BY <3>1, <3>3 DEF AgeAtAnswer
      <3>5. T1 \in MultiplesOf(T1) /\ Life - T1 \in MultiplesOf(T1)
        BY TimesAreMultiples, MultiplesOK
      <3> QED
        BY <2>1, <3>2, <3>4, <3>5 DEF ResendInv
    <2> QED
      BY <1>3, <1>5, <2>1 DEF SndRequest, Ends
  <1>6. CASE TimeoutE
    <2>1. CASE nict' = "terminated"
      BY <1>3, <2>1
    <2>2. CASE Starts(Length) /\ Sends("request") /\ UNCHANGED <<nict, timerF, outcome>>
      <3>1. wire'["1xx"] = wire["1xx"]
        BY <2>2, OthersStay DEF Message, Response
      <3>2. NextResend = timerF /\ NextResend' = timerF - Length /\ timerE'.length = Length
        BY <1>1, <1>6, <2>2 DEF TimeoutE, Starts, NextResend
      <3>3. CASE nict = "trying"
        <4>1. timerE.length \in MultiplesOf(T1) /\ timerF \in MultiplesOf(T1)
          BY <3>2, <3>3 DEF ResendInv
        <4>2. Length \in MultiplesOf(T1)
          BY <4>1, LengthIsMultiple
        <4>3. timerF - Length \in MultiplesOf(T1)
          BY <4>1, <4>2, MultiplesOK
        <4> QED
          BY <1>4, <1>6, <2>2, <3>1, <3>2, <3>3, <4>2, <4>3 DEF ResendInv, TimeoutE, Waiting
      <3>4. CASE nict = "proceeding"
        <4>1. PICK r \in Nat : r <= AgeAtAnswer + Delay /\ NextResend + r \in MultiplesOf(T2)
          BY <3>4 DEF ResendInv
        <4>2. Length = T2
          BY <3>4 DEF Length
        <4>3. NextResend' + r = (NextResend + r) - T2
          BY <1>1, <3>2, <4>2
        <4>4. NextResend' + r \in MultiplesOf(T2)
          BY <4>1, <4>3, MultiplesOK, TimesAreMultiples
        <4> QED
          BY <1>4, <1>6, <2>2, <3>1, <3>4, <4>1, <4>4 DEF ResendInv, TimeoutE, Waiting
      <3> QED
        BY <1>6, <3>3, <3>4 DEF TimeoutE, Waiting
    <2> QED
      BY <1>6, <2>1, <2>2 DEF TimeoutE, Ends
  <1>7. CASE Rcv1xx
    <2>1. UNCHANGED <<timerF, wire>> /\ nict' = "proceeding" /\ NextResend' = timerF - T2
      BY <1>7 DEF Rcv1xx, Starts, NextResend
    <2>2. wire["1xx"] \in Nat
      BY <1>7 DEF Rcv1xx, Arrives, TypeOK, Message, Response
    <2>3. AgeAtAnswer \in Int /\ UNCHANGED AgeAtAnswer
      BY <1>1, <1>2, <2>1 DEF AgeAtAnswer
    <2>4. Life - timerF \in Nat /\ Life - timerF <= AgeAtAnswer + Delay
      BY <1>1, <1>7, <2>2, <2>3 DEF ResendInv, Rcv1xx, TypeOK
    <2>5. NextResend' + (Life - timerF) = Life - T2
      BY <1>1, <2>1
    <2>6. NextResend' + (Life - timerF) \in MultiplesOf(T2)
      BY <2>5, MultiplesOK, TimesAreMultiples
    <2> QED
      BY <1>4, <1>7, <2>1, <2>3, <2>4, <2>6 DEF ResendInv, Rcv1xx
  <1>8. CASE TimeoutF \/ TimeoutK \/ \E a \in Answer : Rcv23456xx(a)
    BY <1>3, <1>8 DEF TimeoutF, TimeoutK, Rcv23456xx, Ends
  <1> QED
    BY <1>5, <1>6, <1>7, <1>8 DEF Nict

LEMMA NistResendInv ==
    ASSUME ExchangeInv, OutliveInv, Nist
    PROVE  ResendInv'
  <1> USE NumbersOK DEF OutliveInv, ExchangeInv
  <1>1. timerF \in 0..Life /\ timerJ \in 0..Life /\ wire["1xx"] \in -1..Delay
    BY DEF TypeOK, Message, Response
  <1>2. UNCHANGED <<clientVars, NextResend, Waiting>>
    BY DEF Nist, RcvRequest, RcvRequestAgain, Snd1xx, Snd23456xx, TimeoutJ,
           clientVars, NextResend, Waiting
  \* an answer counts from when it was sent, and no provisional response follows it
  <1>3. AgeAtAnswer' >= AgeAtAnswer /\ AgeAtAnswer' \in Int
    BY <1>1, <1>2
    DEF AgeAtAnswer, Nist, RcvRequest, RcvRequestAgain, Snd1xx, Snd23456xx, TimeoutJ, Lost,
        clientVars
  <1>4. CASE wire'["1xx"] = wire["1xx"]
    BY <1>1, <1>2, <1>3, <1>4 DEF ResendInv, Arrives, clientVars, AgeAtAnswer
  <1>5. CASE wire'["1xx"] # wire["1xx"]
    <2>1. "1xx" \in Message
      BY DEF Message, Response
    <2>2. nist' # "completed"
      <3>1. Nist => Snd1xx \/ Snd23456xx \/ RcvRequestAgain
        BY <1>5 DEF Nist, RcvRequest, TimeoutJ
      <3>2. ~Snd23456xx
        BY <1>5, <2>1, OthersStay, NamesOK DEF Snd23456xx
      <3>3. RcvRequestAgain => nist # "completed"
        BY <1>5, <2>1, OthersStay, NamesOK DEF RcvRequestAgain, ForgetInv
      <3> QED
        BY <3>1, <3>2, <3>3 DEF Snd1xx, RcvRequestAgain, Lost
    <2>3. wire'["1xx"] <= Delay
      <3>1. TypeOK'
        BY NistTypeOK
      <3> QED
        BY <2>1, <3>1 DEF TypeOK
    <2>4. wire'["1xx"] \in Int
      BY <2>1, NistTypeOK DEF TypeOK
    <2> QED
      BY <1>1, <1>2, <1>3, <2>2, <2>3, <2>4 DEF ResendInv, AgeAtAnswer, clientVars
  <1> QED
    BY <1>4, <1>5

LEMMA TickOutliveInv ==
    ASSUME ExchangeInv, OutliveInv, Tick
    PROVE  OutliveInv'
  <1> USE NumbersOK DEF OutliveInv, ExchangeInv
  <1>1. /\ timerF \in Nat /\ timerJ \in Nat /\ timerE.left \in Nat /\ timerE.length \in Nat
        /\ \A m \in Message : wire[m] \in Int
    BY DEF TypeOK
  <1>2. "request" \in Message /\ "1xx" \in Message
    BY DEF Message, Response
  <1>3. \A m \in Message : wire'[m] = IF wire[m] >= 0 THEN wire[m] - 1 ELSE -1
    BY DEF Tick, Arrives
  <1>4. /\ UNCHANGED <<nict, nist, user, response, Waiting, timerE.length>>
        /\ timerE'.left = Less(timerE.left, Waiting)
        /\ timerF' = Less(timerF, Waiting) /\ timerJ' = Less(timerJ, nist = "completed")
    BY DEF Tick, Waiting, TypeOK
  <1>5. Waiting => timerE'.left = timerE.left - 1 /\ timerF' = timerF - 1
    BY <1>1, <1>4 DEF Tick, Pending, Less
  <1>6. nist = "completed" => timerJ' = timerJ - 1
    BY <1>1, <1>4 DEF Tick, Pending, Less
  <1>7. StartInv'
    BY <1>2, <1>3, <1>1, <1>4 DEF StartInv, Arrives, Less, Waiting
  <1>8. Waiting => /\ UNCHANGED NextResend
                   /\ AgeAtAnswer' \in Int
                   /\ AgeAtAnswer' = IF nist = "completed" THEN AgeAtAnswer ELSE AgeAtAnswer + 1
    <2>1. Waiting => UNCHANGED NextResend
      BY <1>1, <1>5 DEF NextResend
    <2>2. nist' = nist
      BY <1>4
    <2>3. Waiting /\ nist = "completed" => AgeAtAnswer' = AgeAtAnswer /\ AgeAtAnswer \in Int
      BY <1>1, <1>5, <1>6, <2>2 DEF AgeAtAnswer
    <2>4. Waiting /\ nist # "completed" =>
            AgeAtAnswer' = AgeAtAnswer + 1 /\ AgeAtAnswer \in Int
      BY <1>1, <1>5, <2>2, NumbersOK DEF AgeAtAnswer
    <2> QED
      BY <2>1, <2>3, <2>4
  <1>9. ResendInv'
    <2>1. CASE ~Waiting
      BY <1>4, <2>1 DEF ResendInv, Waiting
    <2>2. CASE Waiting
      <3>1. AgeAtAnswer' >= AgeAtAnswer /\ AgeAtAnswer \in Int
        BY <1>1, <1>8, <2>2 DEF AgeAtAnswer
      <3>2. Arrives("1xx")' =>
              Arrives("1xx") /\ Life - timerF' + wire'["1xx"] = Life - timerF + wire["1xx"]
        BY <1>1, <1>2, <1>3, <1>5, <2>2 DEF Arrives
      <3>3. Arrives("1xx")' => Life - timerF' + wire'["1xx"] <= AgeAtAnswer' + Delay
        BY <1>1, <1>2, <1>8, <2>2, <3>1, <3>2 DEF ResendInv
      <3>4. nict = "proceeding" =>
              \E r \in Nat : r <= AgeAtAnswer' + Delay /\ NextResend' + r \in MultiplesOf(T2)
        BY <1>8, <2>2, <3>1 DEF ResendInv
      <3> QED
        BY <1>4, <1>8, <2>2, <3>3, <3>4 DEF ResendInv
    <2> QED
      BY <2>1, <2>2
  <1>10. ForgetInv'
    <2>1. Arrives("request")' => Arrives("request") /\ wire'["request"] = wire["request"] - 1
      BY <1>1, <1>2, <1>3 DEF Arrives
    <2>2. timerF = 0 => timerF' = 0
      BY <1>1, <1>4 DEF Less
    <2> QED
      BY <1>1, <1>2, <1>4, <1>5, <1>6, <2>1, <2>2 DEF ForgetInv, ServerOutlivesCopies, Waiting
  <1> QED
    BY <1>7, <1>9, <1>10

LEMMA NictForgetInv ==
    ASSUME ExchangeInv, OutliveInv, Nict
    PROVE  StartInv' /\ ForgetInv'
  <1> USE NumbersOK DEF OutliveInv, ExchangeInv, serverVars
  <1>1. /\ timerF \in Nat /\ timerJ \in Nat /\ "request" \in Message
        /\ wire["request"] \in Int /\ DOMAIN wire = Message
    BY DEF TypeOK, Message
  <1>2. CASE SndRequest
    BY <1>1, <1>2 DEF SndRequest, Ends, StartInv, ForgetInv, ServerOutlivesCopies, Waiting
  <1>3. CASE TimeoutE
    <2>1. nist = "completed" => timerJ > Delay
      BY <1>3, ResendInTime DEF TimeoutE
    <2>2. Arrives("request")' => wire'["request"] = wire["request"] \/ wire'["request"] = Delay
      BY <1>1, <1>3 DEF TimeoutE, Sends
    <2>3. nist = "none" => user # "answered"
      BY <1>3 DEF TimeoutE, ForgetInv, ServerOutlivesCopies
    <2>4. nict' \in {"trying", "proceeding", "terminated"}
      BY <1>3 DEF TimeoutE, Waiting, Ends
    <2>5. Waiting' => timerF' = timerF
      BY <1>3 DEF TimeoutE, Waiting, Ends
    <2>6. Arrives("request")' /\ wire'["request"] = wire["request"] => Arrives("request")
      BY DEF Arrives
    <2> QED
      BY <1>1, <1>3, <2>1, <2>2, <2>3, <2>4, <2>5, <2>6
      DEF TimeoutE, StartInv, ForgetInv, ServerOutlivesCopies
  <1>4. CASE TimeoutF \/ TimeoutK \/ Rcv1xx
    BY <1>4 DEF TimeoutF, TimeoutK, Rcv1xx, Ends, StartInv, ForgetInv, ServerOutlivesCopies,
                Waiting, Arrives
  <1>5. ASSUME NEW a \in Answer, Rcv23456xx(a)
        PROVE  StartInv' /\ ForgetInv'
    BY <1>5 DEF Rcv23456xx, StartInv, ForgetInv, ServerOutlivesCopies, Waiting, Arrives
  <1> QED
    BY <1>2, <1>3, <1>4, <1>5 DEF Nict

LEMMA NistForgetInv ==
    ASSUME ExchangeInv, OutliveInv, Nist
    PROVE  StartInv' /\ ForgetInv'
  <1> USE NumbersOK DEF OutliveInv, ExchangeInv
  <1>1. /\ timerF \in 0..Life /\ timerJ \in 0..Life
        /\ wire["request"] \in -1..Delay /\ "request" \in Message
    BY DEF TypeOK, Message
  <1>2. UNCHANGED <<nict, timerF, timerE>>
    BY DEF Nist, RcvRequest, RcvRequestAgain, Snd1xx, Snd23456xx, TimeoutJ, clientVars
  <1>3. wire'["request"] = wire["request"]
    <2>1. response # "request" /\ fifo # "request"
      BY NamesOK DEF TypeOK, Response
    <2> QED
      BY <1>1, <2>1, OthersStay
      DEF Nist, RcvRequest, RcvRequestAgain, Snd1xx, Snd23456xx, TimeoutJ
  <1>4. StartInv'
    BY <1>2, <1>3
    DEF StartInv, Arrives, Nist, RcvRequest, RcvRequestAgain, Snd1xx, Snd23456xx, TimeoutJ
  <1>5. CASE RcvRequest
    BY <1>4, <1>5 DEF RcvRequest, ForgetInv, ServerOutlivesCopies
  <1>6. CASE RcvRequestAgain
    BY <1>2, <1>3, <1>4, <1>6
    DEF RcvRequestAgain, Lost, ForgetInv, ServerOutlivesCopies, Waiting, Arrives
  <1>7. CASE Snd1xx
    BY <1>4, <1>7 DEF Snd1xx, Lost, ForgetInv, ServerOutlivesCopies
  <1>8. CASE Snd23456xx
    BY <1>1, <1>2, <1>3, <1>4, <1>8
    DEF Snd23456xx, Lost, ForgetInv, ServerOutlivesCopies, Waiting
  <1>9. CASE TimeoutJ
    BY <1>1, <1>2, <1>3, <1>4, <1>9
    DEF TimeoutJ, ForgetInv, ServerOutlivesCopies, Waiting, Arrives
  <1> QED
    BY <1>5, <1>6, <1>7, <1>8, <1>9 DEF Nist

LEMMA OtherOutliveInv ==
    ASSUME ExchangeInv, OutliveInv, Submit \/ ReleaseUnanswered \/ User \/ UNCHANGED vars
    PROVE  OutliveInv'
  <1> USE DEF OutliveInv
  <1>1. CASE Submit
    BY <1>1 DEF Submit, serverVars, StartInv, ResendInv, ForgetInv, ServerOutlivesCopies,
                Waiting, Arrives
  <1>2. CASE ReleaseUnanswered \/ User \/ UNCHANGED vars
    <2>1. UNCHANGED <<nict, timerE, timerF, timerJ, wire, response>>
      BY <1>2 DEF ReleaseUnanswered, User, Provisional, SendAnswer, vars, clientVars, serverVars
    <2>2. /\ nist' = "completed" <=> nist = "completed"
          /\ nist' # "none" => UNCHANGED nist
          /\ nist # "none" /\ user' = "unasked" => user = "unasked"
      BY <1>2 DEF ReleaseUnanswered, User, Provisional, SendAnswer, vars, serverVars
    <2>3. UNCHANGED AgeAtAnswer
      BY <2>1, <2>2 DEF AgeAtAnswer
    <2>4. UNCHANGED NextResend
      BY <2>1 DEF NextResend
    <2>5. ResendInv'
      BY <2>1, <2>3, <2>4, Zenon DEF ResendInv, Waiting, Arrives
    <2>6. StartInv' /\ ForgetInv'
      BY <1>2, <2>1, <2>2
      DEF ReleaseUnanswered, User, Provisional, SendAnswer, vars, serverVars,
          StartInv, ForgetInv, ServerOutlivesCopies, Waiting, Arrives
    <2> QED
      BY <2>5, <2>6
  <1> QED
    BY <1>1, <1>2

LEMMA OutliveInvHolds == Safety => []OutliveInv
  <1>1. ExchangeInv /\ ExchangeInv' /\ OutliveInv /\ [Next]_vars => OutliveInv'
    <2>1. ASSUME ExchangeInv, ExchangeInv', OutliveInv, Nict \/ Nist
          PROVE  OutliveInv'
      BY <2>1, NictResendInv, NictForgetInv, NistResendInv, NistForgetInv
      DEF OutliveInv, ExchangeInv
    <2> QED
      BY <2>1, TickOutliveInv, OtherOutliveInv DEF Next
  <1> QED
    BY <1>1, InitOutliveInv, ExchangeInvHolds, PTL DEF Safety

\* When timer J lets the server forget a request it answered, no copy of it can
\* arrive any more, for all times in the ratios of osip.h.
THEOREM ServerOutlives == Safety => []ServerOutlivesCopies
  BY OutliveInvHolds, PTL DEF OutliveInv, ForgetInv

-----------------------------------------------------------------------------
(* Refinement *)

LEMMA ClientWaits ==
    ASSUME ExchangeInv, nict \in {"pretrying", "trying", "proceeding"}
    PROVE  Client = "waiting"
  BY DEF ExchangeInv, UserInv, Client

LEMMA NictSimulates ==
    ASSUME ExchangeInv, ExchangeInv', Nict
    PROVE  E!Next \/ UNCHANGED E!exchange
  <1> USE DEF E!exchange
  <1>1. UNCHANGED <<user, given>>
    BY DEF Nict, SndRequest, TimeoutE, TimeoutF, TimeoutK, Rcv1xx, Rcv23456xx, serverVars
  <1>2. ASSUME Ends("error") \/ Ends("timeout"), nict \in {"pretrying", "trying", "proceeding"}
        PROVE  E!Learn
    <2>1. Client = "waiting" /\ Client' \in {"error", "timeout"}
      BY <1>2, ClientWaits DEF Ends, Client
    <2> QED
      BY <1>1, <2>1 DEF E!Learn, E!Failure
  <1>3. ASSUME nict' \in {"trying", "proceeding"}, nict \in {"pretrying", "trying", "proceeding"}
        PROVE  UNCHANGED E!exchange
    <2>1. Client' = "waiting"
      BY <1>3 DEF ExchangeInv, UserInv, Client
    <2> QED
      BY <1>1, <1>3, <2>1, ClientWaits
  <1>4. CASE SndRequest
    BY <1>2, <1>3, <1>4 DEF SndRequest, E!Next
  <1>5. CASE TimeoutE
    BY <1>2, <1>3, <1>5 DEF TimeoutE, Waiting, E!Next
  <1>6. CASE TimeoutF
    BY <1>2, <1>6 DEF TimeoutF, Waiting, E!Next
  <1>7. CASE TimeoutK
    BY <1>1, <1>7 DEF TimeoutK, Client
  <1>8. CASE Rcv1xx
    BY <1>3, <1>8 DEF Rcv1xx, Waiting
  <1>9. ASSUME NEW a \in Answer, Rcv23456xx(a)
        PROVE  E!Next
    <2>1. Client = "waiting"
      BY <1>9, ClientWaits DEF Rcv23456xx, Waiting
    <2>2. Client' = a
      BY <1>9, NamesOK DEF Rcv23456xx, Client
    <2>3. a \in given
      BY <1>9 DEF Rcv23456xx, ExchangeInv, GivenInv
    <2> QED
      BY <1>1, <2>1, <2>2, <2>3 DEF E!Next, E!Learn
  <1> QED
    BY <1>4, <1>5, <1>6, <1>7, <1>8, <1>9 DEF Nict

LEMMA NistSimulates ==
    ASSUME ExchangeInv, ServerOutlivesCopies, Nist
    PROVE  E!Next \/ UNCHANGED E!exchange
  <1> USE DEF E!exchange, ExchangeInv, UserInv
  <1>1. UNCHANGED <<Client, given>>
    BY DEF Nist, RcvRequest, RcvRequestAgain, Snd1xx, Snd23456xx, TimeoutJ, clientVars, Client
  <1>2. CASE RcvRequest
    <2>1. Client # "idle"
      BY <1>2, NamesOK DEF RcvRequest, Client, TypeOK
    <2>2. user \in {"unasked", "lost"} /\ user' = "asked"
      BY <1>2 DEF RcvRequest, ServerOutlivesCopies, TypeOK
    <2> QED
      BY <1>1, <2>1, <2>2 DEF E!Next, E!Ask
  <1>3. CASE RcvRequestAgain \/ Snd1xx \/ Snd23456xx
    <2>1. user \in {"asked", "answered"}
      BY <1>3 DEF RcvRequestAgain, Snd1xx, Snd23456xx
    <2>2. user' \in {user, "lost"}
      BY <1>3 DEF RcvRequestAgain, Snd1xx, Snd23456xx, Lost
    <2> QED
      BY <1>1, <2>1, <2>2 DEF E!Next, E!Lose
  <1>4. CASE TimeoutJ
    BY <1>1, <1>4 DEF TimeoutJ
  <1> QED
    BY <1>2, <1>3, <1>4 DEF Nist

LEMMA OtherSimulates ==
    ASSUME ExchangeInv, Submit \/ ReleaseUnanswered \/ User \/ Tick \/ UNCHANGED vars
    PROVE  E!Next \/ UNCHANGED E!exchange
  <1> USE DEF E!exchange, clientVars, serverVars, Client
  <1>1. CASE Submit
    BY <1>1 DEF Submit, E!Next, E!Request, ExchangeInv, UserInv
  <1>2. CASE ReleaseUnanswered \/ Provisional \/ Tick \/ UNCHANGED vars
    BY <1>2 DEF ReleaseUnanswered, Provisional, Tick, vars, ExchangeInv, UserInv
  <1>3. ASSUME NEW a \in Answer, SendAnswer(a)
        PROVE  E!Next
    BY <1>3 DEF SendAnswer, E!Next, E!Give
  <1> QED
    BY <1>1, <1>2, <1>3 DEF User

\* The two transactions do the steps of an Exchange and no others: this is the
\* safety part of ImplementsExchange, for all responses and all times in the ratios
\* of osip.h.  The server is asked once because it outlives the copies.
THEOREM SimulatesExchange ==
    Safety => E!Init /\ [][E!Next]_(E!exchange)
  <1>1. Init => E!Init
    BY DEF Init, E!Init, Client
  <1>2. /\ ExchangeInv /\ ExchangeInv'
        /\ ServerOutlivesCopies
        /\ [Next]_vars
        => [E!Next]_(E!exchange)
    BY NictSimulates, NistSimulates, OtherSimulates DEF Next
  <1> QED
    BY <1>1, <1>2, ExchangeInvHolds, ServerOutlives, PTL DEF Safety
=============================================================================
