------------------------- MODULE RegistrationProofs --------------------------
(***************************************************************************)
(* Registration for any number of addresses and any times within its       *)
(* assumptions: the types, what a registration that rests may count on,    *)
(* and how attempts are spaced.                                            *)
(***************************************************************************)
EXTENDS Registration, TLAPS

\* Only the event thread counts a retry, and only when there is one left; what the
\* stack thread does in between can but set the count back.
RetryLeft == pc \in {"credentials", "count"} => reg.retry < MaxRetry

\* What was received is there until its callback has run.
ReplyThere == tr = "answered" => wire.kind = "reply"

IInv == TypeOK /\ RetryLeft /\ ReplyThere

Reg == [period: Time, expire: Time, retry: 0..MaxRetry, failover: 0..MaxFailover,
        step: Step, deletion: 0..LoopGuard + 2]

LEMMA ConstantTypes ==
  /\ Expire \in Time /\ RetryAfter \in Time /\ MinExpires \in Time /\ Grants \subseteq Time
  /\ LoopGuard \in Nat /\ MaxRetry \in Nat /\ MaxFailover \in Nat /\ NonceLife \in Nat
  /\ MaxMapping \in Nat /\ MaxLate \in Nat /\ MaxFailover < RetryAfter
  BY RegistrationAssumption DEF Time

LEMMA InitIInv == Init => IInv
  BY ConstantTypes
  DEF Init, IInv, TypeOK, RetryLeft, ReplyThere, Step, Final, Time, Contact, Nothing

LEMMA ForgottenType == ASSUME NEW r \in Reg PROVE Forgotten(r) \in Reg /\ Forgotten(r).retry = r.retry
  BY ConstantTypes DEF Forgotten, Reg

LEMMA CallbackType ==
  ASSUME TypeOK, tr = "answered", wire.kind = "reply"
  PROVE  /\ [Checked(Deleted(Granted(reg))) EXCEPT !.retry = 0, !.failover = 0] \in Reg
         /\ Checked(reg) \in Reg /\ Checked(reg).retry = reg.retry
<1>1. /\ reg \in Reg
      /\ wire.is.expires \in Nat /\ wire.is.listed \in Nat /\ wire.is.seen \in Contact
  BY DEF TypeOK, Reply, Reg
<1>2. ASSUME NEW p \in Time, NEW e \in Nat
      PROVE  Shortened(p, e) \in Time /\ Listed(p, e) \in Time
  BY <1>2 DEF Shortened, Listed, Time
<1>3. Granted(reg) \in Reg
  <2>1. Shortened(reg.period, wire.is.expires) \in Time
    BY <1>1, <1>2 DEF Reg
  <2>2. Listed(Shortened(reg.period, wire.is.expires), wire.is.listed) \in Time
    BY <1>1, <1>2, <2>1
  <2> QED
    BY <1>1, <2>2 DEF Granted, Reg
<1>4. ASSUME NEW r \in Reg PROVE Deleted(r) \in Reg
  BY <1>4 DEF Deleted, Reg, Step
<1>5. ASSUME NEW r \in Reg PROVE Checked(r) \in Reg /\ Checked(r).retry = r.retry
  <2>1. 1 \in 0..LoopGuard + 2 /\ "DELETIONREQUIRED" \in Step
    BY ConstantTypes DEF Step
  <2>2. /\ [r EXCEPT !.step = "DELETIONREQUIRED", !.deletion = 1] \in Reg
        /\ [r EXCEPT !.step = "DELETIONREQUIRED", !.deletion = 1].retry = r.retry
    BY <1>5, <2>1 DEF Reg
  <2> QED
    BY <1>5, <2>2 DEF Checked, ContactIsModified
<1>6. ASSUME NEW r \in Reg PROVE [r EXCEPT !.retry = 0, !.failover = 0] \in Reg
  <2>1. 0 \in 0..MaxRetry /\ 0 \in 0..MaxFailover
    BY ConstantTypes
  <2> QED
    BY <1>6, <2>1 DEF Reg
<1> QED
  BY <1>1, <1>3, <1>4, <1>5, <1>6

\* The parts of TypeOK an action leaves alone, for those that touch few variables.
LEMMA BuildType ==
  ASSUME TypeOK, Build
  PROVE  /\ reg' \in Reg /\ reg'.retry = reg.retry
         /\ request' \in [contact: Contact, remove: BOOLEAN, auth: BOOLEAN, expires: Time]
         /\ tr' = "pretrying" /\ last' = "none" /\ age' = 0
<1> DEFINE expire     == IF last = "423" THEN MinExpires ELSE reg.expire
           masquerade == reg.step = "MASQUERADINGPROCEEDING"
<1>1. reg \in Reg /\ expire \in Time /\ "DONE" \in Step /\ MinExpires \in Time
  BY ConstantTypes DEF TypeOK, Reg, Step
<1>2. reg' = [reg EXCEPT !.expire = expire,
                         !.period = IF last = "423" THEN MinExpires ELSE @,
                         !.step = IF masquerade THEN "DONE" ELSE @]
  BY DEF Build
<1>3. reg' \in Reg /\ reg'.retry = reg.retry
  BY <1>1, <1>2 DEF Reg
<1>4. request' = [contact |-> IF masquerade THEN learnt ELSE request.contact,
                  remove  |-> \/ reg.step = "DELETIONPROCEEDING"
                              \/ request.remove /\ ~masquerade,
                  auth    |-> last # "none",
                  expires |-> expire]
  BY DEF Build
<1>5. request' \in [contact: Contact, remove: BOOLEAN, auth: BOOLEAN, expires: Time]
  BY <1>1, <1>4 DEF TypeOK
<1> QED
  BY <1>3, <1>5 DEF Build

LEMMA AutomaticActionIInv == IInv /\ AutomaticAction => IInv'
<1> SUFFICES ASSUME IInv, AutomaticAction PROVE IInv'
  OBVIOUS
<1> USE ConstantTypes DEF StackOwned, networkVars
<1>1. CASE Decide
  <2>1. /\ reg' \in Reg /\ reg'.retry = reg.retry
    BY <1>1 DEF Decide, IInv, TypeOK, Reg, Step
  <2>2. Rule \in {"idle", "send", "credentials", "delete", "masquerade"}
        /\ (Rule = "credentials" => reg.retry < MaxRetry)
    BY DEF Rule
  <2> QED
    BY <1>1, <2>1, <2>2 DEF Decide, IInv, TypeOK, RetryLeft, ReplyThere, Reg
<1>2. CASE Attempt
  <2>1. CASE BuildFails
    BY <1>2, <2>1 DEF Attempt, BuildFails, IInv, TypeOK, RetryLeft, ReplyThere
  <2>2. CASE Build
    BY <1>2, <2>2, BuildType DEF Attempt, IInv, TypeOK, RetryLeft, ReplyThere, Reg
  <2> QED
    BY <1>2, <2>1, <2>2 DEF Attempt, SendRegister
<1>3. CASE AttemptRefused
  BY <1>3 DEF AttemptRefused, IInv, TypeOK, RetryLeft, ReplyThere
<1>4. CASE Conclude
  <2>1. reg' \in Reg
    BY <1>4 DEF Conclude, IInv, TypeOK, RetryLeft, Reg, Step
  <2> QED
    BY <1>4, <2>1 DEF Conclude, IInv, TypeOK, RetryLeft, ReplyThere, Reg
<1>5. CASE Forget
  <2>1. reg' \in Reg
    BY <1>5, ForgottenType DEF Forget, IInv, TypeOK, Reg
  <2> QED
    BY <1>5, <2>1 DEF Forget, IInv, TypeOK, RetryLeft, ReplyThere, Reg
<1> QED
  BY <1>1, <1>2, <1>3, <1>4, <1>5 DEF AutomaticAction

LEMMA StackIInv == IInv /\ Stack => IInv'
<1> SUFFICES ASSUME IInv, Stack PROVE IInv'
  OBVIOUS
<1> USE ConstantTypes DEF JrOwned, networkVars
<1>1. CASE NictSnd
  BY <1>1 DEF NictSnd, IInv, TypeOK, RetryLeft, ReplyThere
<1>2. CASE TransportError
  <2>1. /\ reg' \in Reg /\ reg'.retry = reg.retry /\ age' \in Nat
    <3>1. Least(reg.failover + 1, MaxFailover) \in 0..MaxFailover
      BY DEF IInv, TypeOK, Least
    <3> QED
      BY <1>2, <3>1 DEF TransportError, IInv, TypeOK, Reg, Time
  <2> QED
    BY <1>2, <2>1 DEF TransportError, IInv, TypeOK, RetryLeft, ReplyThere, Nothing, Reg
<1>3. CASE Rcv1xx
  BY <1>3 DEF Rcv1xx, IInv, TypeOK, RetryLeft, ReplyThere
<1>4. CASE RcvFinal
  <2>1. wire.is \in Reply
    BY <1>4 DEF RcvFinal, IInv, TypeOK
  <2> QED
    BY <1>4, <2>1 DEF RcvFinal, IInv, TypeOK, RetryLeft, ReplyThere, Reply
<1>5. CASE Callback
  <2>1. reg' \in Reg /\ (reg'.retry = 0 \/ reg'.retry = reg.retry)
    <3>1. CASE last = "2xx"
      <4>1. reg' = [Checked(Deleted(Granted(reg))) EXCEPT !.retry = 0, !.failover = 0]
        BY <1>5, <3>1 DEF Callback
      <4> QED
        BY <1>5, <4>1, CallbackType DEF Callback, IInv, ReplyThere, Reg
    <3>2. CASE last # "2xx"
      BY <1>5, <3>2, CallbackType DEF Callback, IInv, ReplyThere
    <3> QED
      BY <3>1, <3>2
  <2> QED
    BY <1>5, <2>1 DEF Callback, IInv, TypeOK, RetryLeft, ReplyThere, Nothing, Reg
<1>6. CASE TimeoutF
  BY <1>6 DEF TimeoutF, IInv, TypeOK, RetryLeft, ReplyThere, Nothing
<1> QED
  BY <1>1, <1>2, <1>3, <1>4, <1>5, <1>6 DEF Stack

LEMMA RegistrarIInv == IInv /\ Registrar => IInv'
<1> SUFFICES ASSUME IInv, Registrar PROVE IInv'
  OBVIOUS
<1> USE ConstantTypes
<1>1. /\ UNCHANGED ClientOwned
      /\ tr # "answered"
  BY DEF Registrar, ClientOwned, IInv, ReplyThere
<1>2. bound' \in [Contact -> Nat]
  <2>1. CASE UNCHANGED bound
    BY <2>1 DEF IInv, TypeOK
  <2>2. CASE Accept
    <3>1. \A limit \in Grants : Least(limit, request.expires) \in Nat
      BY DEF IInv, TypeOK, Least, Time
    <3> QED
      BY <2>1, <2>2, <3>1 DEF Accept, IInv, TypeOK
  <2> QED
    BY <2>1, <2>2 DEF Registrar
<1>3. \A code \in Final, expires \in Nat : Answer(code, expires) =>
        wire' \in [kind: {"reply"}, is: Reply]
  BY <1>2 DEF Answer, Reply, IInv, TypeOK
<1>4. \E code \in Final, expires \in Nat : Answer(code, expires)
  <2>1. CASE Accept
    <3>1. \A limit \in Grants : Least(limit, request.expires) \in Nat
      BY DEF IInv, TypeOK, Least, Time
    <3> QED
      BY <2>1, <3>1 DEF Accept, Final
  <2> QED
    BY <2>1 DEF Registrar, Final
<1> QED
  BY <1>1, <1>2, <1>3, <1>4 DEF ClientOwned, IInv, TypeOK, RetryLeft, ReplyThere

LEMMA TickIInv == IInv /\ Tick => IInv'
<1> SUFFICES ASSUME IInv, Tick PROVE IInv'
  OBVIOUS
<1> USE ConstantTypes
<1>1. reg' \in Reg /\ reg'.retry = reg.retry
  <2>1. \A k \in 0..LoopGuard + 2 : (IF k = 0 THEN 0 ELSE Least(k + 1, LoopGuard + 2)) \in 0..LoopGuard + 2
    BY DEF Least
  <2> QED
    BY <2>1 DEF Tick, IInv, TypeOK, Reg
<1>2. nonce' \in 0..NonceLife + 1
  BY DEF Tick, IInv, TypeOK, Least
<1>3. bound' \in [Contact -> Nat]
  BY DEF Tick, IInv, TypeOK
<1>4. age' \in Nat /\ late' \in 0..MaxLate
  BY DEF Tick, IInv, TypeOK
<1> QED
  BY <1>1, <1>2, <1>3, <1>4 DEF Tick, IInv, TypeOK, RetryLeft, ReplyThere, Reg

LEMMA NextIInv == IInv /\ [Next]_vars => IInv'
<1> SUFFICES ASSUME IInv, [Next]_vars PROVE IInv'
  OBVIOUS
<1>1. CASE RegisterUa
  BY <1>1 DEF RegisterUa, eventVars, networkVars, IInv, TypeOK, RetryLeft, ReplyThere
<1>2. CASE UpOrDown
  BY <1>2 DEF UpOrDown, IInv, TypeOK, RetryLeft, ReplyThere
<1>3. CASE Remap
  BY <1>3, ConstantTypes DEF Remap, IInv, TypeOK, RetryLeft, ReplyThere, Contact
<1>4. CASE UNCHANGED vars
  BY <1>4 DEF vars, IInv, TypeOK, RetryLeft, ReplyThere
<1> QED
  BY <1>1, <1>2, <1>3, <1>4, AutomaticActionIInv, StackIInv, RegistrarIInv, TickIInv DEF Next

\* The registration, its transaction and the messages keep their types; above all the
\* retries that eXosip_automatic_action counts never exceed MaxRetry, though they are
\* tested, made and counted in three steps that take no lock, and reset by the other
\* thread in between.
THEOREM RegistrationTypeOK == Safety => []TypeOK
<1>1. Init => IInv
  BY InitIInv
<1>2. IInv /\ [Next]_vars => IInv'
  BY NextIInv
<1>3. IInv => TypeOK
  BY DEF IInv
<1> QED
  BY <1>1, <1>2, <1>3, PTL DEF Safety
-----------------------------------------------------------------------------
(* What the times and the steps of a registration rest on *)

Waiting == tr \in {"pretrying", "trying", "proceeding", "answered"}

\* one message at a time, and what last_response can be in each state
WireInv ==
    /\ wire.kind # "none" => tr \in {"trying", "proceeding", "answered"}
    /\ tr = "answered" => wire.kind = "reply" /\ last = wire.is.code
    /\ tr \in {"none", "pretrying"} => last = "none"
    /\ tr \in {"trying", "proceeding"} => last \in {"none", "1xx"}
    /\ tr = "none" => ~request.remove

\* what is asked for only grows, and by a 423
AskedInv ==
    /\ reg.expire >= Expire /\ request.expires >= Expire
    /\ last \in {"423", "423bare"} => MinExpires > Expire
    /\ wire.kind = "reply" /\ wire.is.code \in {"423", "423bare"} => MinExpires > Expire

\* what waits for its response is not older than timer F
AgeInv ==
    /\ tr = "pretrying" => age = 0
    /\ tr \in {"trying", "proceeding", "answered"} => age <= TimerF

\* What rests is refreshed when its period plans it, but for what a pass is late; a
\* 2xx may have come after that time.
RefreshAge(period) == Greatest(Planned(period) + 1, TimerF)

RestInv == tr = "over" /\ last = "2xx" => age <= RefreshAge(reg.period) + late

\* the request on the way, or the last one, was for a binding and was granted
ReplyGrants == wire.kind = "reply" /\ wire.is.code = "2xx" /\ ~request.remove
LastGranted == tr \in {"answered", "over"} /\ last = "2xx" /\ ~request.remove

\* times that are all longer than the refresh behind RefreshAfter can be late
LongTimes == \A time \in Grants \cup {Expire} :
                Greatest(RefreshAfter + 1, TimerF) + MaxLate < time

BoundInv ==
    LongTimes /\ (ReplyGrants \/ LastGranted) =>
        bound[request.contact] + age > Greatest(RefreshAfter + 1, TimerF) + MaxLate

Honest(time, slack) == \E c \in Contact : time <= age + bound[c] + slack

HonestInv ==
    /\ ReplyGrants =>
         /\ 0 < wire.is.expires /\ wire.is.expires <= age + bound[request.contact]
         /\ Honest(wire.is.listed, 0)
    /\ tr = "over" /\ LastGranted /\ reg.step = "DONE" => Honest(reg.period, Slack)

TimeParts == WireInv /\ AskedInv /\ AgeInv /\ RestInv /\ BoundInv /\ HonestInv

TimesInv == IInv /\ TimeParts

\* with this period no refresh is due before RetryAfter
LongPlanned == RetryAfter <= Planned(reg.period)

\* What a pass has decided upon is still true when it acts, although it takes no lock;
\* only a 2xx can have made the period longer than the one it was decided for.
PassInv ==
    /\ pc = "send" /\ LongPlanned => last = "2xx" \/ (tr = "over" /\ age > RetryAfter)
    /\ pc = "credentials" =>
         tr \in {"answered", "over"} /\ last \in {"401", "423", "423bare", "606"}
    /\ pc \in {"delete", "masquerade"} => last = "2xx"

RetryInv == TimesInv /\ PassInv

LEMMA ConstantTimes ==
  /\ TimerF <= RetryAfter
  /\ \A time \in Grants \cup {Expire} : time \in Time
  /\ {TimerF, RetryAfter, RefreshAfter, MaxLate, Slack, Margin, Expire, MinExpires} \subseteq Nat
  /\ Expire > 0 /\ MinExpires > 0 /\ Tenth \in Nat /\ Tenth > 0
BY RegistrationAssumption DEF Time

\* the types the arithmetic below needs
LEMMA Numbers ==
  ASSUME TypeOK
  PROVE  /\ reg.period \in Nat /\ reg.expire \in Nat /\ age \in Nat /\ late \in 0..MaxLate
         /\ request.expires \in Nat /\ request.expires > 0 /\ request.contact \in Contact
         /\ \A c \in Contact : bound[c] \in Nat
         /\ wire.kind = "reply" => /\ wire.is.expires \in Nat /\ wire.is.listed \in Nat
                                   /\ wire.is.code \in Final
<1>1. wire.kind = "reply" => wire.is \in Reply
  BY DEF TypeOK
<1> QED
  BY <1>1, ConstantTimes DEF TypeOK, Reply, Time

LEMMA LeastOK ==
  ASSUME NEW a \in Int, NEW b \in Int
  PROVE  Least(a, b) \in {a, b} /\ Least(a, b) <= a /\ Least(a, b) <= b
BY DEF Least

LEMMA PlannedOK ==
  ASSUME NEW period \in Nat
  PROVE  /\ Planned(period) \in Int /\ Planned(period) <= RefreshAfter
         /\ \A time \in Nat :
              time > Planned(period) <=> \/ time > RefreshAfter \/ time > period - Margin
                                         \/ time > period - (period \div Tenth)
<1> DEFINE part == period \div Tenth
<1>1. part \in Int
  BY ConstantTimes
<1>2. Planned(period) = Least(RefreshAfter, Least(period - Margin, period - part))
  BY DEF Planned
<1> HIDE DEF part
<1>3. /\ Planned(period) \in Int /\ Planned(period) <= RefreshAfter
      /\ \A time \in Nat :
           time > Planned(period) <=> \/ time > RefreshAfter \/ time > period - Margin
                                      \/ time > period - part
  BY <1>1, <1>2, ConstantTimes DEF Least
<1> QED
  BY <1>3 DEF part

\* A pass refreshes what is older than planned.
LEMMA DueByPlan ==
  ASSUME TypeOK
  PROVE  RefreshDue <=> age > Planned(reg.period)
BY PlannedOK, Numbers DEF RefreshDue

LEMMA RefreshAgeOK ==
  ASSUME NEW period \in Nat
  PROVE  /\ RefreshAge(period) \in Nat
         /\ TimerF <= RefreshAge(period) /\ Planned(period) + 1 <= RefreshAge(period)
         /\ RefreshAge(period) <= Greatest(RefreshAfter + 1, TimerF)
         /\ Greatest(RefreshAfter + 1, TimerF) \in Nat
BY PlannedOK, ConstantTimes DEF RefreshAge, Greatest

LEMMA InitTimesInv == Init => TimesInv
<1> SUFFICES ASSUME Init PROVE TimeParts
  BY InitIInv DEF TimesInv
<1> QED
  BY ConstantTimes
  DEF Init, TimeParts, WireInv, AskedInv, AgeInv, RestInv, BoundInv, HonestInv, ReplyGrants,
      LastGranted, Nothing

\* Steps of the event thread that send nothing, and the network's.
LEMMA QuietStep ==
  ASSUME TimeParts, UNCHANGED <<tr, last, age, request, wire, bound, late>>,
         reg'.period = reg.period, reg'.expire = reg.expire,
         reg'.step = "DONE" => reg.step = "DONE"
  PROVE  TimeParts'
<1>1. WireInv' /\ AskedInv' /\ AgeInv' /\ RestInv'
  BY DEF TimeParts, WireInv, AskedInv, AgeInv, RestInv, RefreshAge, Planned
<1>2. UNCHANGED <<ReplyGrants, LastGranted>>
  BY DEF ReplyGrants, LastGranted
<1>3. \A time, slack : Honest(time, slack) => Honest(time, slack)'
  BY DEF Honest
<1>4. BoundInv' /\ HonestInv'
  BY <1>2, <1>3 DEF TimeParts, BoundInv, HonestInv
<1> QED
  BY <1>1, <1>4 DEF TimeParts

LEMMA EventThreadTimes ==
  ASSUME TimesInv, Decide \/ AttemptRefused \/ Conclude \/ Forget \/ UpOrDown \/ Remap
                   \/ UNCHANGED vars
  PROVE  TimeParts'
<1> USE DEF StackOwned, networkVars, TimesInv
<1>1. CASE Decide \/ Conclude
  <2>1. /\ reg'.period = reg.period /\ reg'.expire = reg.expire
        /\ reg'.step = "DONE" => reg.step = "DONE"
    BY <1>1 DEF Decide, Conclude, IInv, TypeOK
  <2> QED
    BY <1>1, <2>1, QuietStep DEF Decide, Conclude
<1>2. CASE Forget
  <2>1. /\ reg'.period = reg.period /\ reg'.expire = reg.expire /\ reg'.step = reg.step
    BY <1>2 DEF Forget, Forgotten, IInv, TypeOK
  <2> QED
    BY <1>2, <2>1, QuietStep DEF Forget
<1>3. CASE AttemptRefused \/ UpOrDown \/ Remap \/ UNCHANGED vars
  BY <1>3, QuietStep DEF AttemptRefused, UpOrDown, Remap, vars
<1> QED
  BY <1>1, <1>2, <1>3

\* A new request takes what is asked from the registration or from a 423.
LEMMA AttemptTimes ==
  ASSUME TimesInv, Attempt
  PROVE  TimeParts'
<1> USE DEF TimesInv, TimeParts, StackOwned, networkVars
<1>1. CASE BuildFails
  <2>1. tr = "over" /\ tr' = "lost" /\ UNCHANGED <<reg, last, age, request, wire>>
    BY <1>1 DEF Attempt, SendRegister, BuildFails
  <2>2. wire.kind # "reply"
    BY <2>1 DEF WireInv
  <2> QED
    BY <2>1, <2>2
    DEF WireInv, AskedInv, AgeInv, RestInv, BoundInv, HonestInv, ReplyGrants, LastGranted
<1>2. CASE Build
  <2>1. tr' = "pretrying" /\ last' = "none" /\ age' = 0
    BY <1>2 DEF Build
  <2>2. UNCHANGED <<wire, bound>> /\ wire.kind = "none"
    BY <1>2, Numbers DEF Attempt, SendRegister, WireInv, IInv, TypeOK
  <2>3. reg'.expire >= Expire /\ request'.expires >= Expire
    <3>1. reg'.expire = IF last = "423" THEN MinExpires ELSE reg.expire
      BY <1>2 DEF Build, IInv, TypeOK
    <3>2. request'.expires = IF last = "423" THEN MinExpires ELSE reg.expire
      BY <1>2 DEF Build
    <3> QED
      BY <3>1, <3>2, ConstantTimes DEF AskedInv
  <2> QED
    BY <2>1, <2>2, <2>3
    DEF WireInv, AskedInv, AgeInv, RestInv, BoundInv, HonestInv, ReplyGrants, LastGranted
<1> QED
  BY <1>1, <1>2 DEF Attempt, SendRegister

LEMMA NothingIsNoMessage == Nothing.kind = "none"
BY DEF Nothing

\* Steps of the stack thread that see no response.
LEMMA StackTimes ==
  ASSUME TimesInv, RegisterUa \/ NictSnd \/ Rcv1xx \/ TimeoutF \/ TransportError
  PROVE  TimeParts'
<1> USE NothingIsNoMessage
    DEF TimesInv, TimeParts, JrOwned, networkVars, eventVars, ReplyGrants, LastGranted
<1>1. CASE RegisterUa
  BY <1>1 DEF RegisterUa, WireInv, AskedInv, AgeInv, RestInv, BoundInv, HonestInv
<1>2. CASE NictSnd
  BY <1>2, ConstantTimes DEF NictSnd, WireInv, AskedInv, AgeInv, RestInv, BoundInv, HonestInv
<1>3. CASE Rcv1xx
  BY <1>3 DEF Rcv1xx, WireInv, AskedInv, AgeInv, RestInv, BoundInv, HonestInv
<1>4. CASE TimeoutF
  BY <1>4 DEF TimeoutF, WireInv, AskedInv, AgeInv, RestInv, BoundInv, HonestInv
<1>5. CASE TransportError
  <2>1. reg'.expire = reg.expire
    BY <1>5 DEF TransportError, IInv, TypeOK
  <2>2. last # "2xx" /\ last \notin {"423", "423bare"}
    BY <1>5 DEF TransportError, WireInv
  <2>3. tr' = "over" /\ wire'.kind = "none" /\ UNCHANGED <<last, request, late>>
    BY <1>5 DEF TransportError
  <2> QED
    BY <2>1, <2>2, <2>3 DEF WireInv, AskedInv, AgeInv, RestInv, BoundInv, HonestInv
<1> QED
  BY <1>1, <1>2, <1>3, <1>4, <1>5

LEMMA RcvFinalTimes ==
  ASSUME TimesInv, RcvFinal
  PROVE  TimeParts'
<1> USE DEF TimesInv, TimeParts, JrOwned, networkVars
<1>1. /\ tr \in {"trying", "proceeding"} /\ tr' = "answered" /\ wire.kind = "reply"
      /\ last' = wire.is.code
      /\ UNCHANGED <<reg, age, wire, request, bound, late>>
  BY DEF RcvFinal
<1>2. LastGranted' => ReplyGrants
  BY <1>1 DEF LastGranted, ReplyGrants
<1>3. UNCHANGED ReplyGrants /\ \A time, slack : Honest(time, slack) => Honest(time, slack)'
  BY <1>1 DEF ReplyGrants, Honest
<1> QED
  BY <1>1, <1>2, <1>3 DEF WireInv, AskedInv, AgeInv, RestInv, BoundInv, HonestInv

\* The period after a response is at most what its header and its contacts said.
LEMMA GrantedTimes ==
  ASSUME NEW period \in Nat, NEW expires \in Nat, NEW listed \in Nat, expires > 0
  PROVE  LET granted == Listed(Shortened(period, expires), listed)
         IN  granted \in Nat /\ (granted <= listed \/ granted <= expires + Slack)
BY ConstantTimes DEF Listed, Shortened

LEMMA CallbackTimes ==
  ASSUME TimesInv, Callback
  PROVE  TimeParts'
<1> USE DEF TimesInv, TimeParts, JrOwned, networkVars
<1>1. /\ tr = "answered" /\ tr' = "over" /\ wire'.kind = "none"
      /\ wire.kind = "reply" /\ last = wire.is.code
      /\ UNCHANGED <<last, age, request, bound, late>>
  BY NothingIsNoMessage DEF Callback, WireInv
<1>2. RestInv'
  <2>1. IInv'
    BY StackIInv DEF Stack
  <2>2. reg'.period \in Nat
    BY <2>1 DEF IInv, TypeOK, Time
  <2>3. RefreshAge(reg'.period) \in Nat /\ TimerF <= RefreshAge(reg'.period)
    BY <2>2, RefreshAgeOK
  <2>4. age <= RefreshAge(reg'.period) + late
    BY <1>1, <2>3, Numbers, ConstantTimes DEF AgeInv, IInv
  <2> QED
    BY <1>1, <2>4 DEF RestInv, RefreshAge, Planned
<1>3. reg'.expire = reg.expire
  BY DEF Callback, Checked, Deleted, Granted, ContactIsModified, IInv, TypeOK
<1>4. WireInv' /\ AskedInv' /\ AgeInv' /\ BoundInv'
  BY <1>1, <1>3
  DEF WireInv, AskedInv, AgeInv, BoundInv, ReplyGrants, LastGranted
<1>5. ASSUME LastGranted', reg'.step = "DONE"
      PROVE  Honest(reg.period, Slack)'
  <2>1. last = "2xx" /\ ReplyGrants
    BY <1>1, <1>5 DEF LastGranted, ReplyGrants
  <2>2. reg.step = "DONE"
    BY <1>5, <2>1
    DEF Callback, Checked, Deleted, Granted, ContactIsModified, PastMasquerading, IInv, TypeOK, Step
  <2>3. reg'.period = Listed(Shortened(reg.period, wire.is.expires), wire.is.listed)
    BY <2>1, <2>2
    DEF Callback, Checked, Deleted, Granted, ContactIsModified, IInv, TypeOK
  <2>4. /\ 0 < wire.is.expires /\ wire.is.expires <= age + bound[request.contact]
        /\ \E c \in Contact : wire.is.listed <= age + bound[c] + 0
    BY <2>1 DEF HonestInv, Honest
  <2>5. PICK c \in Contact : wire.is.listed <= age + bound[c]
    BY <2>4, Numbers DEF IInv
  <2>6. \/ reg'.period <= age + bound[c] + Slack
        \/ reg'.period <= age + bound[request.contact] + Slack
    <3>1. /\ reg.period \in Nat /\ wire.is.expires \in Nat /\ wire.is.listed \in Nat
          /\ age \in Nat /\ bound[c] \in Nat /\ bound[request.contact] \in Nat
          /\ Slack \in Nat
      BY <1>1, Numbers, ConstantTimes DEF IInv
    <3>2. /\ reg'.period \in Nat
          /\ reg'.period <= wire.is.listed \/ reg'.period <= wire.is.expires + Slack
      BY <2>3, <2>4, <3>1, GrantedTimes
    <3> QED
      BY <2>4, <2>5, <3>1, <3>2
  <2> QED
    BY <1>1, <2>6, Numbers DEF Honest, IInv
<1>6. HonestInv'
  BY <1>1, <1>5 DEF HonestInv, ReplyGrants
<1> QED
  BY <1>2, <1>4, <1>6

LEMMA RegistrarTimes ==
  ASSUME TimesInv, Registrar
  PROVE  TimeParts'
<1> USE DEF TimesInv, TimeParts, ClientOwned
<1>1. /\ UNCHANGED <<reg, tr, last, age, request, late>>
      /\ tr \in {"trying", "proceeding"}
  BY DEF Registrar, WireInv
<1>2. /\ \A c \in Contact : bound[c] \in Nat /\ bound'[c] \in Nat
      /\ age \in Nat /\ request.contact \in Contact /\ request.expires \in Nat
  <2>1. IInv'
    BY RegistrarIInv
  <2> QED
    BY <2>1, Numbers DEF IInv, TypeOK
<1>3. ASSUME NEW code \in Final, NEW expires \in Nat, Answer(code, expires)
      PROVE  /\ wire'.kind = "reply" /\ wire'.is.code = code /\ wire'.is.expires = expires
             /\ Honest(wire.is.listed, 0)'
             /\ \A c \in Contact : bound'[c] <= wire'.is.listed
  <2>1. PICK longest \in Contact :
          /\ \A c \in Contact : bound'[c] <= bound'[longest]
          /\ wire' = [kind |-> "reply",
                      is   |-> [code |-> code, expires |-> expires, seen |-> mapping,
                                listed |-> bound'[longest]]]
    BY <1>3 DEF Answer
  <2>2. wire'.is.listed <= age' + bound'[longest] + 0
    BY <1>1, <1>2, <2>1
  <2> QED
    BY <2>1, <2>2 DEF Honest
\* a reply that is no 2xx for a binding is one the times do not depend upon
<1>4. ASSUME wire'.kind = "reply", wire'.is.code # "2xx" \/ request.remove,
             wire'.is.code \in {"423", "423bare"} => MinExpires > Expire
      PROVE  TimeParts'
  BY <1>1, <1>4
  DEF WireInv, AskedInv, AgeInv, RestInv, BoundInv, HonestInv, ReplyGrants, LastGranted
<1>5. CASE \E code \in {"401", "606", "other"} : Answer(code, 0)
  BY <1>3, <1>4, <1>5 DEF Final
<1>6. CASE Accept
  <2>1. CASE request.remove /\ Answer("2xx", 0)
    BY <1>3, <1>4, <2>1 DEF Final
  <2>2. CASE /\ request.expires < MinExpires
             /\ \E code \in {"423", "423bare"} : Answer(code, 0)
    <3>1. MinExpires > Expire
      BY <1>2, <2>2, ConstantTimes DEF AskedInv
    <3> QED
      BY <1>3, <1>4, <2>2, <3>1 DEF Final
  <2>3. ASSUME ~request.remove, NEW limit \in Grants,
               LET granted == Least(limit, request.expires)
               IN /\ bound' = [bound EXCEPT ![request.contact] = granted]
                  /\ Answer("2xx", granted)
        PROVE  TimeParts'
    <3> DEFINE granted == Least(limit, request.expires)
    <3> DEFINE latest == Greatest(RefreshAfter + 1, TimerF) + MaxLate
    <3>1. /\ granted \in Nat /\ granted > 0 /\ latest \in Nat
          /\ LongTimes => granted > latest
      <4>1. limit \in Time /\ request.expires \in Time /\ request.expires >= Expire
            /\ Expire \in Nat /\ latest \in Nat
        BY <1>2, <2>3, ConstantTimes, Numbers DEF AskedInv, IInv, Time, Greatest
      <4>2. LongTimes => limit > latest /\ Expire > latest
        BY <2>3, <4>1, ConstantTimes DEF LongTimes, Time
      <4> HIDE DEF latest
      <4> QED
        BY <4>1, <4>2, LeastOK DEF Time
    <3>2. bound'[request.contact] = granted
      BY <1>2, <2>3 DEF IInv, TypeOK
    <3>3. /\ wire'.kind = "reply" /\ wire'.is.code = "2xx" /\ wire'.is.expires = granted
          /\ Honest(wire.is.listed, 0)'
      BY <1>3, <2>3, <3>1 DEF Final
    <3> HIDE DEF granted, latest
    <3>4. /\ LongTimes => bound'[request'.contact] + age' > latest
          /\ 0 < granted /\ granted <= age' + bound'[request'.contact]
      BY <1>1, <1>2, <3>1, <3>2, ConstantTimes
    <3> QED
      BY <1>1, <3>3, <3>4
      DEF WireInv, AskedInv, AgeInv, RestInv, BoundInv, HonestInv, LastGranted, latest
  <2> QED
    BY <1>6, <2>1, <2>2, <2>3 DEF Accept
<1> QED
  BY <1>5, <1>6 DEF Registrar

LEMMA TickTimes ==
  ASSUME TimesInv, Tick
  PROVE  TimeParts'
<1> USE DEF TimesInv, TimeParts
<1>1. /\ UNCHANGED <<tr, last, request, wire>>
      /\ tr \in {"trying", "proceeding", "over", "lost"}
      /\ reg'.period = reg.period /\ reg'.expire = reg.expire /\ reg'.step = reg.step
  BY DEF Tick, IInv, TypeOK
<1>2. /\ age \in Nat /\ late \in Nat /\ age' \in Nat /\ late' \in Nat
      /\ \A c \in Contact : bound[c] \in Nat /\ bound'[c] \in Nat
  <2>1. IInv'
    BY TickIInv
  <2> QED
    BY <2>1, Numbers, ConstantTypes DEF IInv, TypeOK
<1>3. tr # "lost" => age' = age + 1
  BY DEF Tick
\* what is left of a binding and the age of the transaction lose nothing together
<1>4. \A c \in Contact : age' + bound'[c] >= age + bound[c] \/ tr = "lost"
  <2>1. \A c \in Contact : bound'[c] = IF bound[c] = 0 THEN 0 ELSE bound[c] - 1
    BY DEF Tick
  <2> QED
    BY <1>2, <1>3, <2>1
<1>5. WireInv' /\ AskedInv'
  BY <1>1 DEF WireInv, AskedInv
<1>6. AgeInv' /\ RestInv'
  <2>1. AgeInv'
    BY <1>1, <1>2, <1>3, ConstantTimes DEF Tick, AgeInv
  <2>2. ASSUME tr = "over", last = "2xx" PROVE age' <= RefreshAge(reg.period) + late'
    <3>1. /\ age <= RefreshAge(reg.period) + late /\ RefreshAge(reg.period) \in Nat
          /\ Planned(reg.period) \in Int /\ Planned(reg.period) + 1 <= RefreshAge(reg.period)
      BY <2>2, PlannedOK, RefreshAgeOK, Numbers DEF RestInv, IInv
    <3>2. CASE Due
      BY <1>2, <1>3, <2>2, <3>1, <3>2 DEF Tick
    <3>3. CASE ~Due
      <4>1. ~(age > Planned(reg.period))
        BY <2>2, <3>3, DueByPlan DEF Due, Rule, IInv
      <4> QED
        BY <1>2, <1>3, <2>2, <3>1, <4>1
    <3> QED
      BY <3>2, <3>3
  <2>3. UNCHANGED RefreshAge(reg.period)
    BY <1>1 DEF RefreshAge, Planned
  <2> QED
    BY <1>1, <2>1, <2>2, <2>3 DEF RestInv
<1>7. ReplyGrants' => ReplyGrants /\ tr # "lost"
  BY <1>1 DEF ReplyGrants, WireInv
<1>8. LastGranted' => LastGranted /\ tr = "over"
  BY <1>1 DEF LastGranted
<1>9. /\ request.contact \in Contact /\ Slack \in Nat /\ reg.period \in Nat
      /\ wire.kind = "reply" => wire.is.listed \in Nat /\ wire.is.expires \in Nat
  BY Numbers, ConstantTimes DEF IInv
<1>10. BoundInv'
  <2>1. Greatest(RefreshAfter + 1, TimerF) + MaxLate \in Nat
    BY ConstantTimes DEF Greatest
  <2> QED
    BY <1>1, <1>2, <1>4, <1>7, <1>8, <1>9, <2>1 DEF BoundInv
<1>11. ASSUME tr # "lost", NEW time \in Nat, NEW slack \in Nat, Honest(time, slack)
       PROVE  \E c \in Contact : time <= age' + bound'[c] + slack
  BY <1>2, <1>4, <1>11 DEF Honest
<1>12. HonestInv'
  <2>1. ReplyGrants' =>
          /\ 0 < wire'.is.expires /\ wire'.is.expires <= age' + bound'[request'.contact]
          /\ \E c \in Contact : wire'.is.listed <= age' + bound'[c] + 0
    BY <1>1, <1>2, <1>4, <1>7, <1>9, <1>11 DEF HonestInv, ReplyGrants
  <2>2. tr' = "over" /\ LastGranted' /\ reg'.step = "DONE" =>
          \E c \in Contact : reg'.period <= age' + bound'[c] + Slack
    BY <1>1, <1>8, <1>9, <1>11 DEF HonestInv
  <2> QED
    BY <2>1, <2>2 DEF HonestInv, Honest
<1> QED
  BY <1>5, <1>6, <1>10, <1>12

LEMMA TimesInvHolds == Safety => []TimesInv
<1>1. TimesInv /\ [Next]_vars => TimesInv'
  BY NextIInv, EventThreadTimes, AttemptTimes, StackTimes, RcvFinalTimes, CallbackTimes,
     RegistrarTimes, TickTimes
  DEF Next, AutomaticAction, Stack, TimesInv
<1> QED
  BY <1>1, InitTimesInv, PTL DEF Safety

\* A registration that rests is refreshed before the registrar drops its binding,
\* whatever times it grants, if what the period leaves for it is more than the slack
\* and the lateness of the event thread; however the contact changed.
THEOREM RestDoesNotLapse == Safety => []NoIdleLapse
<1>1. TimesInv => NoIdleLapse
  <2> SUFFICES ASSUME TimesInv, AtRest, ~OtherContactBound,
                      RefreshedBy(reg.period) + Slack < reg.period
               PROVE  bound[request.contact] > 0
    BY DEF NoIdleLapse
  <2>1. PICK c \in Contact : reg.period <= age + bound[c] + Slack
    BY DEF AtRest, LastGranted, TimesInv, TimeParts, HonestInv, Honest
  <2>2. bound[c] <= bound[request.contact]
    BY Numbers DEF TimesInv, IInv, OtherContactBound
  <2>3. /\ age <= RefreshAge(reg.period) + late
        /\ RefreshedBy(reg.period) = RefreshAge(reg.period) + MaxLate
    BY DEF AtRest, TimesInv, TimeParts, RestInv, RefreshedBy, RefreshAge
  <2>4. RefreshAge(reg.period) \in Nat
    BY RefreshAgeOK, Numbers DEF TimesInv, IInv
  <2> QED
    BY <2>1, <2>2, <2>3, <2>4, Numbers, ConstantTimes DEF TimesInv, IInv
<1> QED
  BY <1>1, TimesInvHolds, PTL

\* When all times are longer than the refresh behind RefreshAfter can be late, as the
\* configured 3600 s are if the registrar grants as much, no registration that rests
\* ends, also while contacts of other addresses are bound, whose times set the period.
THEOREM LongTimesDoNotLapse ==
  Safety => [](LongTimes /\ AtRest => bound[request.contact] > 0)
<1>1. TimesInv => (LongTimes /\ AtRest => bound[request.contact] > 0)
  <2> SUFFICES ASSUME TimesInv, LongTimes, AtRest PROVE bound[request.contact] > 0
    OBVIOUS
  <2>1. /\ bound[request.contact] + age > Greatest(RefreshAfter + 1, TimerF) + MaxLate
        /\ age <= RefreshAge(reg.period) + late
    BY DEF AtRest, LastGranted, TimesInv, TimeParts, BoundInv, RestInv
  <2> QED
    BY <2>1, RefreshAgeOK, Numbers, ConstantTimes DEF TimesInv, IInv
<1> QED
  BY <1>1, TimesInvHolds, PTL

\* The period a refresh is planned by is what was granted, but for the slack, also
\* when responses come late and the contact changed in between.
THEOREM PeriodIsHonest == Safety => []PeriodHonest
<1>1. TimesInv => PeriodHonest
  <2> SUFFICES ASSUME TimesInv, AtRest, ~OtherContactBound
               PROVE  reg.period <= age + bound[request.contact] + Slack
    BY DEF PeriodHonest
  <2>1. PICK c \in Contact : reg.period <= age + bound[c] + Slack
    BY DEF AtRest, LastGranted, TimesInv, TimeParts, HonestInv, Honest
  <2>2. bound[c] <= bound[request.contact]
    BY Numbers DEF TimesInv, IInv, OtherContactBound
  <2> QED
    BY <2>1, <2>2, Numbers, ConstantTimes DEF TimesInv, IInv
<1> QED
  BY <1>1, TimesInvHolds, PTL

-----------------------------------------------------------------------------
(* Retries *)

LEMMA InitRetryInv == Init => RetryInv
BY InitTimesInv DEF Init, RetryInv, PassInv

LEMMA DecideRetry ==
  ASSUME RetryInv, Decide
  PROVE  PassInv'
<1> USE DEF RetryInv, StackOwned, networkVars
<1>1. /\ pc' = Rule /\ tr \notin {"none", "lost"}
      /\ UNCHANGED <<tr, last, age>> /\ reg'.period = reg.period
  BY DEF Decide, TimesInv, IInv, TypeOK
<1>2. UNCHANGED LongPlanned
  BY <1>1 DEF LongPlanned, Planned
\* nothing is sent for its age alone before RetryAfter
<1>3. ASSUME Rule = "send", LongPlanned PROVE tr = "over" /\ age > RetryAfter
  <2>1. age > RetryAfter
    <3>1. RefreshDue \/ RetryDue
      BY <1>3 DEF Rule
    <3>2. /\ Planned(reg.period) \in Int /\ age \in Nat
          /\ RefreshDue => age > Planned(reg.period)
      BY DueByPlan, PlannedOK, Numbers DEF TimesInv, IInv
    <3> QED
      BY <1>3, <3>1, <3>2, ConstantTimes DEF RetryDue, LongPlanned
  <2>2. tr \in {"pretrying", "trying", "proceeding", "answered"} => age <= RetryAfter
    BY Numbers, ConstantTimes DEF TimesInv, TimeParts, AgeInv, IInv
  <2>3. tr \in {"pretrying", "trying", "proceeding", "answered", "over"}
    BY <1>1 DEF TimesInv, IInv, TypeOK
  <2>4. age \in Nat /\ RetryAfter \in Nat
    BY Numbers, ConstantTimes DEF TimesInv, IInv
  <2> QED
    BY <2>1, <2>2, <2>3, <2>4
<1>4. last \in {"401", "423", "423bare", "606"} => tr \in {"answered", "over"}
  BY <1>1 DEF TimesInv, TimeParts, WireInv, IInv, TypeOK
<1> QED
  BY <1>1, <1>2, <1>3, <1>4 DEF PassInv, Rule, CredentialsDue

LEMMA PassRetry ==
  ASSUME RetryInv, AttemptRefused \/ Attempt \/ Conclude \/ Forget
  PROVE  PassInv'
<1>1. pc' \in {"idle", "forget", "count", "undelete", "unmasquerade"}
  BY DEF AttemptRefused, Attempt, Conclude, Forget
<1> QED
  BY <1>1 DEF PassInv

LEMMA OtherRetry ==
  ASSUME RetryInv, Registrar \/ UpOrDown \/ Remap \/ Tick \/ UNCHANGED vars
  PROVE  PassInv'
<1>1. CASE Tick
  BY <1>1 DEF Tick, PassInv
<1>2. CASE Registrar \/ UpOrDown \/ Remap \/ UNCHANGED vars
  <2>1. UNCHANGED <<pc, tr, last, age, reg>>
    BY <1>2 DEF Registrar, ClientOwned, UpOrDown, Remap, vars
  <2> QED
    BY <2>1 DEF RetryInv, PassInv, LongPlanned, Planned
<1> QED
  BY <1>1, <1>2

\* No pass that the stack thread meets here has decided upon what waits.
LEMMA StackRetry ==
  ASSUME RetryInv, RegisterUa \/ NictSnd \/ Rcv1xx \/ TimeoutF \/ TransportError \/ RcvFinal
  PROVE  PassInv'
<1> USE DEF RetryInv, JrOwned, networkVars, eventVars
<1>1. /\ pc' = pc /\ reg'.period = reg.period
      /\ tr \in {"none", "pretrying", "trying", "proceeding"} /\ last # "2xx"
  <2>1. CASE TransportError
    BY <2>1 DEF TransportError, TimesInv, TimeParts, WireInv, IInv, TypeOK
  <2>2. CASE RegisterUa \/ NictSnd \/ Rcv1xx \/ TimeoutF \/ RcvFinal
    BY <2>2 DEF RegisterUa, NictSnd, Rcv1xx, TimeoutF, RcvFinal, TimesInv, TimeParts, WireInv
  <2> QED
    BY <2>1, <2>2
<1>2. ~(pc = "send" /\ LongPlanned) /\ pc \notin {"credentials", "delete", "masquerade"}
  BY <1>1 DEF PassInv
<1>3. UNCHANGED LongPlanned
  BY <1>1 DEF LongPlanned, Planned
<1> QED
  BY <1>1, <1>2, <1>3 DEF PassInv

\* Only a 2xx changes the period.
LEMMA CallbackRetry ==
  ASSUME RetryInv, Callback
  PROVE  PassInv'
<1> USE DEF RetryInv, JrOwned, networkVars
<1>1. tr = "answered" /\ tr' = "over" /\ UNCHANGED <<last, age, pc>>
  BY DEF Callback
<1>2. last # "2xx" => reg'.period = reg.period
  BY DEF Callback, Checked, ContactIsModified, TimesInv, IInv, TypeOK
<1>3. last # "2xx" => (LongPlanned' => LongPlanned)
  BY <1>2 DEF LongPlanned, Planned
<1> QED
  BY <1>1, <1>3 DEF PassInv

LEMMA RetryInvHolds == Safety => []RetryInv
<1>1. TimesInv /\ [Next]_vars => TimesInv'
  BY NextIInv, EventThreadTimes, AttemptTimes, StackTimes, RcvFinalTimes, CallbackTimes,
     RegistrarTimes, TickTimes
  DEF Next, AutomaticAction, Stack, TimesInv
<1>2. RetryInv /\ [Next]_vars => PassInv'
  BY DecideRetry, PassRetry, OtherRetry, StackRetry, CallbackRetry
  DEF Next, AutomaticAction, Stack
<1>3. RetryInv /\ [Next]_vars => RetryInv'
  BY <1>1, <1>2 DEF RetryInv
<1> QED
  BY <1>3, InitRetryInv, PTL DEF Safety

\* Attempts are spaced by RetryAfter, also when the network fails at once and when a
\* challenge comes after the last retry, for any times the registrar grants; but while
\* the period plans a refresh before RetryAfter.
THEOREM RetriesAreSpaced == Safety => RetriesSpaced
<1> DEFINE Sends == tr = "over" /\ tr' = "pretrying"
           Held  == \/ last = "none" /\ reg.failover > 0
                    \/ last \in {"401", "606"} /\ reg.retry >= MaxRetry
<1>1. ASSUME RetryInv, [Next]_vars, Sends, RetryAfter <= Planned(reg.period), Held
      PROVE  age > RetryAfter
  <2>1. Attempt
    BY <1>1
    DEF Next, vars, AutomaticAction, Stack, RegisterUa, Decide, AttemptRefused, Conclude, Forget,
        NictSnd, TransportError, Rcv1xx, RcvFinal, Callback, TimeoutF, Registrar, UpOrDown, Remap,
        Tick, StackOwned, networkVars, JrOwned, ClientOwned, eventVars
  <2>2. CASE pc = "send"
    BY <1>1, <2>2 DEF RetryInv, PassInv, LongPlanned
  <2>3. CASE pc = "credentials"
    <3>1. last \in {"401", "423", "423bare", "606"} /\ reg.retry < MaxRetry
      BY <1>1, <2>3 DEF RetryInv, PassInv, TimesInv, IInv, RetryLeft
    <3>2. reg.retry \in Int /\ MaxRetry \in Int
      BY <1>1, ConstantTypes DEF RetryInv, TimesInv, IInv, TypeOK
    <3> QED
      BY <1>1, <3>1, <3>2
  <2>4. CASE pc \in {"delete", "masquerade"}
    BY <1>1, <2>4 DEF RetryInv, PassInv
  <2> QED
    BY <2>1, <2>2, <2>3, <2>4 DEF Attempt
<1>2. RetryInv /\ [Next]_vars =>
        [ /\ tr = "over" /\ tr' = "pretrying"
          /\ RetryAfter <= Planned(reg.period)
          /\ \/ last = "none" /\ reg.failover > 0
             \/ last \in {"401", "606"} /\ reg.retry >= MaxRetry
          => age > RetryAfter ]_vars
  BY <1>1
<1> QED
  BY <1>2, RetryInvHolds, PTL DEF Safety, RetriesSpaced

=============================================================================
