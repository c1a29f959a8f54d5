-------------------------- MODULE CallControlProofs -------------------------
(***************************************************************************)
(* CallControl for any number of calls, any number of 200s resent and any  *)
(* number of ACKs: the types, that no session is left behind in            *)
(* g_sessionMap, and that answers, sessions and media belong together.     *)
(***************************************************************************)
EXTENDS CallControl, TLAPS

LEMMA EvIsEvent == \A type \in EventType, c \in Call : Ev(type, c) \in Event
BY DEF Ev, Event

LEMMA ReportType ==
    ASSUME queue \in Seq(Event), NEW type \in EventType, NEW c \in Call, Report(type, c)
    PROVE  queue' \in Seq(Event)
BY EvIsEvent DEF Report

LEMMA SendsType ==
    ASSUME sent \in [Call -> SUBSET Wire], NEW msg \in Wire, NEW c \in Call, Sends(c, msg)
    PROVE  sent' \in [Call -> SUBSET Wire]
BY DEF Sends

LEMMA QueuesType ==
    ASSUME fifo \in [Call -> Seq({"200", "neg"})], NEW c \in Call, NEW response \in {"200", "neg"},
           Queues(c, response)
    PROVE  fifo' \in [Call -> Seq({"200", "neg"})]
BY DEF Queues

LEMMA ConsumesType ==
    ASSUME fifo \in [Call -> Seq({"200", "neg"})], NEW c \in Call, fifo[c] # <<>>, Consumes(c)
    PROVE  fifo' \in [Call -> Seq({"200", "neg"})]
<1>1. Tail(fifo[c]) \in Seq({"200", "neg"})
  OBVIOUS
<1>2. QED
  BY <1>1 DEF Consumes

LEMMA TakesType ==
    ASSUME queue \in Seq(Event), NEW type, NEW c, Takes(type, c)
    PROVE  queue' \in Seq(Event)
BY DEF Takes

LEMMA GoToType ==
    ASSUME NEW step \in Step, NEW c \in Call, GoTo(step, c)
    PROVE  app' \in Resting \cup Answering
BY DEF GoTo, Answering

LEMMA WaitsType == Waits => app' \in Resting \cup Answering
BY DEF Waits, Resting

\* The variables keep their types whatever arrives and however the two threads
\* interleave.
THEOREM CallTypeOK == Safety => []TypeOK
<1>1. Init => TypeOK
  BY CallAssumption DEF Init, TypeOK, Resting, Answering
<1>2. TypeOK /\ [Next]_vars => TypeOK'
  <2> SUFFICES ASSUME TypeOK, [Next]_vars PROVE TypeOK'
    OBVIOUS
  <2> USE CallAssumption
      DEF TypeOK, EventType, Step, Wire, transaction, dialogs, requests, application
  <2>1. ASSUME NEW c \in Call, RecvInvite(c) PROVE TypeOK'
    BY <2>1, ReportType, SendsType DEF RecvInvite
  <2>2. ASSUME NEW c \in Call, RecvCancel(c) PROVE TypeOK'
    BY <2>2, QueuesType DEF RecvCancel
  <2>20. ASSUME NEW c \in Call, RecvInviteAgain(c) PROVE TypeOK'
    BY <2>20 DEF RecvInviteAgain
  <2>3. ASSUME NEW c \in Call, RecvAck(c) PROVE TypeOK'
    BY <2>3, ReportType DEF RecvAck, ProcessAck
  <2>4. ASSUME NEW c \in Call, RecvAckOfFailure(c) PROVE TypeOK'
    <3>1. CASE ist[c] = "completed"
      BY <2>4, <3>1 DEF RecvAckOfFailure
    <3>2. CASE ProcessAck(c)
      BY <3>2, ReportType DEF ProcessAck
    <3>3. QED
      BY <2>4, <3>1, <3>2 DEF RecvAckOfFailure
  <2>5. ASSUME NEW c \in Call, RecvBye(c) PROVE TypeOK'
    BY <2>5, EvIsEvent DEF RecvBye
  <2>6. ASSUME NEW c \in Call, NistExecute(c) PROVE TypeOK'
    BY <2>6, ReportType DEF NistExecute
  <2>7. ASSUME NEW c \in Call, IstExecute(c) PROVE TypeOK'
    <3>1. CASE IstSends200(c)
      BY <3>1, SendsType, ConsumesType DEF IstSends200, Executes
    <3>2. CASE IstSendsFailure(c)
      BY <3>2, SendsType, ConsumesType, ReportType DEF IstSendsFailure, Executes
    <3>3. CASE IstDrops(c)
      BY <3>3, ConsumesType DEF IstDrops, Executes
    <3>4. QED
      BY <2>7, <3>1, <3>2, <3>3 DEF IstExecute
  <2>8. ASSUME NEW c \in Call, IstTimeout(c) PROVE TypeOK'
    BY <2>8 DEF IstTimeout
  <2>9. ASSUME NEW c \in Call, ReleaseFinished(c) \/ RingTimeout(c) PROVE TypeOK'
    <3>1. queue' \in Seq(Event)
      <4>1. CASE ReleaseFinished(c)
        BY <4>1, ReportType DEF ReleaseFinished
      <4>2. CASE RingTimeout(c)
        BY <4>2, EvIsEvent DEF RingTimeout
      <4>3. QED
        BY <2>9, <4>1, <4>2
    <3>2. ReleaseCall(c)
      BY <2>9 DEF ReleaseFinished, RingTimeout
    <3>3. QED
      BY <3>1, <3>2 DEF ReleaseCall
  <2>10. ASSUME NEW c \in Call, TimerPasses(c) PROVE TypeOK'
    BY <2>10 DEF TimerPasses
  <2>11. ASSUME NEW c \in Call, TakeInvite(c) PROVE TypeOK'
    BY <2>11, TakesType, GoToType DEF TakeInvite
  <2>12. ASSUME NEW c \in Call, SessionMade(c) \/ Check200(c) PROVE TypeOK'
    BY <2>12, GoToType DEF SessionMade, Check200
  <2>13. ASSUME NEW c \in Call, Add200(c) PROVE TypeOK'
    BY <2>13, GoToType, QueuesType DEF Add200
  <2>14. ASSUME NEW c \in Call, Insert(c) \/ Add603(c) PROVE TypeOK'
    BY <2>14, WaitsType, QueuesType DEF Insert, Add603
  <2>15. ASSUME NEW c \in Call, Terminate(c) PROVE TypeOK'
    <3>1. app' \in Resting \cup Answering
      BY <2>15, GoToType, WaitsType DEF Terminate
    <3>2. sent' \in [Call -> SUBSET Wire]
      BY <2>15, SendsType DEF Terminate
    <3>3. QED
      BY <2>15, <3>1, <3>2 DEF Terminate
  <2>16. ASSUME NEW c \in Call, TakeAck(c) \/ TakeClose(c) \/ TakeOther(c) PROVE TypeOK'
    BY <2>16, TakesType DEF TakeAck, TakeClose, TakeOther
  <2>17. ASSUME NEW c \in Call, Resend(c) \/ GiveUp(c) PROVE TypeOK'
    <3>1. CASE Resend(c)
      <4>1. count' \in [Call -> 0..MaxCount]
        BY <3>1 DEF Resend
      <4>2. QED
        BY <3>1, <4>1, SendsType DEF Resend
    <3>2. CASE GiveUp(c) /\ last[c] = "100"
      BY <3>2 DEF GiveUp
    <3>3. CASE GiveUp(c) /\ last[c] # "100"
      <4>1. /\ sent' \in [Call -> SUBSET Wire]
            /\ queue' \in Seq(Event)
            /\ dialog' \in [Call -> {"none", "early", "confirmed", "null"}]
            /\ bye' \in [Call -> {"none", "in", "out"}]
        BY <3>3, SendsType, ReportType DEF GiveUp
      <4>2. d200Ok' \in [Call -> {"none", "waiting", "due"}] /\ count' \in [Call -> 0..MaxCount]
        BY <3>3 DEF GiveUp
      <4>3. QED
        BY <3>3, <4>1, <4>2 DEF GiveUp
    <3>4. QED
      BY <2>17, <3>1, <3>2, <3>3
  <2>18. CASE Lock \/ Unlock
    BY <2>18, WaitsType DEF Lock, Unlock, Resting
  <2>19. CASE UNCHANGED vars
    BY <2>19 DEF vars
  <2>21. QED
    BY <2>1, <2>2, <2>3, <2>4, <2>5, <2>6, <2>7, <2>8, <2>9, <2>10, <2>11, <2>12,
       <2>13, <2>14, <2>15, <2>16, <2>17, <2>18, <2>19, <2>20
       DEF Next, AppThread, StackThread, Arrives, Runs
<1>3. QED
  BY <1>1, <1>2, PTL DEF Safety

-----------------------------------------------------------------------------

\* A call that has not arrived has left no trace.
Fresh ==
    \A c \in Call : ist[c] = "none" =>
        /\ sent[c] = {} /\ fifo[c] = <<>> /\ last[c] = "none"
        /\ dialog[c] = "none" /\ d200Ok[c] = "none"
        /\ cancel[c] = "none" /\ bye[c] = "none"
        /\ c \notin map
        /\ \A step \in Step : ~At(step, c)
        /\ \A e \in Event : e.call = c => ~Queued(e)

\* The INVITE is the first the application hears of a call, and it hears of
\* nothing else until it has dealt with it.
Ordered(q) ==
    \A i, j \in DOMAIN q : i < j /\ q[j].type = "INVITE" => q[i].call # q[j].call

InviteFirst == Ordered(queue)

InviteOnce ==
    \A c \in Call :
        /\ Queued(Ev("INVITE", c)) => c \notin map
        /\ \A step \in Step : At(step, c) => c \notin map /\ ~Queued(Ev("INVITE", c))

\* the application will decide about the 200, or is about to queue it
Undecided(c) ==
    \/ Queued(Ev("INVITE", c))
    \/ \E step \in {"invite", "check200", "add200"} : At(step, c)

\* the session is in g_sessionMap or on its way there
Kept(c) == c \in map \/ At("insert", c)

\* nothing but the 100 has happened to the INVITE
Ringing(c) ==
    /\ ist[c] = "proceeding" /\ last[c] = "100"
    /\ fifo[c] = <<>> /\ sent[c] \subseteq {"100"}
    /\ dialog[c] = "early" /\ d200Ok[c] = "none"
    /\ bye[c] = "none"

\* the 200 is queued, or has been sent and nobody has hung up
Established(c) ==
    /\ dialog[c] = "confirmed" /\ bye[c] = "none" /\ last[c] # "neg"
    /\ \/ ist[c] = "proceeding" /\ fifo[c] = <<"200">>
       \/ ist[c] = "terminated"

\* Why a session can always be ended.  Until the application has decided, the
\* INVITE rings, or its end is reported and waits behind the INVITE in the
\* queue, or it can no longer be answered; once the session is kept the same
\* holds with the dialog established instead.
RingingOrEnding ==
    \A c \in Call : Undecided(c) => Ringing(c) \/ EndReported(c) \/ Unanswerable(c)

KeptHasEnd ==
    \A c \in Call : Kept(c) => Established(c) \/ EndReported(c) \/ Unanswerable(c)

CallInv ==
    TypeOK /\ Fresh /\ InviteFirst /\ InviteOnce /\ RingingOrEnding /\ KeptHasEnd

-----------------------------------------------------------------------------
(* The event queue *)

Within(e, q) == \E i \in DOMAIN q : q[i] = e

LEMMA AppendFacts ==
    ASSUME NEW q \in Seq(Event), NEW x \in Event
    PROVE  /\ Append(q, x) \in Seq(Event)
           /\ \A e \in Event : Within(e, Append(q, x)) <=> Within(e, q) \/ e = x
           /\ Ordered(q) /\ (x.type # "INVITE" \/ \A e \in Event : e.call = x.call => ~Within(e, q))
              => Ordered(Append(q, x))
<1>1. /\ Append(q, x) \in Seq(Event)
      /\ DOMAIN q = 1..Len(q) /\ Len(q) \in Nat
      /\ DOMAIN Append(q, x) = 1..(Len(q) + 1)
      /\ \A i \in 1..Len(q) : Append(q, x)[i] = q[i] /\ q[i] \in Event
      /\ Append(q, x)[Len(q) + 1] = x
  OBVIOUS
<1>2. \A e \in Event : Within(e, Append(q, x)) <=> Within(e, q) \/ e = x
  <2>1. \A i \in 1..(Len(q) + 1) : i \in 1..Len(q) \/ i = Len(q) + 1
    BY <1>1
  <2>2. 1..Len(q) \subseteq 1..(Len(q) + 1) /\ Len(q) + 1 \in 1..(Len(q) + 1)
    BY <1>1
  <2>3. QED
    BY <1>1, <2>1, <2>2 DEF Within
<1>3. ASSUME Ordered(q), x.type # "INVITE" \/ \A e \in Event : e.call = x.call => ~Within(e, q)
      PROVE  Ordered(Append(q, x))
  <2> SUFFICES ASSUME NEW i \in 1..(Len(q) + 1), NEW j \in 1..(Len(q) + 1),
                      i < j, Append(q, x)[j].type = "INVITE"
               PROVE  Append(q, x)[i].call # Append(q, x)[j].call
    BY <1>1 DEF Ordered
  <2>1. i \in 1..Len(q)
    BY <1>1
  <2>2. CASE j = Len(q) + 1
    BY <1>1, <1>3, <2>1, <2>2 DEF Within
  <2>3. CASE j # Len(q) + 1
    <3>1. j \in 1..Len(q)
      BY <1>1, <2>3
    <3>2. QED
      BY <1>1, <1>3, <2>1, <3>1 DEF Ordered
  <2>4. QED
    BY <2>2, <2>3
<1>4. QED
  BY <1>1, <1>2, <1>3

LEMMA TailFacts ==
    ASSUME NEW q \in Seq(Event), q # <<>>
    PROVE  /\ \A e \in Event : Within(e, q) <=> e = Head(q) \/ Within(e, Tail(q))
           /\ Ordered(q) => /\ Ordered(Tail(q))
                            /\ ~Within(Ev("INVITE", Head(q).call), Tail(q))
<1>1. /\ DOMAIN q = 1..Len(q) /\ Len(q) \in Nat \ {0}
      /\ DOMAIN Tail(q) = 1..(Len(q) - 1)
      /\ \A i \in 1..(Len(q) - 1) : Tail(q)[i] = q[i + 1] /\ i + 1 \in 1..Len(q)
      /\ Head(q) = q[1] /\ 1 \in 1..Len(q)
  OBVIOUS
<1>2. \A i \in 1..Len(q) : i = 1 \/ \E k \in 1..(Len(q) - 1) : i = k + 1
  <2> SUFFICES ASSUME NEW i \in 1..Len(q), i # 1
               PROVE  \E k \in 1..(Len(q) - 1) : i = k + 1
    OBVIOUS
  <2>1. i - 1 \in 1..(Len(q) - 1) /\ i = (i - 1) + 1
    BY <1>1
  <2>2. QED
    BY <2>1
<1>3. \A e \in Event : Within(e, q) <=> e = Head(q) \/ Within(e, Tail(q))
  <2>1. ASSUME NEW i \in 1..Len(q) PROVE q[i] = Head(q) \/ Within(q[i], Tail(q))
    <3>1. CASE i = 1
      BY <1>1, <3>1
    <3>2. ASSUME NEW k \in 1..(Len(q) - 1), i = k + 1 PROVE Within(q[i], Tail(q))
      BY <1>1, <3>2 DEF Within
    <3>3. QED
      BY <1>2, <3>1, <3>2
  <2>2. ASSUME NEW k \in 1..(Len(q) - 1) PROVE Within(Tail(q)[k], q)
    BY <1>1 DEF Within
  <2>3. Within(Head(q), q)
    BY <1>1 DEF Within
  <2>4. QED
    BY <1>1, <2>1, <2>2, <2>3 DEF Within
<1>4. ASSUME Ordered(q) PROVE Ordered(Tail(q)) /\ ~Within(Ev("INVITE", Head(q).call), Tail(q))
  <2>1. Ordered(Tail(q))
    <3> SUFFICES ASSUME NEW i \in 1..(Len(q) - 1), NEW j \in 1..(Len(q) - 1),
                        i < j, Tail(q)[j].type = "INVITE"
                 PROVE  Tail(q)[i].call # Tail(q)[j].call
      BY <1>1 DEF Ordered
    <3>1. i + 1 < j + 1
      OBVIOUS
    <3>2. QED
      BY <1>1, <1>4, <3>1 DEF Ordered
  <2>2. ASSUME NEW k \in 1..(Len(q) - 1), Tail(q)[k] = Ev("INVITE", Head(q).call) PROVE FALSE
    <3>1. q[k + 1].type = "INVITE" /\ q[k + 1].call = q[1].call /\ 1 < k + 1
      BY <1>1, <2>2 DEF Ev
    <3>2. QED
      BY <1>1, <1>4, <3>1 DEF Ordered
  <2>3. QED
    BY <1>1, <2>1, <2>2 DEF Within
<1>5. QED
  BY <1>3, <1>4

\* Nothing leaves the queue, and only events of c that are not an INVITE enter.
OnlyAdds(c) ==
    /\ \A e \in Event : Queued(e) => Queued(e)'
    /\ \A e \in Event : Queued(e)' => Queued(e) \/ (e.call = c /\ e.type # "INVITE")
    /\ InviteFirst => InviteFirst'

LEMMA EvFields == \A type, c : Ev(type, c).type = type /\ Ev(type, c).call = c
BY DEF Ev

LEMMA ReportAdds ==
    ASSUME queue \in Seq(Event), NEW c \in Call, NEW type \in EventType \ {"INVITE"},
           Report(type, c)
    PROVE  OnlyAdds(c) /\ Queued(Ev(type, c))'
<1>1. Ev(type, c) \in Event
  BY EvIsEvent
<1>2. /\ \A e \in Event : Within(e, queue') <=> Within(e, queue) \/ e = Ev(type, c)
      /\ Ordered(queue) => Ordered(queue')
  BY <1>1, AppendFacts, EvFields DEF Report
<1>3. QED
  BY <1>1, <1>2, EvFields DEF OnlyAdds, Queued, Within, InviteFirst

LEMMA ReportsAdd ==
    ASSUME queue \in Seq(Event), NEW c \in Call,
           NEW t1 \in EventType \ {"INVITE"}, NEW t2 \in EventType \ {"INVITE"},
           queue' = Append(Append(queue, Ev(t1, c)), Ev(t2, c))
    PROVE  OnlyAdds(c) /\ Queued(Ev(t2, c))'
<1> DEFINE q == Append(queue, Ev(t1, c))
<1>1. Ev(t1, c) \in Event /\ Ev(t2, c) \in Event
  BY EvIsEvent
<1>2. /\ q \in Seq(Event)
      /\ \A e \in Event : Within(e, q) <=> Within(e, queue) \/ e = Ev(t1, c)
      /\ Ordered(queue) => Ordered(q)
  BY <1>1, AppendFacts, EvFields
<1>3. /\ \A e \in Event : Within(e, queue') <=> Within(e, q) \/ e = Ev(t2, c)
      /\ Ordered(q) => Ordered(queue')
  <2> HIDE DEF q
  <2>1. queue' = Append(q, Ev(t2, c))
    BY DEF q
  <2>2. QED
    BY <1>1, <1>2, <2>1, AppendFacts, EvFields
<1> HIDE DEF q
<1>4. \A e \in Event : /\ Queued(e) <=> Within(e, queue)
                       /\ Queued(e)' <=> Within(e, queue')
  BY DEF Queued, Within
<1>5. QED
  BY <1>1, <1>2, <1>3, <1>4, EvFields DEF OnlyAdds, InviteFirst

LEMMA QueueUnchanged == ASSUME NEW c, UNCHANGED queue PROVE OnlyAdds(c)
BY DEF OnlyAdds, Queued, InviteFirst

LEMMA TakesFacts ==
    ASSUME queue \in Seq(Event), NEW c \in Call, NEW type \in EventType, Takes(type, c)
    PROVE  /\ Queued(Ev(type, c))
           /\ \A e \in Event : Queued(e) <=> e = Ev(type, c) \/ Queued(e)'
           /\ InviteFirst => InviteFirst' /\ ~Queued(Ev("INVITE", c))'
<1>1. /\ \A e \in Event : Within(e, queue) <=> e = Ev(type, c) \/ Within(e, queue')
      /\ Ordered(queue) => Ordered(queue') /\ ~Within(Ev("INVITE", c), queue')
  BY TailFacts, EvFields DEF Takes
<1>2. Ev(type, c) \in Event
  BY EvIsEvent
<1>3. QED
  BY <1>1, <1>2 DEF Queued, Within, InviteFirst

-----------------------------------------------------------------------------
(* A step of the stack, or of the resending of lost 200s, for one call *)

Same(d) ==
    /\ ist'[d] = ist[d] /\ fifo'[d] = fifo[d] /\ last'[d] = last[d] /\ sent'[d] = sent[d]
    /\ dialog'[d] = dialog[d] /\ d200Ok'[d] = d200Ok[d]
    /\ cancel'[d] = cancel[d] /\ bye'[d] = bye[d]

\* What a step for c owes the invariant.
Sound(c) ==
    /\ ist[c] # "none" /\ ist'[c] # "none"
    /\ app' = app /\ map' = map
    /\ OnlyAdds(c)
    /\ \A d \in Call \ {c} : Same(d)
    /\ Ringing(c) => Ringing(c)' \/ EndReported(c)' \/ Unanswerable(c)'
    /\ Established(c) => Established(c)' \/ EndReported(c)' \/ Unanswerable(c)'
    /\ EndReported(c) => EndReported(c)'
    /\ Unanswerable(c) => Unanswerable(c)'

LEMMA SameKeeps ==
    ASSUME NEW c \in Call, NEW d \in Call, Same(d), OnlyAdds(c)
    PROVE  /\ Ringing(d) => Ringing(d)'
           /\ Established(d) => Established(d)'
           /\ EndReported(d) => EndReported(d)'
           /\ Unanswerable(d) => Unanswerable(d)'
<1>1. Ev("CANCELLED", d) \in Event /\ Ev("CLOSED", d) \in Event
  BY EvIsEvent DEF EventType
<1>2. EndReported(d) => EndReported(d)'
  BY <1>1 DEF EndReported, OnlyAdds, Same
<1>3. QED
  BY <1>2 DEF Ringing, Established, Unanswerable, Same

LEMMA SoundKeeps ==
    ASSUME CallInv, TypeOK', NEW c \in Call, Sound(c)
    PROVE  CallInv'
<1>1. \A d \in Call : Ev("INVITE", d) \in Event
  BY EvIsEvent DEF EventType
<1>2. \A d \in Call : Queued(Ev("INVITE", d))' <=> Queued(Ev("INVITE", d))
  BY <1>1, EvFields DEF Sound, OnlyAdds
<1>3. \A d \in Call : /\ Undecided(d)' <=> Undecided(d)
                      /\ Kept(d)' <=> Kept(d)
                      /\ \A step : At(step, d)' <=> At(step, d)
  BY <1>2 DEF Sound, Undecided, Kept, At
<1>4. Fresh'
  <2> SUFFICES ASSUME NEW d \in Call, ist'[d] = "none"
               PROVE  /\ sent'[d] = {} /\ fifo'[d] = <<>> /\ last'[d] = "none"
                      /\ dialog'[d] = "none" /\ d200Ok'[d] = "none"
                      /\ cancel'[d] = "none" /\ bye'[d] = "none"
                      /\ d \notin map'
                      /\ \A step \in Step : ~At(step, d)'
                      /\ \A e \in Event : e.call = d => ~Queued(e)'
    BY DEF Fresh
  <2>1. d # c /\ Same(d)
    BY DEF Sound
  <2>2. QED
    BY <1>3, <2>1 DEF Same, CallInv, Fresh, Sound, OnlyAdds
<1>5. InviteFirst' /\ InviteOnce'
  BY <1>2, <1>3 DEF CallInv, InviteOnce, Sound, OnlyAdds
<1>6. \A d \in Call : /\ Ringing(d) => Ringing(d)' \/ EndReported(d)' \/ Unanswerable(d)'
                      /\ Established(d) => Established(d)' \/ EndReported(d)' \/ Unanswerable(d)'
                      /\ EndReported(d) => EndReported(d)'
                      /\ Unanswerable(d) => Unanswerable(d)'
  <2> SUFFICES ASSUME NEW d \in Call \ {c}
               PROVE  /\ Ringing(d) => Ringing(d)'
                      /\ Established(d) => Established(d)'
                      /\ EndReported(d) => EndReported(d)'
                      /\ Unanswerable(d) => Unanswerable(d)'
    BY DEF Sound
  <2> QED
    BY SameKeeps DEF Sound
<1>7. RingingOrEnding' /\ KeptHasEnd'
  BY <1>3, <1>6 DEF CallInv, RingingOrEnding, KeptHasEnd
<1>8. QED
  BY <1>4, <1>5, <1>7 DEF CallInv

LEMMA StackIsSound ==
    ASSUME CallInv, NEW c \in Call,
           \/ RecvInviteAgain(c) \/ RecvCancel(c) \/ RecvAck(c) \/ RecvAckOfFailure(c) \/ RecvBye(c)
           \/ Runs(c) \/ RingTimeout(c) \/ Resend(c) \/ GiveUp(c)
    PROVE  Sound(c)
<1> USE CallAssumption DEF CallInv, TypeOK, Fresh, EventType,
       transaction, dialogs, requests, application,
       Same, Ringing, Established, EndReported, Unanswerable
<1>1. CASE RecvCancel(c)
  <2>1. OnlyAdds(c)
    BY <1>1, QueueUnchanged DEF RecvCancel
  <2>2. QED
    BY <1>1, <2>1 DEF RecvCancel, Queues, Sound
<1>2. ASSUME ProcessAck(c), sent[c] \cap {"200", "neg"} # {} PROVE Sound(c)
  <2>1. OnlyAdds(c)
    BY <1>2, ReportAdds DEF ProcessAck
  <2>2. EndReported(c) => EndReported(c)'
    BY <1>2, <2>1, EvIsEvent DEF ProcessAck, OnlyAdds
  <2>3. QED
    BY <1>2, <2>1, <2>2 DEF ProcessAck, Sound
<1>3. CASE RecvAck(c)
  BY <1>2, <1>3 DEF RecvAck
<1>4. CASE RecvAckOfFailure(c)
  <2>1. CASE ist[c] = "completed" /\ ist' = [ist EXCEPT ![c] = "confirmed"]
             /\ UNCHANGED <<fifo, last, sent, dialogs, requests, queue, application>>
    <3>1. OnlyAdds(c)
      BY <2>1, QueueUnchanged
    <3>2. EndReported(c) => EndReported(c)'
      BY <2>1, <3>1, EvIsEvent DEF OnlyAdds
    <3>3. QED
      BY <2>1, <3>1, <3>2 DEF Sound
  <2>2. CASE ProcessAck(c)
    BY <1>2, <1>4, <2>2 DEF RecvAckOfFailure
  <2>3. QED
    BY <1>4, <2>1, <2>2 DEF RecvAckOfFailure
<1>5. CASE RecvBye(c)
  <2>1. OnlyAdds(c) /\ Queued(Ev("CLOSED", c))'
    BY <1>5, ReportsAdd DEF RecvBye
  <2>2. EndReported(c)'
    BY <2>1
  <2>3. QED
    BY <1>5, <2>1, <2>2 DEF RecvBye, Sound
<1>6. CASE NistExecute(c)
  <2>1. OnlyAdds(c) /\ Queued(Ev("CANCELLED", c))'
    BY <1>6, ReportAdds DEF NistExecute
  <2>2. EndReported(c)'
    BY <2>1
  <2>3. QED
    BY <1>6, <2>1, <2>2 DEF NistExecute, Sound
<1>7. CASE IstSends200(c)
  <2>1. OnlyAdds(c)
    BY <1>7, QueueUnchanged DEF IstSends200
  <2>2. EndReported(c) => EndReported(c)'
    BY <1>7, <2>1, EvIsEvent DEF IstSends200, OnlyAdds
  <2>3. \A d \in Call \ {c} : Same(d)
    BY <1>7 DEF IstSends200, Sends, Consumes
  <2>4. QED
    BY <1>7, <2>1, <2>2, <2>3 DEF IstSends200, Executes, Sound
<1>8. CASE IstSendsFailure(c)
  <2>1. OnlyAdds(c)
    BY <1>8, ReportAdds, QueueUnchanged DEF IstSendsFailure
  <2>2. EndReported(c) => EndReported(c)'
    BY <1>8, <2>1, EvIsEvent DEF IstSendsFailure, OnlyAdds
  <2>3. \A d \in Call \ {c} : Same(d)
    BY <1>8 DEF IstSendsFailure, Sends, Consumes
  <2>4. ~Ringing(c) /\ ~Unanswerable(c)
    BY <1>8 DEF IstSendsFailure, Executes
  <2>5. ~Established(c)
    BY <1>8 DEF IstSendsFailure, Executes
  <2>6. ist'[c] # "none"
    BY <1>8 DEF IstSendsFailure
  <2>7. QED
    BY <1>8, <2>1, <2>2, <2>3, <2>4, <2>5, <2>6 DEF IstSendsFailure, Sound
<1>9. CASE IstDrops(c)
  <2>1. OnlyAdds(c)
    BY <1>9, QueueUnchanged DEF IstDrops
  <2>2. EndReported(c) => EndReported(c)'
    BY <1>9, <2>1, EvIsEvent DEF IstDrops, OnlyAdds
  <2>3. QED
    BY <1>9, <2>1, <2>2 DEF IstDrops, Executes, Consumes, Sound
<1>10. CASE IstTimeout(c)
  <2>1. OnlyAdds(c)
    BY <1>10, QueueUnchanged DEF IstTimeout
  <2>2. EndReported(c) => EndReported(c)'
    BY <1>10, <2>1, EvIsEvent DEF IstTimeout, OnlyAdds
  <2>3. QED
    BY <1>10, <2>1, <2>2 DEF IstTimeout, Sound
<1>11. CASE ReleaseFinished(c)
  <2>1. OnlyAdds(c)
    BY <1>11, ReportAdds DEF ReleaseFinished
  <2>2. EndReported(c) => EndReported(c)'
    BY <1>11, <2>1, EvIsEvent DEF ReleaseFinished, ReleaseCall, OnlyAdds
  <2>3. QED
    BY <1>11, <2>1, <2>2 DEF ReleaseFinished, ReleaseCall, Sound
<1>12. CASE RingTimeout(c)
  <2>1. OnlyAdds(c)
    BY <1>12, ReportsAdd DEF RingTimeout
  <2>2. EndReported(c) => EndReported(c)'
    BY <1>12, <2>1, EvIsEvent DEF RingTimeout, ReleaseCall, OnlyAdds
  <2>3. QED
    BY <1>12, <2>1, <2>2 DEF RingTimeout, ReleaseCall, Sound
<1>13. CASE TimerPasses(c)
  <2>1. OnlyAdds(c)
    BY <1>13, QueueUnchanged DEF TimerPasses
  <2>2. EndReported(c) => EndReported(c)'
    BY <1>13, <2>1, EvIsEvent DEF TimerPasses, OnlyAdds
  <2>3. QED
    BY <1>13, <2>1, <2>2 DEF TimerPasses, Sound
<1>14. CASE Resend(c)
  <2>1. OnlyAdds(c)
    BY <1>14, QueueUnchanged DEF Resend
  <2>2. EndReported(c) => EndReported(c)'
    BY <1>14, <2>1, EvIsEvent DEF Resend, OnlyAdds
  <2>3. QED
    BY <1>14, <2>1, <2>2 DEF Resend, Lost, Sends, Sound
<1>15. CASE RecvInviteAgain(c)
  <2>1. OnlyAdds(c)
    BY <1>15, QueueUnchanged DEF RecvInviteAgain
  <2>2. EndReported(c) => EndReported(c)'
    BY <1>15, <2>1, EvIsEvent DEF RecvInviteAgain, OnlyAdds
  <2>3. QED
    BY <1>15, <2>1, <2>2 DEF RecvInviteAgain, Sound
<1>16. CASE GiveUp(c) /\ last[c] # "100"
  <2>1. OnlyAdds(c) /\ Queued(Ev("CLOSED", c))'
    BY <1>16, ReportAdds DEF GiveUp
  <2>2. EndReported(c)'
    BY <2>1
  <2>3. QED
    BY <1>16, <2>1, <2>2 DEF GiveUp, Lost, Sends, Sound
<1>17. CASE GiveUp(c) /\ last[c] = "100"
  <2>1. OnlyAdds(c)
    BY <1>17, QueueUnchanged DEF GiveUp
  <2>2. EndReported(c) => EndReported(c)'
    BY <1>17, <2>1, EvIsEvent DEF GiveUp, OnlyAdds
  <2>3. QED
    BY <1>17, <2>1, <2>2 DEF GiveUp, Lost, Sound
<1>18. QED
  BY <1>1, <1>3, <1>4, <1>5, <1>6, <1>7, <1>8, <1>9, <1>10, <1>11, <1>12, <1>13, <1>14,
     <1>15, <1>16, <1>17
     DEF Runs, IstExecute

-----------------------------------------------------------------------------
(* The other steps: a new call, and the application between two events *)

LEMMA RecvInviteKeeps ==
    ASSUME CallInv, TypeOK', NEW c \in Call, RecvInvite(c)
    PROVE  CallInv'
<1> USE DEF EventType, transaction, dialogs, requests, application
<1>1. ist[c] = "none" /\ UNCHANGED <<fifo, d200Ok, cancel, bye, app, map>>
  BY DEF RecvInvite
<1>2. \A d \in Call \ {c} : Same(d)
  BY DEF RecvInvite, Sends, Same, CallInv, TypeOK
<1>3. /\ ist'[c] \in {"proceeding", "terminated"} /\ last'[c] = "100"
      /\ sent'[c] \subseteq {"100"} /\ dialog'[c] = "early"
  BY DEF RecvInvite, Sends, CallInv, TypeOK, Fresh
<1>4. /\ fifo'[c] = <<>> /\ d200Ok'[c] = "none" /\ bye'[c] = "none" /\ c \notin map'
      /\ \A step \in Step : ~At(step, c)'
      /\ \A e \in Event : e.call = c => ~Queued(e)
  BY <1>1 DEF CallInv, Fresh, At
<1>5. \A d \in Call : \A type \in EventType : Ev(type, d) \in Event
  BY EvIsEvent
<1>6. /\ \A e \in Event : Queued(e)' <=> Queued(e) \/ e = Ev("INVITE", c)
      /\ InviteFirst'
  <2>1. /\ \A e \in Event : Within(e, queue') <=> Within(e, queue) \/ e = Ev("INVITE", c)
        /\ Ordered(queue) /\ (\A e \in Event : e.call = c => ~Within(e, queue)) => Ordered(queue')
    <3> DEFINE x == Ev("INVITE", c)
    <3>1. x \in Event /\ x.call = c /\ queue \in Seq(Event) /\ queue' = Append(queue, x)
      BY <1>5, EvFields DEF RecvInvite, Report, CallInv, TypeOK
    <3> HIDE DEF x
    <3>2. /\ \A e \in Event : Within(e, queue') <=> Within(e, queue) \/ e = x
          /\ Ordered(queue) /\ (\A e \in Event : e.call = c => ~Within(e, queue)) => Ordered(queue')
      BY <3>1, AppendFacts
    <3>3. QED
      BY <3>2 DEF x
  <2>2. \A e \in Event : (Queued(e) <=> Within(e, queue)) /\ (Queued(e)' <=> Within(e, queue'))
    BY DEF Queued, Within
  <2>3. QED
    BY <1>4, <2>1, <2>2 DEF InviteFirst, CallInv
<1>7. \A d \in Call \ {c} : /\ EndReported(d)' <=> EndReported(d)
                            /\ Undecided(d)' <=> Undecided(d)
                            /\ Kept(d)' <=> Kept(d)
  <2> SUFFICES ASSUME NEW d \in Call \ {c}
               PROVE  /\ EndReported(d)' <=> EndReported(d)
                      /\ Undecided(d)' <=> Undecided(d)
                      /\ Kept(d)' <=> Kept(d)
    OBVIOUS
  <2>1. \A type \in EventType : Queued(Ev(type, d))' <=> Queued(Ev(type, d))
    BY <1>5, <1>6, EvFields
  <2>2. QED
    BY <1>1, <2>1 DEF EndReported, Undecided, Kept, At
<1>8. Fresh'
  <2> SUFFICES ASSUME NEW d \in Call, ist'[d] = "none"
               PROVE  /\ sent'[d] = {} /\ fifo'[d] = <<>> /\ last'[d] = "none"
                      /\ dialog'[d] = "none" /\ d200Ok'[d] = "none"
                      /\ cancel'[d] = "none" /\ bye'[d] = "none"
                      /\ d \notin map'
                      /\ \A step \in Step : ~At(step, d)'
                      /\ \A e \in Event : e.call = d => ~Queued(e)'
    BY DEF Fresh
  <2>1. d # c
    BY <1>3
  <2>2. \A e \in Event : e.call = d => ~Queued(e)'
    BY <1>2, <1>6, <2>1, EvFields DEF Same, CallInv, Fresh
  <2>3. QED
    BY <1>1, <1>2, <2>1, <2>2 DEF Same, CallInv, Fresh, At
<1>9. InviteOnce'
  BY <1>1, <1>4, <1>5, <1>6, EvFields DEF CallInv, InviteOnce, At
<1>10. RingingOrEnding' /\ KeptHasEnd'
  <2>1. Ringing(c)' \/ Unanswerable(c)'
    BY <1>3, <1>4 DEF Ringing, Unanswerable
  <2>2. ~Kept(c)'
    BY <1>4 DEF Kept, Step
  <2>3. \A d \in Call \ {c} : /\ Ringing(d) => Ringing(d)'
                              /\ Established(d) => Established(d)'
                              /\ Unanswerable(d) => Unanswerable(d)'
    BY <1>2 DEF Same, Ringing, Established, Unanswerable
  <2>4. QED
    BY <1>7, <2>1, <2>2, <2>3 DEF CallInv, RingingOrEnding, KeptHasEnd
<1>11. QED
  BY <1>6, <1>8, <1>9, <1>10 DEF CallInv

\* What the application leaves alone while it decides.
Idle(c) ==
    /\ UNCHANGED <<ist, last, cancel, queue>>
    /\ \A d \in Call \ {c} : Same(d)

LEMMA IdleKeeps ==
    ASSUME NEW c \in Call, Idle(c)
    PROVE  /\ \A d \in Call : EndReported(d)' <=> EndReported(d)
           /\ \A d \in Call : Unanswerable(d)' <=> Unanswerable(d)
           /\ \A d \in Call \ {c} : (Ringing(d) => Ringing(d)') /\ (Established(d) => Established(d)')
           /\ \A e : Queued(e)' <=> Queued(e)
           /\ InviteFirst => InviteFirst'
<1>1. \A e : Queued(e)' <=> Queued(e)
  BY DEF Idle, Queued
<1>2. QED
  BY <1>1 DEF Idle, EndReported, Unanswerable, Ringing, Established, Same, InviteFirst

LEMMA AtUnique == \A s1, s2, c, d : At(s1, c) /\ At(s2, d) => s1 = s2 /\ c = d
BY DEF At

LEMMA NotResting ==
    ASSUME app.at = "wait" \/ app.at = "lock" PROVE \A step \in Step : \A c : ~At(step, c)
BY DEF At, Step

LEMMA DecisionKeeps ==
    ASSUME CallInv, TypeOK', NEW c \in Call, NEW s \in Step, At(s, c), Idle(c),
           (map' = map /\ \E t \in Step : GoTo(t, c)) \/ Waits,
           map' \in {map, map \cup {c}},
           Undecided(c)' => Ringing(c)' \/ EndReported(c)' \/ Unanswerable(c)',
           Kept(c)' => Established(c)' \/ EndReported(c)' \/ Unanswerable(c)'
    PROVE  CallInv'
<1>1. /\ ist'[c] # "none" /\ c \notin map /\ ~Queued(Ev("INVITE", c))
      /\ \A d : \A step \in Step : At(step, d)' => d = c
  BY DEF CallInv, Fresh, InviteOnce, Idle, At, GoTo, Waits
<1>2. Fresh'
  <2> SUFFICES ASSUME NEW d \in Call, ist'[d] = "none"
               PROVE  /\ sent'[d] = {} /\ fifo'[d] = <<>> /\ last'[d] = "none"
                      /\ dialog'[d] = "none" /\ d200Ok'[d] = "none"
                      /\ cancel'[d] = "none" /\ bye'[d] = "none"
                      /\ d \notin map'
                      /\ \A step \in Step : ~At(step, d)'
                      /\ \A e \in Event : e.call = d => ~Queued(e)'
    BY DEF Fresh
  <2>1. d # c /\ Same(d) /\ ist[d] = "none"
    BY <1>1 DEF Idle, Same
  <2>2. QED
    BY <1>1, <2>1, IdleKeeps DEF Same, CallInv, Fresh
<1>3. InviteFirst' /\ InviteOnce'
  <2>1. (\E step \in Step : At(step, c)') => map' = map
    BY DEF At, Waits
  <2>2. QED
    BY <1>1, <2>1, IdleKeeps DEF CallInv, InviteOnce
<1>4. \A d \in Call \ {c} : /\ Undecided(d)' => Undecided(d)
                            /\ Kept(d)' => Kept(d)
  BY <1>1, IdleKeeps DEF Undecided, Kept, Step
<1>5. RingingOrEnding' /\ KeptHasEnd'
  BY <1>4, IdleKeeps DEF CallInv, RingingOrEnding, KeptHasEnd
<1>6. QED
  BY <1>2, <1>3, <1>5 DEF CallInv

LEMMA DecideKeeps ==
    ASSUME CallInv, TypeOK', NEW c \in Call,
           SessionMade(c) \/ Check200(c) \/ Add200(c) \/ Insert(c) \/ Terminate(c) \/ Add603(c)
    PROVE  CallInv'
<1> USE DEF transaction, dialogs, requests, application
<1>1. ASSUME NEW s \in Step, At(s, c), GoTo("terminate", c) \/ GoTo("add603", c) \/ Waits
      PROVE  ~At("insert", c)' /\ (Undecided(c)' <=> Queued(Ev("INVITE", c))')
  BY <1>1 DEF At, GoTo, Waits, Undecided
<1>2. ASSUME NEW s \in Step, At(s, c), Idle(c) PROVE ~Queued(Ev("INVITE", c))' /\ c \notin map
  BY <1>2, IdleKeeps DEF CallInv, InviteOnce
<1>3. CASE SessionMade(c)
  <2>1. Idle(c) /\ At("invite", c) /\ UNCHANGED <<map, fifo, sent, dialog, d200Ok, bye>>
    BY <1>3 DEF SessionMade, Idle, Same
  <2>2. Undecided(c) /\ ~Kept(c)'
    BY <1>2, <1>3, <2>1 DEF SessionMade, Undecided, Kept, At, GoTo, Step
  <2>3. Ringing(c)' \/ EndReported(c)' \/ Unanswerable(c)'
    BY <2>1, <2>2, IdleKeeps DEF CallInv, RingingOrEnding, Ringing, Idle
  <2>4. (\E t \in Step : GoTo(t, c))
    BY <1>3 DEF SessionMade, Step
  <2>5. QED
    BY <2>1, <2>2, <2>3, <2>4, DecisionKeeps DEF Step
<1>4. CASE Check200(c)
  <2>1. Idle(c) /\ At("check200", c) /\ UNCHANGED <<map, fifo, sent, dialog, d200Ok, bye>>
    BY <1>4 DEF Check200, Idle, Same
  <2>2. Ringing(c)' \/ EndReported(c)' \/ Unanswerable(c)'
    BY <2>1, IdleKeeps DEF CallInv, RingingOrEnding, Ringing, Idle, Undecided
  <2>3. CASE ist[c] = "proceeding"
    <3>1. GoTo("add200", c) /\ ~Kept(c)'
      BY <1>2, <1>4, <2>1, <2>3 DEF Check200, Kept, At, GoTo, Step
    <3>2. QED
      BY <2>1, <2>2, <3>1, DecisionKeeps DEF Step
  <2>4. CASE ist[c] # "proceeding"
    <3>1. GoTo("insert", c) /\ ~Ringing(c)'
      BY <1>4, <2>1, <2>4 DEF Check200, Ringing, Idle
    <3>2. QED
      BY <2>1, <2>2, <3>1, DecisionKeeps DEF Step
  <2>5. QED
    BY <2>3, <2>4
<1>5. CASE Add200(c)
  <2>1. Idle(c) /\ At("add200", c) /\ UNCHANGED <<map, bye>> /\ GoTo("insert", c)
    BY <1>5 DEF Add200, Idle, Same, Queues, CallInv, TypeOK
  <2>2. ~Undecided(c)'
    BY <1>2, <2>1 DEF Undecided, At, GoTo, Step
  <2>3. Ringing(c) \/ EndReported(c) \/ Unanswerable(c)
    BY <2>1 DEF CallInv, RingingOrEnding, Undecided
  <2>4. Ringing(c) => Established(c)'
    <3> SUFFICES ASSUME Ringing(c) PROVE Established(c)'
      OBVIOUS
    <3>1. fifo'[c] = <<"200">>
      BY <1>5 DEF Add200, Queues, CallInv, TypeOK, Ringing
    <3>2. QED
      BY <1>5, <3>1 DEF Add200, CallInv, TypeOK, Ringing, Established
  <2>5. QED
    BY <2>1, <2>2, <2>3, <2>4, IdleKeeps, DecisionKeeps DEF Step
<1>6. CASE Insert(c)
  <2>1. Idle(c) /\ At("insert", c) /\ Waits /\ map' = map \cup {c}
        /\ UNCHANGED <<fifo, dialog, bye>>
    BY <1>6 DEF Insert, Idle, Same
  <2>2. ~Undecided(c)'
    BY <1>1, <1>2, <2>1 DEF Step
  <2>3. Established(c)' \/ EndReported(c)' \/ Unanswerable(c)'
    BY <2>1, IdleKeeps DEF CallInv, KeptHasEnd, Kept, Established, Idle
  <2>4. QED
    BY <2>1, <2>2, <2>3, DecisionKeeps DEF Step
<1>7. CASE Terminate(c)
  <2>1. Idle(c) /\ At("terminate", c) /\ UNCHANGED map
    BY <1>7 DEF Terminate, Idle, Same, Sends, CallInv, TypeOK
  <2>2. GoTo("add603", c) \/ Waits
    BY <1>7 DEF Terminate
  <2>3. ~Undecided(c)' /\ ~Kept(c)'
    BY <1>1, <1>2, <2>1, <2>2 DEF Step, Kept
  <2>4. QED
    BY <2>1, <2>2, <2>3, DecisionKeeps DEF Step
<1>8. CASE Add603(c)
  <2>1. Idle(c) /\ At("add603", c) /\ UNCHANGED map /\ Waits
    BY <1>8 DEF Add603, Idle, Same, Queues, CallInv, TypeOK
  <2>2. ~Undecided(c)' /\ ~Kept(c)'
    BY <1>1, <1>2, <2>1 DEF Step, Kept
  <2>3. QED
    BY <2>1, <2>2, DecisionKeeps DEF Step
<1>9. QED
  BY <1>3, <1>4, <1>5, <1>6, <1>7, <1>8

\* An event is taken: the first of the queue, and nothing in the stack moves.
LEMMA TakingKeeps ==
    ASSUME CallInv, TypeOK', NEW c \in Call,
           TakeInvite(c) \/ TakeAck(c) \/ TakeClose(c) \/ TakeOther(c)
    PROVE  CallInv'
<1> USE DEF transaction, dialogs, requests, application
<1>1. PICK type \in EventType :
           /\ Takes(type, c)
           /\ type = "INVITE" => GoTo("invite", c) /\ map' = map
           /\ type \in {"CANCELLED", "CLOSED"} => app' = app /\ map' = map \ {c}
           /\ type \notin {"INVITE", "CANCELLED", "CLOSED"} => app' = app /\ map' = map
  BY DEF TakeInvite, TakeAck, TakeClose, TakeOther, EventType
<1>2. UNCHANGED <<ist, fifo, last, sent, dialog, d200Ok, cancel, bye>>
  BY DEF TakeInvite, TakeAck, TakeClose, TakeOther
<1>3. /\ Queued(Ev(type, c))
      /\ \A e \in Event : Queued(e) <=> e = Ev(type, c) \/ Queued(e)'
      /\ InviteFirst' /\ ~Queued(Ev("INVITE", c))'
  BY <1>1, TakesFacts DEF CallInv, TypeOK
<1>4. \A t \in EventType, d \in Call : Ev(t, d) \in Event
  BY EvIsEvent
<1>5. ist[c] # "none"
  BY <1>3, <1>4, EvFields DEF CallInv, Fresh
<1>6. \A step \in Step, d \in Call : ~At(step, d)
  BY <1>1, NotResting DEF Takes
<1>7. \A step \in Step, d \in Call : At(step, d)' => d = c /\ step = "invite" /\ type = "INVITE"
  BY <1>1, <1>6 DEF At, GoTo
<1>8. Fresh'
  BY <1>1, <1>2, <1>3, <1>5, <1>7 DEF CallInv, Fresh
<1>9. InviteOnce'
  <2>1. \A d \in Call : Queued(Ev("INVITE", d))' => Queued(Ev("INVITE", d))
    BY <1>3, <1>4 DEF EventType
  <2>2. map' \subseteq map /\ (type = "INVITE" => c \notin map)
    BY <1>1, <1>3 DEF CallInv, InviteOnce, EventType
  <2>3. QED
    BY <1>3, <1>7, <2>1, <2>2 DEF CallInv, InviteOnce
<1>10. ASSUME NEW d \in Call, Undecided(d)'
       PROVE  Ringing(d)' \/ EndReported(d)' \/ Unanswerable(d)'
  <2>1. Undecided(d)
    BY <1>3, <1>4, <1>7, <1>10 DEF Undecided, EventType, Step
  <2>2. d # c \/ type = "INVITE"
    BY <1>3, <1>7, <1>10 DEF Undecided, Step
  <2>3. EndReported(d) => EndReported(d)'
    BY <1>2, <1>3, <1>4, <2>2, EvFields DEF EndReported, EventType
  <2>4. QED
    BY <1>2, <2>1, <2>3 DEF CallInv, RingingOrEnding, Ringing, Unanswerable
<1>11. ASSUME NEW d \in Call, Kept(d)'
       PROVE  Established(d)' \/ EndReported(d)' \/ Unanswerable(d)'
  <2>1. d \in map /\ d \in map'
    BY <1>1, <1>7, <1>11 DEF Kept, Step
  <2>2. d # c \/ type \notin {"CANCELLED", "CLOSED"}
    BY <1>1, <2>1
  <2>3. EndReported(d) => EndReported(d)'
    BY <1>2, <1>3, <1>4, <2>2, EvFields DEF EndReported, EventType
  <2>4. QED
    BY <1>2, <2>1, <2>3 DEF CallInv, KeptHasEnd, Kept, Established, Unanswerable
<1>12. QED
  BY <1>3, <1>8, <1>9, <1>10, <1>11 DEF CallInv, RingingOrEnding, KeptHasEnd

LEMMA LockKeeps ==
    ASSUME CallInv, TypeOK', Lock \/ Unlock
    PROVE  CallInv'
<1> USE DEF transaction, dialogs, requests
<1>1. /\ UNCHANGED <<ist, fifo, last, sent, dialog, d200Ok, cancel, bye, queue, map>>
      /\ \A step \in Step, d \in Call : ~At(step, d) /\ ~At(step, d)'
  BY NotResting DEF Lock, Unlock, Waits, At, Step
<1>2. \A e : Queued(e)' <=> Queued(e)
  BY <1>1 DEF Queued
<1>3. \A d \in Call : /\ (Undecided(d)' <=> Undecided(d)) /\ (Kept(d)' <=> Kept(d))
                      /\ (Ringing(d)' <=> Ringing(d)) /\ (Established(d)' <=> Established(d))
                      /\ (EndReported(d)' <=> EndReported(d))
                      /\ (Unanswerable(d)' <=> Unanswerable(d))
  BY <1>1, <1>2 DEF Undecided, Kept, Step, Ringing, Established, EndReported, Unanswerable
<1>4. QED
  BY <1>1, <1>2, <1>3 DEF CallInv, Fresh, InviteFirst, InviteOnce, RingingOrEnding, KeptHasEnd

-----------------------------------------------------------------------------

LEMMA CallInvInit == Init => CallInv
<1> SUFFICES ASSUME Init PROVE CallInv
  OBVIOUS
<1>1. TypeOK
  BY CallAssumption DEF Init, TypeOK, Resting, Answering
<1>2. \A e : ~Queued(e)
  BY DEF Init, Queued
<1>3. \A step \in Step, c \in Call : ~At(step, c)
  BY NotResting DEF Init
<1>4. InviteFirst
  BY DEF Init, InviteFirst, Ordered
<1>5. QED
  BY <1>1, <1>2, <1>3, <1>4
     DEF CallInv, Init, Fresh, InviteOnce, RingingOrEnding, KeptHasEnd, Undecided, Kept, Step

LEMMA CallInvNext == CallInv /\ TypeOK' /\ [Next]_vars => CallInv'
<1> SUFFICES ASSUME CallInv, TypeOK', [Next]_vars PROVE CallInv'
  OBVIOUS
<1>1. ASSUME NEW c \in Call, StackThread(c) PROVE CallInv'
  BY <1>1, RecvInviteKeeps, StackIsSound, SoundKeeps DEF StackThread, Arrives
<1>2. ASSUME NEW c \in Call, Resend(c) \/ GiveUp(c) PROVE CallInv'
  BY <1>2, StackIsSound, SoundKeeps
<1>3. CASE AppThread
  BY <1>2, <1>3, LockKeeps, TakingKeeps, DecideKeeps DEF AppThread
<1>4. CASE UNCHANGED vars
  <2>1. UNCHANGED <<ist, fifo, last, sent, dialog, d200Ok, cancel, bye, queue, app, map>>
    BY <1>4 DEF vars, transaction, dialogs, requests, application
  <2>2. \A e : Queued(e)' <=> Queued(e)
    BY <2>1 DEF Queued
  <2>3. \A d : /\ (Undecided(d)' <=> Undecided(d)) /\ (Kept(d)' <=> Kept(d))
               /\ (Ringing(d)' <=> Ringing(d)) /\ (Established(d)' <=> Established(d))
               /\ (EndReported(d)' <=> EndReported(d))
               /\ (Unanswerable(d)' <=> Unanswerable(d))
               /\ \A step : At(step, d)' <=> At(step, d)
    BY <2>1, <2>2
       DEF Undecided, Kept, At, Ringing, Established, EndReported, Unanswerable
  <2>4. QED
    BY <2>1, <2>2, <2>3
       DEF CallInv, Fresh, InviteFirst, InviteOnce, RingingOrEnding, KeptHasEnd
<1>5. QED
  BY <1>1, <1>3, <1>4 DEF Next

\* No session is left behind in g_sessionMap, however many calls there are and
\* however the two threads and the network interleave.
THEOREM NoSessionLeftBehind == Safety => []SessionsHaveEnd
<1>1. CallInv => SessionsHaveEnd
  <2> SUFFICES ASSUME CallInv, NEW c \in map
               PROVE  EndReported(c) \/ dialog[c] = "confirmed" \/ Unanswerable(c)
    BY DEF SessionsHaveEnd
  <2>1. c \in Call /\ Kept(c)
    BY DEF CallInv, TypeOK, Kept
  <2>2. QED
    BY <2>1 DEF CallInv, KeptHasEnd, Established
<1>2. QED
  BY CallInvInit, CallInvNext, CallTypeOK, <1>1, PTL DEF Safety

-----------------------------------------------------------------------------
(* Answers.  An answered caller has a session, media is only sent for one, *)
(* and two final responses need a CANCEL.  All three rest on what the      *)
(* answer of the application, the refusal and the events of the end of a   *)
(* call have to do with each other; that the INVITE is the first of its    *)
(* events is InviteFirst.                                                  *)

\* the response waits in the fifo
Holds(c, r) == \E i \in DOMAIN fifo[c] : fifo[c][i] = r

Answered(c) == Holds(c, "200") \/ "200" \in sent[c] \/ d200Ok[c] # "none"
Refused(c)  == Holds(c, "neg") \/ "neg" \in sent[c]

\* the application may still answer, or refuse
Deciding(c) == Undecided(c) \/ At("terminate", c) \/ At("add603", c)

\* the application has no session for the call and will make none
Gone(c) == ~Undecided(c) /\ ~Kept(c)

\* e comes before every f of the queue
Before(e, f, q) == \A j \in DOMAIN q : q[j] = f => \E i \in DOMAIN q : i < j /\ q[i] = e

CloseBeforeAck(c) == Before(Ev("CLOSED", c), Ev("ACK", c), queue)

\* Without a CANCEL a call is answered or refused, a refused one is not kept, and
\* a confirmed dialog has its session until its end.
Uncancelled(c) ==
    /\ ~(Answered(c) /\ Refused(c))
    /\ Deciding(c) => ~Answered(c) /\ ~Refused(c)
    /\ Kept(c) => ~Refused(c)
    /\ dialog[c] = "confirmed" => Kept(c)
    /\ ~Queued(Ev("CANCELLED", c))
    /\ Queued(Ev("CLOSED", c)) => dialog[c] = "null"

\* The ACK of a failure reaches the application behind the CLOSED of that failure.
Answers(c) ==
    /\ ist[c] # "none" => dialog[c] # "none"
    /\ cancel[c] = "none" => Uncancelled(c)
    /\ "200" \in sent[c] \/ Gone(c) \/ CloseBeforeAck(c)
    /\ "neg" \in sent[c] => "200" \in sent[c] \/ Gone(c) \/ Queued(Ev("CLOSED", c))
    /\ c \in media => c \in map /\ "200" \in sent[c]

AnswerInv == CallInv /\ \A c \in Call : Answers(c)

-----------------------------------------------------------------------------
(* Sequences *)

LEMMA BeforeAppend ==
    ASSUME NEW q \in Seq(Event), NEW x \in Event, NEW e, NEW f,
           Before(e, f, q), x = f => Within(e, q)
    PROVE  Before(e, f, Append(q, x))
<1>1. /\ DOMAIN q = 1..Len(q) /\ Len(q) \in Nat
      /\ DOMAIN Append(q, x) = 1..(Len(q) + 1)
      /\ \A i \in 1..Len(q) : Append(q, x)[i] = q[i] /\ i \in 1..(Len(q) + 1) /\ i < Len(q) + 1
      /\ Append(q, x)[Len(q) + 1] = x
  OBVIOUS
<1> SUFFICES ASSUME NEW j \in 1..(Len(q) + 1), Append(q, x)[j] = f
             PROVE  \E i \in 1..(Len(q) + 1) : i < j /\ Append(q, x)[i] = e
  BY <1>1 DEF Before
<1>2. CASE j = Len(q) + 1
  BY <1>1, <1>2 DEF Within
<1>3. CASE j # Len(q) + 1
  <2>1. j \in 1..Len(q)
    BY <1>1, <1>3
  <2>2. QED
    BY <1>1, <2>1 DEF Before
<1>4. QED
  BY <1>2, <1>3

LEMMA BeforeTail ==
    ASSUME NEW q \in Seq(Event), q # <<>>, NEW e, NEW f, Before(e, f, q)
    PROVE  /\ Head(q) # f
           /\ Head(q) # e => Before(e, f, Tail(q))
<1>1. /\ DOMAIN q = 1..Len(q) /\ Len(q) \in Nat \ {0}
      /\ DOMAIN Tail(q) = 1..(Len(q) - 1)
      /\ \A i \in 1..(Len(q) - 1) : Tail(q)[i] = q[i + 1] /\ i + 1 \in 1..Len(q)
      /\ Head(q) = q[1] /\ 1 \in 1..Len(q)
  OBVIOUS
<1>2. Head(q) # f
  BY <1>1 DEF Before
<1>3. ASSUME Head(q) # e, NEW j \in 1..(Len(q) - 1), Tail(q)[j] = f
      PROVE  \E i \in 1..(Len(q) - 1) : i < j /\ Tail(q)[i] = e
  <2>1. PICK k \in 1..Len(q) : k < j + 1 /\ q[k] = e
    BY <1>1, <1>3 DEF Before
  <2>2. k # 1
    BY <1>1, <1>3, <2>1
  <2>3. k - 1 \in 1..(Len(q) - 1) /\ k - 1 < j /\ (k - 1) + 1 = k
    BY <1>1, <2>1, <2>2
  <2>4. QED
    BY <1>1, <2>1, <2>3
<1>4. QED
  BY <1>1, <1>2, <1>3 DEF Before

LEMMA BeforeNone ==
    ASSUME NEW q, NEW e, NEW f, ~Within(f, q)
    PROVE  Before(e, f, q)
BY DEF Before, Within

LEMMA HoldsQueued ==
    ASSUME TypeOK, NEW c \in Call, NEW r \in {"200", "neg"}, Queues(c, r)
    PROVE  \A s : Holds(c, s)' <=> Holds(c, s) \/ s = r
<1>1. fifo'[c] = Append(fifo[c], r) /\ fifo[c] \in Seq({"200", "neg"})
  BY DEF TypeOK, Queues
<1> DEFINE q == fifo[c]
<1>2. /\ DOMAIN q = 1..Len(q) /\ Len(q) \in Nat
      /\ DOMAIN Append(q, r) = 1..(Len(q) + 1)
      /\ \A i \in 1..Len(q) : Append(q, r)[i] = q[i] /\ i \in 1..(Len(q) + 1)
      /\ Append(q, r)[Len(q) + 1] = r /\ Len(q) + 1 \in 1..(Len(q) + 1)
      /\ \A i \in 1..(Len(q) + 1) : i \in 1..Len(q) \/ i = Len(q) + 1
  BY <1>1
<1>3. QED
  BY <1>1, <1>2 DEF Holds

LEMMA HoldsConsumed ==
    ASSUME TypeOK, NEW c \in Call, fifo[c] # <<>>, Consumes(c)
    PROVE  Holds(c, Head(fifo[c])) /\ \A s : Holds(c, s)' => Holds(c, s)
<1>1. fifo'[c] = Tail(fifo[c]) /\ fifo[c] \in Seq({"200", "neg"})
  BY DEF TypeOK, Consumes
<1> DEFINE q == fifo[c]
<1>2. /\ DOMAIN q = 1..Len(q) /\ DOMAIN Tail(q) = 1..(Len(q) - 1)
      /\ \A i \in 1..(Len(q) - 1) : Tail(q)[i] = q[i + 1] /\ i + 1 \in 1..Len(q)
      /\ Head(q) = q[1] /\ 1 \in 1..Len(q)
  BY <1>1
<1>3. QED
  BY <1>1, <1>2 DEF Holds

-----------------------------------------------------------------------------
(* Steps of another call *)

\* A step leaves all there is of d alone.
Local(d) ==
    /\ Same(d)
    /\ (d \in map)' <=> d \in map
    /\ (d \in media)' <=> d \in media
    /\ \A step \in Step : At(step, d)' <=> At(step, d)
    /\ \A type \in EventType : Queued(Ev(type, d))' <=> Queued(Ev(type, d))
    /\ CloseBeforeAck(d) => CloseBeforeAck(d)'

LEMMA LocalKeeps ==
    ASSUME NEW d \in Call, Answers(d), Local(d)
    PROVE  Answers(d)'
<1> USE DEF Local, Same, EventType, Step
<1>1. /\ Undecided(d)' <=> Undecided(d)
      /\ Kept(d)' <=> Kept(d)
      /\ Deciding(d)' <=> Deciding(d)
      /\ Gone(d)' <=> Gone(d)
  BY DEF Undecided, Kept, Deciding, Gone
<1>2. \A r : Holds(d, r)' <=> Holds(d, r)
  BY DEF Holds
<1>3. (Answered(d)' <=> Answered(d)) /\ (Refused(d)' <=> Refused(d))
  BY <1>2 DEF Answered, Refused
<1>4. cancel[d] = "none" /\ Uncancelled(d) => Uncancelled(d)'
  BY <1>1, <1>3 DEF Uncancelled
<1>5. QED
  BY <1>1, <1>4 DEF Answers

\* The queue of j_events with none, one or two events of c more.
Appends(c) ==
    \/ UNCHANGED queue
    \/ \E t \in EventType : Report(t, c)
    \/ \E t1, t2 \in EventType : queue' = Append(Append(queue, Ev(t1, c)), Ev(t2, c))

LEMMA AppendsLocal ==
    ASSUME queue \in Seq(Event), NEW c \in Call, Appends(c), NEW d \in Call \ {c}
    PROVE  /\ \A type \in EventType : Queued(Ev(type, d))' <=> Queued(Ev(type, d))
           /\ CloseBeforeAck(d) => CloseBeforeAck(d)'
<1> DEFINE Ok(q) == /\ q \in Seq(Event)
                    /\ \A type \in EventType : Within(Ev(type, d), q) <=> Queued(Ev(type, d))
                    /\ CloseBeforeAck(d) => Before(Ev("CLOSED", d), Ev("ACK", d), q)
<1>1. \A t \in EventType : Ev(t, d) \in Event /\ Ev(t, c) \in Event
  BY EvIsEvent
<1>2. \A t1, t2 : Ev(t1, d) # Ev(t2, c)
  BY EvFields
<1>3. Ok(queue)
  BY DEF Queued, Within, CloseBeforeAck
<1>4. ASSUME NEW q, Ok(q), NEW t \in EventType PROVE Ok(Append(q, Ev(t, c)))
  <2> DEFINE x == Ev(t, c)
  <2>1. x \in Event /\ \A t1 : Ev(t1, d) # x
    BY <1>1, <1>2
  <2> HIDE DEF x
  <2>2. /\ Append(q, x) \in Seq(Event)
        /\ \A e \in Event : Within(e, Append(q, x)) <=> Within(e, q) \/ e = x
    BY <1>4, <2>1, AppendFacts
  <2>3. CloseBeforeAck(d) => Before(Ev("CLOSED", d), Ev("ACK", d), Append(q, x))
    BY <1>4, <2>1, BeforeAppend
  <2>4. Ok(Append(q, x))
    BY <1>1, <1>4, <2>1, <2>2, <2>3
  <2>5. QED
    BY <2>4 DEF x
<1> HIDE DEF Ok
<1>5. Ok(queue')
  BY <1>3, <1>4 DEF Appends, Report
<1>6. QED
  BY <1>5 DEF Ok, Queued, Within, CloseBeforeAck

-----------------------------------------------------------------------------
(* Steps of the stack, and of the resending of lost 200s, for the call itself *)

\* What a step does not touch that neither queues nor takes an event.
LEMMA QuietQueue ==
    ASSUME NEW c, UNCHANGED queue
    PROVE  (\A e : Queued(e)' <=> Queued(e)) /\ (CloseBeforeAck(c)' <=> CloseBeforeAck(c))
BY DEF Queued, CloseBeforeAck

LEMMA ReportKeepsOrder ==
    ASSUME queue \in Seq(Event), NEW c \in Call, NEW type \in EventType, Report(type, c),
           CloseBeforeAck(c), type = "ACK" => Queued(Ev("CLOSED", c))
    PROVE  CloseBeforeAck(c)'
<1> DEFINE x == Ev(type, c)
<1>1. x \in Event /\ (x = Ev("ACK", c) => type = "ACK") /\ queue' = Append(queue, x)
  BY EvIsEvent, EvFields DEF Report
<1> HIDE DEF x
<1>2. QED
  BY <1>1, BeforeAppend DEF CloseBeforeAck, Queued, Within

LEMMA ReportsKeepOrder ==
    ASSUME queue \in Seq(Event), NEW c \in Call,
           NEW t1 \in EventType \ {"ACK"}, NEW t2 \in EventType \ {"ACK"},
           queue' = Append(Append(queue, Ev(t1, c)), Ev(t2, c)), CloseBeforeAck(c)
    PROVE  CloseBeforeAck(c)'
<1> DEFINE x == Ev(t1, c)
           y == Ev(t2, c)
<1>1. /\ x \in Event /\ x # Ev("ACK", c) /\ y \in Event /\ y # Ev("ACK", c)
      /\ queue' = Append(Append(queue, x), y)
  BY EvIsEvent, EvFields
<1> HIDE DEF x, y
<1>2. Before(Ev("CLOSED", c), Ev("ACK", c), Append(queue, x)) /\ Append(queue, x) \in Seq(Event)
  BY <1>1, BeforeAppend DEF CloseBeforeAck
<1>3. QED
  BY <1>1, <1>2, BeforeAppend DEF CloseBeforeAck

\* Reporting one event of the call does not report another.
LEMMA AppendedOnly ==
    ASSUME NEW q \in Seq(Event), NEW c \in Call,
           NEW type \in EventType, NEW t \in EventType \ {type}
    PROVE  /\ Append(q, Ev(type, c)) \in Seq(Event)
           /\ Within(Ev(t, c), Append(q, Ev(type, c))) <=> Within(Ev(t, c), q)
<1> DEFINE x == Ev(type, c)
           y == Ev(t, c)
<1>1. x \in Event /\ y \in Event /\ x # y
  <2>1. x.type = type /\ y.type = t
    BY EvFields
  <2>2. QED
    BY <2>1, EvIsEvent
<1> HIDE DEF x, y
<1>2. Append(q, x) \in Seq(Event) /\ (Within(y, Append(q, x)) <=> Within(y, q))
  BY <1>1, AppendFacts
<1>3. QED
  BY <1>2 DEF x, y

LEMMA ReportedOnly ==
    ASSUME queue \in Seq(Event), NEW c \in Call,
           NEW type \in EventType, Report(type, c), NEW t \in EventType \ {type}
    PROVE  Queued(Ev(t, c))' <=> Queued(Ev(t, c))
BY AppendedOnly DEF Report, Queued, Within

LEMMA ReportedOnlyTwo ==
    ASSUME queue \in Seq(Event), NEW c \in Call, NEW t1 \in EventType, NEW t2 \in EventType,
           queue' = Append(Append(queue, Ev(t1, c)), Ev(t2, c)),
           NEW t \in EventType \ {t1, t2}
    PROVE  Queued(Ev(t, c))' <=> Queued(Ev(t, c))
<1>1. /\ Append(queue, Ev(t1, c)) \in Seq(Event)
      /\ Within(Ev(t, c), Append(queue, Ev(t1, c))) <=> Within(Ev(t, c), queue)
  BY AppendedOnly
<1>2. Within(Ev(t, c), queue') <=> Within(Ev(t, c), Append(queue, Ev(t1, c)))
  BY <1>1, AppendedOnly
<1>3. QED
  BY <1>1, <1>2 DEF Queued, Within

LEMMA StackAnswers ==
    ASSUME CallInv, NEW c \in Call, Answers(c),
           \/ RecvInviteAgain(c) \/ RecvCancel(c) \/ RecvAck(c) \/ RecvAckOfFailure(c) \/ RecvBye(c)
           \/ Runs(c) \/ RingTimeout(c) \/ Resend(c) \/ GiveUp(c)
    PROVE  Answers(c)'
<1> USE DEF transaction, dialogs, requests, application
<1>1. TypeOK
  BY DEF CallInv
<1>2. Sound(c)
  BY StackIsSound
<1>3. \A type \in EventType : Ev(type, c) \in Event
  BY EvIsEvent
<1>4. /\ Undecided(c)' <=> Undecided(c)
      /\ Kept(c)' <=> Kept(c)
      /\ Deciding(c)' <=> Deciding(c)
      /\ Gone(c)' <=> Gone(c)
      /\ \A type \in EventType : Queued(Ev(type, c)) => Queued(Ev(type, c))'
  <2>1. Queued(Ev("INVITE", c))' <=> Queued(Ev("INVITE", c))
    BY <1>2, <1>3, EvFields DEF Sound, OnlyAdds, EventType
  <2>2. QED
    BY <1>2, <1>3, <2>1 DEF Sound, OnlyAdds, Undecided, Kept, Deciding, Gone, At
\* a step that leaves the queue alone and sends nothing the caller did not have
<1>5. ASSUME UNCHANGED <<queue, map, media>>,
             dialog'[c] = dialog[c], ist[c] # "none",
             cancel'[c] = "none" => cancel[c] = "none",
             "200" \in sent[c] => "200" \in sent'[c],
             "neg" \in sent'[c] => "neg" \in sent[c],
             cancel'[c] = "none" =>
                 (Answered(c)' => Answered(c)) /\ (Refused(c)' => Refused(c))
      PROVE  Answers(c)'
  BY <1>4, <1>5, QuietQueue DEF Answers, Uncancelled
<1>6. CASE RecvInviteAgain(c) \/ IstTimeout(c)
  <2>1. ist[c] # "none" /\ \A s : Holds(c, s)' <=> Holds(c, s)
    BY <1>6 DEF RecvInviteAgain, IstTimeout, Holds
  <2>2. QED
    BY <1>5, <1>6, <2>1 DEF RecvInviteAgain, IstTimeout, Answered, Refused
<1>7. CASE RecvCancel(c)
  <2>1. cancel'[c] # "none" /\ ist[c] # "none"
    BY <1>1, <1>7 DEF RecvCancel, TypeOK
  <2>2. QED
    BY <1>5, <1>7, <2>1 DEF RecvCancel
<1>8. ASSUME ProcessAck(c),
             "200" \in sent[c] \/ Gone(c) \/ Queued(Ev("CLOSED", c)),
             ist'[c] # "none"
      PROVE  Answers(c)'
  <2>1. CloseBeforeAck(c)' \/ Gone(c) \/ "200" \in sent[c]
    BY <1>1, <1>8, ReportKeepsOrder DEF ProcessAck, TypeOK, EventType, Answers
  <2>2. \A s : Holds(c, s)' <=> Holds(c, s)
    BY <1>8 DEF ProcessAck, Holds
  <2>3. (Answered(c)' => Answered(c)) /\ (Refused(c)' <=> Refused(c))
    BY <1>1, <1>8, <2>2 DEF ProcessAck, Answered, Refused, TypeOK
  <2>4. /\ Queued(Ev("CLOSED", c))' <=> Queued(Ev("CLOSED", c))
        /\ Queued(Ev("CANCELLED", c))' <=> Queued(Ev("CANCELLED", c))
    BY <1>1, <1>8, ReportedOnly DEF ProcessAck, TypeOK, EventType
  <2>5. QED
    BY <1>4, <1>8, <2>1, <2>3, <2>4 DEF ProcessAck, Answers, Uncancelled
<1>9. CASE RecvAck(c)
  BY <1>2, <1>8, <1>9 DEF RecvAck, Sound
<1>10. CASE RecvAckOfFailure(c)
  <2>1. CASE ProcessAck(c)
    BY <1>2, <1>8, <1>10, <2>1 DEF RecvAckOfFailure, Answers, Sound
  <2>2. CASE ist[c] = "completed" /\ UNCHANGED <<fifo, last, sent, dialogs, requests, queue, application>>
    <3>1. \A s : Holds(c, s)' <=> Holds(c, s)
      BY <2>2 DEF Holds
    <3>2. QED
      BY <1>5, <2>2, <3>1 DEF Answered, Refused
  <2>3. QED
    BY <1>10, <2>1, <2>2 DEF RecvAckOfFailure
\* a step whose events end the call
<1>11. ASSUME UNCHANGED <<map, media>>,
              dialog'[c] = "null" \/ (cancel'[c] # "none" /\ dialog'[c] = dialog[c]),
              ist[c] # "none" \/ dialog[c] # "none",
              CloseBeforeAck(c) => CloseBeforeAck(c)',
              "200" \in sent[c] => "200" \in sent'[c],
              "neg" \in sent'[c] => "neg" \in sent[c] \/ Queued(Ev("CLOSED", c))',
              cancel'[c] = "none" =>
                  /\ cancel[c] = "none" /\ ~Queued(Ev("CANCELLED", c))'
                  /\ (Answered(c)' => Answered(c)) /\ (Refused(c)' => Refused(c))
       PROVE  Answers(c)'
  BY <1>3, <1>4, <1>11 DEF Answers, Uncancelled, EventType
<1>12. CASE RecvBye(c)
  <2>1. CloseBeforeAck(c) => CloseBeforeAck(c)'
    BY <1>1, <1>12, ReportsKeepOrder DEF RecvBye, TypeOK, EventType
  <2>2. Queued(Ev("CANCELLED", c))' => Queued(Ev("CANCELLED", c))
    BY <1>1, <1>12, ReportedOnlyTwo DEF RecvBye, TypeOK, EventType
  <2>3. \A s : Holds(c, s)' <=> Holds(c, s)
    BY <1>12 DEF RecvBye, Holds
  <2>4. dialog'[c] = "null" /\ UNCHANGED <<map, media, sent, cancel, d200Ok>>
    BY <1>1, <1>12 DEF RecvBye, TypeOK
  <2>5. QED
    BY <1>2, <1>11, <2>1, <2>2, <2>3, <2>4 DEF Answers, Uncancelled, Answered, Refused, Sound
<1>13. CASE NistExecute(c)
  <2>1. CloseBeforeAck(c) => CloseBeforeAck(c)'
    BY <1>1, <1>13, ReportKeepsOrder DEF NistExecute, TypeOK, EventType
  <2>2. QED
    BY <1>1, <1>2, <1>11, <1>13, <2>1 DEF NistExecute, TypeOK, Sound
<1>14. CASE IstSends200(c)
  <2>1. Holds(c, "200") /\ \A s : Holds(c, s)' => Holds(c, s)
    BY <1>1, <1>14, HoldsConsumed DEF IstSends200, Executes
  <2>2. (Answered(c)' => Answered(c)) /\ (Refused(c)' => Refused(c))
    BY <1>1, <1>14, <2>1 DEF IstSends200, Sends, Answered, Refused, TypeOK
  <2>3. ("200" \in sent[c] => "200" \in sent'[c]) /\ ("neg" \in sent'[c] => "neg" \in sent[c])
    BY <1>1, <1>14 DEF IstSends200, Sends, TypeOK
  <2>4. QED
    BY <1>2, <1>5, <1>14, <2>2, <2>3 DEF IstSends200, Sound
<1>15. CASE IstSendsFailure(c)
  <2>1. Holds(c, "neg") /\ \A s : Holds(c, s)' => Holds(c, s)
    BY <1>1, <1>15, HoldsConsumed DEF IstSendsFailure, Executes
  <2>2. (Answered(c)' => Answered(c)) /\ (Refused(c)' => Refused(c)) /\ Refused(c)
    BY <1>1, <1>15, <2>1 DEF IstSendsFailure, Sends, Answered, Refused, TypeOK
  <2>3. "200" \in sent[c] => "200" \in sent'[c]
    BY <1>1, <1>15 DEF IstSendsFailure, Sends, TypeOK
  <2>4. CASE UNCHANGED <<sent, dialog, queue>>
    BY <1>2, <1>5, <1>15, <2>2, <2>4 DEF IstSendsFailure, Sound
  <2>5. CASE Report("CLOSED", c) /\ dialog' = [dialog EXCEPT ![c] = IF @ = "early" THEN "null" ELSE @]
    <3>1. /\ CloseBeforeAck(c) => CloseBeforeAck(c)'
          /\ Queued(Ev("CLOSED", c))'
          /\ Queued(Ev("CANCELLED", c))' => Queued(Ev("CANCELLED", c))
      <4>1. CloseBeforeAck(c) => CloseBeforeAck(c)'
        BY <1>1, <2>5, ReportKeepsOrder DEF TypeOK, EventType
      <4>2. Queued(Ev("CLOSED", c))'
        BY <1>1, <2>5, ReportAdds DEF TypeOK, EventType
      <4>3. Queued(Ev("CANCELLED", c))' => Queued(Ev("CANCELLED", c))
        BY <1>1, <2>5, ReportedOnly DEF TypeOK, EventType
      <4>4. QED
        BY <4>1, <4>2, <4>3
    <3>2. cancel[c] = "none" => dialog'[c] = "null"
      BY <1>1, <1>15, <2>2, <2>5 DEF Answers, Uncancelled, IstSendsFailure, Executes, TypeOK
    <3>3. cancel[c] # "none" => dialog'[c] \in {"null", dialog[c]}
      BY <1>1, <2>5 DEF TypeOK
    <3>4. QED
      BY <1>2, <1>11, <1>15, <2>2, <2>3, <3>1, <3>2, <3>3
         DEF IstSendsFailure, Answers, Uncancelled, Sound
  <2>6. QED
    BY <1>15, <2>4, <2>5 DEF IstSendsFailure
<1>16. CASE IstDrops(c)
  <2>1. \A s : Holds(c, s)' => Holds(c, s)
    BY <1>1, <1>16, HoldsConsumed DEF IstDrops, Executes
  <2>2. QED
    BY <1>2, <1>5, <1>16, <2>1 DEF IstDrops, Answered, Refused, Sound
<1>17. ASSUME ReleaseCall(c), CloseBeforeAck(c) => CloseBeforeAck(c)',
              Queued(Ev("CANCELLED", c))' => Queued(Ev("CANCELLED", c))
       PROVE  Answers(c)'
  <2>1. \A s : Holds(c, s)' <=> Holds(c, s)
    BY <1>17 DEF ReleaseCall, Holds
  <2>2. dialog'[c] = "null" /\ UNCHANGED <<map, media, sent, cancel>> /\ d200Ok'[c] = "none"
    BY <1>1, <1>17 DEF ReleaseCall, TypeOK
  <2>3. QED
    BY <1>2, <1>11, <1>17, <2>1, <2>2 DEF Answers, Uncancelled, Answered, Refused, Sound
<1>18. CASE ReleaseFinished(c)
  <2>1. CloseBeforeAck(c) => CloseBeforeAck(c)'
    BY <1>1, <1>18, ReportKeepsOrder DEF ReleaseFinished, TypeOK, EventType
  <2>2. Queued(Ev("CANCELLED", c))' => Queued(Ev("CANCELLED", c))
    BY <1>1, <1>18, ReportedOnly DEF ReleaseFinished, TypeOK, EventType
  <2>3. QED
    BY <1>17, <1>18, <2>1, <2>2 DEF ReleaseFinished
<1>19. CASE RingTimeout(c)
  <2>1. CloseBeforeAck(c) => CloseBeforeAck(c)'
    BY <1>1, <1>19, ReportsKeepOrder DEF RingTimeout, TypeOK, EventType
  <2>2. Queued(Ev("CANCELLED", c))' => Queued(Ev("CANCELLED", c))
    BY <1>1, <1>19, ReportedOnlyTwo DEF RingTimeout, TypeOK, EventType
  <2>3. QED
    BY <1>17, <1>19, <2>1, <2>2 DEF RingTimeout
<1>20. CASE TimerPasses(c)
  <2>1. \A s : Holds(c, s)' <=> Holds(c, s)
    BY <1>20 DEF TimerPasses, Holds
  <2>2. QED
    BY <1>2, <1>5, <1>20, <2>1 DEF TimerPasses, Answered, Refused, Sound
<1>21. CASE Resend(c)
  <2>1. \A s : Holds(c, s)' <=> Holds(c, s)
    BY <1>21 DEF Resend, Holds
  <2>2. Answered(c)
    BY <1>21 DEF Resend, Lost, Answered
  <2>3. sent'[c] = sent[c] \cup {"200"}
    BY <1>1, <1>21 DEF Resend, Sends, TypeOK
  <2>4. Refused(c)' <=> Refused(c)
    BY <2>1, <2>3 DEF Refused
  <2>5. QED
    BY <1>2, <1>5, <1>21, <2>2, <2>3, <2>4 DEF Resend, Sound
<1>22. CASE GiveUp(c)
  <2>1. \A s : Holds(c, s)' <=> Holds(c, s)
    BY <1>22 DEF GiveUp, Holds
  <2>2. CASE last[c] = "100"
    BY <1>1, <1>2, <1>5, <1>22, <2>1, <2>2 DEF GiveUp, Answered, Refused, Sound, TypeOK
  <2>3. CASE last[c] # "100"
    <3>1. CloseBeforeAck(c) => CloseBeforeAck(c)'
      BY <1>1, <1>22, <2>3, ReportKeepsOrder DEF GiveUp, TypeOK, EventType
    <3>2. Queued(Ev("CANCELLED", c))' => Queued(Ev("CANCELLED", c))
      BY <1>1, <1>22, <2>3, ReportedOnly DEF GiveUp, TypeOK, EventType
    <3>3. /\ dialog'[c] = "null" /\ sent'[c] = sent[c] \cup {"bye"} /\ d200Ok'[c] = "none"
          /\ UNCHANGED <<map, media, cancel>>
      BY <1>1, <1>22, <2>3 DEF GiveUp, Sends, TypeOK
    <3>4. QED
      BY <1>2, <1>11, <2>1, <3>1, <3>2, <3>3 DEF Answers, Uncancelled, Answered, Refused, Sound
  <2>4. QED
    BY <2>2, <2>3
<1>23. QED
  BY <1>6, <1>7, <1>9, <1>10, <1>12, <1>13, <1>14, <1>15, <1>16, <1>18, <1>19, <1>20,
     <1>21, <1>22
     DEF Runs, IstExecute

LEMMA StackLocal ==
    ASSUME CallInv, NEW c \in Call, NEW d \in Call \ {c}, Answers(d),
           \/ RecvInvite(c) \/ RecvInviteAgain(c) \/ RecvCancel(c) \/ RecvAck(c)
           \/ RecvAckOfFailure(c) \/ RecvBye(c)
           \/ Runs(c) \/ RingTimeout(c) \/ Resend(c) \/ GiveUp(c)
    PROVE  Answers(d)'
<1>1. Same(d) /\ map' = map /\ app' = app
  <2>1. CASE RecvInvite(c)
    BY <2>1 DEF RecvInvite, Sends, Same, CallInv, TypeOK, dialogs, requests, application
  <2>2. CASE ~RecvInvite(c)
    BY <2>2, StackIsSound DEF Sound
  <2>3. QED
    BY <2>1, <2>2
<1>2. media' = media
  BY DEF RecvInvite, RecvInviteAgain, RecvCancel, RecvAck, RecvAckOfFailure, ProcessAck, RecvBye,
         Runs, NistExecute, IstExecute, IstSends200, IstSendsFailure, IstDrops, IstTimeout,
         ReleaseFinished, ReleaseCall, TimerPasses, RingTimeout, Resend, GiveUp, application
<1>3. Appends(c)
  BY DEF RecvInvite, RecvInviteAgain, RecvCancel, RecvAck, RecvAckOfFailure, ProcessAck, RecvBye,
         Runs, NistExecute, IstExecute, IstSends200, IstSendsFailure, IstDrops, IstTimeout,
         ReleaseFinished, ReleaseCall, TimerPasses, RingTimeout, Resend, GiveUp,
         Appends, EventType
<1>4. Local(d)
  BY <1>1, <1>2, <1>3, AppendsLocal DEF Local, At, CallInv, TypeOK
<1>5. QED
  BY <1>4, LocalKeeps

-----------------------------------------------------------------------------
(* A new call, and the application *)

LEMMA RecvInviteAnswers ==
    ASSUME CallInv, NEW c \in Call, Answers(c), RecvInvite(c)
    PROVE  Answers(c)'
<1>1. TypeOK /\ ist[c] = "none"
  BY DEF CallInv, RecvInvite
<1>2. /\ dialog'[c] = "early" /\ sent'[c] \subseteq {"100"}
      /\ fifo'[c] = <<>> /\ d200Ok'[c] = "none"
      /\ c \notin map' /\ media' = media /\ app' = app
  BY <1>1 DEF RecvInvite, Sends, CallInv, Fresh, TypeOK, application
<1>3. \A t \in EventType : ~Queued(Ev(t, c))
  BY <1>1, EvIsEvent, EvFields DEF CallInv, Fresh
<1>4. \A t \in EventType \ {"INVITE"} : ~Queued(Ev(t, c))'
  BY <1>1, <1>3, ReportedOnly DEF RecvInvite, TypeOK, EventType
<1>5. CloseBeforeAck(c)'
  BY <1>4, BeforeNone DEF CloseBeforeAck, Queued, Within, EventType
<1>6. ~Answered(c)' /\ ~Refused(c)' /\ ~Kept(c)'
  <2>1. \A step \in Step : ~At(step, c)'
    BY <1>1, <1>2 DEF CallInv, Fresh, At
  <2>2. QED
    BY <1>2, <2>1 DEF Answered, Refused, Holds, Kept, Step
<1>7. c \notin media
  BY <1>1 DEF Answers, CallInv, Fresh
<1>8. QED
  BY <1>2, <1>4, <1>5, <1>6, <1>7 DEF Answers, Uncancelled, EventType

\* What is so while the application has a call in hand.
LEMMA InHand ==
    ASSUME CallInv, NEW c \in Call, NEW s \in Step, At(s, c)
    PROVE  /\ c \notin map /\ ~Queued(Ev("INVITE", c))
           /\ \A t : At(t, c) => t = s
           /\ \A d \in Call \ {c} : \A t : ~At(t, d)
           /\ ist[c] # "none"
BY DEF CallInv, InviteOnce, Fresh, At

LEMMA DecisionLocal ==
    ASSUME CallInv, NEW c \in Call, NEW d \in Call \ {c}, Answers(d),
           SessionMade(c) \/ Check200(c) \/ Add200(c) \/ Insert(c) \/ Terminate(c) \/ Add603(c)
    PROVE  Answers(d)'
<1> USE DEF transaction, dialogs, requests
<1>1. Same(d) /\ queue' = queue /\ media' = media /\ map' \in {map, map \cup {c}}
  BY DEF SessionMade, Check200, Add200, Insert, Terminate, Add603, Same, Queues, Sends,
         CallInv, TypeOK
<1>2. \A step \in Step : ~At(step, d) /\ ~At(step, d)'
  BY DEF SessionMade, Check200, Add200, Insert, Terminate, Add603, At, GoTo, Waits
<1>3. Local(d)
  BY <1>1, <1>2 DEF Local, Queued, CloseBeforeAck
<1>4. QED
  BY <1>3, LocalKeeps

LEMMA DecisionAnswers ==
    ASSUME CallInv, NEW c \in Call, Answers(c),
           SessionMade(c) \/ Check200(c) \/ Add200(c) \/ Insert(c) \/ Terminate(c) \/ Add603(c)
    PROVE  Answers(c)'
<1> USE DEF transaction, dialogs, requests
<1>1. TypeOK
  BY DEF CallInv
<1>2. /\ queue' = queue /\ cancel' = cancel /\ media' = media /\ ist' = ist
      /\ \A e : Queued(e)' <=> Queued(e)
      /\ CloseBeforeAck(c)' <=> CloseBeforeAck(c)
  BY QuietQueue DEF SessionMade, Check200, Add200, Insert, Terminate, Add603
<1>3. CASE SessionMade(c) \/ Check200(c)
  <2>1. PICK s \in {"invite", "check200"} : At(s, c)
    BY <1>3 DEF SessionMade, Check200
  <2>2. /\ Undecided(c) /\ ~Kept(c) /\ c \notin map'
        /\ \A r : Holds(c, r)' <=> Holds(c, r)
        /\ UNCHANGED <<sent, dialog, d200Ok>>
    BY <1>3, <2>1, InHand DEF Undecided, Kept, Step, SessionMade, Check200, Holds
  <2>3. CASE At("insert", c)'
    BY <1>2, <2>2, <2>3, InHand DEF Answers, Uncancelled, Deciding, Kept, Answered, Refused, Gone
  <2>4. CASE ~At("insert", c)'
    BY <1>2, <2>2, <2>4 DEF Answers, Uncancelled, Deciding, Kept, Answered, Refused, Gone
  <2>5. QED
    BY <2>3, <2>4
<1>4. CASE Add200(c)
  <2>1. At("add200", c) /\ At("insert", c)' /\ map' = map /\ sent' = sent
    BY <1>4 DEF Add200, At, GoTo
  <2>2. Deciding(c) /\ ~Gone(c) /\ Kept(c)' /\ c \notin map
    BY <2>1, InHand DEF Deciding, Undecided, Gone, Kept, Step
  <2>3. ~Deciding(c)'
    <3>1. ~Queued(Ev("INVITE", c))'
      BY <1>2, <2>1, InHand DEF Step
    <3>2. QED
      BY <2>1, <3>1 DEF Deciding, Undecided, At
  <2>4. Refused(c)' <=> Refused(c)
    BY <1>1, <1>4, <2>1, HoldsQueued DEF Add200, Refused
  <2>5. dialog'[c] = "null" <=> dialog[c] = "null"
    BY <1>1, <1>4 DEF Add200, TypeOK
  <2>6. dialog'[c] # "none"
    BY <1>1, <1>4 DEF Add200, TypeOK
  <2>7. QED
    BY <1>2, <2>1, <2>2, <2>3, <2>4, <2>5, <2>6 DEF Answers, Uncancelled
<1>5. CASE Insert(c)
  <2>1. At("insert", c) /\ c \in map' /\ UNCHANGED <<fifo, sent, dialog, d200Ok>> /\ Waits
    BY <1>5 DEF Insert
  <2>2. Kept(c) /\ Kept(c)'
    BY <2>1 DEF Kept
  <2>3. ~Deciding(c)'
    <3>1. ~Queued(Ev("INVITE", c))'
      BY <1>2, <2>1, InHand DEF Step
    <3>2. QED
      BY <2>1, <3>1 DEF Deciding, Undecided, At, Waits
  <2>4. (Answered(c)' <=> Answered(c)) /\ (Refused(c)' <=> Refused(c))
    BY <2>1 DEF Answered, Refused, Holds
  <2>5. QED
    BY <1>2, <2>1, <2>2, <2>3, <2>4 DEF Answers, Uncancelled, Gone
<1>6. CASE Terminate(c)
  <2>1. At("terminate", c) /\ UNCHANGED <<fifo, d200Ok, map>> /\ (GoTo("add603", c) \/ Waits)
    BY <1>6 DEF Terminate
  <2>2. Deciding(c) /\ ~Kept(c) /\ ~Kept(c)' /\ c \notin map
    <3>1. c \notin map
      BY <2>1, InHand DEF Step
    <3>2. ~At("insert", c) /\ ~At("insert", c)'
      BY <2>1 DEF At, GoTo, Waits
    <3>3. QED
      BY <2>1, <3>1, <3>2 DEF Deciding, Kept
  <2>3. sent'[c] \in {sent[c], sent[c] \cup {"bye"}} /\ dialog'[c] \in {dialog[c], "null"}
    BY <1>1, <1>6 DEF Terminate, Sends, TypeOK
  <2>4. (Answered(c)' <=> Answered(c)) /\ (Refused(c)' <=> Refused(c))
    BY <2>1, <2>3 DEF Answered, Refused, Holds
  <2>5. Gone(c) /\ Gone(c)'
    <3>1. ~Queued(Ev("INVITE", c))' /\ ~Queued(Ev("INVITE", c))
      BY <1>2, <2>1, InHand DEF Step
    <3>2. QED
      BY <2>1, <2>2, <3>1 DEF Gone, Undecided, At, GoTo, Waits
  <2>6. QED
    BY <1>2, <2>1, <2>2, <2>3, <2>4, <2>5 DEF Answers, Uncancelled
<1>7. CASE Add603(c)
  <2>1. At("add603", c) /\ UNCHANGED <<sent, dialog, d200Ok, map>> /\ Waits
    BY <1>7 DEF Add603
  <2>2. Deciding(c) /\ ~Kept(c) /\ ~Kept(c)' /\ c \notin map
    BY <2>1, InHand DEF Deciding, Kept, Step, At, Waits
  <2>3. ~Queued(Ev("INVITE", c))'
    BY <1>2, <2>1, InHand DEF Step
  <2>4. ~Deciding(c)' /\ Gone(c)'
    BY <2>1, <2>2, <2>3 DEF Deciding, Gone, Undecided, At, Waits
  <2>5. Answered(c)' <=> Answered(c)
    BY <1>1, <1>7, <2>1, HoldsQueued DEF Add603, Answered
  <2>6. QED
    BY <1>2, <2>1, <2>2, <2>4, <2>5 DEF Answers, Uncancelled
<1>8. QED
  BY <1>3, <1>4, <1>5, <1>6, <1>7

LEMMA TakingAnswers ==
    ASSUME CallInv, NEW c \in Call, \A d \in Call : Answers(d),
           TakeInvite(c) \/ TakeAck(c) \/ TakeClose(c) \/ TakeOther(c)
    PROVE  \A d \in Call : Answers(d)'
<1> USE DEF transaction, dialogs, requests, application
<1>1. PICK type \in EventType :
           /\ Takes(type, c)
           /\ type = "INVITE" => GoTo("invite", c) /\ UNCHANGED <<map, media>>
           /\ type = "ACK" => UNCHANGED <<app, map>> /\ media' \in {media, media \cup ({c} \cap map)}
           /\ type \in {"CANCELLED", "CLOSED"} =>
                  app' = app /\ map' = map \ {c} /\ media' = media \ {c}
           /\ type \notin {"INVITE", "ACK", "CANCELLED", "CLOSED"} => UNCHANGED <<app, map, media>>
  BY DEF TakeInvite, TakeAck, TakeClose, TakeOther, EventType
<1>2. UNCHANGED <<ist, fifo, last, sent, dialog, d200Ok, cancel, bye>>
  BY DEF TakeInvite, TakeAck, TakeClose, TakeOther
<1>3. /\ queue \in Seq(Event) /\ queue # <<>> /\ Head(queue) = Ev(type, c) /\ queue' = Tail(queue)
      /\ Queued(Ev(type, c))
      /\ \A e \in Event : Queued(e) <=> e = Ev(type, c) \/ Queued(e)'
      /\ ~Queued(Ev("INVITE", c))'
  BY <1>1, TakesFacts DEF CallInv, TypeOK, Takes
<1>4. \A t \in EventType, d \in Call : Ev(t, d) \in Event
  BY EvIsEvent
<1>5. \A step \in Step, d \in Call : ~At(step, d)
  BY <1>1, NotResting DEF Takes
<1>6. \A step \in Step, d \in Call : At(step, d)' => d = c /\ step = "invite" /\ type = "INVITE"
  BY <1>1, <1>5 DEF At, GoTo
<1>7. \A d \in Call : d # c \/ type # "CLOSED" => (CloseBeforeAck(d) => CloseBeforeAck(d)')
  <2> SUFFICES ASSUME NEW d \in Call, d # c \/ type # "CLOSED", CloseBeforeAck(d)
               PROVE  CloseBeforeAck(d)'
    OBVIOUS
  <2>1. Head(queue) # Ev("CLOSED", d)
    BY <1>3, EvFields
  <2>2. QED
    BY <1>3, <2>1, BeforeTail DEF CloseBeforeAck
<1>8. ASSUME NEW d \in Call \ {c} PROVE Answers(d)'
  <2>1. Same(d)
    BY <1>2 DEF Same
  <2>2. \A t \in EventType : Queued(Ev(t, d))' <=> Queued(Ev(t, d))
    BY <1>3, <1>4, EvFields
  <2>3. ((d \in map)' <=> d \in map) /\ ((d \in media)' <=> d \in media)
    BY <1>1 DEF EventType
  <2>4. QED
    BY <1>5, <1>6, <1>7, <2>1, <2>2, <2>3, LocalKeeps DEF Local
<1>9. Answers(c)'
  <2>1. /\ \A t \in EventType : Queued(Ev(t, c))' => Queued(Ev(t, c))
        /\ \A r : Holds(c, r)' <=> Holds(c, r)
    BY <1>2, <1>3, <1>4 DEF Holds
  <2>2. (Answered(c)' <=> Answered(c)) /\ (Refused(c)' <=> Refused(c))
    BY <1>2, <2>1 DEF Answered, Refused
  <2>3. CASE type \in {"CANCELLED", "CLOSED"}
    <3>1. c \notin map' /\ c \notin media' /\ \A step \in Step : ~At(step, c)'
      BY <1>1, <1>6, <2>3
    <3>2. Gone(c)' /\ ~Kept(c)' /\ ~Deciding(c)'
      BY <1>3, <3>1 DEF Gone, Kept, Deciding, Undecided, Step
    <3>3. cancel[c] = "none" => dialog[c] = "null"
      BY <1>3, <2>3 DEF Answers, Uncancelled
    <3>4. QED
      BY <1>2, <2>1, <2>2, <3>1, <3>2, <3>3 DEF Answers, Uncancelled, EventType
  <2>4. CASE type \notin {"CANCELLED", "CLOSED"}
    <3>1. /\ Queued(Ev("CLOSED", c))' <=> Queued(Ev("CLOSED", c))
          /\ Queued(Ev("CANCELLED", c))' <=> Queued(Ev("CANCELLED", c))
      BY <1>3, <1>4, <2>4, EvFields DEF EventType
    <3>2. /\ Undecided(c)' => Undecided(c)
          /\ Deciding(c)' => Deciding(c)
          /\ Kept(c)' <=> Kept(c)
          /\ c \in map' <=> c \in map
      <4>1. c \in map' <=> c \in map
        BY <1>1, <2>4 DEF EventType
      <4>2. type = "INVITE" => Queued(Ev("INVITE", c))
        BY <1>3
      <4>3. QED
        BY <1>3, <1>5, <1>6, <4>1, <4>2 DEF Undecided, Deciding, Kept, Step
    <3>3. Gone(c) => Gone(c)'
      BY <3>2 DEF Gone
    <3>4. c \in media' => c \in map' /\ "200" \in sent[c]
      <4>1. CASE type = "ACK" /\ c \in map
        <5>1. ~Gone(c) /\ ~CloseBeforeAck(c)
          BY <1>3, <4>1, BeforeTail DEF Gone, Kept, CloseBeforeAck
        <5>2. QED
          BY <3>2, <4>1, <5>1 DEF Answers
      <4>2. CASE type # "ACK" \/ c \notin map
        BY <1>1, <2>4, <3>2, <4>2 DEF Answers, EventType
      <4>3. QED
        BY <4>1, <4>2
    <3>5. QED
      BY <1>2, <1>7, <2>2, <2>4, <3>1, <3>2, <3>3, <3>4 DEF Answers, Uncancelled
  <2>5. QED
    BY <2>3, <2>4
<1>10. QED
  BY <1>8, <1>9

LEMMA QuietAnswers ==
    ASSUME CallInv, \A d \in Call : Answers(d), Lock \/ Unlock \/ UNCHANGED vars
    PROVE  \A d \in Call : Answers(d)'
<1> USE DEF transaction, dialogs, requests, application
<1>1. UNCHANGED <<ist, fifo, last, sent, dialog, d200Ok, cancel, bye, queue, map, media>>
  BY DEF Lock, Unlock, vars
<1>2. \A step \in Step, d \in Call : At(step, d)' <=> At(step, d)
  BY NotResting DEF Lock, Unlock, Waits, At, Step, vars
<1>3. \A d \in Call : Local(d)
  BY <1>1, <1>2 DEF Local, Same, Queued, CloseBeforeAck
<1>4. QED
  BY <1>3, LocalKeeps

-----------------------------------------------------------------------------

LEMMA AnswerInvInit == Init => AnswerInv
<1> SUFFICES ASSUME Init, NEW c \in Call PROVE Answers(c)
  BY CallInvInit DEF AnswerInv
<1>1. \A e : ~Queued(e)
  BY DEF Init, Queued
<1>2. CloseBeforeAck(c)
  BY DEF Init, CloseBeforeAck, Before
<1>3. ~Kept(c) /\ ~Answered(c) /\ ~Refused(c)
  BY NotResting DEF Init, Kept, Step, Answered, Refused, Holds
<1>4. QED
  BY <1>1, <1>2, <1>3 DEF Init, Answers, Uncancelled

LEMMA AnswerInvNext == AnswerInv /\ TypeOK' /\ [Next]_vars => AnswerInv'
<1> SUFFICES ASSUME AnswerInv, TypeOK', [Next]_vars PROVE AnswerInv'
  OBVIOUS
<1>1. CallInv'
  BY CallInvNext DEF AnswerInv
<1> DEFINE All == \A d \in Call : Answers(d)
<1>2. ASSUME NEW c \in Call, StackThread(c) \/ Resend(c) \/ GiveUp(c) PROVE All'
  <2>1. CASE RecvInvite(c)
    BY <2>1, RecvInviteAnswers, StackLocal DEF AnswerInv
  <2>2. CASE ~RecvInvite(c)
    BY <1>2, <2>2, StackAnswers, StackLocal DEF AnswerInv, StackThread, Arrives
  <2>3. QED
    BY <2>1, <2>2
<1>3. ASSUME NEW c \in Call,
             SessionMade(c) \/ Check200(c) \/ Add200(c) \/ Insert(c) \/ Terminate(c) \/ Add603(c)
      PROVE  All'
  BY <1>3, DecisionLocal, DecisionAnswers DEF AnswerInv
<1>4. ASSUME NEW c \in Call, TakeInvite(c) \/ TakeAck(c) \/ TakeClose(c) \/ TakeOther(c)
      PROVE  All'
  BY <1>4, TakingAnswers DEF AnswerInv
<1>5. ASSUME Lock \/ Unlock \/ UNCHANGED vars PROVE All'
  BY <1>5, QuietAnswers DEF AnswerInv
<1>6. All'
  <2> HIDE DEF All
  <2>1. CASE AppThread
    BY <1>2, <1>3, <1>4, <1>5, <2>1 DEF AppThread
  <2>2. QED
    BY <1>2, <1>5, <2>1 DEF Next
<1>7. QED
  BY <1>1, <1>6 DEF AnswerInv

LEMMA AnswerInvHolds == Safety => []AnswerInv
BY AnswerInvInit, AnswerInvNext, CallTypeOK, PTL DEF Safety

\* A caller that was told 200, and did not cancel, has its session as soon as the
\* application has caught up, however many calls there are.
THEOREM AnsweredHaveSession == Safety => []AnsweredHasSession
<1>1. AnswerInv => AnsweredHasSession
  <2> SUFFICES ASSUME AnswerInv, NEW c \in Call, dialog[c] = "confirmed", cancel[c] = "none",
                      app.at = "wait"
               PROVE  c \in map
    BY DEF AnsweredHasSession
  <2>1. Kept(c)
    BY DEF AnswerInv, Answers, Uncancelled
  <2>2. QED
    BY <2>1, NotResting DEF Kept, Step
<1>2. QED
  BY <1>1, AnswerInvHolds, PTL

\* Media runs only for a session in g_sessionMap, of a call whose 200 went out.
THEOREM MediaHaveSession == Safety => []MediaHasSession
<1>1. AnswerInv => MediaHasSession
  BY DEF AnswerInv, CallInv, TypeOK, Answers, MediaHasSession
<1>2. QED
  BY <1>1, AnswerInvHolds, PTL

\* The caller never has a 200 and a failure unless it cancelled.
THEOREM TwoFinalsNeedCancel == Safety => []TwoFinalsOnlyOnCancel
<1>1. AnswerInv => TwoFinalsOnlyOnCancel
  BY DEF AnswerInv, Answers, Uncancelled, Answered, Refused, TwoFinalsOnlyOnCancel
<1>2. QED
  BY <1>1, AnswerInvHolds, PTL
=============================================================================
