--------------------------- MODULE InDialogProofs ---------------------------
(***************************************************************************)
(* A call that is up, for any number of requests and of transactions they  *)
(* make: requests are reported once and in order, since none is reported   *)
(* above remote_cseq; the session ends only with the dialog or for a       *)
(* CANCEL, since the events that end it wait in the queue for one of the   *)
(* two; and no transaction is answered twice.                              *)
(***************************************************************************)
EXTENDS InDialog, TLAPS

Event == [type : EventType, tr : Tr \cup {0}]

\* the events there may be, as the dialog and the CANCELs stand
Founded == {e \in Event : /\ e.type = "CANCELLED" => cancel # {}
                          /\ e.type = "CLOSED" => dialog = "null"}

QueueFounded == queue \in Seq(Founded)

ReportedBelowRemote == \A i \in DOMAIN reported : reported[i] <= remote

DialogInv ==
    /\ TypeOK /\ QueueFounded
    /\ ReportedOnceInOrder /\ ReportedBelowRemote
    /\ SessionLastsAsDialog

-----------------------------------------------------------------------------
(* Sequences *)

LEMMA SeqGrows ==
    ASSUME NEW S, NEW T, S \subseteq T, NEW q \in Seq(S)
    PROVE  q \in Seq(T)
OBVIOUS

LEMMA AppendIn ==
    ASSUME NEW S, NEW q \in Seq(S), NEW e \in S
    PROVE  Append(q, e) \in Seq(S)
OBVIOUS

LEMMA ConcatIn ==
    ASSUME NEW S, NEW q \in Seq(S), NEW r \in Seq(S)
    PROVE  q \o r \in Seq(S)
OBVIOUS

LEMMA TailIn ==
    ASSUME NEW S, NEW q \in Seq(S), q # <<>>
    PROVE  Head(q) \in S /\ Tail(q) \in Seq(S)
OBVIOUS

LEMMA ElementIn ==
    ASSUME NEW S, NEW q \in Seq(S), NEW i \in DOMAIN q
    PROVE  q[i] \in S
OBVIOUS

LEMMA ReqIsInt == Req \subseteq Int
BY DEF Req

\* A number above all of an increasing sequence may follow it.
LEMMA AppendIncreases ==
    ASSUME NEW s \in Seq(Int), NEW r \in Int, NEW n \in Int, r > n,
           \A i \in DOMAIN s : s[i] <= n,
           \A a, b \in DOMAIN s : a < b => s[a] < s[b]
    PROVE  /\ \A i \in DOMAIN Append(s, r) : Append(s, r)[i] <= r
           /\ \A a, b \in DOMAIN Append(s, r) : a < b => Append(s, r)[a] < Append(s, r)[b]
<1>1. /\ DOMAIN s = 1..Len(s) /\ Len(s) \in Nat
      /\ DOMAIN Append(s, r) = 1..(Len(s) + 1)
      /\ \A i \in 1..Len(s) : Append(s, r)[i] = s[i] /\ s[i] \in Int
      /\ Append(s, r)[Len(s) + 1] = r
  OBVIOUS
<1>2. ASSUME NEW i \in 1..(Len(s) + 1) PROVE Append(s, r)[i] <= r
  BY <1>1
<1>3. ASSUME NEW a \in 1..(Len(s) + 1), NEW b \in 1..(Len(s) + 1), a < b
      PROVE  Append(s, r)[a] < Append(s, r)[b]
  <2>1. a \in 1..Len(s) /\ (b \in 1..Len(s) \/ b = Len(s) + 1)
    <3>1. Len(s) \in Nat
      BY <1>1
    <3>2. \A k \in Nat : \A x, y \in 1..(k + 1) :
             x < y => x \in 1..k /\ (y \in 1..k \/ y = k + 1)
      OBVIOUS
    <3>3. QED
      BY <1>3, <3>1, <3>2
  <2>2. QED
    BY <1>1, <1>3, <2>1
<1>4. QED
  BY <1>1, <1>2, <1>3

-----------------------------------------------------------------------------
(* Types of what the actions are built from *)

LEMMA EventTypes ==
    ASSUME NEW t \in Tr \cup {0}
    PROVE  \A type \in EventType : Ev(type, t) \in Event /\ Ev(type, t).type = type
BY DEF Ev, Event

States == {"none", "trying", "proceeding", "answering", "completed", "over", "lost"}

LEMMA EntersType ==
    ASSUME TypeOK, NEW t \in Tr, NEW s \in States, Enters(t, s)
    PROVE  state' \in [Tr -> States]
BY DEF TypeOK, Enters, States

LEMMA RespondsType ==
    ASSUME TypeOK, NEW t \in Tr, NEW s \in States, Responds(t, s)
    PROVE  state' \in [Tr -> States]
BY EntersType DEF Responds, States

LEMMA MakesType ==
    ASSUME TypeOK, NEW r \in Req, NEW t \in Tr, NEW list \in {"dialog", "stack", "nobody"},
           Makes(r, t, list)
    PROVE  /\ cseq' \in [Tr -> Req \cup {0}]
           /\ owner' \in [Tr -> {"none", "dialog", "stack", "nobody", "freed"}]
BY DEF TypeOK, Makes

LEMMA InOrderType ==
    ASSUME NEW r \in Req, InOrder(r)
    PROVE  remote' \in 0..MaxReq
BY BoundAssumption DEF InOrder, Req

-----------------------------------------------------------------------------
(* A request is received *)

\* what a request may do that is not reported as being of the call
LEMMA DefaultAnswerKeeps ==
    ASSUME DialogInv, NEW r \in Req, NEW t \in Tr, DefaultAnswer(r, t),
           remote' = remote \/ (remote' \in 0..MaxReq /\ remote' >= remote)
    PROVE  DialogInv'
<1>1. /\ state' \in [Tr -> States] /\ cseq' \in [Tr -> Req \cup {0}]
      /\ owner' \in [Tr -> {"none", "dialog", "stack", "nobody", "freed"}]
  BY MakesType, RespondsType DEF DefaultAnswer, States, DialogInv
<1>2. queue' \in Seq(Event) /\ QueueFounded'
  <2>1. Founded' = Founded
    BY DEF DefaultAnswer, Founded
  <2>2. Ev("OUTSIDE", t) \in Founded /\ Founded \subseteq Event
    BY EventTypes DEF Founded, EventType
  <2>3. queue' = queue \/ queue' = Append(queue, Ev("OUTSIDE", t))
    BY DEF DefaultAnswer
  <2>4. queue' \in Seq(Founded)
    BY <2>2, <2>3, AppendIn DEF DialogInv, QueueFounded
  <2>5. QED
    BY <2>1, <2>2, <2>4, SeqGrows DEF QueueFounded
<1>3. TypeOK'
  BY <1>1, <1>2 DEF DefaultAnswer, DialogInv, TypeOK, appVars, States, Event
<1>4. ReportedBelowRemote'
  <2>1. \A i \in DOMAIN reported : reported[i] \in Int
    BY ElementIn, ReqIsInt DEF DialogInv, TypeOK
  <2>2. remote \in Int /\ remote' \in Int /\ remote <= remote' /\ reported' = reported
    BY DEF DefaultAnswer, DialogInv, TypeOK
  <2>3. QED
    BY <2>1, <2>2 DEF DialogInv, ReportedBelowRemote
<1>5. ReportedOnceInOrder' /\ SessionLastsAsDialog'
  BY DEF DefaultAnswer, DialogInv, ReportedOnceInOrder, SessionLastsAsDialog, appVars
<1>6. QED
  BY <1>2, <1>3, <1>4, <1>5 DEF DialogInv

\* A request that is reported takes its CSeq, which is above all reported before.
LEMMA ReportedKeeps ==
    ASSUME DialogInv, NEW r \in Req, NEW t \in Tr, NEW events \in Seq(Founded'),
           InOrder(r), Makes(r, t, "dialog"), state' \in [Tr -> States],
           Reported(r, t, events), dialog' \in {dialog, "null"}
    PROVE  DialogInv'
<1>1. Founded \subseteq Founded' /\ Founded' \subseteq Event
  BY DEF Reported, Founded, Event, InOrder
<1>2. QueueFounded' /\ queue' \in Seq(Event)
  <2>1. queue' \in Seq(Founded')
    BY <1>1, SeqGrows, ConcatIn DEF Reported, DialogInv, QueueFounded
  <2>2. QED
    BY <1>1, <2>1, SeqGrows DEF QueueFounded
<1>3. reported' = Append(reported, r) /\ reported \in Seq(Req)
  BY DEF Reported, DialogInv, TypeOK
<1>4. TypeOK'
  <2>1. reported' \in Seq(Req)
    BY <1>3, AppendIn
  <2>2. QED
    BY <1>2, <2>1, MakesType, InOrderType
       DEF Reported, DialogInv, TypeOK, appVars, States, Event
<1>5. ReportedOnceInOrder' /\ ReportedBelowRemote'
  <2>1. reported \in Seq(Int) /\ r \in Int /\ remote \in Int /\ r > remote /\ remote' = r
    <3>1. reported \in Seq(Int)
      BY <1>3, ReqIsInt, SeqGrows
    <3>2. QED
      BY <3>1, ReqIsInt DEF InOrder, DialogInv, TypeOK
  <2>2. QED
    BY <1>3, <2>1, AppendIncreases
       DEF DialogInv, ReportedOnceInOrder, ReportedBelowRemote
<1>6. SessionLastsAsDialog'
  BY DEF Reported, DialogInv, SessionLastsAsDialog, appVars
<1>7. QED
  BY <1>2, <1>4, <1>5, <1>6 DEF DialogInv

LEMMA ReceiveKeeps ==
    ASSUME DialogInv, NEW r \in Req, NEW t \in Tr, Receive(r, t)
    PROVE  DialogInv'
<1>1. CASE RcvOld(r, t) \/ RcvLate(r, t)
  BY <1>1, DefaultAnswerKeeps DEF RcvOld, RcvLate
<1>2. CASE RcvInviteTooSoon(r, t)
  <2>1. remote' \in 0..MaxReq /\ remote' >= remote
    BY <1>2, InOrderType DEF RcvInviteTooSoon, InOrder, DialogInv, TypeOK, Req
  <2>2. QED
    BY <1>2, <2>1, DefaultAnswerKeeps DEF RcvInviteTooSoon
<1>3. CASE RcvReinvite(r, t)
  <2>1. state' \in [Tr -> States]
    BY <1>3, RespondsType DEF RcvReinvite, States, DialogInv
  <2>2. Ev("REINVITE", t) \in Founded'
    BY EventTypes DEF Founded, EventType
  <2>3. <<Ev("REINVITE", t)>> \in Seq(Founded')
    BY <2>2
  <2>4. QED
    BY <1>3, <2>1, <2>3, ReportedKeeps DEF RcvReinvite
<1>4. CASE RcvMessage(r, t)
  <2>1. state' \in [Tr -> States]
    BY <1>4, EntersType DEF RcvMessage, States, DialogInv
  <2>2. Ev("MESSAGE_NEW", t) \in Founded'
    BY EventTypes DEF Founded, EventType
  <2>3. <<Ev("MESSAGE_NEW", t)>> \in Seq(Founded')
    BY <2>2
  <2>4. QED
    BY <1>4, <2>1, <2>3, ReportedKeeps DEF RcvMessage
<1>5. CASE RcvBye(r, t)
  <2>1. state' \in [Tr -> States]
    BY <1>5, RespondsType DEF RcvBye, States, DialogInv
  <2>2. Ev("MESSAGE_NEW", t) \in Founded' /\ Ev("CLOSED", t) \in Founded'
    BY <1>5, EventTypes DEF Founded, EventType, RcvBye
  <2>3. <<Ev("MESSAGE_NEW", t), Ev("CLOSED", t)>> \in Seq(Founded')
    BY <2>2
  <2>4. QED
    BY <1>5, <2>1, <2>3, ReportedKeeps DEF RcvBye
<1>6. CASE RcvLateInvite(r, t)
  <2>1. /\ state' \in [Tr -> States] /\ cseq' \in [Tr -> Req \cup {0}]
        /\ owner' \in [Tr -> {"none", "dialog", "stack", "nobody", "freed"}]
    BY <1>6, MakesType, RespondsType DEF RcvLateInvite, States, DialogInv
  <2>2. QED
    BY <1>6, <2>1
       DEF RcvLateInvite, DialogInv, TypeOK, QueueFounded, Founded, ReportedOnceInOrder,
           ReportedBelowRemote, SessionLastsAsDialog, callVars, appVars, States
<1>7. CASE RcvOutside(r, t)
  <2>1. state' \in [Tr -> States]
    BY <1>7, EntersType DEF RcvOutside, States, DialogInv
  <2>2. Founded' = Founded /\ Founded \subseteq Event /\ Ev("OUTSIDE", t) \in Founded
    BY <1>7, EventTypes DEF RcvOutside, Founded, EventType, callVars
  <2>3. QueueFounded' /\ queue' \in Seq(Event)
    BY <1>7, <2>2, AppendIn, SeqGrows DEF RcvOutside, DialogInv, QueueFounded
  <2>4. TypeOK'
    BY <1>7, <2>1, <2>3, MakesType
       DEF RcvOutside, DialogInv, TypeOK, callVars, appVars, States, Event
  <2>5. QED
    BY <1>7, <2>3, <2>4
       DEF RcvOutside, DialogInv, ReportedOnceInOrder, ReportedBelowRemote,
           SessionLastsAsDialog, callVars, appVars
<1>8. QED
  BY <1>1, <1>2, <1>3, <1>4, <1>5, <1>6, <1>7 DEF Receive

-----------------------------------------------------------------------------
(* The other steps *)

\* What leaves the queue, or adds a founded event, and reports no request.
LEMMA OtherKeeps ==
    ASSUME DialogInv, TypeOK', UNCHANGED <<remote, dialog, reported>>,
           cancel \subseteq cancel', queue' \in Seq(Founded'),
           session' = session \/ dialog = "null" \/ cancel # {}
    PROVE  DialogInv'
<1>1. QueueFounded'
  BY DEF QueueFounded
<1>2. ReportedOnceInOrder' /\ ReportedBelowRemote'
  BY DEF DialogInv, ReportedOnceInOrder, ReportedBelowRemote
<1>3. SessionLastsAsDialog'
  BY DEF DialogInv, SessionLastsAsDialog, TypeOK
<1>4. QED
  BY <1>1, <1>2, <1>3 DEF DialogInv

LEMMA FoundedGrows ==
    ASSUME UNCHANGED dialog, cancel \subseteq cancel'
    PROVE  Founded \subseteq Founded'
BY DEF Founded, Event

\* ... and keeps its queue.
LEMMA QuietKeeps ==
    ASSUME DialogInv, TypeOK', UNCHANGED <<remote, dialog, reported, cancel, queue, session>>
    PROVE  DialogInv'
<1>1. queue' \in Seq(Founded')
  BY FoundedGrows, SeqGrows DEF DialogInv, QueueFounded
<1>2. QED
  BY <1>1, OtherKeeps

LEMMA StateKeeps ==
    ASSUME DialogInv, NEW t \in Tr, NEW s \in States, Enters(t, s) \/ Responds(t, s), StateOnly
    PROVE  DialogInv'
<1>1. state' \in [Tr -> States]
  BY EntersType, RespondsType DEF DialogInv
<1>2. TypeOK'
  BY <1>1 DEF DialogInv, TypeOK, StateOnly, callVars, appVars, States
<1>3. QED
  BY <1>2, QuietKeeps DEF StateOnly, callVars, appVars

LEMMA StackKeeps ==
    ASSUME DialogInv, NEW t \in Tr, RcvCancel(t) \/ ResendFails(t) \/ Runs(t)
    PROVE  DialogInv'
<1> USE DEF callVars, appVars, transactions
<1>1. CASE RcvCancel(t)
  <2>1. Founded \subseteq Founded' /\ Ev("CANCELLED", t) \in Founded'
    BY <1>1, FoundedGrows, EventTypes DEF RcvCancel, Founded, EventType
  <2>2. queue' \in Seq(Founded')
    BY <1>1, <2>1, SeqGrows, AppendIn DEF RcvCancel, DialogInv, QueueFounded
  <2>3. queue' \in Seq(Event)
    BY <2>2, SeqGrows DEF Founded
  <2>4. TypeOK'
    BY <1>1, <2>3 DEF RcvCancel, DialogInv, TypeOK, Event
  <2>5. QED
    BY <1>1, <2>2, <2>4, OtherKeeps DEF RcvCancel
<1>2. CASE ResendFails(t)
  BY <1>2, StateKeeps DEF ResendFails, States
<1>3. CASE SndCancelled(t)
  BY <1>3, StateKeeps DEF SndCancelled, States
<1>4. CASE SndAnswer(t)
  BY <1>4, StateKeeps DEF SndAnswer, States
<1>5. CASE Timeout(t)
  BY <1>5, StateKeeps DEF Timeout, States
<1>6. CASE Ages(t)
  <2>1. TypeOK'
    BY <1>6 DEF Ages, DialogInv, TypeOK
  <2>2. QED
    BY <1>6, <2>1, QuietKeeps DEF Ages
<1>7. CASE ReleaseTransaction(t)
  <2>1. TypeOK'
    BY <1>7 DEF ReleaseTransaction, DialogInv, TypeOK
  <2>2. QED
    BY <1>7, <2>1, QuietKeeps DEF ReleaseTransaction
<1>8. CASE FreeTransaction(t)
  <2>1. (IF Ended(t) THEN state[t] ELSE "over") \in States
    BY DEF DialogInv, TypeOK, States
  <2>2. state' \in [Tr -> States]
    BY <1>8, <2>1, EntersType DEF FreeTransaction, DialogInv
  <2>3. TypeOK'
    BY <1>8, <2>2 DEF FreeTransaction, DialogInv, TypeOK, States
  <2>4. QED
    BY <1>8, <2>3, QuietKeeps DEF FreeTransaction
<1>9. QED
  BY <1>1, <1>2, <1>3, <1>4, <1>5, <1>6, <1>7, <1>8 DEF Runs

LEMMA ReleaseCallKeeps == DialogInv /\ ReleaseCall => DialogInv'
<1> SUFFICES ASSUME DialogInv, ReleaseCall PROVE DialogInv'
  OBVIOUS
<1>1. Founded' = Founded /\ Ev("RELEASED", 0) \in Founded
  BY EventTypes DEF ReleaseCall, Founded, EventType
<1>2. queue' \in Seq(Founded)
  BY <1>1, AppendIn DEF ReleaseCall, DialogInv, QueueFounded
<1>3. queue' \in Seq(Event)
  BY <1>2, SeqGrows DEF Founded
<1>4. TypeOK'
  BY <1>3 DEF ReleaseCall, DialogInv, TypeOK, Event, appVars
<1>5. QED
  BY <1>1, <1>2, <1>4, OtherKeeps DEF ReleaseCall, appVars

LEMMA TakesKeeps ==
    ASSUME DialogInv, NEW type, NEW t, Takes(type, t), UNCHANGED <<dialog, cancel>>
    PROVE  /\ queue' \in Seq(Founded') /\ queue' \in Seq(Event)
           /\ type = "CANCELLED" => cancel # {}
           /\ type = "CLOSED" => dialog = "null"
<1>1. Founded' = Founded
  BY DEF Founded
<1>2. queue \in Seq(Founded) /\ queue # <<>>
  BY DEF Takes, DialogInv, QueueFounded
<1>3. Head(queue) \in Founded /\ queue' \in Seq(Founded)
  BY <1>2, TailIn DEF Takes
<1>4. queue' \in Seq(Event)
  BY <1>3, SeqGrows DEF Founded
<1>5. QED
  BY <1>1, <1>3, <1>4 DEF Takes, Founded, Ev

LEMMA AppKeeps == DialogInv /\ App => DialogInv'
<1> SUFFICES ASSUME DialogInv, App PROVE DialogInv'
  OBVIOUS
<1> USE DEF callVars, appVars, transactions
<1>1. ASSUME NEW t, TakeOther(t) PROVE DialogInv'
  <2>1. queue' \in Seq(Founded') /\ queue' \in Seq(Event)
    BY <1>1, TakesKeeps DEF TakeOther
  <2>2. TypeOK'
    BY <1>1, <2>1 DEF TakeOther, DialogInv, TypeOK, Event
  <2>3. QED
    BY <1>1, <2>1, <2>2, OtherKeeps DEF TakeOther
<1>2. ASSUME NEW t \in Tr, TakeMessage(t) PROVE DialogInv'
  <2>1. queue' \in Seq(Founded') /\ queue' \in Seq(Event)
    BY <1>2, TakesKeeps DEF TakeMessage
  <2>2. TypeOK'
    BY <1>2, <2>1 DEF TakeMessage, DialogInv, TypeOK, Event
  <2>3. QED
    BY <1>2, <2>1, <2>2, OtherKeeps DEF TakeMessage
<1>3. ASSUME NEW t \in Tr, Answer(t) PROVE DialogInv'
  <2>1. (IF owner[t] = "dialog" /\ Answerable(t) THEN "answering" ELSE state[t]) \in States
    BY DEF DialogInv, TypeOK, States
  <2>2. state' \in [Tr -> States]
    BY <1>3, <2>1, EntersType DEF Answer, DialogInv
  <2>3. TypeOK'
    BY <1>3, <2>2 DEF Answer, DialogInv, TypeOK, States
  <2>4. QED
    BY <1>3, <2>3, QuietKeeps DEF Answer
<1>4. ASSUME NEW t \in Tr, TakeOutside(t) PROVE DialogInv'
  <2>1. queue' \in Seq(Founded') /\ queue' \in Seq(Event)
    BY <1>4, TakesKeeps DEF TakeOutside
  <2>2. (IF method[cseq[t]] = "OPTIONS" /\ Answerable(t) THEN "answering" ELSE state[t]) \in States
    BY DEF DialogInv, TypeOK, States
  <2>3. state' \in [Tr -> States]
    BY <1>4, <2>2, EntersType DEF TakeOutside, DialogInv
  <2>4. TypeOK'
    BY <1>4, <2>1, <2>3 DEF TakeOutside, DialogInv, TypeOK, Event, States
  <2>5. QED
    BY <1>4, <2>1, <2>4, OtherKeeps DEF TakeOutside
<1>5. ASSUME NEW t \in Tr, TakeClose(t) PROVE DialogInv'
  <2>1. /\ queue' \in Seq(Founded') /\ queue' \in Seq(Event)
        /\ cancel # {} \/ dialog = "null"
    BY <1>5, TakesKeeps DEF TakeClose
  <2>2. TypeOK'
    BY <1>5, <2>1 DEF TakeClose, DialogInv, TypeOK, Event
  <2>3. QED
    BY <1>5, <2>1, <2>2, OtherKeeps DEF TakeClose
<1>6. QED
  BY <1>1, <1>2, <1>3, <1>4, <1>5 DEF App

-----------------------------------------------------------------------------

LEMMA DialogInvInit == Init => DialogInv
<1> SUFFICES ASSUME Init PROVE DialogInv
  OBVIOUS
<1>1. TypeOK
  BY BoundAssumption DEF Init, TypeOK
<1>2. QueueFounded /\ ReportedOnceInOrder /\ ReportedBelowRemote /\ SessionLastsAsDialog
  BY DEF Init, QueueFounded, ReportedOnceInOrder, ReportedBelowRemote, SessionLastsAsDialog
<1>3. QED
  BY <1>1, <1>2 DEF DialogInv

LEMMA DialogInvNext == DialogInv /\ [Next]_vars => DialogInv'
<1> SUFFICES ASSUME DialogInv, [Next]_vars PROVE DialogInv'
  OBVIOUS
<1>1. ASSUME NEW r \in Req, NEW m \in Method, Send(r, m) PROVE DialogInv'
  <2>1. TypeOK'
    BY <1>1 DEF Send, DialogInv, TypeOK, transactions, callVars, appVars
  <2>2. QED
    BY <1>1, <2>1, QuietKeeps DEF Send, callVars, appVars
<1>2. CASE UNCHANGED vars
  <2>1. TypeOK'
    BY <1>2 DEF vars, DialogInv, TypeOK, transactions, callVars, appVars
  <2>2. QED
    BY <1>2, <2>1, QuietKeeps DEF vars, callVars, appVars
<1>3. QED
  BY <1>1, <1>2, ReceiveKeeps, StackKeeps, ReleaseCallKeeps, AppKeeps DEF Next

LEMMA DialogInvHolds == Safety => []DialogInv
BY DialogInvInit, DialogInvNext, PTL DEF Safety

\* The variables of InDialog keep their types, for any number of requests and
\* transactions.
THEOREM DialogTypeOK == Safety => []TypeOK
<1>1. DialogInv => TypeOK
  BY DEF DialogInv
<1>2. QED
  BY <1>1, DialogInvHolds, PTL

\* However many requests there are and whichever of them are late or come again, the
\* application gets those of the call once each and in the order of their CSeq.
THEOREM RequestsReportedOnceInOrder == Safety => []ReportedOnceInOrder
<1>1. DialogInv => ReportedOnceInOrder
  BY DEF DialogInv
<1>2. QED
  BY <1>1, DialogInvHolds, PTL

\* A session that is gone had its dialog ended by a BYE, or a re-INVITE cancelled.
THEOREM SessionEndsWithCause == Safety => []SessionLastsAsDialog
<1>1. DialogInv => SessionLastsAsDialog
  BY DEF DialogInv
<1>2. QED
  BY <1>1, DialogInvHolds, PTL

LEMMA EntersOther ==
    ASSUME TypeOK, NEW t \in Tr, NEW s, Enters(t, s)
    PROVE  \A u \in Tr : state'[u] = IF u = t THEN s ELSE state[u]
BY DEF TypeOK, Enters

\* Whichever of the two threads comes first to a transaction, it is answered once.
THEOREM NeverAnsweredTwice == Safety => AnsweredOnce
<1>1. ASSUME DialogInv, [Next]_vars, NEW u \in Tr, state'[u] = "answering", state[u] # "answering"
      PROVE  state[u] = "trying"
  <2> USE <1>1 DEF transactions, callVars, appVars
  <2>1. TypeOK
    BY DEF DialogInv
  <2>2. ASSUME NEW t \in Tr, NEW s \in States \ {"answering"}, Enters(t, s) \/ Responds(t, s)
        PROVE  state[u] = "trying"
    BY <2>1, <2>2, EntersOther DEF Responds
  <2>3. ASSUME NEW r \in Req, NEW t \in Tr, Receive(r, t) PROVE state[u] = "trying"
    BY <2>2, <2>3
       DEF Receive, RcvOld, RcvInviteTooSoon, RcvReinvite, RcvMessage, RcvBye, RcvLate,
           RcvLateInvite, RcvOutside, DefaultAnswer, States
  <2>4. ASSUME NEW t \in Tr, RcvCancel(t) \/ ResendFails(t) \/ Runs(t) PROVE state[u] = "trying"
    <3>1. CASE FreeTransaction(t)
      BY <2>1, <3>1, EntersOther DEF FreeTransaction
    <3>2. QED
      BY <2>2, <2>4, <3>1
         DEF RcvCancel, ResendFails, Runs, SndCancelled, SndAnswer, Timeout, Ages,
             ReleaseTransaction, States
  <2>5. CASE App
    <3>1. ASSUME NEW t \in Tr, Answer(t) \/ TakeOutside(t) PROVE state[u] = "trying"
      BY <2>1, <3>1, EntersOther DEF Answer, TakeOutside, Answerable
    <3>2. QED
      BY <2>5, <3>1 DEF App, TakeMessage, TakeClose, TakeOther
  <2>6. QED
    BY <2>3, <2>4, <2>5 DEF Next, Send, ReleaseCall, vars
<1>2. DialogInv /\ [Next]_vars =>
        [\A t \in Tr : state'[t] = "answering" /\ state[t] # "answering"
                       => state[t] = "trying"]_vars
  BY <1>1
<1>3. QED
  BY <1>2, DialogInvHolds, PTL DEF Safety, AnsweredOnce
=============================================================================
