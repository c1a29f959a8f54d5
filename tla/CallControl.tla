----------------------------- MODULE CallControl ----------------------------
(***************************************************************************)
(* An incoming call from its INVITE to the release of its context: the     *)
(* INVITE server transaction of osip, the call and dialog of eXosip, and   *)
(* the event loop SipClient::ProcessEvent that owns g_sessionMap.          *)
(*                                                                         *)
(* Two threads.  The stack thread (eXosip_execute) works under the eXosip  *)
(* lock, one action each.  The application thread takes events from the    *)
(* queue and calls eXosip_call_build_answer, eXosip_call_send_answer and   *)
(* eXosip_call_terminate WITHOUT the lock (src/SipClient.cpp), so these    *)
(* are cut at each state they read or write; only the resending of lost    *)
(* 200s, done when the queue was found empty, holds the lock.              *)
(*                                                                         *)
(* The network is UDP: what was sent once may arrive never, or any number  *)
(* of times, or late.  So `sent' is all there is of it: a message arrives  *)
(* whenever what the caller answers with it has been sent.                 *)
(*                                                                         *)
(* A call is named once.  An INVITE that arrives again changes nothing as  *)
(* long as its dialog lives; after that it makes a new call, which here is *)
(* another element of Call.                                                *)
(***************************************************************************)
EXTENDS Integers, Sequences

CONSTANTS
    Call,      \* the INVITEs that arrive
    MaxCount,  \* d_count at which a 200 is given up: 9 in the code
    MaxAck     \* bound: ACKs of one call that arrive, repetitions included

ASSUME CallAssumption == MaxCount \in Nat \ {0} /\ MaxAck \in Nat

VARIABLES
    ist,      \* state of the INVITE transaction, "freed" with its call context
    fifo,     \* the responses waiting in the fifo of the transaction
    last,     \* last_response of the transaction
    sent,     \* what went out on the wire for the call
    dialog,   \* d_dialog and its state
    d200Ok,   \* d_200Ok and its timer
    count,    \* d_count
    cancel,   \* the CANCEL the stack accepted: "executed" once it was reported
    bye,      \* who hung up first
    acks,     \* ACKs that arrived
    queue,    \* j_events
    app,      \* where the application thread is
    map,      \* g_sessionMap
    media     \* the calls whose session sends RTP

transaction == <<ist, fifo, last, sent>>
dialogs     == <<dialog, d200Ok, count>>
requests    == <<cancel, bye, acks>>
application == <<app, map, media>>
vars        == <<transaction, dialogs, requests, queue, application>>

Wire == {"100", "200", "neg", "bye"}

EventType == {"INVITE", "ACK", "CANCELLED", "CLOSED", "MESSAGE_NEW", "NOANSWER", "RELEASED"}

Event == [type : EventType, call : Call]

\* the application between two events, and in the API calls of an INVITE
Resting   == [at : {"wait", "lock"}]
Step      == {"invite", "check200", "add200", "insert", "terminate", "add603"}
Answering == [at : Step, call : Call]

TypeOK ==
    /\ ist \in [Call -> {"none", "proceeding", "completed", "confirmed", "terminated", "freed"}]
    /\ fifo \in [Call -> Seq({"200", "neg"})]
    /\ last \in [Call -> {"none", "100", "200", "neg"}]
    /\ sent \in [Call -> SUBSET Wire]
    /\ dialog \in [Call -> {"none", "early", "confirmed", "null"}]
    /\ d200Ok \in [Call -> {"none", "waiting", "due"}]
    /\ count \in [Call -> 0..MaxCount]
    /\ cancel \in [Call -> {"none", "received", "executed"}]
    /\ bye \in [Call -> {"none", "in", "out"}]
    /\ acks \in [Call -> 0..MaxAck]
    /\ queue \in Seq(Event)
    /\ app \in Resting \cup Answering
    /\ map \subseteq Call
    /\ media \subseteq Call

Init ==
    /\ ist = [c \in Call |-> "none"]
    /\ fifo = [c \in Call |-> <<>>]
    /\ last = [c \in Call |-> "none"]
    /\ sent = [c \in Call |-> {}]
    /\ dialog = [c \in Call |-> "none"]
    /\ d200Ok = [c \in Call |-> "none"]
    /\ count = [c \in Call |-> 0]
    /\ cancel = [c \in Call |-> "none"]
    /\ bye = [c \in Call |-> "none"]
    /\ acks = [c \in Call |-> 0]
    /\ queue = <<>>
    /\ app = [at |-> "wait"]
    /\ map = {}
    /\ media = {}

Ev(type, c) == [type |-> type, call |-> c]

Report(type, c) == queue' = Append(queue, Ev(type, c))

Queues(c, response) == fifo' = [fifo EXCEPT ![c] = Append(@, response)]

Sends(c, msg) == sent' = [sent EXCEPT ![c] = @ \cup {msg}]

\* the application is between the read and the write of eXosip_call_send_answer
Midway(c) == \E step \in {"check200", "add200", "add603"} : app = [at |-> step, call |-> c]

-----------------------------------------------------------------------------
(* The stack thread: what arrives *)

\* a new call: the transaction takes the INVITE, sends 100 Trying and only
\* then is the call reported.  When the 100 cannot be sent the transaction
\* ends at once, and the call is reported all the same.
RecvInvite(c) ==
    /\ ist[c] = "none"
    /\ \/ ist' = [ist EXCEPT ![c] = "proceeding"] /\ Sends(c, "100")
       \/ ist' = [ist EXCEPT ![c] = "terminated"] /\ UNCHANGED sent
    /\ last' = [last EXCEPT ![c] = "100"]
    /\ dialog' = [dialog EXCEPT ![c] = "early"]
    /\ Report("INVITE", c)
    /\ UNCHANGED <<fifo, d200Ok, count, requests, application>>

\* an INVITE that arrives again has the last response resent.  That changes
\* nothing unless it cannot be sent: then the transaction ends, and what is
\* queued for it stays unsent.
RecvInviteAgain(c) ==
    /\ ist[c] \in {"proceeding", "completed"}
    /\ ist' = [ist EXCEPT ![c] = "terminated"]
    /\ UNCHANGED <<fifo, last, sent, dialogs, requests, queue, application>>

\* a CANCEL while the INVITE has no final response queues a 487 behind what
\* may be queued already; later than that it is answered with 481
RecvCancel(c) ==
    /\ ist[c] = "proceeding" /\ cancel[c] = "none"
    /\ cancel' = [cancel EXCEPT ![c] = "received"]
    /\ Queues(c, "neg")
    /\ UNCHANGED <<ist, last, sent, dialogs, bye, acks, queue, application>>

\* process_ack: whatever is being resent is not any more
ProcessAck(c) ==
    /\ acks[c] < MaxAck
    /\ acks' = [acks EXCEPT ![c] = @ + 1]
    /\ d200Ok' = [d200Ok EXCEPT ![c] = "none"]
    /\ count' = [count EXCEPT ![c] = 0]
    /\ Report("ACK", c)
    /\ UNCHANGED <<transaction, dialog, cancel, bye, application>>

RecvAck(c) ==
    /\ "200" \in sent[c] /\ dialog[c] # "null"
    /\ ProcessAck(c)

\* the ACK of a failure response belongs to the transaction; when that is over
\* it is looked up among the dialogs like the ACK of a 200
RecvAckOfFailure(c) ==
    /\ "neg" \in sent[c]
    /\ \/ /\ ist[c] = "completed"
          /\ ist' = [ist EXCEPT ![c] = "confirmed"]
          /\ UNCHANGED <<fifo, last, sent, dialogs, requests, queue, application>>
       \/ /\ ist[c] \in {"terminated", "freed"} /\ dialog[c] # "null"
          /\ ProcessAck(c)

\* process_bye: answered with 200 by itself, the dialog goes, two events
RecvBye(c) ==
    /\ "200" \in sent[c] /\ dialog[c] # "null"
    /\ bye' = [bye EXCEPT ![c] = "in"]
    /\ dialog' = [dialog EXCEPT ![c] = "null"]
    /\ queue' = Append(Append(queue, Ev("MESSAGE_NEW", c)), Ev("CLOSED", c))
    /\ UNCHANGED <<transaction, d200Ok, count, cancel, acks, application>>

-----------------------------------------------------------------------------
(* The stack thread: transactions, timers and the release of calls *)

\* the transaction of the CANCEL runs and reports it, within the same
\* eXosip_execute that received it
NistExecute(c) ==
    /\ cancel[c] = "received"
    /\ cancel' = [cancel EXCEPT ![c] = "executed"]
    /\ Report("CANCELLED", c)
    /\ UNCHANGED <<transaction, dialogs, bye, acks, application>>

\* the transaction has a next response and is still executed
Executes(c) == ist[c] \in {"proceeding", "completed", "confirmed"} /\ fifo[c] # <<>>

Consumes(c) == fifo' = [fifo EXCEPT ![c] = Tail(@)]

\* sent or not, a 200 ends the transaction: the dialog resends it from now on
IstSends200(c) ==
    /\ Executes(c) /\ ist[c] = "proceeding" /\ Head(fifo[c]) = "200"
    /\ Consumes(c)
    /\ last' = [last EXCEPT ![c] = "200"]
    /\ ist' = [ist EXCEPT ![c] = "terminated"]
    /\ Sends(c, "200") \/ UNCHANGED sent
    /\ UNCHANGED <<dialogs, requests, queue, application>>

\* a failure response removes an early dialog, but not one a queued 200 has
\* confirmed; when it cannot be sent the transaction ends and no one is told
IstSendsFailure(c) ==
    /\ Executes(c) /\ ist[c] = "proceeding" /\ Head(fifo[c]) = "neg"
    /\ Consumes(c)
    /\ last' = [last EXCEPT ![c] = "neg"]
    /\ \/ /\ ist' = [ist EXCEPT ![c] = "completed"] /\ Sends(c, "neg")
          /\ dialog' = [dialog EXCEPT ![c] = IF @ = "early" THEN "null" ELSE @]
          /\ Report("CLOSED", c)
       \/ ist' = [ist EXCEPT ![c] = "terminated"] /\ UNCHANGED <<sent, dialog, queue>>
    /\ UNCHANGED <<d200Ok, count, requests, application>>

\* an answered transaction has no use for a second final response
IstDrops(c) ==
    /\ Executes(c) /\ ist[c] # "proceeding"
    /\ Consumes(c)
    /\ UNCHANGED <<ist, last, sent, dialogs, requests, queue, application>>

IstExecute(c) == IstSends200(c) \/ IstSendsFailure(c) \/ IstDrops(c)

\* mistake: the transaction ends with the ACK of its failure or not at all
TimerIOnly(c) ==
    /\ ist[c] = "confirmed" /\ fifo[c] = <<>>
    /\ ist' = [ist EXCEPT ![c] = "terminated"]
    /\ UNCHANGED <<fifo, last, sent, dialogs, requests, queue, application>>

\* timer H of a failure nobody acknowledged, timer I of one that was.  Timing
\* assumption: they take seconds, the fifo is run at once.
IstTimeout(c) ==
    /\ ist[c] \in {"completed", "confirmed"} /\ fifo[c] = <<>>
    /\ ist' = [ist EXCEPT ![c] = "terminated"]
    /\ UNCHANGED <<fifo, last, sent, dialogs, requests, queue, application>>

\* the call context goes, the dialog and the transaction with it.  Timing
\* assumption: the application is not stopped inside eXosip_call_send_answer
\* for the seconds this is away.
ReleaseCall(c) ==
    /\ cancel[c] # "received" /\ ~Midway(c)
    /\ ist' = [ist EXCEPT ![c] = "freed"]
    /\ dialog' = [dialog EXCEPT ![c] = "null"]
    /\ d200Ok' = [d200Ok EXCEPT ![c] = "none"]
    /\ UNCHANGED <<fifo, last, sent, count, requests, application>>

\* the BYE is over, or the INVITE was refused
ReleaseFinished(c) ==
    /\ ist[c] = "terminated"
    /\ bye[c] # "none" \/ last[c] = "neg"
    /\ ReleaseCall(c)
    /\ Report("RELEASED", c)

\* 180 s and still no answer
RingTimeout(c) ==
    /\ ist[c] = "proceeding" /\ fifo[c] = <<>>
    /\ ReleaseCall(c)
    /\ queue' = Append(Append(queue, Ev("NOANSWER", c)), Ev("RELEASED", c))

\* d_timer runs out.  Timing assumption: not before the fifo was run.
TimerPasses(c) ==
    /\ d200Ok[c] = "waiting" /\ count[c] < MaxCount
    /\ fifo[c] = <<>> \/ ist[c] = "terminated"
    /\ d200Ok' = [d200Ok EXCEPT ![c] = "due"]
    /\ UNCHANGED <<transaction, dialog, count, requests, queue, application>>

-----------------------------------------------------------------------------
(* The application thread: SipClient::ProcessEvent *)

\* eXosip_event_wait hands out an event
Takes(type, c) ==
    /\ app.at = "wait"
    /\ queue # <<>> /\ Head(queue) = Ev(type, c)
    /\ queue' = Tail(queue)

At(step, c) == app = [at |-> step, call |-> c]

GoTo(step, c) == app' = [at |-> step, call |-> c]

Waits == app' = [at |-> "wait"]

TakeInvite(c) ==
    /\ Takes("INVITE", c)
    /\ GoTo("invite", c)
    /\ UNCHANGED <<transaction, dialogs, requests, map, media>>

\* CallSession::Init and GetLocalSdp, up to 10 s.  When they fail a 400 is
\* built, which is sent only if it could not be built.
SessionMade(c) ==
    /\ At("invite", c)
    /\ GoTo("check200", c) \/ GoTo("terminate", c)
    /\ UNCHANGED <<transaction, dialogs, requests, queue, map, media>>

\* eXosip_call_build_answer and the first half of eXosip_call_send_answer:
\* whatever comes of it, the session is stored afterwards
Check200(c) ==
    /\ At("check200", c)
    /\ GoTo(IF ist[c] = "proceeding" THEN "add200" ELSE "insert", c)
    /\ UNCHANGED <<transaction, dialogs, requests, queue, map, media>>

\* the second half: the 200 is kept for resending and queued
Add200(c) ==
    /\ At("add200", c)
    /\ d200Ok' = [d200Ok EXCEPT ![c] = "waiting"]
    /\ count' = [count EXCEPT ![c] = 0]
    /\ dialog' = [dialog EXCEPT ![c] = IF @ = "null" THEN @ ELSE "confirmed"]
    /\ Queues(c, "200")
    /\ GoTo("insert", c)
    /\ UNCHANGED <<ist, last, sent, requests, queue, map, media>>

\* mistake: the session is stored only while the INVITE is still open
InsertIfOpen(c) ==
    /\ At("insert", c)
    /\ map' = IF ist[c] = "proceeding" THEN map \cup {c} ELSE map
    /\ Waits
    /\ UNCHANGED <<transaction, dialogs, requests, queue, media>>

Insert(c) ==
    /\ At("insert", c)
    /\ map' = map \cup {c}
    /\ Waits
    /\ UNCHANGED <<transaction, dialogs, requests, queue, media>>

\* eXosip_call_terminate of a call whose session failed: 603 when the INVITE
\* has had nothing but the 100, a BYE when its last response failed on the way
Terminate(c) ==
    /\ At("terminate", c)
    /\ IF dialog[c] # "null" /\ last[c] = "neg"
         THEN /\ bye' = [bye EXCEPT ![c] = "out"]
              /\ Sends(c, "bye")
              /\ dialog' = [dialog EXCEPT ![c] = "null"]
         ELSE UNCHANGED <<bye, sent, dialog>>
    /\ IF dialog[c] # "null" /\ last[c] = "100" /\ ist[c] = "proceeding"
         THEN GoTo("add603", c)
         ELSE Waits
    /\ UNCHANGED <<ist, fifo, last, d200Ok, count, cancel, acks, queue, map, media>>

\* mistake: nothing ends the branch of the refusal, the answer follows it
Add603AndAnswer(c) ==
    /\ At("add603", c)
    /\ Queues(c, "neg")
    /\ GoTo("add200", c)
    /\ UNCHANGED <<ist, last, sent, dialogs, requests, queue, map, media>>

\* mistake: the refusal is built and, like the 400, not sent
Add603Never(c) ==
    /\ At("add603", c)
    /\ Waits
    /\ UNCHANGED <<transaction, dialogs, requests, queue, map, media>>

Add603(c) ==
    /\ At("add603", c)
    /\ Queues(c, "neg")
    /\ Waits
    /\ UNCHANGED <<ist, last, sent, dialogs, requests, queue, map, media>>

\* an ACK starts the media of the session it finds, when the camera's source
\* is still there
TakeAck(c) ==
    /\ Takes("ACK", c)
    /\ media' \in {media, media \cup ({c} \cap map)}
    /\ UNCHANGED <<transaction, dialogs, requests, app, map>>

\* mistake: the session is dropped without stopping it
CloseWithoutStop(c) ==
    /\ Takes("CANCELLED", c) \/ Takes("CLOSED", c)
    /\ map' = map \ {c}
    /\ UNCHANGED <<transaction, dialogs, requests, app, media>>

\* both ends of a call stop the session and drop it
TakeClose(c) ==
    /\ Takes("CANCELLED", c) \/ Takes("CLOSED", c)
    /\ media' = media \ {c}
    /\ map' = map \ {c}
    /\ UNCHANGED <<transaction, dialogs, requests, app>>

\* the answer the application gives to a BYE comes after the one of the stack
\* and is refused; the other events fall into the default branch
TakeOther(c) ==
    /\ \E type \in {"MESSAGE_NEW", "NOANSWER", "RELEASED"} : Takes(type, c)
    /\ UNCHANGED <<transaction, dialogs, requests, application>>

\* a 200 the loop of _eXosip_retransmit_lost200ok has to do something about
Lost(c) ==
    /\ d200Ok[c] # "none" /\ dialog[c] # "null"
    /\ count[c] = MaxCount \/ d200Ok[c] = "due"

\* the queue was empty: the lock is taken
Lock ==
    /\ app.at = "wait" /\ queue = <<>>
    /\ \E c \in Call : Lost(c)
    /\ app' = [at |-> "lock"]
    /\ UNCHANGED <<transaction, dialogs, requests, queue, map, media>>

\* mistake: the count starts over with the timer
ResendForever(c) ==
    /\ app.at = "lock" /\ Lost(c) /\ count[c] < MaxCount
    /\ d200Ok' = [d200Ok EXCEPT ![c] = "waiting"]
    /\ Sends(c, "200")
    /\ UNCHANGED <<ist, fifo, last, dialog, count, requests, queue, application>>

Resend(c) ==
    /\ app.at = "lock" /\ Lost(c) /\ count[c] < MaxCount
    /\ count' = [count EXCEPT ![c] = @ + 1]
    /\ d200Ok' = [d200Ok EXCEPT ![c] = "waiting"]
    /\ Sends(c, "200")
    /\ UNCHANGED <<ist, fifo, last, dialog, requests, queue, application>>

\* mistake: only the BYE of a caller is reported
GiveUpQuietly(c) ==
    /\ app.at = "lock" /\ Lost(c) /\ count[c] = MaxCount
    /\ d200Ok' = [d200Ok EXCEPT ![c] = "none"]
    /\ count' = [count EXCEPT ![c] = 0]
    /\ dialog' = [dialog EXCEPT ![c] = "null"]
    /\ bye' = [bye EXCEPT ![c] = "out"]
    /\ Sends(c, "bye")
    /\ UNCHANGED <<ist, fifo, last, cancel, acks, queue, application>>

\* the ACK never came: eXosip_call_terminate sends a BYE.  But if the last the
\* transaction has sent is its 100 it tries a 603 instead, which the ended
\* transaction refuses, and leaves it at that.
GiveUp(c) ==
    /\ app.at = "lock" /\ Lost(c) /\ count[c] = MaxCount
    /\ d200Ok' = [d200Ok EXCEPT ![c] = "none"]
    /\ count' = [count EXCEPT ![c] = 0]
    /\ IF last[c] = "100"
         THEN UNCHANGED <<dialog, bye, sent, queue>>
         ELSE /\ dialog' = [dialog EXCEPT ![c] = "null"]
              /\ bye' = [bye EXCEPT ![c] = "out"]
              /\ Sends(c, "bye")
              /\ Report("CLOSED", c)
    /\ UNCHANGED <<ist, fifo, last, cancel, acks, application>>

Unlock ==
    /\ app.at = "lock"
    /\ \A c \in Call : ~Lost(c)
    /\ Waits
    /\ UNCHANGED <<transaction, dialogs, requests, queue, map, media>>

-----------------------------------------------------------------------------

Arrives(c) ==
    \/ RecvInvite(c) \/ RecvInviteAgain(c) \/ RecvCancel(c)
    \/ RecvAck(c) \/ RecvAckOfFailure(c) \/ RecvBye(c)

\* what the stack does by itself, and surely does some time
Runs(c) ==
    \/ NistExecute(c) \/ IstExecute(c) \/ IstTimeout(c)
    \/ ReleaseFinished(c) \/ TimerPasses(c)

StackThread(c) == app.at # "lock" /\ (Arrives(c) \/ Runs(c) \/ RingTimeout(c))

AppThread ==
    \/ Lock \/ Unlock
    \/ \E c \in Call :
          \/ TakeInvite(c) \/ SessionMade(c) \/ Check200(c) \/ Add200(c) \/ Insert(c)
          \/ Terminate(c) \/ Add603(c)
          \/ TakeAck(c) \/ TakeClose(c) \/ TakeOther(c)
          \/ Resend(c) \/ GiveUp(c)

Next == AppThread \/ \E c \in Call : StackThread(c)

Safety == Init /\ [][Next]_vars

\* Both threads keep running, the stack for every call.  Nothing is assumed of
\* what arrives, and a ring timeout need not strike.
Fairness ==
    /\ WF_vars(AppThread)
    /\ \A c \in Call : WF_vars(app.at # "lock" /\ Runs(c))

Spec == Safety /\ Fairness

-----------------------------------------------------------------------------

Queued(e) == \E i \in DOMAIN queue : queue[i] = e

\* an event that makes the application drop the session of c is on its way
EndReported(c) ==
    \/ cancel[c] = "received"
    \/ Queued(Ev("CANCELLED", c))
    \/ Queued(Ev("CLOSED", c))

\* the transaction ended before any final response: the 100 could not be sent,
\* or the ring timeout struck while the application was busy with other calls
Unanswerable(c) == last[c] = "100" /\ ist[c] \in {"terminated", "freed"}

\* No session is left behind in g_sessionMap: unless its INVITE was over before
\* it could be answered, its end has been reported or its dialog lives, so that
\* a BYE, or the lack of an ACK, can still end it.  (SipClient.cpp stores the
\* session whatever became of the 200, and drops it on CANCELLED and CLOSED.)
SessionsHaveEnd ==
    \A c \in map : EndReported(c) \/ dialog[c] = "confirmed" \/ Unanswerable(c)

\* A caller that was told 200, and did not cancel, has a session behind its
\* dialog as soon as the application has caught up with the events.
AnsweredHasSession ==
    \A c \in Call :
        /\ "200" \in sent[c] /\ dialog[c] = "confirmed" /\ cancel[c] = "none"
        /\ app.at = "wait" /\ queue = <<>>
        => c \in map

\* RTP is sent only for a session that is still in g_sessionMap, of a call
\* whose 200 went out: CLOSED and ACK may cross, the queue keeps their order.
MediaHasSession == \A c \in media : c \in map /\ "200" \in sent[c]

\* Only a CANCEL that crosses the answer gives the caller two final responses,
\* the 487 of the transaction and the 200 resent for the dialog.
TwoFinalsOnlyOnCancel ==
    \A c \in Call : {"200", "neg"} \subseteq sent[c] => cancel[c] # "none"

\* Every INVITE is answered or given up, the ones the application is slow with
\* or fails to make a session for included.
InviteIsAnswered == \A c \in Call : ist[c] = "proceeding" ~> ist[c] # "proceeding"

\* A 200 is acknowledged or its call is dropped, by eXosip when it has been
\* resent often enough; the calls whose transaction ended at its 100 excepted.
AnswerConfirmedOrDropped ==
    \A c \in Call :
        "200" \in sent[c] ~> acks[c] > 0 \/ dialog[c] = "null" \/ Unanswerable(c)

\* A call that was hung up, by either side, or refused is cleared away: the
\* context in the stack, the session in the application.
EndedCallsCleared ==
    \A c \in Call : bye[c] # "none" \/ last[c] = "neg" ~> ist[c] = "freed" /\ c \notin map

\* What eXosip.c says when it gives a 200 up: "no ACK received during 20s
\* [dropping call]".
DroppedWithoutAck ==
    \A c \in Call : "200" \in sent[c] ~> acks[c] > 0 \/ dialog[c] = "null"
=============================================================================
