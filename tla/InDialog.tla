------------------------------- MODULE InDialog -----------------------------
(***************************************************************************)
(* A call that is up: the requests its caller sends within the dialog, as  *)
(* _eXosip_process_newrequest sorts them by CSeq and method, the answers   *)
(* of the stack and of SipClient::ProcessEvent, and the release of the     *)
(* transactions, the dialog and the call.  CallControl has the call until  *)
(* its ACK; the caller here has acknowledged.                              *)
(*                                                                         *)
(* A request is named by its CSeq.  It may arrive late, after its          *)
(* successor, or again; while its transaction lives that only repeats the  *)
(* last response.  Timing assumption, which NonInvite justifies: a         *)
(* transaction that ends by its timer outlives the copies of its request;  *)
(* one that ends because a response cannot be sent ("lost") does not, and  *)
(* a copy then makes another transaction.                                  *)
(*                                                                         *)
(* What is read in one pass of eXosip_execute is executed in that pass     *)
(* before anything is released, so receiving a request, reporting it and   *)
(* answering it by default are one action.  REFER, SUBSCRIBE and NOTIFY,   *)
(* which prolong a dialog or make another, are left out.                   *)
(***************************************************************************)
EXTENDS Integers, Sequences, FiniteSets

CONSTANTS
    MaxReq,  \* bound: requests the caller sends in the dialog
    MaxTr,   \* bound: transactions they make, those of copies included
    Method   \* bound: what they may be

ASSUME BoundAssumption ==
    /\ MaxReq \in Nat /\ MaxTr \in Nat
    /\ Method \subseteq {"INVITE", "BYE", "INFO", "OPTIONS"}

Req == 1..MaxReq
Tr  == 1..MaxTr

VARIABLES
    method,    \* what the caller sent, by CSeq
    cseq,      \* the server transactions, oldest first: the CSeq of each
    state,     \* what state it is in
    owner,     \* which list of eXosip's has it: d_inc_trs or j_transactions
    remote,    \* remote_cseq of the dialog; the INVITE of the call has 0
    dialog,    \* d_dialog
    call,      \* the call context
    cancel,    \* the re-INVITEs whose CANCEL was accepted
    aged,      \* the re-INVITEs that are 180 s old
    queue,     \* j_events
    reported,  \* history: the requests reported as being of the call
    app,       \* the transaction the application is about to answer; 0: none
    session    \* whether g_sessionMap has the call

transactions == <<cseq, state, owner>>
callVars     == <<remote, dialog, call, reported>>
appVars      == <<app, session>>
vars         == <<method, transactions, callVars, cancel, aged, queue, appVars>>

EventType == {"REINVITE", "MESSAGE_NEW", "OUTSIDE", "CANCELLED", "CLOSED", "RELEASED"}

TypeOK ==
    /\ method \in [Req -> Method \cup {"none"}]
    /\ cseq \in [Tr -> Req \cup {0}]
    /\ state \in [Tr -> {"none", "trying", "proceeding", "answering", "completed", "over",
                         "lost"}]
    /\ owner \in [Tr -> {"none", "dialog", "stack", "nobody", "freed"}]
    /\ remote \in 0..MaxReq
    /\ dialog \in {"confirmed", "null"}
    /\ call \in {"up", "released"}
    /\ cancel \subseteq Tr
    /\ aged \subseteq Tr
    /\ queue \in Seq([type : EventType, tr : Tr \cup {0}])
    /\ reported \in Seq(Req)
    /\ app \in Tr \cup {0}
    /\ session \in BOOLEAN

Init ==
    /\ method = [r \in Req |-> "none"]
    /\ cseq = [t \in Tr |-> 0]
    /\ state = [t \in Tr |-> "none"]
    /\ owner = [t \in Tr |-> "none"]
    /\ remote = 0
    /\ dialog = "confirmed"
    /\ call = "up"
    /\ cancel = {}
    /\ aged = {}
    /\ queue = <<>>
    /\ reported = <<>>
    /\ app = 0
    /\ session = TRUE

-----------------------------------------------------------------------------
(* The caller *)

\* CSeq by CSeq; a BYE is the last a caller sends
Send(r, m) ==
    /\ method[r] = "none"
    /\ \A s \in Req : s < r => method[s] \notin {"none", "BYE"}
    /\ method' = [method EXCEPT ![r] = m]
    /\ UNCHANGED <<transactions, callVars, cancel, aged, queue, appVars>>

-----------------------------------------------------------------------------
(* The stack thread: a request no transaction is known for *)

Ev(type, t) == [type |-> type, tr |-> t]

\* request r makes transaction t.  One that made a transaction which ended by its
\* timer does not come again.
Makes(r, t, list) ==
    /\ method[r] # "none"
    /\ \A u \in Tr : cseq[u] = r => state[u] = "lost"
    /\ cseq[t] = 0 /\ \A u \in Tr : u < t => cseq[u] # 0
    /\ cseq' = [cseq EXCEPT ![t] = r]
    /\ owner' = [owner EXCEPT ![t] = list]

Enters(t, s) == state' = [state EXCEPT ![t] = s]

\* a response is handed to the transaction and sent, or the transaction ends
Responds(t, s) == Enters(t, s) \/ Enters(t, "lost")

\* _eXosip_send_default_answer, for a transaction that goes to j_transactions.
\* Without a call it is reported as a message of its own, and answered by then.
DefaultAnswer(r, t) ==
    /\ Makes(r, t, "stack")
    /\ Responds(t, "completed")
    /\ queue' = IF method[r] = "INVITE" THEN queue ELSE Append(queue, Ev("OUTSIDE", t))
    /\ UNCHANGED <<method, dialog, call, reported, cancel, aged, appVars>>

\* "Wrong Lower CSeq"
RcvOld(r, t) ==
    /\ dialog = "confirmed" /\ r < remote
    /\ DefaultAnswer(r, t)
    /\ UNCHANGED remote

\* mistake: a request with the CSeq of the last one is taken
InOrderOrSame(r) == dialog = "confirmed" /\ r >= remote /\ remote' = r

\* the next request of the dialog, which takes its CSeq.  One with the CSeq of the
\* last is dropped: a transaction is made and freed, and no one is told.
InOrder(r) == dialog = "confirmed" /\ r > remote /\ remote' = r

\* _eXosip_find_last_inc_invite; before any re-INVITE it is the INVITE of the
\* call, whose transaction is over
Invites     == {t \in Tr : owner[t] = "dialog" /\ method[cseq[t]] = "INVITE"}
LastInvites == {t \in Invites : \A u \in Invites : u <= t}

\* "An INVITE is not terminated"
RcvInviteTooSoon(r, t) ==
    /\ InOrder(r) /\ method[r] = "INVITE"
    /\ \E u \in LastInvites : state[u] = "proceeding"
    /\ DefaultAnswer(r, t)

Reported(r, t, events) ==
    /\ queue' = queue \o events
    /\ reported' = Append(reported, r)
    /\ UNCHANGED <<method, call, cancel, aged, appVars>>

\* process_reinvite: a 100 is sent, or the transaction ends; the application
\* has no answer to the event
RcvReinvite(r, t) ==
    /\ InOrder(r) /\ method[r] = "INVITE"
    /\ \A u \in LastInvites : state[u] # "proceeding"
    /\ Makes(r, t, "dialog")
    /\ Responds(t, "proceeding")
    /\ Reported(r, t, <<Ev("REINVITE", t)>>)
    /\ UNCHANGED dialog

\* process_message_within_dialog
RcvMessage(r, t) ==
    /\ InOrder(r) /\ method[r] \in {"INFO", "OPTIONS"}
    /\ Makes(r, t, "dialog")
    /\ Enters(t, "trying")
    /\ Reported(r, t, <<Ev("MESSAGE_NEW", t)>>)
    /\ UNCHANGED dialog

\* process_bye: the osip dialog goes, the stack answers and tells twice
RcvBye(r, t) ==
    /\ InOrder(r) /\ method[r] = "BYE"
    /\ Makes(r, t, "dialog")
    /\ Responds(t, "completed")
    /\ Reported(r, t, <<Ev("MESSAGE_NEW", t), Ev("CLOSED", t)>>)
    /\ dialog' = "null"

\* no dialog matches any more: 481
RcvLate(r, t) ==
    /\ dialog = "null" /\ method[r] \in {"INFO", "BYE"}
    /\ DefaultAnswer(r, t)
    /\ UNCHANGED remote

\* ... for an INVITE by process_new_invite, as its To has a tag; the transaction
\* is put into no list
RcvLateInvite(r, t) ==
    /\ dialog = "null" /\ method[r] = "INVITE"
    /\ Makes(r, t, "nobody")
    /\ Responds(t, "completed")
    /\ UNCHANGED <<method, callVars, cancel, aged, queue, appVars>>

\* ... and an OPTIONS is one outside of any call
RcvOutside(r, t) ==
    /\ dialog = "null" /\ method[r] = "OPTIONS"
    /\ Makes(r, t, "stack")
    /\ Enters(t, "trying")
    /\ queue' = Append(queue, Ev("OUTSIDE", t))
    /\ UNCHANGED <<method, callVars, cancel, aged, appVars>>

Receive(r, t) ==
    \/ RcvOld(r, t) \/ RcvInviteTooSoon(r, t) \/ RcvReinvite(r, t) \/ RcvMessage(r, t)
    \/ RcvBye(r, t) \/ RcvLate(r, t) \/ RcvLateInvite(r, t) \/ RcvOutside(r, t)

-----------------------------------------------------------------------------
(* The stack thread: transactions *)

\* process_cancel finds an unanswered re-INVITE by its branch: 200 for the CANCEL,
\* which is reported, and a 487 is queued for the re-INVITE
RcvCancel(t) ==
    /\ state[t] = "proceeding" /\ owner[t] = "dialog" /\ t \notin cancel
    /\ cancel' = cancel \cup {t}
    /\ queue' = Append(queue, Ev("CANCELLED", t))
    /\ UNCHANGED <<method, transactions, callVars, aged, appVars>>

StateOnly == UNCHANGED <<method, cseq, owner, callVars, cancel, aged, queue, appVars>>

\* the 487 of a re-INVITE closes neither its dialog, which is not early, nor
\* the call, which is not its
SndCancelled(t) ==
    /\ state[t] = "proceeding" /\ t \in cancel
    /\ Responds(t, "completed")
    /\ StateOnly

SndAnswer(t) ==
    /\ state[t] = "answering"
    /\ Responds(t, "completed")
    /\ StateOnly

\* the request comes again and the last response cannot be resent
ResendFails(t) ==
    /\ state[t] \in {"proceeding", "completed"}
    /\ Enters(t, "lost")
    /\ StateOnly

\* timer J of a NIST, the ACK or timer H of an IST
Timeout(t) ==
    /\ state[t] = "completed"
    /\ Enters(t, "over")
    /\ StateOnly

Ages(t) ==
    /\ state[t] = "proceeding" /\ t \notin aged
    /\ aged' = aged \cup {t}
    /\ UNCHANGED <<method, transactions, callVars, cancel, queue, appVars>>

-----------------------------------------------------------------------------
(* The stack thread: release *)

Ended(t) == state[t] \in {"over", "lost"}

InList == {t \in Tr : owner[t] = "dialog"}

\* _eXosip_release_finished_transactions: the newest stays, and so do the BYE and
\* the last INVITE
ReleaseTransaction(t) ==
    /\ owner[t] = "dialog" /\ Ended(t)
    /\ method[cseq[t]] # "BYE" /\ t \notin LastInvites
    /\ \E u \in InList : u > t
    /\ owner' = [owner EXCEPT ![t] = "stack"]
    /\ UNCHANGED <<method, cseq, state, callVars, cancel, aged, queue, appVars>>

\* _eXosip_release_terminated_transactions: what has ended, and what is 180 s old
FreeTransaction(t) ==
    /\ owner[t] = "stack" /\ (Ended(t) \/ state[t] \in {"trying", "proceeding"})
    /\ owner' = [owner EXCEPT ![t] = "freed"]
    /\ Enters(t, IF Ended(t) THEN state[t] ELSE "over")
    /\ UNCHANGED <<method, cseq, callVars, cancel, aged, queue, appVars>>

\* mistake: an unanswered re-INVITE keeps the call, however old it is
PendingForEver == \E t \in LastInvites : ~Ended(t)

\* _eXosip_pendingosip_transaction_exist: an INVITE is waited for, for 180 s
Pending == \E t \in LastInvites : ~Ended(t) /\ t \notin aged

\* _eXosip_release_terminated_calls, after a BYE that is over: the dialog goes,
\* its transactions to j_transactions, and the call with it
ReleaseCall ==
    /\ call = "up" /\ ~Pending
    /\ \E t \in InList : method[cseq[t]] = "BYE" /\ Ended(t)
    /\ call' = "released"
    /\ owner' = [t \in Tr |-> IF owner[t] = "dialog" THEN "stack" ELSE owner[t]]
    /\ queue' = Append(queue, Ev("RELEASED", 0))
    /\ UNCHANGED <<method, cseq, state, remote, dialog, reported, cancel, aged, appVars>>

-----------------------------------------------------------------------------
(* The application thread *)

Takes(type, t) ==
    /\ app = 0
    /\ queue # <<>> /\ Head(queue) = Ev(type, t)
    /\ queue' = Tail(queue)

\* mistake: the request is not answered, as in the default branch
TakeMessageSilently(t) ==
    /\ Takes("MESSAGE_NEW", t)
    /\ UNCHANGED <<method, transactions, callVars, cancel, aged, appVars>>

TakeMessage(t) ==
    /\ Takes("MESSAGE_NEW", t)
    /\ app' = t
    /\ UNCHANGED <<method, transactions, callVars, cancel, aged, session>>

\* mistake: whether the transaction was answered is not looked at
AnswerableAlways(t) == owner[t] # "freed" /\ state[t] # "over"

\* the transaction is found and has no final response
Answerable(t) == owner[t] # "freed" /\ state[t] = "trying"

\* eXosip_call_build_answer and eXosip_call_send_answer, without the lock: both
\* look the transaction up among those of the call
Answer(t) ==
    /\ app = t
    /\ app' = 0
    /\ Enters(t, IF owner[t] = "dialog" /\ Answerable(t) THEN "answering" ELSE state[t])
    /\ UNCHANGED <<method, cseq, owner, callVars, cancel, aged, queue, session>>

\* EXOSIP_MESSAGE_NEW: only an OPTIONS is answered, under the lock
TakeOutside(t) ==
    /\ Takes("OUTSIDE", t)
    /\ Enters(t, IF method[cseq[t]] = "OPTIONS" /\ Answerable(t) THEN "answering" ELSE state[t])
    /\ UNCHANGED <<method, cseq, owner, callVars, cancel, aged, appVars>>

\* both stop the session and drop it
TakeClose(t) ==
    /\ Takes("CANCELLED", t) \/ Takes("CLOSED", t)
    /\ session' = FALSE
    /\ UNCHANGED <<method, transactions, callVars, cancel, aged, app>>

\* mistake: the default branch ends the session as well
TakeOtherCloses(t) ==
    /\ Takes("REINVITE", t) \/ Takes("RELEASED", t)
    /\ session' = FALSE
    /\ UNCHANGED <<method, transactions, callVars, cancel, aged, app>>

TakeOther(t) ==
    /\ Takes("REINVITE", t) \/ Takes("RELEASED", t)
    /\ UNCHANGED <<method, transactions, callVars, cancel, aged, appVars>>

-----------------------------------------------------------------------------

\* what the stack does by itself, and surely does some time
Runs(t) ==
    \/ SndCancelled(t) \/ SndAnswer(t) \/ Timeout(t) \/ Ages(t)
    \/ ReleaseTransaction(t) \/ FreeTransaction(t)

App ==
    \/ TakeOther(0)
    \/ \E t \in Tr :
          TakeMessage(t) \/ Answer(t) \/ TakeOutside(t) \/ TakeClose(t) \/ TakeOther(t)

Next ==
    \/ \E r \in Req, m \in Method : Send(r, m)
    \/ \E r \in Req, t \in Tr : Receive(r, t)
    \/ \E t \in Tr : RcvCancel(t) \/ ResendFails(t) \/ Runs(t)
    \/ ReleaseCall
    \/ App

\* Both threads keep running.  Nothing is assumed of the caller or the network.
Fairness ==
    /\ \A t \in Tr : WF_vars(Runs(t))
    /\ WF_vars(ReleaseCall)
    /\ WF_vars(App)

Safety == Init /\ [][Next]_vars
Spec   == Safety /\ Fairness

-----------------------------------------------------------------------------
(* Properties *)

\* Whatever is lost, repeated or overtaken, the application gets the requests of
\* a call once each and in the order of their CSeq.
ReportedOnceInOrder ==
    \A a, b \in DOMAIN reported : a < b => reported[a] < reported[b]

\* A request that is handed to the application is answered in the end, or its
\* call was released meanwhile; also when the two threads meet at its transaction.
MessagesAnswered ==
    \A t \in Tr :
        state[t] = "trying" ~> state[t] \in {"completed", "lost"} \/ call = "released"

\* No transaction gets two final responses: the application's answer to a BYE
\* comes after that of the stack and is refused.
AnsweredOnce ==
    [][\A t \in Tr : state'[t] = "answering" /\ state[t] # "answering"
                     => state[t] = "trying"]_vars

\* The session lasts as long as the dialog: a re-INVITE the application does not
\* understand, and the default answers, do not disturb it; the CANCEL of one does.
SessionLastsAsDialog ==
    ~session => dialog = "null" \/ cancel # {}

\* After a BYE everything goes: the call is released although a re-INVITE was
\* never answered, its transactions leave it, and the session is dropped.
ByeReleases ==
    dialog = "null" ~> call = "released" /\ ~session /\ InList = {}
=============================================================================
