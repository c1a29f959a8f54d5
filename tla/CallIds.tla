------------------------------- MODULE CallIds ------------------------------
(***************************************************************************)
(* How calls get their number.  A new call has c_id -1 until the next run  *)
(* of _eXosip_update, which walks over all calls and gives the next values *)
(* of a static counter to those without one.  The stack thread runs it     *)
(* with eXosip_lock for each INVITE and BYE; the application runs it       *)
(* without the lock at the end of every eXosip_call_send_answer.  The      *)
(* number goes into every event as je->cid, the application's key for the  *)
(* session of a call.                                                      *)
(*                                                                         *)
(* Left out: the numbers of dialogs, from the same counter, its start over *)
(* at INT_MAX, and the release of calls that are over.                     *)
(***************************************************************************)
EXTENDS Integers, Sequences, SequencesExt

CONSTANT Call   \* the calls that arrive

Thread == {"stack", "app"}

VARIABLES
    calls,      \* j_calls, newest first
    c_id,       \* of each call, -1 until it is numbered
    static_id,  \* of _eXosip_update
    at,         \* where each thread is in _eXosip_update, "out" of it
    left,       \* the calls each thread has still to walk over
    loaded,     \* what each thread last loaded from static_id
    awaits,     \* the call whose INVITE the stack reports after its walk
    queue,      \* j_events
    reported    \* history: each event's call and the cid it carried

walk == <<at, left, loaded>>
vars == <<calls, c_id, static_id, walk, awaits, queue, reported>>

Init ==
    /\ calls = <<>>
    /\ c_id = [c \in Call |-> -1]
    /\ static_id = 1
    /\ at = [t \in Thread |-> "out"]
    /\ left = [t \in Thread |-> <<>>]
    /\ loaded = [t \in Thread |-> 0]
    /\ awaits = {}
    /\ queue = <<>>
    /\ reported = {}

----------------------------------------------------------------------------
(* _eXosip_update *)

Enter(t, list) ==
    /\ at' = [at EXCEPT ![t] = "test"]
    /\ left' = [left EXCEPT ![t] = list]
    /\ UNCHANGED loaded

GoTo(t, where) == at' = [at EXCEPT ![t] = where]

Onward(t) == left' = [left EXCEPT ![t] = Tail(@)]

\* if (jc->c_id < 1)
Test(t) ==
    /\ at[t] = "test" /\ left[t] # <<>>
    /\ IF c_id[Head(left[t])] < 1
         THEN GoTo(t, "load") /\ UNCHANGED left
         ELSE Onward(t) /\ UNCHANGED at
    /\ UNCHANGED <<calls, c_id, static_id, loaded, awaits, queue, reported>>

\* jc->c_id = static_id, the load
Load(t) ==
    /\ at[t] = "load"
    /\ loaded' = [loaded EXCEPT ![t] = static_id]
    /\ GoTo(t, "store")
    /\ UNCHANGED <<calls, c_id, static_id, left, awaits, queue, reported>>

\* jc->c_id = static_id, the store
Store(t) ==
    /\ at[t] = "store"
    /\ c_id' = [c_id EXCEPT ![Head(left[t])] = loaded[t]]
    /\ GoTo(t, "count")
    /\ UNCHANGED <<calls, static_id, left, loaded, awaits, queue, reported>>

\* static_id++, from the value still in the register
Count(t) ==
    /\ at[t] = "count"
    /\ static_id' = loaded[t] + 1
    /\ Onward(t)
    /\ GoTo(t, "test")
    /\ UNCHANGED <<calls, c_id, loaded, awaits, queue, reported>>

Walked(t) == at[t] = "test" /\ left[t] = <<>>

----------------------------------------------------------------------------
(* The stack thread *)

Report(type, c) ==
    /\ queue' = Append(queue, type)
    /\ reported' = reported \cup {[cid |-> c_id[c], call |-> c]}

\* the new call enters at the head of j_calls and has no number yet
ProcessNewInvite(c) ==
    /\ at["stack"] = "out"
    /\ ~Contains(calls, c)
    /\ calls' = <<c>> \o calls
    /\ Enter("stack", calls')
    /\ awaits' = {c}
    /\ UNCHANGED <<c_id, static_id, queue, reported>>

\* EXOSIP_CALL_INVITE goes out after the walk
ReportInvite ==
    /\ Walked("stack")
    /\ \E c \in awaits : Report("INVITE", c)
    /\ awaits' = {}
    /\ GoTo("stack", "out")
    /\ UNCHANGED <<calls, c_id, static_id, left, loaded>>

\* EXOSIP_CALL_CLOSED goes out before the walk
ProcessBye(c) ==
    /\ at["stack"] = "out"
    /\ \E r \in reported : r.call = c
    /\ Report("CLOSED", c)
    /\ Enter("stack", calls)
    /\ UNCHANGED <<calls, c_id, static_id, awaits>>

ByeDone ==
    /\ Walked("stack") /\ awaits = {}
    /\ GoTo("stack", "out")
    /\ UNCHANGED <<calls, c_id, static_id, left, loaded, awaits, queue, reported>>

----------------------------------------------------------------------------
(* The application: eXosip_call_send_answer for an INVITE, no lock *)

SendAnswer ==
    /\ at["app"] = "out"
    /\ queue # <<>> /\ Head(queue) = "INVITE"
    /\ queue' = Tail(queue)
    /\ Enter("app", calls)
    /\ UNCHANGED <<calls, c_id, static_id, awaits, reported>>

TakeClosed ==
    /\ at["app"] = "out"
    /\ queue # <<>> /\ Head(queue) = "CLOSED"
    /\ queue' = Tail(queue)
    /\ UNCHANGED <<calls, c_id, static_id, walk, awaits, reported>>

AnswerSent ==
    /\ Walked("app")
    /\ GoTo("app", "out")
    /\ UNCHANGED <<calls, c_id, static_id, left, loaded, awaits, queue, reported>>

----------------------------------------------------------------------------

Update(t) == Test(t) \/ Load(t) \/ Store(t) \/ Count(t)

StackThread ==
    \/ \E c \in Call : ProcessNewInvite(c) \/ ProcessBye(c)
    \/ Update("stack") \/ ReportInvite \/ ByeDone

AppThread == SendAnswer \/ TakeClosed \/ Update("app") \/ AnswerSent

Next == StackThread \/ AppThread

Spec == Init /\ [][Next]_vars

\* A cid is a "unique id for SIP calls" (eXosip.h:388): the events of one
\* call carry one cid, and those of two calls two.  The application finds
\* the session to start and to stop by nothing else.
CidNamesCall ==
    \A r, s \in reported : r.cid = s.cid <=> r.call = s.call

============================================================================
