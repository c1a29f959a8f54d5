-------------------------------- MODULE Wakeup ------------------------------
(***************************************************************************)
(* The two threads of the SIP client and what wakes them: the stack thread *)
(* of eXosip (eXosip_execute), which sleeps in epoll_wait, and the event   *)
(* thread of the application (ProcessEvent), which waits for an event.     *)
(* The application gives a transaction something to send by its fifo and   *)
(* the pipe j_socketctl, mostly without eXosip_lock; the stack reports by  *)
(* j_events and the pipe j_socketctl_event.                                *)
(*                                                                         *)
(* What the things in the fifos are does not matter here; CallControl and  *)
(* Registration have that.  Transactions are numbered in the order in      *)
(* which a pass executes them: NISTs, NICTs, ISTs.                         *)
(***************************************************************************)
EXTENDS Integers

CONSTANTS
    NumTr,     \* the transactions
    MaxPipe,   \* bytes a pipe holds: 65536
    MaxRead,   \* bytes that are read at a time: 499
    MaxNet,    \* bound: datagrams that arrive
    MaxJob,    \* bound: what the application sends
    MaxEvent   \* bound: events the stack reports

ASSUME WakeupAssumption ==
    /\ NumTr \in Nat
    /\ MaxPipe \in Nat \ {0} /\ MaxRead \in Nat \ {0}
    /\ MaxNet \in Nat /\ MaxJob \in Nat /\ MaxEvent \in Nat

Tr == 1..NumTr

VARIABLES
    lock,      \* j_mutexlock
    jobs,      \* what is in the fifo of each transaction
    pipe,      \* bytes in j_socketctl
    stack,     \* where the stack thread is; a transaction while it executes that
    ready,     \* what epoll_wait told the stack thread
    net,       \* datagrams in the socket
    came,      \* datagrams that have arrived
    events,    \* events in j_events
    ctl,       \* bytes in j_socketctl_event
    owedCtl,   \* bytes the stack has still to write for an event it has added
    told,      \* events that have been reported
    app,       \* where the application is
    owedPipe,  \* bytes the application has still to write for a job it has added
    added      \* jobs the application has added

stackVars == <<stack, ready>>
appVars   == <<app, owedPipe, added>>
eventVars == <<events, ctl, owedCtl, told>>
vars      == <<lock, jobs, pipe, stackVars, net, came, eventVars, appVars>>

Executing == 1..NumTr + 1

TypeOK ==
    /\ lock \in {"free", "stack", "app"}
    /\ jobs \in [Tr -> Nat]
    /\ pipe \in 0..MaxPipe
    /\ stack \in [at : {"sleep", "drain", "receive", "read", "lock"}]
                 \cup [at : {"execute"}, tr : Executing]
    /\ ready \subseteq {"pipe", "socket"}
    /\ net \in 0..MaxNet /\ came \in 0..MaxNet
    /\ events \in 0..MaxEvent /\ told \in 0..MaxEvent
    /\ ctl \in 0..MaxPipe
    /\ owedCtl \in 0..1
    /\ app \in {"tryget", "resend", "wait", "read", "retry", "handle", "automatic"}
    /\ owedPipe \in 0..1
    /\ added \in 0..MaxJob

Init ==
    /\ lock = "free"
    /\ jobs = [t \in Tr |-> 0]
    /\ pipe = 0
    /\ stack = [at |-> "sleep"]
    /\ ready = {}
    /\ net = 0 /\ came = 0
    /\ events = 0 /\ told = 0
    /\ ctl = 0
    /\ owedCtl = 0
    /\ app = "tryget"
    /\ owedPipe = 0
    /\ added = 0

-----------------------------------------------------------------------------
(* The pipes *)

\* jpipe_write: the pipe does not block, and a byte too many is dropped
Write(bytes) == IF bytes < MaxPipe THEN bytes + 1 ELSE bytes

\* jpipe_read, of what is there
ReadFrom(bytes) == IF bytes < MaxRead THEN 0 ELSE bytes - MaxRead

-----------------------------------------------------------------------------
(* The stack thread: eXosip_execute *)

StackAt(place) == stack = [at |-> place] /\ owedCtl = 0
StackTo(place) == stack' = [at |-> place]

\* mistake: the pipe is not among the descriptors that are watched
ReadyWithoutPipe == {d \in {"socket"} : net > 0}

\* what epoll_wait finds to read
Ready == {d \in {"pipe", "socket"} : IF d = "pipe" THEN pipe > 0 ELSE net > 0}

Wakes ==
    /\ StackAt("sleep")
    /\ Ready # {}
    /\ ready' = Ready
    /\ StackTo("drain")
    /\ UNCHANGED <<lock, jobs, pipe, net, came, eventVars, appVars>>

\* after 10 s at most; the time is planned without a look at the fifos
TimesOut ==
    /\ StackAt("sleep")
    /\ Ready = {}
    /\ StackTo("lock")
    /\ UNCHANGED <<lock, jobs, pipe, ready, net, came, eventVars, appVars>>

\* the bytes are read before anything is done
Drain ==
    /\ StackAt("drain")
    /\ pipe' = IF "pipe" \in ready THEN ReadFrom(pipe) ELSE pipe
    /\ StackTo("receive")
    /\ UNCHANGED <<lock, jobs, ready, net, came, eventVars, appVars>>

LocksToRead ==
    /\ StackAt("receive") /\ lock = "free"
    /\ lock' = "stack"
    /\ StackTo("read")
    /\ UNCHANGED <<jobs, pipe, ready, net, came, eventVars, appVars>>

\* one datagram: it is put into the fifo of a transaction, behind it the answer the
\* stack itself may have, also to another one, or it is nothing for a transaction.
\* The bytes that may be written are for no one: the fifos are emptied anyway.
Receives ==
    /\ StackAt("read") /\ "socket" \in ready
    /\ net' = net - 1
    /\ \E new \in [Tr -> 0..2] : jobs' = [t \in Tr |-> jobs[t] + new[t]]
    /\ pipe' \in {pipe, Write(pipe)}
    /\ ready' = {}
    /\ UNCHANGED <<lock, stack, came, eventVars, appVars>>

UnlocksAfterRead ==
    /\ StackAt("read") /\ "socket" \notin ready
    /\ lock' = "free"
    /\ StackTo("lock")
    /\ ready' = {}
    /\ UNCHANGED <<jobs, pipe, net, came, eventVars, appVars>>

LocksToExecute ==
    /\ StackAt("lock") /\ lock = "free"
    /\ lock' = "stack"
    /\ stack' = [at |-> "execute", tr |-> 1]
    /\ UNCHANGED <<jobs, pipe, ready, net, came, eventVars, appVars>>

ExecutesAt(t) == stack = [at |-> "execute", tr |-> t] /\ owedCtl = 0

\* a transaction's fifo is emptied ...
Executes(t) ==
    /\ ExecutesAt(t) /\ jobs[t] > 0
    /\ jobs' = [jobs EXCEPT ![t] = @ - 1]
    /\ UNCHANGED <<lock, pipe, stackVars, net, came, eventVars, appVars>>

\* ... and the next one's turn comes
Passes(t) ==
    /\ ExecutesAt(t) /\ jobs[t] = 0
    /\ stack' = [at |-> "execute", tr |-> t + 1]
    /\ UNCHANGED <<lock, jobs, pipe, ready, net, came, eventVars, appVars>>

\* mistake: the bytes are read when all is done
ReleasesAndDrains ==
    /\ ExecutesAt(NumTr + 1)
    /\ lock' = "free"
    /\ StackTo("sleep")
    /\ pipe' = ReadFrom(pipe)
    /\ UNCHANGED <<jobs, ready, net, came, eventVars, appVars>>

\* finished calls are released, which may write a byte
Releases ==
    /\ ExecutesAt(NumTr + 1)
    /\ lock' = "free"
    /\ StackTo("sleep")
    /\ pipe' \in {pipe, Write(pipe)}
    /\ UNCHANGED <<jobs, ready, net, came, eventVars, appVars>>

\* whatever the stack does under the lock, it may have something to report
Reports ==
    /\ StackAt("read") \/ \E t \in Executing : ExecutesAt(t)
    /\ told < MaxEvent
    /\ events' = events + 1
    /\ told' = told + 1
    /\ owedCtl' = 1
    /\ UNCHANGED <<lock, jobs, pipe, stackVars, net, came, ctl, appVars>>

\* eXosip_wakeup_event, after osip_fifo_add
Signals ==
    /\ owedCtl = 1
    /\ owedCtl' = 0
    /\ ctl' = Write(ctl)
    /\ UNCHANGED <<lock, jobs, pipe, stackVars, net, came, events, told, appVars>>

-----------------------------------------------------------------------------
(* The event thread: ProcessEvent, eXosip_event_wait *)

AppAt(place) == app = place /\ owedPipe = 0

\* the queue is looked at first
TakesOne(else) ==
    \/ events > 0 /\ events' = events - 1 /\ app' = "handle"
    \/ events = 0 /\ events' = events /\ app' = else

Tries ==
    /\ AppAt("tryget")
    /\ TakesOne("resend")
    /\ UNCHANGED <<lock, jobs, pipe, stackVars, net, came, ctl, owedCtl, told, owedPipe, added>>

\* _eXosip_retransmit_lost200ok, or an answer to OPTIONS
AppLocks ==
    /\ AppAt("resend") \/ AppAt("handle")
    /\ lock = "free"
    /\ lock' = "app"
    /\ UNCHANGED <<jobs, pipe, stackVars, net, came, eventVars, appVars>>

\* a 200, a BYE, a REGISTER ..., for whichever transaction
AddsJob(t) ==
    /\ AppAt("handle") \/ AppAt("automatic") \/ (AppAt("resend") /\ lock = "app")
    /\ added < MaxJob
    /\ jobs' = [jobs EXCEPT ![t] = @ + 1]
    /\ added' = added + 1
    /\ owedPipe' = 1
    /\ UNCHANGED <<lock, pipe, stackVars, net, came, eventVars, app>>

\* _eXosip_wakeup, after osip_transaction_add_event
WakesStack ==
    /\ owedPipe = 1
    /\ owedPipe' = 0
    /\ pipe' = Write(pipe)
    /\ UNCHANGED <<lock, jobs, stackVars, net, came, eventVars, app, added>>

AppUnlocks == lock' = IF lock = "app" THEN "free" ELSE lock

Resent ==
    /\ AppAt("resend") /\ lock = "app"
    /\ AppUnlocks
    /\ app' = "wait"
    /\ UNCHANGED <<jobs, pipe, stackVars, net, came, eventVars, owedPipe, added>>

\* mistake: the pipe is not among the descriptors that are watched
RungNever == FALSE

\* epoll_wait finds a byte
Rung == ctl > 0

WaitEnds ==
    /\ AppAt("wait") /\ Rung
    /\ app' = "read"
    /\ UNCHANGED <<lock, jobs, pipe, stackVars, net, came, eventVars, owedPipe, added>>

\* after 10 ms
NothingCame ==
    /\ AppAt("wait") /\ ~Rung
    /\ app' = "automatic"
    /\ UNCHANGED <<lock, jobs, pipe, stackVars, net, came, eventVars, owedPipe, added>>

\* all bytes are read, and one event is taken
ReadsBytes ==
    /\ AppAt("read")
    /\ ctl' = ReadFrom(ctl)
    /\ app' = "retry"
    /\ UNCHANGED <<lock, jobs, pipe, stackVars, net, came, events, owedCtl, told, owedPipe, added>>

Retries ==
    /\ AppAt("retry")
    /\ TakesOne("automatic")
    /\ UNCHANGED <<lock, jobs, pipe, stackVars, net, came, ctl, owedCtl, told, owedPipe, added>>

\* mistake: the next event is waited for without a look at the queue
HandledThenWaits ==
    /\ AppAt("handle") \/ AppAt("automatic")
    /\ AppUnlocks
    /\ app' = IF app = "handle" THEN "resend" ELSE "tryget"
    /\ UNCHANGED <<jobs, pipe, stackVars, net, came, eventVars, owedPipe, added>>

\* the event is dealt with, or eXosip_automatic_action is through
Handled ==
    /\ AppAt("handle") \/ AppAt("automatic")
    /\ AppUnlocks
    /\ app' = "tryget"
    /\ UNCHANGED <<jobs, pipe, stackVars, net, came, eventVars, owedPipe, added>>

-----------------------------------------------------------------------------

Arrives ==
    /\ came < MaxNet
    /\ came' = came + 1
    /\ net' = net + 1
    /\ UNCHANGED <<lock, jobs, pipe, stackVars, eventVars, appVars>>

StackLocks == LocksToRead \/ LocksToExecute

\* the stack thread, but for the end of its sleep by the clock
StackRuns ==
    \/ Wakes \/ Drain \/ Receives \/ UnlocksAfterRead \/ Releases \/ Signals
    \/ \E t \in Tr : Executes(t) \/ Passes(t)

\* the application, but for the end of its wait by the clock
AppRuns ==
    \/ Tries \/ WakesStack \/ Resent \/ WaitEnds \/ ReadsBytes \/ Retries \/ Handled

Next ==
    \/ StackLocks \/ StackRuns \/ Reports \/ TimesOut
    \/ AppLocks \/ AppRuns \/ NothingCame
    \/ \E t \in Tr : AddsJob(t)
    \/ Arrives

\* Both threads keep running, and get the lock when it is free time and again: the
\* stack thread lets go of it whenever it sleeps, which is for 10 ms at least unless
\* there is work, and the application holds it only to add a job.  That a sleep or
\* a wait ends by the clock is not assumed: nothing may have to wait for that.
Fairness ==
    /\ WF_vars(StackRuns) /\ SF_vars(StackLocks)
    /\ WF_vars(AppRuns) /\ SF_vars(AppAt("resend") /\ AppLocks)

Safety == Init /\ [][Next]_vars
Spec   == Safety /\ Fairness

-----------------------------------------------------------------------------
(* Properties *)

\* The stack thread does not sleep on work: whenever it is in epoll_wait and a fifo
\* is not empty, there is a byte that wakes it, or the application is about to
\* write one; although it reads the bytes of several jobs at once, bytes that do
\* not fit are dropped, and jobs are added without the lock while it executes.
JobsAwaken ==
    stack = [at |-> "sleep"] /\ (\E t \in Tr : jobs[t] > 0) => pipe > 0 \/ owedPipe = 1

\* Nor does the application wait while an event is there, although it reads all
\* bytes and takes one event.
EventsAwaken ==
    app = "wait" /\ events > 0 => ctl > 0 \/ owedCtl = 1

\* Whatever is put into a transaction's fifo gets executed, and not only when the
\* clock ends the sleep: a 200 does not wait 10 s.
JobsExecuted == \A t \in Tr : jobs[t] > 0 ~> jobs[t] = 0

\* Every event gets to the application, and the two threads do not lock each other
\* out over the lock and the pipes.
EventsTaken == events > 0 ~> events = 0
=============================================================================
