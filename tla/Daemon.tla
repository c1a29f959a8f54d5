------------------------------- MODULE Daemon -------------------------------
(***************************************************************************)
(* The supervisor of src/main.cpp: startDaemon forks the worker, waits for *)
(* it and forks it again when it is gone; main is the worker.  SIGINT may  *)
(* come from outside at any moment, to one process or to the group.        *)
(*                                                                         *)
(* A process with a pending SIGINT takes no other step before the signal   *)
(* is delivered: the kernel delivers it on the way back to user mode.  Two *)
(* pending SIGINTs of one process are one, so pending is a set.            *)
(***************************************************************************)
EXTENDS Integers, FiniteSets

CONSTANTS
    MaxCrash,   \* bound: crashes of a worker
    MaxInt,     \* bound: SIGINTs sent from outside
    MaxFail     \* bound: failures of fork

ASSUME DaemonAssumption == {MaxCrash, MaxInt, MaxFail} \subseteq Nat

Worker == 1 .. (MaxCrash + MaxInt + 1)  \* one pid per death that can happen
D == 0                                  \* the supervisor
Process == Worker \cup {D}

VARIABLES
    pc,       \* where the supervisor is
    pid,      \* static pid_t pid: one copy in every process after fork
    handler,  \* the SIGINT disposition of a process: "default", "kill", "exit" or "ignore"
    worker,   \* the life of every worker
    pending,  \* the processes a SIGINT is pending for
    budget    \* what is left of the three bounds

vars == <<pc, pid, handler, worker, pending, budget>>

WorkerState == {"none", "forked", "boot", "armed", "deaf", "leaving", "zombie", "reaped"}

TypeOK ==
    /\ pc \in {"fork", "forked", "handler", "wait", "sleep3", "sleep1", "exited", "killed"}
    /\ pid \in [Process -> {-1} \cup Process]
    /\ handler \in [Process -> {"default", "kill", "exit", "ignore"}]
    /\ worker \in [Worker -> WorkerState]
    /\ pending \subseteq Process
    /\ budget \in [crash : 0 .. MaxCrash, int : 0 .. MaxInt, fail : 0 .. MaxFail]

Init ==
    /\ pc = "fork"
    /\ pid = [p \in Process |-> 0]
    /\ handler = [p \in Process |-> "default"]
    /\ worker = [w \in Worker |-> "none"]
    /\ pending = {}
    /\ budget = [crash |-> MaxCrash, int |-> MaxInt, fail |-> MaxFail]

Alive(w) == worker[w] \in {"forked", "boot", "armed", "deaf", "leaving"}
LiveWorkers == {w \in Worker : Alive(w)}
Supervising == pc \notin {"exited", "killed"}
Live == LiveWorkers \cup (IF Supervising THEN {D} ELSE {})
Runs(p) == p \in Live \ pending

-----------------------------------------------------------------------------
(* startDaemon, in the supervisor *)

\* fork has made the worker; its result is not stored in pid yet
Fork ==
    /\ pc = "fork" /\ Runs(D)
    /\ \E w \in Worker :
          /\ worker[w] = "none"
          /\ \A v \in 1 .. w - 1 : worker[v] # "none"
          /\ worker' = [worker EXCEPT ![w] = "forked"]
          /\ pid' = [pid EXCEPT ![w] = pid[D]]
          /\ handler' = [handler EXCEPT ![w] = handler[D]]
    /\ pc' = "forked"
    /\ UNCHANGED <<pending, budget>>

\* the pid the last fork returned
Newest == CHOOSE w \in Worker : worker[w] # "none" /\ \A v \in Worker : v > w => worker[v] = "none"

StorePid ==
    /\ pc = "forked" /\ Runs(D)
    /\ pid' = [pid EXCEPT ![D] = Newest]
    /\ pc' = "handler"
    /\ UNCHANGED <<handler, worker, pending, budget>>

\* mistake: the supervisor gives up when fork fails
ForkFailsGivesUp ==
    /\ pc = "fork" /\ Runs(D) /\ budget.fail > 0
    /\ pid' = [pid EXCEPT ![D] = -1]
    /\ pc' = "exited"
    /\ budget' = [budget EXCEPT !.fail = @ - 1]
    /\ UNCHANGED <<handler, worker, pending>>

ForkFails ==
    /\ pc = "fork" /\ Runs(D) /\ budget.fail > 0
    /\ pid' = [pid EXCEPT ![D] = -1]
    /\ pc' = "sleep1"
    /\ budget' = [budget EXCEPT !.fail = @ - 1]
    /\ UNCHANGED <<handler, worker, pending>>

InstallKillHandler ==
    /\ pc = "handler" /\ Runs(D)
    /\ handler' = [handler EXCEPT ![D] = "kill"]
    /\ pc' = "wait"
    /\ UNCHANGED <<pid, worker, pending, budget>>

\* mistake: any return of waitpid taken for the worker's end
WaitPidAnyReturn ==
    /\ pc = "wait" /\ Runs(D)
    /\ pc' = "sleep3"
    /\ UNCHANGED <<worker, pid, handler, pending, budget>>

WaitPid ==
    /\ pc = "wait" /\ Runs(D)
    /\ worker[pid[D]] = "zombie"
    /\ worker' = [worker EXCEPT ![pid[D]] = "reaped"]
    /\ pc' = "sleep3"
    /\ UNCHANGED <<pid, handler, pending, budget>>

\* mistake: the loop is not taken again after the sleep
WakeUpStays ==
    /\ pc \in {"sleep3", "sleep1"} /\ Runs(D)
    /\ pc' = IF pc = "sleep1" THEN "fork" ELSE "sleep3"
    /\ UNCHANGED <<pid, handler, worker, pending, budget>>

\* sleep(3) after a worker's end, sleep(1) after a failed fork
WakeUp ==
    /\ pc \in {"sleep3", "sleep1"} /\ Runs(D)
    /\ pc' = "fork"
    /\ UNCHANGED <<pid, handler, worker, pending, budget>>

-----------------------------------------------------------------------------
(* the worker: the return of fork, then main after startDaemon *)

ReturnFromFork(w) ==
    /\ worker[w] = "forked" /\ Runs(w)
    /\ pid' = [pid EXCEPT ![w] = 0]
    /\ worker' = [worker EXCEPT ![w] = "boot"]
    /\ UNCHANGED <<pc, handler, pending, budget>>

\* the result of StartStack is not looked at: a worker whose stack did not
\* start installs its handler and waits like any other
InstallExitHandler(w) ==
    /\ worker[w] = "boot" /\ Runs(w)
    /\ \E life \in {"armed", "deaf"} : worker' = [worker EXCEPT ![w] = life]
    /\ handler' = [handler EXCEPT ![w] = "exit"]
    /\ UNCHANGED <<pc, pid, pending, budget>>

ReturnFromMain(w) ==
    /\ worker[w] = "leaving" /\ Runs(w)
    /\ worker' = [worker EXCEPT ![w] = "zombie"]
    /\ UNCHANGED <<pc, pid, handler, pending, budget>>

Crash(w) ==
    /\ Alive(w) /\ budget.crash > 0
    /\ worker' = [worker EXCEPT ![w] = "zombie"]
    /\ pending' = pending \ {w}
    /\ budget' = [budget EXCEPT !.crash = @ - 1]
    /\ UNCHANGED <<pc, pid, handler>>

-----------------------------------------------------------------------------
(* SIGINT *)

\* whom kill(p, SIGINT) reaches: 0 is the caller's group, -1 every process
KillTargets(p) == IF p \in {0, -1} THEN Live ELSE {p} \cap Live

\* SIGINT ends process p; the handler's kill(pid, SIGINT) has reached others
Dies(p, others, how) ==
    /\ pending' = (pending \cup others) \ {p}
    /\ IF p = D
         THEN pc' = how /\ UNCHANGED worker
         ELSE worker' = [worker EXCEPT ![p] = "zombie"] /\ UNCHANGED pc
    /\ UNCHANGED <<pid, handler, budget>>

DeliverDefault(p) ==
    /\ p \in pending /\ handler[p] = "default"
    /\ Dies(p, {}, "killed")

\* mistake: the supervisor's handler only exits
DeliverKillNobody(p) ==
    /\ p \in pending /\ handler[p] = "kill"
    /\ Dies(p, {}, "exited")

\* the lambda of startDaemon, in the supervisor or in a worker that inherited it
DeliverKill(p) ==
    /\ p \in pending /\ handler[p] = "kill"
    /\ Dies(p, KillTargets(pid[p]), "exited")

\* the lambda of main
DeliverExit(p) ==
    /\ p \in pending /\ handler[p] = "exit"
    /\ pending' = pending \ {p}
    /\ handler' = [handler EXCEPT ![p] = "ignore"]
    /\ worker' = [worker EXCEPT ![p] = "leaving"]
    /\ UNCHANGED <<pc, pid, budget>>

DeliverIgnored(p) ==
    /\ p \in pending /\ handler[p] = "ignore"
    /\ pending' = pending \ {p}
    /\ UNCHANGED <<pc, pid, handler, worker, budget>>

Interrupt(targets) ==
    /\ budget.int > 0 /\ targets # {}
    /\ pending' = pending \cup targets
    /\ budget' = [budget EXCEPT !.int = @ - 1]
    /\ UNCHANGED <<pc, pid, handler, worker>>

Deliver(p) == DeliverDefault(p) \/ DeliverKill(p) \/ DeliverExit(p) \/ DeliverIgnored(p)
Supervisor == Fork \/ StorePid \/ ForkFails \/ InstallKillHandler \/ WaitPid \/ WakeUp
Main(w) == ReturnFromFork(w) \/ InstallExitHandler(w) \/ ReturnFromMain(w)

Next ==
    \/ Supervisor
    \/ \E w \in Worker : Main(w) \/ Crash(w)
    \/ \E p \in Live : Deliver(p) \/ Interrupt({p})
    \/ Interrupt(Live)

\* processes are scheduled and signals delivered; fork succeeds in the end
\* because ForkFails is bounded
Fairness ==
    /\ WF_vars(Supervisor)
    /\ \A w \in Worker : WF_vars(Main(w))
    /\ \A p \in Process : WF_vars(Deliver(p))

Safety == Init /\ [][Next]_vars
Spec   == Safety /\ Fairness

-----------------------------------------------------------------------------
(* Properties *)

\* startDaemon never runs two workers at a time: the second would find the
\* SIP port and the registration of the first in use.
OneWorker == Cardinality(LiveWorkers) <= 1

\* main.cpp:41: the supervisor goes on whatever becomes of a worker; only a
\* SIGINT ends it.
OnlySigintEndsSupervisor == [][Supervising /\ ~Supervising' => D \in pending]_vars

\* A worker that is gone is forked again, unless the supervisor itself was
\* told to stop.
Restarted == Supervising /\ LiveWorkers = {} ~> LiveWorkers # {} \/ ~Supervising

\* A SIGINT that finds the supervisor in waitpid takes the worker down with it.
InterruptWhileWaitingStopsBoth == pc = "wait" /\ D \in pending ~> Live = {}
=============================================================================
