---------------------------- MODULE DaemonProofs ----------------------------
(***************************************************************************)
(* The supervisor never runs two workers, whatever number of crashes,      *)
(* failed forks and interrupts there is.  The workers are forked in the    *)
(* order of their pids and only the last one can be alive; what the        *)
(* supervisor waits for is the last one, so that none is alive when it     *)
(* comes back to fork.                                                     *)
(***************************************************************************)
EXTENDS Daemon, FiniteSetTheorems, TLAPS

\* w is the last worker that was forked
Last(w) == worker[w] # "none" /\ \A v \in Worker : v > w => worker[v] = "none"

ForkedInOrder ==
    \A v, w \in Worker : v < w /\ worker[v] = "none" => worker[w] = "none"

OnlyLastAlive == \A w \in Worker : Alive(w) => Last(w)

\* what the supervisor knows of the workers, where it is
Knows ==
    /\ pc \in {"fork", "sleep1", "sleep3"} => \A w \in Worker : ~Alive(w)
    /\ pc = "forked" => \E w \in Worker : Last(w)
    /\ pc \in {"handler", "wait"} => pid[D] \in Worker /\ Last(pid[D])

DaemonInv == TypeOK /\ ForkedInOrder /\ OnlyLastAlive /\ Knows

-----------------------------------------------------------------------------

LEMMA WorkersNumbered == /\ Worker \subseteq Int /\ D \in Process /\ D \notin Worker
                         /\ Worker \subseteq Process /\ Process \subseteq Worker \cup {D}
BY DaemonAssumption DEF Worker, Process, D

LEMMA DaemonTypeInit == Init => TypeOK
BY DaemonAssumption, WorkersNumbered DEF Init, TypeOK, WorkerState, D

LEMMA DaemonInvInit == Init => DaemonInv
<1> SUFFICES ASSUME Init PROVE DaemonInv
  OBVIOUS
<1>1. \A w \in Worker : worker[w] = "none"
  BY DEF Init
<1>2. QED
  BY <1>1, DaemonTypeInit DEF Init, DaemonInv, ForkedInOrder, OnlyLastAlive, Knows, Alive

\* A step that neither forks nor revives a worker, and keeps the supervisor where it
\* is or takes it out of its loop, keeps what it knows.
LEMMA WorkersDie ==
    ASSUME DaemonInv, TypeOK', pid'[D] = pid[D],
           pc' = pc \/ pc' \in {"exited", "killed"},
           \A w \in Worker : /\ worker[w] = "none" <=> worker'[w] = "none"
                             /\ Alive(w)' => Alive(w)
    PROVE  DaemonInv'
<1>1. \A w \in Worker : Last(w)' <=> Last(w)
  BY DEF Last
<1>2. ForkedInOrder'
  BY DEF DaemonInv, ForkedInOrder
<1>3. OnlyLastAlive'
  BY <1>1 DEF DaemonInv, OnlyLastAlive
<1>4. Knows'
  <2>1. CASE pc' = pc
    BY <1>1, <2>1 DEF DaemonInv, Knows
  <2>2. CASE pc' \in {"exited", "killed"}
    BY <2>2 DEF Knows
  <2>3. QED
    BY <2>1, <2>2
<1>5. QED
  BY <1>2, <1>3, <1>4 DEF DaemonInv

-----------------------------------------------------------------------------
(* The supervisor *)

LEMMA ForkKeeps == DaemonInv /\ Fork => DaemonInv'
<1> SUFFICES ASSUME DaemonInv, Fork PROVE DaemonInv'
  OBVIOUS
<1>1. PICK w \in Worker : /\ worker[w] = "none"
                          /\ \A v \in 1 .. w - 1 : worker[v] # "none"
                          /\ worker' = [worker EXCEPT ![w] = "forked"]
                          /\ pid' = [pid EXCEPT ![w] = pid[D]]
                          /\ handler' = [handler EXCEPT ![w] = handler[D]]
  BY DEF Fork
<1>2. /\ pc' = "forked" /\ UNCHANGED <<pending, budget>>
      /\ \A v \in Worker : ~Alive(v)
  BY DEF Fork, DaemonInv, Knows
<1>3. TypeOK'
  BY <1>1, <1>2, WorkersNumbered DEF DaemonInv, TypeOK, WorkerState
<1>4. worker'[w] = "forked" /\ \A v \in Worker \ {w} : worker'[v] = worker[v]
  BY <1>1 DEF DaemonInv, TypeOK
<1>5. Last(w)'
  BY <1>1, <1>4 DEF Last, DaemonInv, ForkedInOrder, Worker
<1>6. \A v \in Worker : Alive(v)' => v = w
  BY <1>2, <1>4 DEF Alive
<1>7. ForkedInOrder'
  <2> SUFFICES ASSUME NEW u \in Worker, NEW v \in Worker, u < v, worker'[u] = "none"
               PROVE  worker'[v] = "none"
    BY DEF ForkedInOrder
  <2>1. u # w /\ worker[u] = "none" /\ worker[v] = "none"
    BY <1>4 DEF DaemonInv, ForkedInOrder
  <2>2. v # w
    BY <1>1, <2>1 DEF Worker
  <2>3. QED
    BY <1>4, <2>1, <2>2
<1>8. QED
  BY <1>2, <1>3, <1>5, <1>6, <1>7 DEF DaemonInv, OnlyLastAlive, Knows

LEMMA NewestIsLast == DaemonInv /\ pc = "forked" => Newest \in Worker /\ Last(Newest)
BY DEF DaemonInv, Knows, Newest, Last

LEMMA WaitPidKeeps == DaemonInv /\ WaitPid => DaemonInv'
<1> SUFFICES ASSUME DaemonInv, WaitPid PROVE DaemonInv'
  OBVIOUS
<1> DEFINE p == pid[D]
<1>1. /\ p \in Worker /\ worker[p] = "zombie" /\ Last(p)
      /\ worker' = [worker EXCEPT ![p] = "reaped"]
      /\ pc' = "sleep3" /\ UNCHANGED <<pid, handler, pending, budget>>
  BY DEF WaitPid, DaemonInv, Knows
<1>2. TypeOK'
  BY <1>1 DEF DaemonInv, TypeOK, WorkerState
<1>3. worker'[p] = "reaped" /\ \A v \in Worker \ {p} : worker'[v] = worker[v]
  BY <1>1 DEF DaemonInv, TypeOK
<1>4. ASSUME NEW w \in Worker PROVE ~Alive(w) /\ ~Alive(w)'
  <2>1. CASE w = p
    BY <1>1, <1>3, <2>1 DEF Alive
  <2>2. CASE w # p
    <3>1. w < p \/ w > p
      BY <1>1, <2>2 DEF Worker
    <3>2. ~Last(w)
      BY <1>1, <3>1 DEF Last
    <3>3. QED
      BY <1>3, <2>2, <3>2 DEF Alive, DaemonInv, OnlyLastAlive
  <2>3. QED
    BY <2>1, <2>2
<1>5. ForkedInOrder'
  BY <1>1, <1>3 DEF DaemonInv, ForkedInOrder
<1>6. QED
  BY <1>1, <1>2, <1>4, <1>5 DEF DaemonInv, OnlyLastAlive, Knows

LEMMA SupervisorKeeps == DaemonInv /\ Supervisor => DaemonInv'
<1> SUFFICES ASSUME DaemonInv, Supervisor PROVE DaemonInv'
  OBVIOUS
<1>1. CASE StorePid
  <2>1. Newest \in Worker /\ Last(Newest)
    BY <1>1, NewestIsLast DEF StorePid
  <2>2. pid' = [pid EXCEPT ![D] = Newest] /\ pc' = "handler" /\ UNCHANGED <<handler, worker, pending, budget>>
    BY <1>1 DEF StorePid
  <2>3. TypeOK' /\ pid'[D] = Newest
    BY <2>1, <2>2, WorkersNumbered DEF DaemonInv, TypeOK
  <2>4. QED
    BY <2>1, <2>2, <2>3 DEF DaemonInv, ForkedInOrder, OnlyLastAlive, Knows, Last, Alive
<1>2. CASE ForkFails
  <2>1. /\ pc = "fork" /\ pc' = "sleep1" /\ pid' = [pid EXCEPT ![D] = -1]
        /\ budget.fail > 0 /\ budget' = [budget EXCEPT !.fail = @ - 1]
        /\ UNCHANGED <<handler, worker, pending>>
    BY <1>2 DEF ForkFails
  <2>2. budget' \in [crash : 0 .. MaxCrash, int : 0 .. MaxInt, fail : 0 .. MaxFail]
    BY <2>1, DaemonAssumption DEF DaemonInv, TypeOK
  <2>3. TypeOK'
    BY <2>1, <2>2 DEF DaemonInv, TypeOK
  <2>4. QED
    BY <2>1, <2>3 DEF DaemonInv, ForkedInOrder, OnlyLastAlive, Knows, Last, Alive
<1>3. CASE InstallKillHandler
  BY <1>3 DEF InstallKillHandler, DaemonInv, TypeOK, ForkedInOrder, OnlyLastAlive, Knows, Last, Alive
<1>4. CASE WakeUp
  BY <1>4 DEF WakeUp, DaemonInv, TypeOK, ForkedInOrder, OnlyLastAlive, Knows, Last, Alive
<1>5. QED
  BY <1>1, <1>2, <1>3, <1>4, ForkKeeps, WaitPidKeeps DEF Supervisor

-----------------------------------------------------------------------------
(* The workers and the signals *)

LEMMA WorkerKeeps ==
    ASSUME DaemonInv, NEW w \in Worker, Main(w) \/ Crash(w)
    PROVE  DaemonInv'
<1> USE DEF DaemonInv, TypeOK, WorkerState
<1>1. CASE ReturnFromFork(w)
  <2>1. TypeOK' /\ pid'[D] = pid[D] /\ pc' = pc
    BY <1>1, WorkersNumbered DEF ReturnFromFork, D
  <2>2. QED
    BY <1>1, <2>1, WorkersDie DEF ReturnFromFork, Alive
<1>2. CASE InstallExitHandler(w)
  <2>1. PICK life \in {"armed", "deaf"} : worker' = [worker EXCEPT ![w] = life]
    BY <1>2 DEF InstallExitHandler
  <2>2. TypeOK' /\ pid'[D] = pid[D] /\ pc' = pc
    BY <1>2, <2>1, WorkersNumbered DEF InstallExitHandler
  <2>3. QED
    BY <1>2, <2>1, <2>2, WorkersDie DEF InstallExitHandler, Alive
<1>3. CASE ReturnFromMain(w)
  <2>1. TypeOK' /\ pid'[D] = pid[D] /\ pc' = pc
    BY <1>3 DEF ReturnFromMain
  <2>2. QED
    BY <1>3, <2>1, WorkersDie DEF ReturnFromMain, Alive
<1>4. CASE Crash(w)
  <2>1. budget' \in [crash : 0 .. MaxCrash, int : 0 .. MaxInt, fail : 0 .. MaxFail]
    BY <1>4, DaemonAssumption DEF Crash
  <2>2. TypeOK' /\ pid'[D] = pid[D] /\ pc' = pc
    BY <1>4, <2>1 DEF Crash
  <2>3. QED
    BY <1>4, <2>2, WorkersDie DEF Crash, Alive
<1>5. QED
  BY <1>1, <1>2, <1>3, <1>4 DEF Main

LEMMA LiveProcesses == Live \subseteq Process
BY WorkersNumbered DEF Live, LiveWorkers

\* A SIGINT that ends a process ends at most one, and no worker but a live one.
LEMMA DiesKeeps ==
    ASSUME DaemonInv, NEW p \in Live, NEW others \in SUBSET Process,
           NEW how \in {"exited", "killed"}, Dies(p, others, how)
    PROVE  DaemonInv'
<1>1. p \in Process /\ (p # D => p \in Worker /\ Alive(p))
  BY LiveProcesses, WorkersNumbered DEF Live, LiveWorkers
<1>2. TypeOK' /\ pid'[D] = pid[D]
  BY <1>1 DEF Dies, DaemonInv, TypeOK, WorkerState
<1>3. CASE p = D
  BY <1>2, <1>3, WorkersDie DEF Dies, Alive
<1>4. CASE p # D
  BY <1>1, <1>2, <1>4, WorkersDie DEF Dies, Alive, DaemonInv, TypeOK
<1>5. QED
  BY <1>3, <1>4

LEMMA SignalKeeps ==
    ASSUME DaemonInv, NEW p \in Live, Deliver(p)
    PROVE  DaemonInv'
<1>1. CASE DeliverDefault(p)
  BY <1>1, DiesKeeps DEF DeliverDefault
<1>2. CASE DeliverKill(p)
  <2>1. KillTargets(pid[p]) \in SUBSET Process
    BY LiveProcesses DEF KillTargets
  <2>2. QED
    BY <1>2, <2>1, DiesKeeps DEF DeliverKill
<1>3. CASE DeliverExit(p)
  <2>1. TypeOK' /\ pid'[D] = pid[D] /\ pc' = pc
    BY <1>3, LiveProcesses DEF DeliverExit, DaemonInv, TypeOK, WorkerState
  <2>2. p \in Worker => Alive(p)
    BY WorkersNumbered DEF Live, LiveWorkers
  <2>3. QED
    BY <1>3, <2>1, <2>2, WorkersDie DEF DeliverExit, Alive, DaemonInv, TypeOK
<1>4. CASE DeliverIgnored(p)
  <2>1. TypeOK' /\ pid'[D] = pid[D] /\ pc' = pc /\ worker' = worker
    BY <1>4 DEF DeliverIgnored, DaemonInv, TypeOK
  <2>2. QED
    BY <2>1, WorkersDie DEF Alive
<1>5. QED
  BY <1>1, <1>2, <1>3, <1>4 DEF Deliver

LEMMA InterruptKeeps ==
    ASSUME DaemonInv, NEW targets \in SUBSET Live, Interrupt(targets)
    PROVE  DaemonInv'
<1>1. budget' \in [crash : 0 .. MaxCrash, int : 0 .. MaxInt, fail : 0 .. MaxFail]
  BY DaemonAssumption DEF Interrupt, DaemonInv, TypeOK
<1>2. TypeOK' /\ pid'[D] = pid[D] /\ pc' = pc /\ worker' = worker
  BY <1>1, LiveProcesses DEF Interrupt, DaemonInv, TypeOK
<1>3. QED
  BY <1>2, WorkersDie DEF Alive

LEMMA DaemonInvNext == DaemonInv /\ [Next]_vars => DaemonInv'
<1> SUFFICES ASSUME DaemonInv, [Next]_vars PROVE DaemonInv'
  OBVIOUS
<1>1. CASE UNCHANGED vars
  BY <1>1 DEF vars, DaemonInv, TypeOK, ForkedInOrder, OnlyLastAlive, Knows, Last, Alive
<1>2. ASSUME NEW p \in Live, Interrupt({p}) PROVE DaemonInv'
  BY <1>2, InterruptKeeps
<1>3. CASE Interrupt(Live)
  BY <1>3, InterruptKeeps
<1>4. QED
  BY <1>1, <1>2, <1>3, SupervisorKeeps, WorkerKeeps, SignalKeeps DEF Next

LEMMA DaemonInvHolds == Safety => []DaemonInv
BY DaemonInvInit, DaemonInvNext, PTL DEF Safety

\* The variables of Daemon keep their types, for any bounds.
THEOREM DaemonTypeOK == Safety => []TypeOK
<1>1. DaemonInv => TypeOK
  BY DEF DaemonInv
<1>2. QED
  BY <1>1, DaemonInvHolds, PTL

\* startDaemon never runs two workers at a time, however often they crash, are
\* interrupted or cannot be forked.
THEOREM NeverTwoWorkers == Safety => []OneWorker
<1>1. DaemonInv => OneWorker
  <2> SUFFICES ASSUME DaemonInv PROVE Cardinality(LiveWorkers) <= 1
    BY DEF OneWorker
  <2>1. CASE LiveWorkers = {}
    BY <2>1, FS_EmptySet
  <2>2. ASSUME NEW w \in LiveWorkers PROVE Cardinality(LiveWorkers) <= 1
    <3>1. ASSUME NEW v \in LiveWorkers PROVE v = w
      <4>1. v \in Worker /\ w \in Worker /\ Last(v) /\ Last(w)
        BY <2>2, <3>1 DEF LiveWorkers, DaemonInv, OnlyLastAlive
      <4>2. ~(v > w) /\ ~(w > v)
        BY <4>1 DEF Last
      <4>3. QED
        BY <4>1, <4>2 DEF Worker
    <3>2. LiveWorkers = {w}
      BY <2>2, <3>1
    <3>3. Cardinality({w}) = 1
      BY FS_Singleton
    <3>4. QED
      BY <3>2, <3>3
  <2>3. QED
    BY <2>1, <2>2
<1>2. QED
  BY <1>1, DaemonInvHolds, PTL

\* main.cpp:41: the supervisor goes on whatever becomes of a worker, and however often
\* fork fails; only a SIGINT ends it.
THEOREM SupervisorGoesOn == Safety => OnlySigintEndsSupervisor
<1>1. ASSUME [Next]_vars, Supervising, ~Supervising' PROVE D \in pending
  <2>1. CASE UNCHANGED vars
    BY <1>1, <2>1 DEF vars, Supervising
  <2>2. CASE Supervisor
    BY <1>1, <2>2
       DEF Supervisor, Fork, StorePid, ForkFails, InstallKillHandler, WaitPid, WakeUp, Supervising
  <2>3. ASSUME NEW w \in Worker, Main(w) \/ Crash(w) PROVE D \in pending
    BY <1>1, <2>3
       DEF Main, ReturnFromFork, InstallExitHandler, ReturnFromMain, Crash, Supervising
  <2>4. ASSUME NEW p \in Live, Deliver(p) PROVE D \in pending
    BY <1>1, <2>4
       DEF Deliver, DeliverDefault, DeliverKill, DeliverExit, DeliverIgnored, Dies, Supervising
  <2>5. ASSUME NEW targets, Interrupt(targets) PROVE D \in pending
    BY <1>1, <2>5 DEF Interrupt, Supervising
  <2>6. QED
    BY <1>1, <2>1, <2>2, <2>3, <2>4, <2>5 DEF Next
<1>2. [Next]_vars => [Supervising /\ ~Supervising' => D \in pending]_vars
  BY <1>1
<1>3. QED
  BY <1>2, PTL DEF Safety, OnlySigintEndsSupervisor
=============================================================================
