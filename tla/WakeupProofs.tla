---------------------------- MODULE WakeupProofs ----------------------------
(***************************************************************************)
(* No wake-up is lost, for any number of transactions, jobs, events and    *)
(* datagrams, and any size of the pipes.  WakeupInv adds to the properties *)
(* what covers a job, or an event, while its thread is awake: the pass     *)
(* that has yet to come to the transaction, the look at the queue that has *)
(* yet to come before the application waits.                               *)
(***************************************************************************)
EXTENDS Wakeup, TLAPS

\* what was found readable is still there: only the stack thread reads
StillReadable ==
    "socket" \in ready /\ stack.at \in {"drain", "receive", "read"} => net > 0

Counted == net <= came /\ events <= told

\* the stack thread is awake and will come to transaction t before it sleeps
WillExecute(t) ==
    \/ stack.at \in {"drain", "receive", "read", "lock"}
    \/ stack.at = "execute" /\ stack.tr <= t

JobsCovered == \A t \in Tr : jobs[t] > 0 => pipe > 0 \/ owedPipe = 1 \/ WillExecute(t)

EventsCovered == app \in {"resend", "wait"} /\ events > 0 => ctl > 0 \/ owedCtl = 1

WakeupInv == TypeOK /\ StillReadable /\ Counted /\ JobsCovered /\ EventsCovered

-----------------------------------------------------------------------------
(* The pipes *)

\* A write leaves at least one byte in the pipe, and takes none away.
LEMMA WriteLeaves ==
    ASSUME NEW bytes \in 0..MaxPipe
    PROVE  Write(bytes) \in 1..MaxPipe /\ Write(bytes) >= bytes
BY WakeupAssumption DEF Write

LEMMA ReadTakes ==
    ASSUME NEW bytes \in 0..MaxPipe
    PROVE  ReadFrom(bytes) \in 0..MaxPipe
BY WakeupAssumption DEF ReadFrom

LEMMA MoreJobs ==
    ASSUME NEW S, NEW f \in [S -> Nat], NEW g \in [S -> 0..2]
    PROVE  [s \in S |-> f[s] + g[s]] \in [S -> Nat]
OBVIOUS

-----------------------------------------------------------------------------
(* The invariant *)

LEMMA InvInit == Init => WakeupInv
<1> SUFFICES ASSUME Init PROVE WakeupInv
  OBVIOUS
<1>1. TypeOK
  BY WakeupAssumption DEF Init, TypeOK, Tr
<1>2. StillReadable /\ Counted /\ EventsCovered
  BY DEF Init, StillReadable, Counted, EventsCovered
<1>3. JobsCovered
  BY DEF Init, JobsCovered
<1>4. QED
  BY <1>1, <1>2, <1>3 DEF WakeupInv

LEMMA StackKeeps ==
    ASSUME WakeupInv, StackLocks \/ StackRuns \/ Reports \/ TimesOut
    PROVE  WakeupInv'
<1> USE WakeupAssumption
    DEF WakeupInv, TypeOK, StillReadable, Counted, JobsCovered, EventsCovered, WillExecute,
        StackAt, StackTo, ExecutesAt, stackVars, eventVars, appVars, Executing, Tr
<1>1. CASE LocksToRead
  BY <1>1 DEF LocksToRead
<1>2. CASE LocksToExecute
  BY <1>2 DEF LocksToExecute
<1>3. CASE Wakes
  BY <1>3 DEF Wakes, Ready
<1>4. CASE Drain
  BY <1>4, ReadTakes DEF Drain
<1>5. CASE Receives
  <2>1. PICK new \in [Tr -> 0..2] : jobs' = [t \in Tr |-> jobs[t] + new[t]]
    BY <1>5 DEF Receives
  <2>2. jobs' \in [Tr -> Nat]
    <3> HIDE DEF Tr
    <3>1. jobs \in [Tr -> Nat]
      OBVIOUS
    <3>2. [t \in Tr |-> jobs[t] + new[t]] \in [Tr -> Nat]
      BY ONLY <3>1, <2>1, MoreJobs
    <3>3. QED
      BY <2>1, <3>2
  <2>3. pipe' \in 0..MaxPipe
    BY <1>5, WriteLeaves DEF Receives
  <2>4. net' \in 0..MaxNet /\ net' <= came
    BY <1>5 DEF Receives
  <2>5. TypeOK'
    BY <1>5, <2>2, <2>3, <2>4 DEF Receives
  <2>6. StillReadable' /\ Counted' /\ EventsCovered'
    BY <1>5, <2>4 DEF Receives
  <2>7. JobsCovered'
    BY <1>5 DEF Receives
  <2>8. QED
    BY <2>5, <2>6, <2>7
<1>6. CASE UnlocksAfterRead
  BY <1>6 DEF UnlocksAfterRead
<1>7. CASE Releases
  <2>1. pipe' \in 0..MaxPipe /\ pipe' >= pipe
    BY <1>7, WriteLeaves DEF Releases
  <2>2. QED
    BY <1>7, <2>1 DEF Releases
<1>8. CASE Signals
  <2>1. ctl' \in 1..MaxPipe
    BY <1>8, WriteLeaves DEF Signals
  <2>2. QED
    BY <1>8, <2>1 DEF Signals
<1>9. ASSUME NEW t \in Tr, Executes(t) PROVE WakeupInv'
  BY <1>9 DEF Executes
<1>10. ASSUME NEW t \in Tr, Passes(t) PROVE WakeupInv'
  <2>1. stack' = [at |-> "execute", tr |-> t + 1] /\ t + 1 \in Executing
    BY <1>10 DEF Passes
  <2>2. TypeOK'
    BY <1>10, <2>1 DEF Passes
  <2>3. StillReadable' /\ Counted' /\ EventsCovered'
    BY <1>10, <2>1 DEF Passes
  <2>4. JobsCovered'
    <3> SUFFICES ASSUME NEW u \in Tr, jobs[u] > 0 PROVE pipe > 0 \/ owedPipe = 1 \/ t + 1 <= u
      BY <1>10, <2>1 DEF Passes
    <3>1. pipe > 0 \/ owedPipe = 1 \/ t <= u
      BY <1>10 DEF Passes
    <3>2. u # t
      BY <1>10 DEF Passes
    <3>3. QED
      BY <3>1, <3>2
  <2>5. QED
    BY <2>2, <2>3, <2>4
<1>11. CASE Reports
  BY <1>11 DEF Reports
<1>12. CASE TimesOut
  BY <1>12 DEF TimesOut
<1>13. QED
  BY <1>1, <1>2, <1>3, <1>4, <1>5, <1>6, <1>7, <1>8, <1>9, <1>10, <1>11, <1>12
     DEF StackLocks, StackRuns

LEMMA AppKeeps ==
    ASSUME WakeupInv, AppLocks \/ AppRuns \/ NothingCame \/ \E t \in Tr : AddsJob(t)
    PROVE  WakeupInv'
<1> USE WakeupAssumption
    DEF WakeupInv, TypeOK, StillReadable, Counted, JobsCovered, EventsCovered, WillExecute,
        AppAt, AppUnlocks, stackVars, eventVars, appVars, Tr
<1>1. CASE AppLocks
  BY <1>1 DEF AppLocks
<1>2. CASE Tries
  BY <1>2 DEF Tries, TakesOne
<1>3. CASE WakesStack
  <2>1. pipe' \in 1..MaxPipe
    BY <1>3, WriteLeaves DEF WakesStack
  <2>2. TypeOK'
    BY <1>3, <2>1 DEF WakesStack
  <2>3. StillReadable' /\ Counted' /\ JobsCovered' /\ EventsCovered'
    BY <1>3, <2>1 DEF WakesStack
  <2>4. QED
    BY <2>2, <2>3
<1>4. CASE Resent
  BY <1>4 DEF Resent
<1>5. CASE WaitEnds
  BY <1>5 DEF WaitEnds
<1>6. CASE ReadsBytes
  BY <1>6, ReadTakes DEF ReadsBytes
<1>7. CASE Retries
  BY <1>7 DEF Retries, TakesOne
<1>8. CASE Handled
  BY <1>8 DEF Handled
<1>9. CASE NothingCame
  BY <1>9 DEF NothingCame
<1>10. ASSUME NEW t \in Tr, AddsJob(t) PROVE WakeupInv'
  BY <1>10 DEF AddsJob
<1>11. QED
  BY <1>1, <1>2, <1>3, <1>4, <1>5, <1>6, <1>7, <1>8, <1>9, <1>10 DEF AppRuns

LEMMA InvNext == WakeupInv /\ [Next]_vars => WakeupInv'
<1> SUFFICES ASSUME WakeupInv, [Next]_vars PROVE WakeupInv'
  OBVIOUS
<1>1. CASE Arrives
  BY <1>1, WakeupAssumption
     DEF Arrives, WakeupInv, TypeOK, StillReadable, Counted, JobsCovered, EventsCovered,
         WillExecute, stackVars, eventVars, appVars
<1>2. CASE UNCHANGED vars
  BY <1>2 DEF vars, WakeupInv, TypeOK, StillReadable, Counted, JobsCovered, EventsCovered,
              WillExecute, stackVars, eventVars, appVars
<1>3. QED
  BY <1>1, <1>2, StackKeeps, AppKeeps DEF Next

THEOREM InvHolds == Safety => []WakeupInv
BY InvInit, InvNext, PTL DEF Safety

-----------------------------------------------------------------------------
(* What follows from it *)

\* The variables keep their types: no pipe overflows, and no datagram is read
\* that is not there.
THEOREM WakeupTypeOK == Safety => []TypeOK
<1>1. WakeupInv => TypeOK
  BY DEF WakeupInv
<1>2. QED
  BY <1>1, InvHolds, PTL

\* The stack thread never sleeps on a job.
THEOREM NoJobSleptOn == Safety => []JobsAwaken
<1>1. WakeupInv => JobsAwaken
  BY DEF WakeupInv, JobsAwaken, JobsCovered, WillExecute
<1>2. QED
  BY <1>1, InvHolds, PTL

\* The application never waits while an event is in the queue and no byte tells it.
THEOREM NoEventMissed == Safety => []EventsAwaken
<1>1. WakeupInv => EventsAwaken
  BY DEF WakeupInv, EventsAwaken, EventsCovered
<1>2. QED
  BY <1>1, InvHolds, PTL
=============================================================================
