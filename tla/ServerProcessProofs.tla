------------------------- MODULE ServerProcessProofs -------------------------
(***************************************************************************)
(* Theorems about ServerProcess, for any number of requests, any size of    *)
(* the pool, a local file or a replica.                                     *)
(***************************************************************************)
EXTENDS ServerProcess, FiniteSetTheorems, TLAPS

USE ServerAssumption

AnyJob == Resting \union MaintJobs \union ReloadJobs

-----------------------------------------------------------------------------
(* What follows an error, and what RunMaintenance begins with, are jobs.    *)
LEMMA MaintenanceType == \A b : Maintenance(b) \in AnyJob
  BY DEF Maintenance, AnyJob, MaintJobs, TokenJobs

LEMMA NextJobType == \A j \in DOMAIN NextJob : NextJob[j] \in AnyJob
  BY DEF NextJob, AnyJob, Resting, MaintJobs, TokenJobs, ReloadJobs

LEMMA AfterErrorType ==
  ASSUME NEW j \in MaintJobs \union ReloadJobs PROVE AfterError(j) \in AnyJob
<1>1. CASE j \in DOMAIN NextJob /\ j \notin {"revokedTokens", "users", "adminUsers"}
  BY <1>1, NextJobType DEF AfterError, NextJob
<1>2. CASE j \in {"revokedTokens", "users", "adminUsers", "freelist", "vacuum", "notes"}
  BY <1>2 DEF AfterError, AnyJob, Resting, MaintJobs, TokenJobs, ReloadJobs
<1>3. CASE j \in {"stamp", "folders"}
  BY <1>3, MaintenanceType DEF AfterError
<1>. QED
  BY <1>1, <1>2, <1>3 DEF MaintJobs, ReloadJobs, TokenJobs, NextJob

-----------------------------------------------------------------------------
(* The pool.  A statement that ends wakes at most one that waits: an actor  *)
(* that is away stays away.                                                 *)
PoolType ==
  stmt \in [Actors -> {"away", "waiting", "running"}] /\ holders \subseteq Actors

LEMMA GiveBackPool ==
  ASSUME PoolType, NEW a \in Actors, GiveBack(a)
  PROVE  /\ PoolType'
         /\ stmt'[a] = "away"
         /\ \A b \in Actors : stmt[b] = "away" => stmt'[b] = "away"
<1>1. CASE stmt' = [stmt EXCEPT ![a] = "away"] /\ holders' = Returned(a)
  BY <1>1 DEF PoolType, Returned
<1>2. ASSUME NEW w \in Waiters,
             stmt' = [stmt EXCEPT ![a] = "away", ![w] = "running"],
             holders' = Returned(a) \union {w}
      PROVE  /\ PoolType'
             /\ stmt'[a] = "away"
             /\ \A b \in Actors : stmt[b] = "away" => stmt'[b] = "away"
  <2>1. w \in Actors /\ stmt[w] = "waiting" /\ stmt[a] = "running"
    BY <1>2 DEF Waiters, GiveBack
  <2>. QED
    BY <1>2, <2>1 DEF PoolType, Returned
<1>. QED
  BY <1>1, <1>2 DEF GiveBack

LEMMA AskPool ==
  ASSUME PoolType, NEW a \in Actors, Ask(a)
  PROVE  /\ PoolType'
         /\ \A b \in Actors \ {a} : stmt'[b] = stmt[b]
  BY DEF PoolType, Ask

LEMMA StopWaitingPool ==
  ASSUME PoolType, NEW a \in Actors, StopWaiting(a)
  PROVE  /\ PoolType'
         /\ stmt'[a] = "away"
         /\ \A b \in Actors \ {a} : stmt'[b] = stmt[b]
  BY DEF PoolType, StopWaiting

LEMMA LoopsAct == Maint \in Loops /\ Reload \in Loops /\ Loops \subseteq Actors /\ Requests \subseteq Actors
  BY DEF Loops, Actors

-----------------------------------------------------------------------------
LEMMA InitInv == Init => ProcessInv
<1>. SUFFICES ASSUME Init PROVE ProcessInv
  OBVIOUS
<1>1. TypeOK
  <2>1. job \in [Loops -> Resting \union MaintJobs \union ReloadJobs]
    BY DEF Init, Resting
  <2>2. prev \in -1..MaxFree
    BY DEF Init
  <2>. QED
    BY <2>1, <2>2 DEF Init, TypeOK, MainStages
<1>2. RestingLoopsAreAway /\ StopsInOrder
  BY DEF Init, RestingLoopsAreAway, StopsInOrder, Loops, Actors
<1>. QED
  BY <1>1, <1>2 DEF ProcessInv

(* A request moves its own statement, or wakes one that waits.              *)
LEMMA RequestKeeps ==
  ASSUME ProcessInv, NEW r \in Requests, RequestStep(r)
  PROVE  ProcessInv'
<1>. USE LoopsAct DEF ProcessInv
<1>. PoolType /\ r \in Actors /\ r \notin Loops
  BY DEF TypeOK, PoolType, Loops, Actors
<1>1. CASE Arrive(r)
  BY <1>1 DEF Arrive, mainVars, poolVars, loopVars, fileVars,
              TypeOK, RestingLoopsAreAway, StopsInOrder
<1>2. CASE Query(r)
  <2>. PoolType' /\ \A b \in Loops : stmt'[b] = stmt[b]
    BY <1>2, AskPool DEF Query
  <2>. QED
    BY <1>2 DEF Query, mainVars, loopVars, fileVars,
                PoolType, TypeOK, RestingLoopsAreAway, StopsInOrder
<1>3. CASE QueryDone(r)
  <2>. PoolType' /\ \A b \in Loops : stmt[b] = "away" => stmt'[b] = "away"
    BY <1>3, GiveBackPool DEF QueryDone
  <2>. QED
    BY <1>3 DEF QueryDone, mainVars, loopVars,
                PoolType, TypeOK, RestingLoopsAreAway, StopsInOrder
<1>4. CASE GiveUp(r)
  <2>. PoolType' /\ \A b \in Loops : stmt'[b] = stmt[b]
    BY <1>4, StopWaitingPool DEF GiveUp
  <2>. QED
    BY <1>4 DEF GiveUp, mainVars, loopVars, fileVars,
                PoolType, TypeOK, RestingLoopsAreAway, StopsInOrder
<1>5. CASE Leave(r)
  BY <1>5 DEF Leave, mainVars, poolVars, loopVars, fileVars,
              TypeOK, RestingLoopsAreAway, StopsInOrder
<1>. QED
  BY <1>1, <1>2, <1>3, <1>4, <1>5 DEF RequestStep

(* The step of a loop that is at a job: what it has to show of the pool and *)
(* of its own variables for the invariant to hold.                          *)
LEMMA LoopMoves ==
  ASSUME ProcessInv, NEW a \in Loops, NEW next \in AnyJob,
         job[a] \notin Resting, job' = [job EXCEPT ![a] = next],
         PoolType', stmt'[a] = "away",
         \A b \in Actors \ {a} : stmt[b] = "away" => stmt'[b] = "away",
         UNCHANGED <<mainVars, serving>>,
         deleted' \in BOOLEAN, prev' \in -1..MaxFree,
         freelist' \in 0..MaxFree, incremental' = incremental
  PROVE  ProcessInv'
<1>. USE LoopsAct DEF ProcessInv
<1>1. TypeOK'
  BY DEF TypeOK, PoolType, mainVars, AnyJob
<1>2. RestingLoopsAreAway'
  BY DEF RestingLoopsAreAway, TypeOK
<1>3. StopsInOrder'
  BY DEF StopsInOrder, TypeOK, mainVars, Resting
<1>. QED
  BY <1>1, <1>2, <1>3

LEMMA CompletesPool ==
  ASSUME ProcessInv, NEW a \in Loops, NEW j, Completes(a, j)
  PROVE  /\ PoolType' /\ stmt'[a] = "away"
         /\ \A b \in Actors \ {a} : stmt[b] = "away" => stmt'[b] = "away"
         /\ job[a] = j /\ UNCHANGED <<mainVars, serving, incremental>>
  BY LoopsAct, GiveBackPool DEF Completes, ProcessInv, TypeOK, PoolType

(* The statements of the maintenance that change the locals or the file.    *)
LEMMA MaintKeeps ==
  ASSUME ProcessInv, MaintStep PROVE ProcessInv'
<1>. USE LoopsAct
<1>0. deleted \in BOOLEAN /\ prev \in -1..MaxFree /\ freelist \in 0..MaxFree
  BY DEF ProcessInv, TypeOK
<1>1. CASE ReadStamp
  <2>1. PICK next \in {"notes", Maintenance(FALSE)} : Continue(Maint, next)
    BY <1>1 DEF ReadStamp
  <2>2. next \in AnyJob
    BY MaintenanceType DEF AnyJob, MaintJobs
  <2>. QED
    BY <1>0, <1>1, <2>1, <2>2, CompletesPool, LoopMoves DEF ReadStamp, Continue, Resting
<1>2. CASE PurgeNotes
  <2>1. "folders" \in AnyJob
    BY DEF AnyJob, MaintJobs
  <2>2. deleted' \in BOOLEAN /\ prev' \in -1..MaxFree /\ freelist' \in 0..MaxFree
    BY <1>0, <1>2 DEF PurgeNotes
  <2>. QED
    BY <1>2, <2>1, <2>2, CompletesPool, LoopMoves DEF PurgeNotes, Continue, Resting
<1>3. CASE PurgeFolders
  <2>1. PICK found \in BOOLEAN :
          /\ Continue(Maint, Maintenance(deleted \/ found))
          /\ freelist' \in (IF found THEN freelist..MaxFree ELSE {freelist})
    BY <1>3 DEF PurgeFolders
  <2>2. Maintenance(deleted \/ found) \in AnyJob
    BY MaintenanceType
  <2>3. deleted' \in BOOLEAN /\ prev' \in -1..MaxFree /\ freelist' \in 0..MaxFree
    <3>1. freelist' \in freelist..MaxFree
      BY <1>0, <2>1
    <3>2. deleted' = FALSE /\ prev' = prev
      BY <1>3 DEF PurgeFolders
    <3>3. freelist' \in 0..MaxFree
      BY <1>0, <3>1 DEF ServerAssumption
    <3>. QED
      BY <1>0, <3>2, <3>3
  <2>. QED
    BY <1>3, <2>1, <2>2, <2>3, CompletesPool, LoopMoves DEF PurgeFolders, Continue, Resting
<1>4. CASE CountFree
  <2>1. PICK next \in {"checkpoint", "revokedTokens", "vacuum"} :
          Continue(Maint, next) /\ prev' = IF next = "vacuum" THEN freelist ELSE -1
    BY <1>4 DEF CountFree
  <2>2. next \in AnyJob
    BY DEF AnyJob, MaintJobs, TokenJobs
  <2>3. deleted' \in BOOLEAN /\ prev' \in -1..MaxFree /\ freelist' \in 0..MaxFree
    BY <1>0, <1>4, <2>1 DEF CountFree
  <2>. QED
    BY <1>4, <2>1, <2>2, <2>3, CompletesPool, LoopMoves DEF CountFree, Continue, Resting
<1>5. CASE VacuumStep
  <2>1. "freelist" \in AnyJob
    BY DEF AnyJob, MaintJobs
  <2>2. deleted' \in BOOLEAN /\ prev' \in -1..MaxFree /\ freelist' \in 0..MaxFree
    BY <1>0, <1>5 DEF VacuumStep, AfterStep
  <2>. QED
    BY <1>5, <2>1, <2>2, CompletesPool, LoopMoves DEF VacuumStep, Continue, Resting
<1>. QED
  BY <1>1, <1>2, <1>3, <1>4, <1>5 DEF MaintStep

(* Every other step of a loop.                                              *)
LEMMA LoopKeeps ==
  ASSUME ProcessInv, NEW a \in Loops, LoopStep(a)
  PROVE  ProcessInv'
<1>. USE LoopsAct
<1>0. /\ deleted \in BOOLEAN /\ prev \in -1..MaxFree /\ freelist \in 0..MaxFree
      /\ PoolType /\ job[a] \in AnyJob
  BY DEF ProcessInv, TypeOK, PoolType, AnyJob
<1>1. CASE Begin(a)
  <2>. PoolType' /\ \A b \in Actors \ {a} : stmt'[b] = stmt[b]
    BY <1>0, <1>1, AskPool DEF Begin
  <2>. QED
    BY <1>1 DEF Begin, mainVars, loopVars, fileVars,
                PoolType, ProcessInv, TypeOK, RestingLoopsAreAway, StopsInOrder
<1>2. CASE MaintStep
  BY <1>2, MaintKeeps
<1>3. CASE Plain(a)
  <2>1. NextJob[job[a]] \in AnyJob /\ job[a] \notin Resting
    BY <1>3, NextJobType DEF Plain, NextJob, Resting
  <2>. QED
    BY <1>0, <1>3, <2>1, CompletesPool, LoopMoves DEF Plain, Continue
<1>4. CASE Error(a)
  <2>1. AfterError(job[a]) \in AnyJob /\ job[a] \notin Resting
    BY <1>0, <1>4, AfterErrorType DEF Error, AnyJob
  <2>2. /\ PoolType' /\ stmt'[a] = "away"
        /\ \A b \in Actors \ {a} : stmt[b] = "away" => stmt'[b] = "away"
    <3>1. CASE stmt[a] = "away" /\ UNCHANGED poolVars
      BY <1>0, <3>1 DEF poolVars, PoolType
    <3>2. CASE StopWaiting(a)
      BY <1>0, <3>2, StopWaitingPool
    <3>3. CASE GiveBack(a)
      BY <1>0, <3>3, GiveBackPool
    <3>. QED
      BY <1>4, <3>1, <3>2, <3>3 DEF Error
  <2>3. deleted' \in BOOLEAN
    BY <1>0, <1>4 DEF Error
  <2>4. prev' \in -1..MaxFree
    BY <1>0, <1>4 DEF Error
  <2>5. UNCHANGED <<mainVars, serving, fileVars>> /\ job' = [job EXCEPT ![a] = AfterError(job[a])]
    BY <1>4 DEF Error, Continue
  <2>. QED
    BY <1>0, <2>1, <2>2, <2>3, <2>4, <2>5, LoopMoves DEF fileVars
<1>5. ASSUME job[a] = "idle",
             NEW j \in AnyJob, Continue(a, j),
             UNCHANGED <<mainVars, serving, poolVars, deleted, prev, fileVars>>
      PROVE  ProcessInv'
  <2>1. TypeOK'
    BY <1>5 DEF ProcessInv, TypeOK, Continue, AnyJob, mainVars, poolVars, fileVars
  <2>2. RestingLoopsAreAway'
    BY <1>5 DEF ProcessInv, TypeOK, RestingLoopsAreAway, Continue, poolVars, Resting
  <2>3. StopsInOrder'
    BY <1>5 DEF ProcessInv, TypeOK, StopsInOrder, Continue, mainVars
  <2>. QED
    BY <2>1, <2>2, <2>3 DEF ProcessInv
<1>6. CASE Wake(a)
  <2>1. PICK j \in {"users", "stamp", "checkpointOnly"} : Continue(a, j)
    BY <1>6 DEF Wake
  <2>2. j \in AnyJob
    BY DEF AnyJob, MaintJobs, ReloadJobs
  <2>. QED
    BY <1>5, <1>6, <2>1, <2>2 DEF Wake
<1>7. CASE Quit(a)
  <2>1. "done" \in AnyJob
    BY DEF AnyJob, Resting
  <2>. QED
    BY <1>5, <1>7, <2>1 DEF Quit
<1>. QED
  BY <1>1, <1>2, <1>3, <1>4, <1>6, <1>7 DEF LoopStep, LoopWork

(* main(): each stage is left only when what it waits for has happened.     *)
LEMMA MainKeeps ==
  ASSUME ProcessInv, Start \/ Signal \/ MainStep \/ DrainTimeout \/ Crash
  PROVE  ProcessInv'
<1>. USE LoopsAct DEF ProcessInv
<1>1. CASE Start
  <2>1. job' \in [Loops -> Resting \union MaintJobs \union ReloadJobs]
    BY <1>1 DEF Start, Resting, MaintJobs
  <2>2. freelist' \in 0..MaxFree /\ incremental' \in BOOLEAN
    <3>1. (freelist' = freelist /\ incremental' = incremental) \/ (freelist' = 0 /\ incremental' = TRUE)
      BY <1>1 DEF Start, fileVars
    <3>2. 0 \in 0..MaxFree
      BY DEF ServerAssumption
    <3>. QED
      BY <3>1, <3>2 DEF TypeOK
  <2>3. \A a \in Loops : stmt[a] = "away"
    BY <1>1 DEF Start, RestingLoopsAreAway, StopsInOrder, Loops, Resting
  <2>4. TypeOK'
    BY <1>1, <2>1, <2>2 DEF Start, TypeOK, MainStages, poolVars
  <2>. QED
    BY <1>1, <2>3, <2>4 DEF Start, RestingLoopsAreAway, StopsInOrder, poolVars
<1>2. CASE Signal
  BY <1>2 DEF Signal, TypeOK, RestingLoopsAreAway, StopsInOrder, poolVars, loopVars, fileVars
<1>3. ASSUME NEW from \in MainStages, NEW to \in MainStages, Advance(from, to),
             overran' \in BOOLEAN, StopsInOrder'
      PROVE  ProcessInv'
  BY <1>3 DEF Advance, TypeOK, RestingLoopsAreAway, poolVars, loopVars, fileVars
<1>4. CASE Shutdown
  BY <1>3, <1>4 DEF Shutdown, Advance, MainStages, StopsInOrder, TypeOK
<1>5. CASE Drained
  BY <1>3, <1>5 DEF Drained, Advance, MainStages, StopsInOrder, TypeOK
<1>6. CASE DrainTimeout
  BY <1>3, <1>6 DEF DrainTimeout, Advance, MainStages, StopsInOrder, TypeOK
<1>7. CASE StopMaintenance
  BY <1>3, <1>7 DEF StopMaintenance, Advance, Ended, MainStages, StopsInOrder, TypeOK, loopVars
<1>8. CASE StopReload
  BY <1>3, <1>8 DEF StopReload, Advance, Ended, MainStages, StopsInOrder, TypeOK, loopVars
<1>9. CASE Gone
  <2>1. job' \in [Loops -> Resting \union MaintJobs \union ReloadJobs]
    BY <1>9 DEF Gone, Resting
  <2>2. prev' \in -1..MaxFree
    BY <1>9 DEF Gone
  <2>3. TypeOK'
    BY <1>9, <2>1, <2>2 DEF Gone, TypeOK, MainStages, fileVars
  <2>. QED
    BY <1>9, <2>3 DEF Gone, RestingLoopsAreAway, StopsInOrder
<1>. QED
  BY <1>1, <1>2, <1>4, <1>5, <1>6, <1>7, <1>8, <1>9 DEF MainStep, Exit, Crash

-----------------------------------------------------------------------------
LEMMA StepInv == ProcessInv /\ [Next]_vars => ProcessInv'
<1>. SUFFICES ASSUME ProcessInv, [Next]_vars PROVE ProcessInv'
  OBVIOUS
<1>1. CASE Next
  BY <1>1, RequestKeeps, LoopKeeps, MainKeeps DEF Next
<1>2. CASE UNCHANGED vars
  BY <1>2 DEF vars, mainVars, poolVars, loopVars, fileVars,
              ProcessInv, TypeOK, RestingLoopsAreAway, StopsInOrder
<1>. QED
  BY <1>1, <1>2

(* The inductive invariant: a loop at rest has no statement on the pool,    *)
(* and main() is past a wait only when what it waited for has happened.     *)
THEOREM InvariantCorrect == Spec => []ProcessInv
<1>. QED
  BY InitInv, StepInv, PTL DEF Spec

(* Type correctness: in particular the freelist and what the vacuum has     *)
(* read of it stay within the file.                                         *)
THEOREM TypeCorrect == Spec => []TypeOK
<1>1. ProcessInv => TypeOK
  BY DEF ProcessInv
<1>. QED
  BY <1>1, InvariantCorrect, PTL

(* The pool is closed after both loops have ended, and over a request only  *)
(* when Shutdown has timed out: however main(), the loops and the requests  *)
(* interleave.                                                              *)
THEOREM ClosedLast == Spec => []PoolOutlivesItsUsers
<1>1. ProcessInv => PoolOutlivesItsUsers
  BY DEF ProcessInv, RestingLoopsAreAway, StopsInOrder, PoolOutlivesItsUsers,
         Loops, Resting
<1>. QED
  BY <1>1, InvariantCorrect, PTL

-----------------------------------------------------------------------------
(* The connections.  Whatever a step does, of the pool it is one of these.  *)
LEMMA PoolMoves ==
  ASSUME [Next]_vars
  PROVE  \/ \E a \in Actors : Ask(a) \/ GiveBack(a) \/ StopWaiting(a)
         \/ UNCHANGED poolVars
         \/ Gone
<1>. USE LoopsAct
<1>1. ASSUME NEW r \in Requests, RequestStep(r)
      PROVE  \/ Ask(r) \/ GiveBack(r) \/ StopWaiting(r)
             \/ UNCHANGED poolVars
  BY <1>1 DEF RequestStep, Arrive, Query, QueryDone, GiveUp, Leave
<1>2. ASSUME NEW a \in Loops, LoopWork(a)
      PROVE  \E b \in Actors : Ask(b) \/ GiveBack(b)
  <2>1. CASE Begin(a)
    BY <2>1 DEF Begin
  <2>2. CASE MaintStep
    BY <2>2 DEF MaintStep, ReadStamp, PurgeNotes, PurgeFolders, CountFree, VacuumStep, Completes
  <2>3. CASE Plain(a)
    BY <2>3 DEF Plain, Completes
  <2>. QED
    BY <1>2, <2>1, <2>2, <2>3 DEF LoopWork
<1>3. ASSUME NEW a \in Loops, Error(a) \/ Wake(a) \/ Quit(a)
      PROVE  \/ GiveBack(a) \/ StopWaiting(a)
             \/ UNCHANGED poolVars
  BY <1>3 DEF Error, Wake, Quit
<1>4. CASE Start \/ Signal \/ MainStep \/ DrainTimeout \/ Crash
  BY <1>4 DEF Start, Signal, MainStep, DrainTimeout, Crash, Shutdown, Drained, StopMaintenance,
              StopReload, Exit, Advance
<1>5. CASE UNCHANGED vars
  BY <1>5 DEF vars, poolVars
<1>. QED
  BY <1>1, <1>2, <1>3, <1>4, <1>5 DEF Next, LoopStep

(* The inductive invariant of the pool: those that hold a connection are    *)
(* counted, however many actors there are.                                  *)
PoolInv == PoolType /\ IsFiniteSet(holders) /\ NoConnectionLost

LEMMA AskKeeps ==
  ASSUME PoolInv, NEW a \in Actors, Ask(a)
  PROVE  PoolInv'
<1>. USE DEF PoolInv, NoConnectionLost
<1>1. PoolType'
  BY AskPool
<1>2. stmt[a] = "away" /\ a \notin holders /\ Cardinality(holders) \in Nat
  BY FS_CardinalityType DEF Ask
<1>3. CASE Cardinality(holders) < MaxOpen
  <2>1. stmt' = [stmt EXCEPT ![a] = "running"] /\ holders' = holders \union {a}
    BY <1>3 DEF Ask
  <2>2. IsFiniteSet(holders') /\ Cardinality(holders') <= MaxOpen
    <3>1. /\ IsFiniteSet(holders \union {a})
          /\ Cardinality(holders \union {a}) = Cardinality(holders) + 1
      BY <1>2, FS_AddElement
    <3>. QED
      BY <1>2, <1>3, <2>1, <3>1
  <2>3. holders' = {b \in Actors : stmt'[b] = "running"}
    BY <2>1 DEF PoolType
  <2>4. Waiters' = {}
    BY <1>3, <2>1 DEF PoolType, Waiters
  <2>. QED
    BY <1>1, <2>2, <2>3, <2>4
<1>4. CASE ~(Cardinality(holders) < MaxOpen)
  <2>1. stmt' = [stmt EXCEPT ![a] = "waiting"] /\ holders' = holders
    BY <1>4 DEF Ask
  <2>2. Cardinality(holders) = MaxOpen
    BY <1>2, <1>4
  <2>3. holders' = {b \in Actors : stmt'[b] = "running"}
    BY <1>2, <2>1 DEF PoolType
  <2>. QED
    BY <1>1, <2>1, <2>2, <2>3
<1>. QED
  BY <1>3, <1>4

LEMMA GiveBackKeeps ==
  ASSUME PoolInv, NEW a \in Actors, GiveBack(a)
  PROVE  PoolInv'
<1>. USE DEF PoolInv, NoConnectionLost
<1>1. PoolType'
  BY GiveBackPool
<1>2. stmt[a] = "running" /\ a \in holders /\ Cardinality(holders) \in Nat
  BY FS_CardinalityType DEF GiveBack
<1>3. /\ IsFiniteSet(holders \ {a})
      /\ Cardinality(holders \ {a}) = Cardinality(holders) - 1
  BY <1>2, FS_RemoveElement
<1>4. CASE Waiters = {}
  <2>1. stmt' = [stmt EXCEPT ![a] = "away"] /\ holders' = holders \ {a}
    BY <1>4 DEF GiveBack, Returned
  <2>2. holders' = {b \in Actors : stmt'[b] = "running"}
    BY <1>2, <2>1 DEF PoolType
  <2>3. Waiters' = {}
    BY <1>4, <2>1 DEF Waiters, PoolType
  <2>. QED
    BY <1>1, <1>2, <1>3, <2>1, <2>2, <2>3
<1>5. CASE Waiters # {}
  <2>1. PICK w \in Waiters :
          /\ stmt' = [stmt EXCEPT ![a] = "away", ![w] = "running"]
          /\ holders' = (holders \ {a}) \union {w}
    BY <1>2, <1>5 DEF GiveBack, Returned
  <2>2. w \in Actors /\ stmt[w] = "waiting" /\ w # a /\ w \notin holders
    BY <1>2 DEF Waiters
  <2>3. IsFiniteSet(holders') /\ Cardinality(holders') = Cardinality(holders)
    <3>1. w \notin holders \ {a}
      BY <2>2
    <3>2. /\ IsFiniteSet((holders \ {a}) \union {w})
          /\ Cardinality((holders \ {a}) \union {w}) = Cardinality(holders \ {a}) + 1
      BY <1>3, <3>1, FS_AddElement
    <3>. QED
      BY <1>2, <1>3, <2>1, <3>2
  <2>4. holders' = {b \in Actors : stmt'[b] = "running"}
    BY <1>2, <2>1, <2>2 DEF PoolType
  <2>. QED
    BY <1>1, <1>5, <2>3, <2>4
<1>. QED
  BY <1>4, <1>5

LEMMA StopWaitingKeeps ==
  ASSUME PoolInv, NEW a \in Actors, StopWaiting(a)
  PROVE  PoolInv'
<1>. USE DEF PoolInv, NoConnectionLost
<1>1. PoolType' /\ holders' = holders
  BY StopWaitingPool DEF StopWaiting
<1>2. stmt[a] = "waiting" /\ stmt' = [stmt EXCEPT ![a] = "away"]
  BY DEF StopWaiting
<1>3. holders' = {b \in Actors : stmt'[b] = "running"}
  BY <1>1, <1>2 DEF PoolType
<1>4. Cardinality(holders) = MaxOpen
  BY <1>2 DEF Waiters
<1>. QED
  BY <1>1, <1>3, <1>4

LEMMA PoolStep == PoolInv /\ [Next]_vars => PoolInv'
<1>. SUFFICES ASSUME PoolInv, [Next]_vars PROVE PoolInv'
  OBVIOUS
<1>1. CASE UNCHANGED poolVars
  BY <1>1 DEF poolVars, PoolInv, PoolType, NoConnectionLost, Waiters
<1>2. CASE Gone
  <2>1. /\ holders' = {} /\ stmt' = [a \in Actors |-> "away"]
    BY <1>2 DEF Gone
  <2>2. IsFiniteSet(holders') /\ Cardinality(holders') = 0
    BY <2>1, FS_EmptySet
  <2>. QED
    BY <2>1, <2>2 DEF PoolInv, PoolType, NoConnectionLost, Waiters
<1>. QED
  BY <1>1, <1>2, PoolMoves, AskKeeps, GiveBackKeeps, StopWaitingKeeps

(* NoConnectionLost: for any pool and any number of requests, through       *)
(* errors, timeouts, the stop and a crash, no connection leaks, none is     *)
(* used twice, and none is idle while a statement waits for one.            *)
THEOREM NoneLost == Spec => []NoConnectionLost
<1>1. Init => PoolInv
  <2>1. ASSUME Init PROVE PoolInv
    BY <2>1, FS_EmptySet DEF Init, PoolInv, PoolType, NoConnectionLost, Waiters
  <2>. QED
    BY <2>1
<1>2. PoolInv => NoConnectionLost
  BY DEF PoolInv
<1>. QED
  BY <1>1, <1>2, PoolStep, PTL DEF Spec
=============================================================================
