---------------------------- MODULE ServerProcess ----------------------------
(***************************************************************************)
(* The server as a process: main() and its orderly stop, the pool of        *)
(* connections that everything shares, the loop of the maintenance with its *)
(* vacuum in small steps, the loop that reloads the revocations, and the    *)
(* requests, of which only their use of the pool is kept.                   *)
(*                                                                         *)
(* What the statements do to the rows is the subject of the other modules;  *)
(* here a statement takes a connection, may wait for it, may fail, and may  *)
(* free or use pages of the file.                                           *)
(***************************************************************************)
EXTENDS Integers, FiniteSets

CONSTANTS
  Requests,           \* handlers that run at a time
  Maint, Reload,      \* the goroutines of the two loops
  MaxOpen,            \* SetMaxOpenConns: 1 for a local file, 4 for a replica
  IsLocal,            \* no remote primary
  Chunk,              \* vacuumChunkPages
  MaxFree             \* bound: free pages of the file

ASSUME ServerAssumption ==
  /\ Maint \notin Requests /\ Reload \notin Requests /\ Maint # Reload
  /\ MaxOpen \in Nat \ {0} /\ Chunk \in Nat \ {0} /\ MaxFree \in Nat
  /\ IsLocal \in BOOLEAN

VARIABLES
  main,               \* where main() is
  cancelled,          \* rootCtx, from which both loops derive their contexts
  overran,            \* Shutdown has given up on the requests
  serving,            \* requests with a handler running
  stmt, holders,      \* each actor's statement; who holds a connection
  job,                \* the statement a loop is at
  deleted, prev,      \* locals of a round: rows were purged; the last freelist_count
  freelist,           \* free pages in the file
  incremental         \* the auto_vacuum mode of the file is INCREMENTAL

mainVars == <<main, cancelled, overran>>
poolVars == <<stmt, holders>>
loopVars == <<job, deleted, prev>>
fileVars == <<freelist, incremental>>
vars == <<mainVars, serving, poolVars, loopVars, fileVars>>

Loops == {Maint, Reload}
Actors == Requests \union Loops

MainStages == {"down", "serving", "draining", "stopMaintenance", "stopReload", "closed"}
Resting == {"idle", "done"}
TokenJobs == {"revokedTokens", "userRevocations", "expired", "revoked"}
MaintJobs ==
  {"stamp", "notes", "folders", "freelist", "vacuum", "checkpoint", "checkpointOnly"}
    \union TokenJobs
ReloadJobs == {"users", "tokens", "adminUsers", "adminTokens"}

-----------------------------------------------------------------------------
(* The pool: database/sql.  A connection that is given back goes to one of  *)
(* the waiting statements, chosen at random, before any new one.            *)
Waiters == {a \in Actors : stmt[a] = "waiting"}

Ask(a) ==
  /\ stmt[a] = "away" /\ main # "closed"
  /\ IF Cardinality(holders) < MaxOpen
     THEN stmt' = [stmt EXCEPT ![a] = "running"] /\ holders' = holders \union {a}
     ELSE stmt' = [stmt EXCEPT ![a] = "waiting"] /\ UNCHANGED holders

(* Mutant: the vacuum keeps its connection from one step to the next.       *)
ReturnedAtTheEnd(a) == IF a = Maint /\ job[a] = "freelist" THEN holders ELSE holders \ {a}

Returned(a) == holders \ {a}

GiveBack(a) ==
  /\ stmt[a] = "running"
  /\ \/ /\ Waiters = {} \/ Returned(a) = holders
        /\ stmt' = [stmt EXCEPT ![a] = "away"]
        /\ holders' = Returned(a)
     \/ \E w \in Waiters :
          /\ Returned(a) # holders
          /\ stmt' = [stmt EXCEPT ![a] = "away", ![w] = "running"]
          /\ holders' = Returned(a) \union {w}

(* A context ends while its statement waits.                                *)
StopWaiting(a) ==
  /\ stmt[a] = "waiting"
  /\ stmt' = [stmt EXCEPT ![a] = "away"] /\ UNCHANGED holders

-----------------------------------------------------------------------------
(* Requests.  Shutdown takes no new connections, but a handler may still    *)
(* start on one accepted before, until none is left or all are closed.      *)
Arrive(r) ==
  /\ main \in {"serving", "draining"} /\ r \notin serving
  /\ serving' = serving \union {r}
  /\ UNCHANGED <<mainVars, poolVars, loopVars, fileVars>>

Query(r) ==
  /\ r \in serving /\ Ask(r)
  /\ UNCHANGED <<mainVars, serving, loopVars, fileVars>>

(* Its rows take pages of the freelist or leave pages to it.                *)
QueryDone(r) ==
  /\ r \in serving /\ GiveBack(r)
  /\ freelist' \in 0..MaxFree
  /\ UNCHANGED <<mainVars, serving, loopVars, incremental>>

(* The client has gone, srv.Close has cut it off, or the pool is closed.    *)
GiveUp(r) ==
  /\ r \in serving /\ StopWaiting(r)
  /\ UNCHANGED <<mainVars, serving, loopVars, fileVars>>

Leave(r) ==
  /\ r \in serving /\ stmt[r] = "away"
  /\ serving' = serving \ {r}
  /\ UNCHANGED <<mainVars, poolVars, loopVars, fileVars>>

RequestStep(r) == Arrive(r) \/ Query(r) \/ QueryDone(r) \/ GiveUp(r) \/ Leave(r)

-----------------------------------------------------------------------------
(* The loops.  A statement that finds its context cancelled does not begin. *)
(* Mutant: the loops have contexts of their own that nobody cancels.        *)
NeverCancelled(a) == FALSE

ContextDone(a) == a \in Loops /\ cancelled

Begin(a) ==
  /\ job[a] \notin Resting /\ ~ContextDone(a) /\ Ask(a)
  /\ UNCHANGED <<mainVars, serving, loopVars, fileVars>>

Completes(a, j) == job[a] = j /\ GiveBack(a) /\ UNCHANGED <<mainVars, serving, incremental>>
Continue(a, j) == job' = [job EXCEPT ![a] = j]

(* The beginning of RunMaintenance.                                         *)
Maintenance(reclaim) ==
  IF ~IsLocal THEN "revokedTokens" ELSE IF reclaim THEN "freelist" ELSE "checkpoint"

ReadStamp ==
  /\ Completes(Maint, "stamp")
  /\ \E next \in {"notes", Maintenance(FALSE)} : Continue(Maint, next)
  /\ UNCHANGED <<deleted, prev, freelist>>

PurgeNotes ==
  /\ Completes(Maint, "notes") /\ Continue(Maint, "folders")
  /\ deleted' \in BOOLEAN
  /\ freelist' \in (IF deleted' THEN freelist..MaxFree ELSE {freelist})
  /\ UNCHANGED prev

PurgeFolders ==
  /\ Completes(Maint, "folders")
  /\ \E found \in BOOLEAN :
       /\ Continue(Maint, Maintenance(deleted \/ found))
       /\ freelist' \in (IF found THEN freelist..MaxFree ELSE {freelist})
  /\ deleted' = FALSE /\ UNCHANGED prev

(* Mutant: a freelist that stays as it is counts as progress.               *)
StalledIfGrown(free) == prev >= 0 /\ free > prev

Stalled(free) == prev >= 0 /\ free >= prev

(* The turn of incrementalVacuumChunked up to its step.                     *)
CountFree ==
  /\ Completes(Maint, "freelist")
  /\ LET next == IF freelist = 0 THEN "checkpoint"
                 ELSE IF Stalled(freelist) THEN "revokedTokens" ELSE "vacuum"
     IN  /\ Continue(Maint, next)
         /\ prev' = IF next = "vacuum" THEN freelist ELSE -1
  /\ UNCHANGED <<deleted, freelist>>

(* Mutant: a step frees its pages even where fewer are left.                *)
AfterStepUnbounded(free) == free - Chunk

AfterStep(free) == IF free > Chunk THEN free - Chunk ELSE 0

VacuumStep ==
  /\ Completes(Maint, "vacuum") /\ Continue(Maint, "freelist")
  /\ freelist' = IF incremental THEN AfterStep(freelist) ELSE freelist
  /\ UNCHANGED <<deleted, prev>>

(* What follows a statement that changes nothing of the state kept here.    *)
NextJob ==
  [checkpoint |-> "revokedTokens", checkpointOnly |-> "idle",
   revokedTokens |-> "userRevocations", userRevocations |-> "expired",
   expired |-> "revoked", revoked |-> "idle",
   users |-> "tokens", tokens |-> "adminUsers",
   adminUsers |-> "adminTokens", adminTokens |-> "idle"]

Plain(a) ==
  /\ job[a] \in DOMAIN NextJob
  /\ Completes(a, job[a]) /\ Continue(a, NextJob[job[a]])
  /\ UNCHANGED <<deleted, prev, freelist>>

(* Errors are logged, and the loop goes on with what does not depend on it. *)
AfterError(j) ==
  CASE j = "stamp" -> Maintenance(FALSE)
    [] j = "notes" -> "folders"
    [] j = "folders" -> Maintenance(deleted)
    [] j \in {"freelist", "vacuum"} -> "revokedTokens"
    [] j = "revokedTokens" -> "expired"
    [] j = "users" -> "adminUsers"
    [] j = "adminUsers" -> "idle"
    [] OTHER -> NextJob[j]

(* It could not begin, it has waited past its timeout, or it was broken off *)
(* (a statement broken off is rolled back).                                 *)
Error(a) ==
  /\ job[a] \notin Resting
  /\ (stmt[a] = "away" /\ UNCHANGED poolVars) \/ StopWaiting(a) \/ GiveBack(a)
  /\ Continue(a, AfterError(job[a]))
  /\ deleted' = (deleted /\ job[a] # "folders")
  /\ prev' = IF job[a] \in {"freelist", "vacuum"} THEN -1 ELSE prev
  /\ UNCHANGED <<mainVars, serving, fileVars>>

(* A ticker fires; select may prefer it to a context that is done.          *)
Wake(a) ==
  /\ job[a] = "idle"
  /\ \E j \in (IF a = Reload THEN {"users"}
               ELSE {"stamp"} \union (IF IsLocal THEN {"checkpointOnly"} ELSE {})) :
       Continue(a, j)
  /\ UNCHANGED <<mainVars, serving, poolVars, deleted, prev, fileVars>>

Quit(a) ==
  /\ job[a] = "idle" /\ ContextDone(a)
  /\ Continue(a, "done")
  /\ UNCHANGED <<mainVars, serving, poolVars, deleted, prev, fileVars>>

MaintStep == ReadStamp \/ PurgeNotes \/ PurgeFolders \/ CountFree \/ VacuumStep
LoopWork(a) == Begin(a) \/ (a = Maint /\ MaintStep) \/ Plain(a)
LoopStep(a) == LoopWork(a) \/ Error(a) \/ Wake(a) \/ Quit(a)

-----------------------------------------------------------------------------
(* main().  The conversion of an old file may fail; the server starts.      *)
Start ==
  /\ main = "down" /\ main' = "serving"
  /\ job' = [a \in Loops |-> IF a = Maint THEN "stamp" ELSE "idle"]
  /\ \/ UNCHANGED fileVars
     \/ IsLocal /\ ~incremental /\ incremental' = TRUE /\ freelist' = 0
  /\ UNCHANGED <<cancelled, overran, serving, poolVars, deleted, prev>>

Signal ==
  /\ main = "serving" /\ cancelled' = TRUE
  /\ UNCHANGED <<main, overran, serving, poolVars, loopVars, fileVars>>

Advance(from, to) ==
  /\ main = from /\ main' = to
  /\ UNCHANGED <<cancelled, serving, poolVars, loopVars, fileVars>>

Shutdown == cancelled /\ Advance("serving", "draining") /\ UNCHANGED overran
Drained == serving = {} /\ Advance("draining", "stopMaintenance") /\ UNCHANGED overran
DrainTimeout ==
  serving # {} /\ Advance("draining", "stopMaintenance") /\ overran' = TRUE

(* Mutant: a stop function cancels and does not wait.                       *)
EndedOrCancelled(a) == job[a] = "done" \/ cancelled

Ended(a) == job[a] = "done"

StopMaintenance ==
  Ended(Maint) /\ Advance("stopMaintenance", "stopReload") /\ UNCHANGED overran

(* The last of the deferred calls closes the pool.                          *)
StopReload == Ended(Reload) /\ Advance("stopReload", "closed") /\ UNCHANGED overran

(* The process ends: only the file is left.                                 *)
Gone ==
  /\ main' = "down" /\ cancelled' = FALSE /\ overran' = FALSE
  /\ serving' = {} /\ holders' = {}
  /\ stmt' = [a \in Actors |-> "away"]
  /\ job' = [a \in Loops |-> "done"]
  /\ deleted' = FALSE /\ prev' = -1
  /\ UNCHANGED fileVars

Exit == main = "closed" /\ Gone

(* It is killed, or ends itself on an error of the listener.                *)
Crash == main \notin {"down", "closed"} /\ Gone

MainStep == Shutdown \/ Drained \/ StopMaintenance \/ StopReload \/ Exit

-----------------------------------------------------------------------------
Init ==
  /\ main = "down" /\ cancelled = FALSE /\ overran = FALSE
  /\ serving = {} /\ holders = {}
  /\ stmt = [a \in Actors |-> "away"]
  /\ job = [a \in Loops |-> "done"]
  /\ deleted = FALSE /\ prev = -1
  /\ freelist \in 0..MaxFree /\ incremental \in BOOLEAN

Next ==
  \/ \E r \in Requests : RequestStep(r)
  \/ \E a \in Loops : LoopStep(a)
  \/ Start \/ Signal \/ MainStep \/ DrainTimeout \/ Crash

(* A statement ends, a handler returns, and a waiting statement is not      *)
(* passed over for ever (the choice is random).  No timeout is counted on   *)
(* but the 30 seconds of Shutdown, and no client that gives up; a context   *)
(* that is done is always noticed.                                          *)
Served(a) == Next /\ stmt[a] = "waiting" /\ stmt'[a] = "running"

Fairness ==
  /\ \A r \in Requests : WF_vars(QueryDone(r)) /\ SF_vars(Leave(r))
  /\ \A a \in Actors : SF_vars(Served(a))
  /\ \A a \in Loops : /\ WF_vars(LoopWork(a)) /\ WF_vars(ContextDone(a) /\ Error(a))
                      /\ SF_vars(Quit(a))
  /\ WF_vars(MainStep \/ DrainTimeout)

Spec == Init /\ [][Next]_vars /\ Fairness

-----------------------------------------------------------------------------
(* Type correctness; the freelist never falls below zero.                  *)
TypeOK ==
  /\ main \in MainStages /\ cancelled \in BOOLEAN /\ overran \in BOOLEAN
  /\ serving \subseteq Requests /\ holders \subseteq Actors
  /\ stmt \in [Actors -> {"away", "waiting", "running"}]
  /\ job \in [Loops -> Resting \union MaintJobs \union ReloadJobs]
  /\ deleted \in BOOLEAN /\ prev \in -1..MaxFree
  /\ freelist \in 0..MaxFree /\ incremental \in BOOLEAN

(* When main() closes the pool no goroutine of a loop is left to use it,    *)
(* and a request is cut off by the end of the process only when Shutdown    *)
(* has waited its 30 seconds for it.                                        *)
PoolOutlivesItsUsers ==
  main = "closed" =>
    /\ \A a \in Loops : job[a] = "done" /\ stmt[a] = "away"
    /\ serving = {} \/ overran

(* SetMaxOpenConns: a connection is held by a statement that runs and by    *)
(* nobody else, there are never more of them, and none is idle while a      *)
(* statement waits - after errors, timeouts and statements broken off too.  *)
NoConnectionLost ==
  /\ holders = {a \in Actors : stmt[a] = "running"}
  /\ Cardinality(holders) <= MaxOpen
  /\ Waiters # {} => Cardinality(holders) = MaxOpen

(* What it follows from, with TypeOK.  A loop at rest has no statement; what *)
(* main() has waited for stays done, because nothing starts it again.       *)
RestingLoopsAreAway ==
  \A a \in Loops : job[a] \in Resting => stmt[a] = "away"

StopsInOrder ==
  /\ main \in {"stopMaintenance", "stopReload", "closed"} => serving = {} \/ overran
  /\ main \in {"stopReload", "closed", "down"} => job[Maint] = "done"
  /\ main \in {"closed", "down"} => job[Reload] = "done"

ProcessInv == TypeOK /\ RestingLoopsAreAway /\ StopsInOrder

(* A statement that waits for the only connection gets it, whatever the     *)
(* maintenance is doing and however many requests arrive.                   *)
EveryQueryServed ==
  \A a \in Actors : stmt[a] = "waiting" ~> stmt[a] # "waiting"

(* The vacuum comes to an end by itself, also on a file whose conversion    *)
(* has failed and while requests free and use pages between its steps.      *)
Vacuuming == job[Maint] \in {"freelist", "vacuum"}
VacuumEnds == Vacuuming ~> ~Vacuuming

(* A stop signal ends the process, whatever the loops are at.               *)
ShutdownEnds == cancelled ~> main = "down"
=============================================================================
