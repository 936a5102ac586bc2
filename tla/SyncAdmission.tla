---------------------------- MODULE SyncAdmission ----------------------------
(***************************************************************************)
(* How one server process admits the requests that write to an account:    *)
(* the keyed mutex with reference counts (userLockSet), the semaphore over *)
(* decoded bodies (syncSlots), and the paths on which POST /api/v1/sync    *)
(* and POST /api/v1/ordering/reset take and give back the two.             *)
(*                                                                         *)
(* A request is a goroutine; a step of it is what happens between two      *)
(* operations on a channel or on the mutex of the lock set.  The client    *)
(* may disconnect at any point of a request, and may be slow to read.      *)
(***************************************************************************)
EXTENDS Integers, FiniteSets

CONSTANTS
  Requests, Syncs,    \* goroutines; those that serve a sync, not a reset
  Users, UserOf,      \* accounts; the account of each request
  Entries, NoEntry,   \* userLockEntry values; no entry
  MaxSlots            \* defaultMaxConcurrentSyncs

ASSUME AdmissionAssumption ==
  /\ IsFiniteSet(Requests) /\ Syncs \subseteq Requests
  /\ UserOf \in [Requests -> Users]
  /\ NoEntry \notin Entries
  /\ MaxSlots \in Nat \ {0}

VARIABLES
  locks,              \* userLockSet.locks: the entry of each account
  refs, full,         \* of an entry: its count, whether its channel is full
  slots,              \* tokens in the channel syncSlots
  pc, back,           \* of a request: its stage, where Release returns to
  entry,              \* of a request: the entry it has a reference to
  memHeld, done,      \* of its syncAdmission: memHeld; once has fired
  gone                \* its context is cancelled

lockVars == <<locks, refs, full>>
vars == <<lockVars, slots, pc, back, entry, memHeld, done, gone>>

Stages == {"idle", "gate", "slot", "work", "free", "open", "drop", "respond", "return"}

Goto(r, stage) == pc' = [pc EXCEPT ![r] = stage]

-----------------------------------------------------------------------------
Init ==
  /\ locks = [u \in Users |-> NoEntry]
  /\ refs = [e \in Entries |-> 0] /\ full = [e \in Entries |-> FALSE]
  /\ slots = 0
  /\ pc = [r \in Requests |-> "idle"] /\ back = [r \in Requests |-> "idle"]
  /\ entry = [r \in Requests |-> NoEntry]
  /\ memHeld = [r \in Requests |-> FALSE] /\ done = [r \in Requests |-> FALSE]
  /\ gone = [r \in Requests |-> FALSE]

(* acquire, up to the select: under the mutex of the lock set.  A new entry *)
(* is one that no goroutine points to.                                      *)
Unreferenced == {e \in Entries : \A r \in Requests : entry[r] # e}

(* Mutant: only the request that creates the entry is counted.              *)
JoinUncounted(r, e) ==
  /\ locks[UserOf[r]] = e
  /\ UNCHANGED <<locks, refs, full>>

Join(r, e) ==
  /\ locks[UserOf[r]] = e
  /\ refs' = [refs EXCEPT ![e] = @ + 1]
  /\ UNCHANGED <<locks, full>>

Create(r, e) ==
  /\ locks[UserOf[r]] = NoEntry /\ e \in Unreferenced
  /\ locks' = [locks EXCEPT ![UserOf[r]] = e]
  /\ refs' = [refs EXCEPT ![e] = 1]
  /\ full' = [full EXCEPT ![e] = FALSE]

Arrive(r) ==
  /\ pc[r] = "idle"
  /\ \E e \in Entries :
       /\ Join(r, e) \/ Create(r, e)
       /\ entry' = [entry EXCEPT ![r] = e]
  /\ Goto(r, "gate")
  /\ UNCHANGED <<slots, back, memHeld, done, gone>>

(* The select of acquire.                                                   *)
PassGate(r) ==
  /\ pc[r] = "gate" /\ ~full[entry[r]]
  /\ full' = [full EXCEPT ![entry[r]] = TRUE]
  /\ Goto(r, IF r \in Syncs THEN "slot" ELSE "work")
  /\ UNCHANGED <<locks, refs, slots, back, entry, memHeld, done, gone>>

LeaveGate(r) ==
  /\ pc[r] = "gate" /\ gone[r]
  /\ Goto(r, "drop")
  /\ UNCHANGED <<lockVars, slots, back, entry, memHeld, done, gone>>

(* The select of admitSync.                                                 *)
TakeSlot(r) ==
  /\ pc[r] = "slot" /\ slots < MaxSlots
  /\ slots' = slots + 1 /\ memHeld' = [memHeld EXCEPT ![r] = TRUE]
  /\ Goto(r, "work")
  /\ UNCHANGED <<lockVars, back, entry, done, gone>>

(* syncAdmission.Release: the body of once, to come back to stage b.        *)
Release(r, b) ==
  /\ done' = [done EXCEPT ![r] = TRUE]
  /\ back' = [back EXCEPT ![r] = b]
  /\ Goto(r, IF memHeld[r] THEN "free" ELSE "open")

(* Mutant: the early return of admitSync gives back the reference only.     *)
LeaveSlotWithGate(r) ==
  /\ pc[r] = "slot" /\ gone[r]
  /\ Goto(r, "drop")
  /\ UNCHANGED <<lockVars, slots, back, entry, memHeld, done, gone>>

LeaveSlot(r) ==
  /\ pc[r] = "slot" /\ gone[r]
  /\ Release(r, "idle")
  /\ UNCHANGED <<lockVars, slots, entry, memHeld, gone>>

FreeSlot(r) ==
  /\ pc[r] = "free" /\ slots > 0
  /\ slots' = slots - 1
  /\ Goto(r, "open")
  /\ UNCHANGED <<lockVars, back, entry, memHeld, done, gone>>

OpenGate(r) ==
  /\ pc[r] = "open" /\ full[entry[r]]
  /\ full' = [full EXCEPT ![entry[r]] = FALSE]
  /\ Goto(r, "drop")
  /\ UNCHANGED <<locks, refs, slots, back, entry, memHeld, done, gone>>

(* Mutant: the entry goes with the request that releases it.                *)
DropWithEntry(r) ==
  LET e == entry[r]
  IN /\ pc[r] = "drop"
     /\ refs' = [refs EXCEPT ![e] = @ - 1]
     /\ locks' = [locks EXCEPT ![UserOf[r]] = NoEntry]
     /\ entry' = [entry EXCEPT ![r] = NoEntry]
     /\ Goto(r, back[r])
     /\ IF back[r] = "idle"
        THEN /\ memHeld' = [memHeld EXCEPT ![r] = FALSE]
             /\ done' = [done EXCEPT ![r] = FALSE] /\ gone' = [gone EXCEPT ![r] = FALSE]
             /\ UNCHANGED back
        ELSE back' = [back EXCEPT ![r] = "idle"] /\ UNCHANGED <<memHeld, done, gone>>
     /\ UNCHANGED <<full, slots>>

(* dropRef, under the mutex of the lock set.                                *)
Drop(r) ==
  LET e == entry[r]
  IN /\ pc[r] = "drop"
     /\ refs' = [refs EXCEPT ![e] = @ - 1]
     /\ locks' = IF refs[e] = 1 THEN [locks EXCEPT ![UserOf[r]] = NoEntry] ELSE locks
     /\ entry' = [entry EXCEPT ![r] = NoEntry]
     /\ Goto(r, back[r])
     /\ IF back[r] = "idle"
        THEN /\ memHeld' = [memHeld EXCEPT ![r] = FALSE]
             /\ done' = [done EXCEPT ![r] = FALSE] /\ gone' = [gone EXCEPT ![r] = FALSE]
             /\ UNCHANGED back
        ELSE back' = [back EXCEPT ![r] = "idle"] /\ UNCHANGED <<memHeld, done, gone>>
     /\ UNCHANGED <<full, slots>>

(* A body that decodeSyncRequest refuses: its error is written before the   *)
(* deferred Release.                                                        *)
Refuse(r) ==
  /\ pc[r] = "work" /\ r \in Syncs
  /\ Goto(r, "respond")
  /\ UNCHANGED <<lockVars, slots, back, entry, memHeld, done, gone>>

(* processLocked has returned: a sync releases, then writes its answer; the *)
(* reset writes its answer and then releases.                               *)
Finish(r) ==
  /\ pc[r] = "work"
  /\ IF r \in Syncs THEN Release(r, "respond")
     ELSE Goto(r, "respond") /\ UNCHANGED <<back, done>>
  /\ UNCHANGED <<lockVars, slots, entry, memHeld, gone>>

(* The answer has been written, to a client that reads as slowly as it may. *)
Respond(r) ==
  /\ pc[r] = "respond"
  /\ Goto(r, "return")
  /\ UNCHANGED <<lockVars, slots, back, entry, memHeld, done, gone>>

(* Mutant: without sync.Once the deferred Release releases again.           *)
ReturnWithoutOnce(r) ==
  /\ pc[r] = "return"
  /\ Release(r, "idle")
  /\ UNCHANGED <<lockVars, slots, entry, memHeld, gone>>

(* The deferred release of the handler.                                     *)
Return(r) ==
  /\ pc[r] = "return"
  /\ IF done[r]
     THEN /\ Goto(r, "idle")
          /\ memHeld' = [memHeld EXCEPT ![r] = FALSE]
          /\ done' = [done EXCEPT ![r] = FALSE] /\ gone' = [gone EXCEPT ![r] = FALSE]
          /\ UNCHANGED back
     ELSE Release(r, "idle") /\ UNCHANGED <<memHeld, gone>>
  /\ UNCHANGED <<lockVars, slots, entry>>

(* The client disconnects.                                                  *)
Cancel(r) ==
  /\ pc[r] # "idle" /\ ~gone[r]
  /\ gone' = [gone EXCEPT ![r] = TRUE]
  /\ UNCHANGED <<lockVars, slots, pc, back, entry, memHeld, done>>

-----------------------------------------------------------------------------
Step(r) ==
  \/ PassGate(r) \/ LeaveGate(r) \/ TakeSlot(r) \/ LeaveSlot(r)
  \/ Refuse(r) \/ Finish(r) \/ Respond(r) \/ Return(r)
  \/ FreeSlot(r) \/ OpenGate(r) \/ Drop(r)

Next == \E r \in Requests : Arrive(r) \/ Cancel(r) \/ Step(r)

(* Scheduling.  A blocked sender is served in its turn (channels queue them *)
(* first come, first served); a handler that holds the gate or a slot ends  *)
(* (ReadTimeout, WriteTimeout, busy_timeout).  A client that reads the      *)
(* answer of a sync that has released may take for ever.                    *)
Fairness ==
  \A r \in Requests :
    /\ SF_vars(PassGate(r)) /\ SF_vars(TakeSlot(r))
    /\ WF_vars(Refuse(r) \/ Finish(r))
    /\ WF_vars(~done[r] /\ Respond(r)) /\ WF_vars(Return(r))
    /\ WF_vars(FreeSlot(r)) /\ WF_vars(OpenGate(r)) /\ WF_vars(Drop(r))

Spec == Init /\ [][Next]_vars
FairSpec == Spec /\ Fairness

-----------------------------------------------------------------------------
(* Type correctness: locks, their counts, slots and stages.                *)
TypeOK ==
  /\ locks \in [Users -> Entries \union {NoEntry}]
  /\ refs \in [Entries -> Nat] /\ full \in [Entries -> BOOLEAN]
  /\ slots \in Nat
  /\ pc \in [Requests -> Stages] /\ back \in [Requests -> {"idle", "respond"}]
  /\ entry \in [Requests -> Entries \union {NoEntry}]
  /\ memHeld \in [Requests -> BOOLEAN] /\ done \in [Requests -> BOOLEAN]
  /\ gone \in [Requests -> BOOLEAN]

(* The handler has not called Release yet (nor has it nothing to release).  *)
Answering(r) == pc[r] \in {"respond", "return"} /\ ~done[r]
Inside(r)  == pc[r] \in {"slot", "work", "free", "open"} \/ Answering(r)
HasBody(r) == memHeld[r] /\ (pc[r] \in {"work", "free"} \/ Answering(r))

(* userLockSet ("serializza le richieste dello STESSO utente"): two requests *)
(* of one account are never past the gate together, whatever entries the    *)
(* lock set has created and dropped meanwhile.                              *)
OneAtATime ==
  \A r, q \in Requests : r # q /\ UserOf[r] = UserOf[q] => ~(Inside(r) /\ Inside(q))

(* syncSlots: exactly the syncs that hold a decoded body have a token, on   *)
(* every path by which a request ends; there are at most MaxSlots.          *)
SlotsMatchBodies ==
  /\ slots = Cardinality({r \in Requests : HasBody(r)})
  /\ slots <= MaxSlots

(* userLockSet ("non cresce con il numero di account"): an account has an   *)
(* entry only while a request refers to it, and its requests all refer to   *)
(* that one.                                                                *)
NoEntryLeaks ==
  /\ \A u \in Users : locks[u] # NoEntry => \E r \in Requests : entry[r] = locks[u]
  /\ \A r \in Requests : entry[r] # NoEntry => locks[UserOf[r]] = entry[r]

(* Why: a request that is past acquire and has not dropped its reference    *)
(* points to the entry of its account and to no other, the count is exact,  *)
(* and the channel is full while one is inside.                             *)
Pointing(r) == Inside(r) \/ pc[r] \in {"gate", "drop"}
Referring(e) == {r \in Requests : entry[r] = e}

RefsInv == \A e \in Entries : refs[e] = Cardinality(Referring(e))
NamesInv ==
  /\ \A r \in Requests : entry[r] # NoEntry <=> Pointing(r)
  /\ \A r \in Requests : entry[r] # NoEntry => locks[UserOf[r]] = entry[r]
  /\ \A u \in Users : locks[u] # NoEntry
       => \E r \in Requests : UserOf[r] = u /\ entry[r] = locks[u]
  /\ \A r, q \in Requests : entry[r] # NoEntry /\ entry[r] = entry[q] => UserOf[r] = UserOf[q]
GateInv ==
  /\ \A r \in Requests : Inside(r) => full[entry[r]]
  /\ \A r, q \in Requests : r # q /\ Inside(r) /\ Inside(q) => entry[r] # entry[q]
StageInv ==
  \A r \in Requests :
    /\ pc[r] \in {"idle", "gate", "slot", "work"} => ~done[r]
    /\ pc[r] \in {"free", "open"} => done[r]
    /\ pc[r] \in {"idle", "gate", "slot"} => ~memHeld[r]
    /\ pc[r] = "free" => memHeld[r]
    /\ back[r] = "respond" => pc[r] \in {"free", "open", "drop"} /\ done[r]

AdmissionInv == RefsInv /\ NamesInv /\ GateInv /\ StageInv /\ SlotsMatchBodies

(* Neither a client that reads slowly nor one that has gone keeps another   *)
(* request out of its account or of a slot (Sync, "Rilascio PRIMA della     *)
(* scrittura").                                                             *)
EveryRequestAdmitted ==
  \A r \in Requests : pc[r] \in {"gate", "slot"} ~> pc[r] \notin {"gate", "slot"}

(* What the handlers rely on, in the words of AccountGate.                  *)
Gate == INSTANCE AccountGate WITH
          inside <- {r \in Requests : Inside(r)},
          bodies <- {r \in Requests : HasBody(r)}
GateSpec == Gate!Spec
=============================================================================
