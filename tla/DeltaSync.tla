------------------------------ MODULE DeltaSync ------------------------------
(***************************************************************************)
(* The delta protocol of POST /api/v1/sync for ONE account: its notes and  *)
(* folders, the devices that synchronise them, the server processes that   *)
(* share the database, the stamps that order the commits, and the sweep    *)
(* that hard-deletes old tombstones.                                       *)
(*                                                                         *)
(* A request goes through the stages of SyncHandler.Sync/processLocked:    *)
(* it is admitted (one per account and process), opens a transaction whose *)
(* first write allocates the stamp, pushes its rows and commits, and then, *)
(* OUTSIDE the transaction, pulls the folders and the notes with two       *)
(* separate queries.  Between any two of these steps another process, the  *)
(* sync of another account, the sweep, a crash or a lost answer may come.  *)
(*                                                                         *)
(* The contents of a row are abstracted to its status, its LWW time and an *)
(* opaque body.  The tree of the folders is abstracted to the one folder   *)
(* each note lives in (Home); module FolderTree has the rest of the tree.  *)
(***************************************************************************)
EXTENDS Integers, FiniteSets

CONSTANTS
  Notes, Folders,     \* ids of the account's notes and folders
  Home, Root,         \* Home[n]: the folder of note n, or Root
  Devices, NoDevice,  \* clients of the account; the device of no request
  Servers,            \* processes on the database
  Bodies, NoBody,     \* contents of an active row; what a tombstone has left
  EditTimes,          \* updated_at values that clients send
  Readings,           \* clock readings the account's syncs may see, and those
  OtherReadings,      \* of other accounts' syncs (clocks may step both ways)
  Retention, Margin,  \* TombstoneRetention, TombstonePurgeSafetyMargin
  Skew, Lease,        \* MaxClockSkew, stampLease
  Drift,              \* how far stamps advance while a sync is in flight
  MaxStamp, MaxSends, MaxEdits  \* bounds of the checked instance

Ids == Notes \union Folders

ASSUME IdsAssumption ==
  /\ Notes \intersect Folders = {}
  /\ Root \notin Ids
  /\ Home \in [Notes -> Folders \union {Root}]
  /\ NoBody \notin Bodies
  /\ NoDevice \notin Devices
ASSUME TimeAssumption ==
  /\ Readings \subseteq Nat \ {0} /\ OtherReadings \subseteq Nat \ {0}
  /\ EditTimes \subseteq Int
  /\ Retention \in Nat /\ Margin \in Nat /\ Skew \in Nat
  /\ Lease \in Nat \ {0}
  /\ Drift \in Nat
ASSUME BoundAssumption == MaxStamp \in Nat /\ MaxSends \in Nat /\ MaxEdits \in Nat

Status == {"absent", "active", "deleted"}
Doc  == [st : Status, upd : Int, body : Bodies \union {NoBody}]
Gone == [st |-> "absent", upd |-> 0, body |-> NoBody]
(* Mutant: the text columns of a tombstone are dropped, not cleared.        *)
TombstoneWithoutText(u) == [st |-> "deleted", upd |-> u]
Tombstone(u) == [st |-> "deleted", upd |-> u, body |-> NoBody]

(* What a client may write into a row at time u: new contents or a deletion. *)
Edits == {[st |-> "active", upd |-> u, body |-> b] : u \in EditTimes, b \in Bodies}
           \union {Tombstone(u) : u \in EditTimes}

Batch   == [Ids -> Doc]     \* Gone where a row is not in the batch
Request == [dev : Devices, att : Nat, since : Int, push : Batch]
Answer  == [full : BOOLEAN, time : Nat, docs : Batch]
NoRequest == [dev |-> NoDevice, att |-> 0, since |-> 0, push |-> [r \in Ids |-> Gone]]
NoAnswer == [full |-> FALSE, time |-> 0, docs |-> [r \in Ids |-> Gone]]

VARIABLES
  tab, synced,        \* tables notes and folders: contents, column synced_at
  last, hwm,          \* sync_state: stamp_last, stamp_hwm (0: no such key)
  pc, job, stamp, got,  \* per process: stage, request, its stamp, rows pulled
  sweep, cutoff,      \* tombstone sweep: its stage, the cutoff it computed
  net,                \* requests on their way to a process
  cursor, copy, dirty,  \* per device: saved server_time, local rows, unsent rows
  waiting, inbox,     \* per device: the request it waits for (or 0), its answer
  unechoed,           \* per device: rows a first sync pushed and got no row for
  sent, edits         \* requests sent and local edits made so far

dbVars     == <<tab, synced, last, hwm>>
serverVars == <<pc, job, stamp, got>>
sweepVars  == <<sweep, cutoff>>
localVars  == <<cursor, copy, dirty, unechoed>>
deviceVars == <<waiting, inbox>>
counters   == <<sent, edits>>
vars == <<dbVars, serverVars, sweepVars, net, localVars, deviceVars, counters>>

-----------------------------------------------------------------------------
(* Stamps: SyncStateRepo.AllocateStamp and SyncHandler.reserveStampTx.     *)

Larger(a, b) == IF a >= b THEN a ELSE b
NextStamp(reading) == Larger(last + 1, reading)
RaisedHwm(now) == IF now >= hwm THEN now + Lease ELSE hwm

(* One transaction writes at a time: the first write of a sync takes the   *)
(* write lock of SQLite and its commit or rollback releases it.            *)
WriterFree == \A s \in Servers : pc[s] # "tx"

InFlight(s) == pc[s] \in {"committed", "folders"}

(* A stamp that is allocated now does not leave a sync that has committed  *)
(* but not finished its pull further behind than Drift.                    *)
WithinDrift(now) == \A s \in Servers : InFlight(s) => now <= stamp[s] + Drift

(* Mutant: the stamp is allocated before the transaction (RAM counter).     *)
AllocatableOutsideTx(now) == now <= MaxStamp /\ WithinDrift(now)
Allocatable(now) == WriterFree /\ now <= MaxStamp /\ WithinDrift(now)

-----------------------------------------------------------------------------
(* The push: clamped times, Last-Write-Wins row by row, folders first, the *)
(* cascade of a deleted folder, then the notes.                            *)

ClampTime(t, now) == IF t <= 0 \/ t > now + Skew THEN now ELSE t
Clamped(doc, now) == [doc EXCEPT !.upd = ClampTime(doc.upd, now)]

InBatch(push, r) == push[r].st # "absent"
Wins(push, r, now) == tab[r].st = "absent" \/ ClampTime(push[r].upd, now) >= tab[r].upd

Merged(push, r, now) ==
  IF InBatch(push, r) /\ Wins(push, r, now) THEN Clamped(push[r], now) ELSE tab[r]

(* applyFolder cascades when the row it leaves behind is a tombstone.      *)
Cascaded(push, r, now) ==
  /\ r \in Notes
  /\ tab[r].st = "active"
  /\ Home[r] \in Folders
  /\ InBatch(push, Home[r])
  /\ Merged(push, Home[r], now).st = "deleted"

(* A note that the cascade has just tombstoned at now is compared with that *)
(* tombstone; every other row with the row the transaction found.          *)
Pushed(push, r, now) ==
  IF Cascaded(push, r, now)
  THEN IF InBatch(push, r) /\ ClampTime(push[r].upd, now) >= now
       THEN Clamped(push[r], now)
       ELSE Tombstone(now)
  ELSE Merged(push, r, now)

(* A pushed row gets the stamp of the sync whether it wins (UpsertLWW) or  *)
(* loses (TouchSynced); so does a row that the cascade reaches (ForceSet). *)
(* Mutant: a row that wins against the push is not touched.                *)
StampedIfWon(push, r, now) ==
  (InBatch(push, r) /\ Wins(push, r, now)) \/ Cascaded(push, r, now)
(* Mutant: the cascade leaves the synced_at of the notes as it was.        *)
StampedIfPushed(push, r, now) == InBatch(push, r)
Stamped(push, r, now) == InBatch(push, r) \/ Cascaded(push, r, now)

(* The ownership triggers: a pushed note must find the row of its folder.  *)
Acceptable(push, now) ==
  \A n \in Notes : InBatch(push, n) /\ Home[n] \in Folders
                     => Merged(push, Home[n], now).st # "absent"

-----------------------------------------------------------------------------
(* The pull: what the cursor of the request selects.                       *)

FullResync(since, now) ==
  \/ since < 0 \/ since > now
  \/ since > 0 /\ since < now - Retention
From(since, now) == IF FullResync(since, now) THEN 0 ELSE since

(* Mutant: an incremental pull has no tombstones either.                   *)
SelectedActive(s, r) ==
  /\ tab[r].st = "active"
  /\ synced[r] > From(job[s].since, stamp[s]) /\ synced[r] <= stamp[s]
Selected(s, r) ==
  LET from == From(job[s].since, stamp[s])
  IN /\ tab[r].st # "absent"
     /\ synced[r] > from /\ synced[r] <= stamp[s]
     /\ from > 0 \/ tab[r].st = "active"

-----------------------------------------------------------------------------
Init ==
  /\ tab = [r \in Ids |-> Gone] /\ synced = [r \in Ids |-> 0]
  /\ last = 0 /\ hwm = 0
  /\ pc = [s \in Servers |-> "idle"]
  /\ job = [s \in Servers |-> NoRequest]
  /\ stamp = [s \in Servers |-> 0]
  /\ got = [s \in Servers |-> [r \in Ids |-> Gone]]
  /\ sweep = "idle" /\ cutoff = 0
  /\ net = {}
  /\ cursor = [d \in Devices |-> 0]
  /\ copy = [d \in Devices |-> [r \in Ids |-> Gone]]
  /\ dirty = [d \in Devices |-> {}]
  /\ unechoed = [d \in Devices |-> {}]
  /\ waiting = [d \in Devices |-> 0]
  /\ inbox = [d \in Devices |-> NoAnswer]
  /\ sent = 0 /\ edits = 0

-----------------------------------------------------------------------------
(* The device (not under src/: what README.md and models.go ask of it).    *)

(* The user changes or deletes a row while no request is outstanding.      *)
Edit(d, r, doc) ==
  /\ waiting[d] = 0 /\ edits < MaxEdits
  /\ edits' = edits + 1
  /\ copy' = [copy EXCEPT ![d][r] = doc]
  /\ dirty' = [dirty EXCEPT ![d] = @ \union {r}]
  /\ UNCHANGED <<dbVars, serverVars, sweepVars, net, cursor, unechoed, deviceVars, sent>>

(* The device sends its cursor and its dirty rows.                         *)
Send(d) ==
  /\ waiting[d] = 0 /\ sent < MaxSends
  /\ sent' = sent + 1
  /\ waiting' = [waiting EXCEPT ![d] = sent + 1]
  /\ net' = net \union {[dev |-> d, att |-> sent + 1, since |-> cursor[d],
                         push |-> [r \in Ids |-> IF r \in dirty[d] THEN copy[d][r] ELSE Gone]]}
  /\ UNCHANGED <<dbVars, serverVars, sweepVars, localVars, inbox, edits>>

(* A timeout, a dropped connection or an error status: the cursor and the  *)
(* dirty rows stay, and the request may still be on its way to a process.  *)
GiveUp(d) ==
  /\ waiting[d] # 0
  /\ waiting' = [waiting EXCEPT ![d] = 0]
  /\ inbox' = [inbox EXCEPT ![d] = NoAnswer]
  /\ UNCHANGED <<dbVars, serverVars, sweepVars, net, localVars, counters>>

Answered(d, r) ==
  IF inbox[d].docs[r].st # "absent" THEN inbox[d].docs[r]
  ELSE IF inbox[d].full THEN Gone ELSE copy[d][r]

(* The device applies an answer, then saves server_time as its cursor.  A  *)
(* full resync drops the clean local rows that the answer does not list.   *)
Apply(d) ==
  /\ inbox[d].time > 0
  /\ cursor' = [cursor EXCEPT ![d] = inbox[d].time]
  /\ copy' = [copy EXCEPT ![d] = [r \in Ids |-> Answered(d, r)]]
  /\ dirty' = [dirty EXCEPT ![d] = {}]
  /\ unechoed' = [unechoed EXCEPT ![d] =
       {r \in Ids : /\ ~inbox[d].full /\ inbox[d].docs[r].st = "absent"
                    /\ r \in @ \/ (cursor[d] = 0 /\ r \in dirty[d])}]
  /\ waiting' = [waiting EXCEPT ![d] = 0]
  /\ inbox' = [inbox EXCEPT ![d] = NoAnswer]
  /\ UNCHANGED <<dbVars, serverVars, sweepVars, net, counters>>

-----------------------------------------------------------------------------
(* The server: SyncHandler.processLocked.                                  *)

(* The device still waits for the answer to this request.                  *)
Live(q) == waiting[q.dev] = q.att

(* beginTxWithRetry and reserveStampTx, with the account's lock held.      *)
Reserve(s, q, reading) ==
  /\ pc[s] = "idle" /\ q \in net
  /\ Allocatable(NextStamp(reading))
  /\ pc' = [pc EXCEPT ![s] = "tx"]
  /\ job' = [job EXCEPT ![s] = q]
  /\ stamp' = [stamp EXCEPT ![s] = NextStamp(reading)]
  /\ net' = net \ {q}
  /\ UNCHANGED <<dbVars, got, sweepVars, localVars, deviceVars, counters>>

(* The push and the commit; a batch with a rejected row never gets here.   *)
Commit(s) ==
  LET push == job[s].push
      now == stamp[s]
  IN /\ pc[s] = "tx" /\ Acceptable(push, now)
     /\ pc' = [pc EXCEPT ![s] = "committed"]
     /\ tab' = [r \in Ids |-> Pushed(push, r, now)]
     /\ synced' = [r \in Ids |-> IF Stamped(push, r, now) THEN now ELSE synced[r]]
     /\ last' = now /\ hwm' = RaisedHwm(now)
     /\ UNCHANGED <<job, stamp, got, sweepVars, net, localVars, deviceVars, counters>>

(* The handler returns: its request, stamp and rows go out of scope.       *)
Finish(s) ==
  /\ pc' = [pc EXCEPT ![s] = "idle"]
  /\ job' = [job EXCEPT ![s] = NoRequest]
  /\ stamp' = [stamp EXCEPT ![s] = 0]
  /\ got' = [got EXCEPT ![s] = [r \in Ids |-> Gone]]

(* A rollback (422, 409, 503, 500, client gone), a crash of the process or *)
(* a failed pull: the transaction of a stage before the commit is undone.  *)
Abort(s) ==
  /\ pc[s] # "idle"
  /\ Finish(s)
  /\ UNCHANGED <<dbVars, sweepVars, net, localVars, deviceVars, counters>>

(* Folders.ListSyncedBetween, on the pool: any committed state.            *)
PullFolders(s) ==
  /\ pc[s] = "committed"
  /\ pc' = [pc EXCEPT ![s] = "folders"]
  /\ got' = [got EXCEPT ![s] =
       [r \in Ids |-> IF r \in Folders /\ Selected(s, r) THEN tab[r] ELSE Gone]]
  /\ UNCHANGED <<dbVars, job, stamp, sweepVars, net, localVars, deviceVars, counters>>

(* Notes.ListSyncedBetween; the account's lock is released and the answer  *)
(* is written, to nobody if the device has given up.                       *)
PullNotes(s) ==
  /\ pc[s] = "folders"
  /\ Finish(s)
  /\ inbox' = IF ~Live(job[s]) THEN inbox
              ELSE [inbox EXCEPT ![job[s].dev] =
                [full |-> FullResync(job[s].since, stamp[s]), time |-> stamp[s],
                 docs |-> [r \in Ids |-> IF r \in Notes /\ Selected(s, r)
                                         THEN tab[r] ELSE got[s][r]]]]
  /\ UNCHANGED <<dbVars, sweepVars, net, localVars, waiting, counters>>

(* A sync of another account commits: only the stamps are shared.          *)
OtherSync(reading) ==
  /\ Allocatable(NextStamp(reading))
  /\ last' = NextStamp(reading)
  /\ hwm' = RaisedHwm(NextStamp(reading))
  /\ UNCHANGED <<tab, synced, serverVars, sweepVars, net, localVars, deviceVars, counters>>

-----------------------------------------------------------------------------
(* The sweep of startTombstonePurgeLoop: three statements of their own.    *)

(* Mutant: the cutoff comes from the reserved stamps, not the issued ones.  *)
SweepStartFromHwm ==
  /\ sweep = "idle" /\ hwm > Retention + Margin
  /\ sweep' = "notes" /\ cutoff' = hwm - (Retention + Margin)
  /\ UNCHANGED <<dbVars, serverVars, net, localVars, deviceVars, counters>>

(* tombstonePurgeCutoff of the stamp_last it reads.  A sweep whose cutoff   *)
(* is below every stamp deletes nothing and is left out.                   *)
SweepStart ==
  /\ sweep = "idle" /\ last > Retention + Margin
  /\ sweep' = "notes" /\ cutoff' = last - (Retention + Margin)
  /\ UNCHANGED <<dbVars, serverVars, net, localVars, deviceVars, counters>>

Expired(r) == tab[r].st = "deleted" /\ synced[r] < cutoff

Purge(S) ==
  LET P == {r \in S : Expired(r)}
  IN /\ WriterFree
     /\ tab' = [r \in Ids |-> IF r \in P THEN Gone ELSE tab[r]]
     /\ synced' = [r \in Ids |-> IF r \in P THEN 0 ELSE synced[r]]
     /\ UNCHANGED <<last, hwm, serverVars, net, localVars, deviceVars, counters>>

SweepNotes ==
  /\ sweep = "notes" /\ sweep' = "folders"
  /\ Purge(Notes) /\ UNCHANGED cutoff
SweepFolders ==
  /\ sweep = "folders" /\ sweep' = "idle"
  /\ Purge(Folders) /\ cutoff' = 0

(* A failed DELETE is logged and skipped; a stop ends the whole run.       *)
SweepFail ==
  /\ sweep # "idle"
  /\ \/ sweep = "notes" /\ sweep' = "folders" /\ UNCHANGED cutoff
     \/ sweep' = "idle" /\ cutoff' = 0
  /\ UNCHANGED <<dbVars, serverVars, net, localVars, deviceVars, counters>>

-----------------------------------------------------------------------------
DeviceStep(d) ==
  \/ \E r \in Ids, doc \in Edits : Edit(d, r, doc)
  \/ Send(d)
  \/ GiveUp(d)
  \/ Apply(d)

ServerStep(s) ==
  \/ \E q \in net, reading \in Readings : Reserve(s, q, reading)
  \/ Commit(s)
  \/ Abort(s)
  \/ PullFolders(s)
  \/ PullNotes(s)

Next ==
  \/ \E d \in Devices : DeviceStep(d)
  \/ \E s \in Servers : ServerStep(s)
  \/ \E reading \in OtherReadings : OtherSync(reading)
  \/ SweepStart
  \/ SweepNotes
  \/ SweepFolders
  \/ SweepFail

Spec == Init /\ [][Next]_vars

-----------------------------------------------------------------------------
(* Type correctness.                                                       *)
TypeOK ==
  /\ tab \in Batch /\ synced \in [Ids -> Nat]
  /\ last \in Nat /\ hwm \in Nat
  /\ pc \in [Servers -> {"idle", "tx", "committed", "folders"}]
  /\ job \in [Servers -> Request \union {NoRequest}]
  /\ stamp \in [Servers -> Nat] /\ got \in [Servers -> Batch]
  /\ sweep \in {"idle", "notes", "folders"} /\ cutoff \in Int
  /\ net \in SUBSET Request
  /\ cursor \in [Devices -> Nat] /\ copy \in [Devices -> Batch]
  /\ dirty \in [Devices -> SUBSET Ids] /\ unechoed \in [Devices -> SUBSET Ids]
  /\ waiting \in [Devices -> Nat]
  /\ inbox \in [Devices -> Answer]
  /\ sent \in Nat /\ edits \in Nat

(* What the cursor c promises about a local row cp of a device.            *)
HasActive(r, c, cp)   == tab[r].st = "active"  /\ synced[r] <= c => cp = tab[r]
HasDeletion(r, c, cp) == tab[r].st = "deleted" /\ synced[r] <= c => cp.st # "active"
WillResync(r, c, cp)  == tab[r].st = "absent" /\ cp.st = "active"
                           => FullResync(c, last + 1)

Clean(d, r) == cursor[d] > 0 /\ r \notin dirty[d]

(* notes_repo.go (ListSyncedBetween), README "Cursore di pull server-side":  *)
(* everything that is active and not newer than the cursor of a device has   *)
(* been delivered to it in its current version, whatever was lost, retried,  *)
(* committed by another process or pulled late.                              *)
ActiveRowsReachDevices ==
  \A d \in Devices, r \in Ids : Clean(d, r) => HasActive(r, cursor[d], copy[d][r])

(* A tombstone not newer than the cursor has removed the local row, unless   *)
(* the row comes from a first sync that was answered without it.             *)
DeletionsReachDevices ==
  \A d \in Devices, r \in Ids :
    Clean(d, r) /\ r \notin unechoed[d] => HasDeletion(r, cursor[d], copy[d][r])

(* main.go (tombstonePurgeCutoff), maintenance.go: a device that has missed  *)
(* a deletion which the sweep has forgotten gets a full resync from whatever *)
(* stamp comes next.                                                         *)
PurgedRowsForceResync ==
  \A d \in Devices, r \in Ids :
    Clean(d, r) /\ r \notin unechoed[d] => WillResync(r, cursor[d], copy[d][r])

(* README "se il client ha perso il confronto LWW, la versione vincente del  *)
(* server", models.go SyncResponse: no exemption for the first sync.         *)
LosersGetTheWinner ==
  \A d \in Devices, r \in Ids : Clean(d, r) => HasDeletion(r, cursor[d], copy[d][r])

(* reserveStampTx: the order of the stamps is the order of the commits, so a *)
(* row never moves to a stamp that some committed sync has already passed.   *)
CommitOrder ==
  [][\A r \in Ids : synced'[r] # synced[r] /\ tab'[r].st # "absent"
                      => synced'[r] > last]_vars
=============================================================================
