----------------------------- MODULE FolderTree ------------------------------
(***************************************************************************)
(* The tree of ONE account: its folders, the notes in them, and how the    *)
(* transaction of a sync applies a batch to it row by row - folders in the *)
(* order received, those whose parent is still missing put off until their *)
(* parents are there, the cascade of every deleted folder, then the notes. *)
(* A rejected row undoes the whole batch.  Between the batches the sweep   *)
(* forgets old tombstones and a restart repairs the cycles it finds.       *)
(*                                                                         *)
(* The names and the contents of the rows play no part.  The triggers and  *)
(* the foreign rows they look up are modelled by what they reject.         *)
(***************************************************************************)
EXTENDS Integers, FiniteSets, Sequences

CONSTANTS
  Folders, Notes, Root,   \* ids of the account; the parent of a top-level row
  EditTimes,              \* updated_at values that clients send
  Readings,               \* what the clock may say at a restart
  Skew, Keep,             \* MaxClockSkew; stamps a tombstone is kept for
  Batches,                \* the batches a client may push
  MaxRows, MaxStamp       \* bounds of the checked instance

Ids == Folders \union Notes
Parents == Folders \union {Root}

Row    == [st : {"absent", "active", "deleted"}, up : Parents, upd : Int, at : Nat]
Change == [id : Ids, st : {"active", "deleted"}, up : Parents, upd : EditTimes]
Gone   == [st |-> "absent", up |-> Root, upd |-> 0, at |-> 0]

(* A batch lists its folders and its notes, each id once.                   *)
Distinct(s) == \A i, j \in 1..Len(s) : s[i].id = s[j].id => i = j

ASSUME TreeAssumption ==
  /\ Folders \intersect Notes = {} /\ Root \notin Ids
  /\ EditTimes \subseteq Int /\ Readings \subseteq Nat
  /\ Skew \in Nat /\ Keep \in Nat
  /\ \A b \in Batches :
       /\ b \in [folders : Seq(Change), notes : Seq(Change)]
       /\ \A i \in 1..Len(b.folders) : b.folders[i].id \in Folders
       /\ \A i \in 1..Len(b.notes) : b.notes[i].id \in Notes
       /\ Distinct(b.folders) /\ Distinct(b.notes)

VARIABLES
  tab, last,        \* committed: the rows; stamp_last
  phase, work,      \* the transaction: its stage, the rows it sees
  batch,            \* what the client sent
  todo, later,      \* folders to apply now; folders put off
  notes,            \* notes still to apply
  rejected,         \* some row has been rejected
  prev,             \* the batch that committed last, if nothing came after it
  rows              \* rows sent so far

txVars == <<phase, work, batch, todo, later, notes, rejected>>
vars == <<tab, last, txVars, prev, rows>>

NoBatch == [folders |-> <<>>, notes |-> <<>>]
PushedIds(b) == {b.folders[i].id : i \in 1..Len(b.folders)}
                  \union {b.notes[i].id : i \in 1..Len(b.notes)}

Now == last + 1     \* the stamp of the transaction under way

-----------------------------------------------------------------------------
(* The tree of a table t.                                                  *)

(* y is x or an ancestor of x: it is in every set that holds x and, with a  *)
(* folder outside P, the folder's parent.                                   *)
ReachesBelow(t, x, y, P) ==
  \A S \in SUBSET Folders :
    x \in S /\ (\A z \in S \ P : t[z].up \in Folders => t[z].up \in S) => y \in S

Reaches(t, x, y) == ReachesBelow(t, x, y, {})

OnCycle(t, f) == t[f].up \in Folders /\ Reaches(t, t[f].up, f)
Dangling(t, x) == t[x].up \in Folders /\ t[t[x].up].st = "absent"

-----------------------------------------------------------------------------
(* One row of the batch.                                                   *)

ClampTime(t) == IF t <= 0 \/ t > Now + Skew THEN Now ELSE t

(* trg_*_ownership: the parent must have a row.                             *)
NoParent(c) == c.up # Root /\ work[c.up].st = "absent"

(* Mutant: only the new parent itself is looked at, not what is above it.   *)
ClosesShortCycle(c) ==
  /\ c.up # Root
  /\ work[c.id].st # "absent" /\ work[c.id].up # c.up
  /\ work[c.up].up = c.id

(* trg_folders_cycle: an existing folder may not move below itself.         *)
ClosesCycle(c) ==
  /\ c.up # Root
  /\ work[c.id].st # "absent" /\ work[c.id].up # c.up
  /\ Reaches(work, c.up, c.id)

(* Mutant: the row is inserted without its synced_at.                       *)
UpsertedUnstamped(c) == [st |-> c.st, up |-> c.up, upd |-> ClampTime(c.upd)]

(* Last-Write-Wins; a row that wins against the push is touched.            *)
Upserted(c) ==
  IF work[c.id].st = "absent" \/ ClampTime(c.upd) >= work[c.id].upd
  THEN [st |-> c.st, up |-> c.up, upd |-> ClampTime(c.upd), at |-> Now]
  ELSE [work[c.id] EXCEPT !.at = Now]

Tombstone(row) == [st |-> "deleted", up |-> row.up, upd |-> Now, at |-> Now]

(* Mutant: the walk goes on below the folders it deletes only.              *)
CascadeThroughActive(t, f) ==
  LET Dead == {d \in Folders : t[d].st # "active"} \ {f}
  IN [x \in Ids |-> IF /\ x # f /\ t[x].st = "active" /\ t[x].up \in Folders
                       /\ ReachesBelow(t, t[x].up, f, Dead)
                    THEN Tombstone(t[x])
                    ELSE t[x]]

(* Every active row below f becomes a tombstone, through deleted rows too.  *)
Cascade(t, f) ==
  [x \in Ids |-> IF x # f /\ t[x].st = "active" /\ t[x].up \in Folders /\ Reaches(t, t[x].up, f)
                 THEN Tombstone(t[x])
                 ELSE t[x]]

(* Mutant: the cascade follows the change that was sent, not its outcome.   *)
AppliedFolderAsSent(c) ==
  LET t == [work EXCEPT ![c.id] = Upserted(c)]
  IN IF c.st = "deleted" THEN Cascade(t, c.id) ELSE t

AppliedFolder(c) ==
  LET t == [work EXCEPT ![c.id] = Upserted(c)]
  IN IF t[c.id].st = "deleted" THEN Cascade(t, c.id) ELSE t

-----------------------------------------------------------------------------
Init ==
  /\ tab = [x \in Ids |-> Gone] /\ last = 0
  /\ phase = "idle" /\ work = tab
  /\ batch = NoBatch /\ todo = <<>> /\ later = <<>> /\ notes = <<>>
  /\ rejected = FALSE
  /\ prev = NoBatch /\ rows = 0

(* The transaction opens and takes its stamp.                               *)
Begin(b) ==
  /\ phase = "idle" /\ last < MaxStamp
  /\ rows' = rows + Len(b.folders) + Len(b.notes) /\ rows' <= MaxRows
  /\ phase' = "first" /\ batch' = b /\ todo' = b.folders /\ notes' = b.notes
  /\ UNCHANGED <<tab, last, work, later, rejected, prev>>

(* The first pass over the folders, in the order received.                  *)
ApplyFolder ==
  LET c == Head(todo)
      missing == NoParent(c) \/ ClosesCycle(c)
  IN /\ phase = "first" /\ todo # <<>>
     /\ todo' = Tail(todo)
     /\ \/ /\ c.up = c.id
           /\ rejected' = TRUE /\ UNCHANGED <<work, later>>
        \/ /\ c.up # c.id /\ missing
           /\ \/ c.up \in PushedIds(batch) /\ later' = Append(later, c) /\ UNCHANGED rejected
              \/ c.up \notin PushedIds(batch) /\ rejected' = TRUE /\ UNCHANGED later
           /\ UNCHANGED work
        \/ /\ c.up # c.id /\ ~missing
           /\ work' = AppliedFolder(c) /\ UNCHANGED <<later, rejected>>
     /\ UNCHANGED <<tab, last, phase, batch, notes, prev, rows>>

(* orderDeferredFolders: what was put off and waits for nothing comes first, *)
(* in the order received, then what hangs from the first of these, from the *)
(* second, and so on.  What waits for itself never comes.                   *)
Entries(s) == {s[i] : i \in 1..Len(s)}
(* Mutant: the folders that were put off come in the order received.        *)
BehindNothing(c, s) == FALSE
Behind(c, s) == \E p \in Entries(s) : p.id = c.up

Rank(c, q, s) ==
  LET turn  == IF Behind(c, q) THEN CHOOSE j \in 1..Len(q) : q[j].id = c.up ELSE 0
      place == CHOOSE i \in 1..Len(s) : s[i] = c
  IN turn * Len(s) + place

Orders(s) ==
  {q \in UNION {[1..n -> Entries(s)] : n \in 0..Len(s)} :
     /\ \A j, k \in 1..Len(q) : j < k => Rank(q[j], q, s) < Rank(q[k], q, s)
     /\ \A k \in 1..Len(q) : Behind(q[k], s) => \E j \in 1..(k - 1) : q[j].id = q[k].up
     /\ \A c \in Entries(s) : ~Behind(c, s) \/ Behind(c, q) => c \in Entries(q)}

FirstPassEnds ==
  /\ phase = "first" /\ todo = <<>>
  /\ phase' = "deferred" /\ todo' \in Orders(later) /\ later' = <<>>
  /\ rejected' = (rejected \/ ~(Entries(later) \subseteq Entries(todo')))
  /\ UNCHANGED <<tab, last, work, batch, notes, prev, rows>>

ApplyDeferred ==
  LET c == Head(todo)
  IN /\ phase = "deferred" /\ todo # <<>>
     /\ todo' = Tail(todo)
     /\ IF NoParent(c) \/ ClosesCycle(c)
        THEN rejected' = TRUE /\ UNCHANGED work
        ELSE work' = AppliedFolder(c) /\ UNCHANGED rejected
     /\ UNCHANGED <<tab, last, phase, batch, later, notes, prev, rows>>

FoldersEnd ==
  /\ phase = "deferred" /\ todo = <<>>
  /\ phase' = "notes"
  /\ UNCHANGED <<tab, last, work, batch, todo, later, notes, rejected, prev, rows>>

ApplyNote ==
  LET c == Head(notes)
  IN /\ phase = "notes" /\ notes # <<>>
     /\ notes' = Tail(notes)
     /\ IF NoParent(c)
        THEN rejected' = TRUE /\ UNCHANGED work
        ELSE work' = [work EXCEPT ![c.id] = Upserted(c)] /\ UNCHANGED rejected
     /\ UNCHANGED <<tab, last, phase, batch, todo, later, prev, rows>>

Close ==
  /\ phase' = "idle" /\ batch' = NoBatch
  /\ todo' = <<>> /\ later' = <<>> /\ notes' = <<>> /\ rejected' = FALSE
  /\ UNCHANGED rows

Commit ==
  /\ phase = "notes" /\ notes = <<>> /\ ~rejected
  /\ tab' = work /\ last' = Now /\ prev' = batch
  /\ Close /\ UNCHANGED work

(* 422; or the client has gone, the process has died, the quota is used up. *)
Rollback ==
  /\ phase # "idle"
  /\ Close /\ work' = tab /\ UNCHANGED <<tab, last, prev>>

-----------------------------------------------------------------------------
(* Between the batches.                                                    *)

(* A sync of another account, or an empty one.                              *)
OtherSync ==
  /\ phase = "idle" /\ last < MaxStamp
  /\ last' = Now
  /\ UNCHANGED <<tab, txVars, prev, rows>>

(* PurgeExpiredTombstones, one statement for each of the two tables.        *)
Purge(S) ==
  /\ phase = "idle" /\ \E x \in S : tab[x].st = "deleted" /\ tab[x].at < last - Keep
  /\ tab' = [x \in Ids |-> IF x \in S /\ tab[x].st = "deleted" /\ tab[x].at < last - Keep
                           THEN Gone ELSE tab[x]]
  /\ work' = tab' /\ prev' = NoBatch
  /\ UNCHANGED <<last, phase, batch, todo, later, notes, rejected, rows>>

(* repairFolderCycles, at a restart: one folder of every cycle, whichever   *)
(* the iteration of a map finds first, becomes a top-level folder.          *)
Repair(D, top, reading) ==
  LET stamp == IF top >= reading THEN top + 1 ELSE reading
  IN /\ phase = "idle" /\ D # {}
     /\ \A f \in Folders : tab[f].at <= top
     /\ \A f \in D : OnCycle(tab, f)
     /\ \A f \in Folders : OnCycle(tab, f)
          => Cardinality({d \in D : Reaches(tab, f, d)}) = 1
     /\ tab' = [x \in Ids |-> IF x \in D THEN [tab[x] EXCEPT !.up = Root, !.at = stamp]
                              ELSE tab[x]]
     /\ last' = (IF stamp > last THEN stamp ELSE last)
     /\ work' = tab' /\ prev' = NoBatch
     /\ UNCHANGED <<phase, batch, todo, later, notes, rejected, rows>>

Next ==
  \/ \E b \in Batches : Begin(b)
  \/ ApplyFolder \/ FirstPassEnds \/ ApplyDeferred \/ FoldersEnd \/ ApplyNote
  \/ Commit \/ Rollback
  \/ OtherSync
  \/ Purge(Folders) \/ Purge(Notes)
  \/ \E D \in SUBSET Folders, f \in Folders, reading \in Readings :
       Repair(D, tab[f].at, reading)

Spec == Init /\ [][Next]_vars

-----------------------------------------------------------------------------
(* Type correctness: the rows and what the transaction has in hand.        *)
TypeOK ==
  /\ tab \in [Ids -> Row] /\ work \in [Ids -> Row] /\ last \in Nat
  /\ phase \in {"idle", "first", "deferred", "notes"}
  /\ {batch, prev} \subseteq [folders : Seq(Change), notes : Seq(Change)]
  /\ todo \in Seq(Change) /\ later \in Seq(Change) /\ notes \in Seq(Change)
  /\ rejected \in BOOLEAN /\ rows \in Nat

(* README "Cascata", cascadeSoftDeleteFolder: when a folder of the batch    *)
(* ends up deleted, so does every row below it, also below deleted folders, *)
(* except below the rows that the batch pushes too.                         *)
CascadeReachesAll ==
  [][Commit => \A x \in Ids \ PushedIds(batch), f \in Folders \intersect PushedIds(batch) :
       /\ tab'[f].st = "deleted" /\ tab'[x].up \in Folders
       /\ ReachesBelow(tab', tab'[x].up, f, PushedIds(batch))
       => tab'[x].st # "active"]_vars

(* Sync, "CASCATA: ... stato risultante": a batch deletes nothing it does   *)
(* not push but what was, or has come to be, below a folder of the batch    *)
(* that ends up deleted.                                                    *)
CascadeReachesOnly ==
  [][Commit => \A x \in Ids \ PushedIds(batch) :
       tab[x].st = "active" /\ tab'[x].st = "deleted"
         => \E f \in Folders \intersect PushedIds(batch) :
              /\ tab[x].up \in Folders
              /\ \A S \in SUBSET Folders :
                   tab[x].up \in S /\ (\A z \in S : {tab[z].up, tab'[z].up} \ {Root} \subseteq S)
                     => f \in S
              /\ tab'[f].st = "deleted"]_vars

(* addFolderCycleTriggers: as long as every parent has a row, no batch      *)
(* closes a cycle, whatever it moves and in whatever order.                 *)
BatchesKeepForest ==
  [][Commit /\ (\A x \in Ids : ~Dangling(tab, x) /\ (x \in Folders => ~OnCycle(tab, x)))
       => \A f \in Folders : ~OnCycle(tab', f)]_vars

(* The comment of addFolderCycleTriggers: "un inserimento normale non può   *)
(* creare un ciclo".                                                        *)
NoCycle == \A f \in Folders : ~OnCycle(tab, f)

(* repairFolderCycles: a folder that the repair has moved has a stamp that  *)
(* no client has passed ("cosi' i client lo riscaricano").                  *)
RepairIsPulled ==
  [][\A f \in Folders : tab[f].up # Root /\ tab'[f].up = Root /\ phase = "idle"
                          /\ tab'[f].st # "absent"
       => tab'[f].at > last]_vars

(* README "Ordine delle cartelle": a batch of new folders is accepted in    *)
(* any order if and only if every folder hangs, through the batch, from the *)
(* top or from a folder that the server has.                                *)
Hanging(b) ==
  \A S \in (SUBSET PushedIds(b)) \ {{}} :
    \E i \in 1..Len(b.folders) :
      LET c == b.folders[i]
      IN c.id \in S /\ c.up \notin S
         /\ (c.up = Root \/ c.up \in PushedIds(b) \/ tab[c.up].st # "absent")
NewFolders(b) == \A x \in PushedIds(b) : x \in Folders /\ tab[x].st = "absent"
AcceptedInAnyOrder ==
  phase = "notes" /\ NewFolders(batch) => (rejected <=> ~Hanging(batch))

(* README "La sync e' idempotente": to send a batch again leaves every row  *)
(* as deleted or active, and where, as the first time.                      *)
ResendChangesNothing ==
  [][Commit /\ batch = prev
       => \A x \in Ids : tab'[x].st = tab[x].st /\ tab'[x].up = tab[x].up]_vars
=============================================================================
