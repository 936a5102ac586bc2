--------------------------- MODULE FolderTreeProofs ---------------------------
(***************************************************************************)
(* Theorems about FolderTree, for any folders, notes and batches: no batch  *)
(* closes a cycle, and what a deletion cascades to is what lies below it.   *)
(*                                                                         *)
(* Reachability is a statement about all closed sets of folders, so that    *)
(* each proof about paths shows one set: the union, the intersection or the *)
(* part of sets that are closed already.                                    *)
(***************************************************************************)
EXTENDS FolderTree, FiniteSetTheorems, TLAPS

FolderChange == {c \in Change : c.id \in Folders}
NoteChange == {c \in Change : c.id \in Notes}
Tables == [Ids -> Row]

(* The changes that are still to be applied, and the folders they are for.  *)
Left == Entries(todo) \union Entries(later)
Waits(f) == \E c \in Left : c.id = f

TypeInv ==
  /\ tab \in Tables /\ work \in Tables /\ last \in Nat
  /\ phase \in {"idle", "first", "deferred", "notes"}
  /\ batch \in [folders : Seq(FolderChange), notes : Seq(NoteChange)]
  /\ prev \in [folders : Seq(FolderChange), notes : Seq(NoteChange)]
  /\ todo \in Seq(FolderChange) /\ later \in Seq(FolderChange)
  /\ notes \in Seq(NoteChange)
  /\ rejected \in BOOLEAN /\ rows \in Nat

-----------------------------------------------------------------------------
(* Sequences.                                                               *)
LEMMA EntriesType ==
  ASSUME NEW S, NEW s \in Seq(S) PROVE Entries(s) \subseteq S
  BY DEF Entries

LEMMA TailEntries ==
  ASSUME NEW S, NEW s \in Seq(S), s # <<>>
  PROVE  /\ Head(s) \in S /\ Head(s) \in Entries(s) /\ Tail(s) \in Seq(S)
         /\ Entries(Tail(s)) \subseteq Entries(s)
         /\ Entries(s) = {Head(s)} \union Entries(Tail(s))
<1>1. Len(s) \in Nat \ {0} /\ Head(s) = s[1]
  OBVIOUS
<1>2. Len(Tail(s)) = Len(s) - 1 /\ \A i \in 1..(Len(s) - 1) : Tail(s)[i] = s[i + 1]
  OBVIOUS
<1>3. Head(s) \in S /\ Head(s) \in Entries(s) /\ Tail(s) \in Seq(S)
  BY <1>1 DEF Entries
<1>4. Entries(Tail(s)) \subseteq Entries(s)
  <2>. SUFFICES ASSUME NEW i \in 1..Len(Tail(s)) PROVE Tail(s)[i] \in Entries(s)
    BY DEF Entries
  <2>1. i + 1 \in 1..Len(s) /\ Tail(s)[i] = s[i + 1]
    BY <1>1, <1>2
  <2>. QED
    BY <2>1 DEF Entries
<1>5. ASSUME NEW i \in 1..Len(s) PROVE s[i] \in {Head(s)} \union Entries(Tail(s))
  <2>1. CASE i = 1
    BY <1>1, <2>1
  <2>2. CASE i # 1
    <3>1. i - 1 \in 1..Len(Tail(s)) /\ Tail(s)[i - 1] = s[i]
      BY <1>1, <1>2, <2>2
    <3>. QED
      BY <3>1 DEF Entries
  <2>. QED
    BY <2>1, <2>2
<1>. QED
  BY <1>3, <1>4, <1>5 DEF Entries

LEMMA AppendEntries ==
  ASSUME NEW S, NEW s \in Seq(S), NEW c \in S
  PROVE  Append(s, c) \in Seq(S) /\ Entries(Append(s, c)) = Entries(s) \union {c}
<1>1. Len(Append(s, c)) = Len(s) + 1 /\ Append(s, c)[Len(s) + 1] = c
  OBVIOUS
<1>2. \A i \in 1..Len(s) : Append(s, c)[i] = s[i]
  OBVIOUS
<1>3. 1..(Len(s) + 1) = 1..Len(s) \union {Len(s) + 1}
  OBVIOUS
<1>. QED
  BY <1>1, <1>2, <1>3 DEF Entries

(* A batch is what it is, by the assumption about the clients.              *)
LEMMA SeqOfPart ==
  ASSUME NEW S, NEW T, NEW s \in Seq(S), \A i \in 1..Len(s) : s[i] \in T
  PROVE  s \in Seq(T)
  OBVIOUS

LEMMA BatchType ==
  ASSUME NEW b \in Batches
  PROVE  b.folders \in Seq(FolderChange) /\ b.notes \in Seq(NoteChange)
<1>1. /\ b.folders \in Seq(Change) /\ \A i \in 1..Len(b.folders) : b.folders[i].id \in Folders
      /\ b.notes \in Seq(Change) /\ \A i \in 1..Len(b.notes) : b.notes[i].id \in Notes
  BY TreeAssumption DEF TreeAssumption
<1>2. \A i \in 1..Len(b.folders) : b.folders[i] \in FolderChange
  BY <1>1 DEF FolderChange
<1>3. \A i \in 1..Len(b.notes) : b.notes[i] \in NoteChange
  BY <1>1 DEF NoteChange
<1>. QED
  BY <1>1, <1>2, <1>3, SeqOfPart

LEMMA OrdersType ==
  ASSUME NEW S, NEW s \in Seq(S), NEW q \in Orders(s)
  PROVE  q \in Seq(S) /\ Entries(q) \subseteq Entries(s)
<1>1. PICK n \in 0..Len(s) : q \in [1..n -> Entries(s)]
  BY DEF Orders
<1>2. Entries(s) \subseteq S /\ n \in Nat
  BY EntriesType
<1>3. q \in Seq(Entries(s)) /\ q \in Seq(S) /\ Len(q) = n
  BY <1>1, <1>2
<1>. QED
  BY <1>3, EntriesType

-----------------------------------------------------------------------------
(* The tree.  A table is sound when every parent has a row and no folder is *)
(* below itself.                                                            *)
Sound(t) ==
  \A x \in Ids : ~Dangling(t, x) /\ (x \in Folders => ~OnCycle(t, x))

Closed(t, S) == \A z \in S : t[z].up \in Folders => t[z].up \in S

LEMMA IdsDisjoint ==
  /\ Folders \subseteq Ids /\ Notes \subseteq Ids
  /\ Folders \intersect Notes = {} /\ Root \notin Folders
  BY TreeAssumption DEF TreeAssumption, Ids

LEMMA ReachesClosed ==
  ASSUME NEW t, NEW x, NEW y
  PROVE  Reaches(t, x, y) <=> \A S \in SUBSET Folders : x \in S /\ Closed(t, S) => y \in S
<1>1. \A S : S \ {} = S
  OBVIOUS
<1>. QED
  BY <1>1 DEF Reaches, ReachesBelow, Closed

(* Reachability and cycles are a matter of the parents alone.               *)
LEMMA SameParents ==
  ASSUME NEW t, NEW u, \A z \in Folders : u[z].up = t[z].up
  PROVE  /\ \A x, y : Reaches(u, x, y) <=> Reaches(t, x, y)
         /\ \A f \in Folders : OnCycle(u, f) <=> OnCycle(t, f)
<1>1. \A S \in SUBSET Folders : Closed(u, S) <=> Closed(t, S)
  BY DEF Closed
<1>2. \A x, y : Reaches(u, x, y) <=> Reaches(t, x, y)
  BY <1>1, ReachesClosed
<1>. QED
  BY <1>2 DEF OnCycle

(* A folder moved under a parent that does not reach it closes no cycle.    *)
LEMMA MoveKeepsForest ==
  ASSUME NEW t, NEW u, NEW g \in Folders, NEW A \in SUBSET Folders,
         \A z \in Folders \ {g} : u[z].up = t[z].up,
         Closed(t, A), g \notin A,
         u[g].up \in Folders => u[g].up \in A,
         \A f \in Folders : ~OnCycle(t, f)
  PROVE  \A f \in Folders : ~OnCycle(u, f)
<1>. SUFFICES ASSUME NEW f \in Folders, OnCycle(u, f) PROVE FALSE
  OBVIOUS
<1>1. u[f].up \in Folders /\ \A S \in SUBSET Folders : u[f].up \in S /\ Closed(u, S) => f \in S
  BY ReachesClosed DEF OnCycle
<1>2. Closed(u, A)
  BY DEF Closed
<1>3. CASE f = g
  BY <1>1, <1>2, <1>3
<1>4. CASE f # g
  <2>1. t[f].up = u[f].up
    BY <1>4
  <2>2. ASSUME NEW S \in SUBSET Folders, t[f].up \in S, Closed(t, S)
        PROVE  f \in S
    <3>1. Closed(u, S \union A)
      BY <2>2 DEF Closed
    <3>2. f \in S \union A
      BY <1>1, <2>1, <2>2, <3>1
    <3>3. CASE f \in A
      <4>1. t[f].up \in A
        BY <1>1, <2>1, <3>3 DEF Closed
      <4>2. Closed(u, S \intersect A)
        BY <2>2, <1>2 DEF Closed
      <4>. QED
        BY <1>1, <2>1, <2>2, <4>1, <4>2
    <3>. QED
      BY <3>2, <3>3
  <2>3. OnCycle(t, f)
    BY <1>1, <2>1, <2>2, ReachesClosed DEF OnCycle
  <2>. QED
    BY <2>3
<1>. QED
  BY <1>3, <1>4

-----------------------------------------------------------------------------
(* One row: what an upsert leaves.                                          *)
LEMMA ClampType ==
  ASSUME TypeInv, NEW c \in Change
  PROVE  ClampTime(c.upd) \in Int /\ Now \in Nat
<1>1. Skew \in Nat /\ EditTimes \subseteq Int
  BY TreeAssumption DEF TreeAssumption
<1>2. Now \in Nat
  BY DEF TypeInv, Now
<1>3. c.upd \in Int
  BY <1>1 DEF Change
<1>. QED
  BY <1>1, <1>2, <1>3 DEF ClampTime

LEMMA UpsertedRow ==
  ASSUME TypeInv, NEW c \in Change
  PROVE  /\ Upserted(c) \in Row
         /\ Upserted(c).st # "absent"
         /\ Upserted(c).up = c.up \/ (Upserted(c).up = work[c.id].up /\ work[c.id].st # "absent")
<1>1. c.id \in Ids /\ c.st \in {"active", "deleted"} /\ c.up \in Parents
  BY DEF Change
<1>2. work[c.id] \in Row /\ ClampTime(c.upd) \in Int /\ Now \in Nat
  BY <1>1, ClampType DEF TypeInv, Tables
<1>3. CASE work[c.id].st = "absent" \/ ClampTime(c.upd) >= work[c.id].upd
  BY <1>1, <1>2, <1>3 DEF Upserted, Row
<1>4. CASE ~(work[c.id].st = "absent" \/ ClampTime(c.upd) >= work[c.id].upd)
  BY <1>1, <1>2, <1>4 DEF Upserted, Row
<1>. QED
  BY <1>3, <1>4

(* The cascade deletes rows: it moves none, and makes none.                 *)
LEMMA CascadeShape ==
  ASSUME TypeInv, NEW t \in Tables, NEW f \in Folders
  PROVE  /\ Cascade(t, f) \in Tables
         /\ \A x \in Ids :
              /\ Cascade(t, f)[x].up = t[x].up
              /\ Cascade(t, f)[x].st = "absent" <=> t[x].st = "absent"
              /\ Cascade(t, f)[x].st = "active" => t[x].st = "active"
              /\ t[x].st = "deleted" => Cascade(t, f)[x].st = "deleted"
              /\ (x = f \/ t[x].up \notin Folders \/ ~Reaches(t, t[x].up, f)) => Cascade(t, f)[x] = t[x]
              /\ x # f /\ t[x].up \in Folders /\ Reaches(t, t[x].up, f)
                   => Cascade(t, f)[x].st # "active"
<1>. SUFFICES ASSUME NEW x \in Ids
     PROVE  /\ Cascade(t, f)[x] \in Row
            /\ Cascade(t, f)[x].up = t[x].up
            /\ Cascade(t, f)[x].st = "absent" <=> t[x].st = "absent"
            /\ Cascade(t, f)[x].st = "active" => t[x].st = "active"
            /\ t[x].st = "deleted" => Cascade(t, f)[x].st = "deleted"
            /\ (x = f \/ t[x].up \notin Folders \/ ~Reaches(t, t[x].up, f)) => Cascade(t, f)[x] = t[x]
            /\ x # f /\ t[x].up \in Folders /\ Reaches(t, t[x].up, f)
                 => Cascade(t, f)[x].st # "active"
  BY DEF Tables, Cascade
<1>1. t[x] \in Row /\ Now \in Nat
  BY DEF Tables, TypeInv, Now
<1>2. CASE x # f /\ t[x].st = "active" /\ t[x].up \in Folders /\ Reaches(t, t[x].up, f)
  <2>1. Cascade(t, f)[x] = Tombstone(t[x])
    BY <1>2 DEF Cascade
  <2>2. Now \in Int /\ t[x].up \in Parents
    BY <1>1 DEF Row
  <2>3. /\ Cascade(t, f)[x] \in Row /\ Cascade(t, f)[x].up = t[x].up
        /\ Cascade(t, f)[x].st = "deleted"
    BY <1>1, <2>1, <2>2 DEF Tombstone, Row
  <2>. QED
    BY <1>2, <2>3
<1>3. CASE ~(x # f /\ t[x].st = "active" /\ t[x].up \in Folders /\ Reaches(t, t[x].up, f))
  <2>1. Cascade(t, f)[x] = t[x]
    BY <1>3 DEF Cascade
  <2>2. x # f /\ t[x].up \in Folders /\ Reaches(t, t[x].up, f) => t[x].st # "active"
    BY <1>3
  <2>3. /\ Cascade(t, f)[x] \in Row
        /\ Cascade(t, f)[x].up = t[x].up
        /\ Cascade(t, f)[x].st = t[x].st
    BY <1>1, <2>1
  <2>. QED
    BY <2>1, <2>2, <2>3
<1>. QED
  BY <1>2, <1>3

(* A folder of the batch: the upsert, and the cascade when it leaves the    *)
(* folder deleted.                                                          *)
LEMMA AppliedShape ==
  ASSUME TypeInv, NEW c \in FolderChange,
         NEW t, t = [work EXCEPT ![c.id] = Upserted(c)]
  PROVE  /\ t \in Tables
         /\ AppliedFolder(c) = IF t[c.id].st = "deleted" THEN Cascade(t, c.id) ELSE t
         /\ c.id \in Folders /\ c \in Change /\ c.id \in Ids
         /\ t[c.id] = Upserted(c)
         /\ \A x \in Ids \ {c.id} : t[x] = work[x]
<1>1. c.id \in Folders /\ c \in Change /\ c.id \in Ids
  BY IdsDisjoint DEF FolderChange
<1>2. work \in Tables /\ Upserted(c) \in Row
  BY <1>1, UpsertedRow DEF TypeInv
<1>. QED
  BY <1>1, <1>2 DEF Tables, AppliedFolder

LEMMA AppliedType ==
  ASSUME TypeInv, NEW c \in FolderChange PROVE AppliedFolder(c) \in Tables
<1>1. PICK t : t = [work EXCEPT ![c.id] = Upserted(c)]
  OBVIOUS
<1>. QED
  BY <1>1, AppliedShape, CascadeShape

(* A table with the parents of a sound one, and its rows, is sound.         *)
LEMMA SoundUnder ==
  ASSUME NEW t \in Tables, NEW u \in Tables, Sound(t),
         \A x \in Ids : u[x].up = t[x].up /\ (u[x].st = "absent" => t[x].st = "absent")
  PROVE  Sound(u)
<1>1. \A x \in Ids : Dangling(u, x) => Dangling(t, x)
  BY IdsDisjoint DEF Dangling
<1>2. \A f \in Folders : OnCycle(u, f) <=> OnCycle(t, f)
  BY IdsDisjoint, SameParents
<1>. QED
  BY <1>1, <1>2 DEF Sound

(* What the two triggers let through keeps a sound table sound.             *)
LEMMA UpsertSound ==
  ASSUME TypeInv, Sound(work), NEW c \in FolderChange,
         ~NoParent(c), ~ClosesCycle(c),
         NEW t, t = [work EXCEPT ![c.id] = Upserted(c)]
  PROVE  Sound(t)
<1>0. /\ c.id \in Folders /\ c \in Change /\ c.id \in Ids
      /\ t[c.id] = Upserted(c) /\ t \in Tables
      /\ \A x \in Ids \ {c.id} : t[x] = work[x]
  BY AppliedShape
<1>1. /\ t[c.id].st # "absent"
      /\ t[c.id].up = c.up \/ (t[c.id].up = work[c.id].up /\ work[c.id].st # "absent")
  BY <1>0, UpsertedRow
<1>2. c.up = Root \/ (c.up \in Folders /\ work[c.up].st # "absent")
  BY <1>0 DEF NoParent, Change, Parents
<1>3. \A x \in Ids : ~Dangling(t, x)
  <2>. SUFFICES ASSUME NEW x \in Ids, t[x].up \in Folders PROVE t[t[x].up].st # "absent"
    BY DEF Dangling
  <2>1. work[t[x].up].st # "absent"
    <3>1. CASE t[x].up = work[x].up
      BY <3>1 DEF Sound, Dangling
    <3>2. CASE t[x].up # work[x].up
      BY <1>0, <1>1, <1>2, <3>2, IdsDisjoint
    <3>. QED
      BY <3>1, <3>2
  <2>. QED
    BY <1>0, <1>1, <2>1, IdsDisjoint
<1>4. \A f \in Folders : ~OnCycle(work, f)
  BY IdsDisjoint DEF Sound
<1>5. \A z \in Folders \ {c.id} : t[z].up = work[z].up
  BY <1>0, IdsDisjoint
<1>6. ASSUME NEW A \in SUBSET Folders, Closed(work, A), c.id \notin A,
             t[c.id].up \in Folders => t[c.id].up \in A
      PROVE  \A f \in Folders : ~OnCycle(t, f)
  <2>1. c.id \in Folders
    BY <1>0
  <2>. QED
    BY ONLY <1>4, <1>5, <1>6, <2>1, MoveKeepsForest
<1>7. \A f \in Folders : ~OnCycle(t, f)
  <2>1. CASE t[c.id].up = work[c.id].up
    <3>1. \A z \in Folders : t[z].up = work[z].up
      BY <1>5, <2>1
    <3>. QED
      BY <1>4, <3>1, SameParents
  <2>2. CASE t[c.id].up # work[c.id].up /\ c.up = Root
    <3>1. Closed(work, {}) /\ t[c.id].up \notin Folders
      BY <1>1, <2>2, IdsDisjoint DEF Closed
    <3>. QED
      BY <1>6, <3>1
  <2>3. CASE t[c.id].up # work[c.id].up /\ c.up # Root /\ work[c.id].st # "absent"
    <3>1. ~Reaches(work, c.up, c.id) /\ t[c.id].up = c.up
      BY <1>1, <2>3 DEF ClosesCycle
    <3>2. PICK A \in SUBSET Folders : c.up \in A /\ Closed(work, A) /\ c.id \notin A
      BY <3>1, ReachesClosed
    <3>. QED
      BY <1>6, <3>1, <3>2
  <2>4. CASE c.up # Root /\ work[c.id].st = "absent"
    <3>1. t[c.id].up = c.up /\ c.up \in Folders \ {c.id}
      BY <1>1, <1>2, <2>4
    <3>2. Closed(work, Folders \ {c.id})
      BY <2>4, IdsDisjoint DEF Closed, Sound, Dangling
    <3>. QED
      BY <1>6, <3>1, <3>2
  <2>. QED
    BY <2>1, <2>2, <2>3, <2>4
<1>. QED
  BY <1>3, <1>7 DEF Sound

LEMMA AppliedSound ==
  ASSUME TypeInv, Sound(work), NEW c \in FolderChange, ~NoParent(c), ~ClosesCycle(c)
  PROVE  Sound(AppliedFolder(c))
<1>1. PICK t : t = [work EXCEPT ![c.id] = Upserted(c)]
  OBVIOUS
<1>2. Sound(t) /\ t \in Tables
  BY <1>1, UpsertSound, AppliedShape
<1>3. Sound(Cascade(t, c.id))
  BY <1>1, <1>2, AppliedShape, CascadeShape, SoundUnder
<1>. QED
  BY <1>1, <1>2, <1>3, AppliedShape

(* A note moves no folder.                                                  *)
LEMMA NoteShape ==
  ASSUME TypeInv, NEW c \in NoteChange,
         NEW t, t = [work EXCEPT ![c.id] = Upserted(c)]
  PROVE  /\ t \in Tables /\ c.id \in Notes /\ c \in Change /\ c.id \in Ids
         /\ t[c.id] = Upserted(c)
         /\ \A x \in Ids \ {c.id} : t[x] = work[x]
<1>1. c.id \in Notes /\ c \in Change /\ c.id \in Ids
  BY IdsDisjoint DEF NoteChange
<1>2. work \in Tables /\ Upserted(c) \in Row
  BY <1>1, UpsertedRow DEF TypeInv
<1>. QED
  BY <1>1, <1>2 DEF Tables

LEMMA NoteSound ==
  ASSUME TypeInv, Sound(work), NEW c \in NoteChange, ~NoParent(c),
         NEW t, t = [work EXCEPT ![c.id] = Upserted(c)]
  PROVE  Sound(t)
<1>0. /\ t \in Tables /\ c.id \in Notes /\ c \in Change /\ c.id \in Ids
      /\ t[c.id] = Upserted(c) /\ \A x \in Ids \ {c.id} : t[x] = work[x]
  BY NoteShape
<1>1. \A z \in Folders : t[z] = work[z]
  BY <1>0, IdsDisjoint
<1>2. \A f \in Folders : ~OnCycle(t, f)
  BY <1>1, SameParents, IdsDisjoint DEF Sound
<1>3. t[c.id].up = c.up \/ t[c.id].up = work[c.id].up
  BY <1>0, UpsertedRow
<1>4. c.up = Root \/ (c.up \in Folders /\ work[c.up].st # "absent")
  BY <1>0 DEF NoParent, Change, Parents
<1>5. \A x \in Ids : ~Dangling(t, x)
  BY <1>0, <1>1, <1>3, <1>4, IdsDisjoint DEF Sound, Dangling
<1>. QED
  BY <1>2, <1>5 DEF Sound

-----------------------------------------------------------------------------
(* Types.                                                                   *)
LEMMA NoBatchType ==
  /\ NoBatch \in [folders : Seq(FolderChange), notes : Seq(NoteChange)]
  /\ Entries(<<>>) = {} /\ PushedIds(NoBatch) = {}
<1>1. Len(<<>>) = 0 /\ <<>> \in Seq(FolderChange) /\ <<>> \in Seq(NoteChange)
  OBVIOUS
<1>2. \A i : i \notin 1..0
  OBVIOUS
<1>. QED
  BY <1>1, <1>2 DEF NoBatch, Entries, PushedIds

LEMMA TypeInit == Init => TypeInv
<1>. SUFFICES ASSUME Init PROVE TypeInv
  OBVIOUS
<1>1. Gone \in Row
  BY DEF Gone, Row, Parents
<1>2. tab \in Tables /\ work \in Tables
  BY <1>1 DEF Init, Tables
<1>3. <<>> \in Seq(FolderChange) /\ <<>> \in Seq(NoteChange)
  OBVIOUS
<1>. QED
  BY <1>2, <1>3, NoBatchType DEF Init, TypeInv

LEMMA RepairType ==
  ASSUME TypeInv, NEW D \in SUBSET Folders, NEW f \in Folders, NEW reading \in Readings,
         Repair(D, tab[f].at, reading)
  PROVE  tab' \in Tables /\ last' \in Nat
<1>1. tab[f].at \in Nat /\ reading \in Nat /\ tab \in Tables /\ last \in Nat
  BY IdsDisjoint, TreeAssumption DEF TypeInv, Tables, Row, TreeAssumption
<1>. DEFINE stamp == IF tab[f].at >= reading THEN tab[f].at + 1 ELSE reading
<1>2. stamp \in Nat
  BY <1>1
<1>3. /\ tab' = [x \in Ids |-> IF x \in D THEN [tab[x] EXCEPT !.up = Root, !.at = stamp]
                                ELSE tab[x]]
      /\ last' = (IF stamp > last THEN stamp ELSE last)
  BY DEF Repair
<1>. HIDE DEF stamp
<1>4. ASSUME NEW r \in Row PROVE [r EXCEPT !.up = Root, !.at = stamp] \in Row
  BY <1>2 DEF Row, Parents
<1>. QED
  BY <1>1, <1>2, <1>3, <1>4 DEF Tables

LEMMA TypeStep == TypeInv /\ [Next]_vars => TypeInv'
<1>. SUFFICES ASSUME TypeInv, [Next]_vars PROVE TypeInv'
  OBVIOUS
<1>0. <<>> \in Seq(FolderChange) /\ <<>> \in Seq(NoteChange)
  OBVIOUS
<1>1. ASSUME NEW b \in Batches, Begin(b) PROVE TypeInv'
  <2>1. /\ b.folders \in Seq(FolderChange) /\ b.notes \in Seq(NoteChange)
        /\ b \in [folders : Seq(Change), notes : Seq(Change)]
    BY BatchType, TreeAssumption DEF TreeAssumption
  <2>2. b \in [folders : Seq(FolderChange), notes : Seq(NoteChange)]
    BY <2>1
  <2>3. rows' \in Nat
    BY <1>1, <2>1 DEF Begin, TypeInv
  <2>. QED
    BY <1>1, <2>1, <2>2, <2>3 DEF Begin, TypeInv
<1>2. CASE ApplyFolder
  <2>1. Head(todo) \in FolderChange /\ Tail(todo) \in Seq(FolderChange)
    BY <1>2, TailEntries DEF ApplyFolder, TypeInv
  <2>2. AppliedFolder(Head(todo)) \in Tables
    BY <2>1, AppliedType
  <2>3. Append(later, Head(todo)) \in Seq(FolderChange)
    BY <2>1, AppendEntries DEF TypeInv
  <2>. QED
    BY <1>2, <2>1, <2>2, <2>3 DEF ApplyFolder, TypeInv
<1>3. CASE FirstPassEnds
  <2>1. todo' \in Seq(FolderChange)
    BY <1>3, OrdersType DEF FirstPassEnds, TypeInv
  <2>. QED
    BY <1>0, <1>3, <2>1 DEF FirstPassEnds, TypeInv
<1>4. CASE ApplyDeferred
  <2>1. Head(todo) \in FolderChange /\ Tail(todo) \in Seq(FolderChange)
    BY <1>4, TailEntries DEF ApplyDeferred, TypeInv
  <2>2. AppliedFolder(Head(todo)) \in Tables
    BY <2>1, AppliedType
  <2>. QED
    BY <1>4, <2>1, <2>2 DEF ApplyDeferred, TypeInv
<1>5. CASE FoldersEnd
  BY <1>5 DEF FoldersEnd, TypeInv
<1>6. CASE ApplyNote
  <2>1. Head(notes) \in NoteChange /\ Tail(notes) \in Seq(NoteChange)
    BY <1>6, TailEntries DEF ApplyNote, TypeInv
  <2>2. [work EXCEPT ![Head(notes).id] = Upserted(Head(notes))] \in Tables
    BY <2>1, NoteShape
  <2>. QED
    BY <1>6, <2>1, <2>2 DEF ApplyNote, TypeInv
<1>7. CASE Commit
  <2>1. Now \in Nat
    BY DEF Now, TypeInv
  <2>. QED
    BY <1>0, <1>7, <2>1, NoBatchType DEF Commit, Close, TypeInv
<1>8. CASE Rollback
  BY <1>0, <1>8, NoBatchType DEF Rollback, Close, TypeInv
<1>9. CASE OtherSync
  BY <1>9 DEF OtherSync, txVars, Now, TypeInv
<1>10. ASSUME NEW S, Purge(S) PROVE TypeInv'
  <2>1. Gone \in Row
    BY DEF Gone, Row, Parents
  <2>2. tab' \in Tables
    BY <1>10, <2>1 DEF Purge, Tables, TypeInv
  <2>. QED
    BY <1>10, <2>2, NoBatchType DEF Purge, TypeInv
<1>11. ASSUME NEW D \in SUBSET Folders, NEW f \in Folders, NEW reading \in Readings,
              Repair(D, tab[f].at, reading)
       PROVE  TypeInv'
  <2>1. tab' \in Tables /\ last' \in Nat
    BY <1>11, RepairType
  <2>. QED
    BY <1>11, <2>1, NoBatchType DEF Repair, TypeInv
<1>12. CASE UNCHANGED vars
  BY <1>12 DEF vars, txVars, TypeInv
<1>. QED
  BY <1>1, <1>2, <1>3, <1>4, <1>5, <1>6, <1>7, <1>8, <1>9, <1>10, <1>11, <1>12 DEF Next

(* Type correctness, for any batches that list folders and notes.           *)
THEOREM TypeCorrect == Spec => []TypeOK
<1>1. TypeInv => TypeOK
  <2>1. Seq(FolderChange) \subseteq Seq(Change) /\ Seq(NoteChange) \subseteq Seq(Change)
    BY DEF FolderChange, NoteChange
  <2>. QED
    BY <2>1 DEF TypeInv, TypeOK, Tables
<1>. QED
  BY <1>1, TypeInit, TypeStep, PTL DEF Spec

-----------------------------------------------------------------------------
(* The invariant of the transaction.  What is left to apply is of the batch *)
(* and for a folder of its own;                                             *)
BatchInv ==
  /\ \A c \in Left : c.id \in PushedIds(batch)
  /\ \A c \in Entries(notes) : c.id \in PushedIds(batch)
  /\ Distinct(todo) /\ Distinct(later)
  /\ \A c \in Entries(todo), d \in Entries(later) : c.id # d.id

RestInv ==
  phase = "idle" => work = tab /\ batch = NoBatch /\ todo = <<>> /\ later = <<>> /\ notes = <<>>
LaterInv == phase # "first" => later = <<>>
LastInv == phase = "notes" => todo = <<>>

(* a sound table is still sound;                                            *)
ForestInv == Sound(tab) => Sound(work)

(* below a folder of the batch that is applied and deleted nothing is left  *)
(* active, but below the rows that the batch pushes too;                    *)
CascadeDone ==
  \A x \in Ids \ PushedIds(batch), f \in Folders \intersect PushedIds(batch) :
    /\ ~rejected /\ ~Waits(f) /\ work[f].st = "deleted" /\ work[x].up \in Folders
    /\ ReachesBelow(work, work[x].up, f, PushedIds(batch))
    => work[x].st # "active"

(* rows are where they were, but for the folders that have been applied;    *)
Unmoved ==
  \A z \in Ids : z \notin PushedIds(batch) \/ Waits(z) => work[z].up = tab[z].up

(* and a row that is deleted with them was, or has come to be, below one    *)
(* that is deleted.                                                         *)
Between(x, f) ==
  \A S \in SUBSET Folders :
    tab[x].up \in S /\ (\A z \in S : {tab[z].up, work[z].up} \ {Root} \subseteq S) => f \in S

CascadeReason ==
  \A x \in Ids \ PushedIds(batch) :
    tab[x].st = "active" /\ work[x].st = "deleted"
      => /\ tab[x].up \in Folders
         /\ \E f \in Folders \intersect PushedIds(batch) :
              ~Waits(f) /\ work[f].st = "deleted" /\ Between(x, f)

TreeInv ==
  /\ TypeInv /\ BatchInv /\ RestInv /\ LaterInv /\ LastInv
  /\ ForestInv /\ CascadeDone /\ Unmoved /\ CascadeReason

-----------------------------------------------------------------------------
(* Paths.                                                                   *)
LEMMA ReachesBelowReaches ==
  ASSUME NEW t, NEW x, NEW y, NEW P, ReachesBelow(t, x, y, P) PROVE Reaches(t, x, y)
<1>. SUFFICES ASSUME NEW S \in SUBSET Folders, x \in S, Closed(t, S) PROVE y \in S
  BY ReachesClosed
<1>1. \A z \in S \ P : t[z].up \in Folders => t[z].up \in S
  BY DEF Closed
<1>. QED
  BY <1>1 DEF ReachesBelow

LEMMA ReachesThrough ==
  ASSUME NEW t, NEW x, NEW f \in Folders, NEW g,
         Reaches(t, x, f), t[f].up \in Folders, Reaches(t, t[f].up, g)
  PROVE  Reaches(t, x, g)
<1>. SUFFICES ASSUME NEW S \in SUBSET Folders, x \in S, Closed(t, S) PROVE g \in S
  BY ReachesClosed
<1>1. f \in S
  BY ReachesClosed
<1>2. t[f].up \in S
  BY <1>1 DEF Closed
<1>. QED
  BY <1>2, ReachesClosed

(* Paths through rows outside P, where the rows of P alone have moved.      *)
LEMMA SameBelow ==
  ASSUME NEW t, NEW u, NEW P, \A z \in Folders \ P : u[z].up = t[z].up
  PROVE  \A x, y : ReachesBelow(u, x, y, P) <=> ReachesBelow(t, x, y, P)
  BY DEF ReachesBelow

LEMMA PushedFolders ==
  ASSUME NEW b \in [folders : Seq(FolderChange), notes : Seq(NoteChange)], NEW f \in Folders
  PROVE  f \in PushedIds(b) => \E c \in Entries(b.folders) : c.id = f
<1>. SUFFICES ASSUME f \in PushedIds(b) PROVE \E i \in 1..Len(b.folders) : b.folders[i].id = f
  BY DEF Entries
<1>1. ASSUME NEW i \in 1..Len(b.notes), b.notes[i].id = f PROVE FALSE
  <2>1. b.notes[i] \in NoteChange
    BY DEF NoteChange
  <2>. QED
    BY <1>1, <2>1, IdsDisjoint DEF NoteChange
<1>. QED
  BY <1>1 DEF PushedIds

LEMMA HeadDistinct ==
  ASSUME NEW S, NEW s \in Seq(S), s # <<>>, Distinct(s)
  PROVE  Distinct(Tail(s)) /\ \A c \in Entries(Tail(s)) : c.id # Head(s).id
<1>1. /\ Len(s) \in Nat \ {0} /\ Head(s) = s[1]
      /\ Len(Tail(s)) = Len(s) - 1 /\ \A i \in 1..(Len(s) - 1) : Tail(s)[i] = s[i + 1]
  OBVIOUS
<1>2. \A i, j \in 1..Len(Tail(s)) : Tail(s)[i].id = Tail(s)[j].id => i = j
  <2>. SUFFICES ASSUME NEW i \in 1..Len(Tail(s)), NEW j \in 1..Len(Tail(s)),
                       Tail(s)[i].id = Tail(s)[j].id
                PROVE  i = j
    OBVIOUS
  <2>1. i + 1 \in 1..Len(s) /\ j + 1 \in 1..Len(s) /\ s[i + 1].id = s[j + 1].id
    BY <1>1
  <2>2. i + 1 = j + 1
    BY <2>1 DEF Distinct
  <2>. QED
    BY <1>1, <2>2
<1>3. ASSUME NEW i \in 1..Len(Tail(s)), Tail(s)[i].id = Head(s).id PROVE FALSE
  <2>1. i + 1 \in 1..Len(s) /\ 1 \in 1..Len(s) /\ s[i + 1].id = s[1].id
    BY <1>1, <1>3
  <2>2. i + 1 = 1
    BY <2>1 DEF Distinct
  <2>. QED
    BY <1>1, <2>2
<1>. QED
  BY <1>2, <1>3 DEF Distinct, Entries

LEMMA AppendDistinct ==
  ASSUME NEW S, NEW s \in Seq(S), NEW c \in S, Distinct(s),
         \A d \in Entries(s) : d.id # c.id
  PROVE  Distinct(Append(s, c))
<1>1. Len(Append(s, c)) = Len(s) + 1 /\ Append(s, c)[Len(s) + 1] = c /\ Len(s) \in Nat
  OBVIOUS
<1>2. \A i \in 1..Len(s) : Append(s, c)[i] = s[i] /\ s[i].id # c.id
  BY DEF Entries
<1>3. \A i \in 1..(Len(s) + 1) : i \in 1..Len(s) \/ i = Len(s) + 1
  BY <1>1
<1>. QED
  BY <1>1, <1>2, <1>3 DEF Distinct

(* The order of the folders put off repeats none: ranks increase.           *)
LEMMA OrdersDistinct ==
  ASSUME NEW S, NEW s \in Seq(S), NEW q \in Orders(s), Distinct(s)
  PROVE  Distinct(q)
<1>1. PICK n \in 0..Len(s) : q \in [1..n -> Entries(s)]
  BY DEF Orders
<1>2. Len(s) \in Nat /\ n \in Nat /\ Len(q) = n
  BY <1>1
<1>3. ASSUME NEW c \in Entries(s) PROVE Rank(c, q, s) \in Nat
  <2>1. PICK i \in 1..Len(s) : s[i] = c
    BY DEF Entries
  <2>2. (CHOOSE k \in 1..Len(s) : s[k] = c) \in Nat
    BY <1>2, <2>1
  <2>3. CASE Behind(c, q)
    <3>1. \E j \in 1..Len(q) : q[j].id = c.up
      BY <2>3 DEF Behind, Entries
    <3>2. (CHOOSE j \in 1..Len(q) : q[j].id = c.up) \in Nat
      BY <1>2, <3>1
    <3>. QED
      BY <1>2, <2>2, <2>3, <3>2 DEF Rank
  <2>4. CASE ~Behind(c, q)
    BY <1>2, <2>2, <2>4 DEF Rank
  <2>. QED
    BY <2>3, <2>4
<1>4. ASSUME NEW j \in 1..Len(q), NEW k \in 1..Len(q), q[j].id = q[k].id, j < k PROVE FALSE
  <2>1. q[j] \in Entries(s) /\ q[k] \in Entries(s)
    BY <1>1, <1>2
  <2>2. q[j] = q[k]
    BY <1>4, <2>1 DEF Entries, Distinct
  <2>3. Rank(q[j], q, s) < Rank(q[k], q, s)
    BY <1>4 DEF Orders
  <2>. QED
    BY <1>3, <2>1, <2>2, <2>3
<1>. QED
  BY <1>2, <1>4 DEF Distinct

-----------------------------------------------------------------------------
(* One folder is applied.                                                   *)
Take ==
  /\ phase \in {"first", "deferred"} /\ todo # <<>> /\ todo' = Tail(todo)
  /\ UNCHANGED <<tab, phase, batch, notes>>

LEMMA TakeWaits ==
  ASSUME TypeInv, BatchInv, Take, UNCHANGED later, NEW c, c = Head(todo), NEW g, g = c.id
  PROVE  /\ c \in FolderChange /\ c \in Left
         /\ Waits(g) /\ ~Waits(g)'
         /\ g \in PushedIds(batch)
         /\ \A f : f # g => (Waits(f)' <=> Waits(f))
         /\ BatchInv'
<1>1. /\ c \in FolderChange /\ c \in Entries(todo)
      /\ Entries(todo) = {c} \union Entries(Tail(todo))
  BY TailEntries DEF TypeInv, Take
<1>2. Distinct(Tail(todo)) /\ \A d \in Entries(Tail(todo)) : d.id # g
  BY HeadDistinct DEF TypeInv, Take, BatchInv
<1>3. Left' = Entries(Tail(todo)) \union Entries(later)
  BY DEF Left, Take
<1>4. \A d \in Left' : d.id # g
  BY <1>1, <1>2, <1>3 DEF BatchInv
<1>5. Left = {c} \union Left'
  BY <1>1, <1>3 DEF Left
<1>6. BatchInv'
  BY <1>1, <1>2, <1>5 DEF BatchInv, Take, Left
<1>7. g \in PushedIds(batch)
  BY <1>5 DEF BatchInv
<1>8. ~Waits(g)' /\ \A f : f # g => (Waits(f)' <=> Waits(f))
  BY <1>4, <1>5 DEF Waits
<1>. QED
  BY <1>1, <1>5, <1>6, <1>7, <1>8 DEF Waits

LEMMA FolderApplied ==
  ASSUME TreeInv, TypeInv', Take, UNCHANGED <<later, rejected>>,
         ~NoParent(Head(todo)), ~ClosesCycle(Head(todo)),
         work' = AppliedFolder(Head(todo))
  PROVE  TreeInv'
<1>. USE DEF TreeInv
<1>1. PICK c, g : c = Head(todo) /\ g = c.id
  OBVIOUS
<1>2. /\ c \in FolderChange /\ Waits(g) /\ ~Waits(g)' /\ g \in PushedIds(batch)
      /\ \A f : f # g => (Waits(f)' <=> Waits(f))
      /\ BatchInv'
  BY <1>1, TakeWaits
<1>3. PICK t : t = [work EXCEPT ![c.id] = Upserted(c)]
  OBVIOUS
<1>4. /\ t \in Tables /\ g \in Folders /\ g \in Ids
      /\ work' = IF t[g].st = "deleted" THEN Cascade(t, g) ELSE t
      /\ \A x \in Ids \ {g} : t[x] = work[x]
  <2>1. /\ t \in Tables /\ c.id \in Folders /\ c.id \in Ids
        /\ AppliedFolder(c) = IF t[c.id].st = "deleted" THEN Cascade(t, c.id) ELSE t
        /\ \A x \in Ids \ {c.id} : t[x] = work[x]
    BY <1>2, <1>3, AppliedShape
  <2>2. work' = AppliedFolder(c)
    BY <1>1
  <2>. QED
    BY <1>1, <2>1, <2>2
<1>5. /\ \A x \in Ids :
           /\ work'[x].up = t[x].up
           /\ work'[x].st = "active" => t[x].st = "active"
           /\ t[x].st = "deleted" => work'[x].st = "deleted"
           /\ x # g /\ t[g].st = "deleted" /\ t[x].up \in Folders /\ Reaches(t, t[x].up, g)
                => work'[x].st # "active"
           /\ work'[x].st # t[x].st
                => t[g].st = "deleted" /\ t[x].up \in Folders /\ Reaches(t, t[x].up, g)
  <2>1. CASE t[g].st = "deleted"
    BY <1>4, <2>1, CascadeShape
  <2>2. CASE t[g].st # "deleted"
    BY <1>4, <2>2
  <2>. QED
    BY <2>1, <2>2
<1>6. work'[g].st = "deleted" => t[g].st = "deleted"
  BY <1>4
<1>7. batch' = batch /\ tab' = tab /\ rejected' = rejected
  BY DEF Take
<1>8. \A x \in Ids \ {g} : work'[x].up = work[x].up
  BY <1>4, <1>5
<1>9. \A x, y : ReachesBelow(work', x, y, PushedIds(batch)) <=> ReachesBelow(work, x, y, PushedIds(batch))
  BY <1>2, <1>8, IdsDisjoint, SameBelow
<1>10. \A x, y : ReachesBelow(work, x, y, PushedIds(batch)) => Reaches(t, x, y)
  <2>1. \A z \in Folders \ PushedIds(batch) : t[z].up = work[z].up
    BY <1>2, <1>4, IdsDisjoint
  <2>2. \A x, y : ReachesBelow(t, x, y, PushedIds(batch)) <=> ReachesBelow(work, x, y, PushedIds(batch))
    BY <2>1, SameBelow
  <2>. QED
    BY <2>2, ReachesBelowReaches
<1>11. RestInv' /\ LaterInv' /\ LastInv'
  BY DEF Take, RestInv, LaterInv, LastInv
<1>12. ForestInv'
  BY <1>1, <1>2, <1>7, AppliedSound DEF ForestInv
<1>13. CascadeDone'
  <2>. SUFFICES ASSUME NEW x \in Ids \ PushedIds(batch), NEW f \in Folders \intersect PushedIds(batch),
                       ~rejected, ~Waits(f)', work'[f].st = "deleted", work'[x].up \in Folders,
                       ReachesBelow(work', work'[x].up, f, PushedIds(batch))
                PROVE  work'[x].st # "active"
    BY <1>7 DEF CascadeDone
  <2>1. /\ x # g /\ t[x] = work[x] /\ work'[x].up = work[x].up
        /\ ReachesBelow(work, work[x].up, f, PushedIds(batch))
        /\ Reaches(t, t[x].up, f) /\ t[x].up \in Folders
    BY <1>2, <1>4, <1>8, <1>9, <1>10
  <2>2. CASE f = g
    BY <1>5, <1>6, <2>1, <2>2
  <2>3. CASE f # g /\ work[f].st = "deleted"
    <3>1. work[x].st # "active"
      BY <1>2, <2>1, <2>3 DEF CascadeDone
    <3>. QED
      BY <1>5, <2>1, <3>1
  <2>4. CASE f # g /\ work[f].st # "deleted"
    <3>1. f \in Ids /\ t[f] = work[f]
      BY <1>4, <2>4, IdsDisjoint
    <3>2. t[g].st = "deleted" /\ t[f].up \in Folders /\ Reaches(t, t[f].up, g)
      BY <1>5, <2>4, <3>1
    <3>3. Reaches(t, t[x].up, g)
      BY <2>1, <3>2, ReachesThrough
    <3>. QED
      BY <1>5, <2>1, <3>2, <3>3
  <2>. QED
    BY <2>2, <2>3, <2>4
<1>14. Unmoved'
  BY <1>2, <1>7, <1>8 DEF Unmoved
<1>15. CascadeReason'
  <2>. SUFFICES ASSUME NEW x \in Ids \ PushedIds(batch), tab[x].st = "active", work'[x].st = "deleted"
                PROVE  /\ tab[x].up \in Folders
                       /\ \E f \in Folders \intersect PushedIds(batch) :
                            ~Waits(f)' /\ work'[f].st = "deleted" /\ Between(x, f)'
    BY <1>7 DEF CascadeReason
  <2>0. x # g /\ t[x] = work[x] /\ tab[x].up = t[x].up
    BY <1>2, <1>4 DEF Unmoved
  <2>1. CASE work[x].st = "deleted"
    <3>1. PICK f \in Folders \intersect PushedIds(batch) :
            ~Waits(f) /\ work[f].st = "deleted" /\ Between(x, f)
      BY <2>1 DEF CascadeReason
    <3>2. tab[x].up \in Folders
      BY <2>1 DEF CascadeReason
    <3>3. f # g /\ ~Waits(f)' /\ work'[f].st = "deleted"
      BY <1>2, <1>4, <1>5, <3>1, IdsDisjoint
    <3>4. Between(x, f)'
      <4>. SUFFICES ASSUME NEW S \in SUBSET Folders, tab[x].up \in S,
                           \A z \in S : {tab[z].up, work'[z].up} \ {Root} \subseteq S
                    PROVE  f \in S
        BY <1>7 DEF Between
      <4>1. work[g].up = tab[g].up
        BY <1>2, <1>4 DEF Unmoved
      <4>2. \A z \in S : {tab[z].up, work[z].up} \ {Root} \subseteq S
        BY <1>8, <4>1, IdsDisjoint
      <4>. QED
        BY <3>1, <4>2 DEF Between
    <3>. QED
      BY <3>1, <3>2, <3>3, <3>4
  <2>2. CASE work[x].st # "deleted"
    <3>1. t[g].st = "deleted" /\ t[x].up \in Folders /\ Reaches(t, t[x].up, g)
      BY <1>5, <2>0, <2>2
    <3>2. work'[g].st = "deleted"
      BY <1>4, <1>5, <3>1
    <3>3. Between(x, g)'
      <4>. SUFFICES ASSUME NEW S \in SUBSET Folders, tab[x].up \in S,
                           \A z \in S : {tab[z].up, work'[z].up} \ {Root} \subseteq S
                    PROVE  g \in S
        BY <1>7 DEF Between
      <4>1. Closed(t, S)
        <5>. SUFFICES ASSUME NEW z \in S, t[z].up \in Folders PROVE t[z].up \in S
          BY DEF Closed
        <5>1. work'[z].up = t[z].up /\ t[z].up # Root
          BY <1>5, IdsDisjoint
        <5>. QED
          BY <5>1
      <4>. QED
        BY <2>0, <3>1, <4>1, ReachesClosed
    <3>. QED
      BY <1>2, <1>4, <2>0, <3>1, <3>2, <3>3
  <2>. QED
    BY <2>1, <2>2
<1>. QED
  BY <1>2, <1>11, <1>12, <1>13, <1>14, <1>15

-----------------------------------------------------------------------------
(* Steps that change no row.                                                *)
LEMMA SameRows ==
  ASSUME TreeInv, UNCHANGED <<tab, work, batch>>,
         \A f : Waits(f)' => Waits(f),
         rejected' \/ (~rejected /\ \A f : Waits(f) => Waits(f)')
  PROVE  ForestInv' /\ CascadeDone' /\ Unmoved' /\ CascadeReason'
<1>. USE DEF TreeInv
<1>1. ForestInv'
  BY DEF ForestInv
<1>2. CascadeDone'
  BY DEF CascadeDone
<1>3. Unmoved'
  BY DEF Unmoved
<1>4. \A x, f : Between(x, f)' <=> Between(x, f)
  BY DEF Between
<1>5. CascadeReason'
  <2>. SUFFICES ASSUME NEW x \in Ids \ PushedIds(batch), tab[x].st = "active", work[x].st = "deleted"
                PROVE  /\ tab[x].up \in Folders
                       /\ \E f \in Folders \intersect PushedIds(batch) :
                            ~Waits(f)' /\ work[f].st = "deleted" /\ Between(x, f)'
    BY DEF CascadeReason
  <2>1. /\ tab[x].up \in Folders
        /\ \E f \in Folders \intersect PushedIds(batch) :
             ~Waits(f) /\ work[f].st = "deleted" /\ Between(x, f)
    BY DEF CascadeReason
  <2>. QED
    BY <1>4, <2>1
<1>. QED
  BY <1>1, <1>2, <1>3, <1>5

LEMMA FolderRefused ==
  ASSUME TreeInv, TypeInv', Take, UNCHANGED <<later, work>>, rejected'
  PROVE  TreeInv'
<1>. USE DEF TreeInv
<1>1. PICK c, g : c = Head(todo) /\ g = c.id
  OBVIOUS
<1>2. BatchInv' /\ Waits(g) /\ \A f : f # g => (Waits(f)' <=> Waits(f))
  BY <1>1, TakeWaits
<1>3. \A f : Waits(f)' => Waits(f)
  BY <1>2
<1>4. ForestInv' /\ CascadeDone' /\ Unmoved' /\ CascadeReason'
  BY <1>3, SameRows DEF Take
<1>5. RestInv' /\ LaterInv' /\ LastInv'
  BY DEF Take, RestInv, LaterInv, LastInv
<1>. QED
  BY <1>2, <1>4, <1>5

LEMMA FolderPutOff ==
  ASSUME TreeInv, TypeInv', Take, phase = "first", UNCHANGED <<work, rejected>>,
         later' = Append(later, Head(todo))
  PROVE  TreeInv'
<1>. USE DEF TreeInv
<1>1. PICK c : c = Head(todo)
  OBVIOUS
<1>2. /\ c \in FolderChange /\ c \in Entries(todo)
      /\ Entries(todo) = {c} \union Entries(Tail(todo))
  BY <1>1, TailEntries DEF TypeInv, Take
<1>3. Entries(later') = Entries(later) \union {c}
  <2>1. later \in Seq(FolderChange)
    BY DEF TypeInv
  <2>2. Entries(Append(later, c)) = Entries(later) \union {c}
    BY <1>2, <2>1, AppendEntries
  <2>. QED
    BY <1>1, <2>2
<1>4. Left' = Left
  BY <1>2, <1>3 DEF Left, Take
<1>5. \A f : Waits(f)' <=> Waits(f)
  BY <1>4 DEF Waits
<1>6. ForestInv' /\ CascadeDone' /\ Unmoved' /\ CascadeReason'
  BY <1>5, SameRows DEF Take, TypeInv
<1>7. Distinct(Tail(todo)) /\ \A d \in Entries(Tail(todo)) : d.id # c.id
  BY <1>1, HeadDistinct DEF TypeInv, Take, BatchInv
<1>8. Distinct(later')
  BY <1>1, <1>2, AppendDistinct DEF TypeInv, BatchInv
<1>9. BatchInv'
  BY <1>2, <1>3, <1>4, <1>7, <1>8 DEF BatchInv, Take
<1>10. RestInv' /\ LaterInv' /\ LastInv'
  BY DEF Take, RestInv, LaterInv, LastInv
<1>. QED
  BY <1>6, <1>9, <1>10

(* At rest there is nothing to say: the transaction sees what is committed. *)
AtRest ==
  /\ phase = "idle" /\ work = tab /\ batch = NoBatch
  /\ todo = <<>> /\ later = <<>> /\ notes = <<>>

LEMMA RestIsSafe ==
  ASSUME TypeInv, AtRest PROVE TreeInv
<1>1. Left = {} /\ Entries(notes) = {}
  BY NoBatchType DEF Left, AtRest
<1>2. BatchInv
  <2>1. Len(<<>>) = 0 /\ \A i : i \notin 1..0
    OBVIOUS
  <2>2. Distinct(<<>>)
    BY <2>1 DEF Distinct
  <2>. QED
    BY <1>1, <2>2, NoBatchType DEF BatchInv, AtRest
<1>3. RestInv /\ LaterInv /\ LastInv /\ ForestInv /\ Unmoved
  BY DEF AtRest, RestInv, LaterInv, LastInv, ForestInv, Unmoved
<1>4. CascadeDone /\ CascadeReason
  BY NoBatchType DEF AtRest, CascadeDone, CascadeReason
<1>. QED
  BY <1>2, <1>3, <1>4 DEF TreeInv

-----------------------------------------------------------------------------
(* The stages of a batch.                                                   *)
LEMMA BeginStep ==
  ASSUME TreeInv, TypeInv', NEW b \in Batches, Begin(b) PROVE TreeInv'
<1>. USE DEF TreeInv
<1>1. /\ b \in [folders : Seq(FolderChange), notes : Seq(NoteChange)]
      /\ Distinct(b.folders)
  BY TreeAssumption DEF TreeAssumption, Begin, TypeInv
<1>2. /\ work' = tab /\ tab' = tab /\ batch' = b /\ notes' = b.notes
      /\ todo' = b.folders /\ later' = <<>> /\ phase' = "first"
  BY DEF Begin, RestInv
<1>3. Left' = Entries(b.folders) /\ Entries(later') = {}
  BY <1>2, NoBatchType DEF Left
<1>4. BatchInv'
  <2>1. Len(<<>>) = 0 /\ \A i : i \notin 1..0
    OBVIOUS
  <2>2. Distinct(<<>>)
    BY <2>1 DEF Distinct
  <2>3. \A c \in Entries(b.folders) \union Entries(b.notes) : c.id \in PushedIds(b)
    BY DEF Entries, PushedIds
  <2>. QED
    BY <1>1, <1>2, <1>3, <2>2, <2>3 DEF BatchInv
<1>5. ASSUME NEW f \in Folders \intersect PushedIds(b) PROVE Waits(f)'
  BY <1>1, <1>3, PushedFolders DEF Waits
<1>6. RestInv' /\ LaterInv' /\ LastInv' /\ ForestInv' /\ Unmoved'
  BY <1>2 DEF RestInv, LaterInv, LastInv, ForestInv, Unmoved
<1>7. CascadeDone'
  BY <1>2, <1>5 DEF CascadeDone
<1>8. CascadeReason'
  BY <1>2 DEF CascadeReason
<1>. QED
  BY <1>4, <1>6, <1>7, <1>8

LEMMA FirstPassStep ==
  ASSUME TreeInv, TypeInv', FirstPassEnds PROVE TreeInv'
<1>. USE DEF TreeInv
<1>1. /\ Entries(todo') \subseteq Entries(later) /\ Distinct(todo')
  BY OrdersType, OrdersDistinct DEF FirstPassEnds, TypeInv, BatchInv
<1>2. Left = Entries(later) /\ Left' = Entries(todo') /\ Entries(later') = {}
  BY NoBatchType DEF Left, FirstPassEnds
<1>3. \A f : Waits(f)' => Waits(f)
  BY <1>1, <1>2 DEF Waits
<1>4. rejected' \/ (~rejected /\ \A f : Waits(f) => Waits(f)')
  BY <1>1, <1>2 DEF Waits, FirstPassEnds, TypeInv
<1>5. ForestInv' /\ CascadeDone' /\ Unmoved' /\ CascadeReason'
  BY <1>3, <1>4, SameRows DEF FirstPassEnds
<1>6. BatchInv'
  <2>1. Len(<<>>) = 0 /\ \A i : i \notin 1..0
    OBVIOUS
  <2>2. Distinct(<<>>)
    BY <2>1 DEF Distinct
  <2>. QED
    BY <1>1, <1>2, <2>2 DEF BatchInv, FirstPassEnds
<1>7. RestInv' /\ LaterInv' /\ LastInv'
  BY DEF FirstPassEnds, RestInv, LaterInv, LastInv
<1>. QED
  BY <1>5, <1>6, <1>7

LEMMA FoldersEndStep ==
  ASSUME TreeInv, TypeInv', FoldersEnd PROVE TreeInv'
<1>. USE DEF TreeInv
<1>1. Left' = Left
  BY DEF Left, FoldersEnd
<1>2. \A f : Waits(f)' <=> Waits(f)
  BY <1>1 DEF Waits
<1>3. ForestInv' /\ CascadeDone' /\ Unmoved' /\ CascadeReason'
  BY <1>2, SameRows DEF FoldersEnd, TypeInv
<1>4. BatchInv' /\ RestInv' /\ LaterInv' /\ LastInv'
  BY <1>1 DEF FoldersEnd, BatchInv, RestInv, LaterInv, LastInv
<1>. QED
  BY <1>3, <1>4

LEMMA NoteStep ==
  ASSUME TreeInv, TypeInv', ApplyNote PROVE TreeInv'
<1>. USE DEF TreeInv
<1>1. PICK c : c = Head(notes)
  OBVIOUS
<1>2. /\ c \in NoteChange /\ c \in Entries(notes)
      /\ Entries(Tail(notes)) \subseteq Entries(notes)
  BY <1>1, TailEntries DEF TypeInv, ApplyNote
<1>3. Left = {} /\ Left' = {}
  BY NoBatchType DEF Left, ApplyNote, LaterInv, LastInv
<1>4. \A f : ~Waits(f) /\ ~Waits(f)'
  BY <1>3 DEF Waits
<1>5. BatchInv'
  BY <1>2, <1>3 DEF BatchInv, ApplyNote
<1>6. RestInv' /\ LaterInv' /\ LastInv'
  BY DEF ApplyNote, RestInv, LaterInv, LastInv
<1>7. CASE NoParent(c)
  <2>1. ForestInv' /\ CascadeDone' /\ Unmoved' /\ CascadeReason'
    BY <1>1, <1>4, <1>7, SameRows DEF ApplyNote
  <2>. QED
    BY <1>5, <1>6, <2>1
<1>8. CASE ~NoParent(c)
  <2>1. work' = [work EXCEPT ![c.id] = Upserted(c)]
    BY <1>1, <1>8 DEF ApplyNote
  <2>2. c.id \in Notes /\ c.id \in PushedIds(batch) /\ \A x \in Ids \ {c.id} : work'[x] = work[x]
    BY <1>2, <2>1, NoteShape DEF BatchInv
  <2>3. \A x \in Ids : x \in Folders \/ x \notin PushedIds(batch) => work'[x] = work[x]
    BY <2>2, IdsDisjoint
  <2>4. batch' = batch /\ tab' = tab /\ rejected' = rejected
    BY <1>1, <1>8 DEF ApplyNote
  <2>5. ForestInv'
    BY <1>2, <1>8, <2>1, <2>4, NoteSound DEF ForestInv
  <2>6. \A x, y : ReachesBelow(work', x, y, PushedIds(batch)) <=> ReachesBelow(work, x, y, PushedIds(batch))
    BY <2>3, IdsDisjoint, SameBelow
  <2>7. CascadeDone'
    BY <1>4, <2>3, <2>4, <2>6, IdsDisjoint DEF CascadeDone
  <2>8. Unmoved'
    BY <1>4, <2>3, <2>4 DEF Unmoved
  <2>9. \A x, f : Between(x, f) => Between(x, f)'
    BY <2>3, <2>4, IdsDisjoint DEF Between
  <2>10. CascadeReason'
    BY <1>4, <2>3, <2>4, <2>9, IdsDisjoint DEF CascadeReason
  <2>. QED
    BY <1>5, <1>6, <2>5, <2>7, <2>8, <2>10
<1>. QED
  BY <1>7, <1>8

LEMMA TreeStep ==
  ASSUME TreeInv, TypeInv', [Next]_vars, ~AtRest' PROVE TreeInv'
<1>1. ASSUME NEW b \in Batches, Begin(b) PROVE TreeInv'
  BY <1>1, BeginStep
<1>2. CASE ApplyFolder
  <2>1. Take
    BY <1>2 DEF ApplyFolder, Take
  <2>2. CASE UNCHANGED <<later, work>> /\ rejected'
    BY <2>1, <2>2, FolderRefused
  <2>3. CASE UNCHANGED <<work, rejected>> /\ later' = Append(later, Head(todo))
    BY <1>2, <2>1, <2>3, FolderPutOff DEF ApplyFolder
  <2>4. CASE /\ ~NoParent(Head(todo)) /\ ~ClosesCycle(Head(todo))
             /\ work' = AppliedFolder(Head(todo)) /\ UNCHANGED <<later, rejected>>
    BY <2>1, <2>4, FolderApplied
  <2>. QED
    BY <1>2, <2>2, <2>3, <2>4 DEF ApplyFolder
<1>3. CASE FirstPassEnds
  BY <1>3, FirstPassStep
<1>4. CASE ApplyDeferred
  <2>1. Take /\ UNCHANGED later
    BY <1>4 DEF ApplyDeferred, Take
  <2>2. CASE UNCHANGED work /\ rejected'
    BY <2>1, <2>2, FolderRefused
  <2>3. CASE /\ ~NoParent(Head(todo)) /\ ~ClosesCycle(Head(todo))
             /\ work' = AppliedFolder(Head(todo)) /\ UNCHANGED rejected
    BY <2>1, <2>3, FolderApplied
  <2>. QED
    BY <1>4, <2>2, <2>3 DEF ApplyDeferred
<1>5. CASE FoldersEnd
  BY <1>5, FoldersEndStep
<1>6. CASE ApplyNote
  BY <1>6, NoteStep
<1>7. ASSUME Commit \/ Rollback PROVE FALSE
  BY <1>7 DEF Commit, Rollback, Close, AtRest
<1>8. ASSUME OtherSync \/ (\E S : Purge(S))
             \/ \E D \in SUBSET Folders, f \in Folders, reading \in Readings :
                  Repair(D, tab[f].at, reading)
      PROVE  FALSE
  <2>1. /\ phase = "idle" /\ work' = tab' /\ UNCHANGED <<phase, batch, todo, later, notes>>
    BY <1>8 DEF OtherSync, txVars, Purge, Repair, TreeInv, RestInv
  <2>. QED
    BY <2>1 DEF TreeInv, RestInv, AtRest
<1>9. CASE UNCHANGED vars
  <2>1. UNCHANGED <<tab, work, batch, todo, later, notes, rejected, phase>>
    BY <1>9 DEF vars, txVars
  <2>2. Left' = Left
    BY <2>1 DEF Left
  <2>3. \A f : Waits(f)' <=> Waits(f)
    BY <2>2 DEF Waits
  <2>4. ForestInv' /\ CascadeDone' /\ Unmoved' /\ CascadeReason'
    BY <2>1, <2>3, SameRows DEF TreeInv, TypeInv
  <2>5. BatchInv' /\ RestInv' /\ LaterInv' /\ LastInv'
    BY <2>1, <2>2 DEF TreeInv, BatchInv, RestInv, LaterInv, LastInv
  <2>. QED
    BY <2>4, <2>5 DEF TreeInv
<1>. QED
  BY <1>1, <1>2, <1>3, <1>4, <1>5, <1>6, <1>7, <1>8, <1>9 DEF Next

(* The invariant holds of every account, whatever its clients push.         *)
THEOREM InvariantCorrect == Spec => []TreeInv
<1>1. Init => TypeInv /\ AtRest
  BY TypeInit DEF Init, AtRest
<1>2. TypeInv /\ AtRest => TreeInv
  BY RestIsSafe
<1>3. TypeInv /\ [Next]_vars => TypeInv'
  BY TypeStep
<1>4. TreeInv /\ TypeInv' /\ [Next]_vars /\ ~AtRest' => TreeInv'
  BY TreeStep
<1>5. TreeInv => TypeInv
  BY DEF TreeInv
<1>. QED
  BY <1>1, <1>2, <1>3, <1>4, <1>5, PTL DEF Spec

(* A commit leaves what the transaction has seen, with nothing waiting.     *)
LEMMA CommitSees ==
  ASSUME TreeInv, Commit PROVE tab' = work /\ ~rejected /\ \A f : ~Waits(f)
<1>1. Left = {}
  BY NoBatchType DEF Left, Commit, TreeInv, LaterInv, LastInv
<1>. QED
  BY <1>1 DEF Commit, Waits

(* No batch closes a cycle in a tree where every parent has a row.          *)
THEOREM ForestKept == Spec => BatchesKeepForest
<1>1. ASSUME TreeInv, Commit, \A x \in Ids : ~Dangling(tab, x) /\ (x \in Folders => ~OnCycle(tab, x)),
             NEW f \in Folders
      PROVE  ~OnCycle(tab', f)
  <2>1. Sound(work)
    BY <1>1 DEF TreeInv, ForestInv, Sound
  <2>2. tab' = work
    BY <1>1, CommitSees
  <2>. QED
    BY <2>1, <2>2, IdsDisjoint DEF Sound
<1>2. TreeInv =>
        [Commit /\ (\A x \in Ids : ~Dangling(tab, x) /\ (x \in Folders => ~OnCycle(tab, x)))
           => \A f \in Folders : ~OnCycle(tab', f)]_vars
  BY <1>1
<1>. QED
  BY <1>2, InvariantCorrect, PTL DEF BatchesKeepForest

(* A deleted folder of the batch leaves nothing active below it, but below  *)
(* what the batch pushes.                                                   *)
THEOREM CascadeComplete == Spec => CascadeReachesAll
<1>1. ASSUME TreeInv, Commit,
             NEW x \in Ids \ PushedIds(batch), NEW f \in Folders \intersect PushedIds(batch),
             tab'[f].st = "deleted", tab'[x].up \in Folders,
             ReachesBelow(tab', tab'[x].up, f, PushedIds(batch))
      PROVE  tab'[x].st # "active"
  BY <1>1, CommitSees DEF TreeInv, CascadeDone
<1>2. TreeInv =>
        [Commit => \A x \in Ids \ PushedIds(batch), f \in Folders \intersect PushedIds(batch) :
           /\ tab'[f].st = "deleted" /\ tab'[x].up \in Folders
           /\ ReachesBelow(tab', tab'[x].up, f, PushedIds(batch))
           => tab'[x].st # "active"]_vars
  BY <1>1
<1>. QED
  BY <1>2, InvariantCorrect, PTL DEF CascadeReachesAll

(* What a batch deletes without pushing it was, or has come to be, below a  *)
(* folder that the batch leaves deleted.                                    *)
THEOREM CascadeOnlyBelow == Spec => CascadeReachesOnly
<1>1. ASSUME TreeInv, Commit, NEW x \in Ids \ PushedIds(batch),
             tab[x].st = "active", tab'[x].st = "deleted"
      PROVE  \E f \in Folders \intersect PushedIds(batch) :
               /\ tab[x].up \in Folders
               /\ \A S \in SUBSET Folders :
                    tab[x].up \in S /\ (\A z \in S : {tab[z].up, tab'[z].up} \ {Root} \subseteq S)
                      => f \in S
               /\ tab'[f].st = "deleted"
  <2>1. tab' = work
    BY <1>1, CommitSees
  <2>2. PICK f \in Folders \intersect PushedIds(batch) : work[f].st = "deleted" /\ Between(x, f)
    BY <1>1, <2>1 DEF TreeInv, CascadeReason
  <2>3. tab[x].up \in Folders
    BY <1>1, <2>1 DEF TreeInv, CascadeReason
  <2>. QED
    BY <2>1, <2>2, <2>3 DEF Between
<1>2. TreeInv =>
        [Commit => \A x \in Ids \ PushedIds(batch) :
           tab[x].st = "active" /\ tab'[x].st = "deleted"
             => \E f \in Folders \intersect PushedIds(batch) :
                  /\ tab[x].up \in Folders
                  /\ \A S \in SUBSET Folders :
                       tab[x].up \in S /\ (\A z \in S : {tab[z].up, tab'[z].up} \ {Root} \subseteq S)
                         => f \in S
                  /\ tab'[f].st = "deleted"]_vars
  BY <1>1
<1>. QED
  BY <1>2, InvariantCorrect, PTL DEF CascadeReachesOnly

(* A repair takes the parent of some folders away, so that a cycle that is  *)
(* left was there before, with a folder on it that the repair has detached. *)
LEMMA DetachedBefore ==
  ASSUME TypeInv, NEW D \in SUBSET Folders, NEW f \in Folders, NEW reading \in Readings,
         Repair(D, tab[f].at, reading), NEW g \in Folders, OnCycle(tab', g)
  PROVE  FALSE
<1>1. \A z \in Folders : tab'[z].up = IF z \in D THEN Root ELSE tab[z].up
  <2>1. ASSUME NEW r \in Row, NEW s PROVE [r EXCEPT !.up = Root, !.at = s].up = Root
    BY DEF Row
  <2>2. \A z \in Folders : z \in Ids /\ tab[z] \in Row
    BY IdsDisjoint DEF TypeInv, Tables
  <2>. QED
    BY <2>1, <2>2 DEF Repair
<1>2. Root \notin Folders
  BY IdsDisjoint
<1>3. g \notin D /\ tab'[g].up = tab[g].up /\ tab[g].up \in Folders
  BY <1>1, <1>2 DEF OnCycle
<1>4. OnCycle(tab, g)
  <2>1. \A S \in SUBSET Folders : Closed(tab, S) => Closed(tab', S)
    BY <1>1, <1>2 DEF Closed
  <2>. QED
    BY <1>3, <2>1, ReachesClosed DEF OnCycle
<1>5. PICK d \in D : Reaches(tab, g, d)
  <2>1. Cardinality({d \in D : Reaches(tab, g, d)}) = 1
    BY <1>4 DEF Repair
  <2>2. {d \in D : Reaches(tab, g, d)} # {}
    BY <2>1, FS_EmptySet
  <2>. QED
    BY <2>2
(* The folders that still reach g keep their parents.                       *)
<1>. DEFINE C == {z \in Folders : Reaches(tab', z, g)}
<1>6. ASSUME NEW z \in C, tab[z].up \in Folders PROVE tab[z].up \in C /\ z \notin D
  <2>1. z \notin D
    <3>1. CASE z \in D
      <4>1. Closed(tab', {z})
        BY <1>1, <1>2, <3>1 DEF Closed
      <4>2. g \in {z}
        BY <4>1, ReachesClosed
      <4>. QED
        BY <1>3, <3>1, <4>2
    <3>. QED
      BY <3>1
  <2>2. tab'[z].up = tab[z].up
    BY <1>1, <2>1
  <2>3. CASE z = g
    BY <1>6, <2>1, <2>2, <2>3 DEF OnCycle
  <2>4. CASE z # g
    <3>1. ASSUME NEW S \in SUBSET Folders, tab'[z].up \in S, Closed(tab', S) PROVE g \in S
      <4>1. Closed(tab', S \union {z})
        BY <3>1 DEF Closed
      <4>2. g \in S \union {z}
        BY <4>1, ReachesClosed
      <4>. QED
        BY <2>4, <4>2
    <3>2. Reaches(tab', tab'[z].up, g)
      BY <3>1, ReachesClosed
    <3>. QED
      BY <1>6, <2>1, <2>2, <3>2
  <2>. QED
    BY <2>3, <2>4
<1>7. g \in C
  BY ReachesClosed
<1>8. d \in C
  <2>1. Closed(tab, C)
    BY <1>6 DEF Closed
  <2>. QED
    BY <1>5, <1>7, <2>1, ReachesClosed
<1>. QED
  <2>1. CASE tab[d].up \in Folders
    BY <1>6, <1>8, <2>1
  <2>2. CASE tab[d].up \notin Folders
    BY <2>2 DEF Repair, OnCycle
  <2>. QED
    BY <2>1, <2>2

(* repairFolderCycles: whichever folder of each cycle it meets first, no    *)
(* folder is below itself afterwards, on a cycle it has broken or another.  *)
THEOREM RepairEndsCycles ==
  Spec => [][\A D \in SUBSET Folders, f \in Folders, reading \in Readings :
               Repair(D, tab[f].at, reading) => ~(\E g \in Folders : OnCycle(tab', g))]_vars
<1>1. TypeInv =>
        [\A D \in SUBSET Folders, f \in Folders, reading \in Readings :
           Repair(D, tab[f].at, reading) => ~(\E g \in Folders : OnCycle(tab', g))]_vars
  BY DetachedBefore
<1>. QED
  BY <1>1, TypeInit, TypeStep, PTL DEF Spec
=============================================================================
