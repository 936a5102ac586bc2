-------------------------- MODULE FolderOrderProofs --------------------------
(***************************************************************************)
(* Theorems about FolderTree, for any folders and batches: a batch of new   *)
(* folders is accepted in any order if and only if each of them hangs,      *)
(* through the batch, from the top or from a folder of the server.          *)
(*                                                                         *)
(* What makes it so is that a rejection always shows a set of folders that  *)
(* hang from nothing but each other, and that what is applied never has one.*)
(***************************************************************************)
EXTENDS FolderTreeProofs

Sent == Entries(batch.folders)

(* The folders of the batch that have a row by now.                         *)
Done == {f \in PushedIds(batch) : work[f].st # "absent"}

(* Some folder of S hangs from the top, from the server or from a folder of *)
(* the batch outside S.                                                     *)
Hangs(c, S) ==
  c.id \in S /\ c.up \notin S
    /\ (c.up = Root \/ c.up \in PushedIds(batch) \/ tab[c.up].st # "absent")
Hung(S) == \E c \in Sent : Hangs(c, S)

SentInv ==
  /\ Distinct(batch.folders) /\ Left \subseteq Sent
  /\ \A c \in Entries(later) : c.up \in PushedIds(batch) /\ c.up # c.id
  /\ \A x \in Ids \ PushedIds(batch) : work[x].st = "absent" <=> tab[x].st = "absent"

(* What waits has no row; without a rejection, what does not wait has one.  *)
WaitInv ==
  /\ \A f \in Done : ~Waits(f)
  /\ ~rejected => \A f \in PushedIds(batch) : Waits(f) \/ f \in Done

(* What has been applied hangs, with its parent;                            *)
DoneInv ==
  /\ \A c \in Sent : c.id \in Done => c.up = Root \/ c.up \in Done \/ tab[c.up].st # "absent"
  /\ \A S \in (SUBSET Done) \ {{}} : Hung(S)

(* a rejection has its reason;                                              *)
RejectInv == rejected => \E S \in (SUBSET PushedIds(batch)) \ {{}} : ~Hung(S)

(* and in the second pass a parent comes before its children.               *)
TurnInv ==
  phase = "deferred" /\ ~rejected
    => \A k \in 1..Len(todo) :
         todo[k].up \in Done \/ \E j \in 1..(k - 1) : todo[j].id = todo[k].up

NewInv == NewFolders(batch) /\ SentInv /\ WaitInv /\ DoneInv /\ RejectInv /\ TurnInv

OrderInv ==
  /\ phase = "idle" => ~rejected
  /\ phase # "idle" /\ NewFolders(batch) => NewInv

-----------------------------------------------------------------------------
(* A batch of new folders: each has its change, and no two share one.       *)
LEMMA NewBatch ==
  ASSUME TypeInv, NewFolders(batch)
  PROVE  /\ Sent \subseteq FolderChange
         /\ \A c \in Sent : c.id \in PushedIds(batch) /\ (c.up = Root \/ c.up \in Folders)
         /\ \A f \in PushedIds(batch) :
              f \in Folders /\ f \in Ids /\ tab[f].st = "absent" /\ \E c \in Sent : c.id = f
         /\ Distinct(batch.folders) => \A c, d \in Sent : c.id = d.id => c = d
<1>1. batch \in [folders : Seq(FolderChange), notes : Seq(NoteChange)]
  BY DEF TypeInv
<1>2. Sent \subseteq FolderChange
  BY <1>1, EntriesType DEF Sent
<1>3. \A c \in Sent : c.id \in PushedIds(batch) /\ (c.up = Root \/ c.up \in Folders)
  BY <1>2 DEF Sent, Entries, PushedIds, FolderChange, Change, Parents
<1>4. ASSUME NEW f \in PushedIds(batch)
      PROVE  f \in Folders /\ f \in Ids /\ tab[f].st = "absent" /\ \E c \in Sent : c.id = f
  <2>1. f \in Folders /\ tab[f].st = "absent"
    BY DEF NewFolders
  <2>. QED
    BY <1>1, <2>1, PushedFolders, IdsDisjoint DEF Sent
<1>5. Distinct(batch.folders) => \A c, d \in Sent : c.id = d.id => c = d
  BY DEF Sent, Entries, Distinct
<1>. QED
  BY <1>2, <1>3, <1>4, <1>5

(* A refusal never comes of a cycle: the folder has no row yet.             *)
LEMMA NoRowNoCycle ==
  ASSUME WaitInv, NEW g \in PushedIds(batch), Waits(g)
  PROVE  g \notin Done /\ work[g].st = "absent" /\ \A c : c.id = g => ~ClosesCycle(c)
  BY DEF WaitInv, Done, ClosesCycle

(* Steps that give no folder a row.                                         *)
LEMMA SameDone ==
  ASSUME UNCHANGED <<tab, batch>>, \A x \in Ids : work'[x].st = "absent" <=> work[x].st = "absent",
         TypeInv, NewFolders(batch)
  PROVE  Done' = Done /\ Sent' = Sent /\ \A S : Hung(S)' <=> Hung(S)
<1>1. Done' = Done
  BY NewBatch DEF Done
<1>2. Sent' = Sent /\ \A S : Hung(S)' <=> Hung(S)
  BY DEF Sent, Hung, Hangs
<1>. QED
  BY <1>1, <1>2

-----------------------------------------------------------------------------
(* A new folder whose parent is there is applied.                           *)
LEMMA NewFolderApplied ==
  ASSUME TreeInv, NewInv, Take, UNCHANGED <<later, rejected>>,
         ~NoParent(Head(todo)), work' = AppliedFolder(Head(todo))
  PROVE  NewInv'
<1>. USE DEF TreeInv, NewInv
<1>1. PICK c, g : c = Head(todo) /\ g = c.id
  OBVIOUS
<1>2. /\ c \in FolderChange /\ c \in Left /\ Waits(g) /\ ~Waits(g)' /\ g \in PushedIds(batch)
      /\ \A f : f # g => (Waits(f)' <=> Waits(f))
  BY <1>1, TakeWaits
<1>3. /\ Entries(Tail(todo)) \subseteq Entries(todo) /\ todo' = Tail(todo)
      /\ Left' \subseteq Left
  BY TailEntries DEF TypeInv, Take, Left
<1>4. batch' = batch /\ tab' = tab /\ phase' = phase /\ later' = later /\ rejected' = rejected
  BY DEF Take
<1>5. c \in Sent /\ g \notin Done /\ work[g].st = "absent"
  BY <1>2, NoRowNoCycle DEF SentInv
<1>6. /\ work'[g].st # "absent"
      /\ \A x \in Ids \ {g} : work'[x].st = "absent" <=> work[x].st = "absent"
  <2>1. PICK t : t = [work EXCEPT ![c.id] = Upserted(c)]
    OBVIOUS
  <2>2. /\ t \in Tables /\ c.id \in Folders /\ c.id \in Ids /\ t[c.id] = Upserted(c) /\ c \in Change
        /\ AppliedFolder(c) = IF t[c.id].st = "deleted" THEN Cascade(t, c.id) ELSE t
        /\ \A x \in Ids \ {c.id} : t[x] = work[x]
    BY <1>2, <2>1, AppliedShape
  <2>3. Upserted(c).st # "absent"
    BY <2>2, UpsertedRow
  <2>4. \A x \in Ids : AppliedFolder(c)[x].st = "absent" <=> t[x].st = "absent"
    BY <2>2, CascadeShape
  <2>5. work' = AppliedFolder(c)
    BY <1>1
  <2>. QED
    BY <1>1, <2>2, <2>3, <2>4, <2>5
<1>7. Done' = Done \union {g}
  BY <1>2, <1>4, <1>6, NewBatch DEF Done
<1>8. Sent' = Sent /\ \A S : Hung(S)' <=> Hung(S)
  BY <1>4 DEF Sent, Hung, Hangs
<1>9. c.up = Root \/ c.up \in Done \/ tab[c.up].st # "absent"
  <2>1. c.up = Root \/ (c.up \in Ids /\ work[c.up].st # "absent")
    BY <1>1, <1>5, NewBatch, IdsDisjoint DEF NoParent
  <2>. QED
    BY <2>1 DEF SentInv, Done
<1>10. SentInv'
  BY <1>2, <1>3, <1>4, <1>6, <1>8 DEF SentInv
<1>11. WaitInv'
  BY <1>2, <1>4, <1>7 DEF WaitInv
<1>12. DoneInv'
  <2>1. \A d \in Sent : d.id \in Done' => d.up = Root \/ d.up \in Done' \/ tab[d.up].st # "absent"
    <3>1. \A d \in Sent : d.id = g => d = c
      BY <1>1, <1>5, NewBatch DEF SentInv
    <3>. QED
      BY <1>7, <1>9, <3>1 DEF DoneInv
  <2>2. ASSUME NEW S \in (SUBSET Done') \ {{}} PROVE Hung(S)
    <3>1. CASE g \notin S
      BY <1>7, <3>1 DEF DoneInv
    <3>2. CASE S = {g}
      <4>1. c.up # g
        BY <1>2, <1>5, <1>9, NewBatch, IdsDisjoint
      <4>2. Hangs(c, S)
        BY <1>1, <1>9, <3>2, <4>1 DEF Hangs, Done
      <4>. QED
        BY <1>5, <4>2 DEF Hung
    <3>3. CASE g \in S /\ S # {g}
      <4>1. S \ {g} \in (SUBSET Done) \ {{}}
        BY <1>7, <3>3
      <4>2. PICK d \in Sent : Hangs(d, S \ {g})
        BY <4>1 DEF DoneInv, Hung
      <4>3. d.up # g
        <5>1. d.id \in Done
          BY <4>1, <4>2 DEF Hangs
        <5>2. d.up = Root \/ d.up \in Done \/ tab[d.up].st # "absent"
          BY <5>1 DEF DoneInv
        <5>. QED
          BY <1>2, <1>5, <5>2, NewBatch, IdsDisjoint
      <4>4. Hangs(d, S)
        BY <4>2, <4>3 DEF Hangs
      <4>. QED
        BY <4>4 DEF Hung
    <3>. QED
      BY <3>1, <3>2, <3>3
  <2>. QED
    BY <1>4, <1>8, <2>1, <2>2 DEF DoneInv
<1>13. RejectInv'
  BY <1>4, <1>8 DEF RejectInv
<1>14. TurnInv'
  <2>. SUFFICES ASSUME phase = "deferred", ~rejected, NEW k \in 1..Len(Tail(todo))
                PROVE  \/ Tail(todo)[k].up \in Done'
                       \/ \E j \in 1..(k - 1) : Tail(todo)[j].id = Tail(todo)[k].up
    BY <1>3, <1>4 DEF TurnInv
  <2>1. /\ todo \in Seq(FolderChange) /\ todo # <<>>
    BY DEF TypeInv, Take
  <2>2. /\ Len(Tail(todo)) = Len(todo) - 1 /\ Len(todo) \in Nat \ {0} /\ Head(todo) = todo[1]
        /\ \A i \in 1..(Len(todo) - 1) : Tail(todo)[i] = todo[i + 1]
    BY <2>1
  <2>3. k + 1 \in 1..Len(todo) /\ Tail(todo)[k] = todo[k + 1] /\ k \in Nat
    BY <2>2
  <2>4. CASE todo[k + 1].up \in Done
    BY <1>7, <2>3, <2>4
  <2>5. ASSUME NEW j \in 1..k, todo[j].id = todo[k + 1].up
        PROVE  \/ Tail(todo)[k].up \in Done'
               \/ \E i \in 1..(k - 1) : Tail(todo)[i].id = Tail(todo)[k].up
    <3>1. CASE j = 1
      BY <1>1, <1>7, <2>2, <2>3, <2>5, <3>1
    <3>2. CASE j # 1
      <4>1. j - 1 \in 1..(k - 1) /\ j - 1 \in 1..(Len(todo) - 1) /\ (j - 1) + 1 = j
        BY <2>2, <2>3, <3>2
      <4>2. Tail(todo)[j - 1] = todo[j]
        BY <2>2, <4>1
      <4>. QED
        BY <2>3, <2>5, <4>1, <4>2
    <3>. QED
      BY <3>1, <3>2
  <2>6. (k + 1) - 1 = k
    BY <2>3
  <2>. QED
    BY <2>3, <2>4, <2>5, <2>6 DEF TurnInv
<1>15. NewFolders(batch)'
  BY <1>4 DEF NewFolders
<1>. QED
  BY <1>10, <1>11, <1>12, <1>13, <1>14, <1>15

(* A folder whose parent is not there is refused,                           *)
LEMMA NewFolderRefused ==
  ASSUME TreeInv, NewInv, Take, UNCHANGED <<later, work>>, rejected' = TRUE,
         rejected \/ \E S \in (SUBSET PushedIds(batch)) \ {{}} : ~Hung(S)
  PROVE  NewInv'
<1>. USE DEF TreeInv, NewInv
<1>1. batch' = batch /\ tab' = tab /\ phase' = phase
  BY DEF Take
<1>2. Left' \subseteq Left
  BY TailEntries DEF TypeInv, Take, Left
<1>3. \A f : Waits(f)' => Waits(f)
  BY <1>2 DEF Waits
<1>4. Done' = Done /\ Sent' = Sent /\ \A S : Hung(S)' <=> Hung(S)
  BY <1>1, SameDone
<1>5. SentInv'
  BY <1>1, <1>2, <1>4 DEF SentInv
<1>6. WaitInv' /\ DoneInv' /\ TurnInv'
  BY <1>1, <1>3, <1>4 DEF WaitInv, DoneInv, TurnInv
<1>7. RejectInv'
  BY <1>1, <1>4 DEF RejectInv
<1>8. NewFolders(batch)'
  BY <1>1 DEF NewFolders
<1>. QED
  BY <1>5, <1>6, <1>7, <1>8

(* or put off, when the batch has the parent.                               *)
LEMMA NewFolderPutOff ==
  ASSUME TreeInv, NewInv, Take, phase = "first", UNCHANGED <<work, rejected>>,
         later' = Append(later, Head(todo)),
         Head(todo).up \in PushedIds(batch), Head(todo).up # Head(todo).id
  PROVE  NewInv'
<1>. USE DEF TreeInv, NewInv
<1>1. PICK c : c = Head(todo)
  OBVIOUS
<1>2. batch' = batch /\ tab' = tab /\ phase' = phase
  BY DEF Take
<1>3. /\ c \in FolderChange /\ c \in Entries(todo)
      /\ Entries(todo) = {c} \union Entries(Tail(todo))
  BY <1>1, TailEntries DEF TypeInv, Take
<1>4. Entries(later') = Entries(later) \union {c}
  BY <1>1, <1>3, AppendEntries DEF TypeInv
<1>5. Left' = Left
  BY <1>3, <1>4 DEF Left, Take
<1>6. \A f : Waits(f)' <=> Waits(f)
  BY <1>5 DEF Waits
<1>7. Done' = Done /\ Sent' = Sent /\ \A S : Hung(S)' <=> Hung(S)
  BY <1>2, SameDone
<1>8. SentInv'
  BY <1>1, <1>2, <1>4, <1>5, <1>7 DEF SentInv
<1>9. WaitInv' /\ DoneInv' /\ RejectInv' /\ TurnInv'
  BY <1>2, <1>6, <1>7 DEF WaitInv, DoneInv, RejectInv, TurnInv
<1>10. NewFolders(batch)'
  BY <1>2 DEF NewFolders
<1>. QED
  BY <1>8, <1>9, <1>10

-----------------------------------------------------------------------------
(* The two passes.                                                          *)
LEMMA NewFirstPass ==
  ASSUME TreeInv, NewInv, ApplyFolder PROVE NewInv'
<1>. USE DEF TreeInv, NewInv
<1>0. Take /\ phase = "first"
  BY DEF ApplyFolder, Take
<1>1. PICK c, g : c = Head(todo) /\ g = c.id
  OBVIOUS
<1>2. /\ c \in FolderChange /\ c \in Left /\ c \in Sent /\ Waits(g) /\ g \in PushedIds(batch)
  <2>1. c \in Entries(todo)
    BY <1>0, <1>1, TailEntries DEF Take, TypeInv
  <2>. QED
    BY <1>1, <2>1, NewBatch DEF SentInv, Left, Waits
<1>3. ~ClosesCycle(c)
  BY <1>1, <1>2, NoRowNoCycle
<1>4. CASE c.up = c.id \/ (NoParent(c) /\ c.up \notin PushedIds(batch))
  <2>1. rejected' = TRUE /\ UNCHANGED <<later, work>>
    BY <1>1, <1>3, <1>4 DEF ApplyFolder
  <2>2. c.up = g \/ (c.up # Root /\ c.up \notin PushedIds(batch) /\ tab[c.up].st = "absent")
    BY <1>1, <1>2, <1>4, NewBatch, IdsDisjoint DEF NoParent, SentInv
  <2>3. \A d \in Sent : d.id = g => d = c
    BY <1>1, <1>2, NewBatch DEF SentInv
  <2>4. ~Hung({g})
    BY <2>2, <2>3 DEF Hung, Hangs
  <2>5. {g} \in (SUBSET PushedIds(batch)) \ {{}}
    BY <1>2
  <2>. QED
    BY <1>0, <2>1, <2>4, <2>5, NewFolderRefused
<1>5. CASE c.up # c.id /\ NoParent(c) /\ c.up \in PushedIds(batch)
  <2>1. later' = Append(later, c) /\ UNCHANGED <<work, rejected>>
    BY <1>1, <1>3, <1>5 DEF ApplyFolder
  <2>. QED
    BY <1>0, <1>1, <1>5, <2>1, NewFolderPutOff
<1>6. CASE c.up # c.id /\ ~NoParent(c)
  <2>1. work' = AppliedFolder(c) /\ UNCHANGED <<later, rejected>>
    BY <1>1, <1>3, <1>6 DEF ApplyFolder
  <2>. QED
    BY <1>0, <1>1, <1>6, <2>1, NewFolderApplied
<1>. QED
  BY <1>4, <1>5, <1>6

LEMMA NewSecondPass ==
  ASSUME TreeInv, NewInv, ApplyDeferred PROVE NewInv'
<1>. USE DEF TreeInv, NewInv
<1>0. Take /\ phase = "deferred" /\ UNCHANGED later
  BY DEF ApplyDeferred, Take
<1>1. PICK c, g : c = Head(todo) /\ g = c.id
  OBVIOUS
<1>2. /\ c \in FolderChange /\ c \in Sent /\ Waits(g) /\ g \in PushedIds(batch)
  <2>1. c \in Entries(todo)
    BY <1>0, <1>1, TailEntries DEF Take, TypeInv
  <2>. QED
    BY <1>1, <2>1, NewBatch DEF SentInv, Left, Waits
<1>3. ~ClosesCycle(c)
  BY <1>1, <1>2, NoRowNoCycle
<1>4. CASE NoParent(c)
  <2>1. rejected' = TRUE /\ UNCHANGED work
    BY <1>1, <1>4 DEF ApplyDeferred
  <2>2. rejected
    <3>. SUFFICES ASSUME ~rejected PROVE FALSE
      OBVIOUS
    <3>1. Len(todo) \in Nat \ {0} /\ todo[1] = c
      BY <1>0, <1>1 DEF Take, TypeInv
    <3>2. 1 \in 1..Len(todo) /\ \A j : j \notin 1..(1 - 1)
      BY <3>1
    <3>3. c.up \in Done
      BY <1>0, <3>1, <3>2 DEF TurnInv
    <3>. QED
      BY <1>4, <3>3 DEF NoParent, Done
  <2>. QED
    BY <1>0, <2>1, <2>2, NewFolderRefused
<1>5. CASE ~NoParent(c)
  <2>1. work' = AppliedFolder(c) /\ UNCHANGED rejected
    BY <1>1, <1>3, <1>5 DEF ApplyDeferred
  <2>. QED
    BY <1>0, <1>1, <1>5, <2>1, NewFolderApplied
<1>. QED
  BY <1>4, <1>5

(* Between them, what waits for itself is a set that hangs from nothing.    *)
LEMMA NewOrder ==
  ASSUME TreeInv, NewInv, FirstPassEnds PROVE NewInv'
<1>. USE DEF TreeInv, NewInv
<1>1. /\ batch' = batch /\ tab' = tab /\ work' = work /\ phase' = "deferred" /\ later' = <<>>
      /\ Entries(later') = {}
  BY NoBatchType DEF FirstPassEnds
<1>2. PICK q \in Orders(later) : q = todo'
  BY DEF FirstPassEnds
<1>3. /\ Entries(q) \subseteq Entries(later)
      /\ Left = Entries(later) /\ Left' = Entries(q)
  BY <1>1, <1>2, OrdersType, NoBatchType DEF FirstPassEnds, TypeInv, Left
<1>4. Done' = Done /\ Sent' = Sent /\ \A S : Hung(S)' <=> Hung(S)
  BY <1>1, SameDone
<1>5. \A f : Waits(f)' => Waits(f)
  BY <1>3 DEF Waits
<1>6. rejected' = (rejected \/ ~(Entries(later) \subseteq Entries(q)))
  BY <1>2 DEF FirstPassEnds
<1>7. SentInv' /\ DoneInv'
  BY <1>1, <1>3, <1>4 DEF SentInv, DoneInv
<1>8. WaitInv'
  <2>1. ~rejected' => \A f : Waits(f) => Waits(f)'
    BY <1>3, <1>6 DEF Waits
  <2>. QED
    BY <1>1, <1>4, <1>5, <1>6, <2>1 DEF WaitInv
<1>9. RejectInv'
  <2>1. CASE rejected
    BY <1>1, <1>4, <2>1 DEF RejectInv
  <2>2. CASE Entries(later) \subseteq Entries(q)
    BY <1>1, <1>4, <1>6, <2>2 DEF RejectInv
  <2>3. CASE ~(Entries(later) \subseteq Entries(q))
    <3>. DEFINE D == {c.id : c \in Entries(later) \ Entries(q)}
    <3>1. D \in (SUBSET PushedIds(batch)) \ {{}}
      BY <1>3, <2>3, NewBatch DEF SentInv
    <3>2. ASSUME NEW c \in Sent, Hangs(c, D) PROVE FALSE
      <4>1. c \in Entries(later) \ Entries(q)
        <5>1. PICK d \in Entries(later) \ Entries(q) : d.id = c.id
          BY <3>2 DEF Hangs
        <5>2. d \in Sent
          BY <1>3 DEF SentInv
        <5>. QED
          BY <5>1, <5>2, NewBatch DEF SentInv
      <4>2. Behind(c, later) /\ ~Behind(c, q)
        BY <4>1 DEF Orders
      <4>3. PICK e \in Entries(later) \ Entries(q) : e.id = c.up
        BY <4>2 DEF Behind
      <4>. QED
        BY <3>2, <4>3 DEF Hangs
    <3>3. ~Hung(D)
      BY <3>2 DEF Hung
    <3>. HIDE DEF D
    <3>. QED
      BY <1>1, <1>4, <3>1, <3>3 DEF RejectInv
  <2>. QED
    BY <2>1, <2>2, <2>3
<1>10. TurnInv'
  <2>. SUFFICES ASSUME ~rejected', NEW k \in 1..Len(q)
                PROVE  q[k].up \in Done \/ \E j \in 1..(k - 1) : q[j].id = q[k].up
    BY <1>2, <1>4 DEF TurnInv
  <2>1. ~rejected /\ Entries(later) = Entries(q)
    BY <1>3, <1>6
  <2>2. q[k] \in Entries(later)
    BY <2>1 DEF Entries
  <2>3. CASE Behind(q[k], later)
    BY <2>3 DEF Orders
  <2>4. CASE ~Behind(q[k], later)
    <3>1. q[k].up \in PushedIds(batch)
      BY <2>2 DEF SentInv
    <3>2. ~Waits(q[k].up)
      BY <1>3, <2>4 DEF Behind, Waits
    <3>. QED
      BY <2>1, <3>1, <3>2 DEF WaitInv
  <2>. QED
    BY <2>3, <2>4
<1>11. NewFolders(batch)'
  BY <1>1 DEF NewFolders
<1>. QED
  BY <1>7, <1>8, <1>9, <1>10, <1>11

-----------------------------------------------------------------------------
LEMMA NewBegin ==
  ASSUME TreeInv, OrderInv, NEW b \in Batches, Begin(b), NewFolders(batch)', TypeInv'
  PROVE  NewInv'
<1>. USE DEF TreeInv
<1>1. /\ work' = tab /\ tab' = tab /\ batch' = b /\ todo' = b.folders /\ later' = <<>>
      /\ phase' = "first" /\ ~rejected' /\ Entries(later') = {}
  BY NoBatchType DEF Begin, RestInv, OrderInv
<1>2. /\ b \in [folders : Seq(FolderChange), notes : Seq(NoteChange)]
      /\ Distinct(b.folders)
  BY <1>1, TreeAssumption DEF TreeAssumption, TypeInv
<1>3. Left' = Entries(b.folders) /\ Sent' = Entries(b.folders)
  BY <1>1 DEF Left, Sent
<1>4. \A f \in PushedIds(b) : f \in Folders /\ tab[f].st = "absent"
  BY <1>1 DEF NewFolders
<1>5. \A f \in PushedIds(b) : Waits(f)'
  BY <1>2, <1>3, <1>4, PushedFolders DEF Waits
<1>6. Done' = {}
  BY <1>1, <1>4 DEF Done
<1>7. SentInv'
  BY <1>1, <1>2, <1>3 DEF SentInv
<1>8. WaitInv' /\ DoneInv' /\ RejectInv' /\ TurnInv'
  BY <1>1, <1>5, <1>6 DEF WaitInv, DoneInv, RejectInv, TurnInv
<1>. QED
  BY <1>7, <1>8 DEF NewInv

(* Steps that leave the folders of the batch alone.                         *)
LEMMA NewSame ==
  ASSUME TreeInv, NewInv, UNCHANGED <<tab, work, batch, todo, later, rejected>>,
         phase' = phase \/ phase' = "notes"
  PROVE  NewInv'
<1>. USE DEF TreeInv, NewInv
<1>1. Done' = Done /\ Sent' = Sent /\ \A S : Hung(S)' <=> Hung(S)
  BY SameDone
<1>2. Left' = Left
  BY DEF Left
<1>3. \A f : Waits(f)' <=> Waits(f)
  BY <1>2 DEF Waits
<1>4. SentInv'
  BY <1>1, <1>2 DEF SentInv
<1>5. WaitInv' /\ DoneInv' /\ RejectInv' /\ TurnInv'
  BY <1>1, <1>3 DEF WaitInv, DoneInv, RejectInv, TurnInv
<1>6. NewFolders(batch)'
  BY DEF NewFolders
<1>. QED
  BY <1>4, <1>5, <1>6

(* A batch of new folders has no notes.                                     *)
LEMMA NewNoNotes ==
  ASSUME TreeInv, NewFolders(batch), ApplyNote PROVE FALSE
<1>. USE DEF TreeInv
<1>1. PICK c : c = Head(notes)
  OBVIOUS
<1>2. c \in NoteChange /\ c \in Entries(notes)
  BY <1>1, TailEntries DEF TypeInv, ApplyNote
<1>3. c.id \in Notes /\ c.id \in Folders
  BY <1>2, NewBatch DEF BatchInv, NoteChange
<1>. QED
  BY <1>3, IdsDisjoint

LEMMA OrderStep ==
  ASSUME TreeInv, OrderInv, [Next]_vars, TypeInv' PROVE OrderInv'
<1>1. ASSUME NEW b \in Batches, Begin(b) PROVE OrderInv'
  BY <1>1, NewBegin DEF OrderInv, Begin
<1>2. ASSUME phase # "idle", phase' # "idle", UNCHANGED <<tab, batch>>, NewInv => NewInv'
      PROVE  OrderInv'
  <2>1. NewFolders(batch)' => NewFolders(batch)
    BY <1>2 DEF NewFolders
  <2>. QED
    BY <1>2, <2>1 DEF OrderInv
<1>3. CASE ApplyFolder
  BY <1>2, <1>3, NewFirstPass DEF ApplyFolder
<1>4. CASE FirstPassEnds
  BY <1>2, <1>4, NewOrder DEF FirstPassEnds
<1>5. CASE ApplyDeferred
  BY <1>2, <1>5, NewSecondPass DEF ApplyDeferred
<1>6. CASE FoldersEnd
  BY <1>2, <1>6, NewSame DEF FoldersEnd
<1>7. CASE ApplyNote
  BY <1>2, <1>7, NewNoNotes DEF ApplyNote, NewInv
<1>8. ASSUME Commit \/ Rollback PROVE OrderInv'
  BY <1>8 DEF Commit, Rollback, Close, OrderInv
<1>9. ASSUME OtherSync \/ (\E S : Purge(S))
             \/ \E D \in SUBSET Folders, f \in Folders, reading \in Readings :
                  Repair(D, tab[f].at, reading)
      PROVE  OrderInv'
  <2>1. phase = "idle" /\ phase' = "idle" /\ rejected' = rejected
    BY <1>9 DEF OtherSync, txVars, Purge, Repair
  <2>. QED
    BY <2>1 DEF OrderInv
<1>10. CASE UNCHANGED vars
  <2>1. UNCHANGED <<tab, work, batch, todo, later, rejected, phase>>
    BY <1>10 DEF vars, txVars
  <2>2. NewFolders(batch)' <=> NewFolders(batch)
    BY <2>1 DEF NewFolders
  <2>. QED
    BY <2>1, <2>2, NewSame DEF OrderInv
<1>. QED
  BY <1>1, <1>3, <1>4, <1>5, <1>6, <1>7, <1>8, <1>9, <1>10 DEF Next

(* README "Ordine delle cartelle": a batch of new folders is accepted, in   *)
(* any order, if and only if every folder hangs, through the batch, from    *)
(* the top or from a folder that the server has.                            *)
THEOREM AcceptedHowever == Spec => []AcceptedInAnyOrder
<1>1. Init => OrderInv
  BY DEF Init, OrderInv
<1>2. TreeInv /\ OrderInv /\ [Next]_vars /\ TypeInv' => OrderInv'
  BY OrderStep
<1>3. TreeInv => TypeInv
  BY DEF TreeInv
<1>4. TreeInv /\ OrderInv => AcceptedInAnyOrder
  <2>. SUFFICES ASSUME TreeInv, NewInv, phase = "notes"
                PROVE  rejected <=> ~Hanging(batch)
    BY DEF AcceptedInAnyOrder, OrderInv
  <2>. USE DEF TreeInv, NewInv
  <2>1. Left = {}
    BY NoBatchType DEF Left, LaterInv, LastInv
  <2>2. ~rejected => Done = PushedIds(batch)
    BY <2>1 DEF WaitInv, Waits, Done
  <2>3. Hanging(batch) <=> \A S \in (SUBSET PushedIds(batch)) \ {{}} : Hung(S)
    BY DEF Hanging, Hung, Hangs, Sent, Entries
  <2>. QED
    BY <2>2, <2>3 DEF DoneInv, RejectInv
<1>. QED
  BY <1>1, <1>2, <1>3, <1>4, InvariantCorrect, PTL DEF Spec
=============================================================================
