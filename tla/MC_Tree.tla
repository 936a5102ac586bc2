------------------------------- MODULE MC_Tree -------------------------------
(* Small instances of FolderTree for TLC.                                  *)
EXTENDS FolderTree, TLC

CONSTANTS MaxFolders, MaxNotes, MaxSize, Deletions

Changes(S) == {c \in [id : S, st : {"active"} \union Deletions, up : Parents, upd : EditTimes] :
                 c.up # c.id}
Lists(S, n) == UNION {{s \in [1..k -> Changes(S)] : Distinct(s)} : k \in 0..n}
AllBatches == {b \in {[folders |-> fs, notes |-> ns] :
                        fs \in Lists(Folders, MaxFolders), ns \in Lists(Notes, MaxNotes)} :
                 Len(b.folders) + Len(b.notes) \in 1..MaxSize}

(* Batches of three active folders, for chains and cycles in any order.     *)
Triples == {b \in [folders : [1..3 -> {c \in Changes(Folders) : c.st = "active" /\ c.upd = 1}],
                   notes : {<<>>}] : Distinct(b.folders)}
(* The batches of AllBatches whose notes carry the older edit time.         *)
OldNotes == {b \in AllBatches : \A i \in 1..Len(b.notes) : b.notes[i].upd = 1}
NotesAndTriples == OldNotes \union Triples

Symmetry == Permutations(Folders) \union Permutations(Notes)
=============================================================================
