------------------------------ MODULE MC_Delta -------------------------------
(* A small instance of DeltaSync for TLC.                                  *)
EXTENDS DeltaSyncInv, TLC

CONSTANTS n1, f1

InFolder == n1 :> (IF f1 \in Folders THEN f1 ELSE Root)
Symmetry == Permutations(Devices) \union Permutations(Servers)

(* Two parts of the instance are explored.  Interleaved: two processes, two *)
(* times and requests that arrive late, on one row and without the sweep.   *)
(* Alone: one process at a time and one time, on the note and its folder,   *)
(* with the cascade and the sweep.                                          *)
Untouched(r) == tab[r] = Gone /\ \A d \in Devices : copy[d][r] = Gone /\ r \notin dirty[d]
Interleaved == Untouched(n1) /\ sweep = "idle"
Alone ==
  /\ \A s, t \in Servers : pc[s] # "idle" /\ pc[t] # "idle" => s = t
  /\ \A q \in net : Live(q)
  /\ \A d \in Devices : \A r \in dirty[d] : copy[d][r].upd = 1
Focus == Interleaved \/ Alone
=============================================================================
