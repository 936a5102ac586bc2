----------------------------- MODULE MC_Sessions -----------------------------
(* Small instances of AuthSessions for TLC.                                 *)
EXTENDS AuthSessions, TLC

CONSTANTS p1, p2, k1, k2, k3

Symmetry == Permutations(Requests)

(* Pairs are issued in the order of their names: the others are renamings.  *)
InOrder == (Issued(k2) => Issued(k1)) /\ (Issued(k3) => Issued(k2))

(* Two parts of an instance are explored.  OneProcess: one process, up to   *)
(* three pairs, over two ticks, with every operation but unblock, and no    *)
(* reload.  Closed: two processes and one pair over more time, with logins, *)
(* refreshes, logouts and unblock, and the reloads of p1, which the third   *)
(* request there does not overlap.                                          *)
OneProcess ==
  /\ clock <= 2
  /\ \A r \in Requests : job[r].on # p2 /\ job[r].kind # "unblock"
  /\ \A s \in Processes : fetched[s] = Idle
  /\ heard[p2] = Nothing
Closed ==
  /\ begun <= 2 \/ (begun = 3 /\ clock <= 3 /\ fetched[p1] = Idle)
  /\ ~Issued(k2) /\ fetched[p2] = Idle
  /\ \A r \in Requests : job[r].kind \notin ClosingKinds \ {"unblock"}
Focus == InOrder /\ (OneProcess \/ Closed)
=============================================================================
