---------------------------- MODULE MC_Admission -----------------------------
(* A sync and a reset of one account, and a sync of another.                *)
EXTENDS SyncAdmission, TLC

CONSTANTS r1, r2, r3, u1, u2

Owner == r1 :> u1 @@ r2 :> u1 @@ r3 :> u2
=============================================================================
