----------------------------- MODULE MC_Server -----------------------------
(* A local file, whose pool has one connection.                             *)
EXTENDS ServerProcess

CONSTANTS r1
=============================================================================
