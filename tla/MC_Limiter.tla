----------------------------- MODULE MC_Limiter ------------------------------
(* A small instance of RateLimiter for TLC.                                *)
EXTENDS RateLimiter, TLC

(* The switches, which nothing but the stage of a request depends on, are   *)
(* explored while the clock shows 0.                                        *)
Focus == clock = 0 \/ (enabled /\ excused = {} /\ exempt = [k \in Keys |-> FALSE])
=============================================================================
