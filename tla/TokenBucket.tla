----------------------------- MODULE TokenBucket -----------------------------
(***************************************************************************)
(* What a rate limit by key promises: a bucket for each key, which fills   *)
(* up to Burst; a request passes when the bucket of its key holds its      *)
(* cost, which it takes, and is refused otherwise.                         *)
(*                                                                         *)
(* The limiter forgets keys.  It may do so only with a bucket that is      *)
(* full, and what it gives away then is the answers of requests that were  *)
(* asking at that moment: they are adrift, and what they are told says     *)
(* nothing of the bucket.                                                  *)
(***************************************************************************)
EXTENDS Integers

CONSTANTS Requests, Keys, NoKey, Cost, Burst

VARIABLES level, asks, passed, adrift
bucketVars == <<level, asks, passed, adrift>>

Init ==
  /\ level = [k \in Keys |-> Burst]
  /\ asks = [r \in Requests |-> NoKey]
  /\ passed = {} /\ adrift = {}

Fill ==
  /\ level' = [k \in Keys |-> IF level[k] < Burst THEN level[k] + 1 ELSE Burst]
  /\ UNCHANGED <<asks, passed, adrift>>

Ask(r, k) ==
  /\ asks[r] = NoKey /\ r \notin passed
  /\ asks' = [asks EXCEPT ![r] = k] /\ UNCHANGED <<level, passed, adrift>>

Pass(r) ==
  /\ asks[r] \in Keys /\ r \notin adrift
  /\ level[asks[r]] >= Cost
  /\ level' = [level EXCEPT ![asks[r]] = @ - Cost]
  /\ asks' = [asks EXCEPT ![r] = NoKey] /\ passed' = passed \union {r}
  /\ UNCHANGED adrift

Refuse(r) ==
  /\ asks[r] \in Keys /\ r \notin adrift
  /\ level[asks[r]] < Cost
  /\ asks' = [asks EXCEPT ![r] = NoKey]
  /\ UNCHANGED <<level, passed, adrift>>

AnswerAdrift(r) ==
  /\ asks[r] \in Keys /\ r \in adrift
  /\ adrift' = adrift \ {r}
  /\ asks' = [asks EXCEPT ![r] = NoKey] /\ passed' \in {passed, passed \union {r}}
  /\ UNCHANGED level

Leave(r) ==
  /\ r \in passed
  /\ passed' = passed \ {r} /\ UNCHANGED <<level, asks, adrift>>

Forget(k) ==
  /\ level[k] = Burst
  /\ adrift' \in {adrift \union S : S \in SUBSET {r \in Requests : asks[r] = k}}
  /\ UNCHANGED <<level, asks, passed>>

Next ==
  \/ Fill
  \/ \E r \in Requests : Pass(r) \/ Refuse(r) \/ AnswerAdrift(r) \/ Leave(r)
                         \/ \E k \in Keys : Ask(r, k)
  \/ \E k \in Keys : Forget(k)

Spec == Init /\ [][Next]_bucketVars
=============================================================================
