----------------------------- MODULE AccountGate -----------------------------
(***************************************************************************)
(* What the handlers of an account's writes rely on: one request of an     *)
(* account at a time is inside, and at most MaxSlots of those that are     *)
(* inside hold a decoded body.                                             *)
(***************************************************************************)
EXTENDS Integers, FiniteSets

CONSTANTS Requests, UserOf, MaxSlots

VARIABLES inside, bodies

gateVars == <<inside, bodies>>

Init == inside = {} /\ bodies = {}

Enter(r) ==
  /\ r \notin inside /\ \A q \in inside : UserOf[q] # UserOf[r]
  /\ inside' = inside \union {r} /\ UNCHANGED bodies

TakeBody(r) ==
  /\ r \in inside \ bodies /\ Cardinality(bodies) < MaxSlots
  /\ bodies' = bodies \union {r} /\ UNCHANGED inside

GiveBody(r) ==
  /\ r \in bodies
  /\ bodies' = bodies \ {r} /\ UNCHANGED inside

Leave(r) ==
  /\ r \in inside \ bodies
  /\ inside' = inside \ {r} /\ UNCHANGED bodies

Next == \E r \in Requests : Enter(r) \/ TakeBody(r) \/ GiveBody(r) \/ Leave(r)

Spec == Init /\ [][Next]_gateVars
=============================================================================
