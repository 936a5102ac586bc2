-------------------------- MODULE OrderingRegister --------------------------
(***************************************************************************)
(* What the ordering of an account is to its devices: one register with a  *)
(* version.  A call is asked, takes effect at one moment or not at all,    *)
(* and ends.  A push is a compare-and-set on the version it was built on;  *)
(* one that loses, or a sync that pushes nothing, only reads.              *)
(***************************************************************************)
EXTENDS Integers

CONSTANTS Requests, Blobs, Empty, NoPush

VARIABLES
  reg,      \* version and blob
  phase,    \* of every request: "none", "asked" or "done"
  call,     \* what it asks for
  answer    \* what the register was when the call had taken effect

registerVars == <<reg, phase, call, answer>>

First == [ver |-> 0, blob |-> Empty]
Call == [kind : {"sync", "reset"}, base : Nat, push : Blobs \union {Empty, NoPush}]
NoCall == [kind |-> "reset", base |-> 0, push |-> NoPush]

After(g, c) ==
  CASE c.kind = "reset" -> [ver |-> g.ver + 1, blob |-> Empty]
    [] c.kind = "sync" /\ c.push # NoPush /\ c.base = g.ver -> [ver |-> g.ver + 1, blob |-> c.push]
    [] OTHER -> g

Init ==
  /\ reg = First /\ phase = [r \in Requests |-> "none"]
  /\ call = [r \in Requests |-> NoCall] /\ answer = [r \in Requests |-> First]

Ask(r) ==
  /\ phase[r] = "none" /\ phase' = [phase EXCEPT ![r] = "asked"]
  /\ call' \in [Requests -> Call] /\ \A q \in Requests \ {r} : call'[q] = call[q]
  /\ UNCHANGED <<reg, answer>>

TakeEffect(r) ==
  /\ phase[r] = "asked" /\ phase' = [phase EXCEPT ![r] = "done"]
  /\ reg' = After(reg, call[r])
  /\ answer' = [answer EXCEPT ![r] = reg'] /\ call' = [call EXCEPT ![r] = NoCall]

(* The answer has arrived or is lost, or there will be none.                *)
End(r) ==
  /\ phase[r] # "none" /\ phase' = [phase EXCEPT ![r] = "none"]
  /\ call' = [call EXCEPT ![r] = NoCall] /\ answer' = [answer EXCEPT ![r] = First]
  /\ UNCHANGED reg

Next == \E r \in Requests : Ask(r) \/ TakeEffect(r) \/ End(r)

Spec == Init /\ [][Next]_registerVars
=============================================================================
