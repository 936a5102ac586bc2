--------------------------- MODULE SessionFamilies ---------------------------
(***************************************************************************)
(* What a login promises its device: a session is one refresh token at a   *)
(* time.  Using it up gives the next one, to the same session; a session   *)
(* that has ended gives no more; no token is handed out twice.             *)
(***************************************************************************)
CONSTANT Tokens

VARIABLES
  live,   \* per session, named by its first token: those that can be used
  used    \* tokens that have been handed out

familyVars == <<live, used>>

Init == live = [f \in Tokens |-> {}] /\ used = {}

HandOut(k) == k \in Tokens \ used /\ used' = used \union {k}

Begin(k) == HandOut(k) /\ live[k] = {} /\ live' = [live EXCEPT ![k] = {k}]

Renew(f, k) == HandOut(k) /\ live[f] # {} /\ live' = [live EXCEPT ![f] = {k}]

(* Any number of sessions end at once.                                      *)
End ==
  /\ UNCHANGED used
  /\ live' \in [Tokens -> SUBSET Tokens] /\ \A f \in Tokens : live'[f] \in {live[f], {}}

Next ==
  \/ End
  \/ \E k \in Tokens : Begin(k) \/ \E f \in Tokens : Renew(f, k)

Spec == Init /\ [][Next]_familyVars
=============================================================================
