---------------------------- MODULE TokenFamily ----------------------------
(***************************************************************************)
(* What the refresh-token endpoints promise, without a database, requests  *)
(* or users: a login opens a family (a session) with one live token; each  *)
(* refresh replaces the live token by a new one; a logout, a replay, an    *)
(* expiry or a version bump ends the family.  A spent token never comes    *)
(* back and an ended family never restarts.                                *)
(***************************************************************************)
CONSTANTS
  Tokens,    \* raw refresh-token values
  Families   \* family ids: one per login

VARIABLES
  live,      \* live[f]: the tokens of family f a client can still redeem
  spent      \* spent[f]: the tokens of family f that were redeemed or revoked

fvars == <<live, spent>>

Known(t) == \E f \in Families : t \in live[f] \cup spent[f]

Init ==
  /\ live  = [f \in Families |-> {}]
  /\ spent = [f \in Families |-> {}]

(* A login: a family id and a token nobody has seen. *)
Open(f, t) ==
  /\ live[f] = {} /\ spent[f] = {}
  /\ ~ Known(t)
  /\ live' = [live EXCEPT ![f] = {t}]
  /\ UNCHANGED spent

(* A refresh: the live token is spent and a new one takes its place. *)
Rotate(f, t, new) ==
  /\ live[f] = {t}
  /\ ~ Known(new)
  /\ live'  = [live EXCEPT ![f] = {new}]
  /\ spent' = [spent EXCEPT ![f] = @ \cup {t}]

(* The family's live token is revoked without a replacement. *)
End(f, t) ==
  /\ live[f] = {t}
  /\ live'  = [live EXCEPT ![f] = {}]
  /\ spent' = [spent EXCEPT ![f] = @ \cup {t}]

Next ==
  \E f \in Families, t \in Tokens :
    \/ Open(f, t)
    \/ \E new \in Tokens : Rotate(f, t, new)
    \/ End(f, t)

Spec == Init /\ [][Next]_fvars
=============================================================================
