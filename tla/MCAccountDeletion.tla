------------------------- MODULE MCAccountDeletion -------------------------
(***************************************************************************)
(* Model values for AccountDeletion.  Tokens are numbers; no symmetry, for *)
(* a liveness property is checked.                                         *)
(***************************************************************************)
EXTENDS AccountDeletion
=============================================================================
