-------------------------- MODULE MCRefreshTokens --------------------------
(***************************************************************************)
(* Model values and symmetry for checking RefreshTokens.                   *)
(***************************************************************************)
EXTENDS RefreshTokens, TLC

(* Worker threads and token values are interchangeable. *)
Symmetry == Permutations(Procs) \cup Permutations(Tokens)
=============================================================================
