-------------------------- MODULE MCRefreshTokens --------------------------
(* RefreshTokens with two request slots. *)
EXTENDS RefreshTokens, TLC

Symmetry == Permutations(Callers)
=============================================================================
