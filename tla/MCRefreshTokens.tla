-------------------------- MODULE MCRefreshTokens --------------------------
(***************************************************************************)
(* Finite instances of RefreshTokens.                                      *)
(***************************************************************************)
EXTENDS RefreshTokens, TLC

\* Requests and users are interchangeable: nothing orders them.
RequestSymmetry == Permutations(Requests)
============================================================================
