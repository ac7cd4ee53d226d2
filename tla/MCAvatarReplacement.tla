------------------------ MODULE MCAvatarReplacement ------------------------
(***************************************************************************)
(* Finite instances of AvatarReplacement.                                  *)
(***************************************************************************)
EXTENDS AvatarReplacement, TLC

\* Users and requests are only ever compared for equality.
AvatarSymmetry == Permutations(Users) \union Permutations(Requests)
============================================================================
