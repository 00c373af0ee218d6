------------------------- MODULE MCCredentialStorage -------------------------
(* Instances of CredentialStorage for TLC.                                 *)
EXTENDS CredentialStorage, TLC

Symmetry ==
  Permutations(Ids) \cup Permutations(Users) \cup Permutations(RPs)
=============================================================================
