--------------------------- MODULE MCProvisioning ---------------------------
(* Instances of Provisioning for TLC.                                      *)
EXTENDS Provisioning, TLC

Symmetry == Permutations(TelestoId) \cup Permutations(TokenId) \cup Permutations(Name)
=============================================================================
