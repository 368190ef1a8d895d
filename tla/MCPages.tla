------------------------------- MODULE MCPages -------------------------------
(***************************************************************************)
(* Instances of Pages for TLC.                                             *)
(***************************************************************************)
EXTENDS Pages, TLC

Symmetry == Permutations(Tab) \cup Permutations(TelestoId) \cup Permutations(TokenId)
              \cup Permutations(Name)
=============================================================================
