------------------------------ MODULE MCPortal ------------------------------
(***************************************************************************)
(* Instances of Portal for TLC: which routes each question needs, and the  *)
(* symmetries of the constants.                                            *)
(***************************************************************************)
EXTENDS Portal, TLC

MCAllRoutes == AllRoutes

\* Everything that can happen to a secret: its row is created, shown, renamed
\* and deleted.
MCSecretRoutes == {"NewTelestoSubmit", "NewTokenSubmit", "GetToken",
                   "EditTokenSubmit", "DeleteToken"}

\* Slots, users, ids and names are interchangeable.
Symmetry == Permutations(Req) \cup Permutations(User)
            \cup Permutations(TelestoId) \cup Permutations(TokenId)
            \cup Permutations(Name)
=============================================================================
