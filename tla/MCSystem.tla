------------------------------ MODULE MCSystem ------------------------------
(* Instances of System for TLC.                                            *)
EXTENDS System, TLC

MCAllRoutes == AllRoutes

\* What makes, shows and deletes the rows that the cluster serves.
MCSystemRoutes == {"NewTelestoSubmit", "DeleteTelesto", "NewTokenSubmit", "GetToken",
                   "DeleteToken"}

\* What can happen to a secret and to its token.
MCTokenRoutes == MCSystemRoutes \ {"DeleteTelesto"}

\* Everything that the cluster has to follow.
MCClusterRoutes == MCSystemRoutes \ {"GetToken"}

Symmetry == Permutations(Req) \cup Permutations(User)
            \cup Permutations(TelestoId) \cup Permutations(TokenId)
=============================================================================
