----------------------------- MODULE MCIsolation -----------------------------
(***************************************************************************)
(* Instances of Portal and Isolation for TLC.  Viewer stands out among the *)
(* users; slots, ids and names do not.                                     *)
(***************************************************************************)
EXTENDS Isolation, TLC

\* The read routes left out run the statements of others.
MCPortalRoutes == AllRoutes \ {"EditTelesto", "EditToken", "NewToken"}

\* Of many users: an edited header only multiplies the states of a row.
MCRoutes == MCPortalRoutes \ {"EditTelestoSubmit"}

Symmetry == Permutations(Req) \cup Permutations(TelestoId) \cup Permutations(TokenId)
              \cup Permutations(Name)
=============================================================================
