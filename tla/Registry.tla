------------------------------ MODULE Registry ------------------------------
(***************************************************************************)
(* What the portal promises about the tables, whatever requests overlap,   *)
(* fail or are cut short by a restart: they change by atomic steps of one  *)
(* user at a time, and no step leaves them inconsistent.  It says nothing  *)
(* of requests, sessions or statements.  Module Portal implements it with  *)
(* the same three variables, so the refinement mapping is the identity.    *)
(***************************************************************************)
EXTENDS Storage

\* Rows change only if they are, or become, rows of u.
ConfinedTo(u) ==
    /\ \A i \in TelestoId : telestos'[i] # telestos[i] =>
          IF telestos[i] # None THEN telestos[i].user = u ELSE telestos'[i].user = u
    /\ \A k \in TokenId : tokens'[k] # tokens[k] =>
          IF tokens[k] # None THEN tokens[k].user = u ELSE tokens'[k].user = u

\* A row that survives the step keeps its owner.  An authorization header or a
\* destination once set stays set; a token stays with its telesto, and a token
\* marked as seen is never unmarked.
KeepsIdentity ==
    /\ \A i \in Telestos : telestos'[i] # None =>
          /\ telestos'[i].user = telestos[i].user
          /\ telestos[i].auth => telestos'[i].auth
          /\ telestos[i].url # NoUrl => telestos'[i].url # NoUrl
    /\ \A k \in Tokens : tokens'[k] # None =>
          /\ tokens'[k].user = tokens[k].user
          /\ tokens'[k].telesto = tokens[k].telesto
          /\ tokens[k].seen => tokens'[k].seen

\* A row appears under an id never used before, unseen if it is a token.
AppearsFresh ==
    /\ \A i \in TelestoId \ Telestos : telestos'[i] # None => i \notin issued.telestos
    /\ \A k \in TokenId \ Tokens : tokens'[k] # None =>
          k \notin issued.tokens /\ ~tokens'[k].seen
    /\ issued.telestos \subseteq issued'.telestos
    /\ issued.tokens \subseteq issued'.tokens

Consistent == DbTypeOK /\ RowsAreIssued /\ TokenBelongsToOwner /\ UniqueNames

Act(u) == ConfinedTo(u) /\ KeepsIdentity /\ AppearsFresh /\ Consistent'

UserStep == \E u \in Owner : Act(u)

RegistrySpec == DbInit /\ [][UserStep]_dbVars
=============================================================================
