------------------------------ MODULE Isolation ------------------------------
(***************************************************************************)
(* What one user can notice of the others: nothing.  Whatever requests of  *)
(* other users overlap with those of Viewer, fail or die with the process, *)
(* Viewer's rows, requests and pages go through a behaviour that the       *)
(* portal has when Viewer is its only user.  The abstract specification is *)
(* the portal itself, instantiated for {Viewer}; the refinement mapping    *)
(* leaves out the rows, the requests and the secrets of everybody else.    *)
(***************************************************************************)
EXTENDS Portal

CONSTANT Viewer     \* any one user

ASSUME IsolationAssumption == Viewer \in User

VARIABLE mine       \* history: the ids that Viewer's rows were ever given

isolationVars == <<telestos, tokens, issued, req, reveal, mine>>

IsolationInit == Init /\ mine = [telestos |-> {}, tokens |-> {}]

IsolationNext ==
    /\ Next
    /\ mine' = [telestos |-> mine.telestos \cup TelestosForUser(Viewer)',
                tokens   |-> mine.tokens \cup TokensForUser(Viewer)']

IsolationSpec == IsolationInit /\ [][IsolationNext]_isolationVars

-----------------------------------------------------------------------------
(* The refinement mapping.                                                 *)

OwnTelestos ==
    [i \in TelestoId |-> IF i \in TelestosForUser(Viewer) THEN telestos[i] ELSE None]

OwnTokens ==
    [k \in TokenId |-> IF k \in TokensForUser(Viewer) THEN tokens[k] ELSE None]

\* The id of a token that was never Viewer's is as good as one never issued: a
\* request for it is not late.
OwnReq ==
    [r \in Req |-> IF req[r].ctx = Viewer
                     THEN [req[r] EXCEPT !.late = @ /\ req[r].token \in mine.tokens]
                     ELSE Idle]

OwnReveal == [k \in TokenId |-> IF k \in mine.tokens THEN reveal[k] ELSE "never"]

Alone == INSTANCE Portal WITH
            User     <- {Viewer},
            telestos <- OwnTelestos,
            tokens   <- OwnTokens,
            issued   <- mine,
            req      <- OwnReq,
            reveal   <- OwnReveal

\* Every page, redirect and effect that Viewer gets is one the portal gives a
\* user who has it to himself.  It covers what the scopes of single statements
\* do not: unscoped preloads, the foreign key, the inserts, ids of others put
\* into one's own URLs.
AsIfAlone == Alone!Spec

-----------------------------------------------------------------------------
(* The inductive invariant that relates the history to the rest.           *)

\* Requests of others hold no id of Viewer's; Viewer's hold no other.
Apart(r) ==
    IF req[r].ctx = Viewer
      THEN req[r].telestoRows \subseteq mine.telestos /\ req[r].tokenRows \subseteq mine.tokens
      ELSE req[r].tokenRows \cap mine.tokens = {}

MineInv ==
    /\ mine.telestos \subseteq issued.telestos
    /\ mine.tokens \subseteq issued.tokens
    /\ TelestosForUser(Viewer) = mine.telestos \cap Telestos
    /\ TokensForUser(Viewer) = mine.tokens \cap Tokens
    /\ \A k \in TokenId : reveal[k] # "never" => k \in issued.tokens
    /\ \A r \in Req : Apart(r)

IsolationInv ==
    /\ mine \in [telestos: SUBSET TelestoId, tokens: SUBSET TokenId]
    /\ IInv
    /\ MineInv
=============================================================================
