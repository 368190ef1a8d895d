------------------------------- MODULE System -------------------------------
(***************************************************************************)
(* The portal and the cluster together.  They share the tables alone: the  *)
(* portal's requests write them (module Portal), the polls of the private  *)
(* server read them (module Provisioning), each in statements of its own   *)
(* between which the other goes on.                                        *)
(*                                                                         *)
(* Provisioning takes the portal for a step that an owner makes on his own *)
(* rows.  The system shows that this is what the portal's requests amount  *)
(* to: it implements Provisioning.                                         *)
(***************************************************************************)
EXTENDS Portal

CONSTANTS EmptyBodyIsEmptyList, Unreadable    \* as in module Provisioning

ASSUME SystemAssumption == EmptyBodyIsEmptyList \in BOOLEAN /\ NoUrl \notin Unreadable

VARIABLES
    argo, apps, deployed, poll, secret, collector,  \* as in module Provisioning
    person,     \* person[r] : the user who sent the request in slot r, whatever its ctx
    sent        \* history: sent[k], the persons that a page was sent the secret of k

Cluster == INSTANCE Provisioning WITH NoEndpoint <- NoUrl

pVars == <<argo, apps, deployed, poll, secret, collector>>
systemVars == <<telestos, tokens, issued, req, reveal,
                argo, apps, deployed, poll, secret, collector, person, sent>>

SystemInit ==
    /\ Init
    /\ Cluster!Init
    /\ person = [r \in Req |-> NoUser]
    /\ sent = [k \in TokenId |-> {}]

\* GetToken writes its page, which may or may not arrive.
Sends(r, k) == At(r, "render", {"GetToken"}) /\ req[r].token = k /\ req[r].secret

\* The request with the cookie of user u is that of person u, even if LoadSession
\* gets no answer and the context carries no session.
Arrives ==
    \E r \in Req, u \in User :
        LoadSession(r, u) /\ person' = [person EXCEPT ![r] = u]

\* Requests go on, end, or are lost.
GoesOn ==
    /\ (\E r \in Req : Serve(r)) \/ Crash
    /\ person' = [r \in Req |-> IF req'[r] = Idle THEN NoUser ELSE person[r]]

PortalRuns ==
    /\ Arrives \/ GoesOn
    /\ sent' = [k \in TokenId |->
                  sent[k] \cup {person[r] : r \in {q \in Req : Sends(q, k) /\ req'[q] # req[q]}}]
    /\ UNCHANGED pVars

ClusterRuns ==
    /\ Cluster!ClusterStep
    /\ UNCHANGED <<req, reveal, person, sent>>

SystemNext == PortalRuns \/ ClusterRuns

SystemSpec == SystemInit /\ [][SystemNext]_systemVars

\* The controllers poll.  Requests owe nothing: one that waits for Kratos, which is
\* asked without a timeout, may wait for ever.
FairSystemSpec == SystemSpec /\ Cluster!Fairness

-----------------------------------------------------------------------------
(* Properties.                                                             *)

\* The cluster sees of the portal's overlapping requests only steps that an owner
\* makes on his own rows; with it, all that holds of Provisioning holds here.
ImplementsProvisioning == Cluster!Spec

\* From end to end: whichever person was ever sent the secret of a token that the
\* collector of a telesto has loaded, deleted since or not, owns that telesto; or it
\* was stored without an owner, by a request whose session was not loaded.
OnlyOwnersSend ==
    \A i \in Telestos, k \in TokenId :
        collector[i] # None /\ k \in collector[i].tokens =>
            \A u \in sent[k] : telestos[i].user \in {u, NoUser}

\* A token that still exists is only loaded by the collector of a telesto that still
\* exists and belongs to the same user, however the polls lag behind the tables.
LoadedTokensAreOwned ==
    \A i \in TelestoId, k \in Tokens :
        collector[i] # None /\ k \in collector[i].tokens =>
            i \in Telestos /\ telestos[i].user = tokens[k].user

\* Users make no more requests from some moment on; those in flight may go on, or hang.
NoMoreRequests ==
    <>[][\A r \in Req : req[r].pc = "idle" => req'[r] = req[r]]_req

\* Then the cluster catches up with what they wrote, whatever failed in between, and
\* comes back from an outage in which a list was taken for empty.
CatchesUp == NoMoreRequests /\ Cluster!NoBlankLists => <>[]Cluster!Converged

-----------------------------------------------------------------------------
(* The inductive invariant.                                                *)

\* Where token k may get into, or has got into, the collector of telesto i.
Reaches(k, i) ==
    \/ k \in Tokens /\ tokens[k].telesto = i
    \/ secret[i].tokens # None /\ k \in secret[i].tokens
    \/ collector[i] # None /\ k \in collector[i].tokens

\* Person u was sent the secret of k, or is about to be.
Knows(u, k) ==
    \/ u \in sent[k]
    \/ \E r \in Req : req[r].secret /\ req[r].token = k /\ person[r] = u

\* A request acts for the person who sent it or for nobody.  A token only reaches the
\* telesto it was issued for; a known secret is that of a token that was the person's
\* own or nobody's, and so were the telestos that token reached: they keep their
\* owner, for ids are not given twice.
SystemInv ==
    /\ IInv
    /\ Cluster!TypeOK
    /\ person \in [Req -> Owner]
    /\ \A r \in Req : req[r].ctx \in {person[r], NoUser}
    /\ sent \in [TokenId -> SUBSET Owner]
    /\ \A k \in TokenId, i \in TelestoId : Reaches(k, i) =>
         /\ k \in issued.tokens /\ i \in issued.telestos
         /\ k \in Tokens => tokens[k].telesto = i
    /\ \A k \in TokenId, u \in Owner : Knows(u, k) =>
         /\ k \in issued.tokens
         /\ k \in Tokens => tokens[k].user \in {u, NoUser}
         /\ \A i \in Telestos : Reaches(k, i) => telestos[i].user \in {u, NoUser}

-----------------------------------------------------------------------------
(* A promise that the code does not keep.                                  *)

\* README.md:21, the tokens are "users' telesto tokens", to be loaded "by their
\* respective telesto instance for secure ingestion of telemetry": no two persons
\* are ever sent the secret of a token that a collector has loaded.
SecretsHaveOneOwner ==
    \A k \in TokenId : (\E i \in TelestoId : collector[i] # None /\ k \in collector[i].tokens)
                          => \A u, v \in sent[k] : u = v
=============================================================================
