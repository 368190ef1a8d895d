---------------------------- MODULE Provisioning ----------------------------
(***************************************************************************)
(* From the tables to the running collectors.  The private server          *)
(* (internal/server/private) is polled by two controllers: the             *)
(* ApplicationSet controller of Argo CD asks for the list of telestos and  *)
(* deploys one collector for each; the External Secrets Operator asks, per *)
(* deployed telesto, for its tokens and for its configuration and keeps    *)
(* each in a Kubernetes secret that the collector mounts.  The manifests   *)
(* in deploy/lib/telestodeployer wire them.                                *)
(*                                                                         *)
(* The handlers run two SELECTs each, and the portal may change the tables *)
(* between them; it does so by the atomic statements of module Storage     *)
(* (module System puts the portal's requests in their place).  The         *)
(* controllers are external: each works on one object with one worker, and *)
(* polls again.                                                            *)
(***************************************************************************)
EXTENDS Storage, TelestoConfig

CONSTANT
    EmptyBodyIsEmptyList \* Argo CD takes a 200 without a body as an empty list

ASSUME ProvisioningAssumption ==
    /\ EmptyBodyIsEmptyList \in BOOLEAN
    /\ NoEndpoint = NoUrl

VARIABLES
    argo,       \* the poll of the ApplicationSet controller in progress, and
                \* whether the list was read from an empty body
    apps,       \* the telestos that have an Argo CD Application
    deployed,   \* the telestos whose Application is synced to the cluster
    poll,       \* poll[i][kind] : the poll of an ExternalSecret in progress
    secret,     \* secret[i][kind] : the Kubernetes secret it maintains, or None
    collector   \* collector[i] : what the running collector loaded, or None

pVars == <<argo, apps, deployed, poll, secret, collector>>
vars == <<telestos, tokens, issued, argo, apps, deployed, poll, secret, collector>>

Kind == {"tokens", "config"}

\* The configurations that GenerateConfig can return.
Config == {GenerateConfig(url, ts) : url \in Url \cup {NoUrl}, ts \in SUBSET TokenId}

TypeOK ==
    /\ DbTypeOK
    /\ argo \in [pc: {"idle", "preload", "apply"}, list: SUBSET TelestoId, blank: BOOLEAN]
    /\ apps \subseteq TelestoId
    /\ deployed \subseteq TelestoId
    /\ poll \in [TelestoId -> [Kind -> Url \cup {NoUrl, None}]]
    /\ secret \in [TelestoId -> [tokens: (SUBSET TokenId) \cup {None},
                                 config: Config \cup {None}]]
    /\ collector \in [TelestoId -> [config: Config, tokens: SUBSET TokenId] \cup {None}]

NoList   == [pc |-> "idle", list |-> {}, blank |-> FALSE]
NoPoll   == [kind \in Kind |-> None]
NoSecret == [tokens |-> None, config |-> None]

Init ==
    /\ DbInit
    /\ argo = NoList
    /\ apps = {} /\ deployed = {}
    /\ poll = [i \in TelestoId |-> NoPoll]
    /\ secret = [i \in TelestoId |-> NoSecret]
    /\ collector = [i \in TelestoId |-> None]

-----------------------------------------------------------------------------
(* The portal: each of its statements that changes a row, by the owner of  *)
(* the row.  That a token is only inserted for a telesto of its owner is   *)
(* what the portal's handlers see to (module System).                      *)

PortalStep ==
    /\ \E u \in Owner :
        \/ \E i \in TelestoId, n \in Name, url \in Url \cup {NoUrl} :
              CreateTelesto(i, u, n, url)
        \/ \E i \in TelestosForUser(u), n \in Name, auth \in BOOLEAN :
              UpdateTelesto(u, i, n, NoUrl, auth)
        \/ \E i \in TelestosForUser(u) : DeleteTelesto(u, i)
        \/ \E k \in TokenId, i \in TelestosForUser(u), n \in Name : CreateToken(k, u, i, n)
        \/ \E k \in TokensForUser(u), n \in Name : UpdateToken(u, k, n)
        \/ \E k \in TokensForUser(u) : MarkTokenSeen(u, k) \/ DeleteToken(u, k)
    /\ UNCHANGED pVars

-----------------------------------------------------------------------------
(* POST /api/v1/getparams.execute, from the ApplicationSet controller.     *)

\* Faulty: only the telestos with tokens are listed.
ArgoSelectWithTokens ==
    /\ argo.pc = "idle"
    /\ argo' = [NoList EXCEPT !.pc = "preload",
                              !.list = {i \in Telestos : TokensOfTelestos({i}) # {}}]
    /\ UNCHANGED <<dbVars, apps, deployed, poll, secret, collector>>

\* GetAll without a user's scope.
ArgoSelect ==
    /\ argo.pc = "idle"
    /\ argo' = [NoList EXCEPT !.pc = "preload", !.list = Telestos]
    /\ UNCHANGED <<dbVars, apps, deployed, poll, secret, collector>>

\* The Preload only feeds tokensAvailable, which no manifest uses.
ArgoPreload ==
    /\ argo.pc = "preload"
    /\ argo' = [argo EXCEPT !.pc = "apply"]
    /\ UNCHANGED <<dbVars, apps, deployed, poll, secret, collector>>

\* On an error of GetAll the handler logs and returns: the answer is 200 with
\* an empty body.  What Argo CD makes of it is not decided in this repository.
ArgoFails ==
    /\ argo.pc \in {"idle", "preload"}
    /\ \/ argo' = NoList
       \/ EmptyBodyIsEmptyList /\ argo' = [pc |-> "apply", list |-> {}, blank |-> TRUE]
    /\ UNCHANGED <<dbVars, apps, deployed, poll, secret, collector>>

\* One Application per listed telesto, no other: the default policy of an
\* ApplicationSet creates and deletes.
ArgoApply ==
    /\ argo.pc = "apply"
    /\ apps' = argo.list
    /\ argo' = NoList
    /\ UNCHANGED <<dbVars, deployed, poll, secret, collector>>

\* automated sync: the Helm release with its two ExternalSecrets.
ArgoSync(i) ==
    /\ i \in apps \ deployed
    /\ deployed' = deployed \cup {i}
    /\ UNCHANGED <<dbVars, argo, apps, poll, secret, collector>>

\* The Application is gone, and with it everything it deployed.
ArgoPrune(i) ==
    /\ i \in deployed \ apps
    /\ deployed' = deployed \ {i}
    /\ poll' = [poll EXCEPT ![i] = NoPoll]
    /\ secret' = [secret EXCEPT ![i] = NoSecret]
    /\ collector' = [collector EXCEPT ![i] = None]
    /\ UNCHANGED <<dbVars, argo, apps>>

-----------------------------------------------------------------------------
(* GET /api/v1/telestos/{id}/tokens and .../config, from External Secrets. *)

\* Faulty: of the two ExternalSecrets that of the tokens is never refreshed.
SecretSelectTokensOnce(i, kind) ==
    /\ i \in deployed /\ poll[i][kind] = None
    /\ kind = "tokens" => secret[i].tokens = None
    /\ i \in Telestos
    /\ poll' = [poll EXCEPT ![i][kind] = telestos[i].url]
    /\ UNCHANGED <<dbVars, argo, apps, deployed, secret, collector>>

\* GetTelesto without a user's scope; the row's URL goes into the configuration.
SecretSelect(i, kind) ==
    /\ i \in deployed /\ poll[i][kind] = None
    /\ i \in Telestos
    /\ poll' = [poll EXCEPT ![i][kind] = telestos[i].url]
    /\ UNCHANGED <<dbVars, argo, apps, deployed, secret, collector>>

\* Faulty: the tokens of every telesto.
GetTelestoTokensOfAll(i) ==
    /\ poll[i]["tokens"] # None
    /\ secret' = [secret EXCEPT ![i].tokens = Tokens]
    /\ poll' = [poll EXCEPT ![i]["tokens"] = None]
    /\ UNCHANGED <<dbVars, argo, apps, deployed, collector>>

\* The Preload; then the handler renders the answer and the operator stores it.
GetTelestoTokens(i) ==
    /\ poll[i]["tokens"] # None
    /\ secret' = [secret EXCEPT ![i].tokens = TokensOfTelestos({i})]
    /\ poll' = [poll EXCEPT ![i]["tokens"] = None]
    /\ UNCHANGED <<dbVars, argo, apps, deployed, collector>>

\* Faulty: the error of GetTelesto is not looked at.
GetTelestoConfigUnchecked(i) ==
    /\ i \in deployed
    /\ secret' = [secret EXCEPT ![i].config =
                    GenerateConfig(poll[i]["config"], TokensOfTelestos({i}))]
    /\ poll' = [poll EXCEPT ![i]["config"] = None]
    /\ UNCHANGED <<dbVars, argo, apps, deployed, collector>>

GetTelestoConfig(i) ==
    /\ poll[i]["config"] # None
    /\ secret' = [secret EXCEPT ![i].config =
                    GenerateConfig(poll[i]["config"], TokensOfTelestos({i}))]
    /\ poll' = [poll EXCEPT ![i]["config"] = None]
    /\ UNCHANGED <<dbVars, argo, apps, deployed, collector>>

\* A failed statement ends the request with an empty 200, as an unknown telesto
\* does.  The operator finds no value in it and keeps the secret it has.
SecretFails(i, kind) ==
    /\ poll[i][kind] # None
    /\ poll' = [poll EXCEPT ![i][kind] = None]
    /\ UNCHANGED <<dbVars, argo, apps, deployed, secret, collector>>

-----------------------------------------------------------------------------
(* The collector.                                                          *)

\* The pod (re)starts, at first or because Reloader saw a secret change.  The
\* configuration is not optional, the token file is; without the file the
\* authenticator, if enabled, does not start, and the old pod stays.
RollOut(i) ==
    /\ i \in deployed
    /\ secret[i].config # None
    /\ Starts(secret[i].config)
    /\ Authenticator \in secret[i].config.enabled => secret[i].tokens # None
    /\ LET loaded == [config |-> secret[i].config,
                      tokens |-> IF secret[i].tokens = None THEN {} ELSE secret[i].tokens]
       IN  /\ collector[i] # loaded
           /\ collector' = [collector EXCEPT ![i] = loaded]
    /\ UNCHANGED <<dbVars, argo, apps, deployed, poll, secret>>

\* The authenticator watches its file, which changes without a restart.
ReloadTokens(i) ==
    /\ collector[i] # None
    /\ secret[i].tokens # None
    /\ collector[i].tokens # secret[i].tokens
    /\ collector' = [collector EXCEPT ![i].tokens = secret[i].tokens]
    /\ UNCHANGED <<dbVars, argo, apps, deployed, poll, secret>>

-----------------------------------------------------------------------------
ClusterStep ==
    \/ ArgoSelect \/ ArgoPreload \/ ArgoFails \/ ArgoApply
    \/ \E i \in TelestoId :
         \/ ArgoSync(i) \/ ArgoPrune(i)
         \/ \E kind \in Kind : SecretSelect(i, kind) \/ SecretFails(i, kind)
         \/ GetTelestoTokens(i) \/ GetTelestoConfig(i)
         \/ RollOut(i) \/ ReloadTokens(i)

Next == PortalStep \/ ClusterStep

Spec == Init /\ [][Next]_vars

\* Both controllers poll for ever (requeue 10s, refresh 5s) and statements do
\* not fail for ever: a poll that is tried again and again is answered.
Fairness ==
    /\ WF_vars(ArgoSelect) /\ SF_vars(ArgoPreload) /\ WF_vars(ArgoApply)
    /\ \A i \in TelestoId :
         /\ WF_vars(ArgoSync(i)) /\ WF_vars(ArgoPrune(i))
         /\ \A kind \in Kind : SF_vars(SecretSelect(i, kind))
         /\ SF_vars(GetTelestoTokens(i)) /\ SF_vars(GetTelestoConfig(i))
         /\ SF_vars(RollOut(i))

FairSpec == Spec /\ Fairness

-----------------------------------------------------------------------------
(* Properties.                                                             *)

\* The collector of telesto i lets in telemetry sent with token k.
Accepts(i, k) ==
    /\ collector[i] # None
    /\ Listens(collector[i].config)
    /\ k \in collector[i].tokens

\* A collector never holds a token of another telesto, whether it listens or not,
\* even while secrets and collectors lag behind the tables.
TokensStayHome ==
    \A i \in TelestoId, k \in Tokens :
        collector[i] # None /\ k \in collector[i].tokens => tokens[k].telesto = i

\* A list that was read from the tables, however old it is when it is applied, takes
\* down no telesto but those that were deleted.
PrunedOnlyIfDeleted ==
    [][~argo.blank => \A i \in apps \ apps' : i \notin Telestos]_vars

\* A deleted token, whose id is never given again, is sooner or later refused for good.
RevocationTakesEffect ==
    \A k \in TokenId : <>[](k \in issued.tokens \ Tokens)
                          => <>[](\A i \in TelestoId : ~Accepts(i, k))

\* What runs is what the tables say: exactly the telestos that exist, each with its
\* tokens, which it lets in, and the configuration of its row; but one whose
\* configuration cannot be read does not run.
Converged ==
    /\ apps = Telestos /\ deployed = Telestos
    /\ \A i \in TelestoId :
         IF i \in Telestos /\ telestos[i].url \notin Unreadable
           THEN /\ collector[i] =
                      [config |-> GenerateConfig(telestos[i].url, TokensOfTelestos({i})),
                       tokens |-> TokensOfTelestos({i})]
                /\ \A k \in TokensOfTelestos({i}) : Accepts(i, k)
           ELSE collector[i] = None

\* Users leave the tables alone from some moment on; failed reads of the list are no
\* longer taken for empty lists.
Quiet == <>[][FALSE]_dbVars
NoBlankLists == <>[]~argo.blank

\* Then the cluster catches up with what the users wrote, after any outage.
Converges == Quiet /\ NoBlankLists => <>[]Converged

\* The inductive invariant of the safety properties: whatever is stored or loaded
\* for telesto i was issued, and is a token of i if it still exists; a telesto
\* with an Application was issued, and one that is missing in a list read from the
\* tables is gone.
OfTelesto(i, ks) == \A k \in ks : k \in issued.tokens
                                    /\ (k \in Tokens => tokens[k].telesto = i)

PInv ==
    /\ TypeOK
    /\ RowsAreIssued
    /\ \A i \in TelestoId :
         /\ secret[i].tokens # None => OfTelesto(i, secret[i].tokens)
         /\ collector[i] # None => OfTelesto(i, collector[i].tokens)
    /\ apps \subseteq issued.telestos
    /\ argo.list \subseteq issued.telestos
    /\ argo.pc # "idle" /\ ~argo.blank =>
         \A i \in apps \ argo.list : i \notin Telestos

-----------------------------------------------------------------------------
(* Promises that the code does not keep.                                   *)

\* README.md:20, Argo CD is to "Manage lifecycle of deployable telesto instances in
\* Kubernetes created on telesto by users.": an Application goes only with its
\* telesto.
LifecycleFollowsUsers == [][\A i \in apps \ apps' : i \notin Telestos]_vars

\* templates/pages/telestos/new.templ:18 asks for a "Destination URL" and takes any
\* text: a telesto that exists is, sooner or later, run.
EveryTelestoRuns ==
    \A i \in TelestoId : i \in Telestos ~> i \notin Telestos \/ collector[i] # None

\* templates/pages/telestos/edit.templ:23, on the field for the authorization
\* header: "Add/Update a Non Base64 Authorization Header Value"; the page of
\* the telesto then says that it is SET.  It is meant for the exporter.
HeaderReachesCollector ==
    \A i \in TelestoId :
        (i \in Telestos /\ telestos[i].url # NoUrl /\ telestos[i].auth)
           ~> \/ i \notin Telestos
              \/ secret[i].config # None /\ secret[i].config.header
=============================================================================
