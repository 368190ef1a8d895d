-------------------------------- MODULE Serve --------------------------------
(***************************************************************************)
(* telesto-server as a process: the command serve                          *)
(* (internal/server/cli/serve.go) loads its configuration, connects to the *)
(* database and runs the public and the private server, in a pod of a      *)
(* Deployment that Reloader renews whenever the configuration changes.     *)
(* The private server lets in whoever sends the bearer token of the route. *)
(*                                                                         *)
(* The configuration is a secret that the operator replaces, one version   *)
(* after the other; the clients' copies of the tokens are secrets of their *)
(* own.  Kubernetes is external: it keeps one ready pod through a roll-out *)
(* (replicas 1, the default maxSurge and maxUnavailable), restarts a       *)
(* process that exits, and asks the public server alone whether the pod is *)
(* ready; how often it asks is left open.                                  *)
(***************************************************************************)
EXTENDS Integers, Sequences

CONSTANTS
    Pod,        \* names of pods
    Token,      \* bearer tokens
    Versions,   \* the sequence of configurations that the operator rolls out
    None        \* no pod

Server == {"public", "private"}

\* The clients of the private server, named for their section of its configuration.
Client == {"telestoDeployer", "externalSecrets"}

\* A file that is parsed and validated, or not; whether to migrate; a CA file that can
\* be read; the address and the key pair of each server; the token of each client.
Config == [valid: BOOLEAN, migrate: BOOLEAN, ca: BOOLEAN,
           address: [Server -> {":80", ":443", ":8443"}],
           keyPair: [Server -> BOOLEAN], token: [Client -> Token]]

ASSUME ServeAssumption == Versions \in Seq(Config) /\ Len(Versions) > 0

Version == 1 .. Len(Versions)

VARIABLES
    config,     \* the version in the secret
    wanted,     \* the version that Reloader has told the Deployment of
    creds,      \* creds[c] : the version that client c has its token from
    db,         \* the database answers
    pods,       \* pods[p] : the pod p, or None
    last,       \* last[c] : the answer to the last poll of client c
    calm        \* nothing changes, fails or is killed from now on

vars == <<config, wanted, creds, db, pods, last, calm>>

\* Of a process: off, then stepwise up to its two servers.
Phase == {"off", "loaded", "connected", "serving"}

PodRecord == [rev: Version, loaded: Version, phase: Phase, migrated: BOOLEAN,
              server: [Server -> {"off", "up", "failed"}], ready: BOOLEAN]

Off == [s \in Server |-> "off"]

Pods == {p \in Pod : pods[p] # None}

\* A server that is up or has failed belongs to a process that has its storage.
TypeOK ==
    /\ {config, wanted} \subseteq Version /\ creds \in [Client -> Version]
    /\ db \in BOOLEAN /\ calm \in BOOLEAN
    /\ pods \in [Pod -> PodRecord \cup {None}]
    /\ \A p \in Pods : pods[p].phase # "serving" => pods[p].server = Off
    /\ last \in [Client -> {"none", "200", "401", "refused"}]

NewPod == [rev |-> wanted, loaded |-> wanted, phase |-> "off", migrated |-> FALSE,
           server |-> Off, ready |-> FALSE]

Init ==
    /\ config = 1 /\ wanted = 1 /\ creds = [c \in Client |-> 1]
    /\ db \in BOOLEAN /\ calm = FALSE
    /\ pods = [p \in Pod |-> None]
    /\ last = [c \in Client |-> "none"]

In(p, phase) == pods[p] # None /\ pods[p].phase = phase

Loaded(p) == Versions[pods[p].loaded]

Only(p, record) ==
    /\ pods' = [pods EXCEPT ![p] = record]
    /\ UNCHANGED <<config, wanted, creds, db, last, calm>>

-----------------------------------------------------------------------------
(* The process.                                                            *)

\* A process that ends takes both its servers with it.
Exit(p) == Only(p, [pods[p] EXCEPT !.phase = "off", !.server = Off])

\* PreRunE: loadViperConfig, then config.Validate.  The file is as mounted with the
\* pod, or newer.
Load(p) ==
    /\ In(p, "off")
    /\ \E v \in pods[p].rev .. config :
          /\ Versions[v].valid
          /\ Only(p, [pods[p] EXCEPT !.phase = "loaded", !.loaded = v])

\* Faulty: a database that does not answer is only logged.
NewStorageLogged(p) ==
    /\ In(p, "loaded")
    /\ Only(p, [pods[p] EXCEPT !.phase = "connected",
                                !.migrated = db /\ Loaded(p).migrate])

\* gorm.Open and, if it is configured, AutoMigrate, or a panic.
NewStorage(p) ==
    /\ In(p, "loaded")
    /\ IF db THEN Only(p, [pods[p] EXCEPT !.phase = "connected",
                                          !.migrated = Loaded(p).migrate])
             ELSE Exit(p)

\* public.NewServer reads the CA file, or panics.
NewServers(p) ==
    /\ In(p, "connected")
    /\ IF Loaded(p).ca THEN Only(p, [pods[p] EXCEPT !.phase = "serving"]) ELSE Exit(p)

\* A server binds its address, then loads its key pair; its error is dropped.
Binds(p, s) ==
    \A other \in Server :
        pods[p].server[other] = "up" => Loaded(p).address[other] # Loaded(p).address[s]

\* Faulty: the servers are started before there is a storage.
ServeEarly(p, s) ==
    /\ In(p, "loaded") \/ In(p, "serving")
    /\ pods[p].server[s] = "off"
    /\ Only(p, [pods[p] EXCEPT !.server[s] =
                    IF Binds(p, s) /\ Loaded(p).keyPair[s] THEN "up" ELSE "failed"])

Serve(p, s) ==
    /\ In(p, "serving") /\ pods[p].server[s] = "off"
    /\ Only(p, [pods[p] EXCEPT !.server[s] =
                    IF Binds(p, s) /\ Loaded(p).keyPair[s] THEN "up" ELSE "failed"])

\* Nobody is left to wake the wait group: the Go runtime may notice and exit.
AllAsleep(p) ==
    /\ In(p, "serving")
    /\ \A s \in Server : pods[p].server[s] = "failed"
    /\ Exit(p)

-----------------------------------------------------------------------------
(* The private server's middleware.                                        *)

\* Faulty: the whole header is compared with the token.
BearerTokenWithoutSchema(token, header) == header = <<token>>

\* header is what strings.Split makes of it, never empty.
BearerToken(token, header) ==
    /\ Len(header) = 2
    /\ header[1] = "Bearer"
    /\ header[2] = token

\* Faulty: the two middlewares are swapped.
GuardSwapped(route) ==
    IF route = "getparams.execute" THEN "externalSecrets" ELSE "telestoDeployer"

\* Whose token opens a route.
Guard(route) ==
    IF route = "getparams.execute" THEN "telestoDeployer" ELSE "externalSecrets"

Route == {"getparams.execute", "tokens", "config"}

Accepts(p, route, header) ==
    /\ pods[p].server["private"] = "up"
    /\ BearerToken(Loaded(p).token[Guard(route)], header)

\* What the manifests make of the routes: whom each is for.
RoutesFor(c) == IF c = "telestoDeployer" THEN {"getparams.execute"} ELSE {"tokens", "config"}

\* A client's request goes to a ready pod.
Poll(c) ==
    /\ LET header == <<"Bearer", Versions[creds[c]].token[c]>>
           ready  == {p \in Pods : pods[p].ready}
           answer(p, route) ==
             CASE pods[p].server["private"] # "up" -> "refused"
               [] Accepts(p, route, header) -> "200"
               [] OTHER -> "401"
       IN  \/ /\ ready = {}
              /\ last' = [last EXCEPT ![c] = "refused"]
           \/ \E p \in ready, route \in RoutesFor(c) :
                 last' = [last EXCEPT ![c] = answer(p, route)]
    /\ UNCHANGED <<config, wanted, creds, db, pods, calm>>

-----------------------------------------------------------------------------
(* The operator, Reloader and Kubernetes.                                  *)

\* The next version of the secret; the clients' secrets follow, each on its own.
ApplyConfig ==
    /\ ~calm /\ config < Len(Versions)
    /\ config' = config + 1
    /\ UNCHANGED <<wanted, creds, db, pods, last, calm>>

ApplyCreds(c) ==
    /\ creds[c] # config
    /\ creds' = [creds EXCEPT ![c] = config]
    /\ UNCHANGED <<config, wanted, db, pods, last, calm>>

\* reloader.stakater.com/auto
Reload ==
    /\ wanted # config /\ wanted' = config
    /\ UNCHANGED <<config, creds, db, pods, last, calm>>

CreatePod(p) ==
    /\ pods[p] = None
    /\ \A q \in Pods : pods[q].rev # wanted
    /\ \A q1, q2 \in Pods : q1 = q2
    /\ Only(p, NewPod)

\* An old pod goes when another is ready, or if it is not ready and not needed.
DeletePod(p) ==
    /\ pods[p] # None /\ pods[p].rev # wanted
    /\ \E q \in Pods \ {p} : \/ pods[q].ready
                             \/ ~pods[p].ready /\ pods[q].rev # wanted
    /\ Only(p, None)

\* readinessProbe, GET /ping of the public server
Probe(p) ==
    /\ pods[p] # None
    /\ Only(p, [pods[p] EXCEPT !.ready = (pods[p].server["public"] = "up")])

Kill(p) == ~calm /\ pods[p] # None /\ Exit(p)

DbFails ==
    /\ ~calm /\ db' = ~db
    /\ UNCHANGED <<config, wanted, creds, pods, last, calm>>

Settle ==
    /\ ~calm /\ db /\ calm' = TRUE
    /\ UNCHANGED <<config, wanted, creds, db, pods, last>>

-----------------------------------------------------------------------------
Run(p) == Load(p) \/ NewStorage(p) \/ NewServers(p) \/ \E s \in Server : Serve(p, s)

Next ==
    \/ \E p \in Pod : \/ Run(p) \/ AllAsleep(p) \/ Kill(p)
                      \/ CreatePod(p) \/ DeletePod(p) \/ Probe(p)
    \/ \E c \in Client : Poll(c) \/ ApplyCreds(c)
    \/ ApplyConfig \/ Reload \/ DbFails \/ Settle

Spec == Init /\ [][Next]_vars

\* A process runs, the controllers and the probe do their work, clients poll.
FairSpec ==
    /\ Spec
    /\ WF_vars(Reload)
    /\ \A p \in Pod : WF_vars(Run(p)) /\ WF_vars(CreatePod(p)) /\ WF_vars(DeletePod(p))
                        /\ WF_vars(Probe(p))
    /\ \A c \in Client : WF_vars(Poll(c)) /\ WF_vars(ApplyCreds(c))

-----------------------------------------------------------------------------
(* Properties.                                                             *)

\* Headers as strings.Split takes them apart: too short, with two words, too long.
Header == {<<"">>, <<"Bearer">>} \cup ({"Bearer", "Basic"} \X Token)
            \cup {<<"Bearer", t, t>> : t \in Token}

\* Once the roll-out of a configuration is over, a route of the private server lets in
\* the client it is for, by its current token, and nobody else: no token that was
\* rotated out, none of the other client, no malformed header.
OnlyCurrentTokens ==
    (\A p \in Pods : pods[p].rev = config) =>
        \A p \in Pods, c \in Client, header \in Header : \A route \in RoutesFor(c) :
            Accepts(p, route, header) => header = <<"Bearer", Versions[config].token[c]>>

\* No version gives one client a token that another version gives the other.
TokensDiffer ==
    \A v, w \in Version :
        Versions[v].token["telestoDeployer"] # Versions[w].token["externalSecrets"]

\* If the clients' tokens differ, the routes that hand out the tokens of telestos stay
\* closed to the deployer at every moment of every roll-out, and its route to the
\* external secrets.
TokensOpenTheirRoute ==
    TokensDiffer =>
        \A p \in Pods, c \in Client, v \in Version : \A route \in Route \ RoutesFor(c) :
            ~Accepts(p, route, <<"Bearer", Versions[v].token[c]>>)

\* The version in the secret is one with which both servers can run, on tables that
\* are migrated (telesto/main.libsonnet:173).
Sound ==
    LET c == Versions[config] IN
      /\ c.valid /\ c.migrate /\ c.ca
      /\ c.keyPair["public"] /\ c.keyPair["private"]
      /\ c.address["public"] # c.address["private"]

Serving(p) ==
    /\ In(p, "serving") /\ pods[p].ready /\ pods[p].migrated
    /\ \A s \in Server : pods[p].server[s] = "up"
    /\ pods[p].loaded = config

\* Whatever failed or was killed before, in whichever phase: when nothing does any more,
\* a pod serves the configuration in the secret, on tables that are migrated.
ComesBack == calm /\ Sound ~> \E p \in Pods : Serving(p)

\* A client whose token was changed, before or after the server's, is let in again.
PollsSucceed == \A c \in Client : calm /\ Sound ~> last[c] = "200"

\* serve.go:59, "run servers": a pod that takes requests runs both.
BothServersRun ==
    \A p \in Pods : pods[p].ready => \A s \in Server : pods[p].server[s] # "failed"
=============================================================================
