------------------------------ MODULE ServeProofs ------------------------------
(***************************************************************************)
(* What holds of Serve for any sequence of configurations and any number   *)
(* of pods.                                                                *)
(***************************************************************************)
EXTENDS Serve, TLAPS

\* TypeOK with what makes it inductive: Reloader and the processes follow the secret
\* and never overtake it, and a process has read the file of its pod or a newer one.
IInv ==
    /\ TypeOK
    /\ wanted <= config
    /\ \A p \in Pods : pods[p].rev <= pods[p].loaded /\ pods[p].loaded <= config

\* Versions are numbered from one.
LEMMA VersionIsNat == Version \subseteq Nat /\ 1 \in Version
  BY ServeAssumption DEF Version

\* No server is running.
LEMMA OffIsType == Off \in [Server -> {"off", "up", "failed"}]
  BY DEF Off

\* A step that gives pod p another record keeps the invariant if the record keeps it.
LEMMA OnlyKeeps ==
    ASSUME IInv, NEW p \in Pod, NEW record \in PodRecord, Only(p, record),
           record.phase # "serving" => record.server = Off,
           record.rev <= record.loaded, record.loaded <= config
    PROVE  IInv'
<1>1. pods' = [pods EXCEPT ![p] = record] /\ UNCHANGED <<config, wanted, creds, db, last, calm>>
  BY DEF Only
<1>2. pods' \in [Pod -> PodRecord \cup {None}]
  BY <1>1 DEF IInv, TypeOK
<1>3. \A q \in Pod : pods'[q] = IF q = p THEN record ELSE pods[q]
  BY <1>1 DEF IInv, TypeOK
<1>4. \A q \in Pods' : pods'[q].phase # "serving" => pods'[q].server = Off
  BY <1>3 DEF IInv, TypeOK, Pods
<1>5. \A q \in Pods' : pods'[q].rev <= pods'[q].loaded /\ pods'[q].loaded <= config'
  BY <1>1, <1>3 DEF IInv, Pods
<1> QED
  BY <1>1, <1>2, <1>4, <1>5 DEF IInv, TypeOK

\* A record that keeps its version and turns to a phase keeps its type.
LEMMA ExitKeeps ==
    ASSUME IInv, NEW p \in Pod, pods[p] # None, Exit(p) PROVE IInv'
<1> DEFINE record == [pods[p] EXCEPT !.phase = "off", !.server = Off]
<1>1. pods[p] \in PodRecord
  BY DEF IInv, TypeOK
<1>2. record \in PodRecord
  BY <1>1, OffIsType DEF PodRecord, Phase
<1>3. record.server = Off /\ record.rev = pods[p].rev /\ record.loaded = pods[p].loaded
  BY <1>1 DEF PodRecord
<1>4. pods[p].rev <= pods[p].loaded /\ pods[p].loaded <= config
  BY DEF IInv, Pods
<1>5. Only(p, record)
  BY DEF Exit
<1> HIDE DEF record
<1> QED
  BY <1>2, <1>3, <1>4, <1>5, OnlyKeeps

\* A process loads a version between that of its pod and the newest, and keeps it.
LEMMA RunKeeps ==
    ASSUME IInv, NEW p \in Pod, Run(p) PROVE IInv'
<1> USE VersionIsNat
<1>1. CASE Load(p)
  <2>1. PICK v \in pods[p].rev .. config :
            Only(p, [pods[p] EXCEPT !.phase = "loaded", !.loaded = v])
    BY <1>1 DEF Load
  <2> DEFINE record == [pods[p] EXCEPT !.phase = "loaded", !.loaded = v]
  <2>2. pods[p] \in PodRecord /\ pods[p].phase = "off" /\ p \in Pods
    BY <1>1 DEF Load, In, IInv, TypeOK, Pods
  <2>3. v \in Version /\ pods[p].rev <= v /\ v <= config
    BY <2>1, <2>2 DEF IInv, TypeOK, PodRecord, Version
  <2>4. record \in PodRecord
    BY <2>2, <2>3 DEF PodRecord, Phase
  <2>5. pods[p].server = Off
    BY <2>2 DEF IInv, TypeOK
  <2>6. record.server = Off /\ record.rev = pods[p].rev /\ record.loaded = v
    BY <2>2, <2>5 DEF PodRecord
  <2>7. Only(p, record)
    BY <2>1
  <2> HIDE DEF record
  <2> QED
    BY <2>3, <2>4, <2>6, <2>7, OnlyKeeps
<1>2. CASE NewStorage(p)
  <2>1. pods[p] \in PodRecord /\ pods[p].phase = "loaded" /\ p \in Pods
    BY <1>2 DEF NewStorage, In, IInv, TypeOK, Pods
  <2>2. CASE db
    <3> DEFINE record == [pods[p] EXCEPT !.phase = "connected",
                                         !.migrated = Loaded(p).migrate]
    <3>1. record \in PodRecord
      <4>1. Loaded(p) \in Config
        BY <2>1, ServeAssumption DEF Loaded, PodRecord, Version
      <4>2. Loaded(p).migrate \in BOOLEAN
        BY <4>1 DEF Config
      <4> QED
        BY <2>1, <4>2 DEF PodRecord, Phase
    <3>2. pods[p].server = Off /\ pods[p].rev <= pods[p].loaded /\ pods[p].loaded <= config
      BY <2>1 DEF IInv, TypeOK
    <3>3. record.server = Off /\ record.rev = pods[p].rev /\ record.loaded = pods[p].loaded
      BY <2>1, <3>2 DEF PodRecord
    <3>4. Only(p, record)
      BY <1>2, <2>2 DEF NewStorage
    <3> HIDE DEF record
    <3> QED
      BY <3>1, <3>2, <3>3, <3>4, OnlyKeeps
  <2>3. CASE ~db
    BY <1>2, <2>1, <2>3, ExitKeeps DEF NewStorage, Pods
  <2> QED
    BY <2>2, <2>3
<1>3. CASE NewServers(p)
  <2>1. pods[p] \in PodRecord /\ p \in Pods
    BY <1>3 DEF NewServers, In, IInv, TypeOK, Pods
  <2>2. CASE Loaded(p).ca
    <3> DEFINE record == [pods[p] EXCEPT !.phase = "serving"]
    <3>1. record \in PodRecord
      BY <2>1 DEF PodRecord, Phase
    <3>2. pods[p].rev <= pods[p].loaded /\ pods[p].loaded <= config
      BY <2>1 DEF IInv
    <3>3. record.phase = "serving" /\ record.rev = pods[p].rev /\ record.loaded = pods[p].loaded
      BY <2>1 DEF PodRecord
    <3>4. Only(p, record)
      BY <1>3, <2>2 DEF NewServers
    <3> HIDE DEF record
    <3> QED
      BY <3>1, <3>2, <3>3, <3>4, OnlyKeeps
  <2>3. CASE ~Loaded(p).ca
    BY <1>3, <2>1, <2>3, ExitKeeps DEF NewServers, Pods
  <2> QED
    BY <2>2, <2>3
<1>4. ASSUME NEW s \in Server, Serve(p, s) PROVE IInv'
  <2>1. pods[p] \in PodRecord /\ pods[p].phase = "serving" /\ p \in Pods
    BY <1>4 DEF Serve, In, IInv, TypeOK, Pods
  <2>2. PICK outcome \in {"up", "failed"} :
            Only(p, [pods[p] EXCEPT !.server[s] = outcome])
    BY <1>4 DEF Serve
  <2> DEFINE record == [pods[p] EXCEPT !.server[s] = outcome]
  <2>3. record \in PodRecord
    BY <2>1 DEF PodRecord
  <2>4. pods[p].rev <= pods[p].loaded /\ pods[p].loaded <= config
    BY <2>1 DEF IInv
  <2>5. record.phase = "serving" /\ record.rev = pods[p].rev /\ record.loaded = pods[p].loaded
    BY <2>1 DEF PodRecord
  <2>6. Only(p, record)
    BY <2>2
  <2> HIDE DEF record
  <2> QED
    BY <2>3, <2>4, <2>5, <2>6, OnlyKeeps
<1> QED
  BY <1>1, <1>2, <1>3, <1>4 DEF Run

\* The steps of Kubernetes.
LEMMA PodsKeep ==
    ASSUME IInv, NEW p \in Pod, CreatePod(p) \/ DeletePod(p) \/ Probe(p) PROVE IInv'
<1> USE VersionIsNat
<1>1. CASE CreatePod(p)
  <2>1. NewPod \in PodRecord
    BY OffIsType DEF NewPod, PodRecord, Phase, IInv, TypeOK
  <2>2. NewPod.server = Off /\ NewPod.rev = wanted /\ NewPod.loaded = wanted
    BY DEF NewPod
  <2>3. wanted \in Nat
    BY DEF IInv, TypeOK
  <2>4. wanted <= wanted /\ wanted <= config
    BY <2>3 DEF IInv
  <2>5. Only(p, NewPod)
    BY <1>1 DEF CreatePod
  <2> QED
    BY <2>1, <2>2, <2>4, <2>5, OnlyKeeps
<1>2. CASE DeletePod(p)
  <2>1. pods' = [pods EXCEPT ![p] = None] /\ UNCHANGED <<config, wanted, creds, db, last, calm>>
    BY <1>2 DEF DeletePod, Only
  <2>2. pods' \in [Pod -> PodRecord \cup {None}]
    BY <2>1 DEF IInv, TypeOK
  <2>3. \A q \in Pods' : q \in Pods /\ pods'[q] = pods[q]
    BY <2>1 DEF IInv, TypeOK, Pods
  <2> QED
    BY <2>1, <2>2, <2>3 DEF IInv, TypeOK
<1>3. CASE Probe(p)
  <2> DEFINE record == [pods[p] EXCEPT !.ready = (pods[p].server["public"] = "up")]
  <2>1. pods[p] \in PodRecord /\ p \in Pods
    BY <1>3 DEF Probe, IInv, TypeOK, Pods
  <2>2. (pods[p].server["public"] = "up") \in BOOLEAN
    OBVIOUS
  <2>3. record \in PodRecord
    BY <2>1, <2>2 DEF PodRecord
  <2>4. record.phase = pods[p].phase /\ record.server = pods[p].server
          /\ record.rev = pods[p].rev /\ record.loaded = pods[p].loaded
    BY <2>1 DEF PodRecord
  <2>5. /\ pods[p].phase # "serving" => pods[p].server = Off
        /\ pods[p].rev <= pods[p].loaded /\ pods[p].loaded <= config
    BY <2>1 DEF IInv, TypeOK
  <2>6. Only(p, record)
    BY <1>3 DEF Probe
  <2> HIDE DEF record
  <2> QED
    BY <2>3, <2>4, <2>5, <2>6, OnlyKeeps
<1> QED
  BY <1>1, <1>2, <1>3

\* Every step keeps the invariant.
LEMMA NextKeeps == ASSUME IInv, [Next]_vars PROVE IInv'
<1> USE VersionIsNat
<1>1. ASSUME NEW p \in Pod, Run(p) PROVE IInv'
  BY <1>1, RunKeeps
<1>2. ASSUME NEW p \in Pod, AllAsleep(p) \/ Kill(p) PROVE IInv'
  BY <1>2, ExitKeeps DEF AllAsleep, Kill, In
<1>3. ASSUME NEW p \in Pod, CreatePod(p) \/ DeletePod(p) \/ Probe(p) PROVE IInv'
  BY <1>3, PodsKeep
<1>4. ASSUME NEW c \in Client, Poll(c) PROVE IInv'
  <2>1. UNCHANGED <<config, wanted, creds, db, pods, calm>>
    BY <1>4 DEF Poll
  <2>2. PICK a \in {"refused", "200", "401"} : last' = [last EXCEPT ![c] = a]
    BY <1>4 DEF Poll
  <2>3. last' \in [Client -> {"none", "200", "401", "refused"}]
    BY <2>2 DEF IInv, TypeOK
  <2> QED
    BY <2>1, <2>3 DEF IInv, TypeOK, Pods
<1>5. ASSUME NEW c \in Client, ApplyCreds(c) PROVE IInv'
  BY <1>5 DEF ApplyCreds, IInv, TypeOK, Pods
<1>6. CASE ApplyConfig
  <2>1. config' \in Version /\ config <= config'
    BY <1>6 DEF ApplyConfig, IInv, TypeOK, Version
  <2>2. UNCHANGED <<wanted, creds, db, pods, last, calm>>
    BY <1>6 DEF ApplyConfig
  <2>3. wanted \in Nat /\ config \in Nat /\ config' \in Nat
    BY <2>1 DEF IInv, TypeOK
  <2>4. wanted' <= config'
    BY <2>1, <2>2, <2>3 DEF IInv
  <2>5. \A p \in Pods : pods[p].loaded \in Nat /\ pods[p].loaded <= config
    BY DEF IInv, TypeOK, Pods, PodRecord
  <2>6. \A p \in Pods' : pods'[p].rev <= pods'[p].loaded /\ pods'[p].loaded <= config'
    BY <2>1, <2>2, <2>3, <2>5 DEF IInv, Pods
  <2> QED
    BY <2>1, <2>2, <2>4, <2>6 DEF IInv, TypeOK, Pods
<1>7. CASE Reload
  <2>1. wanted' = config /\ UNCHANGED <<config, creds, db, pods, last, calm>>
    BY <1>7 DEF Reload
  <2>2. config \in Nat
    BY DEF IInv, TypeOK
  <2> QED
    BY <2>1, <2>2 DEF IInv, TypeOK, Pods
<1>8. CASE DbFails \/ Settle
  <2>1. UNCHANGED <<config, wanted, creds, pods, last>> /\ db' \in BOOLEAN /\ calm' \in BOOLEAN
    BY <1>8 DEF DbFails, Settle, IInv, TypeOK
  <2> QED
    BY <2>1 DEF IInv, TypeOK, Pods
<1>9. CASE UNCHANGED vars
  BY <1>9 DEF vars, IInv, TypeOK, Pods
<1> QED
  BY <1>1, <1>2, <1>3, <1>4, <1>5, <1>6, <1>7, <1>8, <1>9 DEF Next

\* Reloader, pods and processes follow the secret, none overtakes it: the invariant
\* that the guarantees of the private server rest on.
THEOREM ServeInvariant == Spec => []IInv
<1>1. ASSUME Init PROVE IInv
  <2>1. Pods = {} /\ wanted <= config
    BY <1>1 DEF Init, Pods
  <2>2. pods \in [Pod -> PodRecord \cup {None}]
    BY <1>1 DEF Init
  <2>3. last \in [Client -> {"none", "200", "401", "refused"}] /\ creds \in [Client -> Version]
    BY <1>1, VersionIsNat DEF Init
  <2> QED
    BY <1>1, <2>1, <2>2, <2>3, VersionIsNat DEF Init, IInv, TypeOK
<1> QED
  BY <1>1, NextKeeps, PTL DEF Spec

\* The configuration, the pods and the answers keep their types, and no server runs in
\* a process without its storage.
THEOREM ServeTypeCorrect == Spec => []TypeOK
<1>1. IInv => TypeOK
  BY DEF IInv
<1> QED
  BY <1>1, ServeInvariant, PTL

\* After a roll-out each route of the private server is open to the current token of its
\* client and to nothing else.
THEOREM RotatedTokensAreRefused == Spec => []OnlyCurrentTokens
<1>1. ASSUME IInv PROVE OnlyCurrentTokens
  <2> SUFFICES ASSUME \A p \in Pods : pods[p].rev = config,
                      NEW p \in Pods, NEW c \in Client, NEW header \in Header,
                      NEW route \in RoutesFor(c), Accepts(p, route, header)
               PROVE  header = <<"Bearer", Versions[config].token[c]>>
    BY DEF OnlyCurrentTokens
  <2>1. pods[p].loaded = config
    <3>1. pods[p].rev = config /\ config \in Nat /\ pods[p].loaded \in Nat
      BY <1>1, VersionIsNat DEF IInv, TypeOK, Pods, PodRecord
    <3>2. pods[p].rev <= pods[p].loaded /\ pods[p].loaded <= config
      BY <1>1 DEF IInv
    <3> QED
      BY <3>1, <3>2
  <2>2. Guard(route) = c
    BY DEF Guard, RoutesFor, Client
  <2>3. Len(header) = 2 /\ header[1] = "Bearer" /\ header[2] = Versions[config].token[c]
    BY <2>1, <2>2 DEF Accepts, BearerToken, Loaded
  <2>4. \E schema \in {"Bearer", "Basic"}, t \in Token : header = <<schema, t>>
    <3>1. CASE header \in {<<"">>, <<"Bearer">>}
      <4>1. Len(<<"">>) = 1 /\ Len(<<"Bearer">>) = 1
        OBVIOUS
      <4>2. header = <<"">> \/ header = <<"Bearer">>
        BY <3>1
      <4>3. Len(header) = 1
        BY <4>1, <4>2, Zenon
      <4> QED
        BY <4>3, <2>3
    <3>2. CASE header \in {<<"Bearer", t, t>> : t \in Token}
      <4>1. PICK t \in Token : header = <<"Bearer", t, t>>
        BY <3>2
      <4>2. Len(header) = 3
        BY <4>1
      <4> QED
        BY <4>2, <2>3
    <3>3. CASE header \in {"Bearer", "Basic"} \X Token
      BY <3>3
    <3>4. \/ header \in {<<"">>, <<"Bearer">>}
          \/ header \in {<<"Bearer", t, t>> : t \in Token}
          \/ header \in {"Bearer", "Basic"} \X Token
      BY DEF Header
    <3> QED
      BY <3>1, <3>2, <3>3, <3>4
  <2> QED
    BY <2>3, <2>4
<1> QED
  BY <1>1, ServeInvariant, PTL

\* The deployer never reads the tokens of a telesto, external secrets never list the
\* telestos, in whatever state a roll-out is.
THEOREM ClientsKeepToTheirRoutes == Spec => []TokensOpenTheirRoute
<1>1. ASSUME IInv PROVE TokensOpenTheirRoute
  <2> SUFFICES ASSUME TokensDiffer, NEW p \in Pods, NEW c \in Client, NEW v \in Version,
                      NEW route \in Route \ RoutesFor(c),
                      Accepts(p, route, <<"Bearer", Versions[v].token[c]>>)
               PROVE  FALSE
    BY DEF TokensOpenTheirRoute
  <2>1. pods[p].loaded \in Version
    BY <1>1 DEF IInv, TypeOK, Pods, PodRecord
  <2>2. Versions[v].token[c] = Versions[pods[p].loaded].token[Guard(route)]
    BY DEF Accepts, BearerToken, Loaded
  <2>3. Guard(route) # c
    BY DEF Guard, RoutesFor, Client, Route
  <2>4. c \in {"telestoDeployer", "externalSecrets"}
          /\ Guard(route) \in {"telestoDeployer", "externalSecrets"}
    BY DEF Client, Guard
  <2> QED
    BY <2>1, <2>2, <2>3, <2>4 DEF TokensDiffer
<1> QED
  BY <1>1, ServeInvariant, PTL
=============================================================================
