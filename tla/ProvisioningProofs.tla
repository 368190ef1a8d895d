------------------------- MODULE ProvisioningProofs -------------------------
(***************************************************************************)
(* The safety of the way from the tables to the collectors, for every set  *)
(* of telestos and tokens.                                                 *)
(***************************************************************************)
EXTENDS Provisioning, RegistryProofs

-----------------------------------------------------------------------------
(* The invariant.                                                          *)

\* The cluster starts with nothing deployed.
LEMMA InitPInv == Init => PInv
<1> SUFFICES ASSUME Init PROVE PInv
  OBVIOUS
<1>1. \A i \in TelestoId : secret[i].tokens = None /\ collector[i] = None
  BY DEF Init, NoSecret
<1>2. TypeOK
  <2>1. NoPoll \in [Kind -> Url \cup {NoUrl, None}]
    BY DEF NoPoll
  <2>2. NoSecret \in [tokens: (SUBSET TokenId) \cup {None}, config: Config \cup {None}]
    BY DEF NoSecret
  <2> QED
    BY <2>1, <2>2 DEF Init, TypeOK, NoList, DbInit, DbTypeOK
<1> QED
  BY <1>1, <1>2 DEF Init, PInv, DbInit, NoList, RowsAreIssued, Telestos, Tokens

\* What the rest of PInv needs of a step of the portal: no id is taken back, and
\* a row that was not there before has an id that had not been issued.
TablesGrow ==
    /\ DbTypeOK' /\ RowsAreIssued'
    /\ issued.telestos \subseteq issued'.telestos
    /\ issued.tokens \subseteq issued'.tokens
    /\ \A i \in Telestos' : i \in Telestos \/ i \notin issued.telestos
    /\ \A k \in Tokens' : \/ k \in Tokens /\ tokens'[k].telesto = tokens[k].telesto
                          \/ k \notin issued.tokens

\* A row that the portal inserts has an id never issued before, and no token moves.
LEMMA PortalStepGrows ==
    ASSUME PInv, PortalStep PROVE TablesGrow
<1> USE StorageAssumption DEF PInv, TypeOK
<1> SUFFICES ASSUME NEW u \in Owner,
        \/ \E i \in TelestoId, n \in Name, url \in Url \cup {NoUrl} :
              CreateTelesto(i, u, n, url)
        \/ \E i \in TelestosForUser(u), n \in Name, auth \in BOOLEAN :
              UpdateTelesto(u, i, n, NoUrl, auth)
        \/ \E i \in TelestosForUser(u) : DeleteTelesto(u, i)
        \/ \E k \in TokenId, i \in TelestosForUser(u), n \in Name : CreateToken(k, u, i, n)
        \/ \E k \in TokensForUser(u), n \in Name : UpdateToken(u, k, n)
        \/ \E k \in TokensForUser(u) : MarkTokenSeen(u, k) \/ DeleteToken(u, k)
             PROVE  TablesGrow
  BY DEF PortalStep
<1>2. CASE \E i \in TelestoId, n \in Name, url \in Url \cup {NoUrl} : CreateTelesto(i, u, n, url)
  <2>1. PICK i \in TelestoId, n \in Name, url \in Url \cup {NoUrl} : CreateTelesto(i, u, n, url)
    BY <1>2
  <2>2. [user |-> u, name |-> n, url |-> url, auth |-> FALSE] \in TelestoRow
    BY DEF TelestoRow
  <2>3. DbTypeOK'
    BY <2>1, <2>2 DEF CreateTelesto, DbTypeOK
  <2> QED
    BY <2>1, <2>2, <2>3 DEF TablesGrow, CreateTelesto, DbTypeOK, RowsAreIssued, Telestos, Tokens
<1>3. CASE \E i \in TelestosForUser(u), n \in Name, auth \in BOOLEAN :
              UpdateTelesto(u, i, n, NoUrl, auth)
  <2>1. PICK i \in TelestosForUser(u), n \in Name, auth \in BOOLEAN :
              UpdateTelesto(u, i, n, NoUrl, auth)
    BY <1>3
  <2> DEFINE row == [telestos[i] EXCEPT !.name = n,
                       !.url = NonZero(NoUrl, @, NoUrl), !.auth = NonZero(auth, @, FALSE)]
  <2>2. i \in Telestos /\ telestos[i] \in TelestoRow
    BY DEF TelestosForUser, Telestos, DbTypeOK
  <2>3. row \in TelestoRow
    BY <2>2 DEF TelestoRow, NonZero
  <2>4. telestos' = [telestos EXCEPT ![i] = row] /\ UNCHANGED <<tokens, issued>>
    BY <2>1, <2>2 DEF UpdateTelesto, DbTypeOK, Telestos
  <2> HIDE DEF row
  <2>5. DbTypeOK'
    BY <2>3, <2>4 DEF DbTypeOK
  <2> QED
    BY <2>2, <2>4, <2>5 DEF TablesGrow, RowsAreIssued, Telestos, Tokens, DbTypeOK
<1>4. CASE \E i \in TelestosForUser(u) : DeleteTelesto(u, i)
  BY <1>4 DEF TablesGrow, DeleteTelesto, DbTypeOK, RowsAreIssued, Telestos, Tokens
<1>5. CASE \E k \in TokenId, i \in TelestosForUser(u), n \in Name : CreateToken(k, u, i, n)
  <2>1. PICK k \in TokenId, i \in TelestosForUser(u), n \in Name : CreateToken(k, u, i, n)
    BY <1>5
  <2>2. [user |-> u, telesto |-> i, name |-> n, seen |-> FALSE] \in TokenRow
    BY DEF TokenRow, TelestosForUser, Telestos
  <2>3. DbTypeOK'
    BY <2>1, <2>2 DEF CreateToken, DbTypeOK
  <2> QED
    BY <2>1, <2>2, <2>3 DEF TablesGrow, CreateToken, DbTypeOK, RowsAreIssued, Telestos, Tokens
<1>6. ASSUME NEW k \in TokensForUser(u), NEW row \in TokenRow,
             tokens' = [tokens EXCEPT ![k] = row], row.telesto = tokens[k].telesto,
             UNCHANGED <<telestos, issued>>
      PROVE  TablesGrow
  <2>1. k \in Tokens /\ row # None
    BY DEF TokensForUser
  <2>2. DbTypeOK'
    BY <1>6 DEF DbTypeOK
  <2> QED
    BY <1>6, <2>1, <2>2 DEF TablesGrow, DbTypeOK, RowsAreIssued, Telestos, Tokens
<1>7. \A k \in TokensForUser(u) : tokens[k] \in TokenRow
  BY DEF TokensForUser, Tokens, DbTypeOK
<1>8. CASE \E k \in TokensForUser(u), n \in Name : UpdateToken(u, k, n)
  <2>1. PICK k \in TokensForUser(u), n \in Name : UpdateToken(u, k, n)
    BY <1>8
  <2> DEFINE row == [tokens[k] EXCEPT !.name = n]
  <2>2. row \in TokenRow /\ row.telesto = tokens[k].telesto
    BY <1>7 DEF TokenRow
  <2>3. tokens' = [tokens EXCEPT ![k] = row] /\ UNCHANGED <<telestos, issued>>
    BY <2>1 DEF UpdateToken
  <2> HIDE DEF row
  <2> QED
    BY <1>6, <2>2, <2>3
<1>9. CASE \E k \in TokensForUser(u) : MarkTokenSeen(u, k)
  <2>1. PICK k \in TokensForUser(u) : MarkTokenSeen(u, k)
    BY <1>9
  <2> DEFINE row == [tokens[k] EXCEPT !.seen = TRUE]
  <2>2. row \in TokenRow /\ row.telesto = tokens[k].telesto
    BY <1>7 DEF TokenRow
  <2>3. tokens' = [tokens EXCEPT ![k] = row] /\ UNCHANGED <<telestos, issued>>
    BY <2>1 DEF MarkTokenSeen
  <2> HIDE DEF row
  <2> QED
    BY <1>6, <2>2, <2>3
<1>10. CASE \E k \in TokensForUser(u) : DeleteToken(u, k)
  BY <1>10 DEF TablesGrow, DeleteToken, DbTypeOK, RowsAreIssued, Telestos, Tokens
<1> QED
  BY <1>2, <1>3, <1>4, <1>5, <1>8, <1>9, <1>10

\* The portal neither gives a token to another telesto nor brings one back.
LEMMA PortalStepInv ==
    ASSUME PInv, PortalStep PROVE PInv'
<1>1. TablesGrow
  BY PortalStepGrows
<1>2. UNCHANGED pVars
  BY DEF PortalStep
<1>3. TypeOK'
  BY <1>1, <1>2 DEF TablesGrow, PInv, TypeOK, pVars
<1>4. \A i \in TelestoId, ks \in SUBSET TokenId : OfTelesto(i, ks) => OfTelesto(i, ks)'
  BY <1>1 DEF TablesGrow, OfTelesto
<1>5. ASSUME NEW i \in TelestoId
      PROVE  /\ secret[i].tokens # None => secret[i].tokens \in SUBSET TokenId
             /\ collector[i] # None => collector[i].tokens \in SUBSET TokenId
  BY DEF PInv, TypeOK
<1>6. \A i \in TelestoId :
         /\ secret'[i].tokens # None => OfTelesto(i, secret[i].tokens)'
         /\ collector'[i] # None => OfTelesto(i, collector[i].tokens)'
  BY <1>2, <1>4, <1>5 DEF PInv, pVars, OfTelesto
<1>7. /\ apps' \subseteq issued'.telestos /\ argo.list' \subseteq issued'.telestos
      /\ argo'.pc # "idle" /\ ~argo'.blank =>
           \A i \in apps' \ argo'.list : i \notin Telestos'
  BY <1>1, <1>2 DEF TablesGrow, PInv, TypeOK, pVars
<1> QED
  BY <1>1, <1>3, <1>6, <1>7 DEF PInv, TablesGrow

\* A poll of the ApplicationSet controller lists the telestos of its SELECT, and
\* one that it does not list never comes back, however late it is applied.
LEMMA ArgoInv ==
    ASSUME PInv,
           ArgoSelect \/ ArgoPreload \/ ArgoFails \/ ArgoApply
    PROVE  PInv'
<1>1. UNCHANGED <<dbVars, deployed, poll, secret, collector>>
  BY DEF ArgoSelect, ArgoPreload, ArgoFails, ArgoApply
<1>2. /\ argo' \in [pc: {"idle", "preload", "apply"}, list: SUBSET TelestoId, blank: BOOLEAN]
      /\ apps' \subseteq issued.telestos /\ argo'.list \subseteq issued.telestos
      /\ apps' \subseteq TelestoId
      /\ argo'.pc # "idle" /\ ~argo'.blank =>
           \A i \in apps' \ argo'.list : i \notin Telestos
  <2>1. CASE ArgoSelect
    BY <2>1 DEF PInv, TypeOK, NoList, ArgoSelect, RowsAreIssued, Telestos
  <2>2. CASE ArgoPreload
    BY <2>2 DEF PInv, TypeOK, ArgoPreload
  <2>3. CASE ArgoFails
    <3> DEFINE blank == [pc |-> "apply", list |-> {}, blank |-> TRUE]
    <3>1. /\ NoList \in [pc: {"idle", "preload", "apply"}, list: SUBSET TelestoId, blank: BOOLEAN]
          /\ NoList.pc = "idle" /\ NoList.list = {}
      BY DEF NoList
    <3>2. /\ blank \in [pc: {"idle", "preload", "apply"}, list: SUBSET TelestoId, blank: BOOLEAN]
          /\ blank.blank /\ blank.list = {}
      OBVIOUS
    <3>3. (argo' = NoList \/ argo' = blank) /\ apps' = apps
      BY <2>3 DEF ArgoFails
    <3> HIDE DEF blank
    <3> QED
      BY <3>1, <3>2, <3>3 DEF PInv, TypeOK
  <2>4. CASE ArgoApply
    BY <2>4 DEF PInv, TypeOK, NoList, ArgoApply
  <2> QED
    BY <2>1, <2>2, <2>3, <2>4
<1> QED
  BY <1>1, <1>2 DEF PInv, TypeOK, dbVars, DbTypeOK, RowsAreIssued, Telestos, Tokens, OfTelesto

\* Syncing an Application touches no secret.
LEMMA SyncInv ==
    ASSUME PInv, NEW i \in TelestoId, ArgoSync(i) PROVE PInv'
  BY DEF PInv, TypeOK, ArgoSync, dbVars, DbTypeOK, RowsAreIssued, Telestos, Tokens, OfTelesto

\* A pruned one leaves none behind.
LEMMA PruneInv ==
    ASSUME PInv, NEW i \in TelestoId, ArgoPrune(i) PROVE PInv'
<1>1. NoPoll \in [Kind -> Url \cup {NoUrl, None}]
  BY DEF NoPoll
<1>2. NoSecret \in [tokens: (SUBSET TokenId) \cup {None}, config: Config \cup {None}]
  BY DEF NoSecret
<1>3. TypeOK'
  BY <1>1, <1>2 DEF PInv, TypeOK, ArgoPrune, dbVars, DbTypeOK
<1>4. /\ secret'[i].tokens = None /\ collector'[i] = None
      /\ \A j \in TelestoId \ {i} : secret'[j] = secret[j] /\ collector'[j] = collector[j]
  BY DEF PInv, TypeOK, ArgoPrune, NoSecret
<1> QED
  BY <1>3, <1>4 DEF PInv, ArgoPrune, dbVars, RowsAreIssued, Telestos, Tokens, OfTelesto

\* The first SELECT of a secret's request, and a request that fails.
LEMMA PollInv ==
    ASSUME PInv, NEW i \in TelestoId, NEW kind \in Kind,
           SecretSelect(i, kind) \/ SecretFails(i, kind)
    PROVE  PInv'
<1>1. i \in Telestos => telestos[i].url \in Url \cup {NoUrl}
  BY DEF PInv, TypeOK, DbTypeOK, Telestos, TelestoRow
<1>2. poll' \in [TelestoId -> [Kind -> Url \cup {NoUrl, None}]]
  <2>1. PICK url \in Url \cup {NoUrl, None} : poll' = [poll EXCEPT ![i][kind] = url]
    BY <1>1 DEF SecretSelect, SecretFails
  <2> QED
    BY <2>1 DEF PInv, TypeOK
<1>3. UNCHANGED <<dbVars, argo, apps, deployed, secret, collector>>
  BY DEF SecretSelect, SecretFails
<1> QED
  BY <1>2, <1>3 DEF PInv, TypeOK, dbVars, DbTypeOK, RowsAreIssued, Telestos, Tokens, OfTelesto

\* The answer of the tokens handler is made of the rows that name the telesto.
LEMMA GetTelestoTokensInv ==
    ASSUME PInv, NEW i \in TelestoId, GetTelestoTokens(i) PROVE PInv'
<1>1. /\ TokensOfTelestos({i}) \in SUBSET TokenId
      /\ OfTelesto(i, TokensOfTelestos({i}))
  BY DEF PInv, RowsAreIssued, TokensOfTelestos, OfTelesto, Tokens
<1>2. "tokens" \in Kind
  BY DEF Kind
<1>3. TypeOK'
  BY <1>1, <1>2 DEF PInv, TypeOK, GetTelestoTokens, dbVars, DbTypeOK
<1>4. /\ secret'[i].tokens = TokensOfTelestos({i})
      /\ \A j \in TelestoId \ {i} : secret'[j] = secret[j]
  BY DEF PInv, TypeOK, GetTelestoTokens
<1>5. UNCHANGED <<dbVars, argo, apps, deployed, collector>>
  BY DEF GetTelestoTokens
<1>6. \A j \in TelestoId : secret'[j].tokens # None => OfTelesto(j, secret'[j].tokens)
  BY <1>1, <1>4 DEF PInv
<1> QED
  BY <1>3, <1>5, <1>6 DEF PInv, dbVars, RowsAreIssued, Telestos, Tokens, OfTelesto

\* The stored configuration is one that GenerateConfig returns.
LEMMA GetTelestoConfigInv ==
    ASSUME PInv, NEW i \in TelestoId, GetTelestoConfig(i) PROVE PInv'
<1> DEFINE config == GenerateConfig(poll[i]["config"], TokensOfTelestos({i}))
<1>1. "config" \in Kind
  BY DEF Kind
<1>2. poll[i]["config"] \in Url \cup {NoUrl} /\ TokensOfTelestos({i}) \in SUBSET TokenId
  BY <1>1 DEF PInv, TypeOK, GetTelestoConfig, TokensOfTelestos, Tokens
<1>3. config \in Config
  BY <1>2 DEF Config
<1>4. /\ secret' = [secret EXCEPT ![i].config = config]
      /\ poll' = [poll EXCEPT ![i]["config"] = None]
      /\ UNCHANGED <<dbVars, argo, apps, deployed, collector>>
  BY DEF GetTelestoConfig
<1> HIDE DEF config
<1>5. TypeOK'
  BY <1>1, <1>3, <1>4 DEF PInv, TypeOK, dbVars, DbTypeOK
<1>6. \A j \in TelestoId : secret'[j].tokens = secret[j].tokens
  BY <1>4 DEF PInv, TypeOK
<1> QED
  BY <1>4, <1>5, <1>6 DEF PInv, dbVars, RowsAreIssued, Telestos, Tokens, OfTelesto

\* A collector only loads what the secrets of its telesto hold.
LEMMA CollectorInv ==
    ASSUME PInv, NEW i \in TelestoId, RollOut(i) \/ ReloadTokens(i) PROVE PInv'
<1>1. UNCHANGED <<dbVars, argo, apps, deployed, poll, secret>>
  BY DEF RollOut, ReloadTokens
<1>2. PICK loaded \in [config: Config, tokens: SUBSET TokenId] :
        collector' = [collector EXCEPT ![i] = loaded] /\ OfTelesto(i, loaded.tokens)
  <2>1. CASE RollOut(i)
    <3> DEFINE loaded == [config |-> secret[i].config,
                          tokens |-> IF secret[i].tokens = None THEN {} ELSE secret[i].tokens]
    <3>1. loaded \in [config: Config, tokens: SUBSET TokenId]
      BY <2>1 DEF PInv, TypeOK, RollOut
    <3>2. OfTelesto(i, loaded.tokens)
      BY DEF PInv, OfTelesto
    <3> QED
      BY <2>1, <3>1, <3>2 DEF RollOut
  <2>2. CASE ReloadTokens(i)
    <3> DEFINE loaded == [collector[i] EXCEPT !.tokens = secret[i].tokens]
    <3>1. loaded \in [config: Config, tokens: SUBSET TokenId]
      BY <2>2 DEF PInv, TypeOK, ReloadTokens
    <3>2. OfTelesto(i, loaded.tokens)
      BY <2>2 DEF PInv, TypeOK, ReloadTokens
    <3> QED
      BY <2>2, <3>1, <3>2 DEF ReloadTokens
  <2> QED
    BY <2>1, <2>2
<1>3. /\ collector' \in [TelestoId -> [config: Config, tokens: SUBSET TokenId] \cup {None}]
      /\ \A j \in TelestoId : collector'[j] = IF j = i THEN loaded ELSE collector[j]
  BY <1>2 DEF PInv, TypeOK
<1> QED
  BY <1>1, <1>2, <1>3 DEF PInv, TypeOK, dbVars, DbTypeOK, RowsAreIssued, Telestos, Tokens, OfTelesto

-----------------------------------------------------------------------------
(* The theorems.                                                           *)

\* Every step keeps the invariant.
LEMMA NextInv ==
    ASSUME PInv, [Next]_vars PROVE PInv'
<1>1. CASE PortalStep
  BY <1>1, PortalStepInv
<1>2. CASE ArgoSelect \/ ArgoPreload \/ ArgoFails \/ ArgoApply
  BY <1>2, ArgoInv
<1>3. ASSUME NEW i \in TelestoId,
             \/ ArgoSync(i) \/ ArgoPrune(i)
             \/ \E kind \in Kind : SecretSelect(i, kind) \/ SecretFails(i, kind)
             \/ GetTelestoTokens(i) \/ GetTelestoConfig(i)
             \/ RollOut(i) \/ ReloadTokens(i)
      PROVE  PInv'
  BY <1>3, SyncInv, PruneInv, PollInv, GetTelestoTokensInv, GetTelestoConfigInv, CollectorInv
<1>4. CASE UNCHANGED vars
  BY <1>4 DEF vars, PInv, TypeOK, DbTypeOK, RowsAreIssued, Telestos, Tokens, OfTelesto
<1> QED
  BY <1>1, <1>2, <1>3, <1>4 DEF Next, ClusterStep

\* The invariant, checked by run provisioning_safety on two telestos and one
\* token, holds for any number of them, whatever polls fail or overlap.
THEOREM ProvisioningInvariant == Spec => []PInv
<1>1. Init => PInv
  BY InitPInv
<1>2. PInv /\ [Next]_vars => PInv'
  BY NextInv
<1> QED
  BY <1>1, <1>2, PTL DEF Spec

\* Polls, secrets and collectors keep their types; a collector only ever runs
\* a configuration that GenerateConfig can return.
THEOREM ProvisioningTypeCorrect == Spec => []TypeOK
<1>1. PInv => TypeOK
  BY DEF PInv
<1> QED
  BY <1>1, ProvisioningInvariant, PTL

\* The collector of one telesto never holds, and so never lets in, the token of
\* another, although its token list may be older than the tables.
THEOREM TokensStayWithTheirTelesto == Spec => []TokensStayHome
<1>1. PInv => TokensStayHome
  BY DEF PInv, TokensStayHome, OfTelesto
<1> QED
  BY <1>1, ProvisioningInvariant, PTL

\* A list of the tables takes no Application down but those of deleted telestos,
\* whatever was written and whatever failed since it was read, outages with empty
\* answers included.
THEOREM PrunedAfterDeletion == Spec => PrunedOnlyIfDeleted
<1>1. PInv /\ [Next]_vars => [~argo.blank => \A i \in apps \ apps' : i \notin Telestos]_vars
  <2> SUFFICES ASSUME PInv, Next, ~argo.blank, NEW i \in apps \ apps' PROVE i \notin Telestos
    OBVIOUS
  <2>1. ArgoApply
    BY DEF Next, ClusterStep, PortalStep, pVars, ArgoSelect, ArgoPreload, ArgoFails, ArgoSync,
       ArgoPrune,
           SecretSelect, SecretFails, GetTelestoTokens, GetTelestoConfig, RollOut, ReloadTokens
  <2> QED
    BY <2>1 DEF ArgoApply, PInv
<1> QED
  BY <1>1, ProvisioningInvariant, PTL DEF Spec, PrunedOnlyIfDeleted
=============================================================================
