---------------------------- MODULE PortalProofs ----------------------------
(***************************************************************************)
(* The safety properties of the portal, for every set of users, rows,      *)
(* names and concurrent requests.                                          *)
(***************************************************************************)
EXTENDS Portal, RegistryProofs

\* What a request learnt from a row outlives any step of any user: the id never
\* comes back, the owner never changes, a token never becomes unseen.
LEMMA ActKeepsReads ==
    ASSUME DbTypeOK, NEW u \in Owner, Act(u)
    PROVE  /\ \A i \in issued.telestos : i \in Telestos' =>
                i \in Telestos /\ telestos'[i].user = telestos[i].user
           /\ \A k \in issued.tokens : k \in Tokens' =>
                /\ k \in Tokens /\ tokens'[k].user = tokens[k].user
                /\ tokens[k].seen => tokens'[k].seen
           /\ issued.telestos \subseteq issued'.telestos
           /\ issued.tokens \subseteq issued'.tokens
  BY DEF Act, KeepsIdentity, AppearsFresh, Telestos, Tokens, DbTypeOK

\* A free slot is a request without content.
LEMMA IdleOK == Idle \in Request
  BY DEF Idle, Request, Pc, Owner

\* A step of the tables on which request r returns leaves every request fit.
LEMMA RequestsSurvive ==
    ASSUME TypeOK, \A s \in Req : RequestOK(s), NEW u \in Owner, Act(u),
           NEW r \in Req, Return(r)
    PROVE  \A s \in Req : RequestOK(s)'
<1> SUFFICES ASSUME NEW s \in Req PROVE RequestOK(s)'
  OBVIOUS
<1>1. CASE s = r
  BY <1>1 DEF Return, RequestOK, Idle, TypeOK
<1>2. CASE s # r
  <2>1. req'[s] = req[s] /\ req[s] \in Request
    BY <1>2 DEF Return, TypeOK
  <2> QED
    BY <2>1, ActKeepsReads DEF RequestOK, Request, TypeOK
<1> QED
  BY <1>1, <1>2

\* A handler that writes and returns keeps the invariant, if its write is an act.
LEMMA WriteKeepsIInv ==
    ASSUME IInv, NEW u \in Owner, Act(u), NEW r \in Req, Return(r), UNCHANGED reveal
    PROVE  IInv'
<1>1. TypeOK /\ Consistent'
  BY DEF IInv, Act
<1>2. TypeOK'
  BY <1>1, IdleOK DEF TypeOK, Consistent, Return
<1>3. \A s \in Req : RequestOK(s)'
  BY RequestsSurvive DEF IInv
<1>4. SettledOK'
  BY <1>1, ActKeepsReads DEF IInv, SettledOK, TypeOK
<1> QED
  BY <1>1, <1>2, <1>3, <1>4 DEF IInv, Consistent

\* A step that only moves request r on, from one consistent state to another.
LEMMA ReadKeepsIInv ==
    ASSUME IInv, NEW r \in Req, UNCHANGED dbVars,
           req' \in [Req -> Request], \A s \in Req \ {r} : req'[s] = req[s],
           RequestOK(r)',
           reveal' \in [TokenId -> {"never", "shown", "settled"}],
           \A k \in TokenId : reveal'[k] = "settled" => reveal[k] = "settled"
    PROVE  IInv'
<1>1. UNCHANGED <<telestos, tokens, issued>>
  BY DEF dbVars
<1>2. TypeOK' /\ RowsAreIssued' /\ TokenBelongsToOwner' /\ UniqueNames'
  BY <1>1 DEF IInv, TypeOK, DbTypeOK, RowsAreIssued, TokenBelongsToOwner, UniqueNames,
              TelestoNameFree, TokenNameFree, Telestos, Tokens
<1>3. ASSUME NEW s \in Req PROVE RequestOK(s)'
  <2>1. CASE s = r
    BY <2>1
  <2>2. CASE s # r
    BY <1>1, <2>2 DEF IInv, RequestOK, Telestos, Tokens
  <2> QED
    BY <2>1, <2>2
<1>4. SettledOK'
  BY <1>1 DEF IInv, SettledOK, Tokens
<1> QED
  BY <1>2, <1>3, <1>4 DEF IInv

\* A request that returns without a write.
LEMMA ReturnKeepsIInv ==
    ASSUME IInv, NEW r \in Req, Return(r), UNCHANGED <<telestos, tokens, issued>>,
           reveal' \in [TokenId -> {"never", "shown", "settled"}],
           \A k \in TokenId : reveal'[k] = "settled" => reveal[k] = "settled"
    PROVE  IInv'
<1>1. req' \in [Req -> Request] /\ \A s \in Req \ {r} : req'[s] = req[s]
  BY IdleOK DEF IInv, TypeOK, Return
<1>2. RequestOK(r)'
  BY DEF IInv, TypeOK, Return, RequestOK, Idle
<1> QED
  BY <1>1, <1>2, ReadKeepsIInv DEF dbVars

-----------------------------------------------------------------------------
(* Every statement of a handler is a step of the registry.                 *)

\* It is: the handlers with a write act for the user of their context.
LEMMA WriteActs ==
    ASSUME IInv, NEW r \in Req, Write(r)
    PROVE  Act(req[r].ctx) /\ Return(r) /\ UNCHANGED reveal
<1>1. Consistent
  BY DEF IInv, Consistent, TypeOK
<1>2. req[r] \in Request /\ req[r].ctx \in Owner
  BY DEF IInv, TypeOK, Request
<1>3. CASE NewTelestoSubmit(r)
  BY <1>1, <1>2, <1>3, CreateTelestoActs DEF NewTelestoSubmit
<1>4. CASE EditTelestoSubmit(r)
  <2>1. PICK n \in Name, auth \in BOOLEAN :
          UpdateTelesto(req[r].ctx, req[r].telesto, n, NoUrl, auth)
    BY <1>4 DEF EditTelestoSubmit
  <2>2. CASE req[r].telesto = None
    <3>1. req[r].telesto \notin TelestosForUser(req[r].ctx)
      BY <2>2, StorageAssumption DEF TelestosForUser, Telestos
    <3>2. UNCHANGED dbVars
      BY <2>1, <3>1 DEF UpdateTelesto, dbVars
    <3> QED
      BY <1>1, <1>2, <1>4, <3>2, UnchangedActs DEF EditTelestoSubmit
  <2>3. CASE req[r].telesto \in TelestoId
    BY <1>1, <1>2, <1>4, <2>1, <2>3, UpdateTelestoActs DEF EditTelestoSubmit
  <2> QED
    BY <1>2, <2>2, <2>3 DEF Request
<1>5. CASE DeleteTelestoSubmit(r)
  <2>1. CASE req[r].telesto = None
    <3>1. req[r].telesto \notin TelestosForUser(req[r].ctx)
      BY <2>1, StorageAssumption DEF TelestosForUser, Telestos
    <3>2. UNCHANGED dbVars
      BY <1>5, <3>1 DEF DeleteTelestoSubmit, DeleteTelesto, dbVars
    <3> QED
      BY <1>1, <1>2, <1>5, <3>2, UnchangedActs DEF DeleteTelestoSubmit
  <2>2. CASE req[r].telesto \in TelestoId
    BY <1>1, <1>2, <1>5, <2>2, DeleteTelestoActs DEF DeleteTelestoSubmit
  <2> QED
    BY <1>2, <2>1, <2>2 DEF Request
<1>6. CASE NewTokenSubmit(r)
  <2>1. PICK k \in TokenId, n \in Name : CreateToken(k, req[r].ctx, req[r].telesto, n)
    BY <1>6 DEF NewTokenSubmit
  <2>2. req[r].telesto \in Telestos
    BY <2>1 DEF CreateToken
  <2>3. req[r].telesto \in req[r].telestoRows
    BY <1>6 DEF IInv, RequestOK, NewTokenSubmit, At
  <2>4. telestos[req[r].telesto].user = req[r].ctx
    BY <2>2, <2>3 DEF IInv, RequestOK
  <2>5. req[r].telesto \in TelestoId
    BY <2>2 DEF Telestos
  <2>6. Act(req[r].ctx)
    BY <1>1, <1>2, <2>1, <2>4, <2>5, CreateTokenActs
  <2> QED
    BY <1>6, <2>6 DEF NewTokenSubmit
<1>7. CASE EditTokenSubmit(r)
  <2>1. PICK n \in Name : UpdateToken(req[r].ctx, req[r].token, n)
    BY <1>7 DEF EditTokenSubmit
  <2>2. CASE req[r].token = None
    <3>1. req[r].token \notin TokensForUser(req[r].ctx)
      BY <2>2, StorageAssumption DEF TokensForUser, Tokens
    <3>2. UNCHANGED dbVars
      BY <2>1, <3>1 DEF UpdateToken, dbVars
    <3> QED
      BY <1>1, <1>2, <1>7, <3>2, UnchangedActs DEF EditTokenSubmit
  <2>3. CASE req[r].token \in TokenId
    BY <1>1, <1>2, <1>7, <2>1, <2>3, UpdateTokenActs DEF EditTokenSubmit
  <2> QED
    BY <1>2, <2>2, <2>3 DEF Request
<1>8. CASE DeleteTokenSubmit(r)
  <2>1. CASE req[r].token = None
    <3>1. req[r].token \notin TokensForUser(req[r].ctx)
      BY <2>1, StorageAssumption DEF TokensForUser, Tokens
    <3>2. UNCHANGED dbVars
      BY <1>8, <3>1 DEF DeleteTokenSubmit, DeleteToken, dbVars
    <3> QED
      BY <1>1, <1>2, <1>8, <3>2, UnchangedActs DEF DeleteTokenSubmit
  <2>2. CASE req[r].token \in TokenId
    BY <1>1, <1>2, <1>8, <2>2, DeleteTokenActs DEF DeleteTokenSubmit
  <2> QED
    BY <1>2, <2>1, <2>2 DEF Request
<1> QED
  BY <1>3, <1>4, <1>5, <1>6, <1>7, <1>8 DEF Write

\* The update of MarkSeen runs on a token that was read from the user's rows,
\* so if the token is still there it is the one that gets marked.
LEMMA MarkSeenUpdateActs ==
    ASSUME IInv, NEW r \in Req, MarkSeenUpdate(r)
    PROVE  Act(req[r].ctx) /\ IInv'
<1>1. Consistent /\ req[r] \in Request /\ req[r].ctx \in Owner
  BY DEF IInv, Consistent, TypeOK, Request
<1>2. Act(req[r].ctx)
  <2>1. CASE req[r].token = None
    <3>1. req[r].token \notin TokensForUser(req[r].ctx)
      BY <2>1, StorageAssumption DEF TokensForUser, Tokens
    <3>2. UNCHANGED dbVars
      BY <3>1 DEF MarkSeenUpdate, MarkTokenSeen, dbVars
    <3> QED
      BY <1>1, <3>2, UnchangedActs
  <2>2. CASE req[r].token \in TokenId
    BY <1>1, <2>2, MarkTokenSeenActs DEF MarkSeenUpdate
  <2> QED
    BY <1>1, <2>1, <2>2 DEF Request
<1>3. Return(r)
  BY DEF MarkSeenUpdate
<1>4. CASE UNCHANGED reveal
  BY <1>1, <1>2, <1>3, <1>4, WriteKeepsIInv
<1>5. CASE req[r].secret /\ reveal' = [reveal EXCEPT ![req[r].token] = "settled"]
  <2>1. /\ req[r].token \in issued.tokens
        /\ req[r].token \in Tokens => tokens[req[r].token].user = req[r].ctx
        /\ req[r].token \in TokenId
    BY <1>5 DEF IInv, RequestOK, TypeOK, DbTypeOK
  <2>2. req[r].token \in Tokens' => tokens'[req[r].token].seen
    BY <2>1 DEF MarkSeenUpdate, MarkTokenSeen, TokensForUser, Tokens, IInv, TypeOK, DbTypeOK
  <2>3. SettledOK'
    BY <1>1, <1>2, <1>5, <2>1, <2>2, ActKeepsReads
       DEF IInv, SettledOK, TypeOK
  <2>4. TypeOK'
    BY <1>1, <1>2, <1>3, <1>5, <2>1, IdleOK DEF IInv, TypeOK, Act, Consistent, Return
  <2>5. ASSUME NEW s \in Req PROVE RequestOK(s)'
    BY <1>1, <1>2, <1>3, RequestsSurvive DEF IInv
  <2> QED
    BY <1>2, <2>3, <2>4, <2>5 DEF IInv, Act, Consistent
<1> QED
  BY <1>2, <1>4, <1>5 DEF MarkSeenUpdate, Settles

-----------------------------------------------------------------------------
(* The remaining steps touch no table.                                     *)

\* The middlewares touch no table, and what they let through has read nothing yet.
LEMMA MiddlewareKeepsIInv ==
    ASSUME IInv, NEW r \in Req,
           Protected(r) \/ \E u \in User : LoadSession(r, u)
    PROVE  UNCHANGED dbVars /\ IInv'
<1>1. /\ TypeOK /\ req[r] \in Request /\ RequestOK(r)
      /\ RowsAreIssued /\ SettledOK
  BY DEF IInv, TypeOK
<1>2. CASE \E u \in User : LoadSession(r, u)
  <2>1. PICK ctx \in Owner :
          req' = [req EXCEPT ![r].pc = "protect", ![r].ctx = ctx]
    BY <1>2 DEF LoadSession, Owner
  <2>2. req[r] = Idle /\ UNCHANGED <<telestos, tokens, issued, reveal>>
    BY <1>1, <1>2 DEF LoadSession, RequestOK, dbVars
  <2>3. req' = [req EXCEPT ![r] = [Idle EXCEPT !.pc = "protect", !.ctx = ctx]]
    BY <1>1, <2>1, <2>2 DEF TypeOK
  <2>4. [Idle EXCEPT !.pc = "protect", !.ctx = ctx] \in Request
    BY DEF Idle, Request, Pc, Owner
  <2>5. req' \in [Req -> Request] /\ \A s \in Req \ {r} : req'[s] = req[s]
    BY <1>1, <2>3, <2>4 DEF TypeOK
  <2>6. RequestOK(r)'
    BY <1>1, <2>2, <2>3 DEF RequestOK, Idle, TypeOK
  <2> QED
    BY <1>1, <2>2, <2>5, <2>6, ReadKeepsIInv DEF TypeOK, dbVars
<1>3. CASE Protected(r)
  <2>1. UNCHANGED <<telestos, tokens, issued, reveal>>
    BY <1>3 DEF Protected, dbVars
  <2>2. CASE Return(r)
    BY <1>1, <2>1, <2>2, ReturnKeepsIInv DEF TypeOK, dbVars
  <2>3. CASE ~Return(r)
    <3>1. PICK route \in Routes, i \in TelestoId \cup {None}, k \in TokenId \cup {None} :
            req' = [req EXCEPT ![r].pc = "handle", ![r].route = route,
                               ![r].telesto = i, ![r].token = k,
                               ![r].late = k # None /\ Withdrawn(k)]
      BY <1>3, <2>3 DEF Protected
    <3> DEFINE q == [req[r] EXCEPT !.pc = "handle", !.route = route, !.telesto = i,
                                   !.token = k, !.late = k # None /\ Withdrawn(k)]
    <3>2. req' = [req EXCEPT ![r] = q]
      BY <1>1, <3>1 DEF TypeOK
    <3>3. q \in Request
      BY <1>1, PortalAssumption DEF Request, Pc
    <3>4. req' \in [Req -> Request] /\ \A s \in Req \ {r} : req'[s] = req[s]
      BY <1>1, <3>2, <3>3 DEF TypeOK
    <3>5. k # None /\ Withdrawn(k) => k \in issued.tokens /\ (k \in Tokens => tokens[k].seen)
      BY <1>1 DEF Withdrawn, RowsAreIssued, SettledOK
    <3>6. req[r].pc = "protect"
      BY <1>3 DEF Protected
    <3>7. /\ req'[r] = q /\ q.pc = "handle" /\ q.ctx = req[r].ctx /\ q.token = k
          /\ q.late = (k # None /\ Withdrawn(k)) /\ q.secret = req[r].secret
          /\ q.telestoRows = req[r].telestoRows /\ q.tokenRows = req[r].tokenRows
      BY <1>1, <3>2 DEF TypeOK, Request
    <3> HIDE DEF q
    <3>8. RequestOK(r)'
      BY <1>1, <2>1, <3>5, <3>6, <3>7 DEF RequestOK, Telestos, Tokens
    <3> QED
      BY <1>1, <2>1, <3>4, <3>8, ReadKeepsIInv DEF TypeOK, dbVars
  <2> QED
    BY <2>2, <2>3
<1> QED
  BY <1>2, <1>3

\* The SELECTs of a handler are scoped to the user of its request; those of a
\* Preload are not, and read rows of the same user because the tables are
\* consistent.
LEMMA ReadKeepsRows ==
    ASSUME IInv, NEW r \in Req, Read(r)
    PROVE  UNCHANGED dbVars /\ IInv'
<1>1. /\ TypeOK /\ req[r] \in Request /\ RequestOK(r)
      /\ RowsAreIssued /\ TokenBelongsToOwner /\ UNCHANGED <<telestos, tokens, issued>>
  BY DEF IInv, TypeOK, Read, GetTelestos, NewToken, FindTelestos, GetTelesto, EditTelesto,
         FindTelesto, SelectTelesto, PreloadTokens, GetTokens, GetToken, EditToken, FindToken,
         PreloadTelesto, Render, dbVars
<1>2. CASE GetTelestos(r) \/ NewToken(r)
  <2> DEFINE q == [req[r] EXCEPT !.pc = "preload", !.telestoRows = TelestosForUser(req[r].ctx)]
  <2>1. req' = [req EXCEPT ![r] = q] /\ UNCHANGED reveal
    BY <1>1, <1>2 DEF GetTelestos, NewToken, FindTelestos, TypeOK
  <2>2. q \in Request
    BY <1>1 DEF Request, Pc, TelestosForUser, Telestos
  <2>3. \A i \in TelestosForUser(req[r].ctx) :
           i \in issued.telestos /\ telestos[i].user = req[r].ctx
    BY <1>1 DEF TelestosForUser, RowsAreIssued
  <2>4. /\ req'[r].telestoRows = TelestosForUser(req[r].ctx) /\ req'[r].pc = "preload"
        /\ \A f \in {"ctx", "route", "tokenRows", "secret", "late", "token", "telesto"} :
              req'[r][f] = req[r][f]
    BY <1>1, <2>1 DEF TypeOK, Request
  <2>5. RequestOK(r)'
    BY <1>1, <1>2, <2>3, <2>4
       DEF GetTelestos, NewToken, FindTelestos, At, RequestOK, Telestos, Tokens
  <2> QED
    BY <1>1, <2>1, <2>2, <2>5, ReadKeepsIInv DEF TypeOK, dbVars
<1>3. CASE GetTelesto(r) \/ EditTelesto(r)
  <2> DEFINE q == [req[r] EXCEPT !.pc = "preload", !.telestoRows = {req[r].telesto}]
  <2>1. req' = [req EXCEPT ![r] = q] /\ UNCHANGED reveal
    BY <1>1, <1>3 DEF GetTelesto, EditTelesto, FindTelesto, TypeOK
  <2>2. q \in Request
    BY <1>1, <1>3 DEF GetTelesto, EditTelesto, FindTelesto, Request, Pc, TelestosForUser, Telestos
  <2>3. RequestOK(r)'
    BY <1>1, <1>3, <2>1
       DEF GetTelesto, EditTelesto, FindTelesto, At, RequestOK, Request, TypeOK,
           RowsAreIssued, TelestosForUser, Telestos, Tokens
  <2> QED
    BY <1>1, <2>1, <2>2, <2>3, ReadKeepsIInv DEF TypeOK, dbVars
<1>4. CASE SelectTelesto(r)
  <2>1. PICK i \in TelestosForUser(req[r].ctx) :
          req' = [req EXCEPT ![r].pc = "preload", ![r].telesto = i, ![r].telestoRows = {i}]
    BY <1>4 DEF SelectTelesto
  <2> DEFINE q == [req[r] EXCEPT !.pc = "preload", !.telesto = i, !.telestoRows = {i}]
  <2>2. req' = [req EXCEPT ![r] = q] /\ UNCHANGED reveal
    BY <1>1, <1>4, <2>1 DEF SelectTelesto, TypeOK
  <2>3. q \in Request
    BY <1>1 DEF Request, Pc, TelestosForUser, Telestos
  <2>4. RequestOK(r)'
    BY <1>1, <1>4, <2>2 DEF SelectTelesto, At, RequestOK, Request, TypeOK, RowsAreIssued,
                            TelestosForUser, Telestos, Tokens
  <2> QED
    BY <1>1, <2>2, <2>3, <2>4, ReadKeepsIInv DEF TypeOK, dbVars
<1>5. CASE PreloadTokens(r)
  <2> DEFINE q == [req[r] EXCEPT
                     !.pc = IF req[r].route = "NewTokenSubmit" THEN "insert" ELSE "render",
                     !.tokenRows = TokensOfTelestos(req[r].telestoRows)]
  <2>1. req' = [req EXCEPT ![r] = q] /\ UNCHANGED reveal
    BY <1>1, <1>5 DEF PreloadTokens, TypeOK
  <2>2. q \in Request
    BY <1>1 DEF Request, Pc, TokensOfTelestos, Tokens
  <2>3. \A k \in TokensOfTelestos(req[r].telestoRows) :
           k \in issued.tokens /\ tokens[k].user = req[r].ctx
    BY <1>1 DEF TokensOfTelestos, RowsAreIssued, TokenBelongsToOwner, RequestOK
  <2>4. ~req[r].secret
    BY <1>1, <1>5 DEF PreloadTokens, At, RequestOK
  <2>5. RequestOK(r)'
    BY <1>1, <1>5, <2>1, <2>3, <2>4
       DEF PreloadTokens, At, RequestOK, Request, TypeOK, Telestos, Tokens
  <2> QED
    BY <1>1, <2>1, <2>2, <2>5, ReadKeepsIInv DEF TypeOK, dbVars
<1>6. CASE GetTokens(r)
  <2> DEFINE ks == TokensForUser(req[r].ctx)
             q == [req[r] EXCEPT !.pc = "preload", !.tokenRows = ks,
                                 !.telestoRows = {tokens[k].telesto : k \in ks}]
  <2>1. req' = [req EXCEPT ![r] = q] /\ UNCHANGED reveal
    BY <1>1, <1>6 DEF GetTokens, TypeOK
  <2>2. \A k \in ks : /\ k \in Tokens /\ k \in issued.tokens /\ tokens[k].user = req[r].ctx
                      /\ tokens[k].telesto \in TelestoId
                      /\ tokens[k].telesto \in issued.telestos
                      /\ telestos[tokens[k].telesto].user = req[r].ctx
    BY <1>1 DEF TokensForUser, RowsAreIssued, TokenBelongsToOwner, Telestos
  <2> DEFINE is == {tokens[k].telesto : k \in ks}
  <2>3. q \in Request
    <3>1. is \in SUBSET TelestoId /\ ks \in SUBSET TokenId
      BY <2>2 DEF TokensForUser, Tokens
    <3> HIDE DEF is, ks
    <3> QED
      BY <1>1, <3>1 DEF Request, Pc, is
  <2>4. /\ req'[r].telestoRows = is /\ req'[r].tokenRows = ks /\ req'[r].pc = "preload"
        /\ \A f \in {"ctx", "route", "secret", "late", "token", "telesto"} :
              req'[r][f] = req[r][f]
    BY <1>1, <2>1 DEF TypeOK, Request
  <2>5. \A i \in is : i \in issued.telestos /\ telestos[i].user = req[r].ctx
    BY <2>2
  <2>6. RequestOK(r)'
    <3> HIDE DEF ks, is, q
    <3> QED
      BY <1>1, <1>6, <2>2, <2>4, <2>5 DEF GetTokens, At, RequestOK, Telestos, Tokens
  <2> QED
    BY <1>1, <2>1, <2>3, <2>6, ReadKeepsIInv DEF TypeOK, dbVars
<1>7. CASE GetToken(r) \/ EditToken(r)
  <2>0. PICK shown \in BOOLEAN :
          /\ req[r].pc = "handle" /\ FindToken(r, shown)
          /\ shown => req[r].route = "GetToken"
          /\ req[r].route \in {"GetToken", "EditToken"}
    BY <1>7 DEF GetToken, EditToken, At
  <2> DEFINE k == req[r].token
             q == [req[r] EXCEPT !.pc = "preload", !.tokenRows = {k},
                                 !.telestoRows = {tokens[k].telesto},
                                 !.secret = shown /\ ~tokens[k].seen]
  <2>1. req' = [req EXCEPT ![r] = q] /\ UNCHANGED reveal
    BY <1>1, <2>0 DEF FindToken, TypeOK
  <2>2. /\ k \in Tokens /\ k \in issued.tokens /\ tokens[k].user = req[r].ctx
        /\ tokens[k].telesto \in TelestoId
        /\ tokens[k].telesto \in issued.telestos
        /\ telestos[tokens[k].telesto].user = req[r].ctx
    BY <1>1, <2>0 DEF FindToken, TokensForUser, RowsAreIssued, TokenBelongsToOwner, Telestos
  <2>3. q \in Request
    BY <1>1, <2>2 DEF Request, Pc, Tokens
  <2>4. RequestOK(r)'
    BY <1>1, <2>0, <2>1, <2>2 DEF FindToken, RequestOK, Request, TypeOK, Telestos, Tokens
  <2> QED
    BY <1>1, <2>1, <2>3, <2>4, ReadKeepsIInv DEF TypeOK, dbVars
<1>8. CASE PreloadTelesto(r)
  <2> DEFINE q == [req[r] EXCEPT !.pc = "render", !.telestoRows = @ \cap Telestos]
  <2>1. req' = [req EXCEPT ![r] = q] /\ UNCHANGED reveal
    BY <1>1, <1>8 DEF PreloadTelesto, TypeOK
  <2>2. q \in Request
    BY <1>1 DEF Request, Pc
  <2>3. /\ req'[r].telestoRows = req[r].telestoRows \cap Telestos /\ req'[r].pc = "render"
        /\ \A f \in {"ctx", "route", "tokenRows", "secret", "late", "token", "telesto"} :
              req'[r][f] = req[r][f]
    BY <1>1, <2>1 DEF TypeOK, Request
  <2>4. RequestOK(r)'
    BY <1>1, <1>8, <2>3 DEF PreloadTelesto, At, RequestOK, Telestos, Tokens
  <2> QED
    BY <1>1, <2>1, <2>2, <2>4, ReadKeepsIInv DEF TypeOK, dbVars
<1>9. CASE Render(r)
  <2>1. /\ reveal' \in [TokenId -> {"never", "shown", "settled"}]
        /\ \A k \in TokenId : reveal'[k] = "settled" => reveal[k] = "settled"
    BY <1>1, <1>9 DEF Render, TypeOK
  <2>2. CASE Return(r)
    BY <1>1, <2>1, <2>2, ReturnKeepsIInv DEF dbVars
  <2>3. CASE ~Return(r)
    <3> DEFINE q == [req[r] EXCEPT !.pc = "mark"]
    <3>1. req' = [req EXCEPT ![r] = q]
      BY <1>1, <1>9, <2>3 DEF Render, TypeOK
    <3>2. q \in Request
      BY <1>1 DEF Request, Pc
    <3>3. RequestOK(r)'
      BY <1>1, <1>9, <3>1 DEF Render, RequestOK, Request, TypeOK, Telestos, Tokens
    <3> QED
      BY <1>1, <2>1, <3>1, <3>2, <3>3, ReadKeepsIInv DEF TypeOK, dbVars
  <2> QED
    BY <2>2, <2>3
<1> QED
  BY <1>2, <1>3, <1>4, <1>5, <1>6, <1>7, <1>8, <1>9 DEF Read, dbVars

-----------------------------------------------------------------------------
(* The inductive invariant, and the steps of the portal on the tables.     *)

\* The portal starts with empty tables and no requests.
LEMMA InitIInv == Init => IInv
<1> SUFFICES ASSUME Init PROVE IInv
  OBVIOUS
<1>1. Telestos = {} /\ Tokens = {}
  BY DEF Init, DbInit, Telestos, Tokens
<1>2. TypeOK
  BY IdleOK DEF Init, DbInit, TypeOK, DbTypeOK
<1>3. RowsAreIssued /\ TokenBelongsToOwner /\ UniqueNames
  BY <1>1 DEF RowsAreIssued, TokenBelongsToOwner, UniqueNames
<1>4. \A r \in Req : RequestOK(r)
  BY DEF Init, RequestOK, Idle
<1>5. SettledOK
  BY DEF Init, SettledOK
<1> QED
  BY <1>2, <1>3, <1>4, <1>5 DEF IInv

\* One case per kind of step: each keeps the invariant and is, on the tables,
\* a step of one user or none.
LEMMA StepKeepsIInv ==
    ASSUME IInv, [Next]_vars
    PROVE  IInv' /\ (UserStep \/ UNCHANGED dbVars)
<1>1. \A r \in Req : req[r].ctx \in Owner
  BY DEF IInv, TypeOK, Request
<1>2. ASSUME NEW r \in Req, Protected(r) \/ \E u \in User : LoadSession(r, u)
      PROVE  IInv' /\ UNCHANGED dbVars
  BY <1>2, MiddlewareKeepsIInv
<1>3. ASSUME NEW r \in Req, Read(r) PROVE IInv' /\ UNCHANGED dbVars
  BY <1>3, ReadKeepsRows
<1>4. ASSUME NEW r \in Req, Mark(r)
      PROVE  IInv' /\ (UserStep \/ UNCHANGED dbVars)
  <2>1. CASE MarkSeenGet(r)
    <3>1. /\ req[r] \in Request /\ RequestOK(r) /\ TypeOK
          /\ UNCHANGED <<telestos, tokens, issued, reveal>>
      BY <2>1 DEF MarkSeenGet, IInv, TypeOK, dbVars
    <3> DEFINE q == [req[r] EXCEPT !.pc = "update"]
    <3>2. req' = [req EXCEPT ![r] = q]
      BY <2>1, <3>1 DEF MarkSeenGet, TypeOK
    <3>3. q \in Request
      BY <3>1 DEF Request, Pc
    <3>4. RequestOK(r)'
      BY <2>1, <3>1, <3>2 DEF MarkSeenGet, At, RequestOK, Request, TypeOK, Telestos, Tokens
    <3> QED
      BY <3>1, <3>2, <3>3, <3>4, ReadKeepsIInv DEF TypeOK, dbVars
  <2>2. CASE MarkSeenUpdate(r)
    BY <1>1, <2>2, MarkSeenUpdateActs DEF UserStep
  <2> QED
    BY <1>4, <2>1, <2>2 DEF Mark
<1>5. ASSUME NEW r \in Req, Write(r) PROVE IInv' /\ UserStep
  BY <1>1, <1>5, WriteActs, WriteKeepsIInv DEF UserStep
<1>6. ASSUME NEW r \in Req, StatementFails(r) PROVE IInv' /\ UNCHANGED dbVars
  BY <1>6, ReturnKeepsIInv DEF StatementFails, Fails, dbVars, IInv, TypeOK
<1>7. CASE Crash
  <2>1. UNCHANGED <<telestos, tokens, issued, reveal>> /\ req' = [r \in Req |-> Idle]
    BY <1>7 DEF Crash, dbVars
  <2>2. TypeOK' /\ RowsAreIssued' /\ TokenBelongsToOwner' /\ UniqueNames' /\ SettledOK'
    BY <2>1, IdleOK DEF IInv, TypeOK, DbTypeOK, RowsAreIssued, TokenBelongsToOwner,
          UniqueNames, TelestoNameFree, TokenNameFree, SettledOK, Telestos, Tokens
  <2>3. \A r \in Req : RequestOK(r)'
    BY <2>1 DEF RequestOK, Idle
  <2> QED
    BY <2>1, <2>2, <2>3 DEF IInv, dbVars
<1>8. CASE UNCHANGED vars
  <2>1. UNCHANGED <<telestos, tokens, issued, req, reveal>>
    BY <1>8 DEF vars
  <2> QED
    BY <2>1 DEF IInv, TypeOK, DbTypeOK, RowsAreIssued, TokenBelongsToOwner, UniqueNames,
                TelestoNameFree, TokenNameFree, RequestOK, SettledOK, Telestos, Tokens, dbVars
<1> QED
  BY <1>2, <1>3, <1>4, <1>5, <1>6, <1>7, <1>8 DEF Next, Serve

\* The invariant holds in every reachable state.
THEOREM InductiveInvariant == Spec => []IInv
<1>1. IInv /\ [Next]_vars => IInv'
  BY StepKeepsIInv
<1> QED
  BY InitIInv, <1>1, PTL DEF Spec

-----------------------------------------------------------------------------
(* The theorems.                                                           *)

\* Every variable keeps its type.
THEOREM TypeCorrect == Spec => []TypeOK
<1>1. IInv => TypeOK
  BY DEF IInv
<1> QED
  BY InductiveInvariant, <1>1, PTL

\* A token always belongs to an existing telesto of its own user, although
\* NewTokenSubmit looks the telesto up and inserts the token in two statements.
THEOREM TokensHaveOwners == Spec => []TokenBelongsToOwner
<1>1. IInv => TokenBelongsToOwner
  BY DEF IInv
<1> QED
  BY InductiveInvariant, <1>1, PTL

\* No page holds a row of another user, whatever its Preload reads.
THEOREM PagesShowOwnRows == Spec => []PagesAreOwn
<1>1. IInv => PagesAreOwn
  BY DEF IInv, RequestOK, PagesAreOwn
<1> QED
  BY InductiveInvariant, <1>1, PTL

\* A token whose page was shown and marked without an error stays seen.
THEOREM SettledTokensAreSeen == Spec => []SettledIsSeen
<1>1. IInv => SettledIsSeen
  BY DEF IInv, SettledOK, SettledIsSeen, Tokens
<1> QED
  BY InductiveInvariant, <1>1, PTL

\* A secret withdrawn before a request was routed is not shown by it.
THEOREM WithdrawnStaysHidden == Spec => []NoLateReveal
<1>1. IInv => NoLateReveal
  BY DEF IInv, RequestOK, NoLateReveal
<1> QED
  BY InductiveInvariant, <1>1, PTL

\* The portal implements the registry: under any interleaving, failure or
\* crash, the tables change by consistent atomic steps of one user at a time.
THEOREM PortalImplementsRegistry == Spec => ImplementsRegistry
<1>1. Init => DbInit
  BY DEF Init
<1>2. IInv /\ [Next]_vars => [UserStep]_dbVars
  BY StepKeepsIInv
<1> QED
  BY InductiveInvariant, <1>1, <1>2, PTL DEF Spec, ImplementsRegistry, RegistrySpec

\* A step of one user leaves the rows of every other user as they are.
LEMMA ActSparesOthers ==
    ASSUME DbTypeOK, NEW u \in Owner, Act(u), NEW v \in Owner \ {u}
    PROVE  /\ TelestosForUser(v)' = TelestosForUser(v) /\ TokensForUser(v)' = TokensForUser(v)
           /\ \A i \in TelestosForUser(v) : telestos'[i] = telestos[i]
           /\ \A k \in TokensForUser(v) : tokens'[k] = tokens[k]
<1>1. \A i \in TelestoId :
         \/ telestos[i] # None /\ telestos[i].user = v
         \/ telestos'[i] # None /\ telestos'[i].user = v
         => telestos'[i] = telestos[i]
  BY DEF Act, ConfinedTo, KeepsIdentity, Telestos
<1>2. \A k \in TokenId :
         \/ tokens[k] # None /\ tokens[k].user = v
         \/ tokens'[k] # None /\ tokens'[k].user = v
         => tokens'[k] = tokens[k]
  BY DEF Act, ConfinedTo, KeepsIdentity, Tokens
<1>3. \A i \in TelestoId : (telestos[i] # None /\ telestos[i].user = v)
                        <=> (telestos'[i] # None /\ telestos'[i].user = v)
  BY <1>1
<1>4. \A k \in TokenId : (tokens[k] # None /\ tokens[k].user = v)
                      <=> (tokens'[k] # None /\ tokens'[k].user = v)
  BY <1>2
<1>5. TelestosForUser(v)' = TelestosForUser(v)
  BY <1>3 DEF TelestosForUser, Telestos
<1>6. TokensForUser(v)' = TokensForUser(v)
  BY <1>4 DEF TokensForUser, Tokens
<1> QED
  BY <1>1, <1>2, <1>5, <1>6 DEF TelestosForUser, TokensForUser, Telestos, Tokens

\* An act of one owner leaves all that another can see as it was.
LEMMA ActConfined ==
    ASSUME DbTypeOK, NEW u \in Owner, Act(u), NEW v \in Owner \ {u}
    PROVE  RowsOf(v)' = RowsOf(v)
<1>1. [i \in TelestosForUser(v) |-> telestos[i]]' = [i \in TelestosForUser(v) |-> telestos[i]]
  BY ActSparesOthers
<1>2. [k \in TokensForUser(v) |-> tokens[k]]' = [k \in TokensForUser(v) |-> tokens[k]]
  BY ActSparesOthers
<1> QED
  BY <1>1, <1>2 DEF RowsOf

\* The rows of a user change only in a writing step of a request that carries
\* that user's id.
THEOREM OnlyOwnersWrite == Spec => WritesByOwner
<1> DEFINE ByOwner == \A u \in Owner : RowsOf(u)' # RowsOf(u) =>
                         \E r \in Req : /\ req[r].ctx = u
                                        /\ req[r].pc \in {"handle", "insert", "update"}
                                        /\ req'[r] = Idle
<1>1. ASSUME IInv, [Next]_vars PROVE ByOwner
  <2>1. TypeOK /\ DbTypeOK
    BY <1>1 DEF IInv, TypeOK
  <2>2. ASSUME UNCHANGED dbVars PROVE ByOwner
    BY <2>2 DEF RowsOf, TelestosForUser, TokensForUser, Telestos, Tokens, dbVars
  <2>3. ASSUME NEW r \in Req, Write(r) \/ MarkSeenUpdate(r) PROVE ByOwner
    <3>1. req[r].ctx \in Owner /\ Act(req[r].ctx) /\ Return(r)
      BY <1>1, <2>3, WriteActs, MarkSeenUpdateActs DEF MarkSeenUpdate, IInv, TypeOK, Request
    <3>2. req'[r] = Idle
      BY <2>1, <3>1 DEF Return, TypeOK
    <3>3. req[r].pc \in {"handle", "insert", "update"}
      BY <2>3 DEF Write, NewTelestoSubmit, EditTelestoSubmit, DeleteTelestoSubmit,
                  NewTokenSubmit, EditTokenSubmit, DeleteTokenSubmit, MarkSeenUpdate, At
    <3> QED
      BY <2>1, <3>1, <3>2, <3>3, ActConfined
  <2>4. (\E r \in Req : Write(r) \/ MarkSeenUpdate(r)) \/ UNCHANGED dbVars
    BY <1>1, MiddlewareKeepsIInv, ReadKeepsRows
       DEF Next, Serve, Mark, MarkSeenGet, StatementFails, Fails, Crash, vars, dbVars
  <2> QED
    BY <2>2, <2>3, <2>4
<1>2. ByOwner => [ByOwner]_vars
  OBVIOUS
<1> QED
  BY InductiveInvariant, <1>1, PTL DEF Spec, WritesByOwner
=============================================================================
