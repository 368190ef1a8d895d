---------------------------- MODULE SystemProofs ----------------------------
(***************************************************************************)
(* The portal and the cluster together, for every set of users, rows and   *)
(* requests: the portal's requests are what Provisioning takes them for,   *)
(* and no collector of a user loads a token whose secret was sent to       *)
(* another person.                                                         *)
(* What is proved of Portal and of Provisioning then holds of the system.  *)
(***************************************************************************)
EXTENDS System, PortalProofs

-----------------------------------------------------------------------------
(* The portal implements the step that Provisioning takes it for.          *)

\* The instance reads the same tables.
LEMMA SameTables ==
    /\ Cluster!Telestos = Telestos /\ Cluster!Tokens = Tokens
    /\ \A u : Cluster!TelestosForUser(u) = TelestosForUser(u)
    /\ \A u : Cluster!TokensForUser(u) = TokensForUser(u)
    /\ \A is : Cluster!TokensOfTelestos(is) = TokensOfTelestos(is)
    /\ \A i, u, n : Cluster!TelestoNameFree(i, u, n) <=> TelestoNameFree(i, u, n)
    /\ \A k, u, n : Cluster!TokenNameFree(k, u, n) <=> TokenNameFree(k, u, n)
  BY DEF Cluster!Telestos, Telestos, Cluster!Tokens, Tokens,
         Cluster!TelestosForUser, TelestosForUser, Cluster!TokensForUser, TokensForUser,
         Cluster!TokensOfTelestos, TokensOfTelestos,
         Cluster!TelestoNameFree, TelestoNameFree, Cluster!TokenNameFree, TokenNameFree

\* It runs the same statements.
LEMMA SameStatements ==
    /\ \A i, u, n, url : CreateTelesto(i, u, n, url) <=> Cluster!CreateTelesto(i, u, n, url)
    /\ \A u, i, n, url, auth :
          UpdateTelesto(u, i, n, url, auth) <=> Cluster!UpdateTelesto(u, i, n, url, auth)
    /\ \A u, i : DeleteTelesto(u, i) <=> Cluster!DeleteTelesto(u, i)
    /\ \A k, u, i, n : CreateToken(k, u, i, n) <=> Cluster!CreateToken(k, u, i, n)
    /\ \A u, k, n : UpdateToken(u, k, n) <=> Cluster!UpdateToken(u, k, n)
    /\ \A u, k : MarkTokenSeen(u, k) <=> Cluster!MarkTokenSeen(u, k)
    /\ \A u, k : DeleteToken(u, k) <=> Cluster!DeleteToken(u, k)
<1>1. \A i, u, n, url : CreateTelesto(i, u, n, url) <=> Cluster!CreateTelesto(i, u, n, url)
  BY SameTables DEF CreateTelesto, Cluster!CreateTelesto
<1>2. \A u, i, n, url, auth :
         UpdateTelesto(u, i, n, url, auth) <=> Cluster!UpdateTelesto(u, i, n, url, auth)
  BY SameTables DEF UpdateTelesto, Cluster!UpdateTelesto, NonZero, Cluster!NonZero
<1>3. \A u, i : DeleteTelesto(u, i) <=> Cluster!DeleteTelesto(u, i)
  BY SameTables DEF DeleteTelesto, Cluster!DeleteTelesto
<1>4. \A k, u, i, n : CreateToken(k, u, i, n) <=> Cluster!CreateToken(k, u, i, n)
  BY SameTables DEF CreateToken, Cluster!CreateToken
<1>5. \A u, k, n : UpdateToken(u, k, n) <=> Cluster!UpdateToken(u, k, n)
  BY SameTables DEF UpdateToken, Cluster!UpdateToken
<1>6. \A u, k : MarkTokenSeen(u, k) <=> Cluster!MarkTokenSeen(u, k)
  BY SameTables DEF MarkTokenSeen, Cluster!MarkTokenSeen
<1>7. \A u, k : DeleteToken(u, k) <=> Cluster!DeleteToken(u, k)
  BY SameTables DEF DeleteToken, Cluster!DeleteToken
<1> QED
  BY <1>1, <1>2, <1>3, <1>4, <1>5, <1>6, <1>7

\* A request that writes does so on its own rows, or changes nothing: the telesto
\* that NewTokenSubmit looked up is still its user's if it is there to insert for.
LEMMA WriteIsPortalStep ==
    ASSUME IInv, NEW r \in Req, Write(r) \/ Mark(r), UNCHANGED pVars
    PROVE  Cluster!PortalStep \/ UNCHANGED dbVars
<1> DEFINE u == req[r].ctx
<1>1. /\ u \in Owner /\ RequestOK(r)
      /\ req[r].telesto \in TelestoId \cup {None} /\ req[r].token \in TokenId \cup {None}
  BY DEF IInv, TypeOK, Request
<1>2. CASE NewTelestoSubmit(r)
  BY <1>1, <1>2, SameStatements DEF NewTelestoSubmit, Cluster!PortalStep, pVars, Cluster!pVars,
     Cluster!Owner, Owner
<1>3. CASE EditTelestoSubmit(r)
  <2>1. PICK n \in Name, auth \in BOOLEAN : UpdateTelesto(u, req[r].telesto, n, NoUrl, auth)
    BY <1>3 DEF EditTelestoSubmit
  <2>2. CASE req[r].telesto \in TelestosForUser(u)
    BY <1>1, <2>1, <2>2, SameTables, SameStatements
       DEF Cluster!PortalStep, pVars, Cluster!pVars, Cluster!Owner, Owner
  <2>3. CASE req[r].telesto \notin TelestosForUser(u)
    BY <2>1, <2>3 DEF UpdateTelesto, dbVars
  <2> QED
    BY <2>2, <2>3
<1>4. CASE DeleteTelestoSubmit(r)
  <2>1. DeleteTelesto(u, req[r].telesto)
    BY <1>4 DEF DeleteTelestoSubmit
  <2>2. CASE req[r].telesto \in TelestosForUser(u)
    BY <1>1, <2>1, <2>2, SameTables, SameStatements
       DEF Cluster!PortalStep, pVars, Cluster!pVars, Cluster!Owner, Owner
  <2>3. CASE req[r].telesto \notin TelestosForUser(u)
    BY <2>1, <2>3 DEF DeleteTelesto, dbVars
  <2> QED
    BY <2>2, <2>3
<1>5. CASE NewTokenSubmit(r)
  <2>1. PICK k \in TokenId, n \in Name : CreateToken(k, u, req[r].telesto, n)
    BY <1>5 DEF NewTokenSubmit
  <2>2. req[r].telesto \in TelestosForUser(u)
    BY <1>1, <1>5, <2>1 DEF NewTokenSubmit, At, RequestOK, CreateToken, TelestosForUser
  <2> QED
    BY <1>1, <2>1, <2>2, SameTables, SameStatements
       DEF Cluster!PortalStep, pVars, Cluster!pVars, Cluster!Owner, Owner
<1>6. CASE EditTokenSubmit(r)
  <2>1. PICK n \in Name : UpdateToken(u, req[r].token, n)
    BY <1>6 DEF EditTokenSubmit
  <2>2. CASE req[r].token \in TokensForUser(u)
    BY <1>1, <2>1, <2>2, SameTables, SameStatements
       DEF Cluster!PortalStep, pVars, Cluster!pVars, Cluster!Owner, Owner
  <2>3. CASE req[r].token \notin TokensForUser(u)
    BY <2>1, <2>3 DEF UpdateToken, dbVars
  <2> QED
    BY <2>2, <2>3
<1>7. CASE DeleteTokenSubmit(r)
  <2>1. DeleteToken(u, req[r].token)
    BY <1>7 DEF DeleteTokenSubmit
  <2>2. CASE req[r].token \in TokensForUser(u)
    BY <1>1, <2>1, <2>2, SameTables, SameStatements
       DEF Cluster!PortalStep, pVars, Cluster!pVars, Cluster!Owner, Owner
  <2>3. CASE req[r].token \notin TokensForUser(u)
    BY <2>1, <2>3 DEF DeleteToken, dbVars
  <2> QED
    BY <2>2, <2>3
<1>8. CASE MarkSeenUpdate(r)
  <2>1. MarkTokenSeen(u, req[r].token)
    BY <1>8 DEF MarkSeenUpdate
  <2>2. CASE req[r].token \in TokensForUser(u)
    BY <1>1, <2>1, <2>2, SameTables, SameStatements
       DEF Cluster!PortalStep, pVars, Cluster!pVars, Cluster!Owner, Owner
  <2>3. CASE req[r].token \notin TokensForUser(u)
    BY <2>1, <2>3 DEF MarkTokenSeen, dbVars
  <2> QED
    BY <2>2, <2>3
<1>9. CASE MarkSeenGet(r)
  BY <1>9 DEF MarkSeenGet
<1> QED
  BY <1>2, <1>3, <1>4, <1>5, <1>6, <1>7, <1>8, <1>9 DEF Write, Mark

\* Every step of the portal is one that Provisioning expects, or keeps the tables.
LEMMA PortalImplements ==
    ASSUME IInv, Next, UNCHANGED pVars
    PROVE  Cluster!PortalStep \/ UNCHANGED dbVars
<1>1. ASSUME NEW r \in Req, Protected(r) \/ \E u \in User : LoadSession(r, u)
      PROVE  UNCHANGED dbVars
  BY <1>1 DEF Protected, LoadSession
<1>2. ASSUME NEW r \in Req, Read(r) PROVE UNCHANGED dbVars
  BY <1>2, ReadKeepsRows
<1>3. ASSUME NEW r \in Req, StatementFails(r) PROVE UNCHANGED dbVars
  BY <1>3 DEF StatementFails, Fails
<1>4. CASE Crash
  BY <1>4 DEF Crash
<1> QED
  BY <1>1, <1>2, <1>3, <1>4, WriteIsPortalStep DEF Next, Serve

-----------------------------------------------------------------------------
(* What a request learns.                                                  *)

\* A request comes to hold a secret only by reading the row of its user's token, and
\* keeps its user and its token while it holds it.
LEMMA RequestLearns ==
    ASSUME IInv, Next, NEW r \in Req, req'[r].secret
    PROVE  \/ /\ req[r].secret
              /\ req'[r].token = req[r].token /\ req'[r].ctx = req[r].ctx
           \/ /\ req'[r].token \in TokensForUser(req'[r].ctx)
              /\ UNCHANGED dbVars
<1>1. req \in [Req -> Request] /\ req[r] \in Request /\ RequestOK(r)
  BY DEF IInv, TypeOK
<1>2. ~Idle.secret
  BY DEF Idle
<1>3. ASSUME NEW s \in Req, Return(s) PROVE s # r /\ req'[r] = req[r]
  BY <1>1, <1>2, <1>3 DEF Return
<1>4. ASSUME NEW s \in Req, s # r, NEW q, req' = [req EXCEPT ![s] = q]
      PROVE  req'[r] = req[r]
  BY <1>1, <1>4
<1>5. ASSUME NEW s \in Req, \E u \in User : LoadSession(s, u)
      PROVE  req[r].secret /\ req'[r].token = req[r].token /\ req'[r].ctx = req[r].ctx
  <2>1. s # r
    BY <1>1, <1>2, <1>5 DEF LoadSession, RequestOK, Request
  <2> QED
    BY <1>1, <1>5, <2>1 DEF LoadSession
<1>6. ASSUME NEW s \in Req, Protected(s)
      PROVE  req[r].secret /\ req'[r].token = req[r].token /\ req'[r].ctx = req[r].ctx
  <2>1. CASE Return(s)
    BY <1>3, <2>1
  <2>2. CASE ~Return(s)
    <3>1. PICK route \in Routes, i \in TelestoId \cup {None}, k \in TokenId \cup {None} :
            req' = [req EXCEPT ![s].pc = "handle", ![s].route = route, ![s].telesto = i,
                               ![s].token = k, ![s].late = k # None /\ Withdrawn(k)]
      BY <1>6, <2>2 DEF Protected
    <3>2. CASE s = r
      <4>1. ~req[r].secret
        BY <1>1, <1>6, <3>2 DEF Protected, RequestOK
      <4> QED
        BY <1>1, <3>1, <3>2, <4>1 DEF Request
    <3>3. CASE s # r
      BY <1>1, <3>1, <3>3
    <3> QED
      BY <3>2, <3>3
  <2> QED
    BY <2>1, <2>2
<1>7. ASSUME NEW s \in Req, GetToken(s)
      PROVE  \/ req'[r] = req[r]
             \/ req'[r].token \in TokensForUser(req'[r].ctx) /\ UNCHANGED dbVars
  BY <1>1, <1>7 DEF GetToken, FindToken, Request
<1>8. ASSUME NEW s \in Req, EditToken(s) PROVE req'[r] = req[r]
  BY <1>1, <1>8 DEF EditToken, FindToken, Request
<1>9. ASSUME NEW s \in Req, MarkSeenGet(s) \/ Render(s)
      PROVE  req[r].secret /\ req'[r].token = req[r].token /\ req'[r].ctx = req[r].ctx
  <2>1. CASE Return(s)
    BY <1>3, <2>1
  <2>2. CASE ~Return(s)
    BY <1>1, <1>9, <2>2 DEF MarkSeenGet, Render, Request
  <2> QED
    BY <2>1, <2>2
<1>10. ASSUME NEW s \in Req,
              FindTelestos(s) \/ FindTelesto(s) \/ SelectTelesto(s) \/ PreloadTelesto(s)
       PROVE  req[r].secret /\ req'[r].token = req[r].token /\ req'[r].ctx = req[r].ctx
  <2>1. CASE FindTelestos(s)
    BY <1>1, <2>1 DEF FindTelestos, Request
  <2>2. CASE FindTelesto(s)
    BY <1>1, <2>2 DEF FindTelesto, Request
  <2>3. CASE SelectTelesto(s)
    BY <1>1, <2>3 DEF SelectTelesto, Request
  <2>4. CASE PreloadTelesto(s)
    BY <1>1, <2>4 DEF PreloadTelesto, Request
  <2> QED
    BY <1>10, <2>1, <2>2, <2>3, <2>4
<1>11. ASSUME NEW s \in Req, PreloadTokens(s) \/ GetTokens(s)
       PROVE  req[r].secret /\ req'[r].token = req[r].token /\ req'[r].ctx = req[r].ctx
  <2>1. CASE PreloadTokens(s)
    BY <1>1, <2>1 DEF PreloadTokens, Request
  <2>2. CASE GetTokens(s)
    BY <1>1, <2>2 DEF GetTokens, Request
  <2> QED
    BY <1>11, <2>1, <2>2
<1>12. ASSUME NEW s \in Req, Write(s) \/ MarkSeenUpdate(s) \/ StatementFails(s)
       PROVE  req'[r] = req[r]
  <2>1. Return(s)
    BY <1>12 DEF Write, NewTelestoSubmit, EditTelestoSubmit, DeleteTelestoSubmit,
       NewTokenSubmit, EditTokenSubmit, DeleteTokenSubmit, MarkSeenUpdate, StatementFails, Fails
  <2> QED
    BY <1>3, <2>1
<1>13. ~Crash
  BY <1>2 DEF Crash
<1>14. ASSUME NEW s \in Req, Read(s)
       PROVE  \/ /\ req[r].secret
                 /\ req'[r].token = req[r].token /\ req'[r].ctx = req[r].ctx
              \/ /\ req'[r].token \in TokensForUser(req'[r].ctx)
                 /\ UNCHANGED dbVars
  <2>1. CASE GetToken(s)
    BY <1>7, <2>1
  <2>2. CASE EditToken(s)
    BY <1>8, <2>2
  <2>3. CASE FindTelestos(s) \/ FindTelesto(s) \/ SelectTelesto(s) \/ PreloadTelesto(s)
    BY <1>10, <2>3
  <2>4. CASE PreloadTokens(s) \/ GetTokens(s)
    BY <1>11, <2>4
  <2>5. CASE Render(s)
    BY <1>9, <2>5
  <2> QED
    BY <1>14, <2>1, <2>2, <2>3, <2>4, <2>5
       DEF Read, GetTelestos, NewToken, GetTelesto, EditTelesto
<1> QED
  BY <1>5, <1>6, <1>9, <1>12, <1>13, <1>14 DEF Next, Serve, Mark

-----------------------------------------------------------------------------
(* Who sent a request.                                                     *)

\* A request keeps the user it acts for until it ends.
LEMMA ContextKept ==
    ASSUME IInv, (\E s \in Req : Serve(s)) \/ Crash, NEW r \in Req
    PROVE  req'[r] = Idle \/ req'[r].ctx = req[r].ctx
<1>1. req \in [Req -> Request] /\ req[r] \in Request
  BY DEF IInv, TypeOK
<1>2. ASSUME NEW s \in Req, Return(s) PROVE req'[r] = Idle \/ req'[r] = req[r]
  BY <1>1, <1>2 DEF Return
<1>3. ASSUME NEW s \in Req, Protected(s) PROVE req'[r] = Idle \/ req'[r].ctx = req[r].ctx
  <2>1. CASE Return(s)
    BY <1>2, <2>1
  <2>2. CASE ~Return(s)
    <3>1. PICK route \in Routes, i \in TelestoId \cup {None}, k \in TokenId \cup {None} :
            req' = [req EXCEPT ![s].pc = "handle", ![s].route = route, ![s].telesto = i,
                               ![s].token = k, ![s].late = k # None /\ Withdrawn(k)]
      BY <1>3, <2>2 DEF Protected
    <3> QED
      BY <1>1, <3>1 DEF Request
  <2> QED
    BY <2>1, <2>2
<1>4. ASSUME NEW s \in Req, Write(s) \/ MarkSeenUpdate(s) \/ StatementFails(s) PROVE Return(s)
  BY <1>4 DEF Write, NewTelestoSubmit, EditTelestoSubmit, DeleteTelestoSubmit,
     NewTokenSubmit, EditTokenSubmit, DeleteTokenSubmit, MarkSeenUpdate, StatementFails, Fails
<1>5. ASSUME NEW s \in Req, MarkSeenGet(s) \/ Render(s)
      PROVE  req'[r] = Idle \/ req'[r].ctx = req[r].ctx
  <2>1. CASE Return(s)
    BY <1>2, <2>1
  <2>2. CASE ~Return(s)
    BY <1>1, <1>5, <2>2 DEF MarkSeenGet, Render, Request
  <2> QED
    BY <2>1, <2>2
<1>6. ASSUME NEW s \in Req, FindTelestos(s) \/ FindTelesto(s) \/ SelectTelesto(s)
      PROVE  req'[r].ctx = req[r].ctx
  <2>1. CASE FindTelestos(s)
    BY <1>1, <2>1 DEF FindTelestos, Request
  <2>2. CASE FindTelesto(s)
    BY <1>1, <2>2 DEF FindTelesto, Request
  <2>3. CASE SelectTelesto(s)
    BY <1>1, <2>3 DEF SelectTelesto, Request
  <2> QED
    BY <1>6, <2>1, <2>2, <2>3
<1>7. ASSUME NEW s \in Req, PreloadTelesto(s) \/ PreloadTokens(s) \/ GetTokens(s)
      PROVE  req'[r].ctx = req[r].ctx
  <2>1. CASE PreloadTelesto(s)
    BY <1>1, <2>1 DEF PreloadTelesto, Request
  <2>2. CASE PreloadTokens(s)
    BY <1>1, <2>2 DEF PreloadTokens, Request
  <2>3. CASE GetTokens(s)
    BY <1>1, <2>3 DEF GetTokens, Request
  <2> QED
    BY <1>7, <2>1, <2>2, <2>3
<1>8. ASSUME NEW s \in Req, GetToken(s) \/ EditToken(s) PROVE req'[r].ctx = req[r].ctx
  BY <1>1, <1>8 DEF GetToken, EditToken, FindToken, Request
<1>9. CASE Crash
  BY <1>9 DEF Crash
<1> QED
  BY <1>2, <1>3, <1>4, <1>5, <1>6, <1>7, <1>8, <1>9
     DEF Serve, Read, Mark, GetTelestos, NewToken, GetTelesto, EditTelesto

\* A step of the portal is a step of Next, and whoever is said to have sent a request
\* is the one it acts for, unless it acts for nobody.
LEMMA PersonKept ==
    ASSUME IInv, PortalRuns, person \in [Req -> Owner],
           \A r \in Req : req[r].ctx \in {person[r], NoUser}
    PROVE  /\ Next /\ UNCHANGED pVars
           /\ person' \in [Req -> Owner]
           /\ \A r \in Req : req'[r].ctx \in {person'[r], NoUser}
           /\ \A r \in Req : req'[r].secret => person'[r] = person[r]
<1>1. /\ req \in [Req -> Request] /\ NoUser \in Owner /\ User \subseteq Owner
      /\ Idle.ctx = NoUser /\ ~Idle.secret
  BY DEF IInv, TypeOK, Owner, Idle
<1>2. CASE Arrives
  <2>1. PICK s \in Req, u \in User : LoadSession(s, u) /\ person' = [person EXCEPT ![s] = u]
    BY <1>2 DEF Arrives
  <2>2. PICK ctx \in {u, NoUser} : req' = [req EXCEPT ![s].pc = "protect", ![s].ctx = ctx]
    BY <2>1 DEF LoadSession
  <2>3. ~req[s].secret
    BY <1>1, <2>1 DEF LoadSession, IInv, TypeOK, RequestOK
  <2>4. /\ req'[s].ctx = ctx /\ req'[s].secret = req[s].secret
        /\ \A r \in Req \ {s} : req'[r] = req[r]
    BY <1>1, <2>2 DEF Request
  <2>5. person'[s] = u /\ \A r \in Req \ {s} : person'[r] = person[r]
    BY <2>1
  <2>6. person' \in [Req -> Owner]
    BY <1>1, <2>1
  <2>7. Next /\ UNCHANGED pVars
    BY <2>1 DEF PortalRuns, Next
  <2> QED
    BY <2>2, <2>3, <2>4, <2>5, <2>6, <2>7
<1>3. CASE GoesOn
  <2>1. Next /\ UNCHANGED pVars
    BY <1>3 DEF GoesOn, PortalRuns, Next
  <2>2. ASSUME NEW r \in Req PROVE req'[r] = Idle \/ req'[r].ctx = req[r].ctx
    BY <1>3, ContextKept DEF GoesOn
  <2>3. \A r \in Req : person'[r] = IF req'[r] = Idle THEN NoUser ELSE person[r]
    BY <1>3 DEF GoesOn
  <2>4. person' \in [Req -> Owner]
    BY <1>1, <1>3 DEF GoesOn
  <2> QED
    BY <1>1, <2>1, <2>2, <2>3, <2>4
<1> QED
  BY <1>2, <1>3 DEF PortalRuns

-----------------------------------------------------------------------------
(* The invariant.                                                          *)

\* At first no secret is known and no token has reached a collector.
LEMMA InitSystemInv == SystemInit => SystemInv
<1> SUFFICES ASSUME SystemInit PROVE SystemInv
  OBVIOUS
<1>1. IInv
  BY InitIInv DEF SystemInit
<1>2. Cluster!TypeOK
  <2>1. Cluster!NoPoll \in [Cluster!Kind -> Url \cup {NoUrl, None}]
    BY DEF Cluster!NoPoll
  <2>2. Cluster!NoSecret \in [tokens: (SUBSET TokenId) \cup {None},
                              config: Cluster!Config \cup {None}]
    BY DEF Cluster!NoSecret
  <2> QED
    BY <2>1, <2>2 DEF SystemInit, Cluster!Init, Cluster!NoList, Cluster!TypeOK,
       Cluster!DbInit, Cluster!DbTypeOK
<1>3. \A k \in TokenId, i \in TelestoId : ~Reaches(k, i)
  BY DEF SystemInit, Cluster!Init, Cluster!NoSecret, Init, DbInit, Reaches, Tokens
<1>4. \A k \in TokenId, u \in Owner : ~Knows(u, k)
  BY DEF SystemInit, Init, Idle, Knows
<1>5. person \in [Req -> Owner] /\ \A r \in Req : req[r].ctx \in {person[r], NoUser}
  BY DEF SystemInit, Init, Idle, Owner
<1> QED
  BY <1>1, <1>2, <1>3, <1>4, <1>5 DEF SystemInit, SystemInv

\* The type of the cluster's variables says nothing of the tables.
LEMMA ClusterTypeKept ==
    ASSUME Cluster!TypeOK, DbTypeOK', UNCHANGED pVars PROVE Cluster!TypeOK'
  BY DEF Cluster!TypeOK, Cluster!DbTypeOK, DbTypeOK, pVars,
         Cluster!TelestoRow, TelestoRow, Cluster!TokenRow, TokenRow, Cluster!Owner, Owner

\* A token reaches another telesto only when it is inserted.
LEMMA PortalKeepsSystemInv ==
    ASSUME SystemInv, PortalRuns PROVE SystemInv'
<1>p. /\ Next /\ UNCHANGED pVars
      /\ person' \in [Req -> Owner]
      /\ \A r \in Req : req'[r].ctx \in {person'[r], NoUser}
      /\ \A r \in Req : req'[r].secret => person'[r] = person[r]
  BY PersonKept DEF SystemInv
<1>1. IInv /\ IInv' /\ (UserStep \/ UNCHANGED dbVars) /\ Next /\ UNCHANGED pVars
  BY <1>p, StepKeepsIInv DEF SystemInv
<1>2. /\ \A i \in issued.telestos : i \in Telestos' =>
            i \in Telestos /\ telestos'[i].user = telestos[i].user
      /\ \A k \in issued.tokens : k \in Tokens' =>
            /\ k \in Tokens /\ tokens'[k].user = tokens[k].user
            /\ tokens'[k].telesto = tokens[k].telesto
      /\ issued.telestos \subseteq issued'.telestos
      /\ issued.tokens \subseteq issued'.tokens
  <2>1. CASE UserStep
    BY <1>1, <2>1
       DEF UserStep, Act, KeepsIdentity, AppearsFresh, Telestos, Tokens, IInv, TypeOK, DbTypeOK
  <2>2. CASE UNCHANGED dbVars
    BY <2>2 DEF dbVars, Telestos, Tokens
  <2> QED
    BY <1>1, <2>1, <2>2
<1>3. ASSUME NEW k \in TokenId, NEW i \in TelestoId, Reaches(k, i)'
      PROVE  Reaches(k, i) \/ (k \notin issued.tokens /\ k \in Tokens' /\ tokens'[k].telesto = i)
  BY <1>1, <1>2, <1>3 DEF Reaches, pVars
<1>4. ASSUME NEW k \in TokenId, NEW i \in TelestoId, Reaches(k, i)'
      PROVE  /\ k \in issued'.tokens /\ i \in issued'.telestos
             /\ k \in Tokens' => tokens'[k].telesto = i
  <2>1. CASE Reaches(k, i)
    BY <1>2, <2>1 DEF SystemInv
  <2>2. CASE k \in Tokens' /\ tokens'[k].telesto = i
    BY <1>1, <2>2 DEF IInv, RowsAreIssued, TokenBelongsToOwner
  <2> QED
    BY <1>3, <1>4, <2>1, <2>2
<1>5. ASSUME NEW k \in TokenId, NEW u \in Owner, Knows(u, k)'
      PROVE  \/ Knows(u, k)
             \/ k \in TokensForUser(u) \cup TokensForUser(NoUser) /\ UNCHANGED dbVars
  <2>1. CASE u \in sent'[k]
    BY <2>1 DEF PortalRuns, Sends, Knows
  <2>2. CASE \E r \in Req : req'[r].secret /\ req'[r].token = k /\ person'[r] = u
    <3>1. PICK r \in Req : req'[r].secret /\ req'[r].token = k /\ person'[r] = u
      BY <2>2
    <3>2. person[r] = u /\ req'[r].ctx \in {u, NoUser}
      BY <1>p, <3>1
    <3>3. CASE req[r].secret /\ req'[r].token = req[r].token
      BY <3>1, <3>2, <3>3 DEF Knows
    <3>4. CASE req'[r].token \in TokensForUser(req'[r].ctx) /\ UNCHANGED dbVars
      BY <3>1, <3>2, <3>4
    <3> QED
      BY <1>1, <3>1, <3>3, <3>4, RequestLearns
  <2> QED
    BY <1>5, <2>1, <2>2 DEF Knows
<1>6. ASSUME NEW k \in TokenId, NEW u \in Owner, Knows(u, k)'
      PROVE  /\ k \in issued'.tokens
             /\ k \in Tokens' => tokens'[k].user \in {u, NoUser}
             /\ \A i \in Telestos' : Reaches(k, i)' => telestos'[i].user \in {u, NoUser}
  <2>1. CASE Knows(u, k)
    <3>1. k \in issued.tokens /\ (k \in Tokens => tokens[k].user \in {u, NoUser})
      BY <2>1 DEF SystemInv
    <3>2. ASSUME NEW i \in Telestos', Reaches(k, i)' PROVE telestos'[i].user \in {u, NoUser}
      <4>1. i \in TelestoId /\ Reaches(k, i)
        BY <1>3, <3>1, <3>2 DEF Telestos
      <4>2. i \in Telestos /\ telestos'[i].user = telestos[i].user
        BY <1>2, <3>2, <4>1 DEF SystemInv
      <4> QED
        BY <2>1, <4>1, <4>2 DEF SystemInv
    <3> QED
      BY <1>2, <3>1, <3>2
  <2>2. CASE k \in TokensForUser(u) \cup TokensForUser(NoUser) /\ UNCHANGED dbVars
    <3>1. /\ k \in Tokens /\ tokens[k].user \in {u, NoUser} /\ k \in issued.tokens
          /\ telestos[tokens[k].telesto].user \in {u, NoUser}
      BY <1>1, <2>2 DEF TokensForUser, IInv, RowsAreIssued, TokenBelongsToOwner
    <3>2. Tokens' = Tokens /\ Telestos' = Telestos
      BY <2>2 DEF dbVars, Tokens, Telestos
    <3>3. \A i \in Telestos' : Reaches(k, i)' => tokens'[k].telesto = i
      BY <1>4, <3>1, <3>2 DEF Telestos
    <3> QED
      BY <2>2, <3>1, <3>2, <3>3 DEF dbVars
  <2> QED
    BY <1>5, <1>6, <2>1, <2>2
<1>7. sent' \in [TokenId -> SUBSET Owner]
  BY DEF PortalRuns, SystemInv
<1>8. Cluster!TypeOK'
  BY <1>1, ClusterTypeKept DEF SystemInv, IInv, TypeOK
<1> QED
  BY <1>p, <1>1, <1>4, <1>6, <1>7, <1>8 DEF SystemInv

-----------------------------------------------------------------------------
(* The cluster's steps.                                                    *)

\* A poll of the ApplicationSet controller.
LEMMA ArgoKeeps ==
    ASSUME Cluster!TypeOK,
           \/ Cluster!ArgoSelect \/ Cluster!ArgoPreload
           \/ Cluster!ArgoFails \/ Cluster!ArgoApply
    PROVE  Cluster!TypeOK' /\ UNCHANGED <<telestos, tokens, issued, secret, collector>>
<1>1. UNCHANGED <<telestos, tokens, issued, deployed, poll, secret, collector>>
  BY DEF Cluster!ArgoSelect, Cluster!ArgoPreload, Cluster!ArgoFails, Cluster!ArgoApply,
     Cluster!dbVars
<1>2. /\ argo' \in [pc: {"idle", "preload", "apply"}, list: SUBSET TelestoId, blank: BOOLEAN]
      /\ apps' \subseteq TelestoId
  <2> DEFINE blank == [pc |-> "apply", list |-> {}, blank |-> TRUE]
  <2>1. CASE Cluster!ArgoSelect
    BY <2>1 DEF Cluster!TypeOK, Cluster!NoList, Cluster!ArgoSelect, Cluster!Telestos
  <2>2. CASE Cluster!ArgoPreload
    BY <2>2 DEF Cluster!TypeOK, Cluster!ArgoPreload
  <2>3. CASE Cluster!ArgoFails
    <3>1. Cluster!NoList \in
            [pc: {"idle", "preload", "apply"}, list: SUBSET TelestoId, blank: BOOLEAN]
      BY DEF Cluster!NoList
    <3>2. blank \in [pc: {"idle", "preload", "apply"}, list: SUBSET TelestoId, blank: BOOLEAN]
      OBVIOUS
    <3>3. (argo' = Cluster!NoList \/ argo' = blank) /\ apps' = apps
      BY <2>3 DEF Cluster!ArgoFails
    <3> QED
      BY <3>1, <3>2, <3>3 DEF Cluster!TypeOK
  <2>4. CASE Cluster!ArgoApply
    BY <2>4 DEF Cluster!TypeOK, Cluster!NoList, Cluster!ArgoApply
  <2> QED
    BY <2>1, <2>2, <2>3, <2>4
<1> QED
  BY <1>1, <1>2 DEF Cluster!TypeOK, Cluster!DbTypeOK

\* The sync of an Application, and a poll of the External Secrets Operator.
LEMMA PollsKeep ==
    ASSUME Cluster!TypeOK, NEW i \in TelestoId,
           \/ Cluster!ArgoSync(i)
           \/ \E kind \in Cluster!Kind :
                 Cluster!SecretSelect(i, kind) \/ Cluster!SecretFails(i, kind)
    PROVE  Cluster!TypeOK' /\ UNCHANGED <<telestos, tokens, issued, secret, collector>>
<1>1. UNCHANGED <<telestos, tokens, issued, argo, apps, secret, collector>>
  BY DEF Cluster!ArgoSync, Cluster!SecretSelect, Cluster!SecretFails, Cluster!dbVars
<1>2. CASE Cluster!ArgoSync(i)
  BY <1>1, <1>2 DEF Cluster!ArgoSync, Cluster!TypeOK, Cluster!DbTypeOK
<1>3. ASSUME NEW kind \in Cluster!Kind, NEW url \in Url \cup {NoUrl, None},
             poll' = [poll EXCEPT ![i][kind] = url], UNCHANGED deployed
      PROVE  Cluster!TypeOK'
  BY <1>1, <1>3 DEF Cluster!TypeOK, Cluster!DbTypeOK
<1>4. i \in Cluster!Telestos => telestos[i].url \in Url \cup {NoUrl}
  BY DEF Cluster!Telestos, Cluster!TypeOK, Cluster!DbTypeOK, Cluster!TelestoRow
<1> QED
  BY <1>1, <1>2, <1>3, <1>4 DEF Cluster!SecretSelect, Cluster!SecretFails

\* A secret is given tokens of its telesto; a collector loads from its secret.
LEMMA LoadsKeep ==
    ASSUME Cluster!TypeOK, NEW i \in TelestoId,
           \/ Cluster!ArgoPrune(i) \/ Cluster!GetTelestoTokens(i) \/ Cluster!GetTelestoConfig(i)
           \/ Cluster!RollOut(i) \/ Cluster!ReloadTokens(i)
    PROVE  /\ Cluster!TypeOK' /\ UNCHANGED <<telestos, tokens, issued>>
           /\ \A k \in TokenId, j \in TelestoId : Reaches(k, j)' => Reaches(k, j)
<1>1. UNCHANGED <<telestos, tokens, issued>>
  BY DEF Cluster!ArgoPrune, Cluster!GetTelestoTokens, Cluster!GetTelestoConfig,
     Cluster!RollOut, Cluster!ReloadTokens, Cluster!dbVars
<1>2. /\ Cluster!NoPoll \in [Cluster!Kind -> Url \cup {NoUrl, None}]
      /\ Cluster!NoSecret \in [tokens: (SUBSET TokenId) \cup {None},
                               config: Cluster!Config \cup {None}]
      /\ Cluster!NoSecret.tokens = None
      /\ "tokens" \in Cluster!Kind /\ "config" \in Cluster!Kind
  BY DEF Cluster!NoPoll, Cluster!NoSecret, Cluster!Kind
<1>3. CASE Cluster!ArgoPrune(i)
  <2>1. Cluster!TypeOK'
    BY <1>1, <1>2, <1>3 DEF Cluster!ArgoPrune, Cluster!TypeOK, Cluster!DbTypeOK
  <2>2. /\ secret'[i].tokens = None /\ collector'[i] = None
        /\ \A j \in TelestoId \ {i} : secret'[j] = secret[j] /\ collector'[j] = collector[j]
    BY <1>2, <1>3 DEF Cluster!ArgoPrune, Cluster!TypeOK
  <2> QED
    BY <1>1, <2>1, <2>2 DEF Reaches, Tokens
<1>4. CASE Cluster!GetTelestoTokens(i)
  <2> DEFINE ks == Cluster!TokensOfTelestos({i})
  <2>1. ks \in SUBSET TokenId /\ \A k \in ks : k \in Tokens /\ tokens[k].telesto = i
    BY DEF Cluster!TokensOfTelestos, Cluster!Tokens, Tokens
  <2>2. /\ secret' = [secret EXCEPT ![i].tokens = ks]
        /\ UNCHANGED <<argo, apps, deployed, collector>>
        /\ poll' = [poll EXCEPT ![i]["tokens"] = None]
    BY <1>4 DEF Cluster!GetTelestoTokens
  <2> HIDE DEF ks
  <2>3. Cluster!TypeOK'
    BY <1>1, <1>2, <2>1, <2>2 DEF Cluster!TypeOK, Cluster!DbTypeOK
  <2>4. secret'[i].tokens = ks /\ \A j \in TelestoId \ {i} : secret'[j] = secret[j]
    BY <2>2 DEF Cluster!TypeOK
  <2> QED
    BY <1>1, <2>1, <2>2, <2>3, <2>4 DEF Reaches, Tokens
<1>5. CASE Cluster!GetTelestoConfig(i)
  <2> DEFINE config == Cluster!GenerateConfig(poll[i]["config"], Cluster!TokensOfTelestos({i}))
  <2>1. poll[i]["config"] \in Url \cup {NoUrl} /\ Cluster!TokensOfTelestos({i}) \in SUBSET TokenId
    BY <1>2, <1>5 DEF Cluster!GetTelestoConfig, Cluster!TypeOK, Cluster!TokensOfTelestos,
       Cluster!Tokens
  <2>2. config \in Cluster!Config
    BY <2>1 DEF Cluster!Config
  <2>3. /\ secret' = [secret EXCEPT ![i].config = config]
        /\ poll' = [poll EXCEPT ![i]["config"] = None]
        /\ UNCHANGED <<argo, apps, deployed, collector>>
    BY <1>5 DEF Cluster!GetTelestoConfig
  <2> HIDE DEF config
  <2>4. Cluster!TypeOK'
    BY <1>1, <1>2, <2>2, <2>3 DEF Cluster!TypeOK, Cluster!DbTypeOK
  <2>5. \A j \in TelestoId : secret'[j].tokens = secret[j].tokens
    BY <2>3 DEF Cluster!TypeOK
  <2> QED
    BY <1>1, <2>3, <2>4, <2>5 DEF Reaches, Tokens
<1>6. CASE Cluster!RollOut(i) \/ Cluster!ReloadTokens(i)
  <2>1. PICK loaded \in [config: Cluster!Config, tokens: SUBSET TokenId] :
          /\ collector' = [collector EXCEPT ![i] = loaded]
          /\ loaded.tokens # {} => loaded.tokens = secret[i].tokens /\ secret[i].tokens # None
    <3>1. CASE Cluster!RollOut(i)
      <4> DEFINE loaded == [config |-> secret[i].config,
                            tokens |-> IF secret[i].tokens = None THEN {} ELSE secret[i].tokens]
      <4>1. loaded \in [config: Cluster!Config, tokens: SUBSET TokenId]
        BY <3>1 DEF Cluster!TypeOK, Cluster!RollOut
      <4> QED
        BY <3>1, <4>1 DEF Cluster!RollOut
    <3>2. CASE Cluster!ReloadTokens(i)
      <4> DEFINE loaded == [collector[i] EXCEPT !.tokens = secret[i].tokens]
      <4>1. /\ loaded \in [config: Cluster!Config, tokens: SUBSET TokenId]
            /\ loaded.tokens = secret[i].tokens
        BY <3>2 DEF Cluster!TypeOK, Cluster!ReloadTokens
      <4> QED
        BY <3>2, <4>1 DEF Cluster!ReloadTokens
    <3> QED
      BY <1>6, <3>1, <3>2
  <2>2. UNCHANGED <<argo, apps, deployed, poll, secret>>
    BY <1>6 DEF Cluster!RollOut, Cluster!ReloadTokens
  <2>3. /\ collector' \in
              [TelestoId -> [config: Cluster!Config, tokens: SUBSET TokenId] \cup {None}]
        /\ \A j \in TelestoId : collector'[j] = IF j = i THEN loaded ELSE collector[j]
    BY <2>1 DEF Cluster!TypeOK
  <2>4. Cluster!TypeOK'
    BY <1>1, <2>2, <2>3 DEF Cluster!TypeOK, Cluster!DbTypeOK
  <2> QED
    BY <1>1, <2>1, <2>2, <2>3, <2>4 DEF Reaches, Tokens
<1> QED
  BY <1>3, <1>4, <1>5, <1>6

\* The cluster hands on tokens that had reached the telesto before.
LEMMA ClusterKeepsSystemInv ==
    ASSUME SystemInv, ClusterRuns PROVE SystemInv'
<1>1. /\ Cluster!TypeOK' /\ UNCHANGED <<telestos, tokens, issued>>
      /\ \A k \in TokenId, j \in TelestoId : Reaches(k, j)' => Reaches(k, j)
  <2>1. ASSUME UNCHANGED <<telestos, tokens, issued, secret, collector>>
        PROVE  \A k \in TokenId, j \in TelestoId : Reaches(k, j)' => Reaches(k, j)
    BY <2>1 DEF Reaches, Tokens
  <2>2. CASE Cluster!ArgoSelect \/ Cluster!ArgoPreload \/ Cluster!ArgoFails \/ Cluster!ArgoApply
    BY <2>1, <2>2, ArgoKeeps DEF SystemInv
  <2>3. ASSUME NEW i \in TelestoId,
               \/ Cluster!ArgoSync(i)
               \/ \E kind \in Cluster!Kind :
                     Cluster!SecretSelect(i, kind) \/ Cluster!SecretFails(i, kind)
        PROVE  Cluster!TypeOK' /\ UNCHANGED <<telestos, tokens, issued, secret, collector>>
    BY <2>3, PollsKeep DEF SystemInv
  <2>4. ASSUME NEW i \in TelestoId,
               \/ Cluster!ArgoPrune(i) \/ Cluster!GetTelestoTokens(i)
               \/ Cluster!GetTelestoConfig(i) \/ Cluster!RollOut(i) \/ Cluster!ReloadTokens(i)
        PROVE  /\ Cluster!TypeOK' /\ UNCHANGED <<telestos, tokens, issued>>
               /\ \A k \in TokenId, j \in TelestoId : Reaches(k, j)' => Reaches(k, j)
    BY <2>4, LoadsKeep DEF SystemInv
  <2> QED
    BY <2>1, <2>2, <2>3, <2>4 DEF ClusterRuns, Cluster!ClusterStep
<1>2. UNCHANGED <<req, reveal, person, sent>>
  BY DEF ClusterRuns
<1>3. IInv'
  BY <1>1, <1>2, StepKeepsIInv DEF SystemInv, vars
<1>4. \A k \in TokenId, u \in Owner : Knows(u, k)' => Knows(u, k)
  BY <1>2 DEF Knows
<1>5. Tokens' = Tokens /\ Telestos' = Telestos
  BY <1>1 DEF Tokens, Telestos
<1>6. \A i \in Telestos : i \in TelestoId
  BY DEF Telestos
<1> QED
  BY <1>1, <1>2, <1>3, <1>4, <1>5, <1>6 DEF SystemInv

-----------------------------------------------------------------------------
(* The theorems.                                                           *)

\* Every step keeps the invariant.
LEMMA StepKeepsSystemInv ==
    ASSUME SystemInv, [SystemNext]_systemVars PROVE SystemInv'
<1>1. CASE UNCHANGED systemVars
  <2>1. UNCHANGED <<telestos, tokens, issued, req, reveal, person, sent>> /\ UNCHANGED pVars
    BY <1>1 DEF systemVars, pVars
  <2>2. IInv'
    BY <2>1, StepKeepsIInv DEF SystemInv, vars
  <2>3. Cluster!TypeOK'
    BY <2>1, <2>2, ClusterTypeKept DEF SystemInv, IInv, TypeOK
  <2> QED
    BY <2>1, <2>2, <2>3 DEF SystemInv, Reaches, Knows, Telestos, Tokens, pVars
<1> QED
  BY <1>1, PortalKeepsSystemInv, ClusterKeepsSystemInv DEF SystemNext

\* The invariant that relates what users know to what collectors load, checked by run
\* system for one telesto and one token, holds for any number of them.
THEOREM SystemInvariant == SystemSpec => []SystemInv
<1>1. SystemInit => SystemInv
  BY InitSystemInv
<1>2. SystemInv /\ [SystemNext]_systemVars => SystemInv'
  BY StepKeepsSystemInv
<1> QED
  BY <1>1, <1>2, PTL DEF SystemSpec

\* From end to end, through any interleaving of requests, polls, failures and crashes:
\* the person who was sent the secret of a token that a collector has loaded owns its
\* telesto, unless that was stored without an owner.
THEOREM CollectorsAreForOwners == SystemSpec => []OnlyOwnersSend
<1>1. SystemInv => OnlyOwnersSend
  <2> SUFFICES ASSUME SystemInv, NEW i \in Telestos, NEW k \in TokenId,
                      collector[i] # None, k \in collector[i].tokens, NEW u \in sent[k]
               PROVE  telestos[i].user \in {u, NoUser}
    BY DEF OnlyOwnersSend
  <2>1. u \in Owner /\ Knows(u, k) /\ Reaches(k, i)
    BY DEF SystemInv, Knows, Reaches
  <2> QED
    BY <2>1 DEF SystemInv
<1> QED
  BY <1>1, SystemInvariant, PTL

\* The requests of the portal, statement by statement, are for the cluster what
\* Provisioning takes them for: steps of owners on their own rows.
THEOREM SystemImplementsProvisioning == SystemSpec => ImplementsProvisioning
<1>1. SystemInit => Cluster!Init
  BY DEF SystemInit
<1>2. SystemInv /\ [SystemNext]_systemVars => [Cluster!Next]_Cluster!vars
  <2>1. ASSUME SystemInv, PortalRuns PROVE [Cluster!Next]_Cluster!vars
    <3>1. UNCHANGED pVars /\ (Cluster!PortalStep \/ UNCHANGED dbVars)
      BY <2>1, PersonKept, PortalImplements DEF SystemInv
    <3> QED
      BY <3>1 DEF Cluster!Next, Cluster!vars, pVars, dbVars
  <2>2. ASSUME ClusterRuns PROVE Cluster!Next
    BY <2>2 DEF ClusterRuns, Cluster!Next
  <2>3. ASSUME UNCHANGED systemVars PROVE UNCHANGED Cluster!vars
    BY <2>3 DEF systemVars, Cluster!vars
  <2> QED
    BY <2>1, <2>2, <2>3 DEF SystemNext
<1> QED
  BY <1>1, <1>2, SystemInvariant, PTL
     DEF SystemSpec, ImplementsProvisioning, Cluster!Spec

-----------------------------------------------------------------------------
(* What is known of the parts holds of the whole.                          *)

\* The theorems about Provisioning.
Provisioned == INSTANCE ProvisioningProofs WITH NoEndpoint <- NoUrl

\* What they assume of the constants is assumed here.
LEMMA ProvisioningAssumed ==
    /\ Provisioned!StorageAssumption /\ Provisioned!TelestoConfigAssumption
    /\ Provisioned!ProvisioningAssumption
  BY StorageAssumption, SystemAssumption
     DEF Provisioned!StorageAssumption, Provisioned!TelestoConfigAssumption,
         Provisioned!ProvisioningAssumption,
         Provisioned!TelestoRow, TelestoRow, Provisioned!TokenRow, TokenRow,
         Provisioned!Owner, Owner

\* Both instances have the same tables and configurations.
LEMMA SameInstanceData ==
    /\ Provisioned!Telestos = Cluster!Telestos /\ Provisioned!Tokens = Cluster!Tokens
    /\ \A u : Provisioned!TelestosForUser(u) = Cluster!TelestosForUser(u)
    /\ \A u : Provisioned!TokensForUser(u) = Cluster!TokensForUser(u)
    /\ \A is : Provisioned!TokensOfTelestos(is) = Cluster!TokensOfTelestos(is)
    /\ \A i, u, n : Provisioned!TelestoNameFree(i, u, n) <=> Cluster!TelestoNameFree(i, u, n)
    /\ \A k, u, n : Provisioned!TokenNameFree(k, u, n) <=> Cluster!TokenNameFree(k, u, n)
    /\ Provisioned!Owner = Cluster!Owner /\ Provisioned!Kind = Cluster!Kind
    /\ Provisioned!NoList = Cluster!NoList
    /\ Provisioned!NoPoll = Cluster!NoPoll /\ Provisioned!NoSecret = Cluster!NoSecret
    /\ Provisioned!Authenticator = Cluster!Authenticator
    /\ \A url, ts : Provisioned!GenerateConfig(url, ts) = Cluster!GenerateConfig(url, ts)
    /\ \A c : Provisioned!Starts(c) <=> Cluster!Starts(c)
  BY DEF Provisioned!Telestos, Cluster!Telestos, Provisioned!Tokens, Cluster!Tokens,
         Provisioned!TelestosForUser, Cluster!TelestosForUser,
         Provisioned!TokensForUser, Cluster!TokensForUser,
         Provisioned!TokensOfTelestos, Cluster!TokensOfTelestos,
         Provisioned!TelestoNameFree, Cluster!TelestoNameFree,
         Provisioned!TokenNameFree, Cluster!TokenNameFree,
         Provisioned!Owner, Cluster!Owner, Provisioned!Kind, Cluster!Kind,
         Provisioned!NoList, Cluster!NoList,
         Provisioned!NoPoll, Cluster!NoPoll, Provisioned!NoSecret, Cluster!NoSecret,
         Provisioned!Authenticator, Cluster!Authenticator,
         Provisioned!GenerateConfig, Cluster!GenerateConfig, Provisioned!Render, Cluster!Render,
         Provisioned!Exporters, Cluster!Exporters, Provisioned!Signal, Cluster!Signal,
         Provisioned!Starts, Cluster!Starts

\* They run the same statements.
LEMMA SameInstanceStatements ==
    /\ \A i, u, n, url : Cluster!CreateTelesto(i, u, n, url)
        <=> Provisioned!CreateTelesto(i, u, n, url)
    /\ \A u, i, n, url, auth :
          Cluster!UpdateTelesto(u, i, n, url, auth)
        <=> Provisioned!UpdateTelesto(u, i, n, url, auth)
    /\ \A u, i : Cluster!DeleteTelesto(u, i) <=> Provisioned!DeleteTelesto(u, i)
    /\ \A k, u, i, n : Cluster!CreateToken(k, u, i, n) <=> Provisioned!CreateToken(k, u, i, n)
    /\ \A u, k, n : Cluster!UpdateToken(u, k, n) <=> Provisioned!UpdateToken(u, k, n)
    /\ \A u, k : Cluster!MarkTokenSeen(u, k) <=> Provisioned!MarkTokenSeen(u, k)
    /\ \A u, k : Cluster!DeleteToken(u, k) <=> Provisioned!DeleteToken(u, k)
<1>1. \A i, u, n, url : Cluster!CreateTelesto(i, u, n, url)
        <=> Provisioned!CreateTelesto(i, u, n, url)
  BY SameInstanceData DEF Cluster!CreateTelesto, Provisioned!CreateTelesto
<1>2. \A u, i, n, url, auth : Cluster!UpdateTelesto(u, i, n, url, auth)
        <=> Provisioned!UpdateTelesto(u, i, n, url, auth)
  BY SameInstanceData DEF Cluster!UpdateTelesto, Provisioned!UpdateTelesto,
                          Cluster!NonZero, Provisioned!NonZero
<1>3. \A u, i : Cluster!DeleteTelesto(u, i) <=> Provisioned!DeleteTelesto(u, i)
  BY SameInstanceData DEF Cluster!DeleteTelesto, Provisioned!DeleteTelesto
<1>4. \A k, u, i, n : Cluster!CreateToken(k, u, i, n) <=> Provisioned!CreateToken(k, u, i, n)
  BY SameInstanceData DEF Cluster!CreateToken, Provisioned!CreateToken
<1>5. \A u, k, n : Cluster!UpdateToken(u, k, n) <=> Provisioned!UpdateToken(u, k, n)
  BY SameInstanceData DEF Cluster!UpdateToken, Provisioned!UpdateToken
<1>6. \A u, k : Cluster!MarkTokenSeen(u, k) <=> Provisioned!MarkTokenSeen(u, k)
  BY SameInstanceData DEF Cluster!MarkTokenSeen, Provisioned!MarkTokenSeen
<1>7. \A u, k : Cluster!DeleteToken(u, k) <=> Provisioned!DeleteToken(u, k)
  BY SameInstanceData DEF Cluster!DeleteToken, Provisioned!DeleteToken
<1> QED
  BY <1>1, <1>2, <1>3, <1>4, <1>5, <1>6, <1>7

\* So they take the same steps.
LEMMA SameInstanceSteps ==
    /\ Cluster!Init => Provisioned!Init
    /\ Cluster!PortalStep => Provisioned!PortalStep
    /\ Cluster!ClusterStep => Provisioned!ClusterStep
<1>1. Cluster!Init => Provisioned!Init
  BY SameInstanceData DEF Cluster!Init, Provisioned!Init, Cluster!DbInit, Provisioned!DbInit
<1>2. Cluster!PortalStep => Provisioned!PortalStep
  BY SameInstanceData, SameInstanceStatements
     DEF Cluster!PortalStep, Provisioned!PortalStep, Cluster!pVars, Provisioned!pVars
<1>3. Cluster!ClusterStep => Provisioned!ClusterStep
  BY SameInstanceData DEF Cluster!ClusterStep, Provisioned!ClusterStep,
     Cluster!ArgoSelect, Provisioned!ArgoSelect, Cluster!ArgoPreload, Provisioned!ArgoPreload,
     Cluster!ArgoFails, Provisioned!ArgoFails, Cluster!ArgoApply, Provisioned!ArgoApply,
     Cluster!ArgoSync, Provisioned!ArgoSync, Cluster!ArgoPrune, Provisioned!ArgoPrune,
     Cluster!SecretSelect, Provisioned!SecretSelect,
     Cluster!SecretFails, Provisioned!SecretFails,
     Cluster!GetTelestoTokens, Provisioned!GetTelestoTokens,
     Cluster!GetTelestoConfig, Provisioned!GetTelestoConfig,
     Cluster!RollOut, Provisioned!RollOut, Cluster!ReloadTokens, Provisioned!ReloadTokens,
     Cluster!dbVars, Provisioned!dbVars
<1> QED
  BY <1>1, <1>2, <1>3

\* The system is one of the behaviors that the theorems are about.
LEMMA SystemIsProvisioned == SystemSpec => Provisioned!Spec
<1>1. Cluster!Init => Provisioned!Init
  BY SameInstanceSteps
<1>2. [Cluster!Next]_Cluster!vars => [Provisioned!Next]_Provisioned!vars
  BY SameInstanceSteps DEF Cluster!Next, Provisioned!Next, Cluster!vars, Provisioned!vars
<1> QED
  BY <1>1, <1>2, SystemImplementsProvisioning, PTL
     DEF ImplementsProvisioning, Cluster!Spec, Provisioned!Spec

\* The controllers owe the system what they owe in Provisioning, and requests owe
\* nothing: the system is one of its fair behaviours.
THEOREM SystemIsFair == FairSystemSpec => Cluster!FairSpec
BY SystemImplementsProvisioning DEF FairSystemSpec, ImplementsProvisioning, Cluster!FairSpec

\* With the portal's requests in the place of its statements, still no collector holds
\* the token of another telesto.
THEOREM SystemTokensStayHome == SystemSpec => []Cluster!TokensStayHome
<1>1. Provisioned!Spec => []Provisioned!TokensStayHome
  BY ProvisioningAssumed, Provisioned!TokensStayWithTheirTelesto, PTL
<1>2. Provisioned!TokensStayHome => Cluster!TokensStayHome
  BY SameInstanceData DEF Provisioned!TokensStayHome, Cluster!TokensStayHome
<1> QED
  BY <1>1, <1>2, SystemIsProvisioned, PTL

\* Nor does a list of the tables take down a telesto that was not deleted, whatever
\* requests are in flight.
THEOREM SystemPrunesAfterDeletion == SystemSpec => Cluster!PrunedOnlyIfDeleted
<1>1. Provisioned!Spec => Provisioned!PrunedOnlyIfDeleted
  BY ProvisioningAssumed, Provisioned!PrunedAfterDeletion, PTL
<1>2. [~argo.blank => \A i \in apps \ apps' : i \notin Provisioned!Telestos]_Provisioned!vars
        => [~argo.blank => \A i \in apps \ apps' : i \notin Cluster!Telestos]_Cluster!vars
  BY SameInstanceData DEF Provisioned!vars, Cluster!vars
<1> QED
  BY <1>1, <1>2, SystemIsProvisioned, PTL
     DEF Provisioned!PrunedOnlyIfDeleted, Cluster!PrunedOnlyIfDeleted

\* For the portal the cluster is a reader: all that is proved of the portal holds in the
\* system.
THEOREM SystemImplementsPortal == SystemSpec => Spec
<1>1. SystemInit => Init
  BY DEF SystemInit
<1>2. [SystemNext]_systemVars => [Next]_vars
  <2>1. PortalRuns => Next
    BY DEF PortalRuns, Arrives, GoesOn, Next
  <2>2. ClusterRuns => UNCHANGED vars
    <3>1. Cluster!ClusterStep => UNCHANGED <<telestos, tokens, issued>>
      BY DEF Cluster!ClusterStep, Cluster!ArgoSelect, Cluster!ArgoPreload, Cluster!ArgoFails,
         Cluster!ArgoApply, Cluster!ArgoSync, Cluster!ArgoPrune, Cluster!SecretSelect,
         Cluster!SecretFails, Cluster!GetTelestoTokens, Cluster!GetTelestoConfig,
         Cluster!RollOut, Cluster!ReloadTokens, Cluster!dbVars
    <3> QED
      BY <3>1 DEF ClusterRuns, vars
  <2>3. UNCHANGED systemVars => UNCHANGED vars
    BY DEF systemVars, vars
  <2> QED
    BY <2>1, <2>2, <2>3 DEF SystemNext
<1> QED
  BY <1>1, <1>2, PTL DEF SystemSpec, Spec

\* From end to end: together with the foreign key, whoever's telemetry a collector
\* lets in owns its telesto.
THEOREM LoadedTokensHaveOwners == SystemSpec => []LoadedTokensAreOwned
<1>1. TokenBelongsToOwner /\ Cluster!TokensStayHome => LoadedTokensAreOwned
  BY SameTables DEF TokenBelongsToOwner, Cluster!TokensStayHome, LoadedTokensAreOwned
<1> QED
  BY <1>1, SystemTokensStayHome, SystemImplementsPortal, TokensHaveOwners, PTL
=============================================================================
