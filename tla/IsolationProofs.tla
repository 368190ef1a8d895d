--------------------------- MODULE IsolationProofs ---------------------------
(***************************************************************************)
(* A user cannot tell the portal from one of his own, for every set of     *)
(* users, rows and overlapping requests.                                   *)
(***************************************************************************)
EXTENDS Isolation, PortalProofs

\* The history grows by the rows that the step gave Viewer.
Remembers ==
    mine' = [telestos |-> mine.telestos \cup TelestosForUser(Viewer)',
             tokens   |-> mine.tokens \cup TokensForUser(Viewer)']

\* The viewer is an owner of rows, and not the one without a session.
LEMMA ViewerIsUser == Viewer \in Owner /\ Viewer # NoUser
  BY IsolationAssumption, StorageAssumption DEF Owner

-----------------------------------------------------------------------------
(* What the mapped tables hold.                                            *)

\* The rows that exist in the portal of Viewer alone are Viewer's.
LEMMA OwnRows ==
    ASSUME IsolationInv
    PROVE  /\ Alone!Telestos = TelestosForUser(Viewer)
           /\ Alone!Tokens = TokensForUser(Viewer)
           /\ Alone!TelestosForUser(Viewer) = TelestosForUser(Viewer)
           /\ Alone!TokensForUser(Viewer) = TokensForUser(Viewer)
           /\ \A i \in TelestosForUser(Viewer) : OwnTelestos[i] = telestos[i]
           /\ \A k \in TokensForUser(Viewer) : OwnTokens[k] = tokens[k]
<1>1. Alone!Telestos = TelestosForUser(Viewer)
  BY StorageAssumption DEF Alone!Telestos, OwnTelestos, TelestosForUser, Telestos
<1>2. Alone!Tokens = TokensForUser(Viewer)
  BY StorageAssumption DEF Alone!Tokens, OwnTokens, TokensForUser, Tokens
<1>3. \A i \in TelestosForUser(Viewer) : OwnTelestos[i] = telestos[i]
  BY DEF OwnTelestos, TelestosForUser, Telestos
<1>4. \A k \in TokensForUser(Viewer) : OwnTokens[k] = tokens[k]
  BY DEF OwnTokens, TokensForUser, Tokens
<1>5. Alone!TelestosForUser(Viewer) = TelestosForUser(Viewer)
  BY <1>1, <1>3 DEF Alone!TelestosForUser, TelestosForUser
<1>6. Alone!TokensForUser(Viewer) = TokensForUser(Viewer)
  BY <1>2, <1>4 DEF Alone!TokensForUser, TokensForUser
<1> QED
  BY <1>1, <1>2, <1>3, <1>4, <1>5, <1>6

\* A Preload without the user's scope reads what it would read among Viewer's rows.
LEMMA OwnPreload ==
    ASSUME IsolationInv, NEW is \in SUBSET mine.telestos
    PROVE  /\ Alone!TokensOfTelestos(is) = TokensOfTelestos(is)
           /\ TokensOfTelestos(is) \subseteq TokensForUser(Viewer)
<1>1. TokensOfTelestos(is) \subseteq TokensForUser(Viewer)
  BY DEF TokensOfTelestos, TokensForUser, TelestosForUser, IsolationInv, MineInv, IInv,
         TokenBelongsToOwner
<1>2. Alone!TokensOfTelestos(is) = {k \in TokensForUser(Viewer) : tokens[k].telesto \in is}
  BY OwnRows DEF Alone!TokensOfTelestos
<1>3. TokensForUser(Viewer) \subseteq Tokens
  BY DEF TokensForUser
<1> QED
  BY <1>1, <1>2, <1>3 DEF TokensOfTelestos

-----------------------------------------------------------------------------
(* The history and the tables.                                             *)

\* Whoever takes a step, the history stays exactly the ids of Viewer's rows, and
\* only fresh ids are added to it.
LEMMA HistoryOK ==
    ASSUME IsolationInv, IInv', Remembers, UserStep \/ UNCHANGED dbVars
    PROVE  /\ mine' \in [telestos: SUBSET TelestoId, tokens: SUBSET TokenId]
           /\ mine.telestos \subseteq mine'.telestos /\ mine.tokens \subseteq mine'.tokens
           /\ mine'.telestos \subseteq issued'.telestos /\ mine'.tokens \subseteq issued'.tokens
           /\ mine'.telestos \cap issued.telestos \subseteq mine.telestos
           /\ mine'.tokens \cap issued.tokens \subseteq mine.tokens
           /\ TelestosForUser(Viewer)' = mine'.telestos \cap Telestos'
           /\ TokensForUser(Viewer)' = mine'.tokens \cap Tokens'
           /\ issued.tokens \subseteq issued'.tokens
<1>1. /\ mine \in [telestos: SUBSET TelestoId, tokens: SUBSET TokenId]
      /\ mine.telestos \subseteq issued.telestos /\ mine.tokens \subseteq issued.tokens
      /\ TelestosForUser(Viewer) = mine.telestos \cap Telestos
      /\ TokensForUser(Viewer) = mine.tokens \cap Tokens
      /\ DbTypeOK /\ RowsAreIssued'
  BY DEF IsolationInv, MineInv, IInv, TypeOK
<1>2. /\ \A i \in issued.telestos : i \in Telestos' =>
           i \in Telestos /\ telestos'[i].user = telestos[i].user
      /\ \A k \in issued.tokens : k \in Tokens' =>
           k \in Tokens /\ tokens'[k].user = tokens[k].user
      /\ issued.telestos \subseteq issued'.telestos
      /\ issued.tokens \subseteq issued'.tokens
  <2>1. CASE UserStep
    BY <1>1, <2>1, ActKeepsReads DEF UserStep
  <2>2. CASE UNCHANGED dbVars
    BY <2>2 DEF dbVars, Telestos, Tokens
  <2> QED
    BY <2>1, <2>2
<1>3. /\ TelestosForUser(Viewer)' = {i \in Telestos' : telestos'[i].user = Viewer}
      /\ TokensForUser(Viewer)' = {k \in Tokens' : tokens'[k].user = Viewer}
      /\ TelestosForUser(Viewer) = {i \in Telestos : telestos[i].user = Viewer}
      /\ TokensForUser(Viewer) = {k \in Tokens : tokens[k].user = Viewer}
      /\ Telestos' \subseteq TelestoId /\ Tokens' \subseteq TokenId
      /\ Telestos' \subseteq issued'.telestos /\ Tokens' \subseteq issued'.tokens
  BY <1>1 DEF TelestosForUser, TokensForUser, Telestos, Tokens, RowsAreIssued
<1>4. /\ mine'.telestos = mine.telestos \cup TelestosForUser(Viewer)'
      /\ mine'.tokens = mine.tokens \cup TokensForUser(Viewer)'
  BY DEF Remembers
<1>5. mine' \in [telestos: SUBSET TelestoId, tokens: SUBSET TokenId]
  BY <1>1, <1>3 DEF Remembers
<1>6. /\ mine'.telestos \cap issued.telestos \subseteq mine.telestos
      /\ mine'.tokens \cap issued.tokens \subseteq mine.tokens
  BY <1>1, <1>2, <1>3, <1>4
<1>7. TelestosForUser(Viewer)' = mine'.telestos \cap Telestos'
  BY <1>1, <1>2, <1>3, <1>4
<1>8. TokensForUser(Viewer)' = mine'.tokens \cap Tokens'
  BY <1>1, <1>2, <1>3, <1>4
<1> QED
  BY <1>1, <1>2, <1>3, <1>4, <1>5, <1>6, <1>7, <1>8

\* A request that does not move, or returns, stays apart.
LEMMA StaysApart ==
    ASSUME IsolationInv, IInv', Remembers, UserStep \/ UNCHANGED dbVars,
           NEW s \in Req, req'[s] = req[s] \/ req'[s] = Idle
    PROVE  Apart(s)'
<1>1. CASE req'[s] = Idle
  BY <1>1, ViewerIsUser DEF Apart, Idle
<1>2. CASE req'[s] = req[s]
  <2>1. req[s].tokenRows \subseteq issued.tokens /\ Apart(s)
    BY DEF IsolationInv, MineInv, IInv, RequestOK
  <2> QED
    BY <1>2, <2>1, HistoryOK DEF Apart
<1> QED
  BY <1>1, <1>2

\* A step that leaves the tables alone leaves the history and the mapped tables.
LEMMA QuietStep ==
    ASSUME IsolationInv, Remembers, UNCHANGED dbVars
    PROVE  mine' = mine /\ UNCHANGED <<OwnTelestos, OwnTokens>>
<1>1. /\ TelestosForUser(Viewer)' = TelestosForUser(Viewer)
      /\ TokensForUser(Viewer)' = TokensForUser(Viewer)
      /\ UNCHANGED <<telestos, tokens>>
  BY DEF TelestosForUser, TokensForUser, Telestos, Tokens, dbVars
<1>2. /\ mine \in [telestos: SUBSET TelestoId, tokens: SUBSET TokenId]
      /\ TelestosForUser(Viewer) \subseteq mine.telestos
      /\ TokensForUser(Viewer) \subseteq mine.tokens
  BY DEF IsolationInv, MineInv
<1>3. mine' = [telestos |-> mine.telestos, tokens |-> mine.tokens]
  BY <1>1, <1>2 DEF Remembers
<1>4. mine' = mine
  BY <1>2, <1>3
<1> QED
  BY <1>1, <1>4 DEF OwnTelestos, OwnTokens

-----------------------------------------------------------------------------
(* How the mapped requests move.                                           *)

\* Request r of Viewer moves on to q: so does the mapped request.
LEMMA OwnRequestMoves ==
    ASSUME IsolationInv, IInv', Remembers, UserStep \/ UNCHANGED dbVars,
           NEW r \in Req, NEW q \in Request, req' = [req EXCEPT ![r] = q]
    PROVE  OwnReq' = [OwnReq EXCEPT ![r] =
                        IF q.ctx = Viewer
                          THEN [q EXCEPT !.late = q.late /\ q.token \in mine'.tokens]
                          ELSE Idle]
<1>1. ASSUME NEW s \in Req, s # r PROVE OwnReq'[s] = OwnReq[s]
  <2>1. req'[s] = req[s] /\ req[s] \in Request
    BY <1>1 DEF IsolationInv, IInv, TypeOK
  <2>2. req[s].late => req[s].token \in issued.tokens
    BY DEF IsolationInv, IInv, RequestOK
  <2>3. (req[s].late /\ req[s].token \in mine.tokens)
           = (req[s].late /\ req[s].token \in mine'.tokens)
    BY <2>2, HistoryOK
  <2> QED
    BY <2>1, <2>3 DEF OwnReq
<1> DEFINE m == IF q.ctx = Viewer
                  THEN [q EXCEPT !.late = q.late /\ q.token \in mine'.tokens]
                  ELSE Idle
<1>2. req'[r] = q
  BY DEF IsolationInv, IInv, TypeOK
<1>3. OwnReq'[r] = m
  BY <1>2 DEF OwnReq
<1>4. OwnReq' = [s \in Req |-> OwnReq'[s]] /\ OwnReq = [s \in Req |-> OwnReq[s]]
  BY DEF OwnReq
<1> HIDE DEF m
<1>5. OwnReq' = [OwnReq EXCEPT ![r] = m]
  BY <1>1, <1>3, <1>4
<1> QED
  BY <1>5 DEF m

\* A request of the viewer that keeps the tables is the same request in his view.
LEMMA OwnRequestStays ==
    ASSUME IsolationInv, IInv', Remembers, UNCHANGED dbVars,
           NEW r \in Req, NEW q \in Request, req' = [req EXCEPT ![r] = q], q.ctx = Viewer
    PROVE  OwnReq' = [OwnReq EXCEPT ![r] =
                        [q EXCEPT !.late = q.late /\ q.token \in mine.tokens]]
<1>1. mine' = mine
  BY QuietStep
<1>2. OwnReq' = [OwnReq EXCEPT ![r] =
                    IF q.ctx = Viewer
                      THEN [q EXCEPT !.late = q.late /\ q.token \in mine'.tokens]
                      ELSE Idle]
  BY OwnRequestMoves
<1> QED
  BY <1>1, <1>2

\* A request that is not Viewer's, before and after its step, is not there.
LEMMA OthersRequestsHidden ==
    ASSUME IsolationInv, IInv', Remembers, UserStep \/ UNCHANGED dbVars,
           NEW r \in Req, \A s \in Req \ {r} : req'[s] = req[s],
           req[r].ctx # Viewer, req'[r].ctx # Viewer
    PROVE  OwnReq' = OwnReq
<1>1. ASSUME NEW s \in Req PROVE OwnReq'[s] = OwnReq[s]
  <2>1. CASE s = r
    BY <2>1 DEF OwnReq
  <2>2. CASE s # r
    <3>1. req[s].late => req[s].token \in issued.tokens
      BY DEF IsolationInv, IInv, RequestOK
    <3>2. (req[s].late /\ req[s].token \in mine.tokens)
             = (req[s].late /\ req[s].token \in mine'.tokens)
      BY <3>1, HistoryOK
    <3> QED
      BY <2>2, <3>2 DEF OwnReq
  <2> QED
    BY <2>1, <2>2
<1>2. OwnReq' = [s \in Req |-> OwnReq'[s]] /\ OwnReq = [s \in Req |-> OwnReq[s]]
  BY DEF OwnReq
<1> QED
  BY <1>1, <1>2

\* Of a request of Viewer only the lateness is mapped.
LEMMA OwnRequest ==
    ASSUME IsolationInv, NEW r \in Req, req[r].ctx = Viewer
    PROVE  /\ OwnReq \in [Req -> Request]
           /\ OwnReq[r] = [req[r] EXCEPT !.late = req[r].late /\ req[r].token \in mine.tokens]
           /\ req[r] \in Request
<1>1. \A s \in Req : req[s] \in Request
  BY DEF IsolationInv, IInv, TypeOK
<1>2. ASSUME NEW s \in Req PROVE OwnReq[s] \in Request
  <2>1. [req[s] EXCEPT !.late = req[s].late /\ req[s].token \in mine.tokens] \in Request
    BY <1>1 DEF Request
  <2> QED
    BY <2>1, IdleOK DEF OwnReq
<1>3. OwnReq = [s \in Req |-> OwnReq[s]]
  BY DEF OwnReq
<1> QED
  BY <1>1, <1>2, <1>3 DEF OwnReq

-----------------------------------------------------------------------------
(* The reads of Viewer.                                                    *)

\* A step between two statements changes these five fields at most, alike in both.
Proceeds(f, r, pc, i, is, ks, secret) ==
    [f EXCEPT ![r].pc = pc, ![r].telesto = i, ![r].telestoRows = is,
              ![r].tokenRows = ks, ![r].secret = secret]

ReqProceeds(r, pc, i, is, ks, secret) == req' = Proceeds(req, r, pc, i, is, ks, secret)
OwnReqProceeds(r, pc, i, is, ks, secret) ==
    OwnReq' = Proceeds(OwnReq, r, pc, i, is, ks, secret)

\* A request that reads and goes on finds the same rows in his view.
LEMMA OwnRequestReads ==
    ASSUME IsolationInv, IInv', Remembers, UNCHANGED dbVars,
           NEW r \in Req, req[r].ctx = Viewer,
           NEW pc \in Pc, NEW i \in TelestoId \cup {None}, NEW is \in SUBSET TelestoId,
           NEW ks \in SUBSET TokenId, NEW secret \in BOOLEAN,
           ReqProceeds(r, pc, i, is, ks, secret)
    PROVE  OwnReqProceeds(r, pc, i, is, ks, secret)
<1> DEFINE q == [req[r] EXCEPT !.pc = pc, !.telesto = i, !.telestoRows = is,
                               !.tokenRows = ks, !.secret = secret]
<1>1. /\ OwnReq \in [Req -> Request]
      /\ OwnReq[r] = [req[r] EXCEPT !.late = req[r].late /\ req[r].token \in mine.tokens]
      /\ req[r] \in Request /\ req \in [Req -> Request]
  BY OwnRequest DEF IsolationInv, IInv, TypeOK
<1>2. q \in Request /\ q.ctx = Viewer /\ q.late = req[r].late /\ q.token = req[r].token
  BY <1>1 DEF Request
<1>3. req' = [req EXCEPT ![r] = q]
  BY <1>1 DEF ReqProceeds, Proceeds
<1>4. OwnReq' = [OwnReq EXCEPT ![r] =
                    [q EXCEPT !.late = req[r].late /\ req[r].token \in mine.tokens]]
  <2> HIDE DEF q
  <2>1. OwnReq' = [OwnReq EXCEPT ![r] = [q EXCEPT !.late = q.late /\ q.token \in mine.tokens]]
    BY <1>2, <1>3, OwnRequestStays
  <2> QED
    BY <1>2, <2>1
<1> DEFINE late == req[r].late /\ req[r].token \in mine.tokens
<1>5. late \in BOOLEAN
  OBVIOUS
<1>6. OwnReq' = [OwnReq EXCEPT ![r] = [q EXCEPT !.late = late]]
      /\ OwnReq[r] = [req[r] EXCEPT !.late = late]
  BY <1>1, <1>4
<1> HIDE DEF late
<1>7. [q EXCEPT !.late = late] = [OwnReq[r] EXCEPT !.pc = pc, !.telesto = i,
                                    !.telestoRows = is, !.tokenRows = ks, !.secret = secret]
  BY <1>1, <1>5, <1>6 DEF Request
<1> HIDE DEF q
<1> QED
  BY <1>1, <1>6, <1>7 DEF OwnReqProceeds, Proceeds

\* A request of Viewer that returns does so in both; any other leaves no trace.
LEMMA OwnReturns ==
    ASSUME IsolationInv, IInv', Remembers, UserStep \/ UNCHANGED dbVars,
           NEW r \in Req, Return(r)
    PROVE  Alone!Return(r)
<1>1. req' = [req EXCEPT ![r] = Idle]
  BY DEF Return
<1>2. OwnReq' = [OwnReq EXCEPT ![r] =
                    IF Idle.ctx = Viewer
                      THEN [Idle EXCEPT !.late = Idle.late /\ Idle.token \in mine'.tokens]
                      ELSE Idle]
  BY <1>1, IdleOK, OwnRequestMoves
<1>3. Idle.ctx # Viewer
  BY ViewerIsUser DEF Idle
<1>4. OwnReq' = [OwnReq EXCEPT ![r] = Idle]
  BY <1>2, <1>3
<1> QED
  BY <1>4 DEF Alone!Return, Alone!Idle, Idle

\* So does every SELECT of his requests, and what it reads is his.
LEMMA OwnReads ==
    ASSUME IsolationInv, IInv', Remembers, NEW r \in Req, req[r].ctx = Viewer,
           Read(r)
    PROVE  Alone!Read(r) /\ Apart(r)'
<1>1. UNCHANGED dbVars
  BY ReadKeepsRows DEF IsolationInv
<1>2. mine' = mine /\ UNCHANGED <<OwnTelestos, OwnTokens>> /\ Apart(r) /\ RequestOK(r)
  BY <1>1, QuietStep DEF IsolationInv, MineInv, IInv
<1>3. UNCHANGED Alone!dbVars
  BY <1>2 DEF Alone!dbVars
<1>4. /\ TelestosForUser(Viewer) \subseteq mine.telestos
      /\ TokensForUser(Viewer) \subseteq mine.tokens
      /\ TelestosForUser(Viewer) \subseteq TelestoId
      /\ TokensForUser(Viewer) \subseteq TokenId
      /\ \A k \in TokensForUser(Viewer) :
            k \in Tokens /\ tokens[k].telesto \in TelestosForUser(Viewer)
  BY DEF IsolationInv, MineInv, IInv, TokenBelongsToOwner, TelestosForUser, TokensForUser,
         Telestos, Tokens
<1>5. UNCHANGED reveal => UNCHANGED OwnReveal
  BY <1>2 DEF OwnReveal
<1>6. /\ OwnReq \in [Req -> Request] /\ req \in [Req -> Request]
      /\ req[r] \in Request /\ OwnReq[r] \in Request
      /\ OwnReq[r].pc = req[r].pc /\ OwnReq[r].route = req[r].route
      /\ OwnReq[r].ctx = Viewer /\ req[r].ctx = Viewer
      /\ OwnReq[r].telesto = req[r].telesto /\ OwnReq[r].token = req[r].token
      /\ OwnReq[r].telestoRows = req[r].telestoRows /\ OwnReq[r].tokenRows = req[r].tokenRows
      /\ OwnReq[r].secret = req[r].secret
  <2> DEFINE late == req[r].late /\ req[r].token \in mine.tokens
  <2>1. /\ OwnReq \in [Req -> Request] /\ req \in [Req -> Request] /\ req[r] \in Request
        /\ OwnReq[r] = [req[r] EXCEPT !.late = late]
    BY OwnRequest DEF IsolationInv, IInv, TypeOK
  <2> HIDE DEF late
  <2> QED
    BY <2>1 DEF Request
<1>7. OwnReq \in [Req -> Request]
  BY <1>6
<1>16. Alone!TelestosForUser(Viewer) = TelestosForUser(Viewer)
  BY OwnRows
<1>9. /\ req[r].telesto \in TelestoId \cup {None} /\ req[r].secret \in BOOLEAN
      /\ req[r].telestoRows \in SUBSET TelestoId /\ req[r].tokenRows \in SUBSET TokenId
      /\ "preload" \in Pc /\ "render" \in Pc /\ "insert" \in Pc /\ "mark" \in Pc
  BY <1>6 DEF Request, Pc
<1>8. CASE GetTelestos(r) \/ NewToken(r)
  <2> DEFINE is == TelestosForUser(Viewer)
  <2>1. req' = [req EXCEPT ![r].pc = "preload", ![r].telestoRows = is] /\ UNCHANGED reveal
    BY <1>6, <1>8 DEF GetTelestos, NewToken, FindTelestos
  <2>2. is \in SUBSET TelestoId /\ is \subseteq mine.telestos
    BY <1>4
  <2> HIDE DEF is
  <2>3. ReqProceeds(r, "preload", req[r].telesto, is, req[r].tokenRows, req[r].secret)
    BY <1>6, <2>1 DEF Request, ReqProceeds, Proceeds
  <2>4. OwnReqProceeds(r, "preload", req[r].telesto, is, req[r].tokenRows, req[r].secret)
    BY <1>1, <1>9, <2>2, <2>3, OwnRequestReads
  <2>5. OwnReq' = [OwnReq EXCEPT ![r].pc = "preload", ![r].telestoRows = is]
    <3>1. OwnReq' =
            Proceeds(OwnReq, r, "preload", OwnReq[r].telesto, is,
                     OwnReq[r].tokenRows, OwnReq[r].secret)
      BY <1>6, <2>4 DEF OwnReqProceeds
    <3> QED
      BY <1>7, <3>1 DEF Request, Proceeds
  <2>6. Apart(r)'
    BY <1>2, <1>6, <2>1, <2>2 DEF Apart, Request
  <2> QED
    BY <1>3, <1>5, <1>6, <1>16, <1>8, <2>1, <2>5, <2>6
       DEF GetTelestos, NewToken, At, Alone!GetTelestos, Alone!NewToken,
           Alone!FindTelestos, Alone!At, Alone!Read, is
<1>10. CASE GetTelesto(r) \/ EditTelesto(r)
  <2> DEFINE i == req[r].telesto
  <2>1. /\ req' = [req EXCEPT ![r].pc = "preload", ![r].telestoRows = {i}] /\ UNCHANGED reveal
        /\ i \in TelestosForUser(Viewer)
    BY <1>6, <1>10 DEF GetTelesto, EditTelesto, FindTelesto
  <2>2. {i} \in SUBSET TelestoId /\ {i} \subseteq mine.telestos
    BY <1>4, <2>1
  <2>3. ReqProceeds(r, "preload", i, {i}, req[r].tokenRows, req[r].secret)
    BY <1>6, <2>1 DEF Request, ReqProceeds, Proceeds
  <2>4. OwnReqProceeds(r, "preload", i, {i}, req[r].tokenRows, req[r].secret)
    BY <1>1, <1>9, <2>2, <2>3, OwnRequestReads
  <2>5. OwnReq' = [OwnReq EXCEPT ![r].pc = "preload", ![r].telestoRows = {i}]
    <3>1. OwnReq' =
            Proceeds(OwnReq, r, "preload", OwnReq[r].telesto, {i},
                     OwnReq[r].tokenRows, OwnReq[r].secret)
      BY <1>6, <2>4 DEF OwnReqProceeds
    <3> QED
      BY <1>7, <3>1 DEF Request, Proceeds
  <2>6. Apart(r)'
    BY <1>2, <1>6, <2>1, <2>2 DEF Apart, Request
  <2> QED
    BY <1>3, <1>5, <1>6, <1>16, <1>10, <2>1, <2>5, <2>6
       DEF GetTelesto, EditTelesto, At, Alone!GetTelesto, Alone!EditTelesto,
           Alone!FindTelesto, Alone!At, Alone!Read
<1>11. CASE SelectTelesto(r)
  <2>1. PICK i \in TelestosForUser(Viewer) :
          req' = [req EXCEPT ![r].pc = "preload", ![r].telesto = i, ![r].telestoRows = {i}]
    BY <1>6, <1>11 DEF SelectTelesto
  <2>2. /\ {i} \in SUBSET TelestoId /\ {i} \subseteq mine.telestos /\ UNCHANGED reveal
        /\ i \in TelestoId \cup {None}
    BY <1>4, <1>11, <2>1 DEF SelectTelesto
  <2>3. ReqProceeds(r, "preload", i, {i}, req[r].tokenRows, req[r].secret)
    BY <1>6, <2>1 DEF Request, ReqProceeds, Proceeds
  <2>4. OwnReqProceeds(r, "preload", i, {i}, req[r].tokenRows, req[r].secret)
    BY <1>1, <1>9, <2>2, <2>3, OwnRequestReads
  <2>5. OwnReq' = [OwnReq EXCEPT ![r].pc = "preload", ![r].telesto = i, ![r].telestoRows = {i}]
    <3>1. OwnReq' = Proceeds(OwnReq, r, "preload", i, {i}, OwnReq[r].tokenRows, OwnReq[r].secret)
      BY <1>6, <2>4 DEF OwnReqProceeds
    <3> QED
      BY <1>7, <3>1 DEF Request, Proceeds
  <2>6. Apart(r)'
    BY <1>2, <1>6, <2>1, <2>2 DEF Apart, Request
  <2>7. i \in Alone!TelestosForUser(OwnReq[r].ctx)
    BY <1>6, <1>16, <2>1
  <2>8. Alone!At(r, "handle", {"NewTokenSubmit"}) /\ UNCHANGED Alone!dbVars
    BY <1>3, <1>6, <1>11 DEF SelectTelesto, At, Alone!At
  <2> QED
    BY <1>5, <2>2, <2>5, <2>6, <2>7, <2>8
       DEF Alone!SelectTelesto, Alone!Read
<1>12. CASE PreloadTokens(r)
  <2> DEFINE pc == IF req[r].route = "NewTokenSubmit" THEN "insert" ELSE "render"
             ks == TokensOfTelestos(req[r].telestoRows)
  <2>1. req' = [req EXCEPT ![r].pc = pc, ![r].tokenRows = ks] /\ UNCHANGED reveal
    BY <1>6, <1>12 DEF PreloadTokens
  <2>2. /\ ks \in SUBSET TokenId /\ ks \subseteq mine.tokens /\ pc \in Pc
        /\ Alone!TokensOfTelestos(req[r].telestoRows) = ks
    BY <1>2, <1>4, <1>6, <1>9, OwnPreload DEF Apart
  <2> HIDE DEF ks
  <2>3. ReqProceeds(r, pc, req[r].telesto, req[r].telestoRows, ks, req[r].secret)
    BY <1>6, <2>1 DEF Request, ReqProceeds, Proceeds
  <2>4. OwnReqProceeds(r, pc, req[r].telesto, req[r].telestoRows, ks, req[r].secret)
    <3> HIDE DEF pc
    <3> QED
      BY <1>1, <1>9, <2>2, <2>3, OwnRequestReads
  <2>5. OwnReq' = [OwnReq EXCEPT ![r].pc = pc, ![r].tokenRows = ks]
    <3>1. OwnReq' =
            Proceeds(OwnReq, r, pc, OwnReq[r].telesto, OwnReq[r].telestoRows, ks, OwnReq[r].secret)
      BY <1>6, <2>4 DEF OwnReqProceeds
    <3> QED
      BY <1>7, <3>1 DEF Request, Proceeds
  <2>6. Apart(r)'
    BY <1>2, <1>6, <2>1, <2>2 DEF Apart, Request
  <2> QED
    BY <1>3, <1>5, <1>6, <1>12, <2>1, <2>2, <2>5, <2>6
       DEF PreloadTokens, At, Alone!PreloadTokens, Alone!At, Alone!Read
<1>13. CASE GetTokens(r)
  <2> DEFINE ks == TokensForUser(Viewer)
             is == {tokens[k].telesto : k \in ks}
  <2>1. /\ req' = [req EXCEPT ![r].pc = "preload", ![r].tokenRows = ks, ![r].telestoRows = is]
        /\ UNCHANGED reveal
    BY <1>6, <1>13 DEF GetTokens
  <2>2. /\ ks \in SUBSET TokenId /\ ks \subseteq mine.tokens
        /\ is \in SUBSET TelestoId /\ is \subseteq mine.telestos
    BY <1>4
  <2>3. Alone!TokensForUser(Viewer) = ks /\ {OwnTokens[k].telesto : k \in ks} = is
    BY OwnRows
  <2> HIDE DEF ks, is
  <2>4. ReqProceeds(r, "preload", req[r].telesto, is, ks, req[r].secret)
    BY <1>6, <2>1 DEF Request, ReqProceeds, Proceeds
  <2>5. OwnReqProceeds(r, "preload", req[r].telesto, is, ks, req[r].secret)
    BY <1>1, <1>9, <2>2, <2>4, OwnRequestReads
  <2>6. OwnReq' = [OwnReq EXCEPT ![r].pc = "preload", ![r].tokenRows = ks, ![r].telestoRows = is]
    <3>1. OwnReq' = Proceeds(OwnReq, r, "preload", OwnReq[r].telesto, is, ks, OwnReq[r].secret)
      BY <1>6, <2>5 DEF OwnReqProceeds
    <3> QED
      BY <1>7, <3>1 DEF Request, Proceeds
  <2>7. Apart(r)'
    BY <1>2, <1>6, <2>1, <2>2 DEF Apart, Request
  <2> QED
    BY <1>3, <1>5, <1>6, <1>13, <2>1, <2>3, <2>6, <2>7
       DEF GetTokens, At, Alone!GetTokens, Alone!At, Alone!Read
<1>14. CASE GetToken(r) \/ EditToken(r)
  <2>0. PICK shown \in BOOLEAN :
          /\ FindToken(r, shown)
          /\ IF shown THEN GetToken(r) ELSE EditToken(r)
    BY <1>14 DEF GetToken, EditToken
  <2> DEFINE k == req[r].token
             is == {tokens[k].telesto}
             secret == shown /\ ~tokens[k].seen
  <2>1. /\ k \in TokensForUser(Viewer)
        /\ req' = [req EXCEPT ![r].pc = "preload", ![r].tokenRows = {k},
                               ![r].telestoRows = is, ![r].secret = secret]
        /\ UNCHANGED reveal
    BY <1>6, <2>0 DEF FindToken
  <2>2. /\ {k} \in SUBSET TokenId /\ {k} \subseteq mine.tokens
        /\ is \in SUBSET TelestoId /\ is \subseteq mine.telestos
        /\ secret \in BOOLEAN
    BY <1>4, <2>1
  <2>3. /\ Alone!TokensForUser(Viewer) = TokensForUser(Viewer)
        /\ OwnTokens[k] = tokens[k]
    BY <2>1, OwnRows
  <2>4. Alone!FindToken(r, shown)
    <3>1. ReqProceeds(r, "preload", req[r].telesto, is, {k}, secret)
      <4> HIDE DEF is, secret
      <4> QED
        BY <1>6, <2>1 DEF Request, ReqProceeds, Proceeds
    <3>2. OwnReqProceeds(r, "preload", req[r].telesto, is, {k}, secret)
      <4> HIDE DEF is, secret
      <4> QED
        BY <1>1, <1>9, <2>2, <3>1, OwnRequestReads
    <3>3. OwnReq' = [OwnReq EXCEPT ![r].pc = "preload", ![r].tokenRows = {k},
                                   ![r].telestoRows = is, ![r].secret = secret]
      <4> HIDE DEF is, secret
      <4> QED
        <5>1. OwnReq' = Proceeds(OwnReq, r, "preload", OwnReq[r].telesto, is, {k}, secret)
          BY <1>6, <3>2 DEF OwnReqProceeds
        <5> QED
          BY <1>7, <5>1 DEF Request, Proceeds
    <3> QED
      BY <1>3, <1>5, <1>6, <2>1, <2>3, <3>3 DEF Alone!FindToken
  <2>5. Apart(r)'
    BY <1>2, <1>6, <2>1, <2>2 DEF Apart, Request
  <2>6. IF shown THEN Alone!GetToken(r) ELSE Alone!EditToken(r)
    BY <1>6, <2>0, <2>4 DEF GetToken, EditToken, At, Alone!GetToken, Alone!EditToken, Alone!At
  <2> QED
    BY <2>5, <2>6 DEF Alone!Read
<1>15. CASE PreloadTelesto(r)
  <2> DEFINE is == req[r].telestoRows \cap Telestos
  <2>1. req' = [req EXCEPT ![r].pc = "render", ![r].telestoRows = is] /\ UNCHANGED reveal
    BY <1>6, <1>15 DEF PreloadTelesto
  <2>2. is \in SUBSET TelestoId /\ is \subseteq mine.telestos
    BY <1>2, <1>6, <1>9 DEF Apart
  <2>3. req[r].telestoRows \cap Alone!Telestos = is
    <3>1. req[r].telestoRows \subseteq mine.telestos
      BY <1>2, <1>6 DEF Apart
    <3>2. Alone!Telestos = mine.telestos \cap Telestos
      BY OwnRows DEF IsolationInv, MineInv
    <3> QED
      BY <3>1, <3>2
  <2> HIDE DEF is
  <2>4. ReqProceeds(r, "render", req[r].telesto, is, req[r].tokenRows, req[r].secret)
    BY <1>6, <2>1 DEF Request, ReqProceeds, Proceeds
  <2>5. OwnReqProceeds(r, "render", req[r].telesto, is, req[r].tokenRows, req[r].secret)
    BY <1>1, <1>9, <2>2, <2>4, OwnRequestReads
  <2>6. OwnReq' = [OwnReq EXCEPT ![r].pc = "render", ![r].telestoRows = is]
    <3>1. OwnReq' =
            Proceeds(OwnReq, r, "render", OwnReq[r].telesto, is,
                     OwnReq[r].tokenRows, OwnReq[r].secret)
      BY <1>6, <2>5 DEF OwnReqProceeds
    <3> QED
      BY <1>7, <3>1 DEF Request, Proceeds
  <2>7. Apart(r)'
    BY <1>2, <1>6, <2>1, <2>2 DEF Apart, Request
  <2>8. OwnReq' = [OwnReq EXCEPT ![r].pc = "render", ![r].telestoRows = @ \cap Alone!Telestos]
    BY <1>6, <2>3, <2>6
  <2> QED
    BY <1>3, <1>5, <1>6, <1>15, <2>1, <2>7, <2>8
       DEF PreloadTelesto, At, Alone!PreloadTelesto, Alone!At, Alone!Read
<1>17. CASE Render(r)
  <2>1. \/ reveal' = reveal
        \/ /\ req[r].secret /\ reveal[req[r].token] = "never"
           /\ reveal' = [reveal EXCEPT ![req[r].token] = "shown"]
    BY <1>17 DEF Render
  <2>2. \E delivered \in BOOLEAN :
          OwnReveal' = IF delivered /\ OwnReq[r].secret /\ OwnReveal[OwnReq[r].token] = "never"
                         THEN [OwnReveal EXCEPT ![OwnReq[r].token] = "shown"] ELSE OwnReveal
    <3>1. CASE reveal' = reveal
      <4>1. OwnReveal' = OwnReveal
        BY <1>5, <3>1
      <4> QED
        BY <4>1
    <3>2. CASE /\ req[r].secret /\ reveal[req[r].token] = "never"
               /\ reveal' = [reveal EXCEPT ![req[r].token] = "shown"]
      <4>1. req[r].token \in mine.tokens /\ mine.tokens \subseteq TokenId
        BY <1>2, <1>6, <3>2 DEF RequestOK, Apart, IsolationInv
      <4>2. reveal \in [TokenId -> {"never", "shown", "settled"}]
        BY DEF IsolationInv, IInv, TypeOK
      <4>3. OwnReveal[req[r].token] = "never"
        BY <3>2, <4>1 DEF OwnReveal
      <4>4. OwnReveal' = [OwnReveal EXCEPT ![req[r].token] = "shown"]
        BY <1>2, <3>2, <4>1, <4>2 DEF OwnReveal
      <4> QED
        BY <1>6, <3>2, <4>3, <4>4
    <3> QED
      BY <2>1, <3>1, <3>2
  <2>3. CASE req[r].route # "GetToken"
    <3>1. Return(r)
      BY <1>17, <2>3 DEF Render
    <3>2. Alone!Return(r)
      BY <1>1, <3>1, OwnReturns
    <3>3. Apart(r)'
      BY <1>1, <1>6, <3>1, StaysApart DEF Return
    <3> QED
      BY <1>3, <1>6, <1>17, <2>2, <2>3, <3>2, <3>3 DEF Render, Alone!Render, Alone!Read
  <2>4. CASE req[r].route = "GetToken"
    <3>1. req' = [req EXCEPT ![r].pc = "mark"]
      BY <1>17, <2>4 DEF Render
    <3>2. ReqProceeds(r, "mark", req[r].telesto, req[r].telestoRows, req[r].tokenRows,
                      req[r].secret)
      BY <1>6, <3>1 DEF Request, ReqProceeds, Proceeds
    <3>3. OwnReqProceeds(r, "mark", req[r].telesto, req[r].telestoRows, req[r].tokenRows,
                         req[r].secret)
      BY <1>1, <1>9, <3>2, OwnRequestReads
    <3>4. OwnReq' = [OwnReq EXCEPT ![r].pc = "mark"]
      <4>1. OwnReq' = Proceeds(OwnReq, r, "mark", OwnReq[r].telesto, OwnReq[r].telestoRows,
                               OwnReq[r].tokenRows, OwnReq[r].secret)
        BY <1>6, <3>3 DEF OwnReqProceeds
      <4> QED
        BY <1>7, <4>1 DEF Request, Proceeds
    <3>5. Apart(r)'
      BY <1>2, <1>6, <3>1 DEF Apart, Request
    <3> QED
      BY <1>3, <1>6, <1>17, <2>2, <2>4, <3>4, <3>5 DEF Render, Alone!Render, Alone!Read
  <2> QED
    BY <2>3, <2>4
<1> QED
  BY <1>8, <1>10, <1>11, <1>12, <1>13, <1>14, <1>15, <1>17 DEF Read

-----------------------------------------------------------------------------
(* The middlewares.                                                        *)

\* A request that arrives for him arrives in his view.
LEMMA OwnStarts ==
    ASSUME IsolationInv, IInv', Remembers, NEW r \in Req, LoadSession(r, Viewer),
           req'[r].ctx = Viewer
    PROVE  Alone!LoadSession(r, Viewer) /\ Apart(r)'
<1>1. /\ UNCHANGED dbVars /\ UNCHANGED reveal /\ req[r] = Idle /\ req \in [Req -> Request]
      /\ req[r].pc = "idle"
  BY DEF LoadSession, IsolationInv, IInv, TypeOK, RequestOK
<1>2. mine' = mine /\ UNCHANGED <<OwnTelestos, OwnTokens>>
  BY <1>1, QuietStep
<1> DEFINE q == [Idle EXCEPT !.pc = "protect", !.ctx = Viewer]
<1>3. req' = [req EXCEPT ![r] = q]
  BY <1>1 DEF LoadSession
<1>4. /\ q \in Request /\ q.ctx = Viewer
      /\ [q EXCEPT !.late = q.late /\ q.token \in mine.tokens] = q
  <2>1. q \in Request /\ q.ctx = Viewer /\ q.late = FALSE
    BY ViewerIsUser DEF Idle, Request, Pc
  <2> HIDE DEF q
  <2>2. (q.late /\ q.token \in mine.tokens) = FALSE
    BY <2>1
  <2>3. [q EXCEPT !.late = FALSE] = q
    BY <2>1 DEF Request
  <2> QED
    BY <2>1, <2>2, <2>3
<1>5. OwnReq' = [OwnReq EXCEPT ![r] = q]
  <2> HIDE DEF q
  <2>1. OwnReq' = [OwnReq EXCEPT ![r] =
                     [q EXCEPT !.late = q.late /\ q.token \in mine.tokens]]
    BY <1>1, <1>3, <1>4, OwnRequestStays
  <2> QED
    BY <1>4, <2>1
<1>6. OwnReq[r] = Idle /\ OwnReq = [s \in Req |-> OwnReq[s]]
  BY <1>1, ViewerIsUser DEF OwnReq, Idle
<1>7. OwnReq' = [OwnReq EXCEPT ![r].pc = "protect", ![r].ctx = Viewer]
  BY <1>5, <1>6
<1>8. OwnReq[r].pc = "idle" /\ UNCHANGED OwnReveal /\ UNCHANGED Alone!dbVars
  BY <1>1, <1>2, <1>6 DEF OwnReveal, Alone!dbVars, Idle
<1>9. Apart(r)'
  BY <1>1, <1>3 DEF Apart, Idle
<1> QED
  BY <1>7, <1>8, <1>9 DEF Alone!LoadSession

\* It passes the second middleware there, with the same route and ids.
LEMMA OwnProtected ==
    ASSUME IsolationInv, IInv', Remembers, NEW r \in Req, req[r].ctx = Viewer,
           Protected(r)
    PROVE  Alone!Protected(r) /\ Apart(r)'
<1>1. /\ UNCHANGED dbVars /\ UNCHANGED reveal /\ req[r].pc = "protect"
      /\ req \in [Req -> Request] /\ RequestOK(r)
  BY DEF Protected, IsolationInv, IInv, TypeOK
<1>2. mine' = mine /\ UNCHANGED <<OwnTelestos, OwnTokens>>
  BY <1>1, QuietStep
<1>3. UNCHANGED OwnReveal /\ UNCHANGED Alone!dbVars
  BY <1>1, <1>2 DEF OwnReveal, Alone!dbVars
<1>4. /\ OwnReq \in [Req -> Request] /\ req[r] \in Request
      /\ OwnReq[r] = [req[r] EXCEPT !.late = req[r].late /\ req[r].token \in mine.tokens]
  BY OwnRequest
<1>5. OwnReq[r].pc = "protect"
  BY <1>1, <1>4 DEF Request
<1>6. CASE Return(r)
  <2>1. Alone!Return(r) /\ Apart(r)'
    BY <1>1, <1>6, OwnReturns, StaysApart DEF Return
  <2> QED
    BY <1>3, <1>5, <2>1 DEF Alone!Protected
<1>7. CASE ~Return(r)
  <2>1. PICK route \in Routes, i \in TelestoId \cup {None}, k \in TokenId \cup {None} :
          /\ route \in TelestoRoutes <=> i # None
          /\ route \in TokenRoutes <=> k # None
          /\ req' = [req EXCEPT ![r].pc = "handle", ![r].route = route, ![r].telesto = i,
                                ![r].token = k, ![r].late = k # None /\ Withdrawn(k)]
    BY <1>7 DEF Protected
  <2> DEFINE late == k # None /\ Withdrawn(k)
             ownLate == k # None /\ Alone!Withdrawn(k)
             q == [req[r] EXCEPT !.pc = "handle", !.route = route, !.telesto = i,
                                 !.token = k, !.late = late]
  <2>2. (late /\ k \in mine.tokens) = ownLate
    <3>1. CASE k \in mine.tokens
      <4>1. k \in Tokens <=> k \in Alone!Tokens
        BY <3>1, OwnRows DEF IsolationInv, MineInv
      <4>2. k \in Alone!Tokens => OwnTokens[k] = tokens[k]
        BY OwnRows
      <4>3. OwnReveal[k] = reveal[k]
        BY <3>1 DEF OwnReveal, IsolationInv
      <4> QED
        BY <3>1, <4>1, <4>2, <4>3 DEF Withdrawn, Alone!Withdrawn
    <3>2. CASE k \notin mine.tokens
      <4>1. k \notin Alone!Tokens
        BY <3>2, OwnRows DEF IsolationInv, MineInv
      <4>2. k # None => OwnReveal[k] = "never"
        BY <3>2 DEF OwnReveal
      <4> QED
        BY <3>2, <4>1, <4>2 DEF Alone!Withdrawn
    <3> QED
      BY <3>1, <3>2
  <2>3. req' = [req EXCEPT ![r] = q]
    BY <1>1, <2>1
  <2>4. /\ q \in Request /\ q.ctx = Viewer /\ q.late = late /\ q.token = k
        /\ q.telestoRows = req[r].telestoRows /\ q.tokenRows = req[r].tokenRows
    BY <1>4, PortalAssumption DEF Request, Pc
  <2> HIDE DEF late, ownLate
  <2>5. OwnReq' = [OwnReq EXCEPT ![r] = [q EXCEPT !.late = ownLate]]
    <3> HIDE DEF q
    <3>1. OwnReq' = [OwnReq EXCEPT ![r] =
                       [q EXCEPT !.late = q.late /\ q.token \in mine.tokens]]
      BY <1>1, <2>3, <2>4, OwnRequestStays
    <3> QED
      BY <2>2, <2>4, <3>1
  <2>6. [q EXCEPT !.late = ownLate] = [OwnReq[r] EXCEPT !.pc = "handle", !.route = route,
                                         !.telesto = i, !.token = k, !.late = ownLate]
    <3> DEFINE was == req[r].late /\ req[r].token \in mine.tokens
    <3>1. OwnReq[r] = [req[r] EXCEPT !.late = was]
      BY <1>4
    <3> HIDE DEF was
    <3> QED
      BY <1>4, <3>1 DEF Request
  <2>7. OwnReq' = [OwnReq EXCEPT ![r].pc = "handle", ![r].route = route, ![r].telesto = i,
                                 ![r].token = k, ![r].late = ownLate]
    <3> HIDE DEF q
    <3> QED
      BY <1>4, <2>5, <2>6
  <2>8. Apart(r)'
    <3>1. Apart(r)
      BY DEF IsolationInv, MineInv
    <3>2. /\ req'[r].ctx = Viewer /\ req'[r].telestoRows = req[r].telestoRows
          /\ req'[r].tokenRows = req[r].tokenRows
      <4> HIDE DEF q
      <4> QED
        BY <1>1, <2>3, <2>4
    <3> QED
      BY <1>2, <3>1, <3>2 DEF Apart
  <2> QED
    BY <1>3, <1>5, <2>1, <2>7, <2>8
       DEF Alone!Protected, Alone!TelestoRoutes, Alone!TokenRoutes, TelestoRoutes, TokenRoutes,
           ownLate
<1> QED
  BY <1>6, <1>7

-----------------------------------------------------------------------------
(* The statements that write rows of Viewer.                               *)

\* What follows for the names, the history and the tables when they are compared
\* row by row.
LEMMA OwnTables ==
    ASSUME IsolationInv
    PROVE  /\ telestos \in [TelestoId -> TelestoRow \cup {None}]
           /\ tokens \in [TokenId -> TokenRow \cup {None}]
           /\ mine \in [telestos: SUBSET TelestoId, tokens: SUBSET TokenId]
           /\ TelestosForUser(Viewer) = {i \in TelestoId : telestos[i] # None
                                                          /\ telestos[i].user = Viewer}
           /\ TokensForUser(Viewer) = {k \in TokenId : tokens[k] # None
                                                      /\ tokens[k].user = Viewer}
           /\ TelestosForUser(Viewer) \subseteq mine.telestos
           /\ TokensForUser(Viewer) \subseteq mine.tokens
           /\ mine.telestos \subseteq issued.telestos /\ mine.tokens \subseteq issued.tokens
  BY DEF IsolationInv, MineInv, IInv, TypeOK, DbTypeOK, TelestosForUser, TokensForUser,
         Telestos, Tokens

\* A name that is free among all rows is free among his own.
LEMMA OwnNames ==
    ASSUME IsolationInv, NEW n
    PROVE  /\ \A i : TelestoNameFree(i, Viewer, n) => Alone!TelestoNameFree(i, Viewer, n)
           /\ \A k : TokenNameFree(k, Viewer, n) => Alone!TokenNameFree(k, Viewer, n)
<1>1. /\ TelestosForUser(Viewer) \subseteq Telestos
      /\ TokensForUser(Viewer) \subseteq Tokens
  BY DEF TelestosForUser, TokensForUser
<1>2. ASSUME NEW i, TelestoNameFree(i, Viewer, n) PROVE Alone!TelestoNameFree(i, Viewer, n)
  BY <1>1, <1>2, OwnRows DEF TelestoNameFree, Alone!TelestoNameFree
<1>3. ASSUME NEW k, TokenNameFree(k, Viewer, n) PROVE Alone!TokenNameFree(k, Viewer, n)
  BY <1>1, <1>3, OwnRows DEF TokenNameFree, Alone!TokenNameFree
<1> QED
  BY <1>2, <1>3

\* The insert of a telesto of his is possible without the others.
LEMMA OwnCreateTelesto ==
    ASSUME IsolationInv, Remembers, NEW i \in TelestoId, NEW n \in Name,
           NEW url \in Url \cup {NoUrl}, CreateTelesto(i, Viewer, n, url)
    PROVE  Alone!CreateTelesto(i, Viewer, n, url)
<1> DEFINE row == [user |-> Viewer, name |-> n, url |-> url, auth |-> FALSE]
<1>1. /\ i \in TelestoId \ issued.telestos /\ TelestoNameFree(i, Viewer, n)
      /\ telestos' = [telestos EXCEPT ![i] = row] /\ tokens' = tokens
  BY DEF CreateTelesto
<1>2. row # None /\ row.user = Viewer
  <2>1. row \in TelestoRow
    BY ViewerIsUser DEF TelestoRow
  <2> QED
    BY <2>1, StorageAssumption
<1> HIDE DEF row
<1>3. TelestosForUser(Viewer)' = TelestosForUser(Viewer) \cup {i}
  BY <1>1, <1>2, OwnTables DEF TelestosForUser, Telestos
<1>4. TokensForUser(Viewer)' = TokensForUser(Viewer) /\ OwnTokens' = OwnTokens
  BY <1>1 DEF TokensForUser, Tokens, OwnTokens
<1>5. mine' = [mine EXCEPT !.telestos = @ \cup {i}]
  <2>1. /\ mine.telestos \cup TelestosForUser(Viewer)' = mine.telestos \cup {i}
        /\ mine.tokens \cup TokensForUser(Viewer)' = mine.tokens
    BY <1>3, <1>4, OwnTables
  <2>2. mine' = [telestos |-> mine.telestos \cup {i}, tokens |-> mine.tokens]
    BY <2>1 DEF Remembers
  <2>3. mine \in [telestos: SUBSET TelestoId, tokens: SUBSET TokenId]
    BY OwnTables
  <2> QED
    BY <2>2, <2>3
<1>6. OwnTelestos' = [OwnTelestos EXCEPT ![i] = row]
  BY <1>1, <1>3, OwnTables DEF OwnTelestos
<1>7. i \in TelestoId \ mine.telestos /\ Alone!TelestoNameFree(i, Viewer, n)
  BY <1>1, OwnTables, OwnNames
<1> QED
  BY <1>4, <1>5, <1>6, <1>7 DEF Alone!CreateTelesto, row

\* A statement that changes no owner and adds no row leaves the history as it is.
LEMMA SameOwners ==
    ASSUME IsolationInv, Remembers,
           TelestosForUser(Viewer)' \subseteq TelestosForUser(Viewer),
           TokensForUser(Viewer)' \subseteq TokensForUser(Viewer)
    PROVE  mine' = mine
  BY OwnTables DEF Remembers

\* His update of a telesto changes the same row, or nothing.
LEMMA OwnUpdateTelesto ==
    ASSUME IsolationInv, Remembers, NEW i, NEW n \in Name,
           NEW url \in Url \cup {NoUrl}, NEW auth \in BOOLEAN,
           UpdateTelesto(Viewer, i, n, url, auth)
    PROVE  Alone!UpdateTelesto(Viewer, i, n, url, auth)
<1>1. tokens' = tokens
  BY DEF UpdateTelesto
<1>2. TokensForUser(Viewer)' = TokensForUser(Viewer) /\ OwnTokens' = OwnTokens
  BY <1>1 DEF TokensForUser, Tokens, OwnTokens
<1>3. CASE i \in TelestosForUser(Viewer)
  <2> DEFINE row == [telestos[i] EXCEPT !.name = n, !.url = NonZero(url, telestos[i].url, NoUrl),
                                        !.auth = NonZero(auth, telestos[i].auth, FALSE)]
  <2>1. TelestoNameFree(i, Viewer, n) /\ telestos' = [telestos EXCEPT ![i] = row]
    BY <1>3, OwnTables DEF UpdateTelesto
  <2>2. telestos[i] \in TelestoRow /\ telestos[i].user = Viewer
    BY <1>3, OwnTables
  <2>3. row \in TelestoRow /\ row.user = Viewer
    BY <2>2 DEF TelestoRow, NonZero
  <2>4. row # None
    BY <2>3, StorageAssumption
  <2>5. OwnTelestos[i] = telestos[i]
    BY <1>3, OwnRows
  <2>6. row = [OwnTelestos[i] EXCEPT !.name = n,
                 !.url  = Alone!NonZero(url, OwnTelestos[i].url, NoUrl),
                 !.auth = Alone!NonZero(auth, OwnTelestos[i].auth, FALSE)]
    BY <2>5 DEF NonZero, Alone!NonZero
  <2> HIDE DEF row
  <2>7. TelestosForUser(Viewer)' = TelestosForUser(Viewer)
    BY <1>3, <2>1, <2>3, <2>4, OwnTables DEF TelestosForUser, Telestos
  <2>8. OwnTelestos' = [OwnTelestos EXCEPT ![i] = row]
    BY <1>3, <2>1, <2>7, OwnTables DEF OwnTelestos
  <2>9. mine' = mine /\ Alone!TelestoNameFree(i, Viewer, n)
    BY <1>2, <2>1, <2>7, SameOwners, OwnNames
  <2>10. i \in Alone!TelestosForUser(Viewer)
    BY <1>3, OwnRows
  <2> QED
    BY <1>2, <2>6, <2>8, <2>9, <2>10 DEF Alone!UpdateTelesto
<1>4. CASE i \notin TelestosForUser(Viewer)
  <2>1. telestos' = telestos
    BY <1>4 DEF UpdateTelesto
  <2>2. TelestosForUser(Viewer)' = TelestosForUser(Viewer) /\ OwnTelestos' = OwnTelestos
    BY <2>1 DEF TelestosForUser, Telestos, OwnTelestos
  <2>3. mine' = mine /\ i \notin Alone!TelestosForUser(Viewer)
    BY <1>2, <1>4, <2>2, SameOwners, OwnRows
  <2> QED
    BY <1>2, <2>2, <2>3 DEF Alone!UpdateTelesto
<1> QED
  BY <1>3, <1>4

\* The foreign key looks at every token; only Viewer's can refer to the telesto.
LEMMA OwnDeleteTelesto ==
    ASSUME IsolationInv, Remembers, NEW i, DeleteTelesto(Viewer, i)
    PROVE  Alone!DeleteTelesto(Viewer, i)
<1>1. tokens' = tokens
  BY DEF DeleteTelesto
<1>2. TokensForUser(Viewer)' = TokensForUser(Viewer) /\ OwnTokens' = OwnTokens
  BY <1>1 DEF TokensForUser, Tokens, OwnTokens
<1>3. CASE i \in TelestosForUser(Viewer)
  <2>1. TokensOfTelestos({i}) = {} /\ telestos' = [telestos EXCEPT ![i] = None]
    BY <1>3 DEF DeleteTelesto
  <2>2. TelestosForUser(Viewer)' = TelestosForUser(Viewer) \ {i}
    BY <1>3, <2>1, OwnTables DEF TelestosForUser, Telestos
  <2>3. OwnTelestos' = [OwnTelestos EXCEPT ![i] = None]
    BY <1>3, <2>1, <2>2, OwnTables DEF OwnTelestos
  <2>4. mine' = mine
    BY <1>2, <2>2, SameOwners
  <2>5. Alone!TokensOfTelestos({i}) = {}
    BY <1>3, <2>1, OwnTables, OwnPreload
  <2>6. i \in Alone!TelestosForUser(Viewer)
    BY <1>3, OwnRows
  <2> QED
    BY <1>2, <2>3, <2>4, <2>5, <2>6 DEF Alone!DeleteTelesto
<1>4. CASE i \notin TelestosForUser(Viewer)
  <2>1. telestos' = telestos
    BY <1>4 DEF DeleteTelesto
  <2>2. TelestosForUser(Viewer)' = TelestosForUser(Viewer) /\ OwnTelestos' = OwnTelestos
    BY <2>1 DEF TelestosForUser, Telestos, OwnTelestos
  <2>3. mine' = mine /\ i \notin Alone!TelestosForUser(Viewer)
    BY <1>2, <1>4, <2>2, SameOwners, OwnRows
  <2> QED
    BY <1>2, <2>2, <2>3 DEF Alone!DeleteTelesto
<1> QED
  BY <1>3, <1>4

\* The insert of a token is possible for a telesto that was ever his.
LEMMA OwnCreateToken ==
    ASSUME IsolationInv, Remembers, NEW k \in TokenId, NEW i \in mine.telestos,
           NEW n \in Name, CreateToken(k, Viewer, i, n)
    PROVE  Alone!CreateToken(k, Viewer, i, n)
<1> DEFINE row == [user |-> Viewer, telesto |-> i, name |-> n, seen |-> FALSE]
<1>1. /\ k \in TokenId \ issued.tokens /\ TokenNameFree(k, Viewer, n) /\ i \in Telestos
      /\ tokens' = [tokens EXCEPT ![k] = row] /\ telestos' = telestos
  BY DEF CreateToken
<1>2. row # None /\ row.user = Viewer
  <2>1. i \in TelestoId
    BY OwnTables
  <2>2. row \in TokenRow
    BY <2>1, ViewerIsUser DEF TokenRow
  <2> QED
    BY <2>2, StorageAssumption
<1> HIDE DEF row
<1>3. TokensForUser(Viewer)' = TokensForUser(Viewer) \cup {k}
  BY <1>1, <1>2, OwnTables DEF TokensForUser, Tokens
<1>4. TelestosForUser(Viewer)' = TelestosForUser(Viewer) /\ OwnTelestos' = OwnTelestos
  BY <1>1 DEF TelestosForUser, Telestos, OwnTelestos
<1>5. mine' = [mine EXCEPT !.tokens = @ \cup {k}]
  <2>1. /\ mine.telestos \cup TelestosForUser(Viewer)' = mine.telestos
        /\ mine.tokens \cup TokensForUser(Viewer)' = mine.tokens \cup {k}
    BY <1>3, <1>4, OwnTables
  <2>2. mine' = [telestos |-> mine.telestos, tokens |-> mine.tokens \cup {k}]
    BY <2>1 DEF Remembers
  <2>3. mine \in [telestos: SUBSET TelestoId, tokens: SUBSET TokenId]
    BY OwnTables
  <2> QED
    BY <2>2, <2>3
<1>6. OwnTokens' = [OwnTokens EXCEPT ![k] = row]
  BY <1>1, <1>3, OwnTables DEF OwnTokens
<1>7. k \in TokenId \ mine.tokens /\ Alone!TokenNameFree(k, Viewer, n)
  BY <1>1, OwnTables, OwnNames
<1>8. i \in Alone!Telestos
  BY <1>1, OwnRows DEF IsolationInv, MineInv
<1> QED
  BY <1>4, <1>5, <1>6, <1>7, <1>8 DEF Alone!CreateToken, row

\* His renaming of a token changes the same row, or nothing.
LEMMA OwnUpdateToken ==
    ASSUME IsolationInv, Remembers, NEW k, NEW n \in Name, UpdateToken(Viewer, k, n)
    PROVE  Alone!UpdateToken(Viewer, k, n)
<1>1. telestos' = telestos
  BY DEF UpdateToken
<1>2. TelestosForUser(Viewer)' = TelestosForUser(Viewer) /\ OwnTelestos' = OwnTelestos
  BY <1>1 DEF TelestosForUser, Telestos, OwnTelestos
<1>3. CASE k \in TokensForUser(Viewer)
  <2> DEFINE row == [tokens[k] EXCEPT !.name = n]
  <2>1. TokenNameFree(k, Viewer, n) /\ tokens' = [tokens EXCEPT ![k] = row]
    BY <1>3, OwnTables DEF UpdateToken
  <2>2. tokens[k] \in TokenRow /\ tokens[k].user = Viewer
    BY <1>3, OwnTables
  <2>3. row \in TokenRow /\ row.user = Viewer
    BY <2>2 DEF TokenRow
  <2>4. row # None
    BY <2>3, StorageAssumption
  <2>5. OwnTokens[k] = tokens[k]
    BY <1>3, OwnRows
  <2>6. row = [OwnTokens[k] EXCEPT !.name = n]
    BY <2>5
  <2> HIDE DEF row
  <2>7. TokensForUser(Viewer)' = TokensForUser(Viewer)
    BY <1>3, <2>1, <2>3, <2>4, OwnTables DEF TokensForUser, Tokens
  <2>8. OwnTokens' = [OwnTokens EXCEPT ![k] = row]
    BY <1>3, <2>1, <2>7, OwnTables DEF OwnTokens
  <2>9. mine' = mine /\ Alone!TokenNameFree(k, Viewer, n)
    BY <1>2, <2>1, <2>7, SameOwners, OwnNames
  <2>10. k \in Alone!TokensForUser(Viewer)
    BY <1>3, OwnRows
  <2> QED
    BY <1>2, <2>6, <2>8, <2>9, <2>10 DEF Alone!UpdateToken
<1>4. CASE k \notin TokensForUser(Viewer)
  <2>1. tokens' = tokens
    BY <1>4 DEF UpdateToken
  <2>2. TokensForUser(Viewer)' = TokensForUser(Viewer) /\ OwnTokens' = OwnTokens
    BY <2>1 DEF TokensForUser, Tokens, OwnTokens
  <2>3. mine' = mine /\ k \notin Alone!TokensForUser(Viewer)
    BY <1>2, <1>4, <2>2, SameOwners, OwnRows
  <2> QED
    BY <1>2, <2>2, <2>3 DEF Alone!UpdateToken
<1> QED
  BY <1>3, <1>4

\* The mark on his token is the same in his view.
LEMMA OwnMarkTokenSeen ==
    ASSUME IsolationInv, Remembers, NEW k, MarkTokenSeen(Viewer, k)
    PROVE  Alone!MarkTokenSeen(Viewer, k)
<1>1. telestos' = telestos
  BY DEF MarkTokenSeen
<1>2. TelestosForUser(Viewer)' = TelestosForUser(Viewer) /\ OwnTelestos' = OwnTelestos
  BY <1>1 DEF TelestosForUser, Telestos, OwnTelestos
<1>3. CASE k \in TokensForUser(Viewer)
  <2> DEFINE row == [tokens[k] EXCEPT !.seen = TRUE]
  <2>1. tokens' = [tokens EXCEPT ![k] = row]
    BY <1>3, OwnTables DEF MarkTokenSeen
  <2>2. tokens[k] \in TokenRow /\ tokens[k].user = Viewer
    BY <1>3, OwnTables
  <2>3. row \in TokenRow /\ row.user = Viewer
    BY <2>2 DEF TokenRow
  <2>4. row # None
    BY <2>3, StorageAssumption
  <2>5. OwnTokens[k] = tokens[k]
    BY <1>3, OwnRows
  <2>6. row = [OwnTokens[k] EXCEPT !.seen = TRUE]
    BY <2>5
  <2> HIDE DEF row
  <2>7. TokensForUser(Viewer)' = TokensForUser(Viewer)
    BY <1>3, <2>1, <2>3, <2>4, OwnTables DEF TokensForUser, Tokens
  <2>8. OwnTokens' = [OwnTokens EXCEPT ![k] = row]
    BY <1>3, <2>1, <2>7, OwnTables DEF OwnTokens
  <2>9. mine' = mine
    BY <1>2, <2>1, <2>7, SameOwners
  <2>10. k \in Alone!TokensForUser(Viewer)
    BY <1>3, OwnRows
  <2> QED
    BY <1>2, <2>6, <2>8, <2>9, <2>10 DEF Alone!MarkTokenSeen
<1>4. CASE k \notin TokensForUser(Viewer)
  <2>1. tokens' = tokens
    BY <1>4 DEF MarkTokenSeen
  <2>2. TokensForUser(Viewer)' = TokensForUser(Viewer) /\ OwnTokens' = OwnTokens
    BY <2>1 DEF TokensForUser, Tokens, OwnTokens
  <2>3. mine' = mine /\ k \notin Alone!TokensForUser(Viewer)
    BY <1>2, <1>4, <2>2, SameOwners, OwnRows
  <2> QED
    BY <1>2, <2>2, <2>3 DEF Alone!MarkTokenSeen
<1> QED
  BY <1>3, <1>4

\* So is its deletion.
LEMMA OwnDeleteToken ==
    ASSUME IsolationInv, Remembers, NEW k, DeleteToken(Viewer, k)
    PROVE  Alone!DeleteToken(Viewer, k)
<1>1. telestos' = telestos
  BY DEF DeleteToken
<1>2. TelestosForUser(Viewer)' = TelestosForUser(Viewer) /\ OwnTelestos' = OwnTelestos
  BY <1>1 DEF TelestosForUser, Telestos, OwnTelestos
<1>3. CASE k \in TokensForUser(Viewer)
  <2>1. tokens' = [tokens EXCEPT ![k] = None]
    BY <1>3 DEF DeleteToken
  <2>2. TokensForUser(Viewer)' = TokensForUser(Viewer) \ {k}
    BY <1>3, <2>1, OwnTables DEF TokensForUser, Tokens
  <2>3. OwnTokens' = [OwnTokens EXCEPT ![k] = None]
    BY <1>3, <2>1, <2>2, OwnTables DEF OwnTokens
  <2>4. mine' = mine /\ k \in Alone!TokensForUser(Viewer)
    BY <1>2, <1>3, <2>2, SameOwners, OwnRows
  <2> QED
    BY <1>2, <2>3, <2>4 DEF Alone!DeleteToken
<1>4. CASE k \notin TokensForUser(Viewer)
  <2>1. tokens' = tokens
    BY <1>4 DEF DeleteToken
  <2>2. TokensForUser(Viewer)' = TokensForUser(Viewer) /\ OwnTokens' = OwnTokens
    BY <2>1 DEF TokensForUser, Tokens, OwnTokens
  <2>3. mine' = mine /\ k \notin Alone!TokensForUser(Viewer)
    BY <1>2, <1>4, <2>2, SameOwners, OwnRows
  <2> QED
    BY <1>2, <2>2, <2>3 DEF Alone!DeleteToken
<1> QED
  BY <1>3, <1>4

-----------------------------------------------------------------------------
(* The writes and marks of Viewer.                                         *)

\* Each handler that writes does in his view what it does in the portal.
LEMMA OwnWrites ==
    ASSUME IsolationInv, IInv', Remembers, NEW r \in Req, req[r].ctx = Viewer,
           Write(r)
    PROVE  Alone!Write(r) /\ Apart(r)'
<1>1. Act(Viewer) /\ Return(r) /\ UNCHANGED reveal
  BY WriteActs DEF IsolationInv
<1>2. UserStep
  BY <1>1, ViewerIsUser DEF UserStep
<1>3. Alone!Return(r) /\ Apart(r)'
  BY <1>1, <1>2, OwnReturns, StaysApart DEF Return, IsolationInv, IInv, TypeOK
<1>4. UNCHANGED OwnReveal
  <2>1. \A k \in TokenId : reveal[k] # "never" => k \in issued.tokens
    BY DEF IsolationInv, MineInv
  <2>2. ASSUME NEW k \in TokenId PROVE OwnReveal'[k] = OwnReveal[k]
    BY <1>1, <1>2, <2>1, HistoryOK DEF OwnReveal
  <2>3. /\ OwnReveal = [k \in TokenId |-> OwnReveal[k]]
        /\ OwnReveal' = [k \in TokenId |-> OwnReveal'[k]]
    BY DEF OwnReveal
  <2> QED
    BY <2>2, <2>3
<1>5. /\ OwnReq[r].pc = req[r].pc /\ OwnReq[r].route = req[r].route
      /\ OwnReq[r].ctx = Viewer /\ req[r].ctx = Viewer
      /\ OwnReq[r].telesto = req[r].telesto /\ OwnReq[r].token = req[r].token
  <2> DEFINE late == req[r].late /\ req[r].token \in mine.tokens
  <2>1. req[r] \in Request /\ OwnReq[r] = [req[r] EXCEPT !.late = late]
    BY OwnRequest
  <2> HIDE DEF late
  <2> QED
    BY <2>1 DEF Request
<1>6. CASE NewTelestoSubmit(r)
  <2>1. PICK i \in TelestoId, n \in Name, url \in Url \cup {NoUrl} :
          CreateTelesto(i, Viewer, n, url)
    BY <1>5, <1>6 DEF NewTelestoSubmit
  <2>2. Alone!CreateTelesto(i, Viewer, n, url)
    BY <2>1, OwnCreateTelesto
  <2>3. Alone!At(r, "handle", {"NewTelestoSubmit"})
    BY <1>5, <1>6 DEF NewTelestoSubmit, At, Alone!At
  <2> QED
    BY <1>3, <1>4, <1>5, <2>2, <2>3 DEF Alone!NewTelestoSubmit, Alone!Write
<1>7. CASE EditTelestoSubmit(r)
  <2>1. PICK n \in Name, auth \in BOOLEAN :
          UpdateTelesto(Viewer, req[r].telesto, n, NoUrl, auth)
    BY <1>5, <1>7 DEF EditTelestoSubmit
  <2>2. Alone!UpdateTelesto(Viewer, req[r].telesto, n, NoUrl, auth)
    BY <2>1, OwnUpdateTelesto
  <2>3. Alone!At(r, "handle", {"EditTelestoSubmit"})
    BY <1>5, <1>7 DEF EditTelestoSubmit, At, Alone!At
  <2> QED
    BY <1>3, <1>4, <1>5, <2>2, <2>3 DEF Alone!EditTelestoSubmit, Alone!Write
<1>8. CASE DeleteTelestoSubmit(r)
  <2>1. Alone!DeleteTelesto(Viewer, req[r].telesto)
    BY <1>5, <1>8, OwnDeleteTelesto DEF DeleteTelestoSubmit
  <2>2. Alone!At(r, "handle", {"DeleteTelesto"})
    BY <1>5, <1>8 DEF DeleteTelestoSubmit, At, Alone!At
  <2> QED
    BY <1>3, <1>4, <1>5, <2>1, <2>2 DEF Alone!DeleteTelestoSubmit, Alone!Write
<1>9. CASE NewTokenSubmit(r)
  <2>1. PICK k \in TokenId, n \in Name : CreateToken(k, Viewer, req[r].telesto, n)
    BY <1>5, <1>9 DEF NewTokenSubmit
  <2>2. req[r].telesto \in mine.telestos
    <3>1. req[r].telesto \in req[r].telestoRows
      BY <1>9 DEF NewTokenSubmit, At, IsolationInv, IInv, RequestOK
    <3>2. req[r].telestoRows \subseteq mine.telestos
      BY DEF IsolationInv, MineInv, Apart
    <3> QED
      BY <3>1, <3>2
  <2>3. Alone!CreateToken(k, Viewer, req[r].telesto, n)
    BY <2>1, <2>2, OwnCreateToken
  <2>4. Alone!At(r, "insert", {"NewTokenSubmit"})
    BY <1>5, <1>9 DEF NewTokenSubmit, At, Alone!At
  <2> QED
    BY <1>3, <1>4, <1>5, <2>3, <2>4 DEF Alone!NewTokenSubmit, Alone!Write
<1>10. CASE EditTokenSubmit(r)
  <2>1. PICK n \in Name : UpdateToken(Viewer, req[r].token, n)
    BY <1>5, <1>10 DEF EditTokenSubmit
  <2>2. Alone!UpdateToken(Viewer, req[r].token, n)
    BY <2>1, OwnUpdateToken
  <2>3. Alone!At(r, "handle", {"EditTokenSubmit"})
    BY <1>5, <1>10 DEF EditTokenSubmit, At, Alone!At
  <2> QED
    BY <1>3, <1>4, <1>5, <2>2, <2>3 DEF Alone!EditTokenSubmit, Alone!Write
<1>11. CASE DeleteTokenSubmit(r)
  <2>1. Alone!DeleteToken(Viewer, req[r].token)
    BY <1>5, <1>11, OwnDeleteToken DEF DeleteTokenSubmit
  <2>2. Alone!At(r, "handle", {"DeleteToken"})
    BY <1>5, <1>11 DEF DeleteTokenSubmit, At, Alone!At
  <2> QED
    BY <1>3, <1>4, <1>5, <2>1, <2>2 DEF Alone!DeleteTokenSubmit, Alone!Write
<1> QED
  BY <1>3, <1>6, <1>7, <1>8, <1>9, <1>10, <1>11 DEF Write

\* So do the two statements that mark a token as seen.
LEMMA OwnMarks ==
    ASSUME IsolationInv, IInv', Remembers, NEW r \in Req, req[r].ctx = Viewer,
           Mark(r)
    PROVE  Alone!Mark(r) /\ Apart(r)'
<1>1. /\ OwnReq \in [Req -> Request] /\ req \in [Req -> Request]
      /\ req[r] \in Request /\ OwnReq[r] \in Request
      /\ OwnReq[r].pc = req[r].pc /\ OwnReq[r].route = req[r].route
      /\ OwnReq[r].ctx = Viewer /\ req[r].ctx = Viewer
      /\ OwnReq[r].telesto = req[r].telesto /\ OwnReq[r].token = req[r].token
      /\ OwnReq[r].telestoRows = req[r].telestoRows /\ OwnReq[r].tokenRows = req[r].tokenRows
      /\ OwnReq[r].secret = req[r].secret
  <2> DEFINE late == req[r].late /\ req[r].token \in mine.tokens
  <2>1. /\ OwnReq \in [Req -> Request] /\ req \in [Req -> Request] /\ req[r] \in Request
        /\ OwnReq[r] = [req[r] EXCEPT !.late = late]
    BY OwnRequest DEF IsolationInv, IInv, TypeOK
  <2> HIDE DEF late
  <2> QED
    BY <2>1 DEF Request
<1>2. Apart(r) /\ RequestOK(r)
  BY DEF IsolationInv, MineInv, IInv
<1>3. CASE MarkSeenGet(r)
  <2>1. /\ req' = [req EXCEPT ![r].pc = "update"] /\ UNCHANGED dbVars /\ UNCHANGED reveal
        /\ req[r].token \in TokensForUser(Viewer)
    BY <1>1, <1>3 DEF MarkSeenGet
  <2>2. mine' = mine /\ UNCHANGED <<OwnTelestos, OwnTokens>>
    BY <2>1, QuietStep
  <2>3. UNCHANGED OwnReveal /\ UNCHANGED Alone!dbVars
    BY <2>1, <2>2 DEF OwnReveal, Alone!dbVars
  <2>4. OwnReqProceeds(r, "update", req[r].telesto, req[r].telestoRows, req[r].tokenRows,
                       req[r].secret)
    <3>1. ReqProceeds(r, "update", req[r].telesto, req[r].telestoRows, req[r].tokenRows,
                      req[r].secret)
      BY <1>1, <2>1 DEF Request, ReqProceeds, Proceeds
    <3>2. /\ req[r].telesto \in TelestoId \cup {None} /\ req[r].secret \in BOOLEAN
          /\ req[r].telestoRows \in SUBSET TelestoId /\ req[r].tokenRows \in SUBSET TokenId
          /\ "update" \in Pc
      BY <1>1 DEF Request, Pc
    <3> QED
      BY <2>1, <3>1, <3>2, OwnRequestReads
  <2>5. OwnReq' = [OwnReq EXCEPT ![r].pc = "update"]
    <3>1. OwnReq' = Proceeds(OwnReq, r, "update", OwnReq[r].telesto, OwnReq[r].telestoRows,
                             OwnReq[r].tokenRows, OwnReq[r].secret)
      BY <1>1, <2>4 DEF OwnReqProceeds
    <3>2. OwnReq \in [Req -> Request]
      BY <1>1
    <3> QED
      BY <3>1, <3>2 DEF Request, Proceeds
  <2>6. Apart(r)'
    BY <1>1, <1>2, <2>1, <2>2 DEF Apart, Request
  <2>7. req[r].token \in Alone!TokensForUser(Viewer)
    BY <2>1, OwnRows
  <2> QED
    BY <1>1, <1>3, <2>3, <2>5, <2>6, <2>7
       DEF MarkSeenGet, At, Alone!MarkSeenGet, Alone!At, Alone!Mark
<1>4. CASE MarkSeenUpdate(r)
  <2>1. Act(Viewer) /\ Return(r) /\ MarkTokenSeen(Viewer, req[r].token)
    BY <1>1, <1>4, MarkSeenUpdateActs DEF IsolationInv, MarkSeenUpdate
  <2>2. UserStep
    BY <2>1, ViewerIsUser DEF UserStep
  <2>3. Alone!Return(r) /\ Apart(r)'
    BY <1>1, <2>1, <2>2, OwnReturns, StaysApart DEF Return
  <2>4. Alone!MarkTokenSeen(Viewer, req[r].token)
    BY <2>1, OwnMarkTokenSeen
  <2>5. mine' = mine
    BY <2>4 DEF Alone!MarkTokenSeen
  <2>6. Alone!Settles(r) \/ UNCHANGED OwnReveal
    <3>1. CASE UNCHANGED reveal
      BY <2>5, <3>1 DEF OwnReveal
    <3>2. CASE Settles(r) /\ req[r].secret /\ reveal[req[r].token] # "never"
      <4>1. req[r].token \in mine.tokens /\ mine.tokens \subseteq TokenId
        BY <1>1, <1>2, <3>2 DEF RequestOK, Apart, IsolationInv
      <4>2. reveal \in [TokenId -> {"never", "shown", "settled"}]
        BY DEF IsolationInv, IInv, TypeOK
      <4>3. reveal' = [reveal EXCEPT ![req[r].token] = "settled"]
        BY <3>2 DEF Settles
      <4>4. OwnReveal[req[r].token] # "never"
        BY <3>2, <4>1 DEF OwnReveal
      <4>5. OwnReveal' = [OwnReveal EXCEPT ![req[r].token] = "settled"]
        BY <2>5, <4>1, <4>2, <4>3 DEF OwnReveal
      <4> QED
        BY <1>1, <3>2, <4>4, <4>5 DEF Alone!Settles
    <3> QED
      BY <1>4, <3>1, <3>2 DEF MarkSeenUpdate, Settles
  <2>7. Alone!At(r, "update", {"GetToken"})
    BY <1>1, <1>4 DEF MarkSeenUpdate, At, Alone!At
  <2> QED
    BY <1>1, <2>3, <2>4, <2>6, <2>7 DEF Alone!MarkSeenUpdate, Alone!Mark
<1> QED
  BY <1>3, <1>4 DEF Mark

-----------------------------------------------------------------------------
(* The steps of others.                                                    *)

\* Acts of others leave no trace in his rows.
LEMMA OthersTables ==
    ASSUME IsolationInv, Remembers, NEW u \in Owner \ {Viewer}, Act(u)
    PROVE  mine' = mine /\ UNCHANGED <<OwnTelestos, OwnTokens>>
<1>1. DbTypeOK /\ Viewer \in Owner \ {u}
  BY ViewerIsUser DEF IsolationInv, IInv, TypeOK
<1>2. /\ TelestosForUser(Viewer)' = TelestosForUser(Viewer)
      /\ TokensForUser(Viewer)' = TokensForUser(Viewer)
      /\ \A i \in TelestosForUser(Viewer) : telestos'[i] = telestos[i]
      /\ \A k \in TokensForUser(Viewer) : tokens'[k] = tokens[k]
  BY <1>1, ActSparesOthers
<1>3. mine' = mine
  BY <1>2, SameOwners
<1> QED
  BY <1>2, <1>3 DEF OwnTelestos, OwnTokens

\* Whoever reads, reads rows that exist, and touches at most the history of the
\* secret it shows.
LEMMA ReadTouches ==
    ASSUME IInv, NEW r \in Req, Read(r) \/ Mark(r)
    PROVE  /\ \A s \in Req \ {r} : req'[s] = req[s]
           /\ req'[r] # Idle => /\ req'[r].ctx = req[r].ctx
                                /\ req'[r].tokenRows \subseteq req[r].tokenRows \cup Tokens
           /\ \/ reveal' = reveal
              \/ req[r].secret /\ \E what : reveal' = [reveal EXCEPT ![req[r].token] = what]
<1>1. req \in [Req -> Request] /\ req[r] \in Request
  BY DEF IInv, TypeOK
<1>2. CASE Mark(r)
  BY <1>1, <1>2 DEF Mark, MarkSeenGet, MarkSeenUpdate, Settles, Return, Request
<1>3. CASE Render(r)
  BY <1>1, <1>3 DEF Render, Return, Request
<1>4. CASE FindTelestos(r) \/ FindTelesto(r) \/ SelectTelesto(r) \/ PreloadTelesto(r)
  <2>1. /\ \A s \in Req \ {r} : req'[s] = req[s]
        /\ req'[r].ctx = req[r].ctx /\ req'[r].tokenRows = req[r].tokenRows
    <3>1. CASE FindTelestos(r)
      BY <1>1, <3>1 DEF FindTelestos, Request
    <3>2. CASE FindTelesto(r)
      BY <1>1, <3>2 DEF FindTelesto, Request
    <3>3. CASE SelectTelesto(r)
      BY <1>1, <3>3 DEF SelectTelesto, Request
    <3>4. CASE PreloadTelesto(r)
      BY <1>1, <3>4 DEF PreloadTelesto, Request
    <3> QED
      BY <1>4, <3>1, <3>2, <3>3, <3>4
  <2>2. UNCHANGED reveal
    BY <1>4 DEF FindTelestos, FindTelesto, SelectTelesto, PreloadTelesto
  <2> QED
    BY <2>1, <2>2
<1>5. CASE PreloadTokens(r)
  <2>1. TokensOfTelestos(req[r].telestoRows) \subseteq Tokens
    BY DEF TokensOfTelestos
  <2> QED
    BY <1>1, <1>5, <2>1 DEF PreloadTokens, Request
<1>6. CASE GetTokens(r)
  <2>1. TokensForUser(req[r].ctx) \subseteq Tokens
    BY DEF TokensForUser
  <2> QED
    BY <1>1, <1>6, <2>1 DEF GetTokens, Request
<1>7. CASE GetToken(r) \/ EditToken(r)
  BY <1>1, <1>7 DEF GetToken, EditToken, FindToken, TokensForUser, Request
<1> QED
  BY <1>2, <1>3, <1>4, <1>5, <1>6, <1>7
     DEF Read, GetTelestos, NewToken, GetTelesto, EditTelesto

\* A step of one request leaves the others alone, keeps its user, and settles no secret
\* but one it holds.
LEMMA ServeTouches ==
    ASSUME IInv, NEW r \in Req, Serve(r)
    PROVE  /\ \A s \in Req \ {r} : req'[s] = req[s]
           /\ req'[r] # Idle => /\ req'[r].ctx = req[r].ctx
                                /\ req'[r].tokenRows \subseteq req[r].tokenRows \cup Tokens
           /\ \/ reveal' = reveal
              \/ req[r].secret /\ \E what : reveal' = [reveal EXCEPT ![req[r].token] = what]
<1>1. req \in [Req -> Request] /\ req[r] \in Request
  BY DEF IInv, TypeOK
<1>2. CASE Protected(r)
  <2>1. CASE Return(r)
    BY <1>1, <1>2, <2>1 DEF Protected, Return
  <2>2. CASE ~Return(r)
    <3>1. PICK route \in Routes, i \in TelestoId \cup {None}, k \in TokenId \cup {None} :
            req' = [req EXCEPT ![r].pc = "handle", ![r].route = route, ![r].telesto = i,
                               ![r].token = k, ![r].late = k # None /\ Withdrawn(k)]
      BY <1>2, <2>2 DEF Protected
    <3> QED
      BY <1>1, <1>2, <3>1 DEF Protected, Request
  <2> QED
    BY <2>1, <2>2
<1>3. CASE Write(r)
  BY <1>1, <1>3, WriteActs DEF Return
<1>4. CASE StatementFails(r)
  BY <1>1, <1>4 DEF StatementFails, Fails, Return
<1> QED
  BY <1>2, <1>3, <1>4, ReadTouches DEF Serve

\* A step of a request that is not Viewer's, neither before nor after, is none of
\* the portal that Viewer sees.
LEMMA OthersStutter ==
    ASSUME IsolationInv, IInv', Remembers, NEW r \in Req, req[r].ctx # Viewer,
           Serve(r)
    PROVE  UNCHANGED Alone!vars /\ Apart(r)'
<1>1. /\ IInv /\ req \in [Req -> Request] /\ req[r] \in Request /\ RequestOK(r) /\ Apart(r)
      /\ req[r].ctx \in Owner \ {Viewer}
      /\ reveal \in [TokenId -> {"never", "shown", "settled"}]
  BY DEF IsolationInv, IInv, TypeOK, MineInv, Request
<1>2. UNCHANGED dbVars \/ Act(req[r].ctx)
  BY <1>1, MiddlewareKeepsIInv, ReadKeepsRows, WriteActs, MarkSeenUpdateActs
     DEF Serve, StatementFails, Fails, Mark, MarkSeenGet
<1>3. UserStep \/ UNCHANGED dbVars
  BY <1>1, <1>2 DEF UserStep
<1>4. mine' = mine /\ UNCHANGED <<OwnTelestos, OwnTokens>>
  BY <1>1, <1>2, QuietStep, OthersTables
<1>5. /\ \A s \in Req \ {r} : req'[s] = req[s]
      /\ req'[r] # Idle => /\ req'[r].ctx = req[r].ctx
                           /\ req'[r].tokenRows \subseteq req[r].tokenRows \cup Tokens
      /\ \/ reveal' = reveal
         \/ req[r].secret /\ \E what : reveal' = [reveal EXCEPT ![req[r].token] = what]
  BY <1>1, ServeTouches DEF Serve
<1>6. req'[r].ctx # Viewer
  BY <1>5, ViewerIsUser DEF Idle
<1>7. UNCHANGED OwnReq
  BY <1>3, <1>5, <1>6, OthersRequestsHidden
<1>8. UNCHANGED OwnReveal
  <2>1. req[r].secret => req[r].token \notin mine.tokens
    BY <1>1 DEF RequestOK, Apart
  <2> QED
    BY <1>1, <1>4, <1>5, <2>1 DEF OwnReveal
<1>9. Apart(r)'
  <2>1. CASE req'[r] = Idle
    BY <1>3, <2>1, StaysApart
  <2>2. CASE req'[r] # Idle
    <3>1. RequestOK(r)'
      BY DEF IInv
    <3>2. \A k \in req'[r].tokenRows \cap Tokens' : tokens'[k].user = req'[r].ctx
      BY <3>1 DEF RequestOK
    <3>3. \A k \in mine.tokens \cap Tokens' : tokens'[k].user = Viewer
      BY <1>3, <1>4, HistoryOK DEF TokensForUser
    <3>4. UNCHANGED dbVars
      BY <1>1, <2>2, MiddlewareKeepsIInv, ReadKeepsRows, WriteActs
         DEF Serve, StatementFails, Fails, Mark, MarkSeenGet, MarkSeenUpdate, Return
    <3>5. Tokens' = Tokens
      BY <3>4 DEF dbVars, Tokens
    <3> QED
      BY <1>1, <1>4, <1>5, <1>6, <2>2, <3>2, <3>3, <3>5 DEF Apart
  <2> QED
    BY <2>1, <2>2
<1> QED
  BY <1>4, <1>7, <1>8, <1>9 DEF Alone!vars

-----------------------------------------------------------------------------
(* Every step.                                                             *)

\* Any step of a request of his is that step of the portal with him alone.
LEMMA OwnServes ==
    ASSUME IsolationInv, IInv', Remembers, NEW r \in Req, req[r].ctx = Viewer, Serve(r)
    PROVE  Alone!Serve(r) /\ Apart(r)'
<1>1. CASE StatementFails(r)
  <2>1. Return(r) /\ UNCHANGED dbVars /\ UNCHANGED reveal
    BY <1>1 DEF StatementFails, Fails
  <2>2. mine' = mine /\ UNCHANGED <<OwnTelestos, OwnTokens>>
    BY <2>1, QuietStep
  <2>3. Alone!Return(r)
    BY <2>1, OwnReturns
  <2>4. Apart(r)'
    BY <2>1, StaysApart DEF Return, IsolationInv, IInv, TypeOK
  <2>5. OwnReq[r].pc = req[r].pc
    <3> DEFINE late == req[r].late /\ req[r].token \in mine.tokens
    <3>1. req[r] \in Request /\ OwnReq[r] = [req[r] EXCEPT !.late = late]
      BY OwnRequest
    <3> HIDE DEF late
    <3> QED
      BY <3>1 DEF Request
  <2> QED
    BY <1>1, <2>1, <2>2, <2>3, <2>4, <2>5
       DEF StatementFails, Alone!StatementFails, Alone!Fails, Alone!dbVars, Alone!Serve, OwnReveal
<1> QED
  BY <1>1, OwnProtected, OwnReads, OwnMarks, OwnWrites DEF Serve, Alone!Serve

\* A crash loses his requests there, too, or he had none.
LEMMA OwnCrash ==
    ASSUME IsolationInv, IInv', Remembers, Crash
    PROVE  (Alone!Crash \/ UNCHANGED Alone!vars) /\ \A s \in Req : Apart(s)'
<1>1. /\ UNCHANGED dbVars /\ UNCHANGED reveal /\ req' = [r \in Req |-> Idle]
  BY DEF Crash
<1>2. mine' = mine /\ UNCHANGED <<OwnTelestos, OwnTokens>>
  BY <1>1, QuietStep
<1>3. OwnReq' = [r \in Req |-> Idle]
  BY <1>1, ViewerIsUser DEF OwnReq, Idle
<1>4. UNCHANGED OwnReveal /\ UNCHANGED Alone!dbVars
  BY <1>1, <1>2 DEF OwnReveal, Alone!dbVars
<1>5. \A s \in Req : Apart(s)'
  BY <1>1, StaysApart
<1>6. CASE \E r \in Req : OwnReq[r] # Idle
  BY <1>3, <1>4, <1>5, <1>6 DEF Alone!Crash, Alone!Idle, Idle
<1>7. CASE \A r \in Req : OwnReq[r] = Idle
  <2>1. OwnReq = [r \in Req |-> OwnReq[r]]
    BY DEF OwnReq
  <2>2. UNCHANGED OwnReq
    BY <1>3, <1>7, <2>1
  <2> QED
    BY <1>2, <1>4, <1>5, <2>2 DEF Alone!vars
<1> QED
  BY <1>6, <1>7

\* At first there is nobody.
LEMMA InitIsolated == IsolationInit => IsolationInv /\ Alone!Init
<1> SUFFICES ASSUME IsolationInit PROVE IsolationInv /\ Alone!Init
  OBVIOUS
<1>1. Init /\ mine = [telestos |-> {}, tokens |-> {}]
  BY DEF IsolationInit
<1>2. IInv
  BY <1>1, InitIInv
<1>3. Telestos = {} /\ Tokens = {}
  BY <1>1 DEF Init, DbInit, Telestos, Tokens
<1>4. MineInv
  BY <1>1, <1>3, ViewerIsUser
     DEF MineInv, Apart, Init, DbInit, TelestosForUser, TokensForUser, Idle
<1>5. Alone!Init
  <2>1. TelestosForUser(Viewer) = {} /\ TokensForUser(Viewer) = {}
    BY <1>3 DEF TelestosForUser, TokensForUser
  <2>2. OwnTelestos = [i \in TelestoId |-> None] /\ OwnTokens = [k \in TokenId |-> None]
    BY <2>1 DEF OwnTelestos, OwnTokens
  <2>3. OwnReq = [r \in Req |-> Idle] /\ OwnReveal = [k \in TokenId |-> "never"]
    BY <1>1, ViewerIsUser DEF Init, OwnReq, OwnReveal, Idle
  <2> QED
    BY <1>1, <2>2, <2>3 DEF Alone!Init, Alone!DbInit, Alone!Idle, Idle
<1> QED
  BY <1>1, <1>2, <1>4, <1>5 DEF IsolationInv

\* Steps of the viewer are steps of his view, those of others are none.
LEMMA StepIsolated ==
    ASSUME IsolationInv, [IsolationNext]_isolationVars
    PROVE  IsolationInv' /\ [Alone!Next]_(Alone!vars)
<1>1. CASE UNCHANGED isolationVars
  <2>1. /\ UNCHANGED <<telestos, tokens, issued, req, reveal, mine>>
        /\ UNCHANGED vars
    BY <1>1 DEF isolationVars, vars
  <2>2. IInv'
    BY <2>1, StepKeepsIInv DEF IsolationInv
  <2>3. MineInv' /\ UNCHANGED Alone!vars
    BY <2>1 DEF IsolationInv, MineInv, Apart, TelestosForUser, TokensForUser, Telestos, Tokens,
                Alone!vars, OwnTelestos, OwnTokens, OwnReq, OwnReveal
  <2> QED
    BY <2>1, <2>2, <2>3 DEF IsolationInv
<1>2. CASE IsolationNext
  <2>1. Next /\ Remembers
    BY <1>2 DEF IsolationNext, Remembers
  <2>2. IInv' /\ (UserStep \/ UNCHANGED dbVars) /\ IInv
    BY <2>1, StepKeepsIInv DEF IsolationInv
  <2>3. ASSUME \A s \in Req : Apart(s)',
               \A k \in TokenId : reveal'[k] # "never" =>
                                    reveal[k] # "never" \/ k \in issued.tokens
        PROVE  IsolationInv'
    <3>1. \A k \in TokenId : reveal'[k] # "never" => k \in issued'.tokens
      BY <2>1, <2>2, <2>3, HistoryOK DEF IsolationInv, MineInv
    <3> QED
      BY <2>1, <2>2, <2>3, <3>1, HistoryOK DEF IsolationInv, MineInv
  <2>4. CASE Crash
    <3>1. UNCHANGED reveal
      BY <2>4 DEF Crash
    <3> QED
      BY <2>1, <2>2, <2>3, <2>4, <3>1, OwnCrash DEF Alone!Next
  <2>5. ASSUME NEW r \in Req, NEW u \in User, LoadSession(r, u)
        PROVE  IsolationInv' /\ [Alone!Next]_(Alone!vars)
    <3>1. PICK ctx \in {u, NoUser} : req' = [req EXCEPT ![r].pc = "protect", ![r].ctx = ctx]
      BY <2>5 DEF LoadSession
    <3>2. /\ UNCHANGED dbVars /\ UNCHANGED reveal /\ req[r] = Idle
          /\ req \in [Req -> Request] /\ req[r] \in Request
      BY <2>2, <2>5 DEF LoadSession, IInv, RequestOK, TypeOK
    <3>3. /\ \A s \in Req \ {r} : req'[s] = req[s]
          /\ req'[r].ctx = ctx /\ req'[r].tokenRows = {}
      BY <3>1, <3>2 DEF Idle
    <3>4. \A s \in Req \ {r} : Apart(s)'
      BY <2>1, <2>2, <3>3, StaysApart
    <3>5. CASE ctx = Viewer
      <4>1. u = Viewer
        BY <3>5, ViewerIsUser
      <4>2. Alone!LoadSession(r, Viewer) /\ Apart(r)'
        BY <2>1, <2>2, <2>5, <3>3, <3>5, <4>1, OwnStarts
      <4> QED
        BY <2>3, <3>2, <3>4, <4>2 DEF Alone!Next
    <3>6. CASE ctx # Viewer
      <4>1. OwnReq' = OwnReq
        BY <2>1, <2>2, <3>2, <3>3, <3>6, OthersRequestsHidden, ViewerIsUser DEF Idle
      <4>2. mine' = mine /\ UNCHANGED <<OwnTelestos, OwnTokens>>
        BY <2>1, <3>2, QuietStep
      <4>3. UNCHANGED OwnReveal
        BY <3>2, <4>2 DEF OwnReveal
      <4>4. Apart(r)'
        BY <3>3, <3>6 DEF Apart
      <4> QED
        BY <2>3, <3>2, <3>4, <4>1, <4>2, <4>3, <4>4 DEF Alone!vars
    <3> QED
      BY <3>5, <3>6
  <2>6. ASSUME NEW r \in Req, Serve(r)
        PROVE  IsolationInv' /\ [Alone!Next]_(Alone!vars)
    <3>1. /\ \A s \in Req \ {r} : req'[s] = req[s]
          /\ \/ reveal' = reveal
             \/ req[r].secret /\ \E what : reveal' = [reveal EXCEPT ![req[r].token] = what]
      BY <2>2, <2>6, ServeTouches
    <3>2. \A s \in Req \ {r} : Apart(s)'
      BY <2>1, <2>2, <3>1, StaysApart
    <3>3. \A k \in TokenId : reveal'[k] # "never" => reveal[k] # "never" \/ k \in issued.tokens
      <4>1. req[r].secret => req[r].token \in issued.tokens
        BY <2>2 DEF IInv, RequestOK
      <4> QED
        BY <2>2, <3>1, <4>1 DEF IInv, TypeOK
    <3>4. CASE req[r].ctx = Viewer
      <4>1. Alone!Serve(r) /\ Apart(r)'
        BY <2>1, <2>2, <2>6, <3>4, OwnServes
      <4> QED
        BY <2>3, <3>2, <3>3, <4>1 DEF Alone!Next
    <3>5. CASE req[r].ctx # Viewer
      <4>1. UNCHANGED Alone!vars /\ Apart(r)'
        BY <2>1, <2>2, <2>6, <3>5, OthersStutter
      <4> QED
        BY <2>3, <3>2, <3>3, <4>1
    <3> QED
      BY <3>4, <3>5
  <2> QED
    BY <2>1, <2>4, <2>5, <2>6 DEF Next
<1> QED
  BY <1>1, <1>2

-----------------------------------------------------------------------------
(* The theorems.                                                           *)

\* The history is right, and requests of different users share no id.
THEOREM IsolationInvariant == IsolationSpec => []IsolationInv
<1>1. IsolationInit => IsolationInv
  BY InitIsolated
<1>2. IsolationInv /\ [IsolationNext]_isolationVars => IsolationInv'
  BY StepIsolated
<1> QED
  BY <1>1, <1>2, PTL DEF IsolationSpec

\* Whatever the others do, a user's rows, requests and pages are those of the
\* portal that has no other user.
THEOREM UsersAreIsolated == IsolationSpec => AsIfAlone
<1>1. IsolationInit => Alone!Init
  BY InitIsolated
<1>2. IsolationInv /\ [IsolationNext]_isolationVars => [Alone!Next]_(Alone!vars)
  BY StepIsolated
<1> QED
  BY IsolationInvariant, <1>1, <1>2, PTL DEF IsolationSpec, AsIfAlone, Alone!Spec
=============================================================================
