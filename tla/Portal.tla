------------------------------- MODULE Portal -------------------------------
(***************************************************************************)
(* The public server (internal/server/public): the portal in which users   *)
(* manage their telestos and tokens.                                       *)
(*                                                                         *)
(* net/http runs every request in a goroutine of its own.  A request       *)
(* passes LoadSession and Protected, which ask Kratos independently of     *)
(* each other, then a handler that runs one to four SQL statements, none   *)
(* of them in a common transaction.  An action below is one such call or   *)
(* statement: between two of them any other request may run, and the       *)
(* process may die.  A call or a statement may fail at any time (Kratos or *)
(* Postgres unavailable, the request's context cancelled); a write whose   *)
(* acknowledgement is lost is a write whose error branch comes too late    *)
(* and is covered by the successful one.                                   *)
(*                                                                         *)
(* A form body is read only by the handler, so it is chosen there.         *)
(***************************************************************************)
EXTENDS Registry

CONSTANTS
    Req,        \* request slots: a finished slot serves a new request
    Routes      \* the routes requests are made to

\* public.go:120-138.  Pages that touch no row (/console, /telestos/new, the
\* static files) are left out.
TelestoRoutes == {"GetTelesto", "EditTelesto", "EditTelestoSubmit", "DeleteTelesto"}
TokenRoutes   == {"GetToken", "EditToken", "EditTokenSubmit", "DeleteToken"}
OtherRoutes   == {"GetTelestos", "NewTelestoSubmit", "GetTokens", "NewToken",
                  "NewTokenSubmit"}
AllRoutes     == TelestoRoutes \cup TokenRoutes \cup OtherRoutes

ASSUME PortalAssumption == Routes \subseteq AllRoutes

VARIABLES
    req,        \* req[r] : the request in slot r
    reveal      \* history: what happened to the secret of each token

vars == <<telestos, tokens, issued, req, reveal>>

Pc == {"idle", "protect", "handle", "preload", "insert", "render", "mark", "update"}

\* ctx is GetUserID of the request's context; telesto and token are the ids it
\* is about; telestoRows and tokenRows the ids of the rows it has read; secret
\* says that the page it builds shows the secret of token.  late is history:
\* the request began after that secret had been withdrawn.
Request == [pc: Pc, route: AllRoutes \cup {"none"}, ctx: Owner,
            telesto: TelestoId \cup {None}, token: TokenId \cup {None},
            telestoRows: SUBSET TelestoId, tokenRows: SUBSET TokenId,
            secret: BOOLEAN, late: BOOLEAN]

Idle == [pc |-> "idle", route |-> "none", ctx |-> NoUser,
         telesto |-> None, token |-> None, telestoRows |-> {}, tokenRows |-> {},
         secret |-> FALSE, late |-> FALSE]

TypeOK ==
    /\ DbTypeOK
    /\ req \in [Req -> Request]
    /\ reveal \in [TokenId -> {"never", "shown", "settled"}]

Init ==
    /\ DbInit
    /\ req = [r \in Req |-> Idle]
    /\ reveal = [k \in TokenId |-> "never"]

At(r, pc, routes) == req[r].pc = pc /\ req[r].route \in routes

\* The handler returns: with a page, a redirect, or silently on an error.
Return(r) == req' = [req EXCEPT ![r] = Idle]

\* A statement or a call of Kratos reports an error and changed nothing.
Fails(r) == Return(r) /\ UNCHANGED <<dbVars, reveal>>

-----------------------------------------------------------------------------
(* Middlewares.                                                            *)

\* A request arrives with the cookie of user u.  The error of validateSession
\* is dropped: without an answer the context carries no session, and GetUserID
\* will return "".
LoadSession(r, u) ==
    /\ req[r].pc = "idle"
    /\ \E ctx \in {u, NoUser} :
          req' = [req EXCEPT ![r].pc = "protect", ![r].ctx = ctx]
    /\ UNCHANGED <<dbVars, reveal>>

\* The secret of k is withdrawn once the token is marked as seen, or once a
\* page that showed it was followed by an acknowledged MarkSeen.
Withdrawn(k) == \/ k \in Tokens /\ tokens[k].seen
                \/ reveal[k] = "settled"

\* Protected asks Kratos again, and on a refusal or an error redirects to the
\* login page; otherwise the request is routed to its handler.
Protected(r) ==
    /\ req[r].pc = "protect"
    /\ \/ Return(r)
       \/ \E route \in Routes,
             i \in TelestoId \cup {None}, k \in TokenId \cup {None} :
            /\ route \in TelestoRoutes <=> i # None
            /\ route \in TokenRoutes <=> k # None
            /\ req' = [req EXCEPT ![r].pc = "handle", ![r].route = route,
                                  ![r].telesto = i, ![r].token = k,
                                  ![r].late = k # None /\ Withdrawn(k)]
    /\ UNCHANGED <<dbVars, reveal>>

-----------------------------------------------------------------------------
(* Reads.  Find and First run their SELECT, then the Preload's.            *)

FindTelestos(r) ==
    /\ req' = [req EXCEPT ![r].pc = "preload",
                          ![r].telestoRows = TelestosForUser(req[r].ctx)]
    /\ UNCHANGED <<dbVars, reveal>>

\* The user's telestos, for the list or for the options of the token form.
GetTelestos(r) == At(r, "handle", {"GetTelestos"}) /\ FindTelestos(r)
NewToken(r)    == At(r, "handle", {"NewToken"}) /\ FindTelestos(r)

FindTelesto(r) ==
    /\ req[r].telesto \in TelestosForUser(req[r].ctx)
    /\ req' = [req EXCEPT ![r].pc = "preload", ![r].telestoRows = {req[r].telesto}]
    /\ UNCHANGED <<dbVars, reveal>>

\* One telesto, for its page or for the edit form.
GetTelesto(r)  == At(r, "handle", {"GetTelesto"}) /\ FindTelesto(r)
EditTelesto(r) == At(r, "handle", {"EditTelesto"}) /\ FindTelesto(r)

\* Faulty: without ByUser.
SelectTelestoUnscoped(r) ==
    /\ At(r, "handle", {"NewTokenSubmit"})
    /\ \E i \in Telestos :
          req' = [req EXCEPT ![r].pc = "preload", ![r].telesto = i,
                             ![r].telestoRows = {i}]
    /\ UNCHANGED <<dbVars, reveal>>

\* Faulty: the error of a telesto that is not found is not looked at.
SelectTelestoUnchecked(r) ==
    /\ At(r, "handle", {"NewTokenSubmit"})
    /\ \E i \in TelestosForUser(req[r].ctx) \cup {None} :
          req' = [req EXCEPT ![r].pc = "preload", ![r].telesto = i,
                             ![r].telestoRows = {i}]
    /\ UNCHANGED <<dbVars, reveal>>

\* NewTokenSubmit first looks up the telesto selected in the form.
SelectTelesto(r) ==
    /\ At(r, "handle", {"NewTokenSubmit"})
    /\ \E i \in TelestosForUser(req[r].ctx) :
          req' = [req EXCEPT ![r].pc = "preload", ![r].telesto = i,
                             ![r].telestoRows = {i}]
    /\ UNCHANGED <<dbVars, reveal>>

PreloadTokens(r) ==
    /\ At(r, "preload", {"GetTelestos", "NewToken", "GetTelesto", "EditTelesto",
                         "NewTokenSubmit"})
    /\ req' = [req EXCEPT
                 ![r].pc = IF req[r].route = "NewTokenSubmit" THEN "insert" ELSE "render",
                 ![r].tokenRows = TokensOfTelestos(req[r].telestoRows)]
    /\ UNCHANGED <<dbVars, reveal>>

\* The list of tokens; telestoRows holds the foreign keys read.
GetTokens(r) ==
    /\ At(r, "handle", {"GetTokens"})
    /\ LET ks == TokensForUser(req[r].ctx) IN
         req' = [req EXCEPT ![r].pc = "preload", ![r].tokenRows = ks,
                            ![r].telestoRows = {tokens[k].telesto : k \in ks}]
    /\ UNCHANGED <<dbVars, reveal>>

\* shown: the page of the token shows its secret, unless it has been seen.
FindToken(r, shown) ==
    LET k == req[r].token IN
    /\ k \in TokensForUser(req[r].ctx)
    /\ req' = [req EXCEPT ![r].pc = "preload", ![r].tokenRows = {k},
                          ![r].telestoRows = {tokens[k].telesto},
                          ![r].secret = shown /\ ~tokens[k].seen]
    /\ UNCHANGED <<dbVars, reveal>>

\* Faulty: without ByUser.
GetTokenUnscoped(r) ==
    /\ At(r, "handle", {"GetToken"})
    /\ LET k == req[r].token IN
         /\ k \in Tokens
         /\ req' = [req EXCEPT ![r].pc = "preload", ![r].tokenRows = {k},
                               ![r].telestoRows = {tokens[k].telesto},
                               ![r].secret = ~tokens[k].seen]
    /\ UNCHANGED <<dbVars, reveal>>

GetToken(r)  == At(r, "handle", {"GetToken"}) /\ FindToken(r, TRUE)
EditToken(r) == At(r, "handle", {"EditToken"}) /\ FindToken(r, FALSE)

\* Preload(Token.Telesto), again without the scope of the first SELECT.
PreloadTelesto(r) ==
    /\ At(r, "preload", {"GetTokens", "GetToken", "EditToken"})
    /\ req' = [req EXCEPT ![r].pc = "render", ![r].telestoRows = @ \cap Telestos]
    /\ UNCHANGED <<dbVars, reveal>>

\* The page is written, to a buffer and a connection that may not deliver it;
\* the error is not looked at.  GetToken goes on to mark the token as seen.
Render(r) ==
    /\ req[r].pc = "render"
    /\ IF req[r].route = "GetToken"
         THEN req' = [req EXCEPT ![r].pc = "mark"]
         ELSE Return(r)
    /\ \E delivered \in BOOLEAN :
          reveal' = IF delivered /\ req[r].secret /\ reveal[req[r].token] = "never"
                      THEN [reveal EXCEPT ![req[r].token] = "shown"] ELSE reveal
    /\ UNCHANGED dbVars

-----------------------------------------------------------------------------
(* TokenService.MarkSeen: a read, then an update.                          *)

MarkSeenGet(r) ==
    /\ At(r, "mark", {"GetToken"})
    /\ req[r].token \in TokensForUser(req[r].ctx)
    /\ req' = [req EXCEPT ![r].pc = "update"]
    /\ UNCHANGED <<dbVars, reveal>>

\* The page of r has shown the secret and the mark is acknowledged.
Settles(r) ==
    reveal' = IF req[r].secret /\ reveal[req[r].token] # "never"
                THEN [reveal EXCEPT ![req[r].token] = "settled"] ELSE reveal

\* Faulty: token.Seen is set on the struct that was read, and not stored.
MarkSeenUpdateUnsaved(r) ==
    /\ At(r, "update", {"GetToken"})
    /\ Settles(r)
    /\ Return(r)
    /\ UNCHANGED dbVars

MarkSeenUpdate(r) ==
    /\ At(r, "update", {"GetToken"})
    /\ MarkTokenSeen(req[r].ctx, req[r].token)
    /\ Settles(r) \/ UNCHANGED reveal
    /\ Return(r)

-----------------------------------------------------------------------------
(* Writes.                                                                 *)

\* With a body the form decoder takes: a key that the form's struct does not
\* declare is an error, which StatementFails covers.
NewTelestoSubmit(r) ==
    /\ At(r, "handle", {"NewTelestoSubmit"})
    /\ \E i \in TelestoId, n \in Name, url \in Url \cup {NoUrl} :
          CreateTelesto(i, req[r].ctx, n, url)
    /\ Return(r)
    /\ UNCHANGED reveal

\* The handler copies the name and a non-empty header into the update; the
\* form's destination URL is decoded and then not used.
EditTelestoSubmit(r) ==
    /\ At(r, "handle", {"EditTelestoSubmit"})
    /\ \E n \in Name, auth \in BOOLEAN :
          UpdateTelesto(req[r].ctx, req[r].telesto, n, NoUrl, auth)
    /\ Return(r)
    /\ UNCHANGED reveal

DeleteTelestoSubmit(r) ==
    /\ At(r, "handle", {"DeleteTelesto"})
    /\ DeleteTelesto(req[r].ctx, req[r].telesto)
    /\ Return(r)
    /\ UNCHANGED reveal

\* The telesto looked up before may be gone: then the foreign key refuses.
NewTokenSubmit(r) ==
    /\ At(r, "insert", {"NewTokenSubmit"})
    /\ \E k \in TokenId, n \in Name :
          CreateToken(k, req[r].ctx, req[r].telesto, n)
    /\ Return(r)
    /\ UNCHANGED reveal

EditTokenSubmit(r) ==
    /\ At(r, "handle", {"EditTokenSubmit"})
    /\ \E n \in Name : UpdateToken(req[r].ctx, req[r].token, n)
    /\ Return(r)
    /\ UNCHANGED reveal

DeleteTokenSubmit(r) ==
    /\ At(r, "handle", {"DeleteToken"})
    /\ DeleteToken(req[r].ctx, req[r].token)
    /\ Return(r)
    /\ UNCHANGED reveal

-----------------------------------------------------------------------------
(* Failures.                                                               *)

\* Any SELECT or write may fail, and a read that finds no row is an error too
\* (gorm.ErrRecordNotFound): the handler then changes nothing and returns, the two
\* lists with an empty page.
StatementFails(r) ==
    /\ req[r].pc \in {"handle", "preload", "insert", "mark", "update"}
    /\ Fails(r)

\* The process dies and restarts: the requests in flight are lost.
Crash ==
    /\ \E r \in Req : req[r] # Idle
    /\ req' = [r \in Req |-> Idle]
    /\ UNCHANGED <<dbVars, reveal>>

-----------------------------------------------------------------------------
Read(r) == \/ GetTelestos(r) \/ NewToken(r) \/ GetTelesto(r) \/ EditTelesto(r)
           \/ SelectTelesto(r) \/ PreloadTokens(r)
           \/ GetTokens(r) \/ GetToken(r) \/ EditToken(r) \/ PreloadTelesto(r)
           \/ Render(r)

Mark(r) == MarkSeenGet(r) \/ MarkSeenUpdate(r)

Write(r) == \/ NewTelestoSubmit(r) \/ EditTelestoSubmit(r) \/ DeleteTelestoSubmit(r)
            \/ NewTokenSubmit(r) \/ EditTokenSubmit(r) \/ DeleteTokenSubmit(r)

\* What the goroutine of request r does next, once it has started.
Serve(r) == Protected(r) \/ Read(r) \/ Mark(r) \/ Write(r) \/ StatementFails(r)

Next == \/ \E r \in Req : Serve(r) \/ \E u \in User : LoadSession(r, u)
        \/ Crash

Spec == Init /\ [][Next]_vars

-----------------------------------------------------------------------------
(* Properties.                                                             *)

\* The requests together behave as atomic steps of one user at a time on the
\* tables: the check of NewTokenSubmit and the insert that follows it act as
\* one step, an edit never resets what its form leaves out, no id comes back.
ImplementsRegistry == RegistrySpec

\* Every row on a page, those a Preload adds without the user's scope
\* included, belongs to the user whose id the request carries.
PagesAreOwn ==
    \A r \in Req :
        /\ \A i \in req[r].telestoRows \cap Telestos : telestos[i].user = req[r].ctx
        /\ \A k \in req[r].tokenRows \cap Tokens : tokens[k].user = req[r].ctx

\* A page that shows a secret and is then marked without an error leaves the
\* token seen for as long as it exists.
SettledIsSeen ==
    \A k \in Tokens : reveal[k] = "settled" => tokens[k].seen

\* A request routed after the secret was withdrawn never shows it, however
\* long it takes and whatever renames or failures happen in between.
NoLateReveal == \A r \in Req : req[r].late => ~req[r].secret

RowsOf(u) == [telestos |-> [i \in TelestosForUser(u) |-> telestos[i]],
              tokens   |-> [k \in TokensForUser(u) |-> tokens[k]]]

\* The rows of a user change only in a writing step of a request that carries
\* that user's id.
WritesByOwner ==
    [][\A u \in Owner : RowsOf(u)' # RowsOf(u) =>
          \E r \in Req : /\ req[r].ctx = u
                         /\ req[r].pc \in {"handle", "insert", "update"}
                         /\ req'[r] = Idle]_vars

-----------------------------------------------------------------------------
(* The inductive invariant behind the safety properties.                   *)

\* What request r holds about the tables between two of its statements: rows
\* it read are its user's if they are still there, their ids are spent, the
\* telesto an insert relies on is one of them, so is a token whose secret it
\* shows, and a late request finds its token seen or gone.
RequestOK(r) ==
    /\ req[r].pc = "idle" => req[r] = Idle
    /\ req[r].pc \in {"protect", "handle"} =>
          req[r].telestoRows = {} /\ req[r].tokenRows = {} /\ ~req[r].secret
    /\ req[r].telestoRows \subseteq issued.telestos
    /\ \A i \in req[r].telestoRows \cap Telestos : telestos[i].user = req[r].ctx
    /\ req[r].tokenRows \subseteq issued.tokens
    /\ \A k \in req[r].tokenRows \cap Tokens : tokens[k].user = req[r].ctx
    /\ req[r].route = "NewTokenSubmit" /\ req[r].pc \in {"preload", "insert"} =>
          req[r].telesto \in req[r].telestoRows
    /\ req[r].secret => req[r].route = "GetToken" /\ req[r].token \in req[r].tokenRows
    /\ req[r].late => /\ ~req[r].secret
                      /\ req[r].token \in issued.tokens
                      /\ req[r].token \in Tokens => tokens[req[r].token].seen

\* A withdrawn secret stays withdrawn.
SettledOK ==
    \A k \in TokenId : reveal[k] = "settled" =>
        k \in issued.tokens /\ (k \in Tokens => tokens[k].seen)

IInv ==
    /\ TypeOK
    /\ RowsAreIssued /\ TokenBelongsToOwner /\ UniqueNames
    /\ \A r \in Req : RequestOK(r)
    /\ SettledOK

-----------------------------------------------------------------------------
(* Promises of the console that the code does not keep.                    *)

\* templates/pages/tokens/show.templ:35 under a secret: "Copy this token now.
\* You will not see it again."
ShownOnce ==
    [][\A r \in Req, k \in TokenId :
          (At(r, "render", {"GetToken"}) /\ req[r].token = k /\ req[r].secret
             /\ req'[r] # req[r] /\ req'[r] # Idle)
          => reveal[k] = "never"]_vars

\* templates/pages/tokens/show.templ:33-51 shows the secret or, once the token
\* is marked as seen, "Token value hidden for security.": a token is marked only
\* after its owner was given the secret, of which nothing else is left.
SeenWasShown == \A k \in Tokens : tokens[k].seen => reveal[k] # "never"

\* The routes that create telestos are "protected routes" (public.go:117) of a
\* portal "for users to manage their telesto instances" (README.md): every
\* telesto belongs to a user.
EveryTelestoHasUser == \A i \in Telestos : telestos[i].user \in User
=============================================================================
