-------------------------------- MODULE Pages --------------------------------
(***************************************************************************)
(* The portal as its user meets it: tabs of a browser that show the pages  *)
(* of templates/, with the links and forms these contain, and the routes,  *)
(* form structs and redirects of internal/server/public behind them.  A    *)
(* page is a snapshot: while a tab shows it, the other tabs go on.         *)
(*                                                                         *)
(* The handlers are atomic here (Portal takes them apart) and their user   *)
(* has a session.  The browser and htmx are external: a form with hx-put   *)
(* or hx-delete is sent in the background, its redirects are followed in   *)
(* the background too, and the answer replaces the page but not the        *)
(* address; any other request replaces both.                               *)
(*                                                                         *)
(* A page is the record of its links, its forms, the row it shows and      *)
(* whether it shows the secret of a token; wording and layout are left     *)
(* out.  A path is the sequence of its segments.                           *)
(***************************************************************************)
EXTENDS Storage, Sequences

CONSTANTS
    Tab,        \* the tabs of the browser
    Me,         \* the user in front of it
    NoName      \* the name ""

\* An id is a ULID: no word of a route.
ASSUME PagesAssumption ==
    /\ Me \in User
    /\ NoName \notin Name
    /\ (TelestoId \cup TokenId) \cap {"new", "edit", "{id}"} = {}

VARIABLES
    tab,        \* tab[t] : what tab t shows and waits for
    made        \* history: made[t].rows, how many rows the last form of tab t created;
                \* made[t].told, how many when the tab first learned of it, or 0

vars == <<telestos, tokens, issued, tab, made>>

-----------------------------------------------------------------------------
(* Routes.                                                                 *)

\* A page links to the files of /static that Head names.
Assets == {<<"static", "js", file>> : file \in {"tailwind.min.js", "htmx.min.js", "alpine.min.js"}}

Routes == {
    <<"GET", <<>> >>, <<"GET", <<"login">> >>, <<"GET", <<"register">> >>,
    <<"GET", <<"console">> >>, <<"GET", <<"logout">> >>,
    <<"GET", <<"telestos">> >>,                 <<"GET", <<"tokens">> >>,
    <<"GET", <<"telestos", "{id}">> >>,         <<"GET", <<"tokens", "{id}">> >>,
    <<"GET", <<"telestos", "new">> >>,          <<"GET", <<"tokens", "new">> >>,
    <<"POST", <<"telestos", "new">> >>,         <<"POST", <<"tokens", "new">> >>,
    <<"GET", <<"telestos", "{id}", "edit">> >>, <<"GET", <<"tokens", "{id}", "edit">> >>,
    <<"PUT", <<"telestos", "{id}", "edit">> >>, <<"PUT", <<"tokens", "{id}", "edit">> >>,
    <<"DELETE", <<"telestos", "{id}">> >>,      <<"DELETE", <<"tokens", "{id}">> >>}

\* A wildcard takes one segment, whatever it is.
Matches(pattern, path) ==
    /\ Len(pattern) = Len(path)
    /\ \A n \in DOMAIN path : pattern[n] \in {"{id}", path[n]}

\* newFileServer serves the files that are there.
Routed(method, path) ==
    \/ \E route \in Routes : route[1] = method /\ Matches(route[2], path)
    \/ method = "GET" /\ path \in Assets

-----------------------------------------------------------------------------
(* Templates.                                                              *)

Nav(session) ==
    {<<>>} \cup IF session THEN {<<"console">>, <<"logout">>}
                           ELSE {<<"login">>, <<"register">>}

Sidebar == {<<"telestos">>, <<"tokens">>}

\* The layouts: what every page of theirs links to.
Main(session) == Assets \cup Nav(session)
Console(session) == Assets \cup Nav(session) \cup Sidebar

\* A form: fields maps the keys it posts to what they hold at first, options
\* are those of its select.
Form(method, path, fields, options) ==
    [method |-> method, path |-> path, fields |-> fields, options |-> options]

\* A button that deletes posts nothing.
DeleteButton(path) == Form("DELETE", path, <<>>, {})

View(name, links, forms, row, secret) ==
    [view |-> name, links |-> links, forms |-> forms, row |-> row, secret |-> secret]

Blank == View("blank", {}, {}, None, FALSE)

Error == View("error", {}, {}, None, FALSE)

\* The landing page, before and after login, and the console.
IndexPage(session) == View("index", Main(session), {}, None, FALSE)
ConsolePage == View("console", Console(TRUE), {}, None, FALSE)

TelestosPage(is) ==
    View("telestos", Console(TRUE) \cup {<<"telestos", "new">>}
                                   \cup {<<"telestos", i>> : i \in is}, {}, None, FALSE)

NewTelestoPage ==
    View("new telesto", Console(TRUE),
         {Form("POST", <<"telestos", "new">>,
               [name |-> NoName, destinationUrl |-> NoUrl, authorizationHeader |-> FALSE], {})},
         None, FALSE)

\* Faulty: the segments of the link are swapped.
TelestoPageSwapped(i, row) ==
    View("telesto", Console(TRUE) \cup {<<"telestos", "edit", i>>},
         {DeleteButton(<<"telestos", i>>)}, row, FALSE)

TelestoPage(i, row) ==
    View("telesto", Console(TRUE) \cup {<<"telestos", i, "edit">>},
         {DeleteButton(<<"telestos", i>>)}, row, FALSE)

\* The field for the header is never filled in: what is set stays hidden.
EditTelestoPage(i, row) ==
    View("edit telesto", Console(TRUE),
         {Form("PUT", <<"telestos", i, "edit">>,
               [name |-> row.name, destinationUrl |-> row.url,
                authorizationHeader |-> FALSE], {})},
         None, FALSE)

\* The rows ks with the telestos that the Preload found for them.
TokensPage(ks, is) ==
    View("tokens", Console(TRUE) \cup {<<"tokens", "new">>}
                                 \cup {<<"tokens", k>> : k \in ks}
                                 \cup {<<"telestos", i>> : i \in is}, {}, None, FALSE)

\* templates/pages/tokens/form.templ: the telesto can be chosen once, with the
\* token; afterwards its field is disabled and posts nothing.
TokenFields(isNew, name) ==
    IF isNew THEN [name |-> name, telesto_id |-> None] ELSE [name |-> name]

NewTokenPage(is) ==
    View("new token", Console(TRUE),
         {Form("POST", <<"tokens", "new">>, TokenFields(TRUE, NoName), is)}, None, FALSE)

TokenPage(k, row) ==
    View("token", Console(TRUE) \cup {<<"tokens", "edit", k>>, <<"telestos", row.telesto>>},
         {DeleteButton(<<"tokens", k>>)}, row, ~row.seen)

EditTokenPage(k, row) ==
    View("edit token", Console(TRUE),
         {Form("PUT", <<"tokens", k, "edit">>, TokenFields(FALSE, row.name), {})}, None, FALSE)

-----------------------------------------------------------------------------
(* Requests.                                                               *)

\* Where pages link to, forms are sent to and handlers redirect to.
Path ==
    Main(FALSE) \cup Console(TRUE) \cup {<<"telestos", "new">>, <<"tokens", "new">>}
    \cup {<<"telestos", i>> : i \in TelestoId}
    \cup {<<"telestos", i, "edit">> : i \in TelestoId}
    \cup {<<"tokens", k>> : k \in TokenId}
    \cup {<<"tokens", k, "edit">> : k \in TokenId}
    \cup {<<"tokens", "edit", k>> : k \in TokenId}

NameField == Name \cup {NoName}
UrlField  == Url \cup {NoUrl}

\* What the forms can post.
TelestoBody == [name: NameField, destinationUrl: UrlField]
EditBody    == [name: NameField, destinationUrl: UrlField, authorizationHeader: BOOLEAN]
TokenBody   == [name: NameField, telesto_id: TelestoId \cup {None}]
RenameBody  == [name: NameField]

Body == {<<>>} \cup TelestoBody \cup EditBody \cup TokenBody \cup RenameBody

TelestoWritten == [id: TelestoId, row: TelestoRow]
TokenWritten   == [id: TokenId, row: TokenRow]
Written        == TelestoWritten \cup TokenWritten

Request == [method: {"GET", "POST", "PUT", "DELETE"}, path: Path, body: Body,
            background: BOOLEAN, wrote: Written \cup {None}]

ASSUME RequestAssumption == None \notin Request /\ None \notin Written

\* One field is history: wrote is the row that the redirect comes from, with its id.
Ask(method, path, body, background) ==
    [method |-> method, path |-> path, body |-> body, background |-> background, wrote |-> None]

Visit(path) == Ask("GET", path, <<>>, FALSE)

NoRows == [rows |-> 0, told |-> 0]

Init ==
    /\ DbInit
    /\ \E page \in {IndexPage(FALSE), ConsolePage} :
          tab = [t \in Tab |-> [page |-> page, last |-> Visit(<<"console">>), asks |-> None]]
    /\ made = [t \in Tab |-> NoRows]

\* Files, and the pages that Kratos has a part in (module AuthFlow).
Elsewhere == Assets \cup {<<"login">>, <<"register">>, <<"logout">>}

\* The user waits for an answer before he goes on in the same tab.
Click(t) ==
    /\ tab[t].asks = None
    /\ \E link \in tab[t].page.links \ Elsewhere :
          tab' = [tab EXCEPT ![t].asks = Visit(link)]
    /\ UNCHANGED <<dbVars, made>>

\* No page leads to the form that renames a token: the user who looks at the token
\* types the address.
TypeAddress(t) ==
    /\ tab[t].asks = None
    /\ \E k \in TokenId :
          /\ <<"tokens", "edit", k>> \in tab[t].page.links
          /\ tab' = [tab EXCEPT ![t].asks = Visit(<<"tokens", k, "edit">>)]
    /\ UNCHANGED <<dbVars, made>>

\* What a user may type into, or choose for, the field key of form.
Values(form, key) ==
    CASE key = "name"                -> NameField
      [] key = "destinationUrl"      -> UrlField
      [] key = "authorizationHeader" -> BOOLEAN
      [] key = "telesto_id"          -> form.options

Bodies(form) ==
    LET keys == DOMAIN form.fields
    IN  {body \in [keys -> UNION {Values(form, key) : key \in keys}] :
            \A key \in keys : body[key] \in Values(form, key)}

Send(t, ask) ==
    /\ tab[t].asks = None
    /\ tab' = [tab EXCEPT ![t].asks = ask]
    /\ made' = [made EXCEPT ![t] = NoRows]
    /\ UNCHANGED dbVars

Submit(t) ==
    \E form \in tab[t].page.forms : \E body \in Bodies(form) :
        Send(t, Ask(form.method, form.path, body, form.method # "POST"))

\* The route is open to clients other than the page: this one posts the two
\* fields that the handler declares.
SubmitByClient(t) ==
    \E n \in Name, url \in UrlField :
        Send(t, Ask("POST", <<"telestos", "new">>, [name |-> n, destinationUrl |-> url], FALSE))

\* The browser repeats the request that led to the page's address, a POST
\* with its body included.
Reload(t) ==
    /\ tab[t].asks = None
    /\ tab' = [tab EXCEPT ![t].asks = tab[t].last]
    /\ UNCHANGED <<dbVars, made>>

-----------------------------------------------------------------------------
(* Answers.                                                                *)

\* chi prefers a literal segment to a wildcard.
Asks(t, method, pattern) ==
    /\ tab[t].asks # None
    /\ tab[t].asks.method = method
    /\ Matches(pattern, tab[t].asks.path)
    /\ <<method, tab[t].asks.path>> \in Routes => pattern = tab[t].asks.path

\* Status 200.
Show(t, page) ==
    tab' = [tab EXCEPT ![t].page = page, ![t].asks = None,
                       ![t].last = IF tab[t].asks.background THEN @
                                   ELSE [tab[t].asks EXCEPT !.wrote = None]]

\* Any other status: htmx leaves the page as it is.
ShowError(t) ==
    IF tab[t].asks.background THEN tab' = [tab EXCEPT ![t].asks = None] ELSE Show(t, Error)

\* 303 See Other, after a write that left row in the tables under id.
Redirect(t, path, id, row) ==
    tab' = [tab EXCEPT
              ![t].asks = [Visit(path) EXCEPT
                             !.background = tab[t].asks.background,
                             !.wrote = IF row = None THEN None ELSE [id |-> id, row |-> row]]]

\* htmx obeys HX-Redirect by leaving the page.
RedirectPage(t, path) == tab' = [tab EXCEPT ![t].asks = Visit(path)]

\* The form was carried out, and the tab does not learn it: the commit was not
\* acknowledged and the handler answers as if the statement had failed, with an empty
\* 200, or the redirect is lost on its way.
Unacknowledged(t) == Show(t, Blank) \/ ShowError(t)

\* A handler that updated the row id ends.
Updates(t, path, id, row) ==
    /\ Redirect(t, path, id, row) \/ Unacknowledged(t)
    /\ UNCHANGED made

\* A handler that inserted it ends.
Creates(t, path, id, row) ==
    \/ /\ Redirect(t, path, id, row)
       /\ made' = [made EXCEPT ![t].rows = @ + 1,
                               ![t].told = IF @ = 0 THEN made[t].rows + 1 ELSE @]
    \/ /\ Unacknowledged(t)
       /\ made' = [made EXCEPT ![t].rows = @ + 1]

\* A handler that deleted one ends.
Deletes(t, path) ==
    /\ RedirectPage(t, path) \/ Unacknowledged(t)
    /\ UNCHANGED made

Reads == UNCHANGED <<dbVars, made>>

IdOf(t) == tab[t].asks.path[2]

NotFound(t) ==
    /\ tab[t].asks # None
    /\ ~Routed(tab[t].asks.method, tab[t].asks.path)
    /\ ShowError(t)
    /\ Reads

\* A request, or the answer to one that wrote nothing, is lost.
Lost(t) == tab[t].asks # None /\ ShowError(t) /\ Reads

\* The pages that read no row.
GetIndex(t)   == Asks(t, "GET", <<>>) /\ Show(t, IndexPage(TRUE)) /\ Reads
GetConsole(t) == Asks(t, "GET", <<"console">>) /\ Show(t, ConsolePage) /\ Reads
NewTelesto(t) == Asks(t, "GET", <<"telestos", "new">>) /\ Show(t, NewTelestoPage) /\ Reads

\* The lists are shown without rows when their statement fails.
GetTelestos(t) ==
    /\ Asks(t, "GET", <<"telestos">>)
    /\ \E is \in {TelestosForUser(Me), {}} : Show(t, TelestosPage(is))
    /\ Reads

GetTelesto(t) ==
    /\ Asks(t, "GET", <<"telestos", "{id}">>) /\ IdOf(t) \in TelestosForUser(Me)
    /\ Show(t, TelestoPage(IdOf(t), telestos[IdOf(t)]))
    /\ Reads

EditTelesto(t) ==
    /\ Asks(t, "GET", <<"telestos", "{id}", "edit">>) /\ IdOf(t) \in TelestosForUser(Me)
    /\ Show(t, EditTelestoPage(IdOf(t), telestos[IdOf(t)]))
    /\ Reads

GetTokens(t) ==
    /\ Asks(t, "GET", <<"tokens">>)
    /\ \E ks \in {TokensForUser(Me), {}} :
          Show(t, TokensPage(ks, {tokens[k].telesto : k \in ks}))
    /\ Reads

NewToken(t) ==
    /\ Asks(t, "GET", <<"tokens", "new">>)
    /\ Show(t, NewTokenPage(TelestosForUser(Me)))
    /\ Reads

\* The page, which may be lost, then MarkSeen, which may fail.
GetToken(t) ==
    /\ Asks(t, "GET", <<"tokens", "{id}">>) /\ IdOf(t) \in TokensForUser(Me)
    /\ Show(t, TokenPage(IdOf(t), tokens[IdOf(t)])) \/ ShowError(t)
    /\ MarkTokenSeen(Me, IdOf(t)) \/ UNCHANGED dbVars
    /\ UNCHANGED made

EditToken(t) ==
    /\ Asks(t, "GET", <<"tokens", "{id}", "edit">>) /\ IdOf(t) \in TokensForUser(Me)
    /\ Show(t, EditTokenPage(IdOf(t), tokens[IdOf(t)]))
    /\ Reads

-----------------------------------------------------------------------------
(* Forms.                                                                  *)

NewTelestoForm  == [keys |-> {"name", "destinationUrl"}, required |-> {"name"}]
NewTokenForm    == [keys |-> {"name", "telesto_id"}, required |-> {"name", "telesto_id"}]
EditTelestoForm == [keys |-> {"name", "destinationUrl", "authorizationHeader"},
                    required |-> {"name"}]

\* Faulty: the name is not required.
DecodesUnrequired(struct, body) == DOMAIN body \subseteq struct.keys

\* The schema decoder refuses a key that the struct does not declare, and a
\* required one that is missing or empty.
Decodes(struct, body) ==
    /\ DOMAIN body \subseteq struct.keys
    /\ \A key \in struct.required : key \in DOMAIN body /\ body[key] # NoName

NewTelestoSubmit(t) ==
    /\ Asks(t, "POST", <<"telestos", "new">>)
    /\ LET body == tab[t].asks.body IN
         /\ Decodes(NewTelestoForm, body)
         /\ \E i \in TelestoId :
              /\ CreateTelesto(i, Me, body.name, body.destinationUrl)
              /\ Creates(t, <<"telestos", i>>, i, telestos'[i])

\* The form's destination is decoded and not used; an empty header is not
\* copied, and UpdateTelesto would skip it.
EditTelestoSubmit(t) ==
    /\ Asks(t, "PUT", <<"telestos", "{id}", "edit">>)
    /\ LET body == tab[t].asks.body IN
         /\ Decodes(EditTelestoForm, body)
         /\ UpdateTelesto(Me, IdOf(t), body.name, NoUrl, body.authorizationHeader)
         /\ Updates(t, <<"telestos", IdOf(t)>>, IdOf(t), telestos'[IdOf(t)])

DeleteTelestoSubmit(t) ==
    /\ Asks(t, "DELETE", <<"telestos", "{id}">>)
    /\ DeleteTelesto(Me, IdOf(t))
    /\ Deletes(t, <<"telestos">>)

\* Faulty: the new token's page is the answer, without a redirect.
NewTokenSubmitUnredirected(t) ==
    /\ Asks(t, "POST", <<"tokens", "new">>)
    /\ LET body == tab[t].asks.body IN
         /\ Decodes(NewTokenForm, body)
         /\ body.telesto_id \in TelestosForUser(Me)
         /\ \E k \in TokenId :
              /\ CreateToken(k, Me, body.telesto_id, body.name)
              /\ Show(t, TokenPage(k, tokens'[k]))
    /\ made' = [made EXCEPT ![t].rows = @ + 1,
                            ![t].told = IF @ = 0 THEN made[t].rows + 1 ELSE @]

\* Faulty: redirected to the telesto it is for.
NewTokenSubmitToTelesto(t) ==
    /\ Asks(t, "POST", <<"tokens", "new">>)
    /\ LET body == tab[t].asks.body IN
         /\ Decodes(NewTokenForm, body)
         /\ body.telesto_id \in TelestosForUser(Me)
         /\ \E k \in TokenId :
              /\ CreateToken(k, Me, body.telesto_id, body.name)
              /\ Creates(t, <<"telestos", body.telesto_id>>, k, tokens'[k])

NewTokenSubmit(t) ==
    /\ Asks(t, "POST", <<"tokens", "new">>)
    /\ LET body == tab[t].asks.body IN
         /\ Decodes(NewTokenForm, body)
         /\ body.telesto_id \in TelestosForUser(Me)
         /\ \E k \in TokenId :
              /\ CreateToken(k, Me, body.telesto_id, body.name)
              /\ Creates(t, <<"tokens", k>>, k, tokens'[k])

\* The body is decoded into the struct of the other form, which has the name.
EditTokenSubmit(t) ==
    /\ Asks(t, "PUT", <<"tokens", "{id}", "edit">>)
    /\ LET body == tab[t].asks.body IN
         /\ Decodes(EditTelestoForm, body)
         /\ UpdateToken(Me, IdOf(t), body.name)
         /\ Updates(t, <<"tokens", IdOf(t)>>, IdOf(t), tokens'[IdOf(t)])

DeleteTokenSubmit(t) ==
    /\ Asks(t, "DELETE", <<"tokens", "{id}">>)
    /\ DeleteToken(Me, IdOf(t))
    /\ Deletes(t, <<"tokens">>)

\* A row that is not found, a body that is not decoded, a statement that fails:
\* the handler returns and the answer is an empty 200.  Only GetToken says 500;
\* the lists and the pages that read no row cannot fail.
Fails(t) ==
    /\ \E route \in Routes :
          /\ Asks(t, route[1], route[2])
          /\ route[2] \notin {<<>>, <<"console">>, <<"telestos">>, <<"tokens">>}
          /\ route # <<"GET", <<"telestos", "new">> >>
          /\ IF route = <<"GET", <<"tokens", "{id}">> >> THEN ShowError(t) ELSE Show(t, Blank)
    /\ Reads

Answer(t) ==
    \/ NotFound(t) \/ Fails(t) \/ Lost(t)
    \/ GetIndex(t) \/ GetConsole(t)
    \/ GetTelestos(t) \/ GetTelesto(t) \/ NewTelesto(t) \/ EditTelesto(t)
    \/ GetTokens(t) \/ GetToken(t) \/ NewToken(t) \/ EditToken(t)
    \/ NewTelestoSubmit(t) \/ EditTelestoSubmit(t) \/ DeleteTelestoSubmit(t)
    \/ NewTokenSubmit(t) \/ EditTokenSubmit(t) \/ DeleteTokenSubmit(t)

Next == \E t \in Tab : \/ Click(t) \/ TypeAddress(t) \/ Reload(t)
                       \/ Submit(t) \/ SubmitByClient(t)
                       \/ Answer(t)

Spec == Init /\ [][Next]_vars

-----------------------------------------------------------------------------
(* Properties.                                                             *)

TypeOK ==
    /\ DbTypeOK
    /\ \A t \in Tab :
         /\ tab[t].page.row \in TelestoRow \cup TokenRow \cup {None}
         /\ tab[t].asks \in Request \cup {None} /\ tab[t].last \in Request
    /\ made \in [Tab -> [rows: Nat, told: Nat]]

\* However often a page is reloaded, and whatever is lost before or after, a form
\* whose redirect has reached its tab creates no further row: from then on the tab
\* does not hold the request of the form any more.
OncePerSubmit == \A t \in Tab : made[t].told \in {0, made[t].rows}

\* The request that tab t waits for is answered in this step.
Answered(t) == tab[t].asks # None /\ tab'[t] # tab[t]

\* What a row says, apart from whether it was looked at.
Content(row) == IF row \in TokenRow THEN [row EXCEPT !.seen = TRUE] ELSE row

Stored(written) ==
    \/ written.id \in Telestos /\ telestos[written.id] = written.row
    \/ written.id \in Tokens /\ Content(tokens[written.id]) = Content(written.row)

Lands(t) ==
    LET ask == tab[t].asks
        new == tab'[t].page
    IN  (Answered(t) /\ tab'[t].asks = None /\ ask.wrote # None /\ Stored(ask.wrote)) =>
          \/ new.view \in {"blank", "error"} \/ new = tab[t].page
          \/ Content(new.row) = Content(ask.wrote.row)

\* After a form has been accepted its tab shows the row as written, if it still is
\* as written: the redirect, the id drawn by the insert, the routes and the pages
\* agree.  Or it shows nothing.
LandsOnWrittenRow == [][\A t \in Tab : Lands(t)]_vars

\* What a page links to, or sends a form to, is there; all but one link, which the
\* page of every token has: "Edit" leads to /tokens/edit/{id}
\* (templates/pages/tokens/show.templ:49), and the route is /tokens/{id}/edit.
DeadLinks(page) == {link \in page.links : ~Routed("GET", link)}

LinksWork ==
    \A t \in Tab :
        LET page == tab[t].page IN
        /\ \A form \in page.forms : Routed(form.method, form.path)
        /\ IF page.view = "token"
             THEN \E k \in TokenId :
                     DeadLinks(page) = {<<"tokens", "edit", k>>}
             ELSE DeadLinks(page) = {}

-----------------------------------------------------------------------------
(* Promises of the pages that the code does not keep.                      *)

\* The struct that the handler of a form decodes its body into.
StructOf(form) ==
    CASE form.method = "PUT" -> EditTelestoForm
      [] form.path = <<"telestos", "new">> -> NewTelestoForm
      [] form.path = <<"tokens", "new">> -> NewTokenForm

\* templates/pages/telestos/new.templ:11, "Create a new Telesto": a form whose
\* fields are all filled in is decoded.
FormsAreDecoded ==
    \A t \in Tab : \A form \in tab[t].page.forms :
        form.method # "DELETE" =>
            \A body \in Bodies(form) :
                (\A key \in DOMAIN body : body[key] \notin {NoName, NoUrl, FALSE})
                    => Decodes(StructOf(form), body)

\* templates/pages/tokens/new.templ:11, "Create a new Token": a form that was sent once
\* creates one row.
OneRowPerForm == \A t \in Tab : made[t].rows <= 1

\* templates/pages/telestos/edit.templ:11-19, "Edit Telesto", "Destination URL": the
\* destination typed into an accepted form is stored.
TypedUrlIsStored ==
    [][\A t \in Tab :
        LET ask == tab[t].asks IN
        (Answered(t) /\ Asks(t, "PUT", <<"telestos", "{id}", "edit">>)
           /\ tab'[t].asks # None /\ tab'[t].asks.wrote # None /\ ask.body.destinationUrl # NoUrl)
        => telestos'[IdOf(t)].url = ask.body.destinationUrl]_vars
=============================================================================
