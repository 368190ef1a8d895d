----------------------------- MODULE PagesProofs -----------------------------
(***************************************************************************)
(* What holds of Pages for any number of tabs, rows and names.  The        *)
(* argument rests on a grammar of the requests that can arise from the     *)
(* pages (Asked): each page has its links and forms, each form its method, *)
(* path and fields.  For the tables, each statement is an act of the user  *)
(* by a lemma of RegistryProofs.                                           *)
(***************************************************************************)
EXTENDS Pages, RegistryProofs

-----------------------------------------------------------------------------
(* Paths and patterns.                                                     *)

\* The segments of a path of one segment.
LEMMA Single ==
    ASSUME NEW x, NEW path, path = <<x>>
    PROVE  path[1] = x /\ Len(path) = 1 /\ DOMAIN path = {1}
  OBVIOUS

\* Of two.
LEMMA Pair ==
    ASSUME NEW x, NEW y, NEW path, path = <<x, y>>
    PROVE  path[1] = x /\ path[2] = y /\ Len(path) = 2 /\ DOMAIN path = {1, 2}
  OBVIOUS

\* Of three.
LEMMA Triple ==
    ASSUME NEW x, NEW y, NEW z, NEW path, path = <<x, y, z>>
    PROVE  /\ path[1] = x /\ path[2] = y /\ path[3] = z
           /\ Len(path) = 3 /\ DOMAIN path = {1, 2, 3}
  OBVIOUS

\* The paths have three segments at most.
LEMMA PathShape ==
    ASSUME NEW path \in Path
    PROVE  \/ path = <<>>
           \/ \E x : path = <<x>>
           \/ \E x, y : path = <<x, y>>
           \/ \E x, y, z : path = <<x, y, z>>
<1>1. CASE path \in Assets
  BY <1>1 DEF Assets
<1>2. CASE path \in Nav(FALSE) \cup Nav(TRUE) \cup Sidebar
  BY <1>2 DEF Nav, Sidebar
<1>3. CASE path \in {<<"telestos", "new">>, <<"tokens", "new">>}
  BY <1>3
<1>4. CASE \E i \in TelestoId : path \in {<<"telestos", i>>, <<"telestos", i, "edit">>}
  BY <1>4
<1>5. CASE \E k \in TokenId :
             path \in {<<"tokens", k>>, <<"tokens", k, "edit">>, <<"tokens", "edit", k>>}
  BY <1>5
<1> QED
  BY <1>1, <1>2, <1>3, <1>4, <1>5 DEF Path, Main, Console

\* A path is the tuple of its segments.
LEMMA PathSegments ==
    ASSUME NEW path \in Path
    PROVE  /\ Len(path) = 2 => path = <<path[1], path[2]>> /\ DOMAIN path = {1, 2}
           /\ Len(path) = 3 =>
                 path = <<path[1], path[2], path[3]>> /\ DOMAIN path = {1, 2, 3}
<1>1. CASE path = <<>>
  BY <1>1
<1>2. ASSUME NEW x, path = <<x>> PROVE Len(path) = 1
  BY <1>2, Single
<1>3. ASSUME NEW x, NEW y, path = <<x, y>>
      PROVE  Len(path) = 2 /\ path = <<path[1], path[2]>> /\ DOMAIN path = {1, 2}
  BY <1>3, Pair
<1>4. ASSUME NEW x, NEW y, NEW z, path = <<x, y, z>>
      PROVE  /\ Len(path) = 3
             /\ path = <<path[1], path[2], path[3]>> /\ DOMAIN path = {1, 2, 3}
  BY <1>4, Triple
<1>5. CASE \E x : path = <<x>>
  BY <1>2, <1>5
<1>6. CASE \E x, y : path = <<x, y>>
  BY <1>3, <1>6
<1>7. CASE \E x, y, z : path = <<x, y, z>>
  BY <1>4, <1>7
<1> QED
  BY <1>1, <1>5, <1>6, <1>7, PathShape

\* The routes of one row take the paths that begin with their first segment.
LEMMA RowRoute ==
    ASSUME NEW path \in Path, NEW first \in {"telestos", "tokens"},
           Matches(<<first, "{id}">>, path)
    PROVE  path = <<first, path[2]>>
<1> DEFINE pattern == <<first, "{id}">>
<1>1. pattern[1] = first /\ Len(pattern) = 2
  OBVIOUS
<1> HIDE DEF pattern
<1>2. Matches(pattern, path)
  BY DEF pattern
<1>3. path = <<path[1], path[2]>> /\ 1 \in DOMAIN path
  BY <1>1, <1>2, PathSegments DEF Matches
<1>4. path[1] = first
  BY <1>1, <1>2, <1>3 DEF Matches
<1> QED
  BY <1>3, <1>4

\* So do the routes of its edit form.
LEMMA EditRoute ==
    ASSUME NEW path \in Path, NEW first \in {"telestos", "tokens"},
           Matches(<<first, "{id}", "edit">>, path)
    PROVE  path = <<first, path[2], "edit">>
<1> DEFINE pattern == <<first, "{id}", "edit">>
<1>1. pattern[1] = first /\ pattern[3] = "edit" /\ Len(pattern) = 3
  OBVIOUS
<1> HIDE DEF pattern
<1>2. Matches(pattern, path)
  BY DEF pattern
<1>3. path = <<path[1], path[2], path[3]>> /\ 1 \in DOMAIN path /\ 3 \in DOMAIN path
  BY <1>1, <1>2, PathSegments DEF Matches
<1>4. path[1] = first /\ path[3] = "edit"
  BY <1>1, <1>2, <1>3 DEF Matches
<1> QED
  BY <1>3, <1>4

\* A form for a new row is at one address.
LEMMA NewRoute ==
    ASSUME NEW path \in Path, NEW first \in {"telestos", "tokens"},
           Matches(<<first, "new">>, path)
    PROVE  path = <<first, "new">>
<1> DEFINE pattern == <<first, "new">>
<1>1. pattern[1] = first /\ pattern[2] = "new" /\ Len(pattern) = 2
  OBVIOUS
<1> HIDE DEF pattern
<1>2. Matches(pattern, path)
  BY DEF pattern
<1>3. path = <<path[1], path[2]>> /\ 1 \in DOMAIN path /\ 2 \in DOMAIN path
  BY <1>1, <1>2, PathSegments DEF Matches
<1>4. path[1] = first /\ path[2] = "new"
  BY <1>1, <1>2, <1>3 DEF Matches
<1> QED
  BY <1>3, <1>4

\* Every row has its routes, whatever its id.
LEMMA WildcardMatches ==
    ASSUME NEW first, NEW id
    PROVE  /\ Matches(<<first, "{id}">>, <<first, id>>)
           /\ Matches(<<first, "{id}", "edit">>, <<first, id, "edit">>)
<1>1. Matches(<<first, "{id}">>, <<first, id>>)
  <2> DEFINE pattern == <<first, "{id}">>
             path    == <<first, id>>
  <2>1. /\ pattern[1] = first /\ pattern[2] = "{id}" /\ Len(pattern) = 2
        /\ path[1] = first /\ Len(path) = 2 /\ DOMAIN path = {1, 2}
    OBVIOUS
  <2> HIDE DEF pattern, path
  <2>2. Matches(pattern, path)
    BY <2>1 DEF Matches
  <2> QED
    BY <2>2 DEF pattern, path
<1>2. Matches(<<first, "{id}", "edit">>, <<first, id, "edit">>)
  <2> DEFINE pattern == <<first, "{id}", "edit">>
             path    == <<first, id, "edit">>
  <2>1. /\ pattern[1] = first /\ pattern[2] = "{id}" /\ pattern[3] = "edit"
        /\ path[1] = first /\ path[3] = "edit"
        /\ Len(pattern) = 3 /\ Len(path) = 3 /\ DOMAIN path = {1, 2, 3}
    OBVIOUS
  <2> HIDE DEF pattern, path
  <2>2. Matches(pattern, path)
    BY <2>1 DEF Matches
  <2> QED
    BY <2>2 DEF pattern, path
<1> QED
  BY <1>1, <1>2

\* A route takes the path that it is written as.
LEMMA MatchesItself == ASSUME NEW path PROVE Matches(path, path)
  BY DEF Matches

\* A request is routed if some route takes its path.
LEMMA RouteTakes ==
    ASSUME NEW method, NEW pattern, NEW path, <<method, pattern>> \in Routes,
           Matches(pattern, path)
    PROVE  Routed(method, path)
<1> DEFINE route == <<method, pattern>>
<1>1. route[1] = method /\ route[2] = pattern
  OBVIOUS
<1> HIDE DEF route
<1>2. route \in Routes
  BY DEF route
<1> QED
  BY <1>1, <1>2 DEF Routed

\* The links that are the same on every page.
Fixed == Main(FALSE) \cup Console(TRUE) \cup {<<"telestos", "new">>, <<"tokens", "new">>}

\* They all lead somewhere.
LEMMA FixedRouted == ASSUME NEW link \in Fixed PROVE Routed("GET", link)
<1>1. CASE link \in Assets
  BY <1>1 DEF Routed
<1>2. CASE link \notin Assets
  <2>1. <<"GET", link>> \in Routes
    BY <1>2 DEF Fixed, Main, Console, Nav, Sidebar, Routes
  <2> QED
    BY <2>1, MatchesItself, RouteTakes
<1> QED
  BY <1>1, <1>2

\* The links and form addresses of one row, on every method that a page uses.
LEMMA RowRouted ==
    ASSUME NEW first \in {"telestos", "tokens"}, NEW id
    PROVE  /\ Routed("GET", <<first, id>>) /\ Routed("DELETE", <<first, id>>)
           /\ Routed("GET", <<first, id, "edit">>) /\ Routed("PUT", <<first, id, "edit">>)
           /\ Routed("POST", <<first, "new">>)
<1>1. /\ <<"GET", <<first, "{id}">> >> \in Routes
      /\ <<"DELETE", <<first, "{id}">> >> \in Routes
      /\ <<"GET", <<first, "{id}", "edit">> >> \in Routes
      /\ <<"PUT", <<first, "{id}", "edit">> >> \in Routes
      /\ <<"POST", <<first, "new">> >> \in Routes
  BY DEF Routes
<1>2. Routed("GET", <<first, id>>) /\ Routed("DELETE", <<first, id>>)
  BY <1>1, WildcardMatches, RouteTakes
<1>3. Routed("GET", <<first, id, "edit">>) /\ Routed("PUT", <<first, id, "edit">>)
  BY <1>1, WildcardMatches, RouteTakes
<1>4. Routed("POST", <<first, "new">>)
  BY <1>1, MatchesItself, RouteTakes
<1> QED
  BY <1>2, <1>3, <1>4

\* The one link that leads nowhere: no id is "edit".
LEMMA EditTokenLinkIsDead ==
    ASSUME NEW k \in TokenId PROVE ~Routed("GET", <<"tokens", "edit", k>>)
<1> DEFINE path == <<"tokens", "edit", k>>
<1>1. path \in Path /\ path \notin Assets
  BY DEF Path, Assets
<1>2. path[3] = k /\ Len(path) = 3
  BY Triple
<1> HIDE DEF path
<1>3. k # "edit"
  BY PagesAssumption
<1>4. ASSUME NEW route \in Routes, Matches(route[2], path) PROVE FALSE
  <2>1. Len(route[2]) = 3
    BY <1>2, <1>4 DEF Matches
  <2>2. PICK first \in {"telestos", "tokens"} : route[2] = <<first, "{id}", "edit">>
    <3>1. PICK method, p :
             /\ route = <<method, p>>
             /\ \/ p = <<>>
                \/ \E x : p = <<x>>
                \/ \E x, y : p = <<x, y>>
                \/ \E first \in {"telestos", "tokens"} : p = <<first, "{id}", "edit">>
      BY DEF Routes
    <3>2. route[2] = p
      BY <3>1, Pair
    <3>3. ASSUME NEW x PROVE p # <<x>>
      BY <2>1, <3>2, Single
    <3>4. ASSUME NEW x, NEW y PROVE p # <<x, y>>
      BY <2>1, <3>2, Pair
    <3>5. p # <<>>
      BY <2>1, <3>2
    <3> QED
      BY <3>1, <3>2, <3>3, <3>4, <3>5
  <2>3. path = <<first, path[2], "edit">>
    BY <1>1, <1>4, <2>2, EditRoute
  <2>4. path[3] = "edit"
    BY <2>3, Triple
  <2> QED
    BY <1>2, <1>3, <2>4
<1>5. ~Routed("GET", path)
  BY <1>1, <1>4 DEF Routed
<1> QED
  BY <1>5 DEF path

-----------------------------------------------------------------------------
(* The grammar of pages, forms and requests.                               *)

PlainPages ==
    {Blank, Error, IndexPage(FALSE), IndexPage(TRUE), ConsolePage, NewTelestoPage}

TelestoPages ==
    {TelestosPage(is) : is \in SUBSET TelestoId}
    \cup {TelestoPage(i, row) : i \in TelestoId, row \in TelestoRow}
    \cup {EditTelestoPage(i, row) : i \in TelestoId, row \in TelestoRow}

TokenPages ==
    {TokensPage(ks, is) : ks \in SUBSET TokenId, is \in SUBSET TelestoId}
    \cup {NewTokenPage(is) : is \in SUBSET TelestoId}
    \cup {TokenPage(k, row) : k \in TokenId, row \in TokenRow}
    \cup {EditTokenPage(k, row) : k \in TokenId, row \in TokenRow}

Shown == PlainPages \cup TelestoPages \cup TokenPages

\* The fields of a new telesto's form, and of its edit form, as the page has them.
EmptyFields == [name |-> NoName, destinationUrl |-> NoUrl, authorizationHeader |-> FALSE]
RowFields   == [name: NameField, destinationUrl: UrlField, authorizationHeader: {FALSE}]

Given(form) ==
    \/ form = Form("POST", <<"telestos", "new">>, EmptyFields, {})
    \/ \E is \in SUBSET TelestoId :
          form = Form("POST", <<"tokens", "new">>, [name |-> NoName, telesto_id |-> None], is)
    \/ \E i \in TelestoId, fields \in RowFields :
          form = Form("PUT", <<"telestos", i, "edit">>, fields, {})
    \/ \E k \in TokenId, fields \in RenameBody :
          form = Form("PUT", <<"tokens", k, "edit">>, fields, {})
    \/ \E i \in TelestoId : form = DeleteButton(<<"telestos", i>>)
    \/ \E k \in TokenId : form = DeleteButton(<<"tokens", k>>)

Requests(method, paths, bodies, background, wrote) ==
    [method: {method}, path: paths, body: bodies, background: background, wrote: wrote]

Visits == Requests("GET", Path, {<<>>}, BOOLEAN, {None})

\* The redirects to a row that was just written.
Landings ==
    {ask \in Requests("GET", Path, {<<>>}, BOOLEAN, Written) :
        \/ ask.wrote \in TelestoWritten /\ ask.path = <<"telestos", ask.wrote.id>>
        \/ ask.wrote \in TokenWritten /\ ask.path = <<"tokens", ask.wrote.id>>}

TelestoPosts == Requests("POST", {<<"telestos", "new">>}, TelestoBody \cup EditBody,
                         {FALSE}, {None})
TokenPosts   == Requests("POST", {<<"tokens", "new">>}, TokenBody, {FALSE}, {None})

TelestoPuts == Requests("PUT", {<<"telestos", i, "edit">> : i \in TelestoId},
                        EditBody, {TRUE}, {None})
TokenPuts   == Requests("PUT", {<<"tokens", k, "edit">> : k \in TokenId},
                        RenameBody, {TRUE}, {None})

Deletions == Requests("DELETE", {<<"telestos", i>> : i \in TelestoId}
                                  \cup {<<"tokens", k>> : k \in TokenId},
                      {<<>>}, {TRUE}, {None})

Asked == Visits \cup Landings \cup TelestoPosts \cup TokenPosts \cup TelestoPuts
           \cup TokenPuts \cup Deletions

\* What a tab keeps as its address.
Kept == {ask \in Asked : ~ask.background /\ ask.wrote = None}

\* A kind of requests is made of requests if its fields are.
LEMMA RequestsType ==
    ASSUME NEW method \in {"GET", "POST", "PUT", "DELETE"}, NEW paths, paths \subseteq Path,
           NEW bodies, bodies \subseteq Body,
           NEW background, background \subseteq BOOLEAN,
           NEW wrote, wrote \subseteq Written \cup {None}
    PROVE  Requests(method, paths, bodies, background, wrote) \subseteq Request
  BY DEF Requests, Request

\* Requests have their type and are not confused with there being none.
LEMMA AskedIsRequest == ASSUME NEW ask \in Asked PROVE ask \in Request /\ ask # None
<1> DEFINE TelestoRows == {<<"telestos", i>> : i \in TelestoId}
           TokenRows   == {<<"tokens", k>> : k \in TokenId}
           TelestoEdit == {<<"telestos", i, "edit">> : i \in TelestoId}
           TokenEdit   == {<<"tokens", k, "edit">> : k \in TokenId}
<1>1. /\ {<<"telestos", "new">>} \subseteq Path /\ {<<"tokens", "new">>} \subseteq Path
      /\ TelestoEdit \subseteq Path /\ TokenEdit \subseteq Path
      /\ TelestoRows \cup TokenRows \subseteq Path
  BY DEF Path
<1>2. /\ {<<>>} \subseteq Body /\ TelestoBody \cup EditBody \subseteq Body
      /\ TokenBody \subseteq Body /\ EditBody \subseteq Body /\ RenameBody \subseteq Body
  BY DEF Body
<1> HIDE DEF TelestoRows, TokenRows, TelestoEdit, TokenEdit
<1>4. Visits \subseteq Request
  BY <1>2, RequestsType DEF Visits
<1>5. Landings \subseteq Request
  BY <1>2, RequestsType DEF Landings
<1>6. TelestoPosts \subseteq Request
  BY <1>1, <1>2, RequestsType DEF TelestoPosts
<1>7. TokenPosts \subseteq Request
  BY <1>1, <1>2, RequestsType DEF TokenPosts
<1>8. TelestoPuts \subseteq Request
  BY <1>1, <1>2, RequestsType DEF TelestoPuts, TelestoEdit
<1>9. TokenPuts \subseteq Request
  BY <1>1, <1>2, RequestsType DEF TokenPuts, TokenEdit
<1>10. Deletions \subseteq Request
  BY <1>1, <1>2, RequestsType DEF Deletions, TelestoRows, TokenRows
<1>11. ask \in Request
  BY <1>4, <1>5, <1>6, <1>7, <1>8, <1>9, <1>10 DEF Asked
<1> QED
  BY <1>11, RequestAssumption

\* Any page may be visited.
LEMMA VisitIsAsked ==
    ASSUME NEW path \in Path
    PROVE  /\ Visit(path) \in Kept
           /\ Visit(path).method = "GET" /\ ~Visit(path).background
           /\ Visit(path).path = path
  BY DEF Visit, Ask, Visits, Requests, Asked, Kept

\* The links that lead to a page.
Live == Fixed \cup {<<"telestos", i>> : i \in TelestoId}
              \cup {<<"telestos", i, "edit">> : i \in TelestoId}
              \cup {<<"tokens", k>> : k \in TokenId}

\* They do.
LEMMA LiveRouted == ASSUME NEW link \in Live PROVE link \in Path /\ Routed("GET", link)
<1>1. CASE link \in Fixed
  BY <1>1, FixedRouted DEF Fixed, Path
<1>2. ASSUME NEW i \in TelestoId, link = <<"telestos", i>> \/ link = <<"telestos", i, "edit">>
      PROVE  link \in Path /\ Routed("GET", link)
  BY <1>2, RowRouted DEF Path
<1>3. ASSUME NEW k \in TokenId, link = <<"tokens", k>>
      PROVE  link \in Path /\ Routed("GET", link)
  BY <1>3, RowRouted DEF Path
<1> QED
  BY <1>1, <1>2, <1>3 DEF Live

\* What the properties need to know of a page.
Sound(page) ==
    /\ page.row \in TelestoRow \cup TokenRow \cup {None}
    /\ IF page.view = "token"
         THEN \E k \in TokenId : /\ <<"tokens", "edit", k>> \in page.links
                                 /\ page.links \subseteq Live \cup {<<"tokens", "edit", k>>}
         ELSE page.links \subseteq Live
    /\ \A form \in page.forms : Given(form)

\* By the kinds of pages.
LEMMA ShownIsSound == ASSUME NEW page \in Shown PROVE Sound(page)
<1> DEFINE Row == TelestoRow \cup TokenRow \cup {None}
<1>1. Console(TRUE) \subseteq Live /\ Main(FALSE) \subseteq Live /\ Main(TRUE) \subseteq Live
  BY DEF Live, Fixed, Main, Console
<1>2. ASSUME NEW view, view # "token", NEW links \in SUBSET Live, NEW row \in Row, NEW secret,
             NEW forms, \A form \in forms : Given(form),
             page = View(view, links, forms, row, secret)
      PROVE  Sound(page)
  BY <1>2 DEF Sound, View
<1> DEFINE Plain(view, links) == View(view, links, {}, None, FALSE)
<1>0. ASSUME NEW view, view # "token", NEW links, links \subseteq Live, page = Plain(view, links)
       PROVE  Sound(page)
  BY <1>0 DEF Sound, View
<1> HIDE DEF Plain
<1>3. CASE page \in {Blank, Error, IndexPage(FALSE), IndexPage(TRUE), ConsolePage}
  <2>1. CASE page \in {Blank, Error}
    <3>1. page = Plain("blank", {}) \/ page = Plain("error", {})
      BY <2>1 DEF Blank, Error, Plain
    <3> QED
      BY <1>0, <3>1
  <2>2. CASE page \in {IndexPage(FALSE), IndexPage(TRUE)}
    BY <1>1, <1>0, <2>2 DEF IndexPage, Plain
  <2>3. CASE page = ConsolePage
    BY <1>1, <1>0, <2>3 DEF ConsolePage, Plain
  <2> QED
    BY <1>3, <2>1, <2>2, <2>3
<1>4. CASE page = NewTelestoPage
  BY <1>1, <1>2, <1>4 DEF NewTelestoPage, Given, EmptyFields
<1>5. ASSUME NEW is \in SUBSET TelestoId, page = TelestosPage(is) PROVE Sound(page)
  <2>1. Console(TRUE) \cup {<<"telestos", "new">>} \cup {<<"telestos", i>> : i \in is}
          \subseteq Live
    BY <1>1 DEF Live, Fixed
  <2> QED
    BY <1>5, <1>0, <2>1 DEF TelestosPage, Plain
<1>6. ASSUME NEW i \in TelestoId, NEW row \in TelestoRow, page = TelestoPage(i, row)
      PROVE  Sound(page)
  <2>1. Console(TRUE) \cup {<<"telestos", i, "edit">>} \subseteq Live
    BY <1>1 DEF Live
  <2>2. Given(DeleteButton(<<"telestos", i>>))
    BY DEF Given
  <2> QED
    BY <1>2, <1>6, <2>1, <2>2 DEF TelestoPage
<1>7. ASSUME NEW i \in TelestoId, NEW row \in TelestoRow, page = EditTelestoPage(i, row)
      PROVE  Sound(page)
  <2> DEFINE fields == [name |-> row.name, destinationUrl |-> row.url,
                        authorizationHeader |-> FALSE]
  <2>1. fields \in RowFields
    BY DEF TelestoRow, RowFields, NameField, UrlField
  <2> HIDE DEF fields
  <2>2. Given(Form("PUT", <<"telestos", i, "edit">>, fields, {}))
    BY <2>1 DEF Given
  <2> QED
    BY <1>1, <1>2, <1>7, <2>2 DEF EditTelestoPage, fields
<1>8. ASSUME NEW ks \in SUBSET TokenId, NEW is \in SUBSET TelestoId, page = TokensPage(ks, is)
      PROVE  Sound(page)
  <2>1. Console(TRUE) \cup {<<"tokens", "new">>} \cup {<<"tokens", k>> : k \in ks}
          \cup {<<"telestos", i>> : i \in is} \subseteq Live
    BY <1>1 DEF Live, Fixed
  <2> QED
    BY <1>8, <1>0, <2>1 DEF TokensPage, Plain
<1>9. ASSUME NEW is \in SUBSET TelestoId, page = NewTokenPage(is) PROVE Sound(page)
  <2>1. Given(Form("POST", <<"tokens", "new">>, TokenFields(TRUE, NoName), is))
    BY DEF Given, TokenFields
  <2> QED
    BY <1>1, <1>2, <1>9, <2>1 DEF NewTokenPage
<1>10. ASSUME NEW k \in TokenId, NEW row \in TokenRow, page = TokenPage(k, row)
       PROVE  Sound(page)
  <2>1. row.telesto \in TelestoId
    BY DEF TokenRow
  <2>2. /\ page.view = "token" /\ page.row = row
        /\ page.links = Console(TRUE) \cup {<<"tokens", "edit", k>>, <<"telestos", row.telesto>>}
        /\ page.forms = {DeleteButton(<<"tokens", k>>)}
    BY <1>10 DEF TokenPage, View
  <2>3. page.links \subseteq Live \cup {<<"tokens", "edit", k>>}
    BY <1>1, <2>1, <2>2 DEF Live
  <2>4. \A form \in page.forms : Given(form)
    BY <2>2 DEF Given
  <2> QED
    BY <2>2, <2>3, <2>4 DEF Sound
<1>11. ASSUME NEW k \in TokenId, NEW row \in TokenRow, page = EditTokenPage(k, row)
       PROVE  Sound(page)
  <2> DEFINE fields == [name |-> row.name]
  <2>1. fields \in RenameBody
    BY DEF TokenRow, RenameBody, NameField
  <2> HIDE DEF fields
  <2>2. Given(Form("PUT", <<"tokens", k, "edit">>, fields, {}))
    BY <2>1 DEF Given
  <2> QED
    BY <1>1, <1>2, <1>11, <2>2 DEF EditTokenPage, TokenFields, fields
<1> QED
  <2>1. CASE page \in PlainPages
    BY <1>3, <1>4, <2>1 DEF PlainPages
  <2>2. CASE page \in TelestoPages
    BY <1>5, <1>6, <1>7, <2>2 DEF TelestoPages
  <2>3. CASE page \in TokenPages
    <3>1. CASE page \in {TokensPage(ks, is) : ks \in SUBSET TokenId, is \in SUBSET TelestoId}
      BY <1>8, <3>1
    <3>2. CASE page \in {NewTokenPage(is) : is \in SUBSET TelestoId}
      BY <1>9, <3>2
    <3>3. CASE page \in {TokenPage(k, row) : k \in TokenId, row \in TokenRow}
      BY <1>10, <3>3
    <3>4. CASE page \in {EditTokenPage(k, row) : k \in TokenId, row \in TokenRow}
      BY <1>11, <3>4
    <3> QED
      BY <2>3, <3>1, <3>2, <3>3, <3>4 DEF TokenPages
  <2> QED
    BY <2>1, <2>2, <2>3 DEF Shown

\* What can be sent with a form.
LEMMA SentIsAsked ==
    ASSUME NEW form, Given(form), NEW body \in Bodies(form)
    PROVE  Ask(form.method, form.path, body, form.method # "POST") \in Asked
<1> DEFINE ask == Ask(form.method, form.path, body, form.method # "POST")
<1>1. CASE form = Form("POST", <<"telestos", "new">>, EmptyFields, {})
  <2>1. body \in EditBody
    BY <1>1 DEF Bodies, Values, Form, EmptyFields, EditBody
  <2>3. ask \in TelestoPosts
    BY <1>1, <2>1 DEF Form, Ask, TelestoPosts, Requests
  <2> QED
    BY <2>3 DEF Asked
<1>2. ASSUME NEW is \in SUBSET TelestoId,
             form = Form("POST", <<"tokens", "new">>, [name |-> NoName, telesto_id |-> None], is)
      PROVE  ask \in Asked
  <2>1. body \in TokenBody
    BY <1>2 DEF Bodies, Values, Form, TokenBody
  <2>3. ask \in TokenPosts
    BY <1>2, <2>1 DEF Form, Ask, TokenPosts, Requests
  <2> QED
    BY <2>3 DEF Asked
<1>3. ASSUME NEW i \in TelestoId, NEW fields \in RowFields,
             form = Form("PUT", <<"telestos", i, "edit">>, fields, {})
      PROVE  ask \in Asked
  <2>1. body \in EditBody
    BY <1>3 DEF Bodies, Values, Form, RowFields, EditBody
  <2>2. ask \in TelestoPuts
    BY <1>3, <2>1 DEF Form, Ask, TelestoPuts, Requests
  <2> QED
    BY <2>2 DEF Asked
<1>4. ASSUME NEW k \in TokenId, NEW fields \in RenameBody,
             form = Form("PUT", <<"tokens", k, "edit">>, fields, {})
      PROVE  ask \in Asked
  <2>1. body \in RenameBody
    BY <1>4 DEF Bodies, Values, Form, RenameBody
  <2>2. ask \in TokenPuts
    BY <1>4, <2>1 DEF Form, Ask, TokenPuts, Requests
  <2> QED
    BY <2>2 DEF Asked
<1>5. ASSUME NEW path \in {<<"telestos", i>> : i \in TelestoId}
                            \cup {<<"tokens", k>> : k \in TokenId},
             form = DeleteButton(path)
      PROVE  ask \in Asked
  <2>1. body = <<>>
    BY <1>5 DEF Bodies, DeleteButton, Form
  <2>2. ask \in Deletions
    BY <1>5, <2>1 DEF DeleteButton, Form, Ask, Deletions, Requests
  <2> QED
    BY <2>2 DEF Asked
<1> QED
  BY <1>1, <1>2, <1>3, <1>4, <1>5 DEF Given

\* A client posts a new telesto as its form would, without the header.
LEMMA ClientIsAsked ==
    ASSUME NEW n \in Name, NEW url \in UrlField,
           NEW body, body = [name |-> n, destinationUrl |-> url]
    PROVE  Ask("POST", <<"telestos", "new">>, body, FALSE) \in Asked
<1>1. body \in TelestoBody
  BY DEF TelestoBody, NameField
<1>2. Ask("POST", <<"telestos", "new">>, body, FALSE) \in TelestoPosts
  BY <1>1 DEF Ask, TelestoPosts, Requests
<1> QED
  BY <1>2 DEF Asked

-----------------------------------------------------------------------------
(* The inductive invariant.                                                *)

TabRecord == [page: Shown, last: Kept, asks: Asked \cup {None}]

Made == [rows: Nat, told: Nat]

Typed == tab \in [Tab -> TabRecord] /\ made \in [Tab -> Made]

\* Once a tab has learned that its form created a row, what it waits for, or what it
\* would ask for again, is a page.
MadeOnce ==
    \A t \in Tab :
        \/ made[t].told = 0
        \/ /\ made[t].told = made[t].rows
           /\ IF tab[t].asks = None THEN tab[t].last.method = "GET"
              ELSE tab[t].asks.method = "GET" /\ ~tab[t].asks.background

Inv == Consistent /\ Typed /\ MadeOnce

-----------------------------------------------------------------------------
(* The kinds of steps, by what they do to their tab.                       *)

\* The user asks for a page, for the tab's address again, or sends a form.
LEMMA AskingKeepsInv ==
    ASSUME Inv, NEW t \in Tab, NEW ask \in Asked, tab[t].asks = None,
           tab' = [tab EXCEPT ![t].asks = ask], UNCHANGED dbVars,
           \/ made' = [made EXCEPT ![t] = NoRows]
           \/ made' = made /\ ask.method = "GET" /\ ~ask.background
           \/ made' = made /\ ask = tab[t].last
    PROVE  Inv' /\ Act(Me)
<1>1. /\ tab' \in [Tab -> TabRecord]
      /\ \A u \in Tab : u # t => tab'[u] = tab[u]
      /\ tab'[t].last = tab[t].last /\ tab'[t].asks = ask
  BY DEF Inv, Typed, TabRecord
<1>2. ask # None /\ ~tab[t].last.background
  BY AskedIsRequest DEF Inv, Typed, TabRecord, Kept
<1>3. Typed'
  BY <1>1 DEF Inv, Typed, Made, NoRows
<1>4. MadeOnce'
  BY <1>1, <1>2 DEF Inv, Typed, MadeOnce, NoRows
<1>5. Act(Me)
  BY UnchangedActs, PagesAssumption DEF Inv, Owner
<1> QED
  BY <1>3, <1>4, <1>5 DEF Inv, Act

\* A request becomes the address of its tab without its history.
LEMMA Remembered ==
    ASSUME NEW ask \in Asked, ~ask.background
    PROVE  /\ [ask EXCEPT !.wrote = None] \in Kept
           /\ [ask EXCEPT !.wrote = None].method = ask.method
<1>1. ask \in Request
  BY AskedIsRequest
<1>2. CASE ask \in Landings
  <2>1. [ask EXCEPT !.wrote = None] \in Visits
    BY <1>2 DEF Landings, Visits, Requests
  <2> QED
    BY <1>1, <1>2, <2>1 DEF Kept, Asked, Request
<1>3. CASE ask \notin Landings
  <2>1. ask.wrote = None
    BY <1>3 DEF Asked, Visits, TelestoPosts, TokenPosts, TelestoPuts, TokenPuts, Deletions, Requests
  <2>2. [ask EXCEPT !.wrote = None] = ask
    BY <1>1, <2>1 DEF Request
  <2> QED
    BY <2>1, <2>2 DEF Kept
<1> QED
  BY <1>2, <1>3

\* An answer that is a page, or an error that htmx does not show.
LEMMA ShowKeepsInv ==
    ASSUME Inv, NEW t \in Tab, tab[t].asks # None, Act(Me),
           \/ made' = made
           \/ tab[t].asks.method # "GET" /\ made' = [made EXCEPT ![t].rows = @ + 1],
           \/ \E page \in Shown : Show(t, page)
           \/ ShowError(t)
    PROVE  Inv'
<1> DEFINE ask == tab[t].asks
<1>1. ask \in Asked /\ tab[t].last \in Kept
  BY DEF Inv, Typed, TabRecord
<1>2. Error \in Shown
  BY DEF Shown, PlainPages
<1>3. PICK new \in Shown, last \in Kept :
         /\ tab' = [tab EXCEPT ![t].page = new, ![t].asks = None, ![t].last = last]
         /\ ask.background \/ last.method = ask.method
  <2>1. CASE ask.background
    <3>1. CASE \E new \in Shown : Show(t, new)
      <4>1. PICK new \in Shown : Show(t, new)
        BY <3>1
      <4>2. tab' = [tab EXCEPT ![t].page = new, ![t].asks = None, ![t].last = tab[t].last]
        BY <2>1, <4>1 DEF Show, Inv, Typed, TabRecord
      <4> QED
        BY <1>1, <2>1, <4>2
    <3>2. CASE ShowError(t)
      <4>1. /\ tab' = [tab EXCEPT ![t].asks = None]
            /\ tab[t].page \in Shown
        BY <2>1, <3>2 DEF ShowError, Inv, Typed, TabRecord
      <4>2. tab' = [tab EXCEPT ![t].page = tab[t].page, ![t].asks = None, ![t].last = tab[t].last]
        BY <4>1 DEF Inv, Typed, TabRecord
      <4> QED
        BY <1>1, <2>1, <4>1, <4>2
    <3> QED
      BY <3>1, <3>2
  <2>2. CASE ~ask.background
    <3>1. PICK new \in Shown : Show(t, new)
      BY <1>2, <2>2 DEF ShowError
    <3> QED
      BY <1>1, <2>2, <3>1, Remembered DEF Show
  <2> QED
    BY <2>1, <2>2
<1>4. /\ tab' \in [Tab -> TabRecord]
      /\ \A u \in Tab : u # t => tab'[u] = tab[u]
      /\ tab'[t].asks = None
      /\ ask.background \/ tab'[t].last.method = ask.method
  BY <1>3 DEF Inv, Typed, TabRecord
<1>5. /\ made' \in [Tab -> Made]
      /\ \A u \in Tab : u # t => made'[u] = made[u]
      /\ made'[t] = made[t] \/ (ask.method # "GET" /\ made'[t].told = made[t].told)
  BY DEF Inv, Typed, Made
<1>6. ask.method # "GET" => made[t].told = 0
  BY DEF Inv, MadeOnce
<1>7. Typed'
  BY <1>4, <1>5 DEF Inv, Typed
<1>8. MadeOnce'
  BY <1>4, <1>5, <1>6 DEF Inv, Typed, MadeOnce
<1> QED
  BY <1>7, <1>8 DEF Inv, Act

\* The tab learns that its form created a row.
CountsTold(t) ==
    made' = [made EXCEPT ![t].rows = @ + 1,
                         ![t].told = IF @ = 0 THEN made[t].rows + 1 ELSE @]

\* A redirect after a form: made counts it if it created a row.
LEMMA RedirectingKeepsInv ==
    ASSUME Inv, NEW t \in Tab, tab[t].asks # None, tab[t].asks.method # "GET", Act(Me),
           NEW ask \in Asked, ask.method = "GET", tab' = [tab EXCEPT ![t].asks = ask],
           made' = made \/ (CountsTold(t) /\ ~ask.background)
    PROVE  Inv'
<1>1. /\ tab' \in [Tab -> TabRecord]
      /\ \A u \in Tab : u # t => tab'[u] = tab[u]
      /\ tab'[t].asks = ask
  BY DEF Inv, Typed, TabRecord
<1>2. ask # None /\ made[t].told = 0
  BY AskedIsRequest DEF Inv, MadeOnce
<1>3. /\ made' \in [Tab -> Made]
      /\ \A u \in Tab : u # t => made'[u] = made[u]
      /\ \/ made'[t].told = 0
         \/ made'[t].told = made'[t].rows /\ ~ask.background
  BY <1>2 DEF Inv, Typed, Made, CountsTold
<1>4. Typed'
  BY <1>1, <1>3 DEF Inv, Typed
<1>5. MadeOnce'
  BY <1>1, <1>2, <1>3 DEF Inv, MadeOnce
<1> QED
  BY <1>4, <1>5 DEF Inv, Act

\* The redirect to a row.
Landing(path, id, row, background) ==
    [Visit(path) EXCEPT !.background = background,
                        !.wrote = IF row = None THEN None ELSE [id |-> id, row |-> row]]

\* It is one of the requests of the grammar.
LEMMA LandingIsAsked ==
    ASSUME NEW path, NEW id, NEW row, NEW background \in BOOLEAN,
           \/ path = <<"telestos", id>> /\ id \in TelestoId /\ row \in TelestoRow \cup {None}
           \/ path = <<"tokens", id>> /\ id \in TokenId /\ row \in TokenRow \cup {None},
           NEW ask, ask = Landing(path, id, row, background)
    PROVE  ask \in Asked /\ ask.method = "GET" /\ ask.background = background
<1>1. path \in Path
  BY DEF Path
<1>2. /\ ask.method = "GET" /\ ask.path = path /\ ask.background = background
      /\ ask.wrote = IF row = None THEN None ELSE [id |-> id, row |-> row]
  BY DEF Landing, Visit, Ask
<1>3. CASE row = None
  <2>1. ask \in Visits
    BY <1>1, <1>3 DEF Landing, Visit, Ask, Visits, Requests
  <2> QED
    BY <1>2, <2>1 DEF Asked
<1>4. CASE row # None
  <2> DEFINE written == [id |-> id, row |-> row]
  <2>1. \/ written \in TelestoWritten /\ path = <<"telestos", written.id>>
        \/ written \in TokenWritten /\ path = <<"tokens", written.id>>
    BY <1>4 DEF TelestoWritten, TokenWritten
  <2>2. ask.wrote = written
    BY <1>2, <1>4
  <2> HIDE DEF written
  <2>3. ask \in Requests("GET", Path, {<<>>}, BOOLEAN, Written)
    <3>1. written \in Written
      BY <2>1 DEF Written
    <3>2. ask = [method |-> "GET", path |-> path, body |-> <<>>, background |-> background,
                 wrote |-> written]
      BY <1>4 DEF Landing, Visit, Ask, written
    <3> QED
      BY <1>1, <3>1, <3>2 DEF Requests
  <2>4. ask \in Landings
    BY <1>2, <2>1, <2>2, <2>3 DEF Landings
  <2> QED
    BY <1>2, <2>4 DEF Asked
<1> QED
  BY <1>3, <1>4

-----------------------------------------------------------------------------
(* What a handler is asked.                                                *)

\* A request that a handler answers.
LEMMA AskedPath ==
    ASSUME Inv, NEW t \in Tab, NEW method, NEW pattern, Asks(t, method, pattern)
    PROVE  /\ tab[t].asks # None /\ tab[t].asks \in Asked
           /\ tab[t].asks.method = method /\ tab[t].asks.background \in BOOLEAN
           /\ tab[t].asks.path \in Path /\ Matches(pattern, tab[t].asks.path)
<1>1. tab[t].asks # None /\ tab[t].asks \in Asked
  BY DEF Asks, Inv, Typed, TabRecord
<1>2. tab[t].asks \in Request
  BY <1>1, AskedIsRequest
<1> QED
  BY <1>1, <1>2 DEF Asks, Request

\* By their methods.
LEMMA AskedByMethod ==
    ASSUME NEW ask \in Asked
    PROVE  /\ ask.method = "GET" => ask \in Visits \cup Landings
           /\ ask.method = "POST" => ask \in TelestoPosts \cup TokenPosts
           /\ ask.method = "PUT" => ask \in TelestoPuts \cup TokenPuts
           /\ ask.method = "DELETE" => ask \in Deletions
  BY DEF Asked, Visits, Landings, TelestoPosts, TokenPosts, TelestoPuts, TokenPuts, Deletions,
         Requests

\* By their paths, too: what is posted, put or deleted where.
LEMMA PostedTelesto ==
    ASSUME Inv, NEW t \in Tab, Asks(t, "POST", <<"telestos", "new">>)
    PROVE  tab[t].asks \in TelestoPosts
<1> DEFINE ask == tab[t].asks
<1>1. ask \in TelestoPosts \cup TokenPosts /\ ask.path \in Path
  BY AskedPath, AskedByMethod
<1>2. ask.path = <<"telestos", "new">>
  BY <1>1, AskedPath, NewRoute
<1>3. ask \in TokenPosts => ask.path = <<"tokens", "new">>
  BY DEF TokenPosts, Requests
<1> QED
  BY <1>1, <1>2, <1>3

\* A new token.
LEMMA PostedToken ==
    ASSUME Inv, NEW t \in Tab, Asks(t, "POST", <<"tokens", "new">>)
    PROVE  tab[t].asks \in TokenPosts
<1> DEFINE ask == tab[t].asks
<1>1. ask \in TelestoPosts \cup TokenPosts /\ ask.path \in Path
  BY AskedPath, AskedByMethod
<1>2. ask.path = <<"tokens", "new">>
  BY <1>1, AskedPath, NewRoute
<1>3. ask \in TelestoPosts => ask.path = <<"telestos", "new">>
  BY DEF TelestoPosts, Requests
<1> QED
  BY <1>1, <1>2, <1>3

\* The edit forms of the two tables have no path in common.
LEMMA EditPathsDiffer ==
    ASSUME NEW x, NEW y PROVE <<"telestos", x, "edit">> # <<"tokens", y, "edit">>
  OBVIOUS

\* An edited telesto.
LEMMA PutTelesto ==
    ASSUME Inv, NEW t \in Tab, Asks(t, "PUT", <<"telestos", "{id}", "edit">>)
    PROVE  tab[t].asks \in TelestoPuts /\ IdOf(t) \in TelestoId
<1> DEFINE ask == tab[t].asks
<1>1. ask \in TelestoPuts \cup TokenPuts /\ ask.path \in Path
  BY AskedPath, AskedByMethod
<1>2. ask.path = <<"telestos", ask.path[2], "edit">>
  BY <1>1, AskedPath, EditRoute
<1>3. ASSUME NEW k \in TokenId, ask.path = <<"tokens", k, "edit">> PROVE FALSE
  BY <1>2, <1>3, EditPathsDiffer
<1>4. ask \notin TokenPuts
  BY <1>3 DEF TokenPuts, Requests
<1>5. PICK i \in TelestoId : ask.path = <<"telestos", i, "edit">>
  BY <1>1, <1>4 DEF TelestoPuts, Requests
<1>6. ask.path[2] = i
  <2> DEFINE path == ask.path
  <2>1. path = <<"telestos", i, "edit">>
    BY <1>5
  <2> HIDE DEF path
  <2>2. path[2] = i
    BY <2>1
  <2> QED
    BY <2>2 DEF path
<1> QED
  BY <1>1, <1>4, <1>6 DEF IdOf

\* A renamed token.
LEMMA PutToken ==
    ASSUME Inv, NEW t \in Tab, Asks(t, "PUT", <<"tokens", "{id}", "edit">>)
    PROVE  tab[t].asks \in TokenPuts /\ IdOf(t) \in TokenId
<1> DEFINE ask == tab[t].asks
<1>1. ask \in TelestoPuts \cup TokenPuts /\ ask.path \in Path
  BY AskedPath, AskedByMethod
<1>2. ask.path = <<"tokens", ask.path[2], "edit">>
  BY <1>1, AskedPath, EditRoute
<1>3. ASSUME NEW i \in TelestoId, ask.path = <<"telestos", i, "edit">> PROVE FALSE
  BY <1>2, <1>3, EditPathsDiffer
<1>4. ask \notin TelestoPuts
  BY <1>3 DEF TelestoPuts, Requests
<1>5. PICK k \in TokenId : ask.path = <<"tokens", k, "edit">>
  BY <1>1, <1>4 DEF TokenPuts, Requests
<1>6. ask.path[2] = k
  <2> DEFINE path == ask.path
  <2>1. path = <<"tokens", k, "edit">>
    BY <1>5
  <2> HIDE DEF path
  <2>2. path[2] = k
    BY <2>1
  <2> QED
    BY <2>2 DEF path
<1> QED
  BY <1>1, <1>4, <1>6 DEF IdOf

\* A row to delete, of the table that the route names.
LEMMA DeletedRow ==
    ASSUME Inv, NEW t \in Tab
    PROVE  /\ Asks(t, "DELETE", <<"telestos", "{id}">>) => IdOf(t) \in TelestoId
           /\ Asks(t, "DELETE", <<"tokens", "{id}">>) => IdOf(t) \in TokenId
<1> DEFINE ask == tab[t].asks
<1>1. ASSUME NEW first \in {"telestos", "tokens"}, Asks(t, "DELETE", <<first, "{id}">>)
      PROVE  /\ first = "telestos" => IdOf(t) \in TelestoId
             /\ first = "tokens" => IdOf(t) \in TokenId
  <2>1. ask \in Deletions /\ ask.path \in Path
    BY <1>1, AskedPath, AskedByMethod
  <2>2. ask.path = <<first, ask.path[2]>>
    BY <1>1, <2>1, AskedPath, RowRoute
  <2>3. ask.path[1] = first
    BY <2>2, Pair
  <2>4. ASSUME NEW i \in TelestoId, ask.path = <<"telestos", i>>
        PROVE  ask.path[1] = "telestos" /\ ask.path[2] \in TelestoId
    BY <2>4, Pair
  <2>5. ASSUME NEW k \in TokenId, ask.path = <<"tokens", k>>
        PROVE  ask.path[1] = "tokens" /\ ask.path[2] \in TokenId
    BY <2>5, Pair
  <2>6. \/ \E i \in TelestoId : ask.path = <<"telestos", i>>
        \/ \E k \in TokenId : ask.path = <<"tokens", k>>
    BY <2>1 DEF Deletions, Requests
  <2> QED
    BY <2>3, <2>4, <2>5, <2>6 DEF IdOf
<1> QED
  BY <1>1

-----------------------------------------------------------------------------
(* The actions.                                                            *)

\* The user is one of the owners that rows may have.
LEMMA MeIsOwner == Me \in Owner
  BY PagesAssumption DEF Owner

\* Every link of a page is a path.
LEMMA LinksArePaths ==
    ASSUME Inv, NEW t \in Tab, NEW link \in tab[t].page.links PROVE link \in Path
<1>1. Sound(tab[t].page)
  BY ShownIsSound DEF Inv, Typed, TabRecord
<1>2. link \in Live \/ \E k \in TokenId : link = <<"tokens", "edit", k>>
  BY <1>1 DEF Sound
<1> QED
  BY <1>2, LiveRouted DEF Path

\* What the user may do next.
LEMMA UserKeepsInv ==
    ASSUME Inv, NEW t \in Tab,
           Click(t) \/ TypeAddress(t) \/ Reload(t) \/ Submit(t) \/ SubmitByClient(t)
    PROVE  Inv' /\ Act(Me)
<1>1. CASE Click(t)
  <2>1. PICK link \in tab[t].page.links : tab' = [tab EXCEPT ![t].asks = Visit(link)]
    BY <1>1 DEF Click
  <2>2. Visit(link) \in Asked /\ Visit(link).method = "GET" /\ ~Visit(link).background
    BY LinksArePaths, VisitIsAsked DEF Kept
  <2> QED
    BY <1>1, <2>1, <2>2, AskingKeepsInv DEF Click
<1>2. CASE TypeAddress(t)
  <2>1. PICK k \in TokenId : tab' = [tab EXCEPT ![t].asks = Visit(<<"tokens", k, "edit">>)]
    BY <1>2 DEF TypeAddress
  <2> DEFINE path == <<"tokens", k, "edit">>
  <2>2. path \in Path
    BY DEF Path
  <2> HIDE DEF path
  <2>3. Visit(path) \in Asked /\ Visit(path).method = "GET" /\ ~Visit(path).background
    BY <2>2, VisitIsAsked DEF Kept
  <2> QED
    BY <1>2, <2>1, <2>3, AskingKeepsInv DEF TypeAddress, path
<1>3. CASE Reload(t)
  <2>1. tab[t].last \in Asked
    BY DEF Inv, Typed, TabRecord, Kept
  <2> QED
    BY <1>3, <2>1, AskingKeepsInv DEF Reload
<1>4. CASE Submit(t)
  <2>1. PICK form \in tab[t].page.forms : \E body \in Bodies(form) :
           Send(t, Ask(form.method, form.path, body, form.method # "POST"))
    BY <1>4 DEF Submit
  <2>2. PICK body \in Bodies(form) :
           Send(t, Ask(form.method, form.path, body, form.method # "POST"))
    BY <2>1
  <2>3. Given(form)
    BY ShownIsSound DEF Inv, Typed, TabRecord, Sound
  <2> DEFINE ask == Ask(form.method, form.path, body, form.method # "POST")
  <2>4. ask \in Asked /\ Send(t, ask)
    BY <2>2, <2>3, SentIsAsked
  <2> HIDE DEF ask
  <2> QED
    BY <2>4, AskingKeepsInv DEF Send
<1>5. CASE SubmitByClient(t)
  <2>1. PICK ask \in Asked : Send(t, ask)
    BY <1>5, ClientIsAsked DEF SubmitByClient
  <2> QED
    BY <2>1, AskingKeepsInv DEF Send
<1> QED
  BY <1>1, <1>2, <1>3, <1>4, <1>5

\* The answers that leave the tables alone.
LEMMA ReadingKeepsInv ==
    ASSUME Inv, NEW t \in Tab, tab[t].asks # None, Reads,
           \/ \E page \in Shown : Show(t, page)
           \/ ShowError(t)
    PROVE  Inv' /\ Act(Me)
<1>1. Act(Me)
  BY MeIsOwner, UnchangedActs DEF Inv, Reads
<1> QED
  BY <1>1, ShowKeepsInv DEF Reads

\* The rows that a handler finds.
LEMMA FoundRows ==
    ASSUME Inv
    PROVE  /\ \A i \in TelestosForUser(Me) : i \in TelestoId /\ telestos[i] \in TelestoRow
           /\ \A k \in TokensForUser(Me) : k \in TokenId /\ tokens[k] \in TokenRow
  BY DEF Inv, Consistent, DbTypeOK, TelestosForUser, TokensForUser, Telestos, Tokens

\* The pages that the handlers make of rows.
LEMMA PagesOfRows ==
    /\ \A is \in SUBSET TelestoId : TelestosPage(is) \in Shown /\ NewTokenPage(is) \in Shown
    /\ \A i \in TelestoId, row \in TelestoRow :
          TelestoPage(i, row) \in Shown /\ EditTelestoPage(i, row) \in Shown
    /\ \A ks \in SUBSET TokenId, is \in SUBSET TelestoId : TokensPage(ks, is) \in Shown
    /\ \A k \in TokenId, row \in TokenRow :
          TokenPage(k, row) \in Shown /\ EditTokenPage(k, row) \in Shown
  BY DEF Shown, TelestoPages, TokenPages

\* The handlers that answer with a page, and the answers without one.
LEMMA GettingKeepsInv ==
    ASSUME Inv, NEW t \in Tab,
           \/ NotFound(t) \/ Fails(t) \/ Lost(t)
           \/ GetIndex(t) \/ GetConsole(t)
           \/ GetTelestos(t) \/ GetTelesto(t) \/ NewTelesto(t) \/ EditTelesto(t)
           \/ GetTokens(t) \/ GetToken(t) \/ NewToken(t) \/ EditToken(t)
    PROVE  Inv' /\ Act(Me)
<1>1. CASE NotFound(t) \/ Lost(t)
  BY <1>1, ReadingKeepsInv DEF NotFound, Lost
<1>2. CASE Fails(t)
  <2>1. tab[t].asks # None /\ Reads /\ (ShowError(t) \/ Show(t, Blank))
    BY <1>2 DEF Fails, Asks
  <2> QED
    BY <2>1, ReadingKeepsInv DEF Shown, PlainPages
<1>3. CASE GetIndex(t) \/ GetConsole(t) \/ NewTelesto(t)
  BY <1>3, ReadingKeepsInv DEF GetIndex, GetConsole, NewTelesto, Asks, Shown, PlainPages
<1>4. CASE GetTelestos(t)
  <2>1. PICK is \in {TelestosForUser(Me), {}} : Show(t, TelestosPage(is))
    BY <1>4 DEF GetTelestos
  <2>2. TelestosPage(is) \in Shown
    BY FoundRows, PagesOfRows
  <2> QED
    BY <1>4, <2>1, <2>2, ReadingKeepsInv DEF GetTelestos, Asks
<1>5. CASE GetTelesto(t)
  BY <1>5, FoundRows, PagesOfRows, ReadingKeepsInv DEF GetTelesto, Asks
<1>6. CASE EditTelesto(t)
  BY <1>6, FoundRows, PagesOfRows, ReadingKeepsInv DEF EditTelesto, Asks
<1>7. CASE GetTokens(t)
  <2>1. PICK ks \in {TokensForUser(Me), {}} :
           Show(t, TokensPage(ks, {tokens[k].telesto : k \in ks}))
    BY <1>7 DEF GetTokens
  <2>2. ks \in SUBSET TokenId
    BY FoundRows
  <2>3. {tokens[k].telesto : k \in ks} \in SUBSET TelestoId
    BY FoundRows DEF TokenRow
  <2>4. TokensPage(ks, {tokens[k].telesto : k \in ks}) \in Shown
    BY <2>2, <2>3, PagesOfRows
  <2> QED
    BY <1>7, <2>1, <2>4, ReadingKeepsInv DEF GetTokens, Asks
<1>8. CASE NewToken(t)
  <2>1. NewTokenPage(TelestosForUser(Me)) \in Shown
    BY FoundRows, PagesOfRows
  <2> QED
    BY <1>8, <2>1, ReadingKeepsInv DEF NewToken, Asks
<1>9. CASE EditToken(t)
  BY <1>9, FoundRows, PagesOfRows, ReadingKeepsInv DEF EditToken, Asks
<1>10. CASE GetToken(t)
  <2>1. /\ tab[t].asks # None /\ IdOf(t) \in TokensForUser(Me) /\ made' = made
        /\ Show(t, TokenPage(IdOf(t), tokens[IdOf(t)])) \/ ShowError(t)
        /\ MarkTokenSeen(Me, IdOf(t)) \/ UNCHANGED dbVars
    BY <1>10 DEF GetToken, Asks
  <2>2. IdOf(t) \in TokenId /\ TokenPage(IdOf(t), tokens[IdOf(t)]) \in Shown
    BY <2>1, FoundRows, PagesOfRows
  <2>3. Act(Me)
    BY <2>1, <2>2, MeIsOwner, MarkTokenSeenActs, UnchangedActs DEF Inv
  <2> QED
    BY <2>1, <2>2, <2>3, ShowKeepsInv
<1> QED
  BY <1>1, <1>2, <1>3, <1>4, <1>5, <1>6, <1>7, <1>8, <1>9, <1>10

\* A body that a handler accepts has a name.
LEMMA DecodedName ==
    ASSUME NEW body \in TelestoBody \cup EditBody \cup TokenBody \cup RenameBody,
           NEW struct \in {NewTelestoForm, NewTokenForm, EditTelestoForm}, Decodes(struct, body)
    PROVE  body.name \in Name
<1>1. body.name \in NameField
  BY DEF TelestoBody, EditBody, TokenBody, RenameBody
<1>2. "name" \in struct.required
  BY DEF NewTelestoForm, NewTokenForm, EditTelestoForm
<1>3. body["name"] # NoName
  BY <1>2 DEF Decodes
<1> QED
  BY <1>1, <1>3 DEF NameField

\* After a write, the redirect to the row, or an answer that does not tell of it.
LEMMA WritingKeepsInv ==
    ASSUME Inv, NEW t \in Tab, tab[t].asks \in Asked, tab[t].asks # None,
           tab[t].asks.method # "GET", tab[t].asks.background \in BOOLEAN, Act(Me),
           NEW path, NEW id, NEW row,
           \/ path = <<"telestos", id>> /\ id \in TelestoId /\ row = telestos'[id]
           \/ path = <<"tokens", id>> /\ id \in TokenId /\ row = tokens'[id],
           \/ Updates(t, path, id, row)
           \/ (Creates(t, path, id, row) /\ ~tab[t].asks.background)
    PROVE  Inv'
<1>1. CASE /\ Redirect(t, path, id, row)
           /\ made' = made \/ (CountsTold(t) /\ ~tab[t].asks.background)
  <2> DEFINE ask == Landing(path, id, row, tab[t].asks.background)
  <2>1. \/ path = <<"telestos", id>> /\ id \in TelestoId /\ row \in TelestoRow \cup {None}
        \/ path = <<"tokens", id>> /\ id \in TokenId /\ row \in TokenRow \cup {None}
    BY DEF Act, Consistent, DbTypeOK
  <2>2. ask \in Asked /\ ask.method = "GET" /\ ask.background = tab[t].asks.background
    BY <2>1, LandingIsAsked
  <2>3. tab' = [tab EXCEPT ![t].asks = ask]
    BY <1>1 DEF Redirect, Landing
  <2> HIDE DEF ask
  <2> QED
    BY <1>1, <2>2, <2>3, RedirectingKeepsInv
<1>2. CASE /\ Unacknowledged(t)
           /\ made' = made \/ made' = [made EXCEPT ![t].rows = @ + 1]
  BY <1>2, ShowKeepsInv DEF Unacknowledged, Shown, PlainPages
<1> QED
  BY <1>1, <1>2 DEF Updates, Creates, CountsTold

\* After a deletion.
LEMMA DeletingKeepsInv ==
    ASSUME Inv, NEW t \in Tab, tab[t].asks # None, tab[t].asks.method # "GET", Act(Me),
           NEW path \in Path, Deletes(t, path)
    PROVE  Inv'
<1>1. CASE RedirectPage(t, path) /\ made' = made
  <2>1. Visit(path) \in Asked /\ Visit(path).method = "GET"
    BY VisitIsAsked DEF Kept
  <2> QED
    BY <1>1, <2>1, RedirectingKeepsInv DEF RedirectPage
<1>2. CASE Unacknowledged(t) /\ made' = made
  BY <1>2, ShowKeepsInv DEF Unacknowledged, Shown, PlainPages
<1> QED
  BY <1>1, <1>2 DEF Deletes

\* The handlers of forms.
LEMMA SubmittingKeepsInv ==
    ASSUME Inv, NEW t \in Tab,
           \/ NewTelestoSubmit(t) \/ EditTelestoSubmit(t) \/ DeleteTelestoSubmit(t)
           \/ NewTokenSubmit(t) \/ EditTokenSubmit(t) \/ DeleteTokenSubmit(t)
    PROVE  Inv' /\ Act(Me)
<1> DEFINE body == tab[t].asks.body
<1>1. CASE NewTelestoSubmit(t)
  <2>0. Asks(t, "POST", <<"telestos", "new">>)
    BY <1>1 DEF NewTelestoSubmit
  <2>1. tab[t].asks \in TelestoPosts
    BY <2>0, PostedTelesto
  <2>2. body \in TelestoBody \cup EditBody /\ ~tab[t].asks.background
    BY <2>1 DEF TelestoPosts, Requests
  <2>3. body.destinationUrl \in Url \cup {NoUrl}
    BY <2>2 DEF TelestoBody, EditBody, UrlField
  <2>4. body.name \in Name
    BY <1>1, <2>2, DecodedName DEF NewTelestoSubmit
  <2>5. PICK i \in TelestoId : /\ CreateTelesto(i, Me, body.name, body.destinationUrl)
                               /\ Creates(t, <<"telestos", i>>, i, telestos'[i])
    BY <1>1 DEF NewTelestoSubmit
  <2>6. Act(Me)
    BY <2>3, <2>4, <2>5, MeIsOwner, CreateTelestoActs DEF Inv
  <2>8. /\ tab[t].asks \in Asked /\ tab[t].asks # None
        /\ tab[t].asks.method # "GET" /\ tab[t].asks.background \in BOOLEAN
    BY <2>0, AskedPath
  <2> QED
    BY <2>2, <2>5, <2>6, <2>8, WritingKeepsInv
<1>2. CASE EditTelestoSubmit(t)
  <2>1. Asks(t, "PUT", <<"telestos", "{id}", "edit">>)
    BY <1>2 DEF EditTelestoSubmit
  <2>2. tab[t].asks \in TelestoPuts /\ IdOf(t) \in TelestoId
    BY <2>1, PutTelesto
  <2>3. body \in EditBody
    BY <2>2 DEF TelestoPuts, Requests
  <2>4. body.name \in Name /\ body.authorizationHeader \in BOOLEAN
    BY <1>2, <2>3, DecodedName DEF EditTelestoSubmit, EditBody
  <2>5. /\ UpdateTelesto(Me, IdOf(t), body.name, NoUrl, body.authorizationHeader)
        /\ Updates(t, <<"telestos", IdOf(t)>>, IdOf(t), telestos'[IdOf(t)])
    BY <1>2 DEF EditTelestoSubmit
  <2>6. Act(Me)
    BY <2>2, <2>4, <2>5, MeIsOwner, UpdateTelestoActs DEF Inv
  <2>7. /\ tab[t].asks \in Asked /\ tab[t].asks # None
        /\ tab[t].asks.method # "GET" /\ tab[t].asks.background \in BOOLEAN
    BY <2>1, <2>2 DEF Asks, Asked, TelestoPuts, Requests
  <2> QED
    BY <2>2, <2>5, <2>6, <2>7, WritingKeepsInv
<1>3. CASE DeleteTelestoSubmit(t)
  <2>1. /\ Asks(t, "DELETE", <<"telestos", "{id}">>)
        /\ DeleteTelesto(Me, IdOf(t)) /\ Deletes(t, <<"telestos">>)
    BY <1>3 DEF DeleteTelestoSubmit
  <2>2. Act(Me)
    BY <2>1, MeIsOwner, DeletedRow, DeleteTelestoActs DEF Inv
  <2>3. tab[t].asks # None /\ tab[t].asks.method # "GET"
    BY <2>1 DEF Asks
  <2>4. <<"telestos">> \in Path
    BY DEF Path, Console, Sidebar
  <2> QED
    BY <2>1, <2>2, <2>3, <2>4, DeletingKeepsInv
<1>4. CASE NewTokenSubmit(t)
  <2>0. Asks(t, "POST", <<"tokens", "new">>)
    BY <1>4 DEF NewTokenSubmit
  <2>1. tab[t].asks \in TokenPosts
    BY <2>0, PostedToken
  <2>2. body \in TokenBody /\ ~tab[t].asks.background
    BY <2>1 DEF TokenPosts, Requests
  <2>3. body.name \in Name
    BY <1>4, <2>2, DecodedName DEF NewTokenSubmit
  <2>4. body.telesto_id \in TelestoId /\ telestos[body.telesto_id].user = Me
    BY <1>4, FoundRows DEF NewTokenSubmit, TelestosForUser
  <2>5. PICK k \in TokenId : /\ CreateToken(k, Me, body.telesto_id, body.name)
                             /\ Creates(t, <<"tokens", k>>, k, tokens'[k])
    BY <1>4 DEF NewTokenSubmit
  <2>6. Act(Me)
    BY <2>3, <2>4, <2>5, MeIsOwner, CreateTokenActs DEF Inv
  <2>8. /\ tab[t].asks \in Asked /\ tab[t].asks # None
        /\ tab[t].asks.method # "GET" /\ tab[t].asks.background \in BOOLEAN
    BY <2>0, AskedPath
  <2> QED
    BY <2>2, <2>5, <2>6, <2>8, WritingKeepsInv
<1>5. CASE EditTokenSubmit(t)
  <2>1. Asks(t, "PUT", <<"tokens", "{id}", "edit">>)
    BY <1>5 DEF EditTokenSubmit
  <2>2. tab[t].asks \in TokenPuts /\ IdOf(t) \in TokenId
    BY <2>1, PutToken
  <2>3. body \in RenameBody
    BY <2>2 DEF TokenPuts, Requests
  <2>4. body.name \in Name
    BY <1>5, <2>3, DecodedName DEF EditTokenSubmit
  <2>5. /\ UpdateToken(Me, IdOf(t), body.name)
        /\ Updates(t, <<"tokens", IdOf(t)>>, IdOf(t), tokens'[IdOf(t)])
    BY <1>5 DEF EditTokenSubmit
  <2>6. Act(Me)
    BY <2>2, <2>4, <2>5, MeIsOwner, UpdateTokenActs DEF Inv
  <2>7. /\ tab[t].asks \in Asked /\ tab[t].asks # None
        /\ tab[t].asks.method # "GET" /\ tab[t].asks.background \in BOOLEAN
    BY <2>1, <2>2 DEF Asks, Asked, TokenPuts, Requests
  <2> QED
    BY <2>2, <2>5, <2>6, <2>7, WritingKeepsInv
<1>6. CASE DeleteTokenSubmit(t)
  <2>1. /\ Asks(t, "DELETE", <<"tokens", "{id}">>)
        /\ DeleteToken(Me, IdOf(t)) /\ Deletes(t, <<"tokens">>)
    BY <1>6 DEF DeleteTokenSubmit
  <2>2. Act(Me)
    BY <2>1, MeIsOwner, DeletedRow, DeleteTokenActs DEF Inv
  <2>3. tab[t].asks # None /\ tab[t].asks.method # "GET"
    BY <2>1 DEF Asks
  <2>4. <<"tokens">> \in Path
    BY DEF Path, Console, Sidebar
  <2> QED
    BY <2>1, <2>2, <2>3, <2>4, DeletingKeepsInv
<1> QED
  BY <1>1, <1>2, <1>3, <1>4, <1>5, <1>6

\* A step is an act of the user.
LEMMA NextKeepsInv == ASSUME Inv, Next PROVE Inv' /\ Act(Me)
<1>1. PICK t \in Tab : \/ Click(t) \/ TypeAddress(t) \/ Reload(t)
                       \/ Submit(t) \/ SubmitByClient(t) \/ Answer(t)
  BY DEF Next
<1>2. CASE Answer(t)
  BY <1>2, GettingKeepsInv, SubmittingKeepsInv DEF Answer
<1> QED
  BY <1>1, <1>2, UserKeepsInv

\* The first page of every tab.
LEMMA InitImpliesInv == Init => Inv
<1> SUFFICES ASSUME Init PROVE Inv
  OBVIOUS
<1>1. PICK page \in {IndexPage(FALSE), ConsolePage} :
         tab = [t \in Tab |-> [page |-> page, last |-> Visit(<<"console">>), asks |-> None]]
  BY DEF Init
<1>2. page \in Shown
  BY DEF Shown, PlainPages
<1>3. <<"console">> \in Path
  BY DEF Path, Console, Nav
<1>4. Visit(<<"console">>) \in Kept
  BY <1>3, VisitIsAsked
<1>5. Typed
  BY <1>1, <1>2, <1>4 DEF Init, Typed, TabRecord, Made, NoRows
<1>6. Consistent
  BY DEF Init, DbInit, Consistent, DbTypeOK, RowsAreIssued, TokenBelongsToOwner, UniqueNames,
         Telestos, Tokens
<1>7. MadeOnce
  BY DEF Init, MadeOnce, NoRows
<1> QED
  BY <1>5, <1>6, <1>7 DEF Inv

\* Every state of every behavior satisfies the invariant.
LEMMA InvInductive == Spec => []Inv
<1>1. ASSUME Inv, UNCHANGED vars PROVE Inv'
  BY <1>1 DEF vars, Inv, Consistent, DbTypeOK, RowsAreIssued, TokenBelongsToOwner,
              UniqueNames, TelestoNameFree, TokenNameFree, Telestos, Tokens, Typed, MadeOnce
<1> QED
  BY <1>1, InitImpliesInv, NextKeepsInv, PTL DEF Spec

-----------------------------------------------------------------------------
(* What follows.                                                           *)

\* Every variable has its type: whatever a tab shows or waits for is made of rows,
\* paths and bodies that exist.
THEOREM TypeCorrect == Spec => []TypeOK
<1>1. Inv => TypeOK
  <2> SUFFICES ASSUME Inv PROVE TypeOK
    OBVIOUS
  <2>1. DbTypeOK /\ made \in [Tab -> [rows: Nat, told: Nat]]
    BY DEF Inv, Consistent, Typed, Made
  <2>2. ASSUME NEW t \in Tab
        PROVE  /\ tab[t].page.row \in TelestoRow \cup TokenRow \cup {None}
               /\ tab[t].asks \in Request \cup {None} /\ tab[t].last \in Request
    <3>1. tab[t].page \in Shown /\ tab[t].asks \in Asked \cup {None} /\ tab[t].last \in Asked
      BY DEF Inv, Typed, TabRecord, Kept
    <3>2. tab[t].page.row \in TelestoRow \cup TokenRow \cup {None}
      BY <3>1, ShownIsSound DEF Sound
    <3> QED
      BY <3>1, <3>2, AskedIsRequest
  <2> QED
    BY <2>1, <2>2 DEF TypeOK
<1> QED
  BY <1>1, InvInductive, PTL

\* Once its redirect has reached the tab, a form creates no further row, however often
\* the tab is reloaded, whatever is lost or fails and whatever the other tabs do: the
\* tab then holds the request of a page, no longer that of the form.
THEOREM SubmittedOnce == Spec => []OncePerSubmit
<1>1. Inv => OncePerSubmit
  BY DEF Inv, MadeOnce, OncePerSubmit
<1> QED
  BY <1>1, InvInductive, PTL

\* Every form of a page has a route, and every link but "Edit" on the page of a token,
\* whatever the ids of the rows.
THEOREM OnlyEditTokenIsDead == Spec => []LinksWork
<1>1. Inv => LinksWork
  <2> SUFFICES ASSUME Inv, NEW t \in Tab
               PROVE  LET page == tab[t].page IN
                      /\ \A form \in page.forms : Routed(form.method, form.path)
                      /\ IF page.view = "token"
                           THEN \E k \in TokenId : DeadLinks(page) = {<<"tokens", "edit", k>>}
                           ELSE DeadLinks(page) = {}
    BY DEF LinksWork
  <2> DEFINE page == tab[t].page
  <2>1. Sound(page)
    BY ShownIsSound DEF Inv, Typed, TabRecord
  <2> HIDE DEF page
  <2>2. ASSUME NEW form, Given(form) PROVE Routed(form.method, form.path)
    <3>1. CASE form = Form("POST", <<"telestos", "new">>, EmptyFields, {})
      BY <3>1, RowRouted DEF Form
    <3>2. ASSUME NEW is,
                 form = Form("POST", <<"tokens", "new">>,
                             [name |-> NoName, telesto_id |-> None], is)
          PROVE  Routed(form.method, form.path)
      BY <3>2, RowRouted DEF Form
    <3>3. ASSUME NEW first \in {"telestos", "tokens"}, NEW id, NEW fields,
                 form = Form("PUT", <<first, id, "edit">>, fields, {})
          PROVE  Routed(form.method, form.path)
      BY <3>3, RowRouted DEF Form
    <3>4. ASSUME NEW first \in {"telestos", "tokens"}, NEW id, form = DeleteButton(<<first, id>>)
          PROVE  Routed(form.method, form.path)
      BY <3>4, RowRouted DEF DeleteButton, Form
    <3> QED
      BY <2>2, <3>1, <3>2, <3>3, <3>4 DEF Given
  <2>3. ASSUME page.view = "token"
        PROVE  \E k \in TokenId : DeadLinks(page) = {<<"tokens", "edit", k>>}
    <3>1. PICK k \in TokenId : /\ <<"tokens", "edit", k>> \in page.links
                              /\ page.links \subseteq Live \cup {<<"tokens", "edit", k>>}
      BY <2>1, <2>3 DEF Sound
    <3>2. DeadLinks(page) = {<<"tokens", "edit", k>>}
      BY <3>1, LiveRouted, EditTokenLinkIsDead DEF DeadLinks
    <3> QED
      BY <3>2
  <2>4. ASSUME page.view # "token" PROVE DeadLinks(page) = {}
    BY <2>1, <2>4, LiveRouted DEF Sound, DeadLinks
  <2>5. /\ \A form \in page.forms : Routed(form.method, form.path)
        /\ IF page.view = "token"
             THEN \E k \in TokenId : DeadLinks(page) = {<<"tokens", "edit", k>>}
             ELSE DeadLinks(page) = {}
    BY <2>1, <2>2, <2>3, <2>4 DEF Sound
  <2> QED
    BY <2>5 DEF page
<1> QED
  BY <1>1, InvInductive, PTL

\* The portal behind the pages changes the tables as the registry allows its user to.
THEOREM PagesImplementRegistry == Spec => RegistrySpec
<1>1. Init => DbInit
  BY DEF Init
<1>2. Inv /\ [Next]_vars => [UserStep]_dbVars
  BY NextKeepsInv, MeIsOwner DEF UserStep, vars, dbVars
<1> QED
  BY <1>1, <1>2, InvInductive, PTL DEF Spec, RegistrySpec

-----------------------------------------------------------------------------
(* The steps of the user between a form and the row he is shown.           *)

\* A tab is changed by its own steps, and answered by an answer.
LEMMA AnsweredByAnswer ==
    ASSUME Inv, Next, NEW t \in Tab, Answered(t)
    PROVE  Answer(t)
<1>1. PICK u \in Tab : \/ Click(u) \/ TypeAddress(u) \/ Reload(u)
                       \/ Submit(u) \/ SubmitByClient(u) \/ Answer(u)
  BY DEF Next
<1>2. ASSUME Answer(u) PROVE \A v \in Tab : v # u => tab'[v] = tab[v]
  BY <1>2 DEF Answer, NotFound, Fails, Lost, GetIndex, GetConsole, GetTelestos, GetTelesto,
              NewTelesto, EditTelesto, GetTokens, GetToken, NewToken, EditToken, NewTelestoSubmit,
              EditTelestoSubmit, DeleteTelestoSubmit, NewTokenSubmit, EditTokenSubmit,
              DeleteTokenSubmit, Updates, Creates, Deletes, Unacknowledged,
              Show, ShowError, Redirect, RedirectPage, Inv, Typed
<1>3. ASSUME ~Answer(u)
      PROVE  tab[u].asks = None /\ \A v \in Tab : v # u => tab'[v] = tab[v]
  BY <1>1, <1>3 DEF Click, TypeAddress, Reload, Submit, SubmitByClient, Send, Inv, Typed
<1> QED
  BY <1>2, <1>3 DEF Answered

-----------------------------------------------------------------------------
(* The redirect after a form.                                              *)

\* Rows of the two tables have different columns.
LEMMA RowsDiffer ==
    ASSUME NEW row \in TelestoRow
    PROVE  row \notin TokenRow /\ Content(row) = row
<1>1. ASSUME row \in TokenRow PROVE FALSE
  <2>1. DOMAIN row = {"user", "telesto", "name", "seen"}
    BY <1>1 DEF TokenRow
  <2>2. DOMAIN row = {"user", "name", "url", "auth"}
    BY DEF TelestoRow
  <2> QED
    BY <2>1, <2>2
<1> QED
  BY <1>1 DEF Content

\* What a token says is a row of a token.
LEMMA ContentIsRow == ASSUME NEW row \in TokenRow PROVE Content(row) \in TokenRow
  BY DEF Content, TokenRow

\* A row that is as written is found in the table it was written to.
LEMMA StoredInItsTable ==
    ASSUME Inv, NEW written, Stored(written)
    PROVE  /\ written \in TelestoWritten =>
                 written.id \in Telestos /\ telestos[written.id] = written.row
           /\ written \in TokenWritten =>
                 /\ written.id \in Tokens
                 /\ Content(tokens[written.id]) = Content(written.row)
<1>1. /\ \A i \in Telestos : telestos[i] \in TelestoRow
      /\ \A k \in Tokens : tokens[k] \in TokenRow
  BY DEF Inv, Consistent, DbTypeOK, Telestos, Tokens
<1>2. CASE written \in TelestoWritten
  <2>1. written.row \in TelestoRow
    BY <1>2 DEF TelestoWritten
  <2>2. Content(written.row) \notin TokenRow
    BY <2>1, RowsDiffer
  <2>3. written.id \in Telestos /\ telestos[written.id] = written.row
    BY <1>1, <2>2, ContentIsRow DEF Stored
  <2> QED
    BY <2>1, <2>3, RowsDiffer DEF TokenWritten
<1>3. CASE written \in TokenWritten
  <2>1. written.row \in TokenRow
    BY <1>3 DEF TokenWritten
  <2>2. ~(written.id \in Telestos /\ telestos[written.id] = written.row)
    BY <1>1, <2>1, RowsDiffer
  <2>3. written.id \in Tokens /\ Content(tokens[written.id]) = Content(written.row)
    BY <2>2 DEF Stored
  <2> QED
    BY <2>1, <2>3, RowsDiffer DEF TelestoWritten
<1> QED
  BY <1>2, <1>3

\* The redirects are those requests that carry a row.
LEMMA WroteIsLanding ==
    ASSUME NEW ask \in Asked, ask.wrote # None
    PROVE  /\ ask \in Landings /\ ask.method = "GET"
           /\ \/ ask.wrote \in TelestoWritten /\ ask.path = <<"telestos", ask.wrote.id>>
              \/ ask.wrote \in TokenWritten /\ ask.path = <<"tokens", ask.wrote.id>>
<1>1. ask \in Landings
  BY DEF Asked, Visits, TelestoPosts, TokenPosts, TelestoPuts, TokenPuts, Deletions, Requests
<1> QED
  BY <1>1 DEF Landings, Requests

\* Only the route of its row takes a redirect: no id is "new".
LEMMA LandingRoute ==
    ASSUME Inv, NEW t \in Tab, tab[t].asks \in Asked, tab[t].asks.wrote # None,
           NEW pattern, Asks(t, "GET", pattern)
    PROVE  /\ Len(pattern) = 2 /\ IdOf(t) = tab[t].asks.wrote.id
           /\ pattern[2] # "new"
           /\ pattern[1] = "telestos" => tab[t].asks.wrote \in TelestoWritten
           /\ pattern[1] = "tokens" => tab[t].asks.wrote \in TokenWritten
<1> DEFINE path    == tab[t].asks.path
           written == tab[t].asks.wrote
<1>1. \/ written \in TelestoWritten /\ path = <<"telestos", written.id>>
      \/ written \in TokenWritten /\ path = <<"tokens", written.id>>
  BY WroteIsLanding
<1>2. /\ path[2] = written.id /\ Len(path) = 2 /\ DOMAIN path = {1, 2}
      /\ \/ written \in TelestoWritten /\ path[1] = "telestos"
         \/ written \in TokenWritten /\ path[1] = "tokens"
  BY <1>1, Pair
<1>3. written.id # "new"
  BY <1>1, PagesAssumption DEF TelestoWritten, TokenWritten
<1>4. Matches(pattern, path)
  BY DEF Asks
<1>5. IdOf(t) = path[2]
  BY DEF IdOf
<1> HIDE DEF path, written
<1>6. /\ Len(pattern) = 2
      /\ pattern[1] \in {"{id}", path[1]} /\ pattern[2] \in {"{id}", path[2]}
  BY <1>2, <1>4 DEF Matches
<1>7. /\ Len(pattern) = 2 /\ IdOf(t) = written.id /\ pattern[2] # "new"
      /\ pattern[1] = "telestos" => written \in TelestoWritten
      /\ pattern[1] = "tokens" => written \in TokenWritten
  BY <1>2, <1>3, <1>5, <1>6
<1> QED
  BY <1>7 DEF written

\* So the answers to a redirect are the row's page and those that show nothing.
LEMMA LandingAnswered ==
    ASSUME Inv, NEW t \in Tab, Answer(t), tab[t].asks \in Asked, tab[t].asks.wrote # None
    PROVE  NotFound(t) \/ Fails(t) \/ Lost(t) \/ GetTelesto(t) \/ GetToken(t)
<1>1. tab[t].asks.method = "GET"
  BY WroteIsLanding
<1>2. ~Asks(t, "GET", <<>>)
  BY LandingRoute
<1>3. ASSUME NEW first, Asks(t, "GET", <<first>>) PROVE FALSE
  <2> DEFINE pattern == <<first>>
  <2>1. Asks(t, "GET", pattern) /\ Len(pattern) = 1
    BY <1>3, Single
  <2> HIDE DEF pattern
  <2> QED
    BY <2>1, LandingRoute
<1>4. ASSUME NEW first, Asks(t, "GET", <<first, "new">>) PROVE FALSE
  <2> DEFINE pattern == <<first, "new">>
  <2>1. Asks(t, "GET", pattern) /\ pattern[2] = "new"
    BY <1>4, Pair
  <2> HIDE DEF pattern
  <2> QED
    BY <2>1, LandingRoute
<1>5. ASSUME NEW first, Asks(t, "GET", <<first, "{id}", "edit">>) PROVE FALSE
  <2> DEFINE pattern == <<first, "{id}", "edit">>
  <2>1. Asks(t, "GET", pattern) /\ Len(pattern) = 3
    BY <1>5, Triple
  <2> HIDE DEF pattern
  <2> QED
    BY <2>1, LandingRoute
<1>6. ~(GetIndex(t) \/ GetConsole(t) \/ GetTelestos(t) \/ GetTokens(t))
  BY <1>2, <1>3 DEF GetIndex, GetConsole, GetTelestos, GetTokens
<1>7. ~(NewTelesto(t) \/ NewToken(t))
  BY <1>4 DEF NewTelesto, NewToken
<1>8. ~(EditTelesto(t) \/ EditToken(t))
  BY <1>5 DEF EditTelesto, EditToken
<1>9. ~(\/ NewTelestoSubmit(t) \/ EditTelestoSubmit(t) \/ DeleteTelestoSubmit(t)
        \/ NewTokenSubmit(t) \/ EditTokenSubmit(t) \/ DeleteTokenSubmit(t))
  BY <1>1 DEF Asks, NewTelestoSubmit, EditTelestoSubmit, DeleteTelestoSubmit, NewTokenSubmit,
              EditTokenSubmit, DeleteTokenSubmit
<1> QED
  BY <1>6, <1>7, <1>8, <1>9 DEF Answer

\* After a form has been accepted its tab shows the row as written, if it still is as
\* written, or nothing: a redirect never ends at another row, another table or the form
\* for a new row, whatever the ids are and whatever the other tabs do meanwhile.
THEOREM LandedOnWrittenRow == Spec => LandsOnWrittenRow
<1>1. ASSUME Inv, Next, NEW t \in Tab PROVE Lands(t)
  <2> DEFINE ask == tab[t].asks
             new == tab'[t].page
  <2> SUFFICES ASSUME Answered(t), ask.wrote # None, Stored(ask.wrote)
               PROVE  \/ new.view \in {"blank", "error"} \/ new = tab[t].page
                      \/ Content(new.row) = Content(ask.wrote.row)
    BY DEF Lands
  <2>1. Answer(t) /\ ask # None
    BY <1>1, AnsweredByAnswer DEF Answered
  <2>2. ask \in Asked /\ tab \in [Tab -> TabRecord]
    BY <1>1, <2>1 DEF Inv, Typed, TabRecord
  <2>3. NotFound(t) \/ Fails(t) \/ Lost(t) \/ GetTelesto(t) \/ GetToken(t)
    BY <1>1, <2>1, <2>2, LandingAnswered
  <2>4. ASSUME NEW page, Show(t, page) PROVE new = page
    BY <2>2, <2>4 DEF Show, TabRecord
  <2>5. ASSUME ShowError(t) PROVE new = Error \/ new = tab[t].page
    <3>1. CASE ask.background
      BY <2>2, <2>5, <3>1 DEF ShowError, TabRecord
    <3>2. CASE ~ask.background
      BY <2>4, <2>5, <3>2 DEF ShowError
    <3> QED
      BY <3>1, <3>2
  <2>6. CASE NotFound(t) \/ Fails(t) \/ Lost(t)
    <3>1. new = Blank \/ new = Error \/ new = tab[t].page
      BY <2>4, <2>5, <2>6 DEF NotFound, Fails, Lost
    <3> QED
      BY <3>1 DEF Blank, Error, View
  <2>7. CASE GetTelesto(t)
    <3> DEFINE pattern == <<"telestos", "{id}">>
    <3>1. Asks(t, "GET", pattern) /\ pattern[1] = "telestos"
      BY <2>7, Pair DEF GetTelesto
    <3> HIDE DEF pattern
    <3>2. IdOf(t) = ask.wrote.id /\ ask.wrote \in TelestoWritten
      BY <1>1, <2>2, <3>1, LandingRoute
    <3>3. telestos[IdOf(t)] = ask.wrote.row
      BY <1>1, <3>2, StoredInItsTable
    <3>4. new = TelestoPage(IdOf(t), telestos[IdOf(t)])
      BY <2>4, <2>7 DEF GetTelesto
    <3> QED
      BY <3>3, <3>4 DEF TelestoPage, View
  <2>8. CASE GetToken(t)
    <3> DEFINE pattern == <<"tokens", "{id}">>
    <3>1. Asks(t, "GET", pattern) /\ pattern[1] = "tokens"
      BY <2>8, Pair DEF GetToken
    <3> HIDE DEF pattern
    <3>2. IdOf(t) = ask.wrote.id /\ ask.wrote \in TokenWritten
      BY <1>1, <2>2, <3>1, LandingRoute
    <3>3. Content(tokens[IdOf(t)]) = Content(ask.wrote.row)
      BY <1>1, <3>2, StoredInItsTable
    <3>4. \/ new = TokenPage(IdOf(t), tokens[IdOf(t)])
          \/ new = Error \/ new = tab[t].page
      BY <2>4, <2>5, <2>8 DEF GetToken
    <3> QED
      BY <3>3, <3>4 DEF TokenPage, Error, View
  <2> QED
    BY <2>3, <2>6, <2>7, <2>8
<1>2. Inv /\ [Next]_vars => [\A t \in Tab : Lands(t)]_vars
  BY <1>1
<1> QED
  BY <1>2, InvInductive, PTL DEF Spec, LandsOnWrittenRow
=============================================================================
