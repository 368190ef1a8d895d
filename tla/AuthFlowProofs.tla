---------------------------- MODULE AuthFlowProofs ----------------------------
(***************************************************************************)
(* What holds of AuthFlow for any number of tabs, flows and sessions and   *)
(* whatever nodes Kratos asks for.  Each of the many actions is one of     *)
(* four kinds, by what it does to its tab: the user goes on (Go), a page   *)
(* is shown (Show), the tab is redirected (Redirect), or redirected to a   *)
(* flow that is new (StartFlow).  There is one lemma per kind.             *)
(***************************************************************************)
EXTENDS AuthFlow, TLAPS

-----------------------------------------------------------------------------
(* The template.                                                           *)

\* Each node is drawn as one element, which posts its key and value if and only if
\* the node is an input.
LEMMA RenderNodePosts ==
    ASSUME NEW n, IsNode(n)
    PROVE  \E e : /\ RenderNode(n) = {e}
                  /\ e.name = n.name /\ e.input = n.input /\ e.value = n.value
                  /\ e.tag \in {"input", "button"} <=> n.type = "input"
<1>1. ASSUME NEW tag, NEW labelled, NEW trigger,
             RenderNode(n) = {Element(tag, n, labelled, trigger)},
             tag \in {"input", "button"} <=> n.type = "input"
      PROVE  \E e : /\ RenderNode(n) = {e}
                    /\ e.name = n.name /\ e.input = n.input /\ e.value = n.value
                    /\ e.tag \in {"input", "button"} <=> n.type = "input"
  <2> DEFINE e == Element(tag, n, labelled, trigger)
  <2>1. /\ e.name = n.name /\ e.input = n.input /\ e.value = n.value
        /\ e.tag \in {"input", "button"} <=> n.type = "input"
    BY <1>1 DEF Element
  <2> HIDE DEF e
  <2>2. RenderNode(n) = {e}
    BY <1>1 DEF e
  <2> QED
    BY <2>1, <2>2
<1>2. CASE n.type = "script"
  <2>1. RenderNode(n) = {Element("script", n, FALSE, FALSE)}
    BY <1>2 DEF RenderNode, Script, IsNode
  <2> QED
    BY <1>1, <1>2, <2>1
<1>3. CASE n.type = "other"
  <2>1. RenderNode(n) = {Element("p", n, FALSE, FALSE)}
    BY <1>3 DEF RenderNode, NameOf, IsNode
  <2> QED
    BY <1>1, <1>3, <2>1
<1>4. CASE n.type = "input"
  <2>1. CASE n.input = "hidden"
    <3>1. RenderNode(n) = {Element("input", n, FALSE, FALSE)}
      BY <1>4, <2>1 DEF RenderNode, Hidden
    <3> QED
      BY <1>1, <1>4, <3>1
  <2>2. CASE n.input = "checkbox"
    <3>1. RenderNode(n) = {Element("input", n, TRUE, FALSE)}
      BY <1>4, <2>2 DEF RenderNode, Checkbox
    <3> QED
      BY <1>1, <1>4, <3>1
  <2>3. CASE n.input = "button"
    <3>1. RenderNode(n) = {Element("button", n, TRUE, TRUE)}
      BY <1>4, <2>3 DEF RenderNode, Button
    <3> QED
      BY <1>1, <1>4, <3>1
  <2>4. CASE n.input = "submit"
    <3>1. RenderNode(n) = {Element("button", n, TRUE, FALSE)}
      BY <1>4, <2>4 DEF RenderNode, Submit
    <3> QED
      BY <1>1, <1>4, <3>1
  <2>5. CASE n.input \notin {"hidden", "checkbox", "button", "submit"}
    <3>1. RenderNode(n) = {Element("input", n, TRUE, FALSE)}
      BY <1>4, <2>5 DEF RenderNode, TextField
    <3> QED
      BY <1>1, <1>4, <3>1
  <2> QED
    BY <2>1, <2>2, <2>3, <2>4, <2>5
<1> QED
  BY <1>2, <1>3, <1>4 DEF IsNode, NodeType

\* The form of a flow posts what the flow asks for.
LEMMA RenderFormIsComplete ==
    ASSUME NEW ui, \A n \in ui : IsNode(n) PROVE Complete(ui, RenderForm(ui))
<1> DEFINE asked  == {<<n.name, n.input, n.value>> : n \in {n \in ui : n.type = "input"}}
           posted == Posts(RenderForm(ui))
<1>1. ASSUME NEW p \in posted PROVE p \in asked
  <2>1. PICK e \in RenderForm(ui) : /\ e.tag \in {"input", "button"}
                                    /\ p = <<e.name, e.input, e.value>>
    BY <1>1 DEF Posts
  <2>2. PICK n \in ui : e \in RenderNode(n)
    BY <2>1 DEF RenderForm
  <2> QED
    BY <2>1, <2>2, RenderNodePosts
<1>2. ASSUME NEW p \in asked PROVE p \in posted
  <2>1. PICK n \in ui : n.type = "input" /\ p = <<n.name, n.input, n.value>>
    BY <1>2
  <2>2. PICK e : /\ RenderNode(n) = {e}
                 /\ e.name = n.name /\ e.input = n.input /\ e.value = n.value
                 /\ e.tag \in {"input", "button"}
    BY <2>1, RenderNodePosts
  <2>3. e \in RenderForm(ui)
    BY <2>2 DEF RenderForm
  <2> QED
    BY <2>1, <2>2, <2>3 DEF Posts
<1> QED
  BY <1>1, <1>2 DEF Complete

\* The elements that a page can have: no value among them that is not a string.
Elem == {e \in UNION {RenderForm(ui) : ui \in Ui} : e.value # "other"}

\* What is written before the template panics, which may be all there is.
LEMMA WrittenElements ==
    ASSUME NEW ui \in Ui, NEW nodes \in SUBSET ui, ~Panics(nodes)
    PROVE  RenderForm(nodes) \in SUBSET Elem
<1> SUFFICES ASSUME NEW e \in RenderForm(nodes) PROVE e \in Elem
  OBVIOUS
<1>1. PICK n \in nodes : e \in RenderNode(n)
  BY DEF RenderForm
<1>2. e.value = n.value
  BY <1>1, RenderNodePosts, AuthFlowAssumption
<1>3. n.value # "other"
  BY AuthFlowAssumption DEF Panics, IsNode
<1>4. e \in RenderForm(ui)
  BY <1>1 DEF RenderForm
<1> QED
  BY <1>2, <1>3, <1>4 DEF Elem

-----------------------------------------------------------------------------
(* The inductive invariant.                                                *)

\* A form is submitted to a flow.
Asked == {request \in Request : request.to = "submit" => request.flow \in Flow}

TabRecord == [page: Page, form: SUBSET Elem, asks: Asked \cup {None}, last: Asked,
              leaving: Session \cup {None}]

Jar == [csrf: Csrf \cup {None}, session: Session \cup {None}, logout: Session \cup {None}]

Typed ==
    /\ flows \in [Flow -> FlowRecord \cup {None}]
    /\ active \subseteq Session
    /\ jar \in Jar
    /\ tab \in [Tab -> TabRecord]

\* A form is that of the flow in its tab's address, as long as Kratos knows the flow:
\* its id is not given to another flow while a tab holds it.
ShowsItsFlow ==
    \A t \in Tab : LET f == tab[t].last.flow IN
        /\ tab[t].page = "form" \/ tab[t].form # {} => f \in Flow
        /\ tab[t].page = "form" /\ flows[f] # None => tab[t].form = RenderForm(flows[f].ui)

Inv == Typed /\ ShowsItsFlow

-----------------------------------------------------------------------------
(* The kinds of steps.                                                     *)

\* A plain visit, and one that names a flow.
LEMMA VisitsAreRequests ==
    /\ \A to \in To \ {"submit"} : Visit(to) \in Asked /\ Visit(to).to = to
    /\ \A kind \in To, f \in Flow :
          VisitFlow(kind, f) \in Asked /\ VisitFlow(kind, f).to = kind
                                        /\ VisitFlow(kind, f).flow = f
    /\ \A s \in Session \cup {None} :
          LET request == [Visit("end session") EXCEPT !.token = s]
          IN  request \in Asked /\ request.to = "end session" /\ request.token = s
  BY DEF Visit, VisitFlow, Request, To, Asked

\* The user goes on.
LEMMA GoKeepsInv ==
    ASSUME Inv, NEW t \in Tab, NEW request \in Asked, NEW leaving \in Session \cup {None},
           Go(t, request, leaving)
    PROVE  Inv'
<1>1. /\ tab' \in [Tab -> TabRecord]
      /\ \A u \in Tab : u # t => tab'[u] = tab[u]
      /\ tab'[t].page = tab[t].page /\ tab'[t].form = tab[t].form
      /\ tab'[t].asks = request /\ tab'[t].last = tab[t].last
  BY DEF Inv, Typed, TabRecord, Go
<1>2. UNCHANGED <<flows, active, jar>>
  BY DEF Go
<1>3. Typed'
  BY <1>1, <1>2 DEF Inv, Typed
<1>4. ShowsItsFlow'
  BY <1>1, <1>2 DEF Inv, ShowsItsFlow
<1> QED
  BY <1>3, <1>4 DEF Inv

\* An answer that is a page: a form only if it is that of the flow asked for.
LEMMA ShowKeepsInv ==
    ASSUME Inv, NEW t \in Tab, NEW page \in Page, NEW form \in SUBSET Elem,
           tab[t].asks # None,
           page = "form" \/ form # {} => tab[t].asks.flow \in Flow,
           page = "form" => form = RenderForm(flows[tab[t].asks.flow].ui),
           Show(t, page, form), Unchanged
    PROVE  Inv'
<1>1. /\ tab' \in [Tab -> TabRecord]
      /\ \A u \in Tab : u # t => tab'[u] = tab[u]
      /\ tab'[t].page = page /\ tab'[t].form = form
      /\ tab'[t].asks = None /\ tab'[t].last = tab[t].asks
  BY DEF Inv, Typed, TabRecord, Show
<1>2. UNCHANGED <<flows, active, jar>>
  BY DEF Unchanged
<1>3. Typed'
  BY <1>1, <1>2 DEF Inv, Typed
<1>4. ShowsItsFlow'
  BY <1>1, <1>2 DEF Inv, ShowsItsFlow
<1> QED
  BY <1>3, <1>4 DEF Inv

\* An answer that is a redirect.
LEMMA RedirectKeepsInv ==
    ASSUME Inv, NEW t \in Tab, NEW request \in Asked, tab[t].asks # None,
           Redirect(t, request),
           flows' = flows, active' \subseteq Session, jar' \in Jar
    PROVE  Inv'
<1>1. /\ tab' \in [Tab -> TabRecord]
      /\ \A u \in Tab : u # t => tab'[u] = tab[u]
      /\ tab'[t].page = tab[t].page /\ tab'[t].form = tab[t].form
      /\ tab'[t].asks = request /\ tab'[t].last = tab[t].last
  BY DEF Inv, Typed, TabRecord, Redirect
<1>2. Typed'
  BY <1>1 DEF Inv, Typed
<1>3. ShowsItsFlow'
  BY <1>1 DEF Inv, ShowsItsFlow
<1> QED
  BY <1>2, <1>3 DEF Inv

\* A redirect to a flow that Kratos makes for it, under an id that no tab holds.
LEMMA StartFlowKeepsInv ==
    ASSUME Inv, NEW t \in Tab, NEW kind \in Kind, tab[t].asks # None,
           StartFlow(t, kind), UNCHANGED active
    PROVE  Inv'
<1>1. PICK f \in FreeFlows, c \in Csrf, ui \in Ui :
         /\ jar' = [jar EXCEPT !.csrf = c]
         /\ flows' = [flows EXCEPT ![f] = [kind |-> kind, expired |-> FALSE,
                                           csrf |-> c, ui |-> ui]]
         /\ Redirect(t, VisitFlow(kind, f))
  BY DEF StartFlow
<1>2. f \in Flow /\ \A u \in Tab : tab[u].last.flow # f
  BY DEF FreeFlows
<1>3. VisitFlow(kind, f) \in Asked
  <2>1. kind \in To
    BY DEF Kind, To
  <2> QED
    BY <1>2, <2>1, VisitsAreRequests
<1>4. /\ tab' \in [Tab -> TabRecord]
      /\ \A u \in Tab : u # t => tab'[u] = tab[u]
      /\ tab'[t].page = tab[t].page /\ tab'[t].form = tab[t].form
      /\ tab'[t].asks = VisitFlow(kind, f) /\ tab'[t].last = tab[t].last
  BY <1>1, <1>3 DEF Inv, Typed, TabRecord, Redirect
<1>5. /\ flows' \in [Flow -> FlowRecord \cup {None}]
      /\ \A g \in Flow : g # f => flows'[g] = flows[g]
  <2>1. [kind |-> kind, expired |-> FALSE, csrf |-> c, ui |-> ui] \in FlowRecord
    BY DEF FlowRecord
  <2> QED
    BY <1>1, <1>2, <2>1 DEF Inv, Typed
<1>6. jar' \in Jar
  BY <1>1 DEF Inv, Typed, Jar
<1>7. Typed'
  BY <1>4, <1>5, <1>6 DEF Inv, Typed
<1>8. ShowsItsFlow'
  BY <1>2, <1>4, <1>5 DEF Inv, ShowsItsFlow
<1> QED
  BY <1>7, <1>8 DEF Inv

\* Steps without a tab: the cookies are deleted, or a session is over, or the flows
\* change other than in their nodes.
LEMMA TabsStayKeepsInv ==
    ASSUME Inv, UNCHANGED tab, jar' \in Jar,
           active' \subseteq Session, flows' \in [Flow -> FlowRecord \cup {None}],
           \A f \in Flow : flows'[f] # None => flows[f] # None /\ flows'[f].ui = flows[f].ui
    PROVE  Inv'
<1>1. Typed'
  BY DEF Inv, Typed
<1>2. ShowsItsFlow'
  BY DEF Inv, ShowsItsFlow
<1> QED
  BY <1>1, <1>2 DEF Inv

-----------------------------------------------------------------------------
(* The actions, by kind.                                                   *)

\* Whatever tab asks for is a request, and names a flow of Kratos or none.
LEMMA AskedIsRequest ==
    ASSUME Inv, NEW t \in Tab, tab[t].asks # None
    PROVE  /\ tab[t].asks \in Asked
           /\ tab[t].asks.flow \in Flow \cup {None}
           /\ tab[t].asks.to = "submit" => tab[t].asks.flow \in Flow
  BY DEF Inv, Typed, TabRecord, Request, Asked

\* The addresses that a redirect or a link leads to.
LEMMA PlainVisit ==
    ASSUME NEW to \in {"index", "login", "registration", "logout",
                       "new login", "new registration"}
    PROVE  Visit(to) \in Asked
<1>1. to \in To \ {"submit"}
  BY DEF To
<1> QED
  BY <1>1, VisitsAreRequests

\* What the user may do next.
LEMMA UserKeepsInv ==
    ASSUME Inv, NEW t \in Tab, Open(t) \/ Reload(t) \/ FollowLink(t) \/ SubmitForm(t)
    PROVE  Inv'
<1>1. CASE Open(t)
  BY <1>1, PlainVisit, GoKeepsInv DEF Open
<1>2. CASE Reload(t)
  <2>1. tab[t].last \in Asked /\ tab[t].leaving \in Session \cup {None}
    BY DEF Inv, Typed, TabRecord
  <2>2. tab[t].asks = None /\ Go(t, tab[t].last, tab[t].leaving)
    BY <1>2 DEF Reload, Go
  <2> QED
    BY <2>1, <2>2, GoKeepsInv
<1>3. CASE FollowLink(t)
  <2>1. CASE \E kind \in Kind : Go(t, Visit(kind), None)
    <3>1. PICK kind \in Kind : Go(t, Visit(kind), None)
      BY <2>1
    <3>2. Visit(kind) \in Asked
      BY PlainVisit DEF Kind
    <3> QED
      BY <3>1, <3>2, GoKeepsInv
  <2>2. CASE Go(t, IF CachesPermanentRedirects /\ jar.logout # None
                     THEN [Visit("end session") EXCEPT !.token = jar.logout]
                     ELSE Visit("logout"),
                jar.session)
    <3>1. jar.session \in Session \cup {None} /\ jar.logout \in Session \cup {None}
      BY DEF Inv, Typed, Jar
    <3> DEFINE request == IF CachesPermanentRedirects /\ jar.logout # None
                            THEN [Visit("end session") EXCEPT !.token = jar.logout]
                            ELSE Visit("logout")
    <3>2. request \in Asked
      BY <3>1, VisitsAreRequests, PlainVisit
    <3>3. Go(t, request, jar.session)
      BY <2>2
    <3> HIDE DEF request
    <3> QED
      BY <3>1, <3>2, <3>3, GoKeepsInv
  <2> QED
    BY <1>3, <2>1, <2>2 DEF FollowLink
<1>4. CASE SubmitForm(t)
  <2>1. tab[t].form # {} /\ Go(t, VisitFlow("submit", tab[t].last.flow), None)
    BY <1>4 DEF SubmitForm
  <2>2. tab[t].last.flow \in Flow
    BY <2>1 DEF Inv, ShowsItsFlow
  <2>3. VisitFlow("submit", tab[t].last.flow) \in Asked
    BY <2>2, VisitsAreRequests DEF To
  <2> QED
    BY <2>1, <2>3, GoKeepsInv
<1> QED
  BY <1>1, <1>2, <1>3, <1>4

\* The pages without a form.
LEMMA PlainPageKeepsInv ==
    ASSUME Inv, NEW t \in Tab, tab[t].asks # None, Unchanged,
           NEW page \in Page, page # "form", Show(t, page, {})
    PROVE  Inv'
  BY ShowKeepsInv

\* A redirect that leaves Kratos and the cookies alone.
LEMMA PlainRedirectKeepsInv ==
    ASSUME Inv, NEW t \in Tab, tab[t].asks # None, Unchanged,
           NEW request \in Asked, Redirect(t, request)
    PROVE  Inv'
<1>1. flows' = flows /\ active' \subseteq Session /\ jar' \in Jar
  BY DEF Unchanged, Inv, Typed
<1> QED
  BY <1>1, RedirectKeepsInv

\* The form of a flow that Kratos knows, or what is written of it.
LEMMA ShowFormKeepsInv ==
    ASSUME Inv, NEW t \in Tab, tab[t].asks # None, NEW kind,
           tab[t].asks.flow # None, FlowStatus(kind, tab[t].asks.flow) = "200",
           ShowForm(t, tab[t].asks.flow), Unchanged
    PROVE  Inv'
<1> DEFINE f  == tab[t].asks.flow
           ui == flows[f].ui
<1>1. f \in Flow /\ flows[f] # None
  BY AskedIsRequest DEF FlowStatus, NotKnown
<1>2. ui \in Ui
  BY <1>1 DEF Inv, Typed, FlowRecord
<1>3. CASE Panics(ui)
  <2>1. PICK written \in SUBSET ui : ~Panics(written) /\ Show(t, "broken", RenderForm(written))
    BY <1>3 DEF ShowForm
  <2>2. RenderForm(written) \in SUBSET Elem
    BY <1>2, <2>1, WrittenElements
  <2> QED
    BY <1>1, <2>1, <2>2, ShowKeepsInv DEF Page
<1>4. CASE ~Panics(ui)
  <2>1. Show(t, "form", RenderForm(ui))
    BY <1>4 DEF ShowForm
  <2>2. RenderForm(ui) \in SUBSET Elem
    BY <1>2, <1>4, WrittenElements
  <2> QED
    BY <1>1, <2>1, <2>2, ShowKeepsInv DEF Page
<1> QED
  BY <1>3, <1>4

\* A page, or a redirect to Kratos.
LEMMA LoginKeepsInv == ASSUME Inv, NEW t \in Tab, Login(t) PROVE Inv'
<1> DEFINE f == tab[t].asks.flow
<1>1. tab[t].asks # None /\ Unchanged
  BY DEF Login, Asks
<1>2. Visit("new login") \in Asked
  BY PlainVisit
<1>3. CASE Redirect(t, Visit("new login"))
  BY <1>1, <1>2, <1>3, PlainRedirectKeepsInv
<1>4. CASE f # None /\ FlowStatus("login", f) = "200" /\ ShowForm(t, f)
  BY <1>1, <1>4, ShowFormKeepsInv
<1>5. CASE Show(t, "error", {})
  BY <1>1, <1>5, PlainPageKeepsInv DEF Page
<1> QED
  BY <1>3, <1>4, <1>5 DEF Login

\* The same, in another order.
LEMMA RegisterKeepsInv == ASSUME Inv, NEW t \in Tab, Register(t) PROVE Inv'
<1> DEFINE f == tab[t].asks.flow
<1>1. tab[t].asks # None /\ Unchanged
  BY DEF Register, Asks
<1>2. Visit("new registration") \in Asked
  BY PlainVisit
<1>3. CASE Redirect(t, Visit("new registration"))
  BY <1>1, <1>2, <1>3, PlainRedirectKeepsInv
<1>4. CASE f # None /\ FlowStatus("registration", f) = "200" /\ ShowForm(t, f)
  BY <1>1, <1>4, ShowFormKeepsInv
<1>5. CASE Show(t, "error", {})
  BY <1>1, <1>5, PlainPageKeepsInv DEF Page
<1> QED
  BY <1>3, <1>4, <1>5 DEF Register

\* Back to the login, or to the logout URL, which the browser keeps.
LEMMA LogoutKeepsInv == ASSUME Inv, NEW t \in Tab, Logout(t) PROVE Inv'
<1>1. tab[t].asks # None /\ UNCHANGED <<flows, active>>
  BY DEF Logout, Asks
<1>2. CASE Redirect(t, Visit("new login")) /\ UNCHANGED jar
  BY <1>1, <1>2, PlainVisit, PlainRedirectKeepsInv DEF Unchanged
<1>3. CASE /\ Redirect(t, [Visit("end session") EXCEPT !.token = jar.session])
           /\ jar' = [jar EXCEPT !.logout = jar.session]
  <2>1. /\ jar.session \in Session \cup {None}
        /\ jar' \in Jar /\ flows' = flows /\ active' \subseteq Session
    BY <1>1, <1>3 DEF Inv, Typed, Jar
  <2>2. PICK request \in Asked : Redirect(t, request)
    BY <1>3, <2>1, VisitsAreRequests
  <2> QED
    BY <1>1, <2>1, <2>2, RedirectKeepsInv
<1>4. CASE Redirect(t, Visit("index")) /\ UNCHANGED jar
  BY <1>1, <1>4, PlainVisit, PlainRedirectKeepsInv DEF Unchanged
<1>5. CASE Show(t, "error", {}) /\ UNCHANGED jar
  BY <1>1, <1>5, PlainPageKeepsInv DEF Unchanged, Page
<1> QED
  BY <1>2, <1>3, <1>4, <1>5 DEF Logout

\* Whoever has a session needs no flow.
LEMMA NewFlowKeepsInv == ASSUME Inv, NEW t \in Tab, NewFlow(t) PROVE Inv'
<1>1. PICK kind \in Kind :
         /\ tab[t].asks # None
         /\ IF SessionIsActive
              THEN Redirect(t, Visit("index")) /\ UNCHANGED <<flows, jar>>
              ELSE StartFlow(t, kind)
  BY DEF NewFlow, Asks
<1>2. UNCHANGED active
  BY DEF NewFlow
<1>3. CASE SessionIsActive
  BY <1>1, <1>2, <1>3, PlainVisit, PlainRedirectKeepsInv DEF Unchanged
<1>4. CASE ~SessionIsActive
  BY <1>1, <1>2, <1>4, StartFlowKeepsInv
<1> QED
  BY <1>3, <1>4

\* A new session, the flow once more, or another.
LEMMA SubmittedKeepsInv == ASSUME Inv, NEW t \in Tab, Submitted(t) PROVE Inv'
<1> DEFINE f == tab[t].asks.flow
<1>1. tab[t].asks # None /\ f \in Flow /\ flows[f] # None
  BY AskedIsRequest DEF Submitted, Asks
<1>2. CASE /\ \E s \in FreeSessions :
                active' = active \cup {s} /\ jar' = [jar EXCEPT !.session = s]
           /\ Redirect(t, Visit("index"))
           /\ UNCHANGED flows
  <2>1. PICK s \in FreeSessions :
           active' = active \cup {s} /\ jar' = [jar EXCEPT !.session = s]
    BY <1>2
  <2>2. s \in Session
    BY DEF FreeSessions
  <2>3. active' \subseteq Session /\ jar' \in Jar
    BY <2>1, <2>2 DEF Inv, Typed, Jar
  <2> QED
    BY <1>1, <1>2, <2>3, PlainVisit, RedirectKeepsInv
<1>3. CASE Redirect(t, VisitFlow(flows[f].kind, f)) /\ UNCHANGED <<flows, active, jar>>
  <2>1. flows[f].kind \in To
    BY <1>1 DEF Inv, Typed, FlowRecord, Kind, To
  <2>2. VisitFlow(flows[f].kind, f) \in Asked
    BY <1>1, <2>1, VisitsAreRequests
  <2> QED
    BY <1>1, <1>3, <2>2, PlainRedirectKeepsInv DEF Unchanged
<1>4. CASE Redirect(t, Visit("index")) /\ UNCHANGED <<flows, active, jar>>
  BY <1>1, <1>4, PlainVisit, PlainRedirectKeepsInv DEF Unchanged
<1>5. CASE StartFlow(t, flows[f].kind) /\ UNCHANGED active
  <2>1. flows[f].kind \in Kind
    BY <1>1 DEF Inv, Typed, FlowRecord
  <2> QED
    BY <1>1, <1>5, <2>1, StartFlowKeepsInv
<1> QED
  BY <1>2, <1>3, <1>4, <1>5 DEF Submitted

\* The cookie names no session now.
LEMMA EndSessionKeepsInv == ASSUME Inv, NEW t \in Tab, EndSession(t) PROVE Inv'
<1>1. tab[t].asks # None /\ Redirect(t, Visit("index"))
  BY DEF EndSession, Asks
<1>2. jar' \in Jar /\ flows' = flows /\ active' \subseteq Session
  BY DEF EndSession, Inv, Typed, Jar
<1> QED
  BY <1>1, <1>2, PlainVisit, RedirectKeepsInv

\* One request of a tab and its answer.
LEMMA AnswerKeepsInv == ASSUME Inv, NEW t \in Tab, Answer(t) PROVE Inv'
<1>1. CASE Index(t)
  <2>1. tab[t].asks # None /\ Unchanged
    BY <1>1 DEF Index, Asks
  <2>2. PICK page \in {"member", "visitor"} : Show(t, page, {})
    BY <1>1 DEF Index
  <2> QED
    BY <2>1, <2>2, PlainPageKeepsInv DEF Page
<1>2. CASE PortalFails(t)
  BY <1>2, PlainPageKeepsInv DEF PortalFails, Asks, Page
<1>3. CASE Refuses(t)
  BY <1>3, PlainPageKeepsInv DEF Refuses, Asks, Page
<1> QED
  BY <1>1, <1>2, <1>3, LoginKeepsInv, RegisterKeepsInv, LogoutKeepsInv, NewFlowKeepsInv,
     SubmittedKeepsInv, EndSessionKeepsInv DEF Answer

\* Every state of every behavior satisfies the invariant.
LEMMA InvInductive == Spec => []Inv
<1>1. Init => Inv
  <2> SUFFICES ASSUME Init PROVE Inv
    OBVIOUS
  <2>1. Visit("index") \in Asked
    BY PlainVisit
  <2>2. [page |-> "visitor", form |-> {}, asks |-> None, last |-> Visit("index"),
         leaving |-> None] \in TabRecord
    BY <2>1 DEF TabRecord, Page
  <2>3. Typed
    BY <2>2 DEF Init, Typed, Jar
  <2>4. ShowsItsFlow
    BY DEF Init, ShowsItsFlow
  <2> QED
    BY <2>3, <2>4 DEF Inv
<1>2. ASSUME Inv, [Next]_vars PROVE Inv'
  <2> USE <1>2
  <2>1. CASE UNCHANGED vars
    BY <2>1 DEF vars, Inv, Typed, ShowsItsFlow
  <2>2. CASE ClearCookies
    <3>1. jar' \in Jar /\ UNCHANGED <<flows, active, tab>>
      BY <2>2 DEF ClearCookies, Inv, Typed, Jar
    <3> QED
      BY <3>1, TabsStayKeepsInv DEF Inv, Typed
  <2>3. CASE SessionEnds
    BY <2>3, TabsStayKeepsInv DEF SessionEnds, Inv, Typed
  <2>4. ASSUME NEW f \in Flow, Expire(f) PROVE Inv'
    <3>1. /\ flows' \in [Flow -> FlowRecord \cup {None}]
          /\ \A g \in Flow : flows'[g] # None => flows[g] # None /\ flows'[g].ui = flows[g].ui
      BY <2>4, NoneAssumption DEF Expire, Inv, Typed, FlowRecord
    <3> QED
      BY <2>4, <3>1, TabsStayKeepsInv DEF Expire, Inv, Typed
  <2>5. ASSUME NEW f \in Flow, Purge(f) PROVE Inv'
    <3>1. /\ flows' \in [Flow -> FlowRecord \cup {None}]
          /\ \A g \in Flow : flows'[g] # None => flows[g] # None /\ flows'[g].ui = flows[g].ui
      BY <2>5 DEF Purge, Inv, Typed
    <3> QED
      BY <2>5, <3>1, TabsStayKeepsInv DEF Purge, Inv, Typed
  <2> QED
    BY <2>1, <2>2, <2>3, <2>4, <2>5, UserKeepsInv, AnswerKeepsInv DEF Next
<1> QED
  BY <1>1, <1>2, PTL DEF Spec

-----------------------------------------------------------------------------
(* What follows.                                                           *)

\* Every variable has its type; no page shows a value of a node that is not a string,
\* not even one that breaks off.
THEOREM TypeCorrect == Spec => []TypeOK
<1>1. Inv => TypeOK
  BY DEF Inv, Typed, Jar, TabRecord, Asked, Elem, TypeOK
<1> QED
  BY <1>1, InvInductive, PTL

\* A login or registration form posts every key that its flow asks for, hidden ones
\* included, with the value that Kratos gave it, and no other, however many flows are
\* started, expire and are deleted in the meantime.
THEOREM FormsComplete == Spec => []FormsAreComplete
<1>1. Inv => FormsAreComplete
  <2> SUFFICES ASSUME Inv, NEW t \in Tab, tab[t].page = "form",
                      flows[tab[t].last.flow] # None
               PROVE  Complete(flows[tab[t].last.flow].ui, tab[t].form)
    BY DEF FormsAreComplete
  <2> DEFINE f == tab[t].last.flow
  <2>1. f \in Flow /\ tab[t].form = RenderForm(flows[f].ui)
    BY DEF Inv, ShowsItsFlow
  <2>2. flows[f].ui \in Ui
    BY <2>1 DEF Inv, Typed, FlowRecord
  <2> QED
    BY <2>1, <2>2, RenderFormIsComplete, AuthFlowAssumption
<1> QED
  BY <1>1, InvInductive, PTL
=============================================================================
