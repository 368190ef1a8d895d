------------------------------ MODULE AuthFlow ------------------------------
(***************************************************************************)
(* Login, registration and logout: the pages of                            *)
(* internal/server/public/auth.handler.go between a browser and Ory        *)
(* Kratos.  The portal keeps nothing; what counts is in the flows and      *)
(* sessions of Kratos, in the cookies that the tabs of the browser share,  *)
(* and in the address that each tab holds.                                 *)
(*                                                                         *)
(* An action is one request of a tab and its answer.  A redirect is a      *)
(* request of its own, so that other tabs, the clock and the housekeeping  *)
(* of Kratos come in between.  Kratos may fail at any request.  The ids    *)
(* of flows and sessions that nothing refers to any more are used again.   *)
(***************************************************************************)
EXTENDS AuthForm

CONSTANTS
    Tab,        \* the tabs of the browser
    Flow,       \* ids of flows
    Session,    \* ids of sessions; each stands for its logout token, too
    Csrf,       \* values of the csrf_token cookie
    Ui,         \* the sets of nodes that Kratos may ask for
    None,       \* no flow, session or cookie
    CleansUp,   \* Kratos may delete expired flows (auth.libsonnet does not have it do so)
    CachesPermanentRedirects    \* the browser keeps the answer 308

ASSUME AuthFlowAssumption ==
    /\ \A ui \in Ui : \A n \in ui : IsNode(n)
    /\ {CleansUp, CachesPermanentRedirects} \subseteq BOOLEAN
    /\ None \notin Flow \cup Session \cup Csrf

VARIABLES
    flows,      \* flows[f] : the flow f as Kratos knows it, or None
    active,     \* the sessions that are active
    jar,        \* the cookies of the browser, and its cached redirect
    tab         \* tab[t] : what tab t shows and waits for

vars == <<flows, active, jar, tab>>

Kind == {"login", "registration"}

\* Addresses of the portal, then of Kratos.
To == {"index", "login", "registration", "logout",
       "new login", "new registration", "submit", "end session"}

\* flow is the query parameter, token the logout token.
Request == [to: To, flow: Flow \cup {None}, token: Session \cup {None}]

Visit(to)          == [to |-> to, flow |-> None, token |-> None]
VisitFlow(kind, f) == [to |-> kind, flow |-> f, token |-> None]

\* "visitor" and "member" are the landing page without and with a session, "broken"
\* is a page that breaks off, "refused" the error page of Kratos.
Page == {"visitor", "member", "form", "broken", "error", "refused"}

FlowRecord == [kind: Kind, expired: BOOLEAN, csrf: Csrf, ui: Ui]

ASSUME NoneAssumption == None \notin Request /\ None \notin FlowRecord

TypeOK ==
    /\ flows \in [Flow -> FlowRecord \cup {None}]
    /\ active \subseteq Session
    /\ jar \in [csrf: Csrf \cup {None}, session: Session \cup {None},
                logout: Session \cup {None}]
    /\ \A t \in Tab :
         /\ tab[t].page \in Page
         /\ tab[t].asks \in Request \cup {None} /\ tab[t].last \in Request
         /\ tab[t].leaving \in Session \cup {None}
         /\ \A e \in tab[t].form : e.value # "other"

Init ==
    /\ flows = [f \in Flow |-> None]
    /\ active = {}
    /\ jar = [csrf |-> None, session |-> None, logout |-> None]
    /\ tab = [t \in Tab |-> [page |-> "visitor", form |-> {}, asks |-> None,
                             last |-> Visit("index"), leaving |-> None]]

-----------------------------------------------------------------------------
(* The user.                                                               *)

\* leaving is history: the session whose end the user asked for.
Go(t, request, leaving) ==
    /\ tab[t].asks = None
    /\ tab' = [tab EXCEPT ![t].asks = request, ![t].leaving = leaving]
    /\ UNCHANGED <<flows, active, jar>>

\* Typed, bookmarked or linked from elsewhere.
Open(t) == Go(t, Visit("index"), None)

Reload(t) == Go(t, tab[t].last, tab[t].leaving)

\* The links of the navigation bar; the layout of the forms has none.
FollowLink(t) ==
    \/ tab[t].page = "visitor" /\ \E kind \in Kind : Go(t, Visit(kind), None)
    \/ /\ tab[t].page = "member"
       /\ Go(t, IF CachesPermanentRedirects /\ jar.logout # None
                  THEN [Visit("end session") EXCEPT !.token = jar.logout]
                  ELSE Visit("logout"),
             jar.session)

SubmitForm(t) ==
    /\ \E e \in tab[t].form : e.input = "submit"
    /\ Go(t, VisitFlow("submit", tab[t].last.flow), None)

ClearCookies ==
    /\ jar' = [jar EXCEPT !.csrf = None, !.session = None]
    /\ UNCHANGED <<flows, active, tab>>

-----------------------------------------------------------------------------
(* Answers.                                                                *)

Asks(t, to) == tab[t].asks # None /\ tab[t].asks.to = to

\* An answer that is not a redirect: a page at the address that was asked for.
Show(t, page, form) ==
    tab' = [tab EXCEPT ![t].page = page, ![t].form = form,
                       ![t].asks = None, ![t].last = tab[t].asks]

Redirect(t, request) == tab' = [tab EXCEPT ![t].asks = request]

SessionIsActive == jar.session \in active

Unchanged == UNCHANGED <<flows, active, jar>>

\* LoadSession may get no answer.
Index(t) ==
    /\ Asks(t, "index")
    /\ \E loaded \in {SessionIsActive, FALSE} :
          Show(t, IF loaded THEN "member" ELSE "visitor", {})
    /\ Unchanged

-----------------------------------------------------------------------------
(* /login and /register.                                                   *)

\* What Kratos answers to the request for a flow.
NotKnown(kind, f) == flows[f] = None \/ flows[f].kind # kind
Forbidden(f)      == flows[f].csrf # jar.csrf
Gone(f)           == flows[f].expired

FlowStatus(kind, f) ==
    CASE NotKnown(kind, f) -> "404"
      [] ~NotKnown(kind, f) /\ Forbidden(f) -> "403"
      [] ~NotKnown(kind, f) /\ ~Forbidden(f) /\ Gone(f) -> "410"
      [] OTHER -> "200"

\* Faulty: a value that is not a string is rendered all the same.
ShowFormUnasserted(t, f) == Show(t, "form", RenderForm(flows[f].ui))

\* A panic in the template comes when the nodes before it are written, and what is
\* written is sent: a page that breaks off, with status 200.
ShowForm(t, f) ==
    LET ui == flows[f].ui IN
      IF Panics(ui)
        THEN \E written \in {nodes \in SUBSET ui : ~Panics(nodes)} :
               Show(t, "broken", RenderForm(written))
        ELSE Show(t, "form", RenderForm(ui))

\* Faulty: an expired flow is an error like any other.
LoginWithoutRestart(t) ==
    /\ Asks(t, "login")
    /\ LET f == tab[t].asks.flow IN
         IF f = None
           THEN Redirect(t, Visit("new login"))
           ELSE IF FlowStatus("login", f) = "200" THEN ShowForm(t, f) ELSE Show(t, "error", {})
    /\ Unchanged

Login(t) ==
    /\ Asks(t, "login")
    /\ LET f == tab[t].asks.flow IN
         IF f = None
           THEN Redirect(t, Visit("new login"))
           ELSE CASE FlowStatus("login", f) = "200" -> ShowForm(t, f)
                  [] FlowStatus("login", f) = "410" -> Redirect(t, Visit("new login"))
                  [] OTHER -> Show(t, "error", {})
    /\ Unchanged

\* Faulty: the cookie is looked for under a name that Kratos does not use.
RegisterWithoutCookie(t) ==
    /\ Asks(t, "registration")
    /\ Redirect(t, Visit("new registration"))
    /\ Unchanged

\* Faulty: any status but 200 is an error.
RegisterWithoutRestart(t) ==
    /\ Asks(t, "registration")
    /\ LET f == tab[t].asks.flow IN
         IF f = None \/ jar.csrf = None
           THEN Redirect(t, Visit("new registration"))
           ELSE IF FlowStatus("registration", f) = "200"
                  THEN ShowForm(t, f) ELSE Show(t, "error", {})
    /\ Unchanged

\* Register looks at the cookie first, and restarts on another status than Login.
Register(t) ==
    /\ Asks(t, "registration")
    /\ LET f == tab[t].asks.flow IN
         IF f = None \/ jar.csrf = None
           THEN Redirect(t, Visit("new registration"))
           ELSE CASE FlowStatus("registration", f) = "200" -> ShowForm(t, f)
                  [] FlowStatus("registration", f) = "404" ->
                        Redirect(t, Visit("new registration"))
                  [] OTHER -> Show(t, "error", {})
    /\ Unchanged

-----------------------------------------------------------------------------
(* /logout.                                                                *)

\* Protected asks Kratos for the session, Logout for the logout URL; the session
\* may end in between, and Kratos then knows of nothing to log out of.  The
\* answer 308 stays in the browser's cache.
Logout(t) ==
    /\ Asks(t, "logout")
    /\ \/ /\ Redirect(t, Visit("new login"))
          /\ UNCHANGED jar
       \/ /\ SessionIsActive
          /\ Redirect(t, [Visit("end session") EXCEPT !.token = jar.session])
          /\ jar' = [jar EXCEPT !.logout = jar.session]
       \/ /\ ~SessionIsActive
          /\ Redirect(t, Visit("index")) \/ Show(t, "error", {})
          /\ UNCHANGED jar
    /\ UNCHANGED <<flows, active>>

\* A call of Kratos fails: an error page, for Register by way of the panic on the
\* response that is not there.
PortalFails(t) ==
    /\ \E to \in {"login", "registration", "logout"} : Asks(t, to)
    /\ tab[t].asks.to = "registration" => jar.csrf # None
    /\ tab[t].asks.to # "logout" => tab[t].asks.flow # None
    /\ Show(t, "error", {})
    /\ Unchanged

-----------------------------------------------------------------------------
(* Kratos.                                                                 *)

\* Ids that no tab and no cookie refers to.
FreeFlows    == {f \in Flow :
                    \A t \in Tab : /\ tab[t].last.flow # f
                                   /\ tab[t].asks # None => tab[t].asks.flow # f}
FreeSessions == {s \in Session \ active :
                    /\ s \notin {jar.session, jar.logout}
                    /\ \A t \in Tab : /\ tab[t].leaving # s
                                      /\ tab[t].asks # None => tab[t].asks.token # s}

\* The flow is bound to the browser's csrf cookie, which is set if it is not there.
StartFlow(t, kind) ==
    \E f \in FreeFlows, c \in Csrf, ui \in Ui :
        /\ jar.csrf # None => c = jar.csrf
        /\ jar' = [jar EXCEPT !.csrf = c]
        /\ flows' = [flows EXCEPT ![f] = [kind |-> kind, expired |-> FALSE,
                                          csrf |-> c, ui |-> ui]]
        /\ Redirect(t, VisitFlow(kind, f))

\* /self-service/login/browser and /self-service/registration/browser
NewFlow(t) ==
    /\ \E kind \in Kind :
         /\ Asks(t, IF kind = "login" THEN "new login" ELSE "new registration")
         /\ IF SessionIsActive
              THEN Redirect(t, Visit("index")) /\ UNCHANGED <<flows, jar>>
              ELSE StartFlow(t, kind)
    /\ UNCHANGED active

\* The credentials are right, or the flow's page is shown again, or the flow has
\* expired and another takes its place.
Submitted(t) ==
    LET f == tab[t].asks.flow IN
    /\ Asks(t, "submit")
    /\ flows[f] # None /\ ~Forbidden(f)
    /\ \/ /\ ~Gone(f) /\ ~SessionIsActive
          /\ \E s \in FreeSessions :
               active' = active \cup {s} /\ jar' = [jar EXCEPT !.session = s]
          /\ Redirect(t, Visit("index"))
          /\ UNCHANGED flows
       \/ /\ ~Gone(f) /\ ~SessionIsActive
          /\ Redirect(t, VisitFlow(flows[f].kind, f))
          /\ UNCHANGED <<flows, active, jar>>
       \/ /\ SessionIsActive
          /\ Redirect(t, Visit("index"))
          /\ UNCHANGED <<flows, active, jar>>
       \/ /\ Gone(f) /\ ~SessionIsActive
          /\ StartFlow(t, flows[f].kind)
          /\ UNCHANGED active

\* The logout URL ends the session of the cookie, if it is the one it was made for.
EndSession(t) ==
    /\ Asks(t, "end session")
    /\ SessionIsActive => tab[t].asks.token = jar.session
    /\ active' = active \ {jar.session}
    /\ jar' = [jar EXCEPT !.session = None]
    /\ Redirect(t, Visit("index"))
    /\ UNCHANGED flows

\* An unknown flow, a token of another session, or a failure.
Refuses(t) ==
    /\ \E to \in {"new login", "new registration", "submit", "end session"} : Asks(t, to)
    /\ Show(t, "refused", {})
    /\ Unchanged

\* A flow lives longer than a request.
Expire(f) ==
    /\ flows[f] # None /\ ~flows[f].expired
    /\ \A t \in Tab : tab[t].asks # None => tab[t].asks.flow # f
    /\ flows' = [flows EXCEPT ![f].expired = TRUE]
    /\ UNCHANGED <<active, jar, tab>>

Purge(f) ==
    /\ CleansUp
    /\ flows[f] # None /\ flows[f].expired
    /\ flows' = [flows EXCEPT ![f] = None]
    /\ UNCHANGED <<active, jar, tab>>

SessionEnds ==
    /\ \E s \in active : active' = active \ {s}
    /\ UNCHANGED <<flows, jar, tab>>

-----------------------------------------------------------------------------
Answer(t) == \/ Index(t) \/ Login(t) \/ Register(t) \/ Logout(t) \/ PortalFails(t)
             \/ NewFlow(t) \/ Submitted(t) \/ EndSession(t) \/ Refuses(t)

Next == \/ \E t \in Tab : Open(t) \/ Reload(t) \/ FollowLink(t) \/ SubmitForm(t) \/ Answer(t)
        \/ ClearCookies \/ SessionEnds
        \/ \E f \in Flow : Expire(f) \/ Purge(f)

Spec == Init /\ [][Next]_vars

ShowsForm(t) == (Login(t) \/ Register(t)) /\ tab'[t].page \in {"form", "broken"}
Restarts(t)  == (Login(t) \/ Register(t)) /\ tab[t].asks.flow # None /\ tab'[t].asks # None

\* Requests are answered; Kratos does not fail for ever when it is asked for flows that
\* live, nor when it is asked for flows that are over; a user who sees an error reloads
\* the page.  Kratos owes no deletion of a flow.
FairSpec ==
    /\ Spec
    /\ \A t \in Tab : /\ WF_vars(Answer(t))
                      /\ SF_vars(ShowsForm(t)) /\ SF_vars(Restarts(t))
                      /\ WF_vars(tab[t].page = "error" /\ Reload(t))

-----------------------------------------------------------------------------
(* Properties.                                                             *)

\* A form that is shown posts every key its flow asks for, hidden ones included,
\* each with the value that Kratos gave it, and no other.
FormsAreComplete ==
    \A t \in Tab :
        (tab[t].page = "form" /\ flows[tab[t].last.flow] # None) =>
            Complete(flows[tab[t].last.flow].ui, tab[t].form)

\* The user does not delete his cookies again and again.
KeepsCookies == <>[][jar.csrf # None => jar'.csrf # None]_vars

\* However flows and sessions end, no chain of redirects between portal and Kratos
\* goes on for ever.
NavigationEnds ==
    KeepsCookies => \A t \in Tab : tab[t].asks # None ~> tab[t].asks = None

\* An error page in place of a form, although the cookie is the one that the flow was
\* made for.
Stuck(t, kind) ==
    LET f == tab[t].last.flow IN
      /\ tab[t].page = "error" /\ tab[t].last.to = kind
      /\ f # None /\ (flows[f] # None => flows[f].csrf = jar.csrf)

\* Kratos has the flow of the page, expired or not.
Known(t) == flows[tab[t].last.flow] # None

\* Reloading the error page of a login gets the user out of it, as long as Kratos still
\* has the flow: /login restarts one that has expired.
LoginRecovers ==
    LET stuck(t) == Stuck(t, "login") /\ Known(t)
    IN  KeepsCookies => \A t \in Tab : stuck(t) ~> ~stuck(t)

\* Reloading the error page of a registration whose flow Kratos no longer has gets the
\* user to a new flow: /register restarts one that is not known.
RegisterRecovers ==
    LET stuck(t) == Stuck(t, "registration") /\ ~Known(t)
    IN  KeepsCookies => \A t \in Tab : stuck(t) ~> ~stuck(t)

-----------------------------------------------------------------------------
(* Promises of the navigation bar that the code does not keep.             *)


\* templates/components/nav.templ:18, "Logout": whoever follows the link is sent to a
\* logout URL that Kratos made for the session he wants to leave, as long as the
\* browser still has it.
LogoutIsCurrent ==
    \A t \in Tab :
        (Asks(t, "end session") /\ tab[t].leaving # None /\ jar.session = tab[t].leaving)
            => tab[t].asks.token = tab[t].leaving
=============================================================================
