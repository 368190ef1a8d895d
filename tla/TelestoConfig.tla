---------------------------- MODULE TelestoConfig ----------------------------
(***************************************************************************)
(* The collector configuration that internal/telestoconfig renders from a  *)
(* template, as the sets of components it declares, enables and wires.     *)
(* What a component does is the collector's business (an OpenTelemetry     *)
(* Collector, not in this repository): "otlp/auth" listens on the network  *)
(* and lets in what its authenticator lets in, "nop/blocked" receives      *)
(* nothing.                                                                *)
(***************************************************************************)

CONSTANTS
    NoEndpoint,     \* the endpoint ""
    Unreadable      \* the endpoints that break the YAML they stand in, unquoted

ASSUME TelestoConfigAssumption == NoEndpoint \notin Unreadable

Signal == {"logs", "metrics", "traces"}

\* TokensAvailable and the two {{ if }} of the template it controls.
Authenticator == "bearertokenauth/telestotokenauth"

Exporters(td) == {"debug"} \cup (IF td.endpoint # NoEndpoint THEN {"otlp_http"} ELSE {})

\* Faulty: the authenticator is not enabled, as if the {{ if }} were missing one arm.
RenderWithoutAuthenticator(td) ==
    [readable   |-> td.endpoint \notin Unreadable,
     exporters  |-> Exporters(td),
     endpoint   |-> td.endpoint,
     header     |-> td.endpoint # NoEndpoint /\ td.authorizationHeader,
     extensions |-> {Authenticator, "health_check"},
     processors |-> {"batch", "memory_limiter"},
     receivers  |-> {"nop/blocked", "otlp/auth"},
     enabled    |-> {"health_check"},
     pipelines  |-> [s \in Signal |->
        [exporters  |-> Exporters(td),
         processors |-> {"memory_limiter", "batch"},
         receivers  |-> IF td.tokensAvailable THEN {"otlp/auth"} ELSE {"nop/blocked"}]]]

\* The template writes the endpoint as it is, without quotes: one with ": " or a line
\* break in it makes a document of another shape, or none, whatever else is in it.
\* The header is nested in the exporter: no endpoint, no header.
\* Every declared component is declared unconditionally but for otlp_http.
Render(td) ==
    [readable   |-> td.endpoint \notin Unreadable,
     exporters  |-> Exporters(td),
     endpoint   |-> td.endpoint,
     header     |-> td.endpoint # NoEndpoint /\ td.authorizationHeader,
     extensions |-> {Authenticator, "health_check"},
     processors |-> {"batch", "memory_limiter"},
     receivers  |-> {"nop/blocked", "otlp/auth"},
     enabled    |-> {"health_check"} \cup
                      (IF td.tokensAvailable THEN {Authenticator} ELSE {}),
     pipelines  |-> [s \in Signal |->
        [exporters  |-> Exporters(td),
         processors |-> {"memory_limiter", "batch"},
         receivers  |-> IF td.tokensAvailable THEN {"otlp/auth"} ELSE {"nop/blocked"}]]]

\* Telesto.GenerateConfig (internal/model): the authorization header of the row
\* is not handed to the template.
GenerateConfig(url, ts) ==
    Render([endpoint |-> url, authorizationHeader |-> FALSE, tokensAvailable |-> ts # {}])

-----------------------------------------------------------------------------
(* What the collector makes of a configuration.                            *)

\* The collector refuses to start on a document that it cannot read, a reference to
\* an undeclared component, an empty pipeline, or a receiver whose authenticator is
\* not enabled.
Starts(c) ==
    /\ c.readable
    /\ c.enabled \subseteq c.extensions
    /\ \A s \in Signal :
         LET p == c.pipelines[s] IN
         /\ p.exporters # {} /\ p.exporters \subseteq c.exporters
         /\ p.receivers # {} /\ p.receivers \subseteq c.receivers
         /\ p.processors \subseteq c.processors
         /\ "otlp/auth" \in p.receivers => Authenticator \in c.enabled

\* It listens for telemetry of some signal.
Listens(c) == \E s \in Signal : "otlp/auth" \in c.pipelines[s].receivers
=============================================================================
