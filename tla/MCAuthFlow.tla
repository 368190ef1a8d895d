---- MODULE MCAuthFlow ----
(* What Kratos asks for: nodes as its password and profile groups have them. *)
EXTENDS AuthFlow, TLC

Node(type, input, name, value) ==
    [type |-> type, input |-> input, name |-> name, value |-> value]

Token      == Node("input", "hidden", "csrf_token", "text")
Identifier == Node("input", "text", "identifier", "absent")
SignIn     == Node("input", "submit", "method", "text")
Remember   == Node("input", "checkbox", "remember", "text")
Agreed     == Node("input", "checkbox", "agreed", "other")
Passkey    == Node("input", "button", "passkey", "absent")
Webauthn   == Node("script", "none", "webauthn", "absent")
Notice     == Node("other", "none", "notice", "absent")

\* Every input type and node type; then with a value that is no string.
AllKinds == {Token, Identifier, SignIn, Remember, Passkey, Webauthn, Notice}
MCUi     == {AllKinds, {SignIn, Agreed}}
OneForm  == {{Token, Identifier, SignIn}}

Symmetric == Permutations(Tab) \cup Permutations(Flow)
               \cup Permutations(Session) \cup Permutations(Csrf)
====
