------------------------------- MODULE MCServe -------------------------------
(***************************************************************************)
(* Instances of Serve for TLC: configurations an operator may roll out.    *)
(***************************************************************************)
EXTENDS Serve, TLC

CONSTANTS d1, d2, s1, s2

Good(deployer, secrets) ==
    [valid |-> TRUE, migrate |-> TRUE, ca |-> TRUE,
     address |-> [s \in Server |-> IF s = "public" THEN ":443" ELSE ":8443"],
     keyPair |-> [s \in Server |-> TRUE],
     token |-> [c \in Client |-> IF c = "telestoDeployer" THEN deployer ELSE secrets]]

\* Both tokens are rotated, by way of a configuration that Validate refuses.
Rotated == <<Good(d1, s1), [Good(d2, s1) EXCEPT !.valid = FALSE], Good(d2, s2)>>

\* No address is given: both default to :80.
Defaults == <<Good(d1, s1), [Good(d1, s1) EXCEPT !.address = [s \in Server |-> ":80"]]>>

\* A private key that does not fit its certificate, on both servers, and no migration;
\* then it does, there is one, and the tokens are new.
KeyPairs == <<[Good(d1, s1) EXCEPT !.keyPair = [s \in Server |-> FALSE], !.migrate = FALSE],
              Good(d2, s2)>>

Symmetry == Permutations(Pod)
=============================================================================
