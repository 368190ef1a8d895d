------------------------------- MODULE Storage -------------------------------
(***************************************************************************)
(* The Postgres tables behind the portal and the SQL statements that       *)
(* internal/storage issues on them through GORM.  Each operator below is   *)
(* ONE statement, which Postgres runs in a transaction of its own: no      *)
(* handler ever opens a transaction around two of them.                    *)
(*                                                                         *)
(* The secret of a token (tokens.token) is not a column here: it is drawn  *)
(* with the row, no statement rewrites it, and so the token's id stands    *)
(* for it.  An authorization header is only told apart from "": auth.      *)
(*                                                                         *)
(* A definition introduced by "Faulty" is a plausible mistake in the next  *)
(* one; no specification uses it, and a property is told to be worth       *)
(* checking by failing when it takes that definition's place.              *)
(***************************************************************************)
EXTENDS Naturals, FiniteSets

CONSTANTS
    User,       \* identity ids of Ory Kratos
    NoUser,     \* the user id "", what GetUserID returns without a session
    TelestoId,  \* the ULIDs that rows of telestos may be given
    TokenId,    \* the ULIDs that rows of tokens may be given
    Name,       \* the names users choose
    Url,        \* the destination URLs users choose
    NoUrl,      \* the destination URL ""
    None        \* no row

\* A user id column holds an identity or "" (not null does not exclude "").
Owner == User \cup {NoUser}

TelestoRow == [user: Owner, name: Name, url: Url \cup {NoUrl}, auth: BOOLEAN]
TokenRow   == [user: Owner, telesto: TelestoId, name: Name, seen: BOOLEAN]

ASSUME StorageAssumption ==
    /\ NoUser \notin User
    /\ NoUrl \notin Url
    /\ None \notin TelestoRow
    /\ None \notin TokenRow
    /\ None \notin TelestoId
    /\ None \notin TokenId

VARIABLES
    telestos,   \* telestos[i] : the row of telestos with id i, or None
    tokens,     \* tokens[k]   : the row of tokens with id k, or None
    issued      \* the ids handed out so far: id.New never repeats one

dbVars == <<telestos, tokens, issued>>

DbTypeOK ==
    /\ telestos \in [TelestoId -> TelestoRow \cup {None}]
    /\ tokens \in [TokenId -> TokenRow \cup {None}]
    /\ issued \in [telestos: SUBSET TelestoId, tokens: SUBSET TokenId]

DbInit ==
    /\ telestos = [i \in TelestoId |-> None]
    /\ tokens = [k \in TokenId |-> None]
    /\ issued = [telestos |-> {}, tokens |-> {}]

-----------------------------------------------------------------------------
(* What a SELECT sees.                                                     *)

Telestos == {i \in TelestoId : telestos[i] # None}
Tokens   == {k \in TokenId : tokens[k] # None}

\* The scope "user_id = ?" that ForUser puts on every statement of a handler.
TelestosForUser(u) == {i \in Telestos : telestos[i].user = u}
TokensForUser(u)   == {k \in Tokens : tokens[k].user = u}

\* Preload(Telesto.Tokens): a second SELECT on tokens, "telesto_id IN is".
\* It does not inherit the scope of the first.
TokensOfTelestos(is) == {k \in Tokens : tokens[k].telesto \in is}

-----------------------------------------------------------------------------
(* The constraints that AutoMigrate declares.                              *)

\* idx_user_telesto_name: no other row of u has the name n.
TelestoNameFree(i, u, n) ==
    \A j \in Telestos \ {i} : ~(telestos[j].user = u /\ telestos[j].name = n)

\* idx_user_token_name
TokenNameFree(k, u, n) ==
    \A j \in Tokens \ {k} : ~(tokens[j].user = u /\ tokens[j].name = n)

-----------------------------------------------------------------------------
(* The statements that write.  A statement that breaks a constraint is not *)
(* enabled: the database answers it with an error and changes nothing.     *)

\* GORM's Updates(struct) skips the fields that hold their zero value.
NonZero(new, old, zero) == IF new = zero THEN old ELSE new

\* BeforeCreate gives the row a fresh id, whatever the caller had set.
CreateTelesto(i, u, n, url) ==
    /\ i \in TelestoId \ issued.telestos
    /\ TelestoNameFree(i, u, n)
    /\ telestos' = [telestos EXCEPT
                      ![i] = [user |-> u, name |-> n, url |-> url, auth |-> FALSE]]
    /\ issued' = [issued EXCEPT !.telestos = @ \cup {i}]
    /\ UNCHANGED tokens

\* Faulty: db.Save in place of Updates writes every column.
UpdateTelestoSaved(u, i, n, url, auth) ==
    /\ IF i \in TelestosForUser(u)
         THEN /\ TelestoNameFree(i, u, n)
              /\ telestos' = [telestos EXCEPT ![i].name = n, ![i].url = url, ![i].auth = auth]
         ELSE UNCHANGED telestos
    /\ UNCHANGED <<tokens, issued>>

\* WHERE user_id = u AND id = i.  Matching no row is not an error.
UpdateTelesto(u, i, n, url, auth) ==
    /\ IF i \in TelestosForUser(u)
         THEN /\ TelestoNameFree(i, u, n)
              /\ telestos' = [telestos EXCEPT
                                ![i].name = n,
                                ![i].url  = NonZero(url, @, NoUrl),
                                ![i].auth = NonZero(auth, @, FALSE)]
         ELSE UNCHANGED telestos
    /\ UNCHANGED <<tokens, issued>>

\* Faulty: without ForUser.
DeleteTelestoUnscoped(u, i) ==
    /\ TokensOfTelestos({i}) = {}
    /\ telestos' = [telestos EXCEPT ![i] = None]
    /\ UNCHANGED <<tokens, issued>>

\* Faulty: the foreign key is not created.
DeleteTelestoWithoutForeignKey(u, i) ==
    /\ telestos' = IF i \in TelestosForUser(u)
                     THEN [telestos EXCEPT ![i] = None] ELSE telestos
    /\ UNCHANGED <<tokens, issued>>

\* The foreign key tokens.telesto_id has no ON DELETE action.
DeleteTelesto(u, i) ==
    /\ IF i \in TelestosForUser(u)
         THEN /\ TokensOfTelestos({i}) = {}
              /\ telestos' = [telestos EXCEPT ![i] = None]
         ELSE UNCHANGED telestos
    /\ UNCHANGED <<tokens, issued>>

\* The insert is not scoped: the owner is whatever the caller put in the row.
CreateToken(k, u, i, n) ==
    /\ k \in TokenId \ issued.tokens
    /\ i \in Telestos
    /\ TokenNameFree(k, u, n)
    /\ tokens' = [tokens EXCEPT
                    ![k] = [user |-> u, telesto |-> i, name |-> n, seen |-> FALSE]]
    /\ issued' = [issued EXCEPT !.tokens = @ \cup {k}]
    /\ UNCHANGED telestos

\* Faulty: db.Save in place of Updates writes seen back to false.
UpdateTokenSaved(u, k, n) ==
    /\ IF k \in TokensForUser(u)
         THEN /\ TokenNameFree(k, u, n)
              /\ tokens' = [tokens EXCEPT ![k].name = n, ![k].seen = FALSE]
         ELSE UNCHANGED tokens
    /\ UNCHANGED <<telestos, issued>>

UpdateToken(u, k, n) ==
    /\ IF k \in TokensForUser(u)
         THEN /\ TokenNameFree(k, u, n)
              /\ tokens' = [tokens EXCEPT ![k].name = n]
         ELSE UNCHANGED tokens
    /\ UNCHANGED <<telestos, issued>>

MarkTokenSeen(u, k) ==
    /\ tokens' = IF k \in TokensForUser(u)
                   THEN [tokens EXCEPT ![k].seen = TRUE] ELSE tokens
    /\ UNCHANGED <<telestos, issued>>

DeleteToken(u, k) ==
    /\ tokens' = IF k \in TokensForUser(u)
                   THEN [tokens EXCEPT ![k] = None] ELSE tokens
    /\ UNCHANGED <<telestos, issued>>

-----------------------------------------------------------------------------
(* Consistency of the tables.                                              *)

\* Every token belongs to a telesto that exists and to the user who owns that
\* telesto.  The foreign key gives the first half; the second relates two
\* rows written by different requests and no constraint declares it.
TokenBelongsToOwner ==
    \A k \in Tokens :
        /\ tokens[k].telesto \in Telestos
        /\ telestos[tokens[k].telesto].user = tokens[k].user

\* A user never has two telestos, or two tokens, of the same name: the console
\* tells them apart by name.
UniqueNames ==
    /\ \A i \in Telestos : TelestoNameFree(i, telestos[i].user, telestos[i].name)
    /\ \A k \in Tokens : TokenNameFree(k, tokens[k].user, tokens[k].name)

\* Every live row has an id that was handed out.
RowsAreIssued == Telestos \subseteq issued.telestos /\ Tokens \subseteq issued.tokens
=============================================================================
