--------------------------- MODULE RegistryProofs ---------------------------
(***************************************************************************)
(* Every SQL statement of module Storage, issued for a user u, is a step   *)
(* the registry allows u: one lemma per statement.  The only one with a    *)
(* condition is the insert of a token, which trusts its caller to name a   *)
(* telesto of the same user.                                               *)
(***************************************************************************)
EXTENDS Registry, TLAPS

\* A statement that matches no row changes nothing, which u may always do.
LEMMA UnchangedActs ==
    ASSUME Consistent, NEW u \in Owner, UNCHANGED dbVars
    PROVE  Act(u)
<1>1. UNCHANGED <<telestos, tokens, issued>>
  BY DEF dbVars
<1>2. Consistent'
  BY <1>1 DEF Consistent, DbTypeOK, RowsAreIssued, TokenBelongsToOwner, UniqueNames,
              TelestoNameFree, TokenNameFree, Telestos, Tokens
<1>3. ConfinedTo(u) /\ KeepsIdentity /\ AppearsFresh
  BY <1>1 DEF ConfinedTo, KeepsIdentity, AppearsFresh, Telestos, Tokens
<1> QED
  BY <1>2, <1>3 DEF Act

\* A token row of u may be replaced by one that differs in its name, if the
\* name is free, and in being seen.
LEMMA TokenRowActs ==
    ASSUME Consistent, NEW u \in Owner, NEW k \in Tokens, NEW row \in TokenRow,
           tokens[k].user = u, row.user = u, row.telesto = tokens[k].telesto,
           tokens[k].seen => row.seen, TokenNameFree(k, u, row.name),
           tokens' = [tokens EXCEPT ![k] = row], UNCHANGED <<telestos, issued>>
    PROVE  Act(u)
<1>1. row # None /\ k \in TokenId
  BY StorageAssumption DEF Tokens
<1>2. DbTypeOK'
  BY DEF Consistent, DbTypeOK
<1>3. RowsAreIssued' /\ TokenBelongsToOwner'
  BY <1>1 DEF Consistent, RowsAreIssued, TokenBelongsToOwner, Telestos, Tokens, DbTypeOK
<1>4. UniqueNames'
  BY <1>1 DEF Consistent, UniqueNames, TelestoNameFree, TokenNameFree, Telestos, Tokens, DbTypeOK
<1>5. ConfinedTo(u) /\ KeepsIdentity /\ AppearsFresh
  BY <1>1 DEF ConfinedTo, KeepsIdentity, AppearsFresh, Consistent, DbTypeOK, Telestos, Tokens
<1> QED
  BY <1>2, <1>3, <1>4, <1>5 DEF Act, Consistent

\* The insert of a telesto, with an id never drawn before and a free name.
LEMMA CreateTelestoActs ==
    ASSUME Consistent, NEW u \in Owner, NEW i \in TelestoId, NEW n \in Name,
           NEW url \in Url \cup {NoUrl}, CreateTelesto(i, u, n, url)
    PROVE  Act(u)
<1> DEFINE row == [user |-> u, name |-> n, url |-> url, auth |-> FALSE]
<1>1. row \in TelestoRow
  BY DEF TelestoRow
<1>2. row # None
  BY <1>1, StorageAssumption
<1>3. DbTypeOK'
  BY <1>1 DEF Consistent, DbTypeOK, CreateTelesto
<1>4. telestos[i] = None
  BY DEF Consistent, RowsAreIssued, CreateTelesto, Telestos
<1>5. RowsAreIssued'
  BY <1>2 DEF Consistent, RowsAreIssued, CreateTelesto, Telestos, Tokens, DbTypeOK
<1>6. TokenBelongsToOwner'
  BY <1>2, <1>4 DEF Consistent, TokenBelongsToOwner, CreateTelesto, Telestos, Tokens, DbTypeOK
<1>7. UniqueNames'
  BY <1>2, <1>4 DEF Consistent, UniqueNames, TelestoNameFree, TokenNameFree,
                    CreateTelesto, Telestos, Tokens, DbTypeOK
<1>8. ConfinedTo(u)
  BY <1>2, <1>4 DEF Consistent, ConfinedTo, CreateTelesto, DbTypeOK
<1>9. KeepsIdentity
  BY <1>4 DEF Consistent, KeepsIdentity, CreateTelesto, Telestos, DbTypeOK
<1>10. AppearsFresh
  BY <1>4 DEF Consistent, AppearsFresh, CreateTelesto, Telestos, Tokens, DbTypeOK
<1> QED
  BY <1>3, <1>5, <1>6, <1>7, <1>8, <1>9, <1>10 DEF Act, Consistent

\* The update of a telesto: a changed name is a free one.
LEMMA UpdateTelestoActs ==
    ASSUME Consistent, NEW u \in Owner, NEW i \in TelestoId, NEW n \in Name,
           NEW url \in Url \cup {NoUrl}, NEW auth \in BOOLEAN,
           UpdateTelesto(u, i, n, url, auth)
    PROVE  Act(u)
<1> DEFINE row == [telestos[i] EXCEPT !.name = n,
                     !.url = NonZero(url, @, NoUrl), !.auth = NonZero(auth, @, FALSE)]
<1>1. CASE i \in TelestosForUser(u)
  <2>1. telestos[i] \in TelestoRow /\ telestos[i].user = u
    BY <1>1 DEF Consistent, DbTypeOK, TelestosForUser, Telestos
  <2>2. row \in TelestoRow
    BY <2>1 DEF TelestoRow, NonZero
  <2>3. row # None
    BY <2>2, StorageAssumption
  <2>4. telestos' = [telestos EXCEPT ![i] = row] /\ UNCHANGED <<tokens, issued>>
    BY <1>1 DEF UpdateTelesto, Consistent, DbTypeOK
  <2>5. /\ row.user = u /\ row.name = n
        /\ telestos[i].auth => row.auth
        /\ telestos[i].url # NoUrl => row.url # NoUrl
    BY <2>1 DEF TelestoRow, NonZero
  <2>6. TelestoNameFree(i, u, n)
    BY <1>1 DEF UpdateTelesto
  <2> HIDE DEF row
  <2>7. DbTypeOK'
    BY <2>2, <2>4 DEF Consistent, DbTypeOK
  <2>8. RowsAreIssued' /\ TokenBelongsToOwner'
    BY <2>1, <2>3, <2>4, <2>5, <1>1
       DEF Consistent, RowsAreIssued, TokenBelongsToOwner, Telestos, Tokens,
           TelestosForUser, DbTypeOK
  <2>9. UniqueNames'
    BY <2>1, <2>3, <2>4, <2>5, <2>6
       DEF Consistent, UniqueNames, TelestoNameFree, TokenNameFree, Telestos, Tokens, DbTypeOK
  <2>10. ConfinedTo(u)
    BY <1>1, <2>1, <2>4 DEF ConfinedTo, Consistent, DbTypeOK, TelestosForUser, Telestos
  <2>11. KeepsIdentity
    BY <2>1, <2>4, <2>5 DEF KeepsIdentity, Consistent, DbTypeOK, Telestos
  <2>12. AppearsFresh
    BY <1>1, <2>4 DEF AppearsFresh, Consistent, DbTypeOK, Telestos, Tokens, TelestosForUser
  <2> QED
    BY <2>7, <2>8, <2>9, <2>10, <2>11, <2>12 DEF Act, Consistent
<1>2. CASE i \notin TelestosForUser(u)
  BY <1>2, UnchangedActs DEF UpdateTelesto, dbVars
<1> QED
  BY <1>1, <1>2

\* The deletion of a telesto, which its tokens would prevent.
LEMMA DeleteTelestoActs ==
    ASSUME Consistent, NEW u \in Owner, NEW i \in TelestoId, DeleteTelesto(u, i)
    PROVE  Act(u)
<1>1. CASE i \in TelestosForUser(u)
  <2>1. /\ i \in Telestos /\ telestos[i].user = u
        /\ \A k \in Tokens : tokens[k].telesto # i
        /\ telestos' = [telestos EXCEPT ![i] = None]
        /\ UNCHANGED <<tokens, issued>>
    BY <1>1 DEF DeleteTelesto, TelestosForUser, TokensOfTelestos
  <2>2. DbTypeOK'
    BY <2>1 DEF Consistent, DbTypeOK
  <2>3. RowsAreIssued' /\ TokenBelongsToOwner'
    BY <2>1 DEF Consistent, RowsAreIssued, TokenBelongsToOwner, Telestos, Tokens, DbTypeOK
  <2>4. UniqueNames'
    BY <2>1 DEF Consistent, UniqueNames, TelestoNameFree, TokenNameFree, Telestos, Tokens, DbTypeOK
  <2>5. ConfinedTo(u) /\ KeepsIdentity /\ AppearsFresh
    BY <2>1 DEF ConfinedTo, KeepsIdentity, AppearsFresh, Consistent, DbTypeOK, Telestos, Tokens
  <2> QED
    BY <2>2, <2>3, <2>4, <2>5 DEF Act, Consistent
<1>2. CASE i \notin TelestosForUser(u)
  BY <1>2, UnchangedActs DEF DeleteTelesto, dbVars
<1> QED
  BY <1>1, <1>2

\* The insert keeps a token with its user only if the caller already made sure
\* that the telesto is the user's.
LEMMA CreateTokenActs ==
    ASSUME Consistent, NEW u \in Owner, NEW k \in TokenId, NEW i \in TelestoId,
           NEW n \in Name, CreateToken(k, u, i, n), telestos[i].user = u
    PROVE  Act(u)
<1> DEFINE row == [user |-> u, telesto |-> i, name |-> n, seen |-> FALSE]
<1>1. row \in TokenRow
  BY DEF TokenRow
<1>2. row # None
  BY <1>1, StorageAssumption
<1>3. tokens[k] = None
  BY DEF Consistent, RowsAreIssued, CreateToken, Tokens
<1>4. DbTypeOK'
  BY <1>1 DEF Consistent, DbTypeOK, CreateToken
<1>5. RowsAreIssued' /\ TokenBelongsToOwner'
  BY <1>2, <1>3 DEF Consistent, RowsAreIssued, TokenBelongsToOwner, CreateToken,
                    Telestos, Tokens, DbTypeOK
<1>6. UniqueNames'
  BY <1>2, <1>3 DEF Consistent, UniqueNames, TelestoNameFree, TokenNameFree,
                    CreateToken, Telestos, Tokens, DbTypeOK
<1>7. ConfinedTo(u) /\ KeepsIdentity
  BY <1>2, <1>3 DEF Consistent, ConfinedTo, KeepsIdentity, CreateToken, Telestos, Tokens, DbTypeOK
<1>8. AppearsFresh
  BY <1>2, <1>3 DEF Consistent, AppearsFresh, CreateToken, Telestos, Tokens, DbTypeOK
<1> QED
  BY <1>4, <1>5, <1>6, <1>7, <1>8 DEF Act, Consistent

\* The renaming of a token.
LEMMA UpdateTokenActs ==
    ASSUME Consistent, NEW u \in Owner, NEW k \in TokenId, NEW n \in Name,
           UpdateToken(u, k, n)
    PROVE  Act(u)
<1> DEFINE row == [tokens[k] EXCEPT !.name = n]
<1>1. CASE k \in TokensForUser(u)
  <2>1. tokens[k] \in TokenRow /\ k \in Tokens /\ tokens[k].user = u
    BY <1>1 DEF Consistent, DbTypeOK, TokensForUser, Tokens
  <2>2. /\ tokens' = [tokens EXCEPT ![k] = row] /\ UNCHANGED <<telestos, issued>>
        /\ TokenNameFree(k, u, n)
    BY <1>1 DEF UpdateToken, Consistent, DbTypeOK
  <2>3. row \in TokenRow /\ row.user = u /\ row.name = n
        /\ row.telesto = tokens[k].telesto /\ row.seen = tokens[k].seen
    BY <2>1 DEF TokenRow
  <2> HIDE DEF row
  <2> QED
    BY <2>1, <2>2, <2>3, TokenRowActs
<1>2. CASE k \notin TokensForUser(u)
  BY <1>2, UnchangedActs DEF UpdateToken, dbVars
<1> QED
  BY <1>1, <1>2

\* The mark on a token, which changes neither its name nor its telesto.
LEMMA MarkTokenSeenActs ==
    ASSUME Consistent, NEW u \in Owner, NEW k \in TokenId, MarkTokenSeen(u, k)
    PROVE  Act(u)
<1> DEFINE row == [tokens[k] EXCEPT !.seen = TRUE]
<1>1. CASE k \in TokensForUser(u)
  <2>1. tokens[k] \in TokenRow /\ k \in Tokens /\ tokens[k].user = u
    BY <1>1 DEF Consistent, DbTypeOK, TokensForUser, Tokens
  <2>2. tokens' = [tokens EXCEPT ![k] = row] /\ UNCHANGED <<telestos, issued>>
    BY <1>1 DEF MarkTokenSeen, Consistent, DbTypeOK
  <2>3. row \in TokenRow /\ row.user = u /\ row.name = tokens[k].name
        /\ row.telesto = tokens[k].telesto /\ row.seen = TRUE
    BY <2>1 DEF TokenRow
  <2>4. TokenNameFree(k, u, row.name)
    BY <2>1, <2>3 DEF Consistent, UniqueNames
  <2> HIDE DEF row
  <2> QED
    BY <2>1, <2>2, <2>3, <2>4, TokenRowActs
<1>2. CASE k \notin TokensForUser(u)
  BY <1>2, UnchangedActs DEF MarkTokenSeen, dbVars
<1> QED
  BY <1>1, <1>2

\* The deletion of a token.
LEMMA DeleteTokenActs ==
    ASSUME Consistent, NEW u \in Owner, NEW k \in TokenId, DeleteToken(u, k)
    PROVE  Act(u)
<1>1. CASE k \in TokensForUser(u)
  <2>1. /\ k \in Tokens /\ tokens[k].user = u
        /\ tokens' = [tokens EXCEPT ![k] = None]
        /\ UNCHANGED <<telestos, issued>>
    BY <1>1 DEF DeleteToken, TokensForUser
  <2>2. DbTypeOK'
    BY <2>1 DEF Consistent, DbTypeOK
  <2>3. RowsAreIssued' /\ TokenBelongsToOwner'
    BY <2>1 DEF Consistent, RowsAreIssued, TokenBelongsToOwner, Telestos, Tokens, DbTypeOK
  <2>4. UniqueNames'
    BY <2>1 DEF Consistent, UniqueNames, TelestoNameFree, TokenNameFree, Telestos, Tokens, DbTypeOK
  <2>5. ConfinedTo(u) /\ KeepsIdentity /\ AppearsFresh
    BY <2>1 DEF ConfinedTo, KeepsIdentity, AppearsFresh, Consistent, DbTypeOK, Telestos, Tokens
  <2> QED
    BY <2>2, <2>3, <2>4, <2>5 DEF Act, Consistent
<1>2. CASE k \notin TokensForUser(u)
  BY <1>2, UnchangedActs DEF DeleteToken, dbVars
<1> QED
  BY <1>1, <1>2
=============================================================================
