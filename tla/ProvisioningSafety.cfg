SPECIFICATION Spec
CONSTANTS
    User = {u1}
    NoUser = NoUser
    TelestoId = {t1, t2}
    TokenId = {k1}
    Name = {n1}
    Url = {w1}
    NoUrl = NoUrl
    Unreadable = {w1}
    NoEndpoint = NoUrl
    None = None
    EmptyBodyIsEmptyList = TRUE
SYMMETRY Symmetry
INVARIANTS
    TypeOK
    TokensStayHome
    PInv
PROPERTIES
    PrunedOnlyIfDeleted
