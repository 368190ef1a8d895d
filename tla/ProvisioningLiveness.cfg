SPECIFICATION FairSpec
CONSTANTS
    User = {}
    NoUser = NoUser
    TelestoId = {t1}
    TokenId = {k1, k2}
    Name = {n1, n2}
    Url = {}
    NoUrl = NoUrl
    Unreadable = {}
    NoEndpoint = NoUrl
    None = None
    EmptyBodyIsEmptyList = TRUE
PROPERTIES
    RevocationTakesEffect
    Converges
