SPECIFICATION SystemSpec
CONSTANTS
    User = {u1, u2}
    NoUser = NoUser
    TelestoId = {t1}
    TokenId = {k1}
    Name = {n1}
    Url = {}
    NoUrl = NoUrl
    Unreadable = {}
    None = None
    Req = {r1}
    Routes <- MCSystemRoutes
    EmptyBodyIsEmptyList = FALSE
SYMMETRY Symmetry
INVARIANT SecretsHaveOneOwner
