SPECIFICATION SystemSpec
CONSTANTS
    User = {u1, u2}
    NoUser = NoUser
    TelestoId = {t1}
    TokenId = {k1}
    Name = {n1}
    Url = {}
    NoUrl = NoUrl
    Unreadable = {}
    None = None
    Req = {r1}
    Routes <- MCAllRoutes
    EmptyBodyIsEmptyList = FALSE
SYMMETRY Symmetry
INVARIANTS
    SystemInv
    OnlyOwnersSend
    LoadedTokensAreOwned
PROPERTIES
    ImplementsProvisioning
