SPECIFICATION IsolationSpec
CONSTANTS
    User = {u1}
    Viewer = u1
    NoUser = NoUser
    TelestoId = {t1, t2}
    TokenId = {k1}
    Name = {n1, n2}
    Url = {}
    NoUrl = NoUrl
    None = None
    Req = {r1, r2}
    Routes <- MCPortalRoutes
SYMMETRY Symmetry
INVARIANTS
    TypeOK
    PagesAreOwn
    TokenBelongsToOwner
    SettledIsSeen
    NoLateReveal
    IInv
    IsolationInv
PROPERTIES
    ImplementsRegistry
    WritesByOwner
    AsIfAlone
