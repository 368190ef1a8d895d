SPECIFICATION Spec
CONSTANTS
    User = {u1}
    NoUser = NoUser
    TelestoId = {t1}
    TokenId = {k1}
    Name = {n1}
    Url = {}
    NoUrl = NoUrl
    None = None
    Req = {r1, r2}
    Routes <- MCSecretRoutes
PROPERTIES
    ShownOnce
