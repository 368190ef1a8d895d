SPECIFICATION Spec
CONSTANTS
    User = {}
    NoUser = NoUser
    TelestoId = {t1}
    TokenId = {k1}
    Name = {n1}
    Url = {}
    NoUrl = NoUrl
    Unreadable = {}
    NoEndpoint = NoUrl
    None = None
    EmptyBodyIsEmptyList = TRUE
PROPERTIES
    LifecycleFollowsUsers
