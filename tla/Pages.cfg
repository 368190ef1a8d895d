SPECIFICATION Spec
CONSTANTS
    User = {u1}
    Me = u1
    NoUser = NoUser
    TelestoId = {t1}
    TokenId = {k1, k2}
    Name = {n1}
    NoName = NoName
    Url = {}
    NoUrl = NoUrl
    None = None
    Tab = {b1, b2}
SYMMETRY Symmetry
INVARIANTS
    TypeOK
    OncePerSubmit
    LinksWork
PROPERTY LandsOnWrittenRow
