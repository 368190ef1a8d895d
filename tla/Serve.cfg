SPECIFICATION FairSpec
CONSTANTS
    d1 = d1 d2 = d2 s1 = s1 s2 = s2
    Pod = {p, q}
    Token = {d1, d2, s1, s2}
    Versions <- KeyPairs
    None = None
INVARIANTS
    TypeOK
    TokensOpenTheirRoute
PROPERTIES
    ComesBack
    PollsSucceed
