SPECIFICATION FairSpec
CONSTANTS
    Tab = {a}
    Flow = {f1, f2}
    Session = {s1, s2}
    Csrf = {c1}
    Ui <- MCUi
    None = None
    CleansUp = TRUE
    CachesPermanentRedirects = TRUE
INVARIANTS
    TypeOK
    FormsAreComplete
PROPERTIES
    LoginRecovers
    RegisterRecovers
    NavigationEnds
