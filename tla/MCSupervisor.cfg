SPECIFICATION LiveSpec
CONSTANTS
    Names = {n1, n2}
    Specs = {s1, s2}
    Pids = {p1, p2}
    TaskIds = {t1, t2}
    None = None
    WriteMayFail = TRUE
INVARIANTS
    OneProcessPerName
    IdleAgrees
    PidIsOwn
    NothingLeftBehind
    IInv
PROPERTIES
    ForgetsOnlyInHandover
    ImplementsContract
    WaitsEnd
