CONSTANTS
    p1 = p1
    p2 = p2
    p3 = p3
    NULL = NULL
    HashXid <- TwoChains
    Pdus = {p1, p2}
    RecordSize = 2
    MaxWaitpduLen = 0
    ZeroCopy = {p2}
    DoNotRetry = {}
    NfsVersion = 3
    ReplyKinds = {"rpcerr"}
    AutoReconnect = 2
    Retrans = 0
    Cancellable = {}
    TeardownMidReply = FALSE
    MayTeardown = FALSE
    MaxFaults = 2
    MaxExpiries = 0
SPECIFICATION Spec
INVARIANTS CallbackOnce
CHECK_DEADLOCK FALSE
