CONSTANTS
    p1 = p1
    p2 = p2
    p3 = p3
    NULL = NULL
    HashXid <- TwoChains
    Pdus = {p1, p2}
    RecordSize = 2
    MaxWaitpduLen = 0
    ZeroCopy = {}
    DoNotRetry = {p1}
    NfsVersion = 3
    ReplyKinds = {"ok"}
    AutoReconnect = 2
    Retrans = 0
    Cancellable = {}
    TeardownMidReply = FALSE
    MayTeardown = FALSE
    MaxFaults = 0
    MaxExpiries = 1
SPECIFICATION Spec
INVARIANTS StreamIntact
CHECK_DEADLOCK FALSE
