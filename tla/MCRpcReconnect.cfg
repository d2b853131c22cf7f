CONSTANTS
    p1 = p1
    p2 = p2
    p3 = p3
    NULL = NULL
    HashXid <- TwoChains
    Pdus = {p1, p2, p3}
    RecordSize = 2
    MaxWaitpduLen = 1
    ZeroCopy = {p2}
    DoNotRetry = {}
    NfsVersion = 3
    ReplyKinds = {"ok", "nfserr"}
    AutoReconnect <- Forever
    Retrans = 1
    Cancellable = {}
    TeardownMidReply = FALSE
    MayTeardown = FALSE
    MaxFaults = 3
    MaxExpiries = 0
SPECIFICATION FairSpec
INVARIANTS CallbackOnce StreamIntact
PROPERTIES CommandsComplete
CHECK_DEADLOCK FALSE
