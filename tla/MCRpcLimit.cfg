CONSTANTS
    p1 = p1
    p2 = p2
    p3 = p3
    NULL = NULL
    HashXid <- TwoChains
    Pdus = {p1, p2, p3}
    RecordSize = 2
    MaxWaitpduLen = 2
    ZeroCopy = {p3}
    DoNotRetry = {p2}
    NfsVersion = 3
    ReplyKinds = {"ok", "nfserr"}
    AutoReconnect = 1
    Retrans = 1
    Cancellable = {p1}
    TeardownMidReply = FALSE
    MayTeardown = TRUE
    MaxFaults = 1
    MaxExpiries = 2
SPECIFICATION Spec
INVARIANTS TypeOK OnePlace AwaitingCovers
PROPERTIES AwaitingExact DisconnectCompletesWhenUp RefinesCommands
CHECK_DEADLOCK FALSE
