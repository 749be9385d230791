CONSTANTS
    Fds = {f1, f2}
    Lens <- SomeLens
    MaxReplies = 2
    MaxConns = 3
SPECIFICATION FairSpec
INVARIANTS
    TypeOK
    FrontPinned
    BytesInOrder
    OpenClientServed
PROPERTIES ImplementsFifo DeadFrontDropped AwakeSenderDrains
\* The process may be killed by SIGPIPE, and the thread may return.
CHECK_DEADLOCK FALSE
