CONSTANTS
    Fds = {f1}
    Lens = {0, 2}
    MaxReplies = 2
    MaxConns = 2
SPECIFICATION FairSpec
PROPERTY WaitsUntilPackage
CHECK_DEADLOCK FALSE
