CONSTANTS
    Fds = {f1}
    Lens = {0, 2}
    MaxReplies = 2
    MaxConns = 2
SPECIFICATION Spec
INVARIANT SentToItsClient
CHECK_DEADLOCK FALSE
