CONSTANTS
    Fds = {f1, f2}
    Reactors = 1
    MaxConns = 2
    MaxInput = 2
SPECIFICATION FairSpec
INVARIANTS
    TypeOK
    BatchAlive
    TableMatchesSockets
    MessageFindsItsWrapper
    LoadCountsBound
PROPERTIES OwnReactorFrees HungUpReleased
\* The process may crash, and no more connections may come.
CHECK_DEADLOCK FALSE
