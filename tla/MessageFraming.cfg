CONSTANTS
    WordSize = 2
    Base = 5
    ReadSize = 4
    Messages <- AllMessages
    MaxMessages = 3
SPECIFICATION FairSpec
INVARIANTS
    TypeOK
    FramesInOrder
    NothingBeyond
    StallsBetweenParts
    NothingIsServed
PROPERTIES BodyIsDispatched
CHECK_DEADLOCK FALSE
