CONSTANTS
    WordSize = 2
    Base = 5
    ReadSize = 4
    Messages <- PlainMessages
    MaxMessages = 2
SPECIFICATION Spec
INVARIANT AllReceivedIsProcessed
CHECK_DEADLOCK FALSE
