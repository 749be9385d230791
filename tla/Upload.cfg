CONSTANTS
    Workers = {w1, w2}
    Names = {a}
    Md5s = {m1}
    SlideNum = 2
    Seeds <- SomeSeeds
    Ops = {"UploadFile", "UploadData", "DeleteFile"}
    OnlyTold = FALSE
    Faults = {}
    MaxDocs = 8
    MaxRequests = 3
    MaxCrashes = 1
SPECIFICATION FairSpec
INVARIANTS
    TypeOK
    PendingOrReceived
    TornOnlyByCrash
    FinishedIsReceived
    RefsFallWithRemovals
PROPERTIES ImplementsLedger AllReceivedFinishes
\* The clients send a bounded number of requests.
CHECK_DEADLOCK FALSE
