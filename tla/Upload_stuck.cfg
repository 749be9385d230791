CONSTANTS
    Workers = {w1, w2}
    Names = {a}
    Md5s = {m1}
    SlideNum = 2
    Seeds <- SomeSeeds
    Ops = {"UploadFile", "UploadData", "DeleteFile"}
    OnlyTold = FALSE
    Faults = {"driver", "disk"}
    MaxDocs = 6
    MaxRequests = 2
    MaxCrashes = 1
SPECIFICATION FairSpec
PROPERTY HandlerEnds
\* The clients send a bounded number of requests.
CHECK_DEADLOCK FALSE
