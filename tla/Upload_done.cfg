CONSTANTS
    Workers = {w1, w2}
    Names = {a}
    Md5s = {m1}
    SlideNum = 2
    Seeds <- NewFileOnly
    Ops = {"UploadFile", "UploadData"}
    OnlyTold = TRUE
    Faults = {}
    MaxDocs = 2
    MaxRequests = 4
    MaxCrashes = 0
SPECIFICATION Spec
INVARIANT DoneMeansReceived
\* The clients send a bounded number of requests.
CHECK_DEADLOCK FALSE
