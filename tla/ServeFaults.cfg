SPECIFICATION FairSpec
CONSTANTS
    NoOne = NoOne
    Requests = {r1, r2, r3}
    Streaming = {r1, r2}
    MaximumDeltas = 3
    LongRequests = {r2, r3}
    StdinRoom = 1
    StdoutRoom = 2
    ClientsLeave = TRUE
    EngineCrashes = TRUE
    SilentFailures = TRUE
CHECK_DEADLOCK FALSE
INVARIANTS
    TypeOK
    OwnReplyUnlessMisled
    ServedCompletely
    IdleMeansDrained
PROPERTY
    EveryRequestEndsUnlessStuck
