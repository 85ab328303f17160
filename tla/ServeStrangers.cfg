SPECIFICATION Spec
CONSTANTS
    NoOne = NoOne
    Requests = {r1, r2}
    Streaming = {r1, r2}
    MaximumDeltas = 2
    LongRequests = {}
    StdinRoom = 1
    StdoutRoom = 2
    ClientsLeave = TRUE
    EngineCrashes = FALSE
    SilentFailures = FALSE
CHECK_DEADLOCK FALSE
INVARIANT
    OwnReply
