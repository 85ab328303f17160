SPECIFICATION Spec
CONSTANTS
    a = a
    b = b
    Bad = Bad
    Token = {a, b}
    Capacity = 5
    Best <- MCBest
    Likely <- MCLikely
    Prompts <- MCPrompts
    Drivers = {"greedy"}
    MaximumDepth = 2
    BeamWidth = 2
    Fused = TRUE
    Replay = {}
    Lookup = TRUE
    Search = FALSE
    SearchAfter = 1
    Continuation = TRUE
    Faults = TRUE
INVARIANTS
    TypeOK
    LayersFollowText
    Lossless
CHECK_DEADLOCK FALSE
