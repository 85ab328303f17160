SPECIFICATION Spec
CONSTANTS
    a = a
    b = b
    Bad = Bad
    Token = {a, b}
    Capacity = 5
    Best <- MCBest
    Likely <- MCLikely
    Prompts <- MCPrompts
    Drivers = {"greedy", "sampled"}
    MaximumDepth = 2
    BeamWidth = 2
    Fused = TRUE
    Replay = {"greedy"}
    Lookup = FALSE
    Search = TRUE
    SearchAfter = 1
    Continuation = TRUE
    Faults = FALSE
INVARIANTS
    LogitsOfPending
    HiddenOfTarget
    DraftRowsFollowText
    RootsOfPending
    Lossless
CHECK_DEADLOCK FALSE
