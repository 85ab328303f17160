SPECIFICATION Spec
CONSTANTS
    a = a
    b = b
    Bad = Bad
    Token = {a, b}
    Capacity = 5
    Prompts <- MCPrompts
    Window = 2
    Block = 2
    ChunkSizes = {1, 2}
    WideChunk = 2
    Wide = TRUE
    Checkpoints = {"turn", "system"}
    Faults = TRUE
INVARIANTS
    TypeOK
    ContextFollowsText
    ContextIsLongest
