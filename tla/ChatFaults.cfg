SPECIFICATION Spec
CONSTANTS
    a = a
    b = b
    eos = eos
    Bad = Bad
    Token <- MCToken
    StopTokens = {eos}
    Prompts <- MCPrompts
    PromptLength = 3
    Capacity = 4
    MaximumNew = 2
    PrefixMin = 1
    StepWidth = 2
    Continuation = TRUE
    Viterbi = FALSE
    Faults = {"restore", "save", "prefill", "forward", "step"}
SYMMETRY OrdinaryTokens
INVARIANTS
    TypeOK
    LogitsOfPrompt
    TurnRowsIntact
    SystemSlotSelfContained
    HistoryIsResident
    ReplyWellFormed
