SPECIFICATION FairSpec
CONSTANTS
    a = a
    b = b
    eos = eos
    Bad = Bad
    Token <- MCToken
    StopTokens = {eos}
    Prompts <- MCRelatedPrompts
    PromptLength = 3
    Capacity = 4
    MaximumNew = 3
    PrefixMin = 1
    StepWidth = 2
    Continuation = TRUE
    Viterbi = TRUE
    Faults = {"restore", "save"}
PROPERTIES
    StatelessService
    RequestsFinish
