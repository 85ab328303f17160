SPECIFICATION Spec
CONSTANTS
    a = a
    b = b
    eos = eos
    Bad = Bad
    Token <- MCToken
    StopTokens = {eos}
    Prompts <- MCPrompts
    PromptLength = 2
    Capacity = 4
    MaximumNew = 2
    PrefixMin = 1
    StepWidth = 2
    Continuation = FALSE
    Viterbi = FALSE
    Faults = {"restore", "save", "prefill", "forward", "step"}
INVARIANT
    IndependentPrompts
