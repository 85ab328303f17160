SPECIFICATION Spec
CONSTANTS
    Replies <- MCReplies
    WellFormed <- MCWellFormed
    Opening <- MCOpening
    MaxTurns = 3
    MaxPhrases = 3
INVARIANTS
    TypeOK
    NoToolMarkup
    ShownIsFinal
    NothingStranded
    MessageWasOpened
    PrefixSessionFree
PROPERTIES
    PrefixStable
    PlainTurnsExtend
CHECK_DEADLOCK FALSE
