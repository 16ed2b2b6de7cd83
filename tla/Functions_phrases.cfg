SPECIFICATION Spec
CONSTANTS
    Null = Null
    NotSet = NotSet
    NoAnswer = NoAnswer
    HardLimit = 3
    Regexec <- MCRegexec
    VarName <- MCVarName
    Compiles <- MCCompiles
    InRange <- MCInRange
INVARIANTS
    EveryPhraseFound
CHECK_DEADLOCK FALSE
