SPECIFICATION Spec
CONSTANTS
    Null = Null
    NotSet = NotSet
    NoAnswer = NoAnswer
    HardLimit = 3
    Regexec <- MCRegexec
    VarName <- MCVarName
    Compiles <- MCCompiles
    InRange <- MCInRange
INVARIANTS
    TransformsSound
    LookupsExact
    Utf8Exact
    CapturesFresh
    VariablesSound
    InterceptAgrees
    UpdatesConsistent
    TextsReadBack
CHECK_DEADLOCK FALSE
