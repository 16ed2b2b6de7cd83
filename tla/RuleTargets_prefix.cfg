SPECIFICATION Spec
CONSTANTS
    Variables <- MCVariables
    Text <- MCText
    Prefix <- SharedPrefix
    Tfn <- MCTfn
    Texts <- MCTexts
    Reports <- TrueReports
    TfnNames = {"a", "b", "c"}
    Uncached = {"HDR"}
    Rules <- MCRules
    MaxRules = 3
    Configs <- MCConfigs
    Null = Null
INVARIANT OperatorSeesOwnValue
CHECK_DEADLOCK FALSE
