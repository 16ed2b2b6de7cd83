SPECIFICATION Spec
CONSTANTS
    Variables <- MCVariables
    Text <- MCText
    Prefix <- MCPrefix
    Tfn <- MCTfn
    Texts <- MCTexts
    Reports <- MCReports
    TfnNames = {"a", "b", "c"}
    Uncached = {"HDR"}
    Rules <- MCRules
    MaxRules = 3
    Configs <- MCConfigs
    Null = Null
INVARIANTS OperatorSeesTransformed MultiMatchSeesEveryStep
CHECK_DEADLOCK FALSE
