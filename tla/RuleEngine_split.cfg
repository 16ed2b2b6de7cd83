SPECIFICATION Spec
CONSTANTS
    MaxDirectives = 4
    MaxSkip = 2
    Marker = Marker
    SplitsChains = {"id"}
    None = None
INVARIANT ChainsFromTheStart
CHECK_DEADLOCK FALSE
