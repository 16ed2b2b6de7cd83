SPECIFICATION Spec
CONSTANTS
    MaxDirectives = 4
    MaxSkip = 2
    Marker = Marker
    SplitsChains = {}
    None = None
PROPERTY RunsAsWritten
CHECK_DEADLOCK FALSE
