SPECIFICATION Spec
CONSTANTS
    Configs <- MCConfigs
    MaxBody = 4
    MaxBrigade = 3
    MaxRead = 3
    ChunkCapacity = 2
    Null = Null
    Freed = Freed
    Eos = Eos
INVARIANTS ForwardedWhole NoHole LimitsHold TemporaryFileGone
