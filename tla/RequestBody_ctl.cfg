SPECIFICATION Spec
CONSTANTS
    Configs <- CtlConfigs
    MaxBody = 4
    MaxBrigade = 3
    MaxRead = 3
    ChunkCapacity = 2
    Null = Null
    Freed = Freed
    Eos = Eos
INVARIANT JoinedBodyInMemory
