SPECIFICATION Spec
CONSTANTS
    PIPE_BUF_SIZE = 4
    Events = 3
    MaxLen = 7
    Recycled = TRUE
INVARIANT WholeEventsInOrder
