\* The same session, its record read and judged at different moments
SPECIFICATION Spec
CONSTANTS
    Readers = {console}
    MaxRuns = 2
    MaxOps = 2
    MaxBatch = 1
    Calm = FALSE
CHECK_DEADLOCK FALSE
INVARIANTS AtMostOnce
