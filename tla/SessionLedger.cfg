\* One reader, the run the console spawned and a resumed one; two ops
SPECIFICATION Spec
CONSTANTS
    Readers = {console}
    MaxRuns = 2
    MaxOps = 2
    MaxBatch = 1
    Calm = TRUE
CHECK_DEADLOCK FALSE
INVARIANTS LostIsDead AtMostOnce ChildHasVerdict SignalledIsFiled
PROPERTIES ImplementsSession VerdictStands StopEnds NoGhost
