\* The windows interleaved
CONSTANTS
    s1 = s1
    s2 = s2
    r1 = r1
    r2 = r2
    Shells = {s1, s2}
    Runs = {r1}
    Parent <- ParentOf
    Options = {"plain", "wait"}
    MaxBirths = 2
    Calm = FALSE
SPECIFICATION Spec
INVARIANTS
    OneHolder
CHECK_DEADLOCK FALSE
