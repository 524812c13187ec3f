\* Every death, rebirth and takeover, with the two unlocked windows calm
CONSTANTS
    s1 = s1
    s2 = s2
    r1 = r1
    r2 = r2
    Shells = {s1, s2}
    Runs = {r1}
    Parent <- ParentOf
    Options = {"plain", "wait", "force"}
    MaxBirths = 2
    Calm = TRUE
SPECIFICATION Spec
INVARIANTS
    LockOwned
    AnswersTruthful
    HeldBySomebody
PROPERTIES
    TrapRemovesOwn
    ImplementsCard
CHECK_DEADLOCK FALSE
