\* Two requests, two runs of clients.sh
SPECIFICATION FairSpec
CONSTANTS
    Requests = {"r1", "r2"}
    Writers = {"w1", "w2"}
    AllowAnon = TRUE
    MaxInflight = 2
    Rates = {1, 2}
    DefaultRate = 2
    MaxKeys = 3
    MaxChunks = 2
    Menus <- MCMenus
CHECK_DEADLOCK FALSE
INVARIANTS SlotsExact AuditedOnce
PROPERTIES ImplementsTurnstile CutOff BannedStaysOut GoneEnds
