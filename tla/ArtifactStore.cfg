\* Two processes, one of which sweeps, and a reader
SPECIFICATION Spec
CONSTANTS
    Procs = {"server", "cli"}
    Sweeper = "server"
    Readers = {"r"}
    Principals = {"rig", "alice"}
    Rig = "rig"
    FirstOperators = {}
    Cap = 2
    MaxOps = 5
    Menus <- MCMenus
    MaxFaults = 1
    MaxNow = 2
CHECK_DEADLOCK FALSE
INVARIANTS StoreTypeOK NamedBytes NeverWedged ReadsPublished
PROPERTIES OwnerActs SweepSpares ImplementsShelf
