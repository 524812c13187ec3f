\* One deployment, three requests, hysteresis 2 up and 2 successes; a reload drops and restores it
SPECIFICATION WinsSpec
CONSTANTS
  d1 = d1
  d2 = d2
  n1 = n1
  None = None
  Deployments = {d1}
  Nodes = {n1}
  Requests = {r1, r2, r3}
  UpAfter = 2
  DownAfter = 1
  FailThreshold = 1
  SuccessThreshold = 2
  MaxAttempts = 1
  Configs <- DropConfigs
  Slots <- MCSlots
CONSTRAINT Alike
SYMMETRY MCSymmetry
INVARIANT TrialHeld
PROPERTIES ClosedByTraffic RefusalOutlivesProbes
CHECK_DEADLOCK FALSE
