\* A second HALF_OPEN trial is admitted while the first is in flight
SPECIFICATION Spec
CONSTANTS
  d1 = d1
  d2 = d2
  n1 = n1
  None = None
  Deployments = {d1}
  Nodes = {n1}
  Requests = {r1, r2, r3}
  UpAfter = 1
  DownAfter = 1
  FailThreshold = 1
  SuccessThreshold = 1
  MaxAttempts = 1
  Configs <- OneConfig
  Slots <- MCSlots
SYMMETRY MCSymmetry
INVARIANT OneTrial
CHECK_DEADLOCK FALSE
