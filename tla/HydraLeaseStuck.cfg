\* A reload takes gpu_lease off a node that the lease has drained
SPECIFICATION LiveSpec
CONSTANTS
  d1 = d1
  d2 = d2
  n1 = n1
  None = None
  Deployments = {d1}
  Nodes = {n1}
  Requests = {r1}
  UpAfter = 1
  DownAfter = 1
  FailThreshold = 1
  SuccessThreshold = 1
  MaxAttempts = 1
  Configs <- LeaseConfigs
  Slots <- MCSlots
PROPERTY FreeLeaseUndrains
CHECK_DEADLOCK FALSE
