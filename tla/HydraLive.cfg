\* One deployment, two requests: recovery from anything that happened before
SPECIFICATION LiveSpec
CONSTANTS
  d1 = d1
  d2 = d2
  n1 = n1
  None = None
  Deployments = {d1}
  Nodes = {n1}
  Requests = {r1, r2}
  UpAfter = 2
  DownAfter = 1
  FailThreshold = 1
  SuccessThreshold = 1
  MaxAttempts = 1
  Configs <- OneConfig
  Slots <- MCSlots
PROPERTIES ReadyAgain AdmitsAgain
CHECK_DEADLOCK FALSE
