\* Two deployments of one node, two requests, every threshold 1; the family
\* policy changes under the requests.
SPECIFICATION Spec
CONSTANTS
  d1 = d1
  d2 = d2
  n1 = n1
  None = None
  Deployments = {d1, d2}
  Nodes = {n1}
  Requests = {r1, r2}
  UpAfter = 1
  DownAfter = 1
  FailThreshold = 1
  SuccessThreshold = 1
  MaxAttempts = 2
  Configs <- PolicyConfigs
  Slots <- MCSlots
CONSTRAINT PreCommit
SYMMETRY MCSymmetry
INVARIANT InflightExact
PROPERTIES ImplementsRouter NoStaleAdmission PolicyHolds
CHECK_DEADLOCK FALSE
