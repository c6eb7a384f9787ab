SPECIFICATION Spec
CONSTANTS
  index = index
  image = image
  subject = subject
  layer = layer
  None = None
  Nodes = {index, image, subject, layer}
  Succ <- MCSucc
  Path <- MCPath
  Calls <- MCCalls
  Concurrency = 2
  Faults = {}
  MaxPulls = 1
CHECK_DEADLOCK FALSE
INVARIANT BottomUp
