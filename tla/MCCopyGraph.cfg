SPECIFICATION FairSpec
CONSTANTS
  index = index
  image = image
  subject = subject
  layer = layer
  None = None
  Nodes = {index, image, subject, layer}
  Succ <- MCSucc
  Path <- MCPath
  Calls <- MCCalls
  Concurrency = 2
  Faults = {"io", "cancel", "crash"}
  MaxPulls = 2
CHECK_DEADLOCK FALSE
INVARIANTS
  TypeOK
  SuccessorsFirst
  TaggedWhole
  TokensConserved
  NothingOutlives
  NoErrorLost
  CauseRecorded
PROPERTIES
  ImplementsGraphStore
  Termination
