SPECIFICATION Spec
CONSTANTS
  Parts = {"reporter"}
  Procs = {p1, p2}
  Archs = {"a", "b", "c"}
  Commands <- MCCommands
  Built <- MCBuilt
  Published <- MCPublished
  NoRoot = NoRoot
  MaxCommands = 3
  Outputs <- MCOutputs
  Details = {"d1"}
  TailLines = 2
  StepLineCap = 2
  FailDumpLines = 1
  MaxSteps = 1
  MaxCalls = 1
  NoSnapshot = NoSnapshot
  Readers = {r1, r2}
  Sizes = {2, 3}
  Limit = 2
  Longest = 3
  NoData = NoData
  Options = {"A", "B"}
  OptionValues = {"y", "m", "n", ""}
  ConfigFiles <- MCConfigFiles
  MaxEdits = 2
  GitChunks <- MCGitChunks
  MaxSent = 5
  Descs <- MCDescs
  WalkRoots <- MCWalkRoots
  Platforms <- MCPlatforms
  Wants <- MCWants
  MaxEntries = 2
  MaxDepth = 2
  MaxChanges = 1
CHECK_DEADLOCK FALSE
PROPERTY UnwindsOnExit
