SPECIFICATION FairSpec
CONSTANTS
  bpf = bpf
  bridge = bridge
  Bpf = Bpf
  Bridge = Bridge
  fix = fix
  driver = driver
  None = None
  Archs = {1, 2}
  Names = {bpf, bridge}
  Symbols = {Bpf, Bridge}
  Canon <- MCCanon
  Paths = {fix, driver}
  SourceHas = {driver}
  Defconfig <- MCDefconfig
  Documents <- MCDocuments
  Requests <- MCRequests
  TagLists <- MCTagLists
  Tags = {"a", "b"}
  Faults = {"fail", "cancel", "kill"}
  MaxBuilds = 2
CHECK_DEADLOCK FALSE
INVARIANTS
  TypeOK
  StoreClosed
  KernelAsWritten
  Leftovers
PROPERTIES
  ImplementsBuildStore
  BuildAnswers
