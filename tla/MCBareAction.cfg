SPECIFICATION Spec
CONSTANTS
  bpf = bpf
  bridge = bridge
  Bpf = Bpf
  Bridge = Bridge
  fix = fix
  driver = driver
  None = None
  Archs = {1, 2}
  Names = {bpf, bridge}
  Symbols = {Bpf, Bridge}
  Canon <- MCCanon
  Paths = {fix, driver}
  SourceHas = {driver}
  Defconfig <- MCDefconfig
  Documents <- MCBareDocuments
  Requests <- MCOneRequest
  TagLists <- MCNoTags
  Tags = {"a", "b"}
  Faults = {}
  MaxBuilds = 1
CHECK_DEADLOCK FALSE
INVARIANT KernelAsWritten
