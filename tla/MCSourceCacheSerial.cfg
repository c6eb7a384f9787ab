SPECIFICATION SerialSpec
CONSTANTS
  p1 = p1
  p2 = p2
  c1 = c1
  c2 = c2
  t1 = t1
  t2 = t2
  main = main
  typo = typo
  sha = sha
  None = None
  Partial = Partial
  Procs = {p1, p2}
  Refs = {t1, main, typo, sha}
  Tags = {t1}
  Branches = {main}
  Shas = {sha}
  Commits = {c1, c2}
  Tip0 <- MCTip0
  Movable = {main}
  Faults = {"crash"}
  MaxBuilds = 4
  MaxChanges = 2
CHECK_DEADLOCK FALSE
SYMMETRY Symmetry
INVARIANTS
  TagTreesFaithful
  RefMapFaithful
  ResultMatchesTree
  CachedRefNeverFails
  RecordsRetained
