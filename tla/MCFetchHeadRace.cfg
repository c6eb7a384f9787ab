SPECIFICATION Spec
CONSTANTS
  p1 = p1
  p2 = p2
  c1 = c1
  c2 = c2
  t1 = t1
  t2 = t2
  main = main
  typo = typo
  sha = sha
  None = None
  Partial = Partial
  Procs = {p1, p2}
  Refs = {t1, t2}
  Tags = {t1, t2}
  Branches = {}
  Shas = {}
  Commits = {c1, c2}
  Tip0 <- MCTip0
  Movable = {}
  Faults = {}
  MaxBuilds = 2
  MaxChanges = 0
CHECK_DEADLOCK FALSE
INVARIANT TagTreesFaithful
