SPECIFICATION Spec
CONSTANTS
  c1 = c1
  c2 = c2
  f1 = f1
  f2 = f2
  Coro = {c1, c2}
  Fd = {f1, f2}
  None = None
  Configs <- MCConfigs
  Prios = {0, 3}
  MaxOps = 2
  MaxData = 1
  Kinds = {}
SYMMETRY Symmetry
INVARIANTS
  WakeupsKept
CHECK_DEADLOCK FALSE
