SPECIFICATION Spec
CONSTANTS
  c1 = c1
  c2 = c2
  c3 = c3
  Coro = {c1, c2, c3}
  None = None
  Started <- MCStarted
  MaxOps = 2
  MaxTime = 2
  Delays = {1, 2}
  Ties = FALSE
  DefaultTimeout = 0
  MaxSize = 1
  Prios = {0}
  Kinds = {"get", "put"}
INVARIANTS
  ResultsDelivered
