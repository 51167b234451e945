SPECIFICATION FairSpec
CONSTANTS
  Coro = {c1, c2, c3}
  None = None
  Main = c1
  Started <- MCStarted
  MaxOps = 2
  MaxTime = 0
  Delays = {0}
  Ties = FALSE
  DefaultTimeout = 0
  Names = {s1}
  Prios = {0, 3}
  Recipients = {0, 1, 2}
  DefaultPriority = 3
  Kinds = {"none", "return", "spawn", "join", "object", "nap", "wait", "signal"}
INVARIANTS
  KeptBackSignal
PROPERTIES
  QueuedRuns
