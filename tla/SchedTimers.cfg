SPECIFICATION FairSpec
CONSTANTS
  Coro = {c1, c2, c3}
  None = None
  Main = c1
  Started <- MCStarted
  MaxOps = 2
  MaxTime = 2
  Delays = {0, 1, 2}
  Ties = FALSE
  DefaultTimeout = 0
  Names = {s1}
  Prios = {0}
  Recipients = {0}
  DefaultPriority = 0
  Kinds = {"return", "spawn", "call", "join", "sleep", "wait", "signal"}
INVARIANTS
  NeverLost
  NoGhostWait
  NoEarlyWake
PROPERTIES
  SleepersWake
