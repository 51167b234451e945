SPECIFICATION Spec
CONSTANTS
  Coro = {c1, c2, c3}
  None = None
  Main = c1
  Started <- MCStarted
  MaxOps = 2
  MaxTime = 0
  Delays = {0}
  Ties = FALSE
  DefaultTimeout = 0
  Names = {s1}
  Prios = {0, 1, 2, 3}
  Recipients = {0}
  DefaultPriority = 0
  Kinds = {"none", "return", "raise", "shutdown", "call", "add", "spawn", "join",
           "latejoin", "wait", "signal"}
SYMMETRY Symmetry
INVARIANTS
  TypeOK
  ExactlyOnePlace
  LoopSurvives
  NoStaleWait
