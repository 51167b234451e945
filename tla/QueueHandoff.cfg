SPECIFICATION Spec
CONSTANTS
  c1 = c1
  c2 = c2
  c3 = c3
  Coro = {c1, c2, c3}
  None = None
  Started <- MCStarted
  MaxOps = 2
  MaxTime = 0
  Delays = {0}
  Ties = FALSE
  DefaultTimeout = 0
  MaxSize = 1
  Prios = {0, 1, 2, 3}
  Kinds = {"raise", "get", "put", "get_nowait", "put_nowait", "task_done", "join"}
INVARIANTS
  TypeOK
  EmptyWhileGetsWait
  FullWhilePutsWait
  WithinCapacity
  ExactlyOnePlace
  GetReturnsItem
  UnfinishedCounts
  JoinReleased
PROPERTIES
  ImplementsFifo
