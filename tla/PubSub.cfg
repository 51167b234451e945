SPECIFICATION Spec
CONSTANTS
  c1 = c1
  c2 = c2
  c3 = c3
  Coro = {c1, c2, c3}
  None = None
  Started <- MCStarted
  MaxOps = 3
  MaxTime = 1
  Delays = {0, 1}
  Ties = FALSE
  DefaultTimeout = 0
  Prios = {2}
  Kinds = {"publish", "subscribe", "unsubscribe", "fetch", "compact_unread"}
INVARIANTS
  ExactlyOnePlace
  WaitersSubscribed
  WaitsUpToDate
PROPERTIES
  ImplementsLog
