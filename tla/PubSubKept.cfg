SPECIFICATION Spec
CONSTANTS
  c1 = c1
  c2 = c2
  c3 = c3
  Coro = {c1, c2}
  None = None
  Started <- MCStartedTwo
  MaxOps = 4
  MaxTime = 0
  Delays = {0}
  Ties = FALSE
  DefaultTimeout = 0
  Prios = {2}
  Kinds = {"publish", "subscribe", "fetch", "keep"}
INVARIANTS
  NoMessageTwice
