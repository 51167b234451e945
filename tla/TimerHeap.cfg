SPECIFICATION Spec
CONSTANTS
  Ops <- MCOps
  MaxLen = 6
INVARIANT
  HeapOrdered
PROPERTIES
  RemovesItself
  ImplementsTimerSet
