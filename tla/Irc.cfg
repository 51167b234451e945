SPECIFICATION FairSpec
CONSTANTS
  Commands <- MCCommands
  MaxEvents = 5
  MaxTyped = 1
  MaxBreaks = 1
  QueueSize = 2
INVARIANTS
  EventsAccounted
  PushesInOrder
PROPERTIES
  EventsArrive
CHECK_DEADLOCK FALSE
