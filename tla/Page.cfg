SPECIFICATION Spec
CONSTANTS
  Kinds <- MCKinds
  MaxRequests = 4
  Sections = 2
  Places <- MCPlaces
  Limit = 4
  Grid = 2
  Snap = 1
  Droppables <- MCDroppables
  Steps = 2
  Items = 3
  MaxGhosts = 2
  Fns = {"f", "g", "h"}
  Instances = {1, 2}
  Images = {1, 2}
  Pages = {1, 2}
  Names = {"a", "b"}
  Sizes = {1, 2}
  MaxText = 3
  MaxEncoded = 2
  MaxSends = 4
  MaxLinks = 2
INVARIANTS
  AtRest
  WheelStops
  MouseAtRest
  CalledWhenDue
  CookieIsHash
PROPERTIES
  Settles
CHECK_DEADLOCK FALSE
