SPECIFICATION FairSpec
CONSTANTS
  c1 = c1
  c2 = c2
  b1 = b1
  Clients <- OneClient
  Results <- SomeResults
  Facets = 1
  FacetRows = 1
  VisibleRows = 1
  OpCap = 1
  MaxLoads = 1
  MaxTurn = 2
  Bundles <- OneBundle
  EventCap = 1
CHECK_DEADLOCK FALSE
PROPERTIES
  SignalStops
