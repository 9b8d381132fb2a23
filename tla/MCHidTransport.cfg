SPECIFICATION FairSpec
CONSTANTS
  c1 = c1
  c2 = c2
  k1 = k1
  k2 = k2
  NoClient = NoClient
  Callers <- TwoCallers
  Clients <- TwoClients
  Slots <- ThreeSlots
  SEQ_WRAP = 2
INVARIANTS
  TypeOK
  SlotsPartition
  NoDanglingClient
PROPERTIES
  StopDrains
CHECK_DEADLOCK FALSE
