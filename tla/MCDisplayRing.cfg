SPECIFICATION Spec
CONSTANTS
  Depth = 3
  MaxFrames = 6
  Clients = {k1, k2}
  NoClient = NoClient
SYMMETRY ClientSymmetry
INVARIANTS
  TypeOK
  CountExact
  RingHoldsFrames
  ToldInOrder
CHECK_DEADLOCK FALSE
