SPECIFICATION FairSpec
CONSTANTS
  t1 = t1
  t2 = t2
  t3 = t3
  Tiles <- ThreeTiles
  MaxPaints = 3
INVARIANTS
  TypeOK
  NoUpdateForgotten
PROPERTIES
  MirrorsFramebuffer
  PaintsShown
