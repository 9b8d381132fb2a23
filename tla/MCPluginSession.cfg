SPECIFICATION FairSpec
CONSTANTS
  c1 = c1
  c2 = c2
  b1 = b1
  b2 = b2
  Callers <- TwoCallers
  Bundles <- TwoBundles
  MaxCalls = 2
  EventCap = 1
CHECK_DEADLOCK FALSE
INVARIANTS
  TypeOK
  RepliesRouted
  NoReplyLost
PROPERTY
  CallsReturn
