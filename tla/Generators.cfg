CONSTANTS
  Inputs <- Edges
  Channels = {0, 1, 127, 128, 254, 255}

SPECIFICATION Spec
CHECK_DEADLOCK FALSE

INVARIANTS
  
  ShapeFollowsCount
  NumbersReachBothEnds
  EchoIsReproducible
  HueMatchesOrder
