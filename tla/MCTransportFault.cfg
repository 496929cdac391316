CONSTANTS
  Handlers = {h1, h2, h3}
  None = none
SPECIFICATION PortFairSpec
INVARIANTS
  EndsClean
PROPERTIES
  CancelledEnds
CHECK_DEADLOCK FALSE
