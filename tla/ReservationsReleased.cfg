CONSTANTS
  a = a
  b = b
  c = c
  fleet = fleet
  one = one
  Free = Free
  Ownerless = Ownerless
  Host <- MCHost
  Run <- MCRun
  Operator = {}
  Group <- MCGroup
  Changed <- MCChanged
  Controller <- MCController
  Fleet <- MCFleet
  Gated = TRUE
  Faults <- NoFaults
SPECIFICATION FairSpec
PROPERTY Released
CHECK_DEADLOCK FALSE
