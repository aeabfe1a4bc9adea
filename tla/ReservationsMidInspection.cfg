CONSTANTS
  a = a
  b = b
  c = c
  fleet = fleet
  one = one
  Free = Free
  Ownerless = Ownerless
  Host <- MCHost
  Run <- MCRun
  Operator = {op}
  Group <- MCGroup
  Changed <- MCChanged
  Controller <- MCController
  Fleet <- MCFleet
  Gated = FALSE
  Faults <- MidInspection
SPECIFICATION Spec
INVARIANT Protected
CHECK_DEADLOCK FALSE
