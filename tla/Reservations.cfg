CONSTANTS
  a = a
  b = b
  c = c
  fleet = fleet
  one = one
  Free = Free
  Ownerless = Ownerless
  Host <- MCHost
  Run <- MCRun
  Operator = {op}
  Group <- MCGroup
  Changed <- MCChanged
  Controller <- MCController
  Fleet <- MCFleet
  Gated = TRUE
  Faults <- EverythingElse
SPECIFICATION Spec
INVARIANTS
  TypeOK
  Protected
  NoOverlap
  StartedIsRecorded
  QuorumKept
PROPERTY LockSpec
CHECK_DEADLOCK FALSE
