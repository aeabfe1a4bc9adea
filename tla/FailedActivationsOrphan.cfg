CONSTANTS
  one = one
  two = two
  other = other
  web = web
  db = db
  old = old
  new = new
  Nobody = Nobody
  Job <- PairJob
  Target <- PairTarget
  Gen <- MCGen
  Faults <- Orphans
SPECIFICATION Spec
INVARIANT InFlightIsRecorded
CHECK_DEADLOCK FALSE
