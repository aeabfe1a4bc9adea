CONSTANTS
  one = one
  two = two
  other = other
  web = web
  db = db
  old = old
  new = new
  Nobody = Nobody
  Job <- PairJob
  Target <- PairTarget
  Gen <- MCGen
  Faults <- Unsynced
SPECIFICATION Spec
INVARIANT HalfIsRecorded
CHECK_DEADLOCK FALSE
