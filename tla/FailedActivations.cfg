CONSTANTS
  one = one
  two = two
  other = other
  web = web
  db = db
  old = old
  new = new
  Nobody = Nobody
  Job <- MCJob
  Target <- MCTarget
  Gen <- MCGen
  Faults <- Recoverable
SPECIFICATION Spec
INVARIANTS
  TypeOK
  HalfIsRecorded
  InFlightIsRecorded
  OneAtATime
PROPERTIES
  OnlySuccessClears
  UnchangedIsWhole
CHECK_DEADLOCK FALSE
