SPECIFICATION Spec
CONSTANTS
    n1 = n1
    n2 = n2
    plain = plain
    unlisted = unlisted
    self = self
    KNode = {n1, n2}
    InCluster = {n1, n2, unlisted}
    Self = self
    Serial = {{n2, plain}}
    Gated = {{n2, plain}}
    Interactive = {plain, self}
    MaxRuns = 2
    MaxRun = 3
    Keep = 1
    MaxLock = 2
    MaxFaults = 1
    Budget = 3
CONSTRAINT Bounded
INVARIANTS TypeOK TurnsAreKept NothingUntold TriageIsRight VerdictIsRight
PROPERTIES RebootsInTurn PruneKeeps
CHECK_DEADLOCK FALSE
