SPECIFICATION Spec
CONSTANTS
    a1 = a1
    a2 = a2
    a3 = a3
    b1 = b1
    b2 = b2
SYMMETRY Symmetry
CONSTRAINT Bounded
INVARIANTS TypeOK NoAnswerLost TellsTheTruth RequestsAreKept SummariesAreSound FiledOnce NothingIsLost
PROPERTIES CacheMovesForward
CHECK_DEADLOCK FALSE
