SPECIFICATION MCSpec
CONSTANTS
    a = a  b = b  c = c
    first = first  second = second  finish = finish
    Node <- ThreeNodes
    Op <- ThreeCommands
    Target <- Targets
    Options <- RunOptions
    Silent = FALSE
    MaxTime = 2
    Frail = {a}
    MaxOutages = 1
CONSTRAINT InOrder
INVARIANTS
    TypeOK
    StoppedStaysCordoned
    LimitIsOwed
    StoppedAgentReported
PROPERTIES
    TakenDownSafely
    ReturnedAgentIsFresh
CHECK_DEADLOCK FALSE
