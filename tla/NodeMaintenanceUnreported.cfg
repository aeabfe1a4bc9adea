SPECIFICATION MCSpec
CONSTANTS
    a = a  b = b  c = c
    first = first  second = second  finish = finish
    Node <- ThreeNodes
    Op <- ThreeCommands
    Target <- Targets
    Options <- RunOptions
    Silent = TRUE
    MaxTime = 2
    Frail = {a}
    MaxOutages = 1
INVARIANT
    StoppedAgentReported
CHECK_DEADLOCK FALSE
