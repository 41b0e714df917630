CONSTANTS
    Clients = {t1, t2}
    RevisionIds = {r1}
    Contents = {x1}
    Tokens = {k1, k2}
    Null = Null
    MaxAttempts = 4
    Faults <- FaultClasses
    MaxFaults = 1
SPECIFICATION FairSpec
CHECK_DEADLOCK FALSE
PROPERTIES
    OperationsFinish
