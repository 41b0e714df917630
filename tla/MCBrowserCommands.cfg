SPECIFICATION FairSpec
CONSTANTS
    s1 = s1
    s2 = s2
    q1 = q1
    q2 = q2
    v1 = v1
    v2 = v2
    Null = Null
    Sockets <- TwoSockets
    Requests <- OneRequest
    Variants <- TwoVariants
    MaxGeneration = 2
    MaxRecords = 1
INVARIANTS
    CommandsTypeOK
    LeaseHasKeeper
    InFlightOnce
PROPERTIES
    SuccessIsCurrent
    ResultStands
    CommandsSettle
