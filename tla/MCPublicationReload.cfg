CONSTANTS
    Clients = {t1}
    RevisionIds = {r1, r2}
    Contents = {x1}
    Tokens = {k1}
    Null = Null
    MaxAttempts = 10
    Faults = {"reload"}
    MaxFaults = 1
SPECIFICATION PersistentSpec
CHECK_DEADLOCK FALSE
PROPERTIES
    HydrationRecovers
