CONSTANTS
    Clients = {t1}
    RevisionIds = {r1, r2}
    Contents = {x1}
    Tokens = {k1, k2}
    Null = Null
    MaxAttempts = 6
    Faults = {"gatewaySlow"}
    MaxFaults = 2
SPECIFICATION Spec
CHECK_DEADLOCK FALSE
INVARIANTS
    SettledAgreement
