SPECIFICATION Spec
CONSTANTS
    s1 = s1
    s2 = s2
    q1 = q1
    q2 = q2
    v1 = v1
    v2 = v2
    Null = Null
    Sockets <- OneSocket
    Requests <- OneRequest
    Variants <- OneVariant
    MaxGeneration = 1
    MaxRecords = 1
INVARIANT PendingFollowsLease
