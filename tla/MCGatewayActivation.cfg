SPECIFICATION Spec
CONSTANTS
    r1 = r1
    r2 = r2
    r3 = r3
    Null = Null
    Runtimes <- ThreeRuntimes
    MaxQueue = 2
SYMMETRY RuntimeSymmetry
INVARIANTS
    GatewayTypeOK
    NothingLeaked
    InactiveIsClean
    ActiveIsServed
    PublisherReachesHub
    StartsOnFreePort
    StoppedMeansDown
PROPERTY ImplementsAuthority
