SPECIFICATION FairSpec
CONSTANTS
    r1 = r1
    r2 = r2
    r3 = r3
    Null = Null
    Runtimes <- TwoRuntimes
    MaxQueue = 1
PROPERTY StopFinishes
