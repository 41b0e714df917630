SPECIFICATION WorkcellSpec
CONSTANTS
    e1 = e1
    e2 = e2
    s1 = s1
    s2 = s2
    s3 = s3
    p1 = p1
    p2 = p2
    r1 = r1
    r2 = r2
    Null = Null
    Endpoints = {e1, e2}
    Sockets = {s1, s2, s3}
    Browsers = {p1, p2}
    Robots = {r1, r2}
    Channels <- TwoChannels
    Runs <- ThreeRuns
    Graphs <- ThreeGraphs
    Scenarios <- AllScenarios
    MaxWire = 9
    GatewayTime = 2
    MaxBarriers = 2
    MaxSource = 6
    MaxSession = 3
    MaxNet = 1
CHECK_DEADLOCK FALSE
INVARIANTS
    DataPlaneTypeOK
    EndpointNotStranded
    StopLeavesNothing
    HubFollowsEndpoint
    NoFrameRefused
    QuietPagesAgree
    PageNotStranded
    GoodIsLive
    SetDoWritesOnce
    JobsFollowGraph
    GraphsAccountedFor
PROPERTIES
    ValuesNeverRegress
    FinishedRunsRest
