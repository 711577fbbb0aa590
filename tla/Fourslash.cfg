CONSTANTS
    Tests <- TwoTests
    MaxRequests = 1
    MaxBridges = 3
    MaxAttempts = 2
    MaxFaults = 2
    None = none
    Discovered = {1, 2, 3}
    Snapshots <- Histories
    ShardTotal = 2
    Offsets = {0}
    Maxes = {0, 2}
    Workers = 2
    Elapsed <- Times
    Hash <- HashToFirst
    TimeoutBias = 5
    DefaultWeight = 1
    MaxDeaths = 1
    main = main
    package = package
    config = config
    fresh = fresh
    old = old
    Path = {main, package, config, fresh}
    Text = {old, new}
    Root = {main, fresh}
    Config = {config}
    Ancestors <- AboveAll
    Projects <- ATest
    MaxCalls = 5
    Absent = absent
    Spoilt = spoilt
SPECIFICATION Spec
INVARIANTS TestsAreIsolated ReportIsTrue ShardsAreBalanced ServerSeesTheHost
PROPERTIES KeepsContract EveryoneEnds
CHECK_DEADLOCK FALSE
