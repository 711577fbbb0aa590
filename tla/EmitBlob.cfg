CONSTANTS
    t1 = t1
    t2 = t2
    paired = paired
    odd = odd
    lost = lost
    killed = killed
    old = old
    c1 = c1
    c2 = c2
    A = A
    B = B
    C = C
    TestOrder <- Order
    Text = {paired, odd, lost, killed, old}
    Disposition <- Kind
    Variants <- Configurations
    Native <- NativeAnswer
    Tsz <- TszAnswer
    Commit = {c1, c2}
    Pinned <- Commits
    Filters = {{t1}, {t1, t2}}
    Selections = {{}, {t2}, {t1, t2}}
    Workers = 2
    MaxNode = 1
    Limit = 2
    Missing = missing
    Torn = torn
    Crash = crash
    Incomplete = incomplete
    MaxGenerations = 2
    MaxEdits = 1
    Pins = 2
    Listing <- Baselined
    HasDts <- Declarations
    TestPath <- OneFile
    Variant <- ByName
    Directives <- InTheFile
    Embedded <- InTheConfig
    Maxes = {0, 2}
    MaxFaults = 1
    Cases = {1, 2}
    Runs <- SomeRuns
    Declares <- DeclaresFirst
    Staged <- Input
    Emissions <- Written
    Endings <- Ways
    Concurrency = 2
    Stems = {"a", "b", "c"}
    MaxSources = 3
    Depths = {1, 2, 3}
    MaxChain = 4
    Said <- Diagnostics
    MaxDiagnostics = 3
SPECIFICATION DiscoverySpec
INVARIANT TextsAreTheCheckouts
CHECK_DEADLOCK FALSE
