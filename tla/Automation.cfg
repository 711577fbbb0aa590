CONSTANTS
    Names <- AllNames
    Define <- AllDefinitions
    Stubbed <- NoNames
    Shards <- BothShards
    Covers <- RowsOf
    Optional <- OptionalShards
    Ends <- EndsOf
    Hosts <- SomeHosts
    MaxFiles = 2
    Unguarded <- UncheckedRows
    SENTINEL_PER_PAGE = 2
    SENTINEL_MAX_PAGES = 20
    MaxItems = 3
    MaxRuns = 2
    MaxTroubles = 3
    PullRequests <- TwoPullRequests
    DEFAULT_POLL_ATTEMPTS = 2
    MaxChanges = 2
SPECIFICATION Spec
INVARIANTS PageIsHonest NothingVanishes ReadyIsWhole
PROPERTIES SentinelsSettle OnlySentinelsAreTouched RefreshIsEarned OneByOne
CHECK_DEADLOCK FALSE
