CONSTANTS
    a = a
    b = b
    c = c
    d = d
    strict = strict
    Config <- Four
    Missing = missing
    Setting <- Settings
    Unset = unset
    NoConfig = noConfig
    Hosts <- ThreeOrFour
SPECIFICATION FairSpec
INVARIANTS CacheIsDefinitive LoadingIsFresh
PROPERTY LoadingEnds
CHECK_DEADLOCK FALSE
