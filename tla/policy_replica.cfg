CONSTANTS
    Clients = {c1, c2}
    None = None
    Loads = {l1, l2}
    NoLoad = NoLoad
    TTL = 1
    MaxEpoch = 2
    MaxFailures = 1
CHECK_DEADLOCK FALSE
SPECIFICATION FairSpec
INVARIANTS CacheIsCurrent FallbackIsBoot OneListener
PROPERTY Converges
