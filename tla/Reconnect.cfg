\* Same-target reconnect while the user replaces, stops and reconfigures.
CONSTANTS
    Members = 2
    MaxAttempts = 1
    Cooldown = 1
    Backoff = 1
    Grants = {}
    Tun = FALSE
    Holds = FALSE
    StandbyProxy = FALSE
    Aggressive = TRUE
    PortChanges = FALSE
    ExternalEdits = FALSE
    Catalogs = {{0}, {0, 1}}
    Chosen = {0, 1}
    MaxGenerations = 2
    MaxThreads = 2
SPECIFICATION FairSpec
INVARIANTS
    RetryHasOneLoop
    ReconnectingMeansRetrying
PROPERTIES
    RunningIsProved
    RetryRetires
    Drains
