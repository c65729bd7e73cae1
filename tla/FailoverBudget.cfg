\* Three members and two attempts: an episode consumes its budget, the profile file may
\* change behind the daemon's back, the user may change the ports, and every thread is
\* scheduled fairly.
\* The direct listeners open and close beside all this.
CONSTANTS
    Members = 3
    MaxAttempts = 2
    Cooldown = 2
    Backoff = 1
    Grants = {g1}
    Tun = FALSE
    Holds = FALSE
    StandbyProxy = TRUE
    Aggressive = TRUE
    PortChanges = TRUE
    ExternalEdits = TRUE
    Catalogs = {{0}, {0, 1, 2}}
    Chosen = {}
    MaxGenerations = 1
    MaxThreads = 2
SPECIFICATION FairSpec
PROPERTIES
    StandbyYields
    ImplementsRecovery
    RecoveryMovesOn
