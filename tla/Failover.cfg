\* A proxy-only profile with failover: replacement, restarts on other ports, edits
\* through the daemon and a catalog that loses a member race with confirmations,
\* deaths and the worker. There is budget for more members than the list has.
\* Beside it, an interface that holds, as MCRecovery gives it.
CONSTANTS
    Members = 2
    MaxAttempts = 2
    Cooldown = 1
    Backoff = 1
    Grants = {g1}
    Tun = FALSE
    Holds = FALSE
    StandbyProxy = FALSE
    Aggressive = FALSE
    PortChanges = TRUE
    ExternalEdits = FALSE
    Catalogs = {{0}, {0, 1}}
    Chosen = {0}
    MaxGenerations = 2
    MaxThreads = 2
SPECIFICATION RecoverySpec
INVARIANTS
    EpisodeIsAttended
    OwnedSuppressesLegacy
    ArmedGrantStands
PROPERTIES
    HoldOutlivesRecovery
