\* Nothing fails and the daemon does not crash.
CONSTANTS
    Faulty = {}
    MaxFaults = 0
    MaxCrashes = 0
SPECIFICATION Spec
INVARIANT BlockIsRecorded
