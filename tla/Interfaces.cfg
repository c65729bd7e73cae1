\* One failure of any kind, but a block that recovery cannot restore and a mark that
\* cannot be written over an earlier one, and two crashes, the second of which may
\* interrupt the recovery from the first.
CONSTANTS
    Faulty = {"save", "device", "helper", "route", "nft", "core", "plan"}
    MaxFaults = 1
    MaxCrashes = 2
SPECIFICATION Spec
INVARIANTS
    Remembered
    RoutesInOrder
    BoundIsProtected
    NothingLeftBehind
PROPERTIES
    HoldStands
