\* As many confirmations as slots.
CONSTANTS
    Servers = {s1, s2}
    Profiles = {p1}
    Pruners = {}
    Cap = 1
    MaxPumps = 2
    MaxConfirms = 1
SYMMETRY Symmetry
SPECIFICATION Spec
INVARIANTS
    FreedSlotIsUsed
