\* Requests, one confirmation, cancellations, edits and the end of the daemon race for
\* two slots; a server that was removed stays away. There are fewer confirmations than
\* slots, so that a slot always has somebody who looks at the queue next.
CONSTANTS
    Servers = {s1}
    Profiles = {p1, p2}
    Pruners = {h1}
    Cap = 2
    MaxPumps = 2
    MaxConfirms = 1
SPECIFICATION FairSpec
INVARIANTS
    ChecksAreBounded
PROPERTIES
    DepartureLeavesReading
    WaitingEnds
