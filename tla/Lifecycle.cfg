\* Three workers and two callers of terminate; one thread, which takes every path of every
\* function: what it asks for depends on no other, and that threads in one order never
\* wait in a circle is proved.
CONSTANTS
    Workers = {w1, w2, w3}
    Closers = {c1, c2}
    Threads = {t1}
    Handler <- HandlerSteps
    Idle = Idle
    \* Counters that run out after six facts, and after three that are missing.
    Keys <- Watched
    Batch = 2
    MaxBuckets = 2
    MaxOrdinal = 6
    MaxCount = 3
    MaxFacts = 8
    \* Two operations, one of which may be the stop beside a fetch; a log that is
    \* cleared; what becomes of a core that was started; a call that fails, or an end
    \* of the daemon.
    Targets = {a}
    Nothing = Nothing
    MaxActs = 2
    MaxRaises = 1
    MaxChanges = 1
    MaxTroubles = 1
SPECIFICATION FrameSpec
INVARIANTS
    AcceptedBeforeClosure
    EndsOnce
    RunsAreOrderly
    FactsFollowTheGate
    FactsAreAccounted
    ShownIsSettled
PROPERTIES
    Terminates
    SettlesOnTruth
