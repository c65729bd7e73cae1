\* A start, a log that is cleared meanwhile, and no trouble.
CONSTANTS
    Targets = {a}
    Nothing = Nothing
    MaxActs = 1
    MaxRaises = 1
    MaxChanges = 1
    MaxTroubles = 0
SPECIFICATION DesktopSpec
PROPERTIES
    RefusedStartIsReported
