SPECIFICATION FairSpec
CONSTANTS
    Proc = {p1, p2}
    NoOne = NoOne
    Forcing = {p2}
    Faults = {"stall", "crash"}
    Signals = TRUE
PROPERTIES DisplacedOwnerStops CrashedOwnerReplaced
\* every daemon ends for good
CHECK_DEADLOCK FALSE
