SPECIFICATION Spec
CONSTANTS
    Proc = {p1, p2}
    NoOne = NoOne
    Forcing = {}
    Faults = {}
    Signals = TRUE
INVARIANT OneCollector
CHECK_DEADLOCK FALSE
