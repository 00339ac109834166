\* The writer misses the end of the recording.
SPECIFICATION Spec
CONSTANTS
    NBuf = 2
    Totals <- SmallTotals
    Events = {}
CHECK_DEADLOCK FALSE
INVARIANTS
    AllStored
