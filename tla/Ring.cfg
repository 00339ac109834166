\* Everything that may happen to cdda2wav, with a ring of two segments.
SPECIFICATION Spec
CONSTANTS
    NBuf = 2
    Totals <- SmallTotals
    Events = {"leadout", "readerr", "writeerr", "interrupt"}
\* cdda2wav ends, and two processes may wait for each other for ever.
CHECK_DEADLOCK FALSE
INVARIANTS
    RTypeOK
    TokensBalanced
    OrderUnlessPremature
PROPERTIES
    EndsOrBothWait
