CONSTANTS
    CPUs = {c1, c2}
    Counts <- MCCounts
    Settings = {flip, zero}
    Cap = 4
SPECIFICATION Spec
INVARIANT NeverMoreThanAsked
CHECK_DEADLOCK TRUE
