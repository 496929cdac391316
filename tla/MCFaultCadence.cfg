CONSTANTS
    Second = 2
    Armed <- MCArmed
    MaxCount = 7
    MaxTime = 9
SPECIFICATION Spec
CHECK_DEADLOCK FALSE
INVARIANT OneShot
PROPERTY WindowExact
PROPERTY WindowsSpaced
