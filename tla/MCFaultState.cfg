CONSTANTS
    Requests = {r1, r2}
    Posts = {w1}
    Patches = {w1}
    None = none
    Second = 1
    Rule <- OneFault
    IsStatus = FALSE
    EventTimes = {1, 2}
    Starts = {"untouched", "used up"}
SPECIFICATION Spec
CHECK_DEADLOCK FALSE
 
INVARIANT NobodyStuck
SYMMETRY Symmetry
