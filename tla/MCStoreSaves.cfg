CONSTANTS
    Players = {p1}
    External = {}
    Connects = {}
    Requests = {r1, r2}
    Operators = {o1}
    MaxSessions = 1
    WanLimit = 1
    Window = 1
    EventTimes = {0, 1, 2}
    MaxClock = 1
    MaxRevs = 3
    MaxClaims = 2
SPECIFICATION Spec
CHECK_DEADLOCK FALSE
SYMMETRY Symmetry
PROPERTY EventTimeForward
 
