CONSTANTS
    Players = {p1, p2}
    External = {p1}
    Connects = {c1, c2}
    Requests = {}
    Operators = {}
    MaxSessions = 2
    WanLimit = 1
    Window = 1
    EventTimes = {0}
    MaxClock = 1
    MaxRevs = 3
    MaxClaims = 3
SPECIFICATION Spec
CHECK_DEADLOCK FALSE
SYMMETRY Symmetry
INVARIANT UniqueSlots
INVARIANT NoLeakedReservation
