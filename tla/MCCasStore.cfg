CONSTANTS
    Ids = {a, b}
    MaxCount = 3
    Writers = {w1, w2, w3}
    Items = {a, b}
    Lists <- MCLists
    Fns <- MCFns
    InitialList <- MCInitialList
SPECIFICATION FairSpec
CHECK_DEADLOCK FALSE
PROPERTY UiVersionMonotonic
PROPERTY Linearizable
PROPERTY EveryCallReturns
