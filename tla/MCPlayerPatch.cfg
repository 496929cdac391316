CONSTANTS
    Clients = {c1, c2}
    Label = label
    Rule = rule
    Leaves = {label, rule}
    InitialLeaves = {label}
    MaxTries = 2
    MaxPublishes = 1
    Requests <- MCRequests
    Paths <- MCPaths
SPECIFICATION FairSpec
CHECK_DEADLOCK FALSE
 
 
PROPERTY EveryRequestAnswered
