SPECIFICATION ToolSpec
CONSTANTS
    a = a
    b = b
    c = c
    d = d
    Nodes = {a, b, c, d}
    Root = a
    Goal = c
    TestNodes = {b, d}
    Shared = {d}
    GodAt = 1
    Hoods = 4
    Depths <- MCDepths
    MaxEdges = 4
    MaxUses = 2
INVARIANTS
    ConesOnly
CHECK_DEADLOCK FALSE
