\* Three drift events and three transitions, with crashes and rollbacks.
SPECIFICATION Spec
CONSTANTS
    a = a
    b = b
    c = c
    p = p
    Events = {a, b, c}
    Prints = {p}
    PrintOf <- MCPrintOf
    Qualifying = {a, b}
    NoEvent = NoEvent
    MaxLog = 3
SYMMETRY MCSymmetry
INVARIANTS
    TypeOK
    StatusFollowsHistory
    HistoryIsOnePath
    DriftIsAnswered
