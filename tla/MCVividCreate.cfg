SPECIFICATION MCSpec
CONSTANTS
    States = {"A", "B"}
    Timers = {"t", "u"}
    Machines <- Created
    Key = {1, 2, 3, 4, 5, 6, 7, 8}
    NULL = NULL
    Event = {"small", "medium", "large"}
    QueueSize = 2
    SizeOf <- MCSizeOf
    EventClauses <- MCEventClauses
    Producer = {p, q}
    Block = {b1, b2}
    Value = {v}
    None = none
    Plain = plain
    Garbage = garbage
INVARIANTS NothingLeft CreatedIsSound ReadsOwn HasOwner
PROPERTY ImplementsDictionary
