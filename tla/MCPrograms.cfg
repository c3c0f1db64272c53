SPECIFICATION MCSpec
CONSTANTS
    Caller = {a, b}
    DispatchSize = 2
    EventSize = 4
    FooBound = 3
    Repeats = TRUE
    QueueSize = 2
    Length = 3
INVARIANTS EachAnswered NothingLeft SafeIfCalm
PROPERTIES Served Rings StopsOnSignal
