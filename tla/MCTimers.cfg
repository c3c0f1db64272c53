SPECIFICATION MCSpec
CONSTANTS
    Bindings = {"linux", "win32", "libev", "freertos"}
    Timeout = 2
    Width = 4
    CommandSize = 1
    Size = 2
INVARIANTS AtMostOnce StillComes
PROPERTIES EarlyOnlyAfterJump NeverEarly AlwaysComes
