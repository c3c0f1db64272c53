SPECIFICATION MCSpec
CONSTANTS
    State <- MCState
    Root = "root"
    None = "none"
    Kind = {"STATE", "STATE_PARALLEL", "CONDITION", "STATE_FINAL"}
    Clause <- MCClause
    MaxClauses = 1
    CodeLength = 6
    ArgLength = 6
    MaxTokens = 9
INVARIANTS ShowsMachine TextsAlike FindsProp
