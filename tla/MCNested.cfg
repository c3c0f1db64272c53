SPECIFICATION FairSpec
CONSTANTS
    Node <- TreeNode
    NoNode = "none"
    Root = "root"
    SubNodes <- TreeSubNodes
    NodeType <- TreeType
    DefaultChild <- TreeDefault
    Clauses <- TreeClauses
    Event = {"go"}
    Timer = {"tmA", "tmX"}
    NoEvent = "noEvent"
    Jump = "jump"
    QueueSize = 2
INVARIANTS CompleteWhenSeen IsInAgrees ChangesNotified TimersFollowStates
PROPERTIES ImplementsConfig MovesBelowAncestor EventsServed
