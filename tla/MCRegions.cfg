SPECIFICATION Spec
CONSTANTS
    Node <- TreeNode
    NoNode = "none"
    Root = "root"
    SubNodes <- TreeSubNodes
    NodeType <- TreeType
    DefaultChild <- TreeDefault
    Clauses <- TreeClauses
    Event = {"go"}
    Timer = {"tmR"}
    NoEvent = "noEvent"
    Jump = "jump"
    QueueSize = 2
INVARIANTS OfferedOnce OfferedToAll
PROPERTIES ImplementsConfig
