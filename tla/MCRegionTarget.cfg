SPECIFICATION Spec
CONSTANTS
    Node <- TreeNode
    NoNode = "none"
    Root = "root"
    SubNodes <- TreeSubNodes
    NodeType <- TreeType
    DefaultChild <- TreeDefault
    Clauses <- TreeClauses
    Event = {"start", "stop"}
    Timer = {}
    NoEvent = "noEvent"
    Jump = "jump"
    QueueSize = 2
PROPERTIES ImplementsConfig
