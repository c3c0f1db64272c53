------------------------------- MODULE StateTree -------------------------------
(***************************************************************************)
(* The tree of states that vivid_create_sm builds by calling every state   *)
(* function with the event "init": struct vivid_node as functions of the   *)
(* node.  SubNodes, NodeType, DefaultChild and Clauses are what an         *)
(* application declares; the rest is what vivid_sub_node derives from it.  *)
(***************************************************************************)
EXTENDS Naturals, Sequences

CONSTANTS Node, NoNode, Root,
          SubNodes,     \* node -> its VIVID_SUB_... macros, in source order
          NodeType,     \* node -> vivid_node_type_t
          DefaultChild, \* node -> the target of VIVID_DEFAULT, or NoNode
          Clauses,      \* node -> its ON_EVENT, ON_TIMEOUT and JUMP macros
          Event,        \* the names passed to vivid_queue_event
          Timer,        \* the names given to VIVID_ON_TIMEOUT
          NoEvent,      \* last_event = NULL
          Jump          \* m_jump_string

Parallel(n) == \E i \in DOMAIN SubNodes[n] : NodeType[SubNodes[n][i]] = "parallel"

\* An event set off by a macro: an event, an expired timer or a jump.
Clause == [on     : Event \cup Timer \cup {Jump},
           app    : BOOLEAN,             \* the guard is the application's to decide
           target : Node \cup {NoNode},
           param  : Event \cup {NoEvent}] \* VIVID_JUMP_PARAM's event

(***************************************************************************)
(* What walk_init, vivid_sub_node and vivid_on_timeout insist on: each     *)
(* state is declared once, siblings are all parallel or none is, a state   *)
(* with other sub-states has a default, and no two clauses share a timer.  *)
(* That the default is one of the state's own sub-states, and that there   *)
(* is none beside regions, is not checked by the code: a diagram that says *)
(* otherwise is no state diagram.                                          *)
(***************************************************************************)
ASSUME TreeAssumption ==
    /\ NoNode \notin Node /\ Root \in Node
    /\ NoEvent \notin Event /\ Jump \notin Event \cup Timer /\ Event \cap Timer = {}
    /\ SubNodes \in [Node -> Seq(Node \ {Root})]
    /\ \A n \in Node \ {Root} :
          \E p \in Node : \E i \in DOMAIN SubNodes[p] :
             /\ n = SubNodes[p][i]
             /\ \A q \in Node : \A j \in DOMAIN SubNodes[q] :
                   SubNodes[q][j] = n => q = p /\ j = i
    /\ NodeType \in [Node -> {"root", "state", "final", "parallel",
                              "condition", "junction"}]
    /\ \A n \in Node : Parallel(n) =>
          \A i \in DOMAIN SubNodes[n] : NodeType[SubNodes[n][i]] = "parallel"
    /\ DefaultChild \in [Node -> Node \cup {NoNode}]
    /\ \A n \in Node :
          IF SubNodes[n] = <<>> \/ Parallel(n)
            THEN DefaultChild[n] = NoNode
            ELSE \E i \in DOMAIN SubNodes[n] : DefaultChild[n] = SubNodes[n][i]
    /\ Clauses \in [Node -> Seq(Clause)]
    /\ \A m, n \in Node : \A i \in DOMAIN Clauses[m], j \in DOMAIN Clauses[n] :
          Clauses[m][i].on = Clauses[n][j].on /\ Clauses[m][i].on \in Timer
             => m = n /\ i = j

\* calloc leaves the type root, which no macro declares a sub-state with.
ASSUME NodeAssumption == \A n \in Node : NodeType[n] = "root" <=> n = Root
--------------------------------------------------------------------------------
parent == [n \in Node |->
             IF n = Root THEN NoNode
             ELSE CHOOSE p \in Node : \E i \in DOMAIN SubNodes[p] : SubNodes[p][i] = n]

\* Each sub-node is put in front of the list: children is the last declared,
\* and siblings leads to the ones declared before.
children == [n \in Node |->
               IF SubNodes[n] = <<>> THEN NoNode
               ELSE SubNodes[n][Len(SubNodes[n])]]

siblings == [n \in Node |->
               IF n = Root \/ SubNodes[parent[n]][1] = n THEN NoNode
               ELSE CHOOSE s \in Node :
                      \E i \in 2 .. Len(SubNodes[parent[n]]) :
                         /\ SubNodes[parent[n]][i] = n
                         /\ SubNodes[parent[n]][i - 1] = s]

depth[n \in Node] == IF n = Root THEN 0 ELSE depth[parent[n]] + 1

\* walk_init comes to every state, from the root down, and counts as it goes.
ASSUME DepthAssumption ==
    /\ depth \in [Node -> Nat]
    /\ \A n \in Node : depth[n] = IF n = Root THEN 0 ELSE depth[parent[n]] + 1

(***************************************************************************)
(* Definitions marked "Wrong" here and in VividSm are slips a change to    *)
(* the code could make: each one put in place of the definition below it   *)
(* breaks a property.                                                      *)
(***************************************************************************)

\* Wrong: sub-states that are no regions, too.
NextSibling(n) == IF n # Root THEN siblings[n] ELSE NoNode
Region(n) == n # Root /\ Parallel(parent[n])
\* The sibling a walk goes on to after n: only regions have their turn each.
NextRegion(n) == IF Region(n) THEN siblings[n] ELSE NoNode

(***************************************************************************)
(* The climb of vivid_transit: the source up to the depth of the target,   *)
(* the target up to the depth of the source, then both until they meet.    *)
(***************************************************************************)
Climb(node, d) ==
    LET climb[n \in Node] == IF depth[n] > d THEN climb[parent[n]] ELSE n
    IN  climb[node]

Level == {pair \in Node \X Node : depth[pair[1]] = depth[pair[2]]}

meet[pair \in Level] ==
    IF pair[1] = pair[2] THEN pair[1] ELSE meet[<<parent[pair[1]], parent[pair[2]]>>]

\* Wrong: one level too high.
AncestorAbove(source, target) ==
    LET a == meet[<<Climb(source, depth[target]), Climb(target, depth[source])>>]
    IN  IF a = Root THEN a ELSE parent[a]
Ancestor(source, target) ==
    meet[<<Climb(source, depth[target]), Climb(target, depth[source])>>]

\* A node with everything above it.
Upward[n \in Node] == {n} \cup IF n = Root THEN {} ELSE Upward[parent[n]]

TimersOf(n) == {Clauses[n][i].on : i \in DOMAIN Clauses[n]} \cap Timer
HasJump(n) == \E i \in DOMAIN Clauses[n] : Clauses[n][i].on = Jump
================================================================================
