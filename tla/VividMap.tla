-------------------------------- MODULE VividMap --------------------------------
(***************************************************************************)
(* The map of nodes and the map of timers (vivid_map.c): a red-black tree  *)
(* that only grows.  A node of the tree is its key; what it holds is the   *)
(* caller's.  Each turn of a loop is one step, so that what was turned and *)
(* recolored in one is there for the next.                                 *)
(***************************************************************************)
EXTENDS Integers, SequencesExt

CONSTANTS
    Key,        \* addresses of state functions, or of names of timers
    NULL

ASSUME MapAssumption == Key \subseteq Nat /\ NULL \notin Key

Dir == {0, 1}     \* DIR_LEFT and DIR_RIGHT

VARIABLES
    entries,    \* the keys that have a node
    top,        \* me->root
    up,         \* key -> parent
    down,       \* key -> dir -> child
    color,
    doing,      \* the function that was called, and its key
    phase,      \* rest, search, fix, turned (half-way through a turn of fixup) or iterate
    at, above,  \* the pointers node and parent of vivid_map_set, and node of fixup
    frames,     \* iterate: what is left to do of the calls under way, innermost first
    visited,    \* iterate: the keys that callback was called with
    reply       \* what the last call returned: a node, NULL, or the keys iterated

links == <<entries, top, up, down, color>>
mapVars == <<links, doing, phase, at, above, frames, visited, reply>>

Idle == [op |-> "idle", key |-> NULL]

MapInit ==
    /\ entries = {} /\ top = NULL
    /\ up = [k \in Key |-> NULL] /\ down = [k \in Key |-> [d \in Dir |-> NULL]]
    /\ color = [k \in Key |-> "red"]
    /\ doing = Idle /\ phase = "rest" /\ at = NULL /\ above = NULL
    /\ frames = <<>> /\ visited = <<>> /\ reply = NULL

Returns(x) ==
    /\ doing' = Idle /\ reply' = x
    /\ phase' = "rest" /\ at' = NULL /\ above' = NULL /\ frames' = <<>> /\ visited' = <<>>
--------------------------------------------------------------------------------
(* The search of vivid_map_set and vivid_map_get *)

\* node->key < key
Side(n, k) == IF n < k THEN 1 ELSE 0

CallSearch(op, k) ==
    /\ doing = Idle
    /\ doing' = [op |-> op, key |-> k] /\ reply' = NULL
    /\ phase' = "search" /\ at' = top
    /\ UNCHANGED <<links, above, frames, visited>>

Descend ==
    /\ phase = "search" /\ at \notin {NULL, doing.key}
    /\ above' = at /\ at' = down[at][Side(at, doing.key)]
    /\ UNCHANGED <<links, doing, phase, frames, visited, reply>>

\* The node is there; or there is none, and vivid_map_get returns or calloc fails.
SearchEnds ==
    /\ phase = "search" /\ at \in {NULL, doing.key}
    /\ Returns(at)
    /\ UNCHANGED links

\* A new node, red as calloc leaves it
Insert ==
    /\ phase = "search" /\ at = NULL /\ doing.op = "set"
    /\ entries' = entries \cup {doing.key}
    /\ top' = IF above = NULL THEN doing.key ELSE top
    /\ up' = [up EXCEPT ![doing.key] = above]
    /\ down' = IF above = NULL THEN down
               ELSE [down EXCEPT ![above][Side(above, doing.key)] = doing.key]
    /\ at' = doing.key /\ phase' = "fix"
    /\ UNCHANGED <<color, doing, above, frames, visited, reply>>
--------------------------------------------------------------------------------
(* fixup *)

\* On which side of its parent a node is
SideOf(n) == IF down[up[n]][0] = n THEN 0 ELSE 1

\* Wrong: the subtree that changes its parent is not linked again.
RotateDrops(n, d) ==
    LET x == down[n][1 - d] IN
    /\ top' = IF up[n] = NULL THEN x ELSE top
    /\ down' = [m \in Key |-> [e \in Dir |->
                   IF m = n /\ e = 1 - d THEN NULL
                   ELSE IF m = x /\ e = d THEN n
                   ELSE IF m = up[n] /\ e = SideOf(n) THEN x
                   ELSE down[m][e]]]
    /\ up' = [m \in Key |-> IF m = n THEN x ELSE IF m = x THEN up[n] ELSE up[m]]
\* rotate: the child on the other side takes the place of its parent.
Rotate(n, d) ==
    LET x == down[n][1 - d]
        inner == down[x][d]
    IN /\ top' = IF up[n] = NULL THEN x ELSE top
       /\ down' = [m \in Key |-> [e \in Dir |->
                      IF m = n /\ e = 1 - d THEN inner
                      ELSE IF m = x /\ e = d THEN n
                      ELSE IF m = up[n] /\ e = SideOf(n) THEN x
                      ELSE down[m][e]]]
       /\ up' = [m \in Key |-> IF m = n THEN x ELSE IF m = x THEN up[n]
                               ELSE IF m = inner THEN n ELSE up[m]]

Paint(blacks, reds) ==
    color' = [k \in Key |-> IF k \in blacks THEN "black" ELSE IF k \in reds THEN "red" ELSE color[k]]

IsRed(n) == n # NULL /\ color[n] = "red"
Parent == up[at]
Grandparent == up[Parent]
Uncle == down[Grandparent][1 - SideOf(Parent)]
IsInner == at = down[Parent][1 - SideOf(Parent)]

FixingOn == phase = "fix" /\ at # top /\ color[Parent] = "red"
FixWaits == UNCHANGED <<entries, doing, above, frames, visited, reply>>

Recolor ==
    /\ FixingOn /\ IsRed(Uncle)
    /\ Paint({Parent, Uncle}, {Grandparent})
    /\ at' = Grandparent
    /\ FixWaits /\ UNCHANGED <<top, up, down, phase>>

\* A black uncle: the grandparent is rotated below the parent; a child on the inner
\* side takes its parent's place first.
Straighten ==
    /\ FixingOn /\ ~IsRed(Uncle) /\ IsInner
    /\ Rotate(Parent, SideOf(Parent))
    /\ at' = Parent /\ phase' = "turned"
    /\ FixWaits /\ UNCHANGED color
Restructure ==
    /\ phase = "turned" \/ (FixingOn /\ ~IsRed(Uncle) /\ ~IsInner)
    /\ Paint({Parent}, {Grandparent})
    /\ Rotate(Grandparent, 1 - SideOf(Parent))
    /\ phase' = "fix"
    /\ FixWaits /\ UNCHANGED at

FixEnds ==
    /\ phase = "fix" /\ ~FixingOn
    /\ Paint({top}, {})
    /\ Returns(doing.key)
    /\ UNCHANGED <<entries, top, up, down>>
--------------------------------------------------------------------------------
(* vivid_map_iterate *)

ToIterate(n) == [does |-> "iterate", node |-> n]
ToCallBack(n) == [does |-> "callback", node |-> n]

CallIterate ==
    /\ doing = Idle
    /\ doing' = [op |-> "iterate", key |-> NULL] /\ reply' = NULL
    /\ phase' = "iterate" /\ frames' = <<ToIterate(top)>>
    /\ UNCHANGED <<links, at, above, visited>>

IterateNode ==
    /\ phase = "iterate" /\ frames # <<>>
    /\ LET n == Head(frames).node IN
       \/ /\ Head(frames) = ToIterate(NULL)
          /\ frames' = Tail(frames) /\ UNCHANGED visited
       \/ /\ Head(frames) = ToIterate(n) /\ n # NULL
          /\ frames' = <<ToIterate(down[n][0]), ToCallBack(n), ToIterate(down[n][1])>>
                           \o Tail(frames)
          /\ UNCHANGED visited
       \/ /\ Head(frames) = ToCallBack(n)
          /\ frames' = Tail(frames) /\ visited' = Append(visited, n)
    /\ UNCHANGED <<links, doing, phase, at, above, reply>>

IterateEnds ==
    /\ phase = "iterate" /\ frames = <<>>
    /\ Returns(visited)
    /\ UNCHANGED links

Search == (\E op \in {"set", "get"}, k \in Key : CallSearch(op, k)) \/ Descend \/ SearchEnds
Fixup == Recolor \/ Straighten \/ Restructure \/ FixEnds
Iterate == CallIterate \/ IterateNode \/ IterateEnds

MapNext == Search \/ Insert \/ Fixup \/ Iterate
MapSpec == MapInit /\ [][MapNext]_mapVars
--------------------------------------------------------------------------------
(* Properties *)

\* A key that is being set has an entry when the call returns.
Contents == IF phase \in {"fix", "turned"} THEN entries \ {doing.key} ELSE entries

Dict == INSTANCE Dictionary WITH keys <- Contents

\* However the tree is turned, the map is a dictionary: a key that was set is found
\* again and none that was not, and the iteration, by which the destruction of a
\* machine reaches its timers and nodes, comes to all of them, once each.
ImplementsDictionary == Dict!Spec
================================================================================
