-------------------------- MODULE VividSmInvariants ----------------------------
(***************************************************************************)
(* What holds between any two steps of VividSm: what each of the calls     *)
(* still to be made will leave, enter, count or offer the event, that it   *)
(* may, and that the calls come in an order in which all of them may.      *)
(***************************************************************************)
EXTENDS VividSm

--------------------------------------------------------------------------------
(* The tree of states *)

\* The sub-nodes of n.
Kids(n) == {m \in Node \ {Root} : parent[m] = n}

\* Where n is among the sub-nodes of its parent.
Index(n) == CHOOSE i \in DOMAIN SubNodes[parent[n]] : SubNodes[parent[n]][i] = n

\* The region n and those a walk along NextRegion still comes to.
Chain(n) ==
    {n} \cup (IF Region(n) THEN {m \in Kids(parent[n]) : Index(m) < Index(n)} ELSE {})

\* The nodes at and below n.
Below(n) == {m \in Node : n \in Upward[m]}

\* The nodes above both.
Common(m, n) == Upward[m] \cap Upward[n]

--------------------------------------------------------------------------------
(* What a call does, it or the calls it makes *)

\* The nodes from n up to the ancestor, with the ancestor if flagged.
Between(n, ancestor, flag) ==
    {x \in Upward[n] : ancestor \in Upward[x] /\ (x # ancestor \/ flag = TRUE)}

Way(c) == Between(c.node, c.ancestor, c.flag)

\* The nodes it may leave: those of them that are in, it will.
Exits(c) ==
    {m \in Node :
       \/ c.op = "exit" /\ m = c.node
       \/ c.op = "exit_down" /\ \E r \in Chain(c.node) : r # c.except /\ r \in Upward[m]
       \/ c.op = "exit_up" /\ c.branch \notin Upward[m] /\ \E x \in Way(c) : x \in Upward[m]}

\* The nodes it will enter, but for what is entered below them by default.
Enters(c) ==
    {m \in Node : \/ c.op = "entry" /\ m = c.node
                  \/ c.op = "entry_down" /\ m \in Chain(c.node)
                  \/ c.op = "entry_up" /\ m \in Way(c)}

\* Those below which it will enter something.
Tops(c) ==
    {m \in Node : \/ c.op = "entry_down" /\ m \in Chain(c.node)
                  \/ c.op = "entry_up" /\ c.branch = NoNode /\ m = c.node}

\* The nodes whose pointer it clears, itself.
Clears(c) ==
    {m \in Node : \/ c.op = "set_state" /\ m = c.node /\ c.value = NoNode
                  \/ c.op = "exit_up" /\ m = c.node /\ c.branch # NoNode}

\* The nodes it makes their parent's pointer lead to, itself.
Sets(c) ==
    {m \in Node : \/ c.op = "set_state" /\ m = c.value
                  \/ c.op = "entry_up" /\ m = c.branch}

\* Calls of a higher rank come later.
Rank(c) ==
    IF c.op \in {"exit", "exit_down"} \/ (c.op = "set_state" /\ c.value = NoNode) THEN 1
    ELSE IF c.op = "exit_up" THEN 2
    ELSE IF c.op = "leave" THEN 3
    ELSE IF c.op = "entry_up" THEN 4
    ELSE IF c.op \in {"entry", "entry_down", "set_state"} THEN 5
    ELSE IF c.op = "arrive" THEN 6
    ELSE IF c.op \in {"event", "descend"} THEN 7
    ELSE 8

--------------------------------------------------------------------------------
(* The order of two calls, a before b *)

RankOrder(a, b) ==
    /\ Rank(a) <= Rank(b)
    /\ Rank(a) = Rank(b) => Rank(a) \in {1, 5, 7, 8}
    /\ Rank(a) <= 3 => Rank(b) # 5 /\ (b.op = "entry_up" => b.branch = NoNode)

\* From the inside out, and a pointer is cleared after what it leads to has
\* been left and before its node is.
ExitOrder(a, b) ==
    /\ \A x \in Exits(a), y \in Exits(b) : x \notin Upward[y]
    /\ Exits(a) \cap Clears(b) = {}
    /\ Clears(a) \cap Clears(b) = {}
    /\ \A x \in Clears(a), y \in Exits(b) : parent[y] # x

\* From the outside in, and each node once; its parent's pointer is set before.
EntryOrder(a, b) ==
    /\ \A x \in Enters(a), y \in Enters(b) : x # y /\ parent[x] # y
    /\ Sets(b) \cap Enters(a) = {}

\* A walk with an event has a call waiting only beside a divided region that
\* it is inside of.
WalkOrder(a, b) ==
    a.op \in {"event", "descend"} /\ b.op = "event" =>
       \E r \in Node : /\ Region(r) /\ Parallel(r) /\ NextRegion(r) = b.node
                       /\ a.node # r /\ r \in Upward[a.node]

\* What is left and entered before a transition arrives lies between its ends.
MoveOrder(a, b) ==
    b.op = "arrive" => \A x \in Exits(a) \cup Enters(a) :
       /\ Common(b.source, b.node) \subseteq Upward[x]
       /\ x \in Common(b.source, b.node) => x \in {b.source, b.node}

Before(a, b) ==
    RankOrder(a, b) /\ ExitOrder(a, b) /\ EntryOrder(a, b) /\ WalkOrder(a, b) /\ MoveOrder(a, b)

Items(s) == {s[i] : i \in DOMAIN s}
IsList(s) == s \in Seq(Items(s))
Ordered(s) == \A i, j \in DOMAIN s : i < j => Before(s[i], s[j])

--------------------------------------------------------------------------------
(* The invariant, of the calls I, the pointers st and the active nodes A *)

Leaving(I, A) == {m \in A : \E c \in I : m \in Exits(c)}
Staying(I, A) == A \ Leaving(I, A)
Coming(I) == {m \in Node : \E c \in I : m \in Enters(c)}
Planned(I, A) == Staying(I, A) \cup Coming(I)
Starting(I) == {m \in Node : \E c \in I : m \in Tops(c)}
Clearing(I) == {m \in Node : \E c \in I : m \in Clears(c)}
Setting(I) == {m \in Node : \E c \in I : m \in Sets(c)}
\* Entered by a call of its own, not as one on the way.
Soon(I) == {m \in Node : \E c \in I : c.op \in {"entry", "entry_down"} /\ m \in Enters(c)}
\* Left and entered again, so that the pointer to it stays.
Again(I) == {m \in Node : \E c \in I : c.op = "entry_up" /\ c.flag = TRUE /\ m = c.ancestor}

\* What is in has its parent in, and so will it be.
Nested(I, A) ==
    /\ A \subseteq Node
    /\ \A m \in A \ {Root} : parent[m] \in A
    /\ \A m \in Staying(I, A) \ {Root} : parent[m] \in Staying(I, A)

Pointers(I, st, A) ==
    /\ st \in [Node -> Node \cup {NoNode}]
    /\ \A n \in Node : Parallel(n) => st[n] = NoNode
    /\ \A n \in Node : st[n] # NoNode => st[n] \in Kids(n)
    /\ \A n \in Node \ Clearing(I) : st[n] # NoNode => st[n] \in A \cup Soon(I) \cup Again(I)
    /\ \A m \in A \ {Root} : ~Region(m) => st[parent[m]] = m

\* The machine will be complete when the calls have been made.
Plan(I, A) ==
    /\ Coming(I) \cap Staying(I, A) = {}
    /\ \A m \in Coming(I) \ {Root} : parent[m] \in Planned(I, A)
    /\ \A n \in Node : ~Parallel(n) => \A x, y \in Kids(n) \cap Planned(I, A) : x = y
    /\ \A n \in Planned(I, A) \ Starting(I) :
          IF Parallel(n) THEN Kids(n) \subseteq Planned(I, A)
          ELSE Kids(n) # {} => Kids(n) \cap Planned(I, A) # {}

PointerCleared(m, I) ==
    m = Root \/ Parallel(parent[m]) \/ parent[m] \in Clearing(I) \/ m \in Again(I)
PointerSet(m, I, st) ==
    m = Root \/ Parallel(parent[m]) \/ st[parent[m]] = m \/ m \in Setting(I)

\* The way back down.
Return(c, I) == \E e \in I : e.op = "entry_up" /\ e.ancestor = c.ancestor /\ e.flag = c.flag

\* The regions of a divided state are left together.
ExitWhole(c, A) ==
    \A m \in A \cap Exits(c) : Parallel(m) => Kids(m) \cap Exits(c) \subseteq A
ExitFine(c, I, A) ==
    c.op = "exit" => c.node \in Node /\ c.node \in A /\ PointerCleared(c.node, I)
ExitDownFine(c, I, A) ==
    c.op = "exit_down" =>
       /\ c.node \in Node
       /\ \A r \in Chain(c.node) \ {c.except} : r \in A /\ PointerCleared(r, I)
ExitUpFine(c, I, st, A) ==
    c.op = "exit_up" =>
       /\ c.node \in Node /\ c.ancestor \in Upward[c.node] /\ c.flag \in BOOLEAN
       /\ c.node # c.ancestor \/ c.flag = TRUE => c.node \in A
       /\ c.branch = NoNode => c.node # c.ancestor \/ c.flag = TRUE
       /\ c.branch # NoNode =>
             /\ c.branch \in Kids(c.node)
             /\ c.branch \in A => c.branch \in Leaving(I, A)
             /\ Parallel(c.node) => c.node # c.ancestor \/ c.flag = TRUE
             /\ ~Parallel(c.node) => st[c.node] = c.branch
       /\ Return(c, I)
ClearFine(c, I, A) ==
    c.op = "set_state" /\ c.value = NoNode =>
       /\ c.node \in Node
       /\ Kids(c.node) \cap A \subseteq Leaving(I, A)
       /\ \/ c.node \in Leaving(I, A)
          \/ \E e \in I : e.op = "entry_up" /\ e.flag # TRUE /\ e.ancestor = c.node
SetFine(c, I) ==
    c.op = "set_state" /\ c.value # NoNode =>
       /\ c.node \in Node /\ ~Parallel(c.node)
       /\ c.value \in Kids(c.node) \cap Soon(I)
EntryFine(c, I, st) ==
    c.op = "entry" => c.node \in Node /\ PointerSet(c.node, I, st)
EntryDownFine(c, I, st) ==
    c.op = "entry_down" =>
       /\ c.node \in Node /\ c.except = NoNode
       /\ \A r \in Chain(c.node) : Kids(r) \cap Coming(I) = {} /\ PointerSet(r, I, st)
EntryUpFine(c, I, st, A) ==
    c.op = "entry_up" =>
       /\ c.node \in Node /\ c.ancestor \in Upward[c.node] /\ c.flag \in BOOLEAN
       /\ c.flag = TRUE =>
             c.ancestor = Root \/ /\ parent[c.ancestor] \in Staying(I, A)
                                  /\ \/ Parallel(parent[c.ancestor])
                                     \/ st[parent[c.ancestor]] = c.ancestor
       /\ c.flag # TRUE => c.ancestor \in Staying(I, A)
       /\ \A x \in Upward[c.node] \ {c.node} : c.ancestor \in Upward[x] => ~Parallel(x)
       /\ c.branch = NoNode =>
             /\ c.node # c.ancestor \/ c.flag = TRUE
             /\ ~Region(c.node) /\ Kids(c.node) \cap Coming(I) = {}
       /\ c.branch # NoNode => ~Parallel(c.node) /\ c.branch \in Kids(c.node) \cap Soon(I)
ArriveFine(c, I, A) == c.op = "arrive" => c.node \in Planned(I, A)
EventFine(c, I, A) ==
    /\ c.op = "event" => c.node \in Node /\ c.node \in Staying(I, A)
    /\ c.op = "descend" => c.node \in Node

Each(I, st, A) ==
    \A c \in I :
       /\ ExitWhole(c, A)
       /\ ExitFine(c, I, A) /\ ExitDownFine(c, I, A) /\ ExitUpFine(c, I, st, A)
       /\ ClearFine(c, I, A) /\ SetFine(c, I)
       /\ EntryFine(c, I, st) /\ EntryDownFine(c, I, st) /\ EntryUpFine(c, I, st, A)
       /\ ArriveFine(c, I, A) /\ EventFine(c, I, A)

Fine(I, st, A) == Nested(I, A) /\ Pointers(I, st, A) /\ Plan(I, A) /\ Each(I, st, A)

EngineInv ==
    /\ stays \in [Node -> {0, 1}]
    /\ IsList(todo) /\ Ordered(todo)
    /\ Fine(Items(todo), state, active)
    /\ IF init THEN todo = <<>> /\ active = {}
       ELSE Root \in Planned(Items(todo), active)

--------------------------------------------------------------------------------
(* The timers *)

\* A timer runs just as long as the state that it belongs to is in.
TimersInv ==
    /\ running \in [Timer -> BOOLEAN]
    /\ \A n \in Node : \A t \in TimersOf(n) : running[t] <=> n \in active

--------------------------------------------------------------------------------
(* The jumps *)

\* A call that offers a jump to q, itself or by the calls it makes.
Reaches(b, q) ==
    /\ b.op \in {"event", "descend"} /\ b.event = Jump
    /\ b.op = "event" => \E r \in Chain(b.node) : r \in Upward[q]
    /\ b.op = "descend" => b.node \in Upward[q] \ {q} /\ ~Parallel(b.node)

\* After this call q is out, or a jump walk has been asked for, or q has had one.
Settles(b, q) == q \in Exits(b) \/ (\E h \in Enters(b) : HasJump(h)) \/ Reaches(b, q)
Moved(q, I) == \E b \in I : Settles(b, q)

Asks(I) == \E b \in I : Rank(b) <= 7
RunsJumps(I) == \E b \in I : b.op = "jump"

\* No condition or junction that is in is forgotten.
JumpInv ==
    /\ jump \in BOOLEAN
    /\ \A q \in active : Pseudo(q) => jump = TRUE \/ Moved(q, Items(todo))
    /\ jump = TRUE \/ Asks(Items(todo)) => RunsJumps(Items(todo))

--------------------------------------------------------------------------------
(* What is entered by default, and what pointers are moved to *)

\* What c will enter.
Brings(c) == Enters(c) \cup {m \in Node : \E x \in Tops(c) : ByDefault(x, m)}
Brought(D) == {m \in Node : \E d \in D : m \in Brings(d)}

\* The states that c, or a call it makes, will move a pointer to: its branch, what
\* is entered by default below, and where it goes up from.
Counted(c) ==
    {m \in Real :
       \/ m \in Sets(c)
       \/ \E x \in Tops(c) : m # x /\ ByDefault(x, m)
       \/ c.op = "entry_up" /\ m \in Tops(c) /\ m # c.ancestor}

--------------------------------------------------------------------------------
(* Who is still offered the event *)

\* The nodes that a call of walk_event may come to.
Ahead(c) ==
    {m \in Node :
       \/ c.op = "event" /\ \E r \in Chain(c.node) : r \in Upward[m]
       \/ c.op = "descend" /\ c.node # m /\ c.node \in Upward[m] /\ ~Parallel(c.node)}

\* x is in a region, and the call b is for others of the state it divides.
Beside(x, b) ==
    \/ Ahead(b) = {}
    \/ \E r \in Upward[x] :
          Region(r) /\ \A m \in Ahead(b) : parent[r] \in Upward[m] /\ r \notin Upward[m]

\* What a enters or offers the event is not offered it by b, later.
Apart(a, b) ==
    /\ Brings(a) \cap Ahead(b) = {} /\ Ahead(a) \cap Ahead(b) = {}
    /\ a.op \in {"event", "descend"} => Beside(a.node, b)

Spaced(s) == \A i, j \in DOMAIN s : i < j => Apart(s[i], s[j])
Unheard(I, H) == \A b \in I : Ahead(b) \cap H = {}
Offered(s, H) == Spaced(s) /\ Unheard(Items(s), H)
OfferInv == Offered(todo, heard \cup fresh)

--------------------------------------------------------------------------------
(* Who has still to be offered the event *)

Offering(I) == \E c \in I : c.op \in {"event", "descend"}

\* H are the nodes that the event was offered to or that it has entered.
Served(I, A, H) == \A m \in Staying(I, A) : m \in H \/ \E c \in I : m \in Ahead(c)
ServedInv ==
    heard # {} \/ Offering(Items(todo)) => Served(Items(todo), active, heard \cup fresh)

--------------------------------------------------------------------------------
(* What the application will be told *)

\* What will be in when the calls have been made, with all that is entered by
\* default.
Goal(I, A) == Staying(I, A) \cup Brought(I)

\* A callback is to come: a pointer has been moved to a state, or will be.
Tells(I, changed) ==
    /\ \E c \in I : c.op = "arrive"
    /\ \/ \E c \in I : Counted(c) # {}
       \/ changed = TRUE /\ \A c \in I : c.op # "leave"

\* The application knows what will be in, will be told, or a jump is to follow.
Knows(G, told) == told = G \cap Real \/ \E p \in G : Pseudo(p)
Informed(I, A, changed, told) == Knows(Goal(I, A), told) \/ Tells(I, changed)

NoticeInv ==
    IF init THEN notified = {m \in Real : ByDefault(Root, m)}
    ELSE Informed(Items(todo), active, stateChange, notified)
================================================================================
