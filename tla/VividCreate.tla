------------------------------ MODULE VividCreate ------------------------------
(***************************************************************************)
(* vivid_create_sm and vivid_destroy_sm of vivid_sm.c: the machine, what   *)
(* it takes from the binding, the log, the diagram, the maps and the       *)
(* queue, and the nodes and timers its state functions declare.  Every     *)
(* allocation, and every call of the operating system that the code        *)
(* checks, may fail.                                                       *)
(*                                                                         *)
(* A state function is the sequence of its clauses.  Called with "init" it *)
(* runs through all of them, whatever becomes of the earlier ones; a       *)
(* sub-state clause calls the function of the sub-state on the way.        *)
(***************************************************************************)
EXTENDS Naturals, FiniteSets, SequencesExt

CONSTANTS
    States,         \* the state functions, without the one of the root
    Timers,         \* the names of the timeouts
    Machines        \* what is created: [diagram, binding, lockfree, mayFail]

Root == "Root"
Function == States \cup {Root}
Null == "NULL"

Clause ==
    [is : {"sub"}, of : Function, region : BOOLEAN]
        \cup [is : {"default"}, of : Function]
        \cup [is : {"timeout"}, of : Timers]

Bindings == {"linux", "libev", "win32", "freertos"}
ASSUME CreationAssumption ==
    /\ Root \notin States /\ Null \notin States
    /\ \A m \in Machines :
          /\ m.diagram \in [Function -> Seq(Clause)]
          /\ m.binding \in Bindings /\ m.lockfree \in BOOLEAN /\ m.mayFail \in Nat

VARIABLES
    diagram,        \* the state functions: a sequence of clauses for each
    binding,        \* "linux", "libev", "win32" or "freertos"
    lockfree,       \* VIVID_LOCKFREE
    mayFail,        \* bound: calls that fail in one creation
    pc,             \* the call that comes next
    todo,           \* the fields of the machine that are still to be destroyed
    live,           \* the blocks and handles in use: <<field, part, name>>
    held,           \* the fields of the machine that are not NULL
    listed,         \* the binding has the event in its list, or its loop
    nodeKeys,       \* the entries of node_map ...
    nodes,          \* ... and those that have a node
    timerKeys,      \* the entries of timer_map ...
    timers,         \* ... and those that have a timer
    calls,          \* the state functions being called: [node, at]
    parent, children, default, regions,     \* the fields of the nodes
    initError,      \* init_error
    failures        \* history: calls that failed

machine == <<diagram, binding, lockfree, mayFail>>
tree == <<nodeKeys, nodes, timerKeys, timers, calls, parent, children,
          default, regions, initError>>
vars == <<machine, pc, todo, live, held, listed, tree, failures>>
--------------------------------------------------------------------------------
(* What the creation of a part of the machine takes, in that order *)

LinuxTimer == <<"timer", "timer_fd", "epoll_entry">>
Win32Timer == <<"timer", "timer_handle", "wait_handle">>
FreertosTimer == <<"timer", "handle">>
LibevTimer == <<"timer">>
Handles == CASE binding = "linux"    -> LinuxTimer
             [] binding = "win32"    -> Win32Timer
             [] binding = "freertos" -> FreertosTimer
             [] binding = "libev"    -> LibevTimer

PthreadMutex == <<"mutex", "pthread_mutex">>
CriticalSection == <<"mutex">>      \* nothing that can fail is in it
InterruptMask == <<"mutex">>
Mutex == CASE binding \in {"linux", "libev"} -> PthreadMutex
           [] binding = "win32"             -> CriticalSection
           [] binding = "freertos"          -> InterruptMask

QueueParts == <<"queue", "entry_buffer">>
                  \o (IF lockfree THEN <<"ready_buffer">> ELSE Mutex)
                  \o <<"param_buffer">>
LogParts == <<"log", "buffer">>

Parts(field) == CASE field = "log"           -> LogParts
                  [] field = "binding_mutex" -> Mutex
                  [] field = "event_queue"   -> QueueParts
                  [] field = "binding_timer" -> Handles
                  [] OTHER                   -> <<field>>

\* What the function that destroys a part gives back: all of it, NULL or not.
QueueDestroy == ToSet(QueueParts)
LogDestroy == ToSet(LogParts)
TimerDestroy == ToSet(Handles)

Frees(field) == CASE field = "log"           -> LogDestroy
                  [] field = "binding_mutex" -> ToSet(Mutex)
                  [] field = "event_queue"   -> QueueDestroy
                  [] field = "binding_timer" -> TimerDestroy
                  [] OTHER                   -> {field}

Blocks(field, parts, name) == {<<field, p, name>> : p \in parts}
First(s, n) == {s[i] : i \in 1..n}

\* Either all the parts are there, or the call for one of them has failed and
\* those before it have been given back.
Obtain(field, name, ok) ==
    IF ok
    THEN /\ live' = live \cup Blocks(field, ToSet(Parts(field)), name)
         /\ UNCHANGED failures
    ELSE /\ failures < mayFail
         /\ failures' = failures + 1
         /\ \E n \in 0..Len(Parts(field)) - 1 :
               live' = live \cup Blocks(field, First(Parts(field), n) \ Frees(field), name)

Field(field, ok) ==
    /\ Obtain(field, "", ok)
    /\ held' = IF ok THEN held \cup {field} ELSE held

Give(field, name) == live' = live \ Blocks(field, Frees(field), name)
--------------------------------------------------------------------------------
(* vivid_create_sm *)

Init ==
    /\ \E m \in Machines :
          /\ diagram = m.diagram /\ binding = m.binding
          /\ lockfree = m.lockfree /\ mayFail = m.mayFail
    /\ pc = "create" /\ todo = <<>>
    /\ live = {} /\ held = {} /\ listed = FALSE
    /\ nodeKeys = {} /\ nodes = {} /\ timerKeys = {} /\ timers = {}
    /\ calls = <<>>
    /\ parent = [s \in Function |-> Null]
    /\ children = [s \in Function |-> <<>>]
    /\ default = [s \in Function |-> Null]
    /\ regions = [s \in Function |-> FALSE]
    /\ initError = FALSE
    /\ failures = 0

\* Wrong: the map goes before the timers that it leads to.
MapFirst == <<"event_queue", "timer_map", "timers", "nodes", "node_map",
              "binding_mutex", "uml", "log", "binding_event", "sm">>
Teardown == <<"event_queue", "timers", "timer_map", "nodes", "node_map",
              "binding_mutex", "uml", "log", "binding_event", "sm">>

Continue(next) == pc' = next /\ UNCHANGED todo
Error == pc' = "destroy" /\ todo' = Teardown
OrError(ok, next) == IF ok THEN Continue(next) ELSE Error

CreateSm ==
    /\ pc = "create"
    /\ \E ok \in BOOLEAN :
          Field("sm", ok) /\ Continue(IF ok THEN "event" ELSE "gone")
    /\ UNCHANGED <<machine, listed, tree>>

CreateEvent ==
    /\ pc = "event"
    /\ \E ok \in BOOLEAN : Field("binding_event", ok) /\ listed' = ok
    /\ Continue("node_map")
    /\ UNCHANGED <<machine, tree>>

CreateNodeMap ==
    /\ pc = "node_map"
    /\ \E ok \in BOOLEAN : Field("node_map", ok)
    /\ Continue("timer_map")
    /\ UNCHANGED <<machine, listed, tree>>

AllThere(fields) == {"binding_event", "node_map", "timer_map"} \subseteq fields
\* All three are tried before any of them is looked at.
CreateTimerMap ==
    /\ pc = "timer_map"
    /\ \E ok \in BOOLEAN : Field("timer_map", ok)
    /\ OrError(AllThere(held'), "log")
    /\ UNCHANGED <<machine, listed, tree>>

Create(at, field, next) ==
    /\ pc = at
    /\ \E ok \in BOOLEAN : Field(field, ok) /\ OrError(ok, next)
    /\ UNCHANGED <<machine, listed, tree>>

CreateLog == Create("log", "log", "uml")
CreateUml == Create("uml", "uml", IF lockfree THEN "root" ELSE "mutex")
CreateMutex == Create("mutex", "binding_mutex", "root")
--------------------------------------------------------------------------------
(* walk_init *)

Frame == [node : Function, at : Nat]
Caller == Last(calls).node
Clauses == diagram[Caller]
Now == Clauses[Last(calls).at]
Running(kind) ==
    /\ pc = "walk" /\ calls # <<>>
    /\ Last(calls).at <= Len(Clauses)
    /\ Now.is = kind

\* The next clause of the function on top of the stack s
Step(s) == [s EXCEPT ![Len(s)].at = @ + 1]

\* walk_init has returned NULL.
EnterFails ==
    IF calls = <<>>
    THEN Error /\ UNCHANGED <<calls, initError>>
    ELSE initError' = TRUE /\ calls' = Step(calls) /\ Continue("walk")

AlreadyDefined(s) == s \in nodes

\* The first half of walk_init, up to the call of the state function
Enter(s) ==
    /\ \/ /\ s \notin nodeKeys              \* no memory for the entry
          /\ Obtain("node_entry", s, FALSE)
          /\ EnterFails
          /\ UNCHANGED <<nodeKeys, nodes>>
       \/ /\ AlreadyDefined(s)
          /\ EnterFails
          /\ UNCHANGED <<live, failures, nodeKeys, nodes>>
       \/ /\ ~AlreadyDefined(s)             \* no memory for the node
          /\ failures < mayFail /\ failures' = failures + 1
          /\ live' = live \cup {<<"node_entry", "node_entry", s>>}
          /\ nodeKeys' = nodeKeys \cup {s}
          /\ EnterFails
          /\ UNCHANGED nodes
       \/ /\ ~AlreadyDefined(s)
          /\ live' = live \cup {<<"node_entry", "node_entry", s>>, <<"node", "node", s>>}
          /\ nodeKeys' = nodeKeys \cup {s} /\ nodes' = nodes \cup {s}
          /\ calls' = Append(calls, [node |-> s, at |-> 1])
          /\ Continue("walk")
          /\ UNCHANGED <<initError, failures>>
    /\ UNCHANGED <<machine, held, listed, timerKeys, timers, parent, children, default, regions>>

EnterRoot == pc = "root" /\ Enter(Root)

\* vivid_sub_node
Mixed(region) ==
    IF region THEN children[Caller] # <<>> /\ ~regions[Caller] ELSE regions[Caller]

SubNodeMixed ==
    /\ Running("sub")
    /\ Mixed(Now.region)
    /\ initError' = TRUE
    /\ calls' = Step(calls)
    /\ UNCHANGED <<machine, pc, todo, live, held, listed, nodeKeys, nodes, timerKeys,
                   timers, parent, children, default, regions, failures>>

SubNode ==
    /\ Running("sub")
    /\ ~Mixed(Now.region)
    /\ Enter(Now.of)

\* vivid_default
Default ==
    /\ Running("default")
    /\ IF default[Caller] = Null /\ Now.of \in nodes
       THEN /\ default' = [default EXCEPT ![Caller] = Now.of]
            /\ UNCHANGED initError
       ELSE initError' = TRUE /\ UNCHANGED default
    /\ calls' = Step(calls)
    /\ UNCHANGED <<machine, pc, todo, live, held, listed, nodeKeys, nodes, timerKeys,
                   timers, parent, children, regions, failures>>

\* vivid_on_timeout
OnTimeout ==
    /\ Running("timeout")
    /\ LET t == Now.of
           entry == <<"timer_entry", "timer_entry", t>>
           block == <<"timers", "timers", t>> IN
       \/ /\ t \notin timerKeys             \* no memory for the entry
          /\ Obtain("timer_entry", t, FALSE)
          /\ initError' = TRUE
          /\ UNCHANGED <<timerKeys, timers>>
       \/ /\ t \in timers                   \* not unique
          /\ initError' = TRUE
          /\ UNCHANGED <<live, failures, timerKeys, timers>>
       \/ /\ t \notin timers                \* no memory for the timer
          /\ failures < mayFail /\ failures' = failures + 1
          /\ live' = live \cup {entry}
          /\ timerKeys' = timerKeys \cup {t}
          /\ initError' = TRUE
          /\ UNCHANGED timers
       \/ /\ t \notin timers
          /\ timerKeys' = timerKeys \cup {t} /\ timers' = timers \cup {t}
          /\ \/ /\ failures < mayFail /\ failures' = failures + 1
                /\ \E n \in 0..Len(Handles) - 1 :
                      live' = live \cup {entry, block}
                                   \cup Blocks("binding_timer", First(Handles, n) \ TimerDestroy, t)
                /\ initError' = TRUE
             \/ /\ live' = live \cup {entry, block}
                                \cup Blocks("binding_timer", ToSet(Handles), t)
                /\ UNCHANGED <<initError, failures>>
    /\ calls' = Step(calls)
    /\ UNCHANGED <<machine, pc, todo, held, listed, nodeKeys, nodes, parent,
                   children, default, regions>>

\* The second half of walk_init, and what vivid_sub_node makes of it
NoDefault(s) == children[s] # <<>> /\ ~regions[s] /\ default[s] = Null

\* Wrong: the last sub-state comes last.
LinkAtEnd(s) ==
    LET p == calls[Len(calls) - 1].node IN
    /\ parent' = [parent EXCEPT ![s] = p]
    /\ children' = [children EXCEPT ![p] = Append(@, s)]
    /\ regions' = [regions EXCEPT ![p] = diagram[p][calls[Len(calls) - 1].at].region]
Link(s) ==
    LET p == calls[Len(calls) - 1].node
        region == diagram[p][calls[Len(calls) - 1].at].region IN
    /\ parent' = [parent EXCEPT ![s] = p]
    /\ children' = [children EXCEPT ![p] = <<s>> \o @]
    /\ regions' = [regions EXCEPT ![p] = region]

Return ==
    /\ pc = "walk" /\ calls # <<>>
    /\ Last(calls).at > Len(Clauses)
    /\ LET ok == ~initError /\ ~NoDefault(Caller)
           below == Front(calls) IN
       IF below = <<>>
       THEN /\ calls' = <<>>
            /\ OrError(ok, "queue")
            /\ UNCHANGED <<parent, children, regions, initError>>
       ELSE /\ calls' = Step(below)
            /\ IF ok THEN Link(Caller) /\ UNCHANGED initError
                     ELSE initError' = TRUE /\ UNCHANGED <<parent, children, regions>>
            /\ Continue("walk")
    /\ UNCHANGED <<machine, live, held, listed, nodeKeys, nodes, timerKeys, timers,
                   default, failures>>

\* The queue, and the first trigger
CreateQueue == Create("queue", "event_queue", "created")
--------------------------------------------------------------------------------
(* vivid_destroy_sm *)

DestroySm ==
    /\ pc = "created"
    /\ Error
    /\ UNCHANGED <<machine, live, held, listed, tree, failures>>

\* What is held by an entry of the map, if the map and the entry are there:
\* vivid_map_iterate does nothing for a map that was not created, and
\* vivid_map_destroy takes the entries along.
Reached(map) == map \in held

DestroyField ==
    /\ pc = "destroy" /\ todo # <<>>
    /\ Head(todo) \notin {"timers", "nodes"}
    /\ LET f == Head(todo)
           entries == CASE f = "timer_map" -> {<<"timer_entry", "timer_entry", t>> : t \in timerKeys}
                        [] f = "node_map"  -> {<<"node_entry", "node_entry", s>> : s \in nodeKeys}
                        [] OTHER           -> {} IN
       /\ live' = IF f \in held THEN live \ (Blocks(f, Frees(f), "") \cup entries) ELSE live
       /\ held' = held \ {f}
    /\ todo' = Tail(todo)
    /\ pc' = IF Len(todo) = 1 THEN "gone" ELSE pc
    /\ UNCHANGED <<machine, listed, tree, failures>>

\* destroy_timer of vivid_sm.c looks into every timer of the map, NULL or not.
CrashAt == timerKeys # timers
DestroyTimers ==
    /\ pc = "destroy" /\ todo # <<>> /\ Head(todo) = "timers"
    /\ IF Reached("timer_map") /\ CrashAt
       THEN pc' = "crashed" /\ UNCHANGED <<todo, live>>
       ELSE /\ live' = IF Reached("timer_map")
                       THEN live \ UNION {Blocks("timers", {"timers"}, t)
                                            \cup Blocks("binding_timer", TimerDestroy, t) : t \in timers}
                       ELSE live
            /\ todo' = Tail(todo) /\ UNCHANGED pc
    /\ UNCHANGED <<machine, held, listed, tree, failures>>

DestroyNodes ==
    /\ pc = "destroy" /\ todo # <<>> /\ Head(todo) = "nodes"
    /\ live' = IF Reached("node_map") THEN live \ {<<"node", "node", s>> : s \in nodes} ELSE live
    /\ todo' = Tail(todo)
    /\ UNCHANGED <<machine, pc, held, listed, tree, failures>>

\* There is no machine any more, and nothing left to do.
Ended == pc \in {"gone", "crashed"} /\ UNCHANGED vars

Creates == CreateSm \/ CreateEvent \/ CreateNodeMap \/ CreateTimerMap \/ CreateLog
              \/ CreateUml \/ CreateMutex \/ CreateQueue
Walks == EnterRoot \/ SubNodeMixed \/ SubNode \/ Default \/ OnTimeout \/ Return
Destroys == DestroyField \/ DestroyTimers \/ DestroyNodes

Next == Creates \/ Walks \/ DestroySm \/ Destroys \/ Ended
Spec == Init /\ [][Next]_vars
--------------------------------------------------------------------------------
(* Properties *)

\* However the creation fails, and after every destruction, nothing that was
\* taken from the binding stays taken (the error paths of vivid_create_sm,
\* vivid_queue_create, vivid_log_create and create_timer, and the order of
\* vivid_destroy_sm).
NothingLeft == pc = "gone" => live = {}

\* The state functions that the root leads to, whatever order they are called in
Closed(set) == \A s \in set : \A i \in 1..Len(diagram[s]) :
                    diagram[s][i].is = "sub" => diagram[s][i].of \in set
Declared == {s \in Function :
                \A set \in SUBSET Function : Root \in set /\ Closed(set) => s \in set}
Where(s, kind) == {i \in 1..Len(diagram[s]) : diagram[s][i].is = kind}
Subs(s) == {diagram[s][i].of : i \in Where(s, "sub")}

\* What a declaration has to be: a tree of states below the root, regions apart
\* from other sub-states, one default where there is a choice, and timeouts of
\* their own.
Once(x, kind) == \A s, t \in Declared : \A i \in Where(s, kind), j \in Where(t, kind) :
                    diagram[s][i].of = x /\ diagram[t][j].of = x => s = t /\ i = j
Sound ==
    /\ \A s \in Declared : Root \notin Subs(s)
    /\ \A s \in Declared : Once(s, "sub")
    /\ \A t \in Timers : Once(t, "timeout")
    /\ \A s \in Declared :
          /\ \A i, j \in Where(s, "sub") : diagram[s][i].region = diagram[s][j].region
          /\ \A i, j \in Where(s, "default") : i = j
          /\ (\E i \in Where(s, "sub") : ~diagram[s][i].region) => Where(s, "default") # {}
DefaultBelow ==
    \A s \in Declared : \A i \in Where(s, "default") :
        \E j \in Where(s, "sub") : j < i /\ diagram[s][j].of = diagram[s][i].of

\* Of two sub-states, the one that is listed later was declared earlier.
LatestFirst(s) ==
    \A k, l \in 1..Len(children[s]) : k < l =>
        \A i, j \in Where(s, "sub") :
            diagram[s][i].of = children[s][k] /\ diagram[s][j].of = children[s][l] => j < i

\* The nodes are the tree that was declared: every state knows its parent, and the
\* sub-states the other way round (vivid_sub_node prepends); every default and every
\* timer is in its place.
TreeAsDeclared ==
    /\ nodes = Declared
    /\ \A s \in Declared :
          /\ ToSet(children[s]) = Subs(s) /\ LatestFirst(s)
          /\ \A c \in Subs(s) : parent[c] = s
          /\ \A i \in Where(s, "default") : default[s] = diagram[s][i].of
          /\ \A i \in Where(s, "sub") : regions[s] = diagram[s][i].region
          /\ \A i \in Where(s, "timeout") : diagram[s][i].of \in timers
    /\ \A t \in timers : Blocks("binding_timer", ToSet(Handles), t) \subseteq live

Refused == pc = "destroy" /\ todo = Teardown /\ "event_queue" \notin held

\* A machine is created only from a sound declaration, and only if every call has
\* done its work: no error is lost on the way up from a nested state function
\* (init_error, walk_init).  It is then the machine that was declared; and a sound
\* declaration whose defaults are sub-states is refused only when a call has failed.
CreatedIsSound ==
    /\ pc = "created" => Sound /\ failures = 0 /\ TreeAsDeclared
    /\ Refused => failures > 0 \/ ~(Sound /\ DefaultBelow)
================================================================================
