---------------------------- MODULE VividCreateProofs ----------------------------
(* Proofs about the creation and destruction of a machine, for any declaration, *)
(* any binding, both builds and any number of calls that fail.                  *)
EXTENDS VividCreate, TLAPS

\* The blocks that belong to a field that is not NULL, to an entry of a map, to a
\* node or to a timer
OfField(x) == \E f \in held : x \in Blocks(f, Frees(f), "")
OfNodeEntry(x) == "node_map" \in held /\ \E s \in nodeKeys : x = <<"node_entry", "node_entry", s>>
OfNode(x) == "node_map" \in held /\ \E s \in nodes : x = <<"node", "node", s>>
OfTimerEntry(x) == "timer_map" \in held /\ \E t \in timerKeys : x = <<"timer_entry", "timer_entry", t>>
OfTimer(x) == "timer_map" \in held /\ \E t \in timers :
                  \/ x = <<"timers", "timers", t>>
                  \/ x \in Blocks("binding_timer", TimerDestroy, t)

\* What is still to be destroyed, or would be
Destroying == pc \in {"destroy", "gone"}
Pending(f) == Destroying => \E i \in 1..Len(todo) : todo[i] = f
AllPending == Destroying => \A f \in held \cup {"nodes", "timers"} : Pending(f)

Belongs(x) ==
    \/ OfField(x)
    \/ OfNodeEntry(x)
    \/ OfNode(x) /\ Pending("nodes")
    \/ OfTimerEntry(x)
    \/ OfTimer(x) /\ Pending("timers")
AllBelongs == \A x \in live : Belongs(x)

\* The order of vivid_destroy_sm: what is left of it is its end.
Fields == {"sm", "binding_event", "node_map", "timer_map", "log", "uml", "binding_mutex", "event_queue"}
Stage(k) == /\ Len(todo) = 11 - k /\ todo \in Seq(Fields \cup {"timers", "nodes"})
            /\ \A i \in 1..11 - k : todo[i] = Teardown[i + k - 1]
InOrder ==
    /\ pc = "destroy" => \E k \in 1..10 : Stage(k)
    /\ pc = "gone" => todo = <<>>
    /\ pc = "create" => todo = <<>> /\ held = {}
    /\ held \subseteq Fields
    /\ \A f \in held : Pending(f)

\* The maps are there while state functions are called.
Before == {"create", "event", "node_map", "timer_map"}
MapsThere == pc \notin Before \cup {"destroy", "gone", "crashed"} => {"node_map", "timer_map"} \subseteq held

KnownBuild == binding \in Bindings /\ lockfree \in BOOLEAN
LeavesNothing == KnownBuild /\ AllBelongs /\ InOrder /\ MapsThere
--------------------------------------------------------------------------------
(* What a call that fails leaves behind *)

\* Every list of parts is a sequence, so its domain is what its length says.
IsList(s) == Len(s) \in Nat /\ DOMAIN s = 1..Len(s)

LEMMA SequencesAreLists == \A S : \A s \in Seq(S) : IsList(s)
BY DEF IsList

PartNames == {"timer", "timer_fd", "epoll_entry", "timer_handle", "wait_handle", "handle", "mutex",
              "pthread_mutex", "queue", "entry_buffer", "ready_buffer", "param_buffer", "log", "buffer"}
LEMMA ListsOfParts ==
    ASSUME KnownBuild
    PROVE  IsList(Handles) /\ IsList(Mutex) /\ IsList(QueueParts) /\ IsList(LogParts)
<1>1. Handles \in Seq(PartNames)
  <2>1. LinuxTimer \in Seq(PartNames) /\ Win32Timer \in Seq(PartNames)
    BY DEF LinuxTimer, Win32Timer, PartNames
  <2>2. FreertosTimer \in Seq(PartNames) /\ LibevTimer \in Seq(PartNames)
    BY DEF FreertosTimer, LibevTimer, PartNames
  <2>3. Handles \in {LinuxTimer, Win32Timer, FreertosTimer, LibevTimer}
    BY DEF KnownBuild, Bindings, Handles
  <2> QED
    BY <2>1, <2>2, <2>3
<1>2. Mutex \in Seq(PartNames)
  <2>1. PthreadMutex \in Seq(PartNames) /\ CriticalSection \in Seq(PartNames) /\ InterruptMask \in Seq(PartNames)
    BY DEF PthreadMutex, CriticalSection, InterruptMask, PartNames
  <2>2. Mutex \in {PthreadMutex, CriticalSection, InterruptMask}
    BY DEF KnownBuild, Bindings, Mutex
  <2> QED
    BY <2>1, <2>2
<1>3. QueueParts \in Seq(PartNames)
  <2>1. <<"queue", "entry_buffer">> \in Seq(PartNames) /\ <<"param_buffer">> \in Seq(PartNames)
        /\ <<"ready_buffer">> \in Seq(PartNames)
    BY DEF PartNames
  <2>2. \A a, b, c \in Seq(PartNames) : a \o b \o c \in Seq(PartNames)
    OBVIOUS
  <2>3. CASE lockfree
    <3>1. QueueParts = <<"queue", "entry_buffer">> \o <<"ready_buffer">> \o <<"param_buffer">>
      BY <2>3 DEF QueueParts
    <3> QED
      BY <2>1, <2>2, <3>1, Zenon
  <2>4. CASE ~lockfree
    <3>1. QueueParts = <<"queue", "entry_buffer">> \o Mutex \o <<"param_buffer">>
      BY <2>4 DEF QueueParts
    <3> QED
      BY <1>2, <2>1, <2>2, <3>1, Zenon
  <2> QED
    BY <2>3, <2>4
<1>4. LogParts \in Seq(PartNames)
  BY DEF LogParts, PartNames
<1> QED
  BY <1>1, <1>2, <1>3, <1>4, SequencesAreLists

\* What destroys a part gives back whatever its creation can have taken.
LEMMA PartsFreed ==
    ASSUME KnownBuild, NEW field
    PROVE  IsList(Parts(field)) /\ Frees(field) = ToSet(Parts(field))
<1>1. IsList(<<field>>) /\ ToSet(<<field>>) = {field}
  BY DEF IsList, ToSet
<1>2. CASE field = "log"
  BY <1>2, ListsOfParts DEF Parts, Frees, LogDestroy
<1>3. CASE field = "binding_mutex"
  BY <1>3, ListsOfParts DEF Parts, Frees
<1>4. CASE field = "event_queue"
  BY <1>4, ListsOfParts DEF Parts, Frees, QueueDestroy
<1>5. CASE field = "binding_timer"
  BY <1>5, ListsOfParts DEF Parts, Frees, TimerDestroy
<1>6. CASE field \notin {"log", "binding_mutex", "event_queue", "binding_timer"}
  BY <1>1, <1>6 DEF Parts, Frees
<1> QED
  BY <1>2, <1>3, <1>4, <1>5, <1>6

\* A creation that fails half way has given everything back.
LEMMA FailureTakesNothing ==
    ASSUME KnownBuild, NEW field, NEW name, Obtain(field, name, FALSE)
    PROVE  live' = live /\ failures < mayFail /\ failures' = failures + 1
<1>1. PICK n \in 0..Len(Parts(field)) - 1 :
          live' = live \cup Blocks(field, First(Parts(field), n) \ Frees(field), name)
  BY DEF Obtain
<1>2. First(Parts(field), n) \subseteq Frees(field)
  <2>1. 1..n \subseteq DOMAIN Parts(field)
    BY <1>1, PartsFreed DEF IsList
  <2> QED
    BY <2>1, PartsFreed DEF First, ToSet
<1> QED
  BY <1>1, <1>2 DEF Obtain, Blocks

LEMMA SuccessTakesParts ==
    ASSUME KnownBuild, NEW field, NEW name, Obtain(field, name, TRUE)
    PROVE  live' = live \cup Blocks(field, Frees(field), name) /\ failures' = failures
BY PartsFreed DEF Obtain

\* The handles of a timer, when the creation fails after n of them
LEMMA TimerTakesNothing ==
    ASSUME KnownBuild, NEW n \in 0..Len(Handles) - 1, NEW t
    PROVE  Blocks("binding_timer", First(Handles, n) \ TimerDestroy, t) = {}
<1>1. 1..n \subseteq DOMAIN Handles
  BY ListsOfParts DEF IsList
<1> QED
  BY <1>1 DEF First, TimerDestroy, ToSet, Blocks

\* A field of the machine
LEMMA FieldTaken ==
    ASSUME KnownBuild, NEW field, NEW ok \in BOOLEAN, Field(field, ok)
    PROVE  /\ held' = IF ok THEN held \cup {field} ELSE held
           /\ live' = IF ok THEN live \cup Blocks(field, Frees(field), "") ELSE live
           /\ ok => failures' = failures
           /\ ~ok => failures' = failures + 1
<1>1. CASE ok = TRUE
  BY <1>1, SuccessTakesParts DEF Field
<1>2. CASE ok = FALSE
  BY <1>2, FailureTakesNothing DEF Field
<1> QED
  BY <1>1, <1>2
--------------------------------------------------------------------------------
(* Blocks keep their owners *)

\* What belonged to the machine still does, when nothing is given back.
LEMMA BelongsStill ==
    ASSUME NEW x, Belongs(x), UNCHANGED <<binding, lockfree>>, held \subseteq held',
           nodeKeys \subseteq nodeKeys', nodes \subseteq nodes',
           timerKeys \subseteq timerKeys', timers \subseteq timers',
           Pending("nodes") => Pending("nodes")', Pending("timers") => Pending("timers")'
    PROVE  Belongs(x)'
<1>1. \A f : Frees(f)' = Frees(f) /\ TimerDestroy' = TimerDestroy
  BY DEF Frees, LogDestroy, LogParts, Mutex, QueueDestroy, QueueParts, TimerDestroy, Handles,
         LinuxTimer, Win32Timer, FreertosTimer, LibevTimer, PthreadMutex, CriticalSection, InterruptMask
<1>2. OfField(x) => OfField(x)'
  BY <1>1 DEF OfField, Blocks
<1>3. OfNodeEntry(x) => OfNodeEntry(x)'
  BY DEF OfNodeEntry
<1>4. OfNode(x) => OfNode(x)'
  BY DEF OfNode
<1>5. OfTimerEntry(x) => OfTimerEntry(x)'
  BY DEF OfTimerEntry
<1>6. OfTimer(x) => OfTimer(x)'
  BY <1>1 DEF OfTimer, Blocks
<1> QED
  BY <1>2, <1>3, <1>4, <1>5, <1>6 DEF Belongs

LEMMA FreesStays ==
    ASSUME UNCHANGED <<binding, lockfree>>
    PROVE  \A f : Frees(f)' = Frees(f) /\ TimerDestroy' = TimerDestroy /\ Handles' = Handles
BY DEF Frees, LogDestroy, LogParts, Mutex, QueueDestroy, QueueParts, TimerDestroy, Handles,
       LinuxTimer, Win32Timer, FreertosTimer, LibevTimer, PthreadMutex, CriticalSection, InterruptMask

\* The calls before and after the walk, each for one field
LEMMA FieldBelongs ==
    ASSUME LeavesNothing, NEW field \in Fields, NEW ok \in BOOLEAN, Field(field, ok),
           UNCHANGED <<machine, tree>>, ~Destroying,
           AllPending'
    PROVE  AllBelongs' /\ KnownBuild' /\ held' \subseteq Fields
<1>1. /\ held' = IF ok THEN held \cup {field} ELSE held
      /\ live' = IF ok THEN live \cup Blocks(field, Frees(field), "") ELSE live
  BY FieldTaken DEF LeavesNothing
<1>2. UNCHANGED <<binding, lockfree, nodeKeys, nodes, timerKeys, timers>>
  BY DEF machine, tree
<1>3. Pending("nodes")' /\ Pending("timers")'
  BY DEF AllPending, Pending, Destroying
<1>4. ASSUME NEW x \in live PROVE Belongs(x)'
  BY <1>1, <1>2, <1>3, BelongsStill DEF LeavesNothing, AllBelongs
<1>5. ASSUME ok, NEW x \in Blocks(field, Frees(field), "") PROVE Belongs(x)'
  <2>1. x \in Blocks(field, Frees(field)', "") /\ field \in held'
    BY <1>1, <1>2, <1>5, FreesStays
  <2> QED
    BY <2>1 DEF Belongs, OfField, Blocks
<1> QED
  BY <1>1, <1>2, <1>4, <1>5 DEF AllBelongs, LeavesNothing, KnownBuild, InOrder
--------------------------------------------------------------------------------
(* The order of destruction *)

Steps == Fields \cup {"timers", "nodes"}

LEMMA TeardownSteps ==
    /\ Teardown \in Seq(Steps) /\ Len(Teardown) = 10
    /\ \A i \in 1..10 : Teardown[i] \in Steps
    /\ \A f \in Steps : \E i \in 1..10 : Teardown[i] = f
<1>1. /\ Teardown \in Seq(Steps) /\ Len(Teardown) = 10
  BY DEF Teardown, Steps, Fields
<1>2. /\ Teardown[1] = "event_queue" /\ Teardown[2] = "timers" /\ Teardown[3] = "timer_map"
      /\ Teardown[4] = "nodes" /\ Teardown[5] = "node_map"
  BY DEF Teardown
<1>3. /\ Teardown[6] = "binding_mutex" /\ Teardown[7] = "uml" /\ Teardown[8] = "log"
      /\ Teardown[9] = "binding_event" /\ Teardown[10] = "sm"
  BY DEF Teardown
<1>4. \A f \in Steps : \E i \in 1..10 : Teardown[i] = f
  BY <1>2, <1>3 DEF Steps, Fields
<1>5. \A i \in 1..10 : Teardown[i] \in Steps
  <2>1. \A i \in 1..10 : i = 1 \/ i = 2 \/ i = 3 \/ i = 4 \/ i = 5 \/ i = 6 \/ i = 7 \/ i = 8 \/ i = 9 \/ i = 10
    OBVIOUS
  <2> QED
    BY <1>2, <1>3, <2>1 DEF Steps, Fields
<1> QED
  BY <1>1, <1>4, <1>5

\* An error leads to the beginning of the destruction, with everything to be destroyed.
LEMMA ErrorBegins ==
    ASSUME Error
    PROVE  /\ pc' = "destroy" /\ Stage(1)'
           /\ \A f \in Steps : Pending(f)'
<1>1. todo' = Teardown /\ pc' = "destroy"
  BY DEF Error
<1>2. Stage(1)'
  BY <1>1, TeardownSteps DEF Stage, Steps
<1>3. \A f \in Steps : \E i \in 1..Len(todo') : todo'[i] = f
  BY <1>1, TeardownSteps
<1> QED
  BY <1>1, <1>2, <1>3 DEF Pending

\* One step further: the first of the list goes, the rest keeps its order.
LEMMA StageNext ==
    ASSUME NEW k \in 1..10, Stage(k)
    PROVE  /\ todo # <<>> /\ Head(todo) = Teardown[k]
           /\ Len(Tail(todo)) = 10 - k /\ Tail(todo) \in Seq(Steps)
           /\ \A i \in 1..10 - k : Tail(todo)[i] = Teardown[i + k]
           /\ \A f : (\E i \in 1..Len(todo) : todo[i] = f) /\ f # Head(todo)
                        => \E i \in 1..Len(Tail(todo)) : Tail(todo)[i] = f
<1>1. todo \in Seq(Steps) /\ Len(todo) = 11 - k /\ 1 \in 1..Len(todo)
  BY DEF Stage, Steps
<1>2. todo # <<>> /\ Head(todo) = todo[1] /\ todo[1] = Teardown[k]
  BY <1>1 DEF Stage
<1>3. Len(Tail(todo)) = 10 - k /\ Tail(todo) \in Seq(Steps)
  BY <1>1, <1>2
<1>4. \A i \in 1..10 - k : Tail(todo)[i] = todo[i + 1] /\ i + 1 \in 1..11 - k
  BY <1>1, <1>2, <1>3
<1>5. \A i \in 1..10 - k : Tail(todo)[i] = Teardown[i + k]
  BY <1>4 DEF Stage
<1>6. ASSUME NEW f, NEW i \in 1..Len(todo), todo[i] = f, f # Head(todo)
      PROVE  \E j \in 1..Len(Tail(todo)) : Tail(todo)[j] = f
  <2>1. i - 1 \in 1..10 - k
    BY <1>1, <1>2, <1>6
  <2>2. Tail(todo)[i - 1] = f
    BY <1>4, <1>6, <2>1
  <2> QED
    BY <1>3, <2>1, <2>2
<1> QED
  BY <1>2, <1>3, <1>5, <1>6

\* After a step of the destruction
LEMMA DestroyStep ==
    ASSUME InOrder, pc = "destroy", todo' = Tail(todo),
           pc' = (IF Len(todo) = 1 THEN "gone" ELSE pc) \/ (pc' = pc /\ Len(todo) > 1),
           held' = held \ {Head(todo)}
    PROVE  /\ InOrder' /\ Destroying'
           /\ \A f : Pending(f) /\ f # Head(todo) => Pending(f)'
<1>1. PICK k \in 1..10 : Stage(k)
  BY DEF InOrder
<1>2. Len(todo) = 11 - k
  BY <1>1 DEF Stage
<1>3. /\ Len(todo') = 10 - k /\ todo' \in Seq(Steps)
      /\ \A i \in 1..10 - k : todo'[i] = Teardown[i + k]
      /\ \A f : (\E i \in 1..Len(todo) : todo[i] = f) /\ f # Head(todo)
                   => \E i \in 1..Len(todo') : todo'[i] = f
  BY <1>1, StageNext
<1>4. \A f : Pending(f) /\ f # Head(todo) => Pending(f)'
  BY <1>3 DEF Pending, Destroying
<1>5. pc' \in {"destroy", "gone"}
  OBVIOUS
<1>6. pc' = "destroy" => k \in 1..9
  BY <1>2
<1>7. pc' = "destroy" => \E j \in 1..10 : Stage(j)'
  <2> SUFFICES ASSUME pc' = "destroy" PROVE Stage(k + 1)' /\ k + 1 \in 1..10
    OBVIOUS
  <2>1. k + 1 \in 1..10 /\ 11 - (k + 1) = 10 - k
    BY <1>6
  <2>2. \A i \in 1..10 - k : i + (k + 1) - 1 = i + k
    OBVIOUS
  <2> QED
    BY <1>3, <2>1, <2>2 DEF Stage, Steps
<1>8. pc' = "gone" => todo' = <<>>
  <2>1. pc' = "gone" => k = 10
    BY <1>2
  <2> QED
    BY <1>3, <2>1
<1>9. \A f \in held' : Pending(f)'
  BY <1>4 DEF InOrder
<1> QED
  BY <1>4, <1>5, <1>7, <1>8, <1>9 DEF InOrder, Destroying

\* The timers are destroyed before the map they are found by, and the nodes before theirs.
LEMMA PlacesInTeardown ==
    \A i \in 1..10 : /\ (Teardown[i] = "timers") <=> (i = 2)
                     /\ (Teardown[i] = "timer_map") <=> (i = 3)
                     /\ (Teardown[i] = "nodes") <=> (i = 4)
                     /\ (Teardown[i] = "node_map") <=> (i = 5)
<1>1. \A i \in 1..10 : i = 1 \/ i = 2 \/ i = 3 \/ i = 4 \/ i = 5 \/ i = 6 \/ i = 7 \/ i = 8 \/ i = 9 \/ i = 10
  OBVIOUS
<1>2. /\ Teardown[1] = "event_queue" /\ Teardown[2] = "timers" /\ Teardown[3] = "timer_map"
      /\ Teardown[4] = "nodes" /\ Teardown[5] = "node_map"
  BY DEF Teardown
<1>3. /\ Teardown[6] = "binding_mutex" /\ Teardown[7] = "uml" /\ Teardown[8] = "log"
      /\ Teardown[9] = "binding_event" /\ Teardown[10] = "sm"
  BY DEF Teardown
<1> QED
  BY <1>1, <1>2, <1>3

LEMMA MapsOutlive ==
    ASSUME InOrder, pc = "destroy"
    PROVE  /\ todo # <<>> /\ Head(todo) \in Steps
           /\ Head(todo) = "timer_map" => ~Pending("timers")
           /\ Head(todo) = "node_map" => ~Pending("nodes")
           /\ Head(todo) \in {"timers", "nodes"} => Len(todo) > 1
<1>1. PICK k \in 1..10 : Stage(k)
  BY DEF InOrder
<1>2. todo # <<>> /\ Head(todo) = Teardown[k] /\ Teardown[k] \in Steps /\ Len(todo) = 11 - k
  <2>1. todo # <<>> /\ Head(todo) = Teardown[k]
    BY <1>1, StageNext
  <2>2. Teardown[k] \in Steps
    BY TeardownSteps
  <2> QED
    BY <1>1, <2>1, <2>2 DEF Stage
<1>3. ASSUME NEW f, Pending(f) PROVE \E i \in k..10 : Teardown[i] = f
  <2>1. PICK i \in 1..Len(todo) : todo[i] = f
    BY <1>3 DEF Pending, Destroying
  <2>2. i \in 1..11 - k /\ i + k - 1 \in k..10
    BY <1>2, <2>1
  <2> QED
    BY <1>1, <2>1, <2>2 DEF Stage
<1>4. Head(todo) = "timer_map" => ~Pending("timers")
  <2> SUFFICES ASSUME Head(todo) = "timer_map", Pending("timers") PROVE FALSE
    OBVIOUS
  <2>1. k = 3
    BY <1>2, PlacesInTeardown
  <2>2. PICK i \in 3..10 : Teardown[i] = "timers"
    BY <1>3, <2>1
  <2> QED
    BY <2>2, PlacesInTeardown
<1>5. Head(todo) = "node_map" => ~Pending("nodes")
  <2> SUFFICES ASSUME Head(todo) = "node_map", Pending("nodes") PROVE FALSE
    OBVIOUS
  <2>1. k = 5
    BY <1>2, PlacesInTeardown
  <2>2. PICK i \in 5..10 : Teardown[i] = "nodes"
    BY <1>3, <2>1
  <2> QED
    BY <2>2, PlacesInTeardown
<1>6. Head(todo) \in {"timers", "nodes"} => Len(todo) > 1
  <2>1. Head(todo) \in {"timers", "nodes"} => k = 2 \/ k = 4
    BY <1>2, PlacesInTeardown
  <2> QED
    BY <1>2, <2>1
<1> QED
  BY <1>2, <1>4, <1>5, <1>6

LEMMA DestroyFieldLeaves ==
    ASSUME LeavesNothing, DestroyField
    PROVE  LeavesNothing'
<1> DEFINE f == Head(todo)
<1>1. /\ pc = "destroy" /\ todo' = Tail(todo) /\ held' = held \ {f} /\ f \notin {"timers", "nodes"}
      /\ pc' = IF Len(todo) = 1 THEN "gone" ELSE pc
      /\ UNCHANGED <<binding, lockfree, nodeKeys, nodes, timerKeys, timers>>
  BY DEF DestroyField, machine, tree
<1>2. InOrder' /\ Destroying' /\ \A g : Pending(g) /\ g # f => Pending(g)'
  BY <1>1, DestroyStep DEF LeavesNothing
<1>3. \A x \in live' : x \in live
  BY DEF DestroyField
<1>4. \A x \in live' : f \in held => x \notin Blocks(f, Frees(f), "")
  BY DEF DestroyField
<1>5. \A x \in live' : f = "node_map" => ~OfNodeEntry(x)
  BY DEF DestroyField, OfNodeEntry
<1>6. \A x \in live' : f = "timer_map" => ~OfTimerEntry(x)
  BY DEF DestroyField, OfTimerEntry
<1>7. ASSUME NEW x \in live' PROVE Belongs(x)'
  <2>1. Belongs(x)
    BY <1>3, <1>7 DEF LeavesNothing, AllBelongs
  <2>2. CASE OfField(x)
    <3>1. PICK g \in held : x \in Blocks(g, Frees(g), "")
      BY <2>2 DEF OfField
    <3>2. g \in held' /\ x \in Blocks(g, Frees(g)', "")
      BY <1>1, <1>4, <1>7, <3>1, FreesStays
    <3> QED
      BY <3>2 DEF Belongs, OfField, Blocks
  <2>3. CASE OfNodeEntry(x)
    BY <1>1, <1>5, <1>7, <2>3 DEF Belongs, OfNodeEntry
  <2>4. CASE OfNode(x) /\ Pending("nodes")
    <3>1. f # "node_map" /\ Pending("nodes")'
      BY <1>1, <1>2, <2>4, MapsOutlive DEF LeavesNothing
    <3> QED
      BY <1>1, <2>4, <3>1 DEF Belongs, OfNode
  <2>5. CASE OfTimerEntry(x)
    BY <1>1, <1>6, <1>7, <2>5 DEF Belongs, OfTimerEntry
  <2>6. CASE OfTimer(x) /\ Pending("timers")
    <3>1. f # "timer_map" /\ Pending("timers")'
      BY <1>1, <1>2, <2>6, MapsOutlive DEF LeavesNothing
    <3>2. OfTimer(x)'
      BY <1>1, <2>6, <3>1, FreesStays DEF OfTimer, Blocks
    <3> QED
      BY <3>1, <3>2 DEF Belongs
  <2> QED
    BY <2>1, <2>2, <2>3, <2>4, <2>5, <2>6 DEF Belongs
<1>8. KnownBuild'
  BY <1>1 DEF LeavesNothing, KnownBuild
<1> QED
  BY <1>2, <1>7, <1>8 DEF LeavesNothing, AllBelongs, MapsThere, Destroying

\* What belongs to the machine in another way than f is left where it is.
LEMMA BelongsElse ==
    ASSUME LeavesNothing, pc = "destroy", NEW x, Belongs(x), NEW f \in {"timers", "nodes"},
           Head(todo) = f, f = "timers" => ~OfTimer(x), f = "nodes" => ~OfNode(x),
           UNCHANGED <<binding, lockfree, held, nodeKeys, nodes, timerKeys, timers>>,
           \A g : Pending(g) /\ g # f => Pending(g)'
    PROVE  Belongs(x)'
<1>1. OfField(x) => OfField(x)'
  BY FreesStays DEF OfField, Blocks
<1>2. OfNodeEntry(x) => OfNodeEntry(x)'
  BY DEF OfNodeEntry
<1>3. OfTimerEntry(x) => OfTimerEntry(x)'
  BY DEF OfTimerEntry
<1>4. OfNode(x) /\ Pending("nodes") => OfNode(x)' /\ Pending("nodes")'
  BY DEF OfNode
<1>5. OfTimer(x) /\ Pending("timers") => OfTimer(x)' /\ Pending("timers")'
  BY FreesStays DEF OfTimer, Blocks
<1> QED
  BY <1>1, <1>2, <1>3, <1>4, <1>5 DEF Belongs

LEMMA DestroyTimersLeaves ==
    ASSUME LeavesNothing, DestroyTimers
    PROVE  LeavesNothing'
<1>1. pc = "destroy" /\ Head(todo) = "timers" /\ UNCHANGED <<binding, lockfree, held, nodeKeys, nodes, timerKeys, timers>>
  BY DEF DestroyTimers, machine, tree
<1>2. KnownBuild'
  BY <1>1 DEF LeavesNothing, KnownBuild
<1>3. CASE pc' = "crashed" /\ UNCHANGED <<todo, live>>
  <2>1. ASSUME NEW x \in live PROVE Belongs(x)'
    <3>1. Pending("nodes")' /\ Pending("timers")' /\ Belongs(x)
      BY <1>3, <2>1 DEF Pending, Destroying, LeavesNothing, AllBelongs
    <3> QED
      BY <1>1, <3>1, BelongsStill
  <2>2. InOrder' /\ MapsThere'
    BY <1>1, <1>3 DEF InOrder, MapsThere, LeavesNothing, Pending, Destroying
  <2> QED
    BY <1>2, <1>3, <2>1, <2>2 DEF LeavesNothing, AllBelongs
<1>4. CASE /\ live' = IF Reached("timer_map")
                      THEN live \ UNION {Blocks("timers", {"timers"}, t)
                                            \cup Blocks("binding_timer", TimerDestroy, t) : t \in timers}
                      ELSE live
           /\ todo' = Tail(todo) /\ UNCHANGED pc
  <2>1. Len(todo) > 1 /\ held' = held \ {Head(todo)}
    BY <1>1, MapsOutlive DEF LeavesNothing, InOrder, Fields
  <2>2. InOrder' /\ Destroying' /\ \A g : Pending(g) /\ g # "timers" => Pending(g)'
    BY <1>1, <1>4, <2>1, DestroyStep DEF LeavesNothing
  <2>3. ASSUME NEW x \in live' PROVE Belongs(x)'
    <3>1. x \in live /\ Belongs(x)
      BY <1>4, <2>3 DEF LeavesNothing, AllBelongs
    <3>2. ~OfTimer(x)
      <4> SUFFICES ASSUME OfTimer(x) PROVE FALSE
        OBVIOUS
      <4>1. PICK t \in timers : x = <<"timers", "timers", t>> \/ x \in Blocks("binding_timer", TimerDestroy, t)
        BY DEF OfTimer
      <4>2. <<"timers", "timers", t>> \in Blocks("timers", {"timers"}, t)
        BY DEF Blocks
      <4>3. Reached("timer_map")
        BY DEF OfTimer, Reached
      <4>4. x \in Blocks("timers", {"timers"}, t) \cup Blocks("binding_timer", TimerDestroy, t)
        BY <4>1, <4>2
      <4> QED
        BY <1>4, <2>3, <4>3, <4>4
    <3> QED
      BY <1>1, <2>2, <3>1, <3>2, BelongsElse
  <2> QED
    BY <1>2, <2>2, <2>3 DEF LeavesNothing, AllBelongs, MapsThere, Destroying
<1> QED
  BY <1>3, <1>4 DEF DestroyTimers

LEMMA DestroyNodesLeaves ==
    ASSUME LeavesNothing, DestroyNodes
    PROVE  LeavesNothing'
<1>1. /\ pc = "destroy" /\ Head(todo) = "nodes" /\ todo' = Tail(todo) /\ pc' = pc
      /\ UNCHANGED <<binding, lockfree, held, nodeKeys, nodes, timerKeys, timers>>
  BY DEF DestroyNodes, machine, tree
<1>2. Len(todo) > 1 /\ held' = held \ {Head(todo)}
  BY <1>1, MapsOutlive DEF LeavesNothing, InOrder, Fields
<1>3. InOrder' /\ Destroying' /\ \A g : Pending(g) /\ g # "nodes" => Pending(g)'
  BY <1>1, <1>2, DestroyStep DEF LeavesNothing
<1>4. ASSUME NEW x \in live' PROVE Belongs(x)'
  <2>1. x \in live /\ Belongs(x)
    BY <1>4 DEF DestroyNodes, LeavesNothing, AllBelongs
  <2>2. ~OfNode(x)
    BY <1>4 DEF DestroyNodes, OfNode, Reached
  <2> QED
    BY <1>1, <1>3, <2>1, <2>2, BelongsElse
<1>5. KnownBuild'
  BY <1>1 DEF LeavesNothing, KnownBuild
<1> QED
  BY <1>3, <1>4, <1>5 DEF LeavesNothing, AllBelongs, MapsThere, Destroying
--------------------------------------------------------------------------------
(* What a creation takes has an owner *)

\* A call that goes on, or gives up
LEMMA NextOrError ==
    ASSUME NEW ok \in BOOLEAN, NEW next, OrError(ok, next), next \notin {"destroy", "gone", "create"},
           held' \subseteq Fields
    PROVE  /\ InOrder' /\ pc' \in {next, "destroy"}
           /\ AllPending'
<1>1. Continue(next) \/ Error
  BY DEF OrError
<1>2. CASE Continue(next)
  BY <1>2 DEF Continue, InOrder, Pending, Destroying, AllPending
<1>3. CASE Error
  <2>1. pc' = "destroy" /\ Stage(1)' /\ \A f \in Steps : Pending(f)'
    BY <1>3, ErrorBegins
  <2> QED
    BY <2>1 DEF InOrder, Steps, AllPending
<1> QED
  BY <1>1, <1>2, <1>3

LEMMA HeldFields ==
    ASSUME LeavesNothing, NEW field \in Fields, NEW ok \in BOOLEAN, Field(field, ok)
    PROVE  held' \subseteq Fields /\ held \subseteq held'
<1>1. held' = IF ok THEN held \cup {field} ELSE held
  BY FieldTaken DEF LeavesNothing
<1> QED
  BY <1>1 DEF LeavesNothing, InOrder

LEMMA CreateLeaves ==
    ASSUME LeavesNothing, NEW at, NEW field \in Fields, NEW next,
           at \notin {"create", "destroy", "gone", "crashed"}, next \notin {"destroy", "gone", "create"},
           Create(at, field, next), at \notin Before
    PROVE  LeavesNothing'
<1>1. PICK ok \in BOOLEAN : Field(field, ok) /\ OrError(ok, next)
  BY DEF Create
<1>2. pc = at /\ UNCHANGED <<machine, listed, tree>> /\ ~Destroying
  BY DEF Create, Destroying
<1>3. held' \subseteq Fields /\ held \subseteq held'
  BY <1>1, HeldFields
<1>4. /\ InOrder' /\ pc' \in {next, "destroy"}
      /\ AllPending'
  BY <1>1, <1>3, NextOrError
<1>5. AllBelongs' /\ KnownBuild'
  BY <1>1, <1>2, <1>4, FieldBelongs
<1>6. MapsThere'
  BY <1>2, <1>3 DEF LeavesNothing, MapsThere
<1> QED
  BY <1>4, <1>5, <1>6 DEF LeavesNothing

LEMMA CreateSmLeaves ==
    ASSUME LeavesNothing, CreateSm
    PROVE  LeavesNothing'
<1>1. PICK ok \in BOOLEAN : Field("sm", ok) /\ Continue(IF ok THEN "event" ELSE "gone")
  BY DEF CreateSm
<1>2. /\ pc = "create" /\ held = {} /\ todo = <<>> /\ UNCHANGED <<machine, listed, tree>> /\ ~Destroying
  BY DEF CreateSm, LeavesNothing, InOrder, Destroying
<1>3. CASE ok
  <2>1. pc' = "event" /\ ~Destroying'
    BY <1>1, <1>3 DEF Continue, Destroying
  <2>2. "sm" \in Fields
    BY DEF Fields
  <2>3. AllBelongs' /\ KnownBuild' /\ held' \subseteq Fields
    BY <1>1, <1>2, <2>1, <2>2, FieldBelongs DEF AllPending
  <2> QED
    <3>1. InOrder'
      BY <2>1, <2>3, <1>2 DEF InOrder, Pending
    <3>2. MapsThere'
      BY <2>1, <1>2 DEF MapsThere, Before, Pending
    <3> QED
      BY <2>3, <3>1, <3>2 DEF LeavesNothing
<1>4. CASE ~ok
  <2>1. held' = {} /\ live' = live /\ pc' = "gone" /\ todo' = <<>>
    BY <1>1, <1>2, <1>4, FieldTaken DEF LeavesNothing, Continue
  <2>2. \A x \in live : FALSE
    BY <1>2 DEF LeavesNothing, AllBelongs, Belongs, OfField, OfNodeEntry, OfNode, OfTimerEntry, OfTimer
  <2>3. KnownBuild'
    BY <1>2 DEF LeavesNothing, KnownBuild, machine
  <2> QED
    BY <2>1, <2>2, <2>3 DEF LeavesNothing, AllBelongs, InOrder, MapsThere
<1> QED
  BY <1>3, <1>4

\* The event and the two maps, which are tried before they are looked at
LEMMA CreateMapsLeaves ==
    ASSUME LeavesNothing, CreateEvent \/ CreateNodeMap \/ CreateTimerMap
    PROVE  LeavesNothing'
<1>1. UNCHANGED <<machine, tree>> /\ ~Destroying
  BY DEF CreateEvent, CreateNodeMap, CreateTimerMap, Destroying
<1>2. ASSUME NEW field \in Fields, NEW ok \in BOOLEAN, Field(field, ok), pc' \in {"node_map", "timer_map"}
      PROVE  LeavesNothing'
  <2>1. ~Destroying' /\ held' \subseteq Fields
    BY <1>2, HeldFields DEF Destroying
  <2>2. AllBelongs' /\ KnownBuild'
    BY <1>1, <1>2, <2>1, FieldBelongs DEF AllPending
  <2> QED
    BY <1>2, <2>1, <2>2 DEF LeavesNothing, InOrder, MapsThere, Before, Pending
<1>3. {"binding_event", "node_map", "timer_map"} \subseteq Fields
  BY DEF Fields
<1>4. CASE CreateEvent
  BY <1>2, <1>3, <1>4 DEF CreateEvent, Continue
<1>5. CASE CreateNodeMap
  BY <1>2, <1>3, <1>5 DEF CreateNodeMap, Continue
<1>6. CASE CreateTimerMap
  <2>1. PICK ok \in BOOLEAN : Field("timer_map", ok)
    BY <1>6 DEF CreateTimerMap
  <2>2. PICK all \in BOOLEAN : all = AllThere(held') /\ OrError(all, "log")
    BY <1>6 DEF CreateTimerMap, AllThere
  <2>3. held' \subseteq Fields
    BY <1>3, <2>1, HeldFields
  <2>4. /\ InOrder' /\ pc' \in {"log", "destroy"}
        /\ AllPending'
    BY <2>2, <2>3, NextOrError
  <2>5. AllBelongs' /\ KnownBuild'
    BY <1>1, <1>3, <2>1, <2>4, FieldBelongs
  <2>6. MapsThere'
    BY <2>2 DEF OrError, Continue, Error, AllThere, MapsThere
  <2> QED
    BY <2>4, <2>5, <2>6 DEF LeavesNothing
<1> QED
  BY <1>4, <1>5, <1>6

LEMMA CreatesLeave ==
    ASSUME LeavesNothing, Creates
    PROVE  LeavesNothing'
<1>1. {"log", "uml", "binding_mutex", "event_queue"} \subseteq Fields
  BY DEF Fields
<1>2. CASE CreateLog
  BY <1>1, <1>2, CreateLeaves DEF CreateLog, Before
<1>3. CASE CreateUml
  BY <1>1, <1>3, CreateLeaves DEF CreateUml, Before
<1>4. CASE CreateMutex
  BY <1>1, <1>4, CreateLeaves DEF CreateMutex, Before
<1>5. CASE CreateQueue
  BY <1>1, <1>5, CreateLeaves DEF CreateQueue, Before
<1> QED
  BY <1>2, <1>3, <1>4, <1>5, CreateSmLeaves, CreateMapsLeaves DEF Creates

\* A step of the walk, or its end with an error: what it adds belongs to the maps.
LEMMA WalkLeaves ==
    ASSUME LeavesNothing, pc \in {"root", "walk"}, UNCHANGED <<machine, held>>,
           (pc' \in {"walk", "queue"} /\ UNCHANGED todo) \/ Error,
           nodeKeys \subseteq nodeKeys', nodes \subseteq nodes',
           timerKeys \subseteq timerKeys', timers \subseteq timers',
           \A x \in live' : \/ x \in live
                            \/ \E s \in nodeKeys' : x = <<"node_entry", "node_entry", s>>
                            \/ \E s \in nodes' : x = <<"node", "node", s>>
                            \/ \E t \in timerKeys' : x = <<"timer_entry", "timer_entry", t>>
                            \/ \E t \in timers' : x = <<"timers", "timers", t>>
                            \/ \E t \in timers' : x \in Blocks("binding_timer", TimerDestroy, t)
    PROVE  LeavesNothing'
<1>1. UNCHANGED <<binding, lockfree>> /\ {"node_map", "timer_map"} \subseteq held
  BY DEF machine, LeavesNothing, MapsThere, Before
<1>2. InOrder' /\ \A f \in Steps : Pending(f)'
  <2>1. CASE pc' \in {"walk", "queue"} /\ UNCHANGED todo
    BY <2>1 DEF InOrder, LeavesNothing, Pending, Destroying
  <2>2. CASE Error
    BY <2>2, ErrorBegins DEF InOrder, LeavesNothing, Steps
  <2> QED
    BY <2>1, <2>2
<1>3. Pending("nodes")' /\ Pending("timers")'
  BY <1>2 DEF Steps
<1>4. ASSUME NEW x \in live' PROVE Belongs(x)'
  <2>1. CASE x \in live
    BY <1>1, <1>3, <2>1, BelongsStill DEF LeavesNothing, AllBelongs
  <2>2. CASE \E s \in nodeKeys' : x = <<"node_entry", "node_entry", s>>
    BY <1>1, <2>2 DEF Belongs, OfNodeEntry
  <2>3. CASE \E s \in nodes' : x = <<"node", "node", s>>
    BY <1>1, <1>3, <2>3 DEF Belongs, OfNode
  <2>4. CASE \E t \in timerKeys' : x = <<"timer_entry", "timer_entry", t>>
    BY <1>1, <2>4 DEF Belongs, OfTimerEntry
  <2>5. CASE \E t \in timers' : x = <<"timers", "timers", t>>
    <3>1. OfTimer(x)'
      BY <1>1, <2>5 DEF OfTimer
    <3> QED
      BY <1>3, <3>1 DEF Belongs
  <2>6. CASE \E t \in timers' : x \in Blocks("binding_timer", TimerDestroy, t)
    <3>1. OfTimer(x)'
      BY <1>1, <2>6, FreesStays DEF OfTimer, Blocks
    <3> QED
      BY <1>3, <3>1 DEF Belongs
  <2> QED
    BY <1>4, <2>1, <2>2, <2>3, <2>4, <2>5, <2>6
<1>5. KnownBuild' /\ MapsThere'
  BY <1>1 DEF LeavesNothing, KnownBuild, MapsThere
<1> QED
  BY <1>2, <1>4, <1>5 DEF LeavesNothing, AllBelongs

\* Entering a state function that fails, or the machine with it
LEMMA EnterFailsGoes ==
    ASSUME EnterFails
    PROVE  (pc' = "walk" /\ UNCHANGED todo) \/ Error
BY DEF EnterFails, Continue

LEMMA EnterLeaves ==
    ASSUME LeavesNothing, pc \in {"root", "walk"}, NEW s, Enter(s)
    PROVE  LeavesNothing'
<1> DEFINE entry == <<"node_entry", "node_entry", s>>
           node == <<"node", "node", s>>
<1>1. UNCHANGED <<machine, held, timerKeys, timers>>
  BY DEF Enter
<1>2. \/ /\ Obtain("node_entry", s, FALSE) /\ EnterFails /\ UNCHANGED <<nodeKeys, nodes>>
      \/ /\ EnterFails /\ UNCHANGED <<live, nodeKeys, nodes>>
      \/ /\ live' = live \cup {entry} /\ nodeKeys' = nodeKeys \cup {s} /\ EnterFails /\ UNCHANGED nodes
      \/ /\ live' = live \cup {entry, node} /\ nodeKeys' = nodeKeys \cup {s} /\ nodes' = nodes \cup {s}
         /\ Continue("walk")
  BY DEF Enter
<1>3. (pc' \in {"walk", "queue"} /\ UNCHANGED todo) \/ Error
  BY <1>2, EnterFailsGoes DEF Continue
<1>4. nodeKeys \subseteq nodeKeys' /\ nodes \subseteq nodes' /\ timerKeys \subseteq timerKeys' /\ timers \subseteq timers'
  BY <1>1, <1>2
<1>5. Obtain("node_entry", s, FALSE) => live' = live
  BY FailureTakesNothing DEF LeavesNothing
<1>6. \A x \in live' : \/ x \in live
                       \/ \E c \in nodeKeys' : x = <<"node_entry", "node_entry", c>>
                       \/ \E c \in nodes' : x = <<"node", "node", c>>
  <2>1. CASE live' = live
    BY <2>1
  <2>2. CASE live' = live \cup {entry} /\ nodeKeys' = nodeKeys \cup {s}
    BY <2>2
  <2>3. CASE live' = live \cup {entry, node} /\ nodeKeys' = nodeKeys \cup {s} /\ nodes' = nodes \cup {s}
    BY <2>3
  <2> QED
    BY <1>2, <1>5, <2>1, <2>2, <2>3
<1> QED
  BY <1>1, <1>3, <1>4, <1>6, WalkLeaves

LEMMA OnTimeoutLeaves ==
    ASSUME LeavesNothing, OnTimeout
    PROVE  LeavesNothing'
<1> DEFINE t == Now.of
           entry == <<"timer_entry", "timer_entry", t>>
           block == <<"timers", "timers", t>>
<1>1. UNCHANGED <<machine, pc, todo, held, nodeKeys, nodes>> /\ pc = "walk"
  BY DEF OnTimeout, Running
<1>2. \/ Obtain("timer_entry", t, FALSE) /\ UNCHANGED <<timerKeys, timers>>
      \/ UNCHANGED <<live, timerKeys, timers>>
      \/ live' = live \cup {entry} /\ timerKeys' = timerKeys \cup {t} /\ UNCHANGED timers
      \/ /\ timerKeys' = timerKeys \cup {t} /\ timers' = timers \cup {t}
         /\ \E n \in 0..Len(Handles) - 1 :
               live' = live \cup {entry, block}
                            \cup Blocks("binding_timer", First(Handles, n) \ TimerDestroy, t)
      \/ /\ timerKeys' = timerKeys \cup {t} /\ timers' = timers \cup {t}
         /\ live' = live \cup {entry, block} \cup Blocks("binding_timer", ToSet(Handles), t)
  BY DEF OnTimeout
<1>3. timerKeys \subseteq timerKeys' /\ timers \subseteq timers' /\ nodeKeys \subseteq nodeKeys' /\ nodes \subseteq nodes'
  BY <1>1, <1>2
<1>4. Obtain("timer_entry", t, FALSE) => live' = live
  BY FailureTakesNothing DEF LeavesNothing
<1>5. \A n \in 0..Len(Handles) - 1 : Blocks("binding_timer", First(Handles, n) \ TimerDestroy, t) = {}
  BY TimerTakesNothing DEF LeavesNothing
<1>6. Blocks("binding_timer", ToSet(Handles), t) = Blocks("binding_timer", TimerDestroy, t)
  BY DEF TimerDestroy
<1>7. \A x \in live' : \/ x \in live
                       \/ \E u \in timerKeys' : x = <<"timer_entry", "timer_entry", u>>
                       \/ \E u \in timers' : x = <<"timers", "timers", u>>
                       \/ \E u \in timers' : x \in Blocks("binding_timer", TimerDestroy, u)
  <2>1. CASE live' = live
    BY <2>1
  <2>2. CASE live' = live \cup {entry} /\ timerKeys' = timerKeys \cup {t}
    BY <2>2
  <2>3. ASSUME NEW n \in 0..Len(Handles) - 1, timerKeys' = timerKeys \cup {t}, timers' = timers \cup {t},
               live' = live \cup {entry, block} \cup Blocks("binding_timer", First(Handles, n) \ TimerDestroy, t)
        PROVE  live' = live \cup {entry, block}
    BY <1>5, <2>3
  <2>4. CASE live' = live \cup {entry, block} /\ timerKeys' = timerKeys \cup {t} /\ timers' = timers \cup {t}
    BY <2>4
  <2>5. CASE /\ live' = live \cup {entry, block} \cup Blocks("binding_timer", ToSet(Handles), t)
             /\ timerKeys' = timerKeys \cup {t} /\ timers' = timers \cup {t}
    BY <1>6, <2>5
  <2> QED
    BY <1>2, <1>4, <2>1, <2>2, <2>3, <2>4, <2>5
<1> QED
  BY <1>1, <1>3, <1>7, WalkLeaves

LEMMA WalksLeave ==
    ASSUME LeavesNothing, Walks
    PROVE  LeavesNothing'
<1>1. CASE EnterRoot
  BY <1>1, EnterLeaves DEF EnterRoot
<1>2. CASE SubNode
  BY <1>2, EnterLeaves DEF SubNode, Running
<1>3. CASE OnTimeout
  BY <1>3, OnTimeoutLeaves
<1>4. CASE SubNodeMixed \/ Default
  <2>1. /\ pc = "walk" /\ UNCHANGED <<machine, held, pc, todo, live, nodeKeys, nodes, timerKeys, timers>>
    BY <1>4 DEF SubNodeMixed, Default, Running
  <2> QED
    BY <2>1, WalkLeaves
<1>5. CASE Return
  <2>1. /\ pc = "walk" /\ UNCHANGED <<machine, held, live, nodeKeys, nodes, timerKeys, timers>>
    BY <1>5 DEF Return
  <2>2. (pc' \in {"walk", "queue"} /\ UNCHANGED todo) \/ Error
    BY <1>5 DEF Return, OrError, Continue
  <2> QED
    BY <2>1, <2>2, WalkLeaves
<1> QED
  BY <1>1, <1>2, <1>3, <1>4, <1>5 DEF Walks

LEMMA LeavesInitially == Init => LeavesNothing
<1> SUFFICES ASSUME Init PROVE LeavesNothing
  OBVIOUS
<1>1. KnownBuild
  BY CreationAssumption DEF Init, KnownBuild
<1>2. pc = "create" /\ todo = <<>> /\ held = {} /\ live = {}
  BY DEF Init
<1> QED
  BY <1>1, <1>2 DEF LeavesNothing, AllBelongs, InOrder, MapsThere, Before

LEMMA LeavesPreserved == LeavesNothing /\ [Next]_vars => LeavesNothing'
<1> SUFFICES ASSUME LeavesNothing, [Next]_vars PROVE LeavesNothing'
  OBVIOUS
<1>1. CASE UNCHANGED vars
  <2>1. /\ UNCHANGED <<binding, lockfree, pc, todo, live, held, nodeKeys, nodes, timerKeys, timers>>
    BY <1>1 DEF vars, machine, tree
  <2>2. ASSUME NEW x \in live PROVE Belongs(x)'
    BY <2>1, <2>2, BelongsStill DEF LeavesNothing, AllBelongs, Pending, Destroying
  <2>3. InOrder' /\ MapsThere' /\ KnownBuild'
    BY <2>1 DEF LeavesNothing, InOrder, MapsThere, KnownBuild, Stage, Pending, Destroying
  <2> QED
    BY <2>1, <2>2, <2>3 DEF LeavesNothing, AllBelongs
<1>2. CASE DestroySm
  <2>1. /\ UNCHANGED <<binding, lockfree, live, held, nodeKeys, nodes, timerKeys, timers>> /\ Error
    BY <1>2 DEF DestroySm, machine, tree
  <2>2. pc' = "destroy" /\ Stage(1)' /\ \A f \in Steps : Pending(f)'
    BY <2>1, ErrorBegins
  <2>3. ASSUME NEW x \in live PROVE Belongs(x)'
    BY <2>1, <2>2, <2>3, BelongsStill DEF LeavesNothing, AllBelongs, Steps
  <2> QED
    BY <2>1, <2>2, <2>3 DEF LeavesNothing, AllBelongs, InOrder, MapsThere, KnownBuild, Steps
<1> QED
  BY <1>1, <1>2, CreatesLeave, WalksLeave, DestroyFieldLeaves, DestroyTimersLeaves, DestroyNodesLeaves
     DEF Next, Destroys, Ended

\* Whatever fails during a creation, on any binding and in both builds, and after any
\* destruction, the binding has everything back (vivid_create_sm, vivid_destroy_sm).
THEOREM NothingIsLeft == Spec => []NothingLeft
<1>1. LeavesNothing => NothingLeft
  <2> SUFFICES ASSUME LeavesNothing, pc = "gone", NEW x \in live PROVE FALSE
    BY DEF NothingLeft
  <2>1. held = {}
    BY DEF LeavesNothing, InOrder, Pending, Destroying
  <2> QED
    BY <2>1 DEF LeavesNothing, AllBelongs, Belongs, OfField, OfNodeEntry, OfNode, OfTimerEntry, OfTimer
<1>2. Spec => []LeavesNothing
  BY LeavesInitially, LeavesPreserved, PTL DEF Spec
<1> QED
  BY <1>1, <1>2, PTL
--------------------------------------------------------------------------------
(* The walk through the state functions *)

WalkTypeOK ==
    /\ diagram \in [Function -> Seq(Clause)]
    /\ nodes \in SUBSET Function
    /\ calls \in Seq(Frame)
    /\ parent \in [Function -> Function \cup {Null}]
    /\ children \in [Function -> Seq(Function)]
    /\ default \in [Function -> Function \cup {Null}]
    /\ regions \in [Function -> BOOLEAN]
    /\ initError \in BOOLEAN
    /\ failures \in Nat

\* The clause that the frame d has come to
ClauseAt(d) == diagram[calls[d].node][calls[d].at]
\* The functions on the stack are nodes of their own, each called by a sub-state
\* clause of the one below.
WellStacked ==
    /\ \A d \in 1..Len(calls) :
          calls[d].node \in nodes /\ calls[d].at \in 1..Len(diagram[calls[d].node]) + 1
    /\ \A d, e \in 1..Len(calls) : calls[d].node = calls[e].node => d = e
    /\ \A d \in 1..Len(calls) - 1 :
          /\ calls[d].at <= Len(diagram[calls[d].node])
          /\ ClauseAt(d).is = "sub" /\ ClauseAt(d).of = calls[d + 1].node

\* The clauses that have run, and those that have been begun
OnStack(s) == \E d \in 1..Len(calls) : calls[d].node = s
Clausal(s, i) == s \in nodes /\ i \in 1..Len(diagram[s])
Done(s, i) ==
    /\ Clausal(s, i)
    /\ \A d \in 1..Len(calls) : calls[d].node = s => i < calls[d].at
Begun(s, i) ==
    /\ Clausal(s, i)
    /\ \A d \in 1..Len(calls) : calls[d].node = s =>
          i < calls[d].at \/ (i = calls[d].at /\ d < Len(calls))
Says(s, i, kind) == diagram[s][i].is = kind
Of(s, i) == diagram[s][i].of

\* Sub-states: every clause that was begun leads to a node of its own.
SubsKnown == \A s \in nodes : \A i \in 1..Len(diagram[s]) :
    Begun(s, i) /\ Says(s, i, "sub") => Of(s, i) \in nodes /\ Of(s, i) # Root
SubsOnce == \A s, t \in nodes : \A i \in 1..Len(diagram[s]), j \in 1..Len(diagram[t]) :
    Begun(s, i) /\ Begun(t, j) /\ Says(s, i, "sub") /\ Says(t, j, "sub") /\ Of(s, i) = Of(t, j)
        => s = t /\ i = j
NodesCome == \A x \in nodes : x # Root =>
    \E s \in nodes : \E i \in 1..Len(diagram[s]) : Begun(s, i) /\ Says(s, i, "sub") /\ Of(s, i) = x

\* Timeouts
TimersKnown == \A s \in nodes : \A i \in 1..Len(diagram[s]) :
    Done(s, i) /\ Says(s, i, "timeout") => Of(s, i) \in timers
TimersOnce == \A s, t \in nodes : \A i \in 1..Len(diagram[s]), j \in 1..Len(diagram[t]) :
    Done(s, i) /\ Done(t, j) /\ Says(s, i, "timeout") /\ Says(t, j, "timeout") /\ Of(s, i) = Of(t, j)
        => s = t /\ i = j
TimersCome == \A u \in timers :
    \E s \in nodes : \E i \in 1..Len(diagram[s]) : Done(s, i) /\ Says(s, i, "timeout") /\ Of(s, i) = u
TimersWhole == \A u \in timers : Blocks("binding_timer", ToSet(Handles), u) \subseteq live

\* The links of the tree
Alike == \A s \in nodes : \A i \in 1..Len(diagram[s]) :
    Done(s, i) /\ Says(s, i, "sub") => diagram[s][i].region = regions[s]
RegionsHaveChildren == \A s \in Function : regions[s] => children[s] # <<>>
ChildrenAll == \A s \in nodes : \A i \in 1..Len(diagram[s]) :
    Done(s, i) /\ Says(s, i, "sub") => \E k \in 1..Len(children[s]) : children[s][k] = Of(s, i)
ChildrenOnly == \A s \in Function : \A k \in 1..Len(children[s]) :
    \E i \in 1..Len(diagram[s]) : Done(s, i) /\ Says(s, i, "sub") /\ Of(s, i) = children[s][k]
ChildrenOrder == \A s \in Function : \A k, l \in 1..Len(children[s]) : k < l =>
    \A i, j \in 1..Len(diagram[s]) :
        Done(s, i) /\ Done(s, j) /\ Says(s, i, "sub") /\ Says(s, j, "sub")
            /\ Of(s, i) = children[s][k] /\ Of(s, j) = children[s][l] => j < i
ParentsDone == \A s \in nodes : \A i \in 1..Len(diagram[s]) :
    Done(s, i) /\ Says(s, i, "sub") => parent[Of(s, i)] = s
\* A clause that waits for its sub-state was no mixture when it was begun, and is none.
NotMixed == \A d \in 1..Len(calls) - 1 :
    IF ClauseAt(d).region THEN children[calls[d].node] # <<>> => regions[calls[d].node]
    ELSE ~regions[calls[d].node]

\* Defaults
DefaultsDone == \A s \in nodes : \A i \in 1..Len(diagram[s]) :
    Done(s, i) /\ Says(s, i, "default") => default[s] = Of(s, i)
DefaultsOnce == \A s \in nodes : \A i, j \in 1..Len(diagram[s]) :
    Done(s, i) /\ Done(s, j) /\ Says(s, i, "default") /\ Says(s, j, "default") => i = j
DefaultsCome == \A s \in Function : default[s] # Null =>
    \E i \in 1..Len(diagram[s]) : Done(s, i) /\ Says(s, i, "default")
DefaultsThere == \A s \in nodes : ~OnStack(s) => ~NoDefault(s)

Good ==
    /\ SubsKnown /\ SubsOnce /\ NodesCome
    /\ TimersKnown /\ TimersOnce /\ TimersCome /\ TimersWhole
    /\ Alike /\ RegionsHaveChildren /\ ChildrenAll /\ ChildrenOnly /\ ChildrenOrder
    /\ ParentsDone /\ NotMixed
    /\ DefaultsDone /\ DefaultsOnce /\ DefaultsCome /\ DefaultsThere
    /\ failures = 0

\* What a refusal is blamed on
Blamed == failures > 0 \/ ~(Sound /\ DefaultBelow)

\* Before the walk nothing is known, and what has failed will be seen.
BeforeWalk == {"create", "event", "node_map", "timer_map", "log", "uml", "mutex", "root"}
Untouched ==
    /\ nodes = {} /\ timers = {} /\ calls = <<>> /\ initError = FALSE
    /\ children = [s \in Function |-> <<>>] /\ default = [s \in Function |-> Null]
    /\ regions = [s \in Function |-> FALSE]
    /\ pc = "node_map" => (failures = 0 <=> "binding_event" \in held)
    /\ pc = "timer_map" => (failures = 0 <=> {"binding_event", "node_map"} \subseteq held)
    /\ pc \notin {"node_map", "timer_map"} => failures = 0
    /\ pc = "event" => held \subseteq {"sm"}
    /\ pc = "node_map" => held \subseteq {"sm", "binding_event"}
    /\ pc = "timer_map" => held \subseteq {"sm", "binding_event", "node_map"}

WalkedOn ==
    /\ pc \in BeforeWalk => Untouched
    /\ pc = "walk" => calls # <<>> /\ Root \in nodes
    /\ pc = "walk" /\ ~initError => Good
    /\ pc \in {"queue", "created"} => calls = <<>> /\ Root \in nodes /\ Good
    /\ pc = "walk" /\ initError => Blamed
    /\ pc = "created" => "event_queue" \in held
    /\ Refused => Blamed

WalkInvariant ==
    /\ WalkTypeOK /\ WellStacked /\ nodes \subseteq Declared /\ WalkedOn
--------------------------------------------------------------------------------
(* The stack of calls *)

LEMMA FramesAre ==
    ASSUME NEW s \in Seq(Frame), NEW d \in 1..Len(s)
    PROVE  /\ s[d] \in Frame /\ s[d].node \in Function /\ s[d].at \in Nat
           /\ Len(s) \in Nat
<1>1. s[d] \in Frame
  OBVIOUS
<1> QED
  BY <1>1 DEF Frame

LEMMA Lengths ==
    ASSUME WalkTypeOK, NEW s \in Function
    PROVE  /\ diagram[s] \in Seq(Clause) /\ Len(diagram[s]) \in Nat
           /\ \A i \in 1..Len(diagram[s]) : diagram[s][i] \in Clause
BY DEF WalkTypeOK

\* The next clause of the topmost frame
LEMMA StepFrames ==
    ASSUME NEW s \in Seq(Frame), s # <<>>
    PROVE  /\ Step(s) \in Seq(Frame) /\ Len(Step(s)) = Len(s) /\ Len(s) \in 1..Len(s)
           /\ \A d \in 1..Len(s) : /\ Step(s)[d].node = s[d].node
                                   /\ Step(s)[d].at = IF d = Len(s) THEN s[d].at + 1 ELSE s[d].at
<1> DEFINE n == Len(s)
<1>1. n \in 1..n /\ DOMAIN s = 1..n /\ n \in Nat
  OBVIOUS
<1>2. s[n] \in Frame /\ s[n].at \in Nat /\ s[n].node \in Function
  BY <1>1, FramesAre
<1>3. PICK a \in Function, b \in Nat : s[n] = [node |-> a, at |-> b]
  BY <1>2 DEF Frame
<1> DEFINE top == [node |-> a, at |-> b + 1]
<1>4. top \in Frame /\ top.node = s[n].node /\ top.at = s[n].at + 1 /\ top = [s[n] EXCEPT !.at = @ + 1]
  BY <1>3 DEF Frame
<1> HIDE DEF top
<1>5. Step(s) = [s EXCEPT ![n] = top]
  BY <1>4 DEF Step
<1>6. [s EXCEPT ![n] = top] \in Seq(Frame) /\ Len([s EXCEPT ![n] = top]) = n
  BY <1>1, <1>4
<1>7. \A d \in 1..n : [s EXCEPT ![n] = top][d] = IF d = n THEN top ELSE s[d]
  BY <1>1
<1> QED
  BY <1>1, <1>4, <1>5, <1>6, <1>7

LEMMA AppendFrames ==
    ASSUME NEW s \in Seq(Frame), NEW x \in Function
    PROVE  /\ Append(s, [node |-> x, at |-> 1]) \in Seq(Frame)
           /\ Len(Append(s, [node |-> x, at |-> 1])) = Len(s) + 1
           /\ \A d \in 1..Len(s) + 1 :
                 /\ Append(s, [node |-> x, at |-> 1])[d].node = IF d = Len(s) + 1 THEN x ELSE s[d].node
                 /\ Append(s, [node |-> x, at |-> 1])[d].at = IF d = Len(s) + 1 THEN 1 ELSE s[d].at
<1> DEFINE top == [node |-> x, at |-> 1]
<1>1. top \in Frame /\ top.node = x /\ top.at = 1
  BY DEF Frame
<1> HIDE DEF top
<1>2. Append(s, top) \in Seq(Frame) /\ Len(Append(s, top)) = Len(s) + 1
  BY <1>1
<1>3. \A d \in 1..Len(s) + 1 : Append(s, top)[d] = IF d = Len(s) + 1 THEN top ELSE s[d]
  OBVIOUS
<1> QED
  BY <1>1, <1>2, <1>3 DEF top

LEMMA FrontFrames ==
    ASSUME NEW s \in Seq(Frame), s # <<>>
    PROVE  /\ Front(s) \in Seq(Frame) /\ Len(Front(s)) = Len(s) - 1
           /\ \A d \in 1..Len(s) - 1 : Front(s)[d] = s[d]
           /\ Front(s) = <<>> <=> Len(s) = 1
<1>1. Front(s) \in Seq(Frame) /\ Len(Front(s)) = Len(s) - 1 /\ \A d \in 1..Len(s) - 1 : Front(s)[d] = s[d]
  <2>1. Len(s) \in Nat /\ Len(s) > 0 /\ Front(s) = SubSeq(s, 1, Len(s) - 1)
    BY DEF Front
  <2>2. PICK n \in Nat : n = Len(s) - 1
    BY <2>1
  <2>3. \A i \in 1..n : s[i] \in Frame
    BY <2>1, <2>2
  <2>4. SubSeq(s, 1, n) \in Seq(Frame)
    BY <2>3
  <2>5. Len(SubSeq(s, 1, n)) = n /\ \A d \in 1..n : SubSeq(s, 1, n)[d] = s[d]
    BY <2>1, <2>2
  <2> QED
    BY <2>1, <2>2, <2>4, <2>5
<1>2. Front(s) = <<>> <=> Len(s) = 1
  BY <1>1
<1> QED
  BY <1>1, <1>2
--------------------------------------------------------------------------------
(* What has run after each kind of step *)

\* What the frames at the top say
LEMMA TopFrame ==
    ASSUME WalkTypeOK, WellStacked, calls # <<>>
    PROVE  /\ Len(calls) \in 1..Len(calls) /\ Len(calls) \in Nat
           /\ Caller = calls[Len(calls)].node /\ Caller \in nodes /\ Caller \in Function
           /\ Last(calls).at = calls[Len(calls)].at /\ calls[Len(calls)].at \in Nat
           /\ calls[Len(calls)].at \in 1..Len(diagram[Caller]) + 1
           /\ Len(diagram[Caller]) \in Nat
<1>1. calls \in Seq(Frame) /\ Len(calls) \in 1..Len(calls) /\ Len(calls) \in Nat
  BY DEF WalkTypeOK
<1>2. Caller = calls[Len(calls)].node /\ Last(calls).at = calls[Len(calls)].at
  BY DEF Caller, Last
<1>3. Caller \in nodes /\ calls[Len(calls)].at \in 1..Len(diagram[Caller]) + 1
  BY <1>1, <1>2 DEF WellStacked
<1>4. Caller \in Function /\ calls[Len(calls)].at \in Nat
  BY <1>1, <1>2, FramesAre
<1>5. Len(diagram[Caller]) \in Nat
  BY <1>4, Lengths
<1> QED
  BY <1>1, <1>2, <1>3, <1>4, <1>5

\* A clause that calls nothing: the frame at the top has run it.
LEMMA ClauseRun ==
    ASSUME WalkTypeOK, WellStacked, calls # <<>>, Last(calls).at <= Len(diagram[Caller]),
           calls' = Step(calls), UNCHANGED <<diagram, nodes>>
    PROVE  /\ calls' \in Seq(Frame) /\ calls' # <<>> /\ WellStacked'
           /\ Clausal(Caller, Last(calls).at) /\ ~Begun(Caller, Last(calls).at) /\ ~Done(Caller, Last(calls).at)
           /\ \A s, i : Done(s, i)' <=> Done(s, i) \/ (s = Caller /\ i = Last(calls).at)
           /\ \A s, i : Begun(s, i)' <=> Begun(s, i) \/ (s = Caller /\ i = Last(calls).at)
           /\ \A s : OnStack(s)' <=> OnStack(s)
           /\ Len(calls') = Len(calls)
           /\ \A d \in 1..Len(calls) - 1 : ClauseAt(d)' = ClauseAt(d) /\ calls'[d].node = calls[d].node
<1> DEFINE n == Len(calls)
           a == calls[n].at
<1>1. /\ n \in 1..n /\ n \in Nat /\ Caller = calls[n].node /\ Last(calls).at = a /\ a \in Nat
      /\ Caller \in nodes /\ a \in 1..Len(diagram[Caller]) /\ Len(diagram[Caller]) \in Nat
  BY TopFrame
<1>2. /\ calls' \in Seq(Frame) /\ Len(calls') = n
      /\ \A d \in 1..n : /\ calls'[d].node = calls[d].node
                         /\ calls'[d].at = IF d = n THEN a + 1 ELSE calls[d].at
  <2>1. calls \in Seq(Frame)
    BY DEF WalkTypeOK
  <2> QED
    BY <2>1, StepFrames
<1>3. \A d \in 1..n : calls[d].at \in Nat
  BY FramesAre DEF WalkTypeOK
<1>4. \A d \in 1..n : calls[d].node = Caller <=> d = n
  BY <1>1 DEF WellStacked
<1>5. Clausal(Caller, a) /\ ~Begun(Caller, a) /\ ~Done(Caller, a)
  BY <1>1 DEF Clausal, Begun, Done
<1>6. ASSUME NEW s, NEW i PROVE Clausal(s, i)' <=> Clausal(s, i)
  BY DEF Clausal
<1>7. ASSUME NEW s, NEW i PROVE Done(s, i)' <=> Done(s, i) \/ (s = Caller /\ i = a)
  <2>1. CASE s = Caller
    <3>1. Done(s, i) <=> Clausal(s, i) /\ i < a
      BY <1>1, <1>4, <2>1 DEF Done
    <3>2. Done(s, i)' <=> Clausal(s, i) /\ i < a + 1
      BY <1>1, <1>2, <1>4, <1>6, <2>1, SMTT(30) DEF Done
    <3>3. Clausal(s, i) => i \in Nat
      BY <1>1, <2>1 DEF Clausal
    <3> QED
      BY <1>1, <1>5, <2>1, <3>1, <3>2, <3>3
  <2>2. CASE s # Caller
    BY <1>1, <1>2, <1>6, <2>2, SMTT(30) DEF Done
  <2> QED
    BY <2>1, <2>2
<1>8. ASSUME NEW s, NEW i PROVE Begun(s, i)' <=> Begun(s, i) \/ (s = Caller /\ i = a)
  <2>1. CASE s = Caller
    <3>1. Begun(s, i) <=> Clausal(s, i) /\ i < a
      BY <1>1, <1>4, <2>1 DEF Begun
    <3>2. Begun(s, i)' <=> Clausal(s, i) /\ i < a + 1
      BY <1>1, <1>2, <1>4, <1>6, <2>1 DEF Begun
    <3>3. Clausal(s, i) => i \in Nat
      BY <1>1, <2>1 DEF Clausal
    <3> QED
      BY <1>1, <1>5, <2>1, <3>1, <3>2, <3>3
  <2>2. CASE s # Caller
    BY <1>1, <1>2, <1>6, <2>2, SMTT(30) DEF Begun
  <2> QED
    BY <2>1, <2>2
<1>9. \A d \in 1..n - 1 : d \in 1..n /\ d + 1 \in 1..n /\ d # n
  BY <1>1
<1>10. \A d \in 1..n - 1 : ClauseAt(d)' = ClauseAt(d) /\ calls'[d].node = calls[d].node
  BY <1>2, <1>9 DEF ClauseAt
<1>11. WellStacked'
  <2>1. \A d \in 1..n : calls'[d].node \in nodes /\ calls'[d].at \in 1..Len(diagram[calls'[d].node]) + 1
    <3>1. ASSUME NEW d \in 1..n
          PROVE  calls'[d].node \in nodes /\ calls'[d].at \in 1..Len(diagram[calls'[d].node]) + 1
      <4>1. calls[d].node \in nodes /\ calls[d].at \in 1..Len(diagram[calls[d].node]) + 1
        BY DEF WellStacked
      <4>2. calls'[d].node = calls[d].node
        BY <1>2
      <4>3. CASE d = n
        BY <1>1, <1>2, <4>1, <4>2, <4>3
      <4>4. CASE d # n
        BY <1>2, <4>1, <4>2, <4>4
      <4> QED
        BY <4>3, <4>4
    <3> QED
      BY <3>1
  <2>2. \A d, e \in 1..n : calls'[d].node = calls'[e].node => d = e
    BY <1>2 DEF WellStacked
  <2>3. ASSUME NEW d \in 1..n - 1
        PROVE  /\ calls'[d].at <= Len(diagram[calls'[d].node])
               /\ ClauseAt(d)'.is = "sub" /\ ClauseAt(d)'.of = calls'[d + 1].node
    <3>1. /\ calls[d].at <= Len(diagram[calls[d].node])
          /\ ClauseAt(d).is = "sub" /\ ClauseAt(d).of = calls[d + 1].node
      BY DEF WellStacked
    <3>2. calls'[d].at = calls[d].at /\ calls'[d].node = calls[d].node /\ calls'[d + 1].node = calls[d + 1].node
      BY <1>2, <1>9
    <3> QED
      BY <1>10, <3>1, <3>2
  <2> QED
    BY <1>2, <2>1, <2>2, <2>3 DEF WellStacked
<1>12. \A s : OnStack(s)' <=> OnStack(s)
  BY <1>2 DEF OnStack
<1>13. calls' # <<>>
  BY <1>1, <1>2
<1> QED
  BY <1>1, <1>2, <1>5, <1>7, <1>8, <1>10, <1>11, <1>12, <1>13

\* A sub-state clause calls the function of a new node.
LEMMA FunctionCalled ==
    ASSUME WalkTypeOK, WellStacked, calls # <<>>, Last(calls).at <= Len(diagram[Caller]),
           Now.is = "sub", NEW x \in Function, x = Now.of, x \notin nodes,
           calls' = Append(calls, [node |-> x, at |-> 1]), nodes' = nodes \cup {x}, UNCHANGED diagram
    PROVE  /\ calls' \in Seq(Frame) /\ calls' # <<>> /\ WellStacked'
           /\ Clausal(Caller, Last(calls).at) /\ ~Begun(Caller, Last(calls).at)
           /\ \A s, i : Done(s, i)' <=> Done(s, i)
           /\ \A s, i : Begun(s, i)' <=> Begun(s, i) \/ (s = Caller /\ i = Last(calls).at)
           /\ \A s : OnStack(s)' <=> OnStack(s) \/ s = x
           /\ Len(calls') = Len(calls) + 1
           /\ \A d \in 1..Len(calls) : ClauseAt(d)' = ClauseAt(d) /\ calls'[d].node = calls[d].node
<1> DEFINE n == Len(calls)
           a == calls[n].at
<1>1. /\ n \in 1..n /\ n \in Nat /\ Caller = calls[n].node /\ Last(calls).at = a /\ a \in Nat
      /\ Caller \in nodes /\ a \in 1..Len(diagram[Caller]) /\ Len(diagram[Caller]) \in Nat
  BY TopFrame
<1>2. /\ calls' \in Seq(Frame) /\ Len(calls') = n + 1
      /\ \A d \in 1..n + 1 : /\ calls'[d].node = IF d = n + 1 THEN x ELSE calls[d].node
                             /\ calls'[d].at = IF d = n + 1 THEN 1 ELSE calls[d].at
  <2>1. calls \in Seq(Frame)
    BY DEF WalkTypeOK
  <2> QED
    BY <2>1, AppendFrames
<1>3. \A d \in 1..n : calls[d].at \in Nat /\ calls[d].node \in nodes /\ calls[d].node # x
                      /\ d \in 1..n + 1 /\ d # n + 1
  BY <1>1, FramesAre, SMTT(30) DEF WalkTypeOK, WellStacked
<1>4. \A d \in 1..n : calls[d].node = Caller <=> d = n
  BY <1>1 DEF WellStacked
<1>5. Clausal(Caller, a) /\ ~Begun(Caller, a)
  BY <1>1 DEF Clausal, Begun
<1>6. Len(diagram[x]) \in Nat
  BY Lengths
<1>7. \A d \in 1..n + 1 : d \in 1..n \/ d = n + 1
  BY <1>1
<1>8. ASSUME NEW s, NEW i PROVE Done(s, i)' <=> Done(s, i)
  <2>1. CASE s = x
    <3>1. ~Done(s, i)
      BY <2>1 DEF Done, Clausal
    <3>2. Clausal(s, i)' => i >= 1
      BY <1>6, <2>1 DEF Clausal
    <3>3. n + 1 \in 1..n + 1 /\ calls'[n + 1].node = s /\ calls'[n + 1].at = 1
      BY <1>1, <1>2, <2>1
    <3>4. Done(s, i)' => Clausal(s, i)' /\ i < calls'[n + 1].at
      BY <1>2, <3>3 DEF Done
    <3>5. Clausal(s, i)' => i \in Nat
      BY <1>6, <2>1 DEF Clausal
    <3> QED
      BY <3>1, <3>2, <3>3, <3>4, <3>5
  <2>2. CASE s # x
    <3>1. Clausal(s, i)' <=> Clausal(s, i)
      BY <2>2 DEF Clausal
    <3>2. \A d \in 1..n + 1 : calls'[d].node = s <=> d \in 1..n /\ calls[d].node = s
      BY <1>2, <1>3, <1>7, <2>2
    <3>3. \A d \in 1..n : calls'[d].at = calls[d].at
      BY <1>2, <1>3
    <3> QED
      BY <1>2, <1>3, <3>1, <3>2, <3>3 DEF Done
  <2> QED
    BY <2>1, <2>2
<1>9. ASSUME NEW s, NEW i PROVE Begun(s, i)' <=> Begun(s, i) \/ (s = Caller /\ i = a)
  <2>1. CASE s = x
    <3>1. ~Begun(s, i) /\ s # Caller
      BY <1>1, <2>1 DEF Begun, Clausal
    <3>2. Clausal(s, i)' => i \in Nat /\ i >= 1
      BY <1>6, <2>1 DEF Clausal
    <3>3. n + 1 \in 1..n + 1 /\ calls'[n + 1].node = s /\ calls'[n + 1].at = 1
      BY <1>1, <1>2, <2>1
    <3>4. Begun(s, i)' => Clausal(s, i)' /\ i < 1
      BY <1>1, <1>2, <3>3 DEF Begun
    <3> QED
      BY <3>1, <3>2, <3>4
  <2>2. CASE s # x /\ s # Caller
    <3>1. Clausal(s, i)' <=> Clausal(s, i)
      BY <2>2 DEF Clausal
    <3>2. \A d \in 1..n + 1 : calls'[d].node = s <=> d \in 1..n - 1 /\ calls[d].node = s
      BY <1>1, <1>2, <1>3, <1>4, <1>7, <2>2
    <3>3. \A d \in 1..n - 1 : calls'[d].at = calls[d].at /\ d < n /\ d < n + 1 /\ d \in 1..n
      BY <1>1, <1>2, <1>3
    <3>4. Begun(s, i) <=> Clausal(s, i) /\ \A d \in 1..n - 1 : calls[d].node = s => i < calls[d].at \/ i = calls[d].at
      BY <1>1, <1>4, <2>2, <3>3, SMTT(30) DEF Begun
    <3>5. Begun(s, i)' <=> Clausal(s, i) /\ \A d \in 1..n - 1 : calls[d].node = s => i < calls[d].at \/ i = calls[d].at
      BY <1>1, <1>2, <3>1, <3>2, <3>3 DEF Begun
    <3> QED
      BY <2>2, <3>4, <3>5
  <2>3. CASE s = Caller
    <3>1. Clausal(s, i)' <=> Clausal(s, i)
      BY <1>1, <2>3 DEF Clausal
    <3>2. Clausal(s, i) => i \in Nat
      BY <1>1, <2>3 DEF Clausal
    <3>3. Begun(s, i) <=> Clausal(s, i) /\ i < a
      BY <1>1, <1>4, <2>3 DEF Begun
    <3>4. \A d \in 1..n + 1 : calls'[d].node = s <=> d = n
      BY <1>1, <1>2, <1>3, <1>4, <1>7, <2>3
    <3>5. calls'[n].at = a /\ n \in 1..n + 1 /\ n < n + 1
      BY <1>1, <1>2, <1>3
    <3>6. Begun(s, i)' <=> Clausal(s, i) /\ (i < a \/ i = a)
      BY <1>2, <3>1, <3>4, <3>5 DEF Begun
    <3> QED
      BY <1>5, <2>3, <3>2, <3>3, <3>6
  <2> QED
    BY <2>1, <2>2, <2>3
<1>10. \A d \in 1..n : ClauseAt(d)' = ClauseAt(d) /\ calls'[d].node = calls[d].node
  BY <1>2, <1>3 DEF ClauseAt
<1>11. WellStacked'
  <2>1. \A d \in 1..n + 1 : calls'[d].node \in nodes' /\ calls'[d].at \in 1..Len(diagram[calls'[d].node]) + 1
    <3>1. 1 \in 1..Len(diagram[x]) + 1
      BY <1>6
    <3> QED
      BY <1>2, <1>3, <1>7, <3>1 DEF WellStacked
  <2>2. \A d, e \in 1..n + 1 : calls'[d].node = calls'[e].node => d = e
    BY <1>2, <1>3, <1>7 DEF WellStacked
  <2>3. \A d \in 1..n : /\ calls'[d].at <= Len(diagram[calls'[d].node])
                        /\ ClauseAt(d)'.is = "sub" /\ ClauseAt(d)'.of = calls'[d + 1].node
    <3>1. ClauseAt(n) = Now
      BY <1>1 DEF ClauseAt, Now, Clauses
    <3>2. \A d \in 1..n : d = n \/ (d \in 1..n - 1 /\ d + 1 \in 1..n)
      BY <1>1
    <3>3. \A d \in 1..n : d # n => calls'[d + 1].node = calls[d + 1].node
      BY <1>2, <1>3, <3>2
    <3>4. calls'[n + 1].node = x
      BY <1>1, <1>2
    <3> QED
      BY <1>1, <1>2, <1>3, <1>10, <3>1, <3>2, <3>3, <3>4, SMTT(30) DEF WellStacked
  <2> QED
    BY <1>1, <1>2, <2>1, <2>2, <2>3, SMTT(30) DEF WellStacked
<1>12. \A s : OnStack(s)' <=> OnStack(s) \/ s = x
  BY <1>1, <1>2, <1>3, <1>7 DEF OnStack
<1>13. calls' # <<>>
  BY <1>1, <1>2
<1> QED
  BY <1>1, <1>2, <1>5, <1>8, <1>9, <1>10, <1>11, <1>12, <1>13

\* The function that has called the one at the top, and its clause that has
Above == calls[Len(calls) - 1].node
Waiting == calls[Len(calls) - 1].at

\* A function has run through all its clauses: the clause that called it is done.
LEMMA FunctionReturns ==
    ASSUME WalkTypeOK, WellStacked, calls # <<>>, Last(calls).at > Len(diagram[Caller]),
           Len(calls) > 1, calls' = Step(Front(calls)), UNCHANGED <<diagram, nodes>>
    PROVE  /\ calls' \in Seq(Frame) /\ calls' # <<>> /\ WellStacked'
           /\ Begun(Above, Waiting) /\ ~Done(Above, Waiting) /\ Above # Caller /\ Above \in Function /\ Above \in nodes
           /\ Waiting \in 1..Len(diagram[Above])
           /\ Len(calls) - 1 \in 1..Len(calls) - 1
           /\ diagram[Above][Waiting].is = "sub" /\ diagram[Above][Waiting].of = Caller
           /\ \A s, i : Done(s, i)' <=> Done(s, i) \/ (s = Above /\ i = Waiting)
           /\ \A s, i : Begun(s, i)' <=> Begun(s, i)
           /\ \A s : OnStack(s)' <=> OnStack(s) /\ s # Caller
           /\ Len(calls') = Len(calls) - 1
           /\ \A d \in 1..Len(calls') - 1 :
                 ClauseAt(d)' = ClauseAt(d) /\ calls'[d].node = calls[d].node /\ d \in 1..Len(calls) - 1
<1> DEFINE n == Len(calls)
           a == calls[n].at
           m == n - 1
           p == Above
           b == Waiting
<1>1. /\ n \in 1..n /\ n \in Nat /\ Caller = calls[n].node /\ Last(calls).at = a /\ a \in Nat
      /\ Caller \in nodes /\ a = Len(diagram[Caller]) + 1 /\ Len(diagram[Caller]) \in Nat
      /\ m \in 1..n /\ m \in 1..m /\ m \in Nat /\ m # n /\ m + 1 = n
      /\ p = calls[m].node /\ b = calls[m].at
  <2>1. /\ n \in 1..n /\ n \in Nat /\ Caller = calls[n].node /\ Last(calls).at = a /\ a \in Nat
        /\ Caller \in nodes /\ a \in 1..Len(diagram[Caller]) + 1 /\ Len(diagram[Caller]) \in Nat
    BY TopFrame
  <2>2. m \in 1..n /\ m \in 1..m /\ m \in Nat /\ m # n /\ m + 1 = n
    BY <2>1
  <2>3. a = Len(diagram[Caller]) + 1
    BY <2>1
  <2>4. p = calls[m].node /\ b = calls[m].at
    BY DEF Above, Waiting
  <2> HIDE DEF n, a, m, p, b
  <2> QED
    BY <2>1, <2>2, <2>3, <2>4
<1> HIDE DEF p, b
<1>2. /\ Front(calls) \in Seq(Frame) /\ Len(Front(calls)) = m /\ Front(calls) # <<>>
      /\ \A d \in 1..m : Front(calls)[d] = calls[d]
  BY FrontFrames DEF WalkTypeOK
<1>3. /\ calls' \in Seq(Frame) /\ Len(calls') = m
      /\ \A d \in 1..m : /\ calls'[d].node = calls[d].node
                         /\ calls'[d].at = IF d = m THEN b + 1 ELSE calls[d].at
  <2>1. PICK f \in Seq(Frame) : f = Front(calls)
    BY <1>2
  <2>2. /\ Step(f) \in Seq(Frame) /\ Len(Step(f)) = Len(f)
        /\ \A d \in 1..Len(f) : /\ Step(f)[d].node = f[d].node
                                /\ Step(f)[d].at = IF d = Len(f) THEN f[d].at + 1 ELSE f[d].at
    BY <1>2, <2>1, StepFrames
  <2>3. calls' = Step(f) /\ Len(f) = m /\ \A d \in 1..m : f[d] = calls[d]
    BY <1>2, <2>1
  <2> HIDE DEF m
  <2> QED
    BY <1>1, <2>2, <2>3
<1>0. n = Len(calls) /\ n \in Nat /\ m \in Nat /\ n = m + 1 /\ m >= 1 /\ Len(calls') = m
  <2>1. n = Len(calls) /\ Len(calls') = m
    BY <1>3
  <2> HIDE DEF n, m
  <2> QED
    BY <1>1, <2>1
<1>a. a = calls[n].at
  OBVIOUS
<1> HIDE DEF n, m, a
<1>4. \A d \in 1..n : calls[d].at \in Nat /\ calls[d].node \in Function
  BY <1>0, FramesAre DEF WalkTypeOK
<1>5. \A d \in 1..n : (calls[d].node = Caller <=> d = n) /\ (calls[d].node = p <=> d = m)
  BY <1>0, <1>1 DEF WellStacked
<1>6. p # Caller /\ p \in nodes /\ p \in Function /\ b \in Nat
  BY <1>0, <1>1, <1>4, <1>5 DEF WellStacked
<1>7. Len(diagram[p]) \in Nat
  BY <1>6, Lengths
<1>8. b \in 1..Len(diagram[p]) /\ diagram[p][b].is = "sub" /\ diagram[p][b].of = Caller
  <2>1. m \in 1..Len(calls) - 1
    BY <1>0
  <2> QED
    <3>1. /\ calls[m].at <= Len(diagram[calls[m].node])
          /\ ClauseAt(m).is = "sub" /\ ClauseAt(m).of = calls[m + 1].node
      BY <2>1 DEF WellStacked
    <3>2. ClauseAt(m) = diagram[p][b]
      BY <1>1 DEF ClauseAt
    <3>3. calls[m].at \in 1..Len(diagram[calls[m].node]) + 1
      BY <1>0, <1>1 DEF WellStacked
    <3> QED
      BY <1>0, <1>1, <1>6, <1>7, <3>1, <3>2, <3>3
<1>9. Clausal(p, b) /\ Begun(p, b) /\ ~Done(p, b)
  <2>1. Clausal(p, b)
    BY <1>6, <1>8 DEF Clausal
  <2>2. Begun(p, b)
    BY <1>0, <1>1, <1>5, <2>1 DEF Begun
  <2>3. ~Done(p, b)
    BY <1>0, <1>1, <1>6 DEF Done
  <2> QED
    BY <2>1, <2>2, <2>3
<1>10. ASSUME NEW s, NEW i PROVE (Clausal(s, i)' <=> Clausal(s, i)) /\ (Clausal(s, i) => i \in Nat)
  <2>1. s \in nodes => Len(diagram[s]) \in Nat
    BY Lengths DEF WalkTypeOK
  <2> QED
    BY <2>1 DEF Clausal
<1>11. \A d \in 1..n : d \in 1..m \/ d = n
  BY <1>0, <1>1
<1>12. \A d \in 1..m : d \in 1..n /\ d # n
  BY <1>0, <1>1
<1>13. ASSUME NEW s, NEW i PROVE Done(s, i)' <=> Done(s, i) \/ (s = p /\ i = b)
  <2>1. CASE s = p
    <3>1. Done(s, i) <=> Clausal(s, i) /\ i < b
      BY <1>0, <1>1, <1>5, <2>1 DEF Done
    <3>2. Done(s, i)' <=> Clausal(s, i) /\ i < b + 1
      BY <1>0, <1>1, <1>3, <1>5, <1>12, <1>10, <2>1 DEF Done
    <3> QED
      BY <1>6, <1>9, <1>10, <2>1, <3>1, <3>2
  <2>2. CASE s = Caller
    <3>1. Clausal(s, i) => i < a
      BY <1>0, <1>1, <2>2 DEF Clausal
    <3>2. Done(s, i) <=> Clausal(s, i)
      BY <1>0, <1>1, <1>a, <1>5, <2>2, <3>1 DEF Done
    <3>3. \A d \in 1..m : calls'[d].node # s
      BY <1>0, <1>3, <1>5, <1>12, <2>2
    <3>4. Done(s, i)' <=> Clausal(s, i)
      BY <1>0, <1>3, <1>10, <3>3 DEF Done
    <3> QED
      BY <1>6, <2>2, <3>2, <3>4
  <2>3. CASE s # p /\ s # Caller
    <3>1. \A d \in 1..m : calls'[d].node = s <=> calls[d].node = s
      BY <1>0, <1>3
    <3>2. \A d \in 1..m : calls[d].node = s => calls'[d].at = calls[d].at
      BY <1>0, <1>3, <1>5, <1>12, <2>3
    <3>3. Done(s, i) <=> Clausal(s, i) /\ \A d \in 1..m : calls[d].node = s => i < calls[d].at
      BY <1>0, <1>1, <1>11, <1>12, <2>3 DEF Done
    <3>4. Done(s, i)' <=> Clausal(s, i) /\ \A d \in 1..m : calls[d].node = s => i < calls[d].at
      BY <1>0, <1>3, <1>10, <3>1, <3>2 DEF Done
    <3> QED
      BY <2>3, <3>3, <3>4
  <2> QED
    BY <2>1, <2>2, <2>3
<1>14. ASSUME NEW s, NEW i PROVE Begun(s, i)' <=> Begun(s, i)
  <2>1. CASE s = p
    <3>1. Begun(s, i) <=> Clausal(s, i) /\ (i < b \/ i = b)
      BY <1>0, <1>1, <1>5, <2>1 DEF Begun
    <3>2. Begun(s, i)' <=> Clausal(s, i) /\ i < b + 1
      BY <1>0, <1>1, <1>3, <1>5, <1>12, <1>10, <2>1 DEF Begun
    <3> QED
      BY <1>6, <1>10, <3>1, <3>2
  <2>2. CASE s = Caller
    <3>1. Clausal(s, i) => i < a
      BY <1>0, <1>1, <2>2 DEF Clausal
    <3>2. Begun(s, i) <=> Clausal(s, i)
      BY <1>0, <1>1, <1>a, <1>5, <2>2, <3>1 DEF Begun
    <3>3. \A d \in 1..m : calls'[d].node # s
      BY <1>0, <1>3, <1>5, <1>12, <2>2
    <3>4. Begun(s, i)' <=> Clausal(s, i)
      BY <1>0, <1>3, <1>10, <3>3 DEF Begun
    <3> QED
      BY <3>2, <3>4
  <2>3. CASE s # p /\ s # Caller
    <3>1. \A d \in 1..m : calls'[d].node = s <=> calls[d].node = s
      BY <1>0, <1>3
    <3>2. \A d \in 1..m : calls[d].node = s => calls'[d].at = calls[d].at /\ d < m /\ d < n
      BY <1>0, <1>1, <1>3, <1>5, <1>12, <2>3
    <3>3. Begun(s, i) <=> Clausal(s, i) /\ \A d \in 1..m : calls[d].node = s => i < calls[d].at \/ i = calls[d].at
      BY <1>0, <1>1, <1>11, <1>12, <2>3, <3>2 DEF Begun
    <3>4. Begun(s, i)' <=> Clausal(s, i) /\ \A d \in 1..m : calls[d].node = s => i < calls[d].at \/ i = calls[d].at
      BY <1>0, <1>3, <1>10, <3>1, <3>2 DEF Begun
    <3> QED
      BY <3>3, <3>4
  <2> QED
    BY <2>1, <2>2, <2>3
<1>15. \A s : OnStack(s)' <=> OnStack(s) /\ s # Caller
  BY <1>0, <1>1, <1>3, <1>5, <1>11, <1>12 DEF OnStack
<1>16. \A d \in 1..m - 1 : d \in 1..m /\ d \in 1..n - 1 /\ d \in 1..n /\ d # m /\ d # n /\ d + 1 \in 1..m
  BY <1>0, <1>1
<1>17. \A d \in 1..m - 1 : ClauseAt(d)' = ClauseAt(d) /\ calls'[d].node = calls[d].node
  BY <1>0, <1>3, <1>16 DEF ClauseAt
<1>18. WellStacked'
  <2>1. \A d \in 1..m : calls'[d].node \in nodes /\ calls'[d].at \in 1..Len(diagram[calls'[d].node]) + 1
    <3>1. calls'[m].at \in 1..Len(diagram[p]) + 1
      BY <1>0, <1>1, <1>3, <1>7, <1>8, SMTT(30)
    <3> QED
      BY <1>0, <1>1, <1>3, <1>6, <1>12, <3>1 DEF WellStacked
  <2>2. \A d, e \in 1..m : calls'[d].node = calls'[e].node => d = e
    BY <1>0, <1>3, <1>12 DEF WellStacked
  <2>3. ASSUME NEW d \in 1..m - 1
        PROVE  /\ calls'[d].at <= Len(diagram[calls'[d].node])
               /\ ClauseAt(d)'.is = "sub" /\ ClauseAt(d)'.of = calls'[d + 1].node
    <3>1. /\ calls[d].at <= Len(diagram[calls[d].node])
          /\ ClauseAt(d).is = "sub" /\ ClauseAt(d).of = calls[d + 1].node
      BY <1>0, <1>16 DEF WellStacked
    <3>2. calls'[d].at = calls[d].at /\ calls'[d].node = calls[d].node /\ calls'[d + 1].node = calls[d + 1].node
      BY <1>0, <1>3, <1>16
    <3> QED
      BY <1>17, <3>1, <3>2
  <2> QED
    BY <1>0, <1>3, <2>1, <2>2, <2>3 DEF WellStacked
<1>19. calls' # <<>>
  BY <1>0, <1>1, <1>3
<1> QED
  <2>1. Len(calls) - 1 = m /\ Len(calls') - 1 = m - 1 /\ m \in 1..m
    BY <1>0
  <2>2. p = Above /\ b = Waiting
    BY DEF p, b
  <2>3. Len(calls) - 1 \in 1..Len(calls) - 1 /\ Len(calls') = Len(calls) - 1
    BY <1>0
  <2>4. \A d \in 1..Len(calls') - 1 :
           ClauseAt(d)' = ClauseAt(d) /\ calls'[d].node = calls[d].node /\ d \in 1..Len(calls) - 1
    BY <1>16, <1>17, <2>1
  <2> QED
    BY <1>3, <1>6, <1>8, <1>9, <1>13, <1>14, <1>15, <1>18, <1>19, <2>2, <2>3, <2>4

\* The function of the root has run: everything is done.
LEMMA RootReturns ==
    ASSUME WalkTypeOK, WellStacked, calls # <<>>, Last(calls).at > Len(diagram[Caller]),
           Len(calls) <= 1, calls' = <<>>, UNCHANGED <<diagram, nodes>>
    PROVE  /\ calls' \in Seq(Frame) /\ WellStacked' /\ Len(calls') = 0
           /\ \A s, i : Done(s, i) <=> Clausal(s, i)
           /\ \A s, i : Begun(s, i) <=> Clausal(s, i)
           /\ \A s, i : Done(s, i)' <=> Done(s, i)
           /\ \A s, i : Begun(s, i)' <=> Begun(s, i)
           /\ \A s : ~OnStack(s)' /\ (OnStack(s) => s = Caller)
<1> DEFINE a == calls[1].at
<1>1. /\ 1 \in 1..Len(calls) /\ Caller = calls[1].node /\ Last(calls).at = a /\ a \in Nat
      /\ Caller \in nodes /\ a = Len(diagram[Caller]) + 1 /\ Len(diagram[Caller]) \in Nat
      /\ \A d \in 1..Len(calls) : d = 1
  BY TopFrame
<1>2. calls' \in Seq(Frame) /\ Len(calls') = 0 /\ WellStacked'
  BY DEF WellStacked
<1>3. ASSUME NEW s, NEW i PROVE (Clausal(s, i)' <=> Clausal(s, i)) /\ (Clausal(s, i) => i \in Nat)
  <2>1. s \in nodes => Len(diagram[s]) \in Nat
    BY Lengths DEF WalkTypeOK
  <2> QED
    BY <2>1 DEF Clausal
<1>4. \A s, i : Clausal(s, i) /\ s = Caller => i < a
  BY <1>1 DEF Clausal
<1>5. \A s, i : (Done(s, i) <=> Clausal(s, i)) /\ (Begun(s, i) <=> Clausal(s, i))
  BY <1>1, <1>4 DEF Done, Begun
<1>6. \A s, i : (Done(s, i)' <=> Clausal(s, i)) /\ (Begun(s, i)' <=> Clausal(s, i))
  BY <1>2, <1>3 DEF Done, Begun
<1>7. \A s : ~OnStack(s)' /\ (OnStack(s) => s = Caller)
  BY <1>1, <1>2 DEF OnStack
<1> QED
  BY <1>2, <1>5, <1>6, <1>7

\* The function of the root is called.
LEMMA RootCalled ==
    ASSUME WalkTypeOK, nodes = {}, calls = <<>>,
           calls' = Append(calls, [node |-> Root, at |-> 1]), nodes' = nodes \cup {Root}, UNCHANGED diagram
    PROVE  /\ calls' \in Seq(Frame) /\ calls' # <<>> /\ WellStacked' /\ Len(calls') = 1
           /\ \A s, i : ~Done(s, i)' /\ ~Begun(s, i)'
           /\ \A s : OnStack(s)' <=> s = Root
<1>1. Root \in Function /\ Len(calls) = 0 /\ calls \in Seq(Frame)
  BY DEF Function
<1> DEFINE top == [node |-> Root, at |-> 1]
<1>2. /\ calls' \in Seq(Frame) /\ Len(calls') = 1
      /\ calls'[1].node = Root /\ calls'[1].at = 1
  <2>1. top \in Frame /\ top.node = Root /\ top.at = 1 /\ calls' = Append(calls, top)
    BY <1>1 DEF Frame
  <2> HIDE DEF top
  <2> QED
    BY <1>1, <2>1
<1> HIDE DEF top
<1>3. Len(diagram[Root]) \in Nat
  BY <1>1, Lengths
<1>4. \A d \in 1..1 : d = 1
  OBVIOUS
<1>5. WellStacked'
  BY <1>2, <1>3, <1>4 DEF WellStacked
<1>6. ASSUME NEW s, NEW i PROVE ~Done(s, i)' /\ ~Begun(s, i)'
  <2>1. Clausal(s, i)' => s = Root /\ i \in Nat /\ i >= 1
    BY <1>3 DEF Clausal
  <2>2. 1 \in 1..1
    OBVIOUS
  <2> QED
    BY <1>2, <2>1, <2>2 DEF Done, Begun
<1>7. \A s : OnStack(s)' <=> s = Root
  BY <1>2, <1>4 DEF OnStack
<1>8. calls' # <<>>
  BY <1>2
<1> QED
  BY <1>2, <1>5, <1>6, <1>7, <1>8
--------------------------------------------------------------------------------
\* What is said of a clause, of any frame and of the call at the top
LEMMA DoneIsBegun ==
    ASSUME WalkTypeOK, WellStacked, NEW s, NEW i, Done(s, i)
    PROVE  Begun(s, i) /\ Clausal(s, i) /\ s \in Function
<1>1. s \in nodes /\ s \in Function
  BY DEF Done, Clausal, WalkTypeOK
<1> QED
  BY <1>1 DEF Done, Begun

LEMMA BegunIsClausal ==
    \A s, i : Begun(s, i) => s \in nodes /\ i \in 1..Len(diagram[s])
BY DEF Begun, Clausal

LEMMA DoneIsClausal ==
    \A s, i : Done(s, i) => s \in nodes /\ i \in 1..Len(diagram[s])
BY DEF Done, Clausal

\* The clause at the top is the one that the function being called has come to.
LEMMA NowIs ==
    ASSUME WalkTypeOK, WellStacked, calls # <<>>, Last(calls).at <= Len(diagram[Caller])
    PROVE  /\ Caller \in nodes /\ Caller \in Function
           /\ Last(calls).at \in 1..Len(diagram[Caller])
           /\ Now = diagram[Caller][Last(calls).at] /\ Now \in Clause
           /\ ~Begun(Caller, Last(calls).at) /\ ~Done(Caller, Last(calls).at)
           /\ \A j \in 1..Len(diagram[Caller]) : j < Last(calls).at => Done(Caller, j) /\ Begun(Caller, j)
<1> DEFINE n == Len(calls)
           a == Last(calls).at
<1>1. /\ n \in 1..n /\ n \in Nat /\ Caller = calls[n].node /\ a = calls[n].at /\ a \in Nat
      /\ Caller \in nodes /\ Caller \in Function /\ a \in 1..Len(diagram[Caller]) /\ Len(diagram[Caller]) \in Nat
  BY TopFrame
<1>2. \A d \in 1..n : calls[d].node = Caller <=> d = n
  BY <1>1 DEF WellStacked
<1>3. Now = diagram[Caller][a]
  BY DEF Now, Clauses
<1>4. Now \in Clause
  BY <1>1, <1>3, Lengths
<1>5. ~Begun(Caller, a) /\ ~Done(Caller, a)
  BY <1>1 DEF Begun, Done
<1> HIDE DEF n, a
<1>6. ASSUME NEW j \in 1..Len(diagram[Caller]), j < a PROVE Done(Caller, j) /\ Begun(Caller, j)
  <2>1. Clausal(Caller, j)
    BY <1>1 DEF Clausal
  <2> QED
    BY <1>1, <1>2, <1>6, <2>1 DEF Done, Begun, n
<1> QED
  BY <1>1, <1>3, <1>4, <1>5, <1>6 DEF a

\* What kinds of clauses there are
LEMMA ClausesAre ==
    ASSUME NEW c \in Clause
    PROVE  /\ c.is \in {"sub", "default", "timeout"}
           /\ c.is = "sub" => c.of \in Function /\ c.region \in BOOLEAN
           /\ c.is = "default" => c.of \in Function
           /\ c.is = "timeout" => c.of \in Timers
BY DEF Clause

LEMMA NullIsNone == Null \notin Function /\ Root \in Function
BY CreationAssumption DEF Null, Root, Function
--------------------------------------------------------------------------------
(* What was declared *)

LEMMA DeclaredIs ==
    ASSUME WalkTypeOK
    PROVE  /\ Declared \subseteq Function /\ Root \in Declared
           /\ \A s \in Declared : \A i \in 1..Len(diagram[s]) :
                 diagram[s][i].is = "sub" => diagram[s][i].of \in Declared
<1>1. Declared \subseteq Function /\ Root \in Declared
  BY NullIsNone DEF Declared
<1>2. ASSUME NEW s \in Declared, NEW i \in 1..Len(diagram[s]), diagram[s][i].is = "sub"
      PROVE  diagram[s][i].of \in Declared
  <2>1. diagram[s][i].of \in Function
    BY <1>1, <1>2, Lengths, ClausesAre
  <2>2. ASSUME NEW set \in SUBSET Function, Root \in set, Closed(set)
        PROVE  diagram[s][i].of \in set
    <3>1. s \in set
      BY <2>2 DEF Declared
    <3> QED
      BY <1>2, <2>2, <3>1 DEF Closed
  <2> QED
    BY <2>1, <2>2 DEF Declared
<1> QED
  BY <1>1, <1>2

LEMMA DeclaredLeast ==
    ASSUME NEW set \in SUBSET Function, Root \in set, Closed(set)
    PROVE  Declared \subseteq set
BY DEF Declared

\* A declaration does not change.
LEMMA DeclarationStays ==
    ASSUME UNCHANGED diagram
    PROVE  Declared' = Declared /\ (Sound' <=> Sound) /\ (DefaultBelow' <=> DefaultBelow)
<1>1. \A set : Closed(set)' <=> Closed(set)
  BY DEF Closed
<1>2. Declared' = Declared
  BY <1>1 DEF Declared
<1>3. \A s, kind : Where(s, kind)' = Where(s, kind)
  BY DEF Where
<1>4. \A s : Subs(s)' = Subs(s)
  BY <1>3 DEF Subs
<1>5. \A x, kind : Once(x, kind)' <=> Once(x, kind)
  BY <1>2, <1>3 DEF Once
<1>6. Sound' <=> Sound
  BY <1>2, <1>3, <1>4, <1>5 DEF Sound
<1>7. DefaultBelow' <=> DefaultBelow
  BY <1>2, <1>3 DEF DefaultBelow
<1> QED
  BY <1>2, <1>6, <1>7

\* Once there is something to blame a refusal on, it stays.
LEMMA BlamedStays ==
    ASSUME WalkTypeOK, UNCHANGED diagram, failures' = failures \/ failures' = failures + 1
    PROVE  /\ Blamed => Blamed'
           /\ failures' = failures + 1 => Blamed'
           /\ failures' \in Nat
BY DeclarationStays DEF Blamed, WalkTypeOK
--------------------------------------------------------------------------------
(* The walk is good as long as it finds no error. *)

\* The order of the sub-states says nothing of clauses of other kinds.
LEMMA OrderStays ==
    ASSUME ChildrenOrder, UNCHANGED <<diagram, children>>,
           \A s, i : diagram[s][i].is = "sub" => (Done(s, i)' <=> Done(s, i))
    PROVE  ChildrenOrder'
<1>1. ASSUME NEW s \in Function, NEW k \in 1..Len(children[s]), NEW l \in 1..Len(children[s]), k < l,
             NEW i \in 1..Len(diagram[s]), NEW j \in 1..Len(diagram[s]),
             Done(s, i)', Done(s, j)', diagram[s][i].is = "sub", diagram[s][j].is = "sub",
             diagram[s][i].of = children[s][k], diagram[s][j].of = children[s][l]
      PROVE  j < i
  <2>1. Done(s, i) /\ Done(s, j)
    BY <1>1
  <2> QED
    BY <1>1, <2>1 DEF ChildrenOrder, Says, Of
<1> QED
  BY <1>1 DEF ChildrenOrder, Says, Of

\* vivid_sub_node calls the function of a state that had no node yet.
LEMMA EnterIsGood ==
    ASSUME WalkTypeOK, WellStacked, Good, calls # <<>>, Last(calls).at <= Len(diagram[Caller]),
           Root \in nodes, Now.is = "sub", ~Mixed(Now.region), Now.of \notin nodes,
           calls' = Append(calls, [node |-> Now.of, at |-> 1]), nodes' = nodes \cup {Now.of},
           live \subseteq live',
           UNCHANGED <<diagram, binding, timers, parent, children, default, regions, failures>>
    PROVE  /\ Good' /\ WellStacked' /\ calls' \in Seq(Frame) /\ calls' # <<>>
<1> DEFINE c == Caller
           a == Last(calls).at
           x == Now.of
<1>1. /\ c \in nodes /\ c \in Function /\ a \in 1..Len(diagram[c])
      /\ Now = diagram[c][a] /\ ~Begun(c, a)
      /\ x \in Function /\ Now.region \in BOOLEAN /\ diagram[c][a].is = "sub" /\ diagram[c][a].of = x
  BY NowIs, ClausesAre
<1>2. /\ calls' \in Seq(Frame) /\ calls' # <<>> /\ WellStacked'
      /\ \A s, i : Done(s, i)' <=> Done(s, i)
      /\ \A s, i : Begun(s, i)' <=> Begun(s, i) \/ (s = c /\ i = a)
      /\ \A s : OnStack(s)' <=> OnStack(s) \/ s = x
      /\ Len(calls') = Len(calls) + 1
      /\ \A d \in 1..Len(calls) : ClauseAt(d)' = ClauseAt(d) /\ calls'[d].node = calls[d].node
  BY <1>1, FunctionCalled
<1>3. Len(calls) \in Nat /\ Len(calls) \in 1..Len(calls) /\ calls[Len(calls)].node = c /\ ClauseAt(Len(calls)) = Now
  BY <1>1, TopFrame DEF ClauseAt
<1>4. x # Root /\ x \notin nodes
  OBVIOUS
<1>5. x \in nodes' /\ nodes \subseteq nodes' /\ \A s \in nodes' : s \in nodes \/ s = x
  OBVIOUS
<1> HIDE DEF c, a, x
<1>6. SubsKnown'
  BY <1>1, <1>2, <1>4, <1>5, BegunIsClausal DEF Good, SubsKnown, Says, Of
<1>7. SubsOnce'
  <2>1. ASSUME NEW s, NEW i, Begun(s, i), diagram[s][i].is = "sub" PROVE diagram[s][i].of # x
    BY <1>4, <2>1, BegunIsClausal DEF Good, SubsKnown, Says, Of
  <2> QED
    BY <1>1, <1>2, <2>1, BegunIsClausal, SMTT(30) DEF Good, SubsOnce, Says, Of
<1>8. NodesCome'
  <2>1. ASSUME NEW y \in nodes, y # Root
        PROVE  \E s \in nodes' : \E i \in 1..Len(diagram'[s]) :
                  Begun(s, i)' /\ diagram'[s][i].is = "sub" /\ diagram'[s][i].of = y
    BY <1>2, <1>5, <2>1 DEF Good, NodesCome, Says, Of
  <2>2. \E s \in nodes' : \E i \in 1..Len(diagram'[s]) :
           Begun(s, i)' /\ diagram'[s][i].is = "sub" /\ diagram'[s][i].of = x
    BY <1>1, <1>2, <1>5
  <2> QED
    BY <1>5, <2>1, <2>2 DEF NodesCome, Says, Of
<1>9. TimersKnown' /\ TimersOnce' /\ TimersCome' /\ TimersWhole'
  <2>1. TimersKnown' /\ TimersOnce'
    BY <1>2, DoneIsClausal, SMTT(30) DEF Good, TimersKnown, TimersOnce, Says, Of
  <2>2. TimersCome'
    BY <1>2, <1>5 DEF Good, TimersCome, Says, Of
  <2>3. TimersWhole'
    BY DEF Good, TimersWhole, Handles
  <2> QED
    BY <2>1, <2>2, <2>3
<1>10. Alike' /\ RegionsHaveChildren' /\ ChildrenAll'
  <2>1. Alike'
    BY <1>2, DoneIsClausal DEF Good, Alike, Says, Of
  <2>2. RegionsHaveChildren'
    BY DEF Good, RegionsHaveChildren
  <2>3. ChildrenAll'
    BY <1>2, DoneIsClausal DEF Good, ChildrenAll, Says, Of
  <2> QED
    BY <2>1, <2>2, <2>3
<1>11. ChildrenOnly' /\ ChildrenOrder' /\ ParentsDone'
  <2>1. ChildrenOnly'
    BY <1>2 DEF Good, ChildrenOnly, Says, Of
  <2>2. ChildrenOrder'
    <3>1. ChildrenOrder
      BY DEF Good
    <3> QED
      BY <1>2, <3>1, OrderStays
  <2>3. ParentsDone'
    BY <1>2, DoneIsClausal DEF Good, ParentsDone, Says, Of
  <2> QED
    BY <2>1, <2>2, <2>3
<1>12. NotMixed'
  <2>1. ASSUME NEW d \in 1..Len(calls)
        PROVE  IF ClauseAt(d).region THEN children[calls[d].node] # <<>> => regions[calls[d].node]
               ELSE ~regions[calls[d].node]
    <3>1. CASE d = Len(calls)
      BY <1>1, <1>3, <3>1 DEF Mixed, c
    <3>2. CASE d # Len(calls)
      <4>1. d \in 1..Len(calls) - 1
        BY <1>3, <3>2
      <4> QED
        BY <4>1 DEF Good, NotMixed
    <3> QED
      BY <3>1, <3>2
  <2>2. Len(calls') - 1 = Len(calls)
    BY <1>2, <1>3
  <2> QED
    BY <1>2, <2>1, <2>2 DEF NotMixed
<1>13. DefaultsDone' /\ DefaultsOnce' /\ DefaultsCome'
  BY <1>2, DoneIsClausal DEF Good, DefaultsDone, DefaultsOnce, DefaultsCome, Says, Of
<1>14. DefaultsThere'
  BY <1>2, <1>5 DEF Good, DefaultsThere, NoDefault
<1> QED
  BY <1>2, <1>6, <1>7, <1>8, <1>9, <1>10, <1>11, <1>12, <1>13, <1>14 DEF Good

\* What a clause that is no sub-state leaves alone
LEMMA LinksStay ==
    ASSUME WalkTypeOK, WellStacked, Good, calls # <<>>, Last(calls).at <= Len(diagram[Caller]),
           Now.is # "sub", calls' = Step(calls),
           UNCHANGED <<diagram, nodes, parent, children, regions, failures>>
    PROVE  /\ SubsKnown' /\ SubsOnce' /\ NodesCome'
           /\ Alike' /\ RegionsHaveChildren' /\ ChildrenAll' /\ ChildrenOnly' /\ ChildrenOrder'
           /\ ParentsDone' /\ NotMixed'
<1> DEFINE c == Caller
           a == Last(calls).at
<1>1. /\ c \in nodes /\ a \in 1..Len(diagram[c]) /\ diagram[c][a].is # "sub"
  BY NowIs
<1>2. /\ \A s, i : Done(s, i)' <=> Done(s, i) \/ (s = c /\ i = a)
      /\ \A s, i : Begun(s, i)' <=> Begun(s, i) \/ (s = c /\ i = a)
      /\ Len(calls') = Len(calls)
      /\ \A d \in 1..Len(calls) - 1 : ClauseAt(d)' = ClauseAt(d) /\ calls'[d].node = calls[d].node
  BY ClauseRun
<1> HIDE DEF c, a
<1>a. \A s, i : diagram[s][i].is = "sub" => (Done(s, i)' <=> Done(s, i)) /\ (Begun(s, i)' <=> Begun(s, i))
  BY <1>1, <1>2
<1>3. SubsKnown' /\ SubsOnce'
  <2>1. SubsKnown'
    BY <1>a DEF Good, SubsKnown, Says, Of
  <2>2. SubsOnce'
    BY <1>a DEF Good, SubsOnce, Says, Of
  <2> QED
    BY <2>1, <2>2
<1>4. NodesCome'
  BY <1>1, <1>2 DEF Good, NodesCome, Says, Of
<1>5. Alike' /\ RegionsHaveChildren' /\ ChildrenAll'
  BY <1>1, <1>2 DEF Good, Alike, RegionsHaveChildren, ChildrenAll, Says, Of
<1>6. ChildrenOnly'
  BY <1>1, <1>2 DEF Good, ChildrenOnly, Says, Of
<1>7. ChildrenOrder'
  <2>1. ChildrenOrder
    BY DEF Good
  <2> QED
    BY <1>a, <2>1, OrderStays
<1>8. ParentsDone' /\ NotMixed'
  <2>1. ParentsDone'
    BY <1>1, <1>2 DEF Good, ParentsDone, Says, Of
  <2>2. NotMixed'
    BY <1>1, <1>2 DEF Good, NotMixed, Says, Of
  <2> QED
    BY <2>1, <2>2
<1> QED
  BY <1>3, <1>4, <1>5, <1>6, <1>7, <1>8

\* vivid_default: the first of its function, and of a state that has a node
LEMMA DefaultIsGood ==
    ASSUME WalkTypeOK, WellStacked, Good, calls # <<>>, Last(calls).at <= Len(diagram[Caller]),
           Now.is = "default", default[Caller] = Null, Now.of \in nodes,
           default' = [default EXCEPT ![Caller] = Now.of], calls' = Step(calls),
           UNCHANGED <<diagram, binding, nodes, timers, live, parent, children, regions, failures>>
    PROVE  Good'
<1> DEFINE c == Caller
           a == Last(calls).at
<1>1. /\ c \in nodes /\ c \in Function /\ a \in 1..Len(diagram[c])
      /\ Now = diagram[c][a] /\ diagram[c][a].is = "default" /\ Now.of \in Function
      /\ default[c] = Null /\ default'[c] = Now.of
      /\ \A s \in Function : s # c => default'[s] = default[s]
  BY NowIs, ClausesAre DEF WalkTypeOK
<1>2. /\ \A s, i : Done(s, i)' <=> Done(s, i) \/ (s = c /\ i = a)
      /\ \A s : OnStack(s)' <=> OnStack(s)
  BY ClauseRun
<1>3. Now.of # Null /\ nodes \subseteq Function
  BY <1>1, NullIsNone DEF WalkTypeOK
<1>4. Now.is # "sub"
  OBVIOUS
<1>5. /\ SubsKnown' /\ SubsOnce' /\ NodesCome'
      /\ Alike' /\ RegionsHaveChildren' /\ ChildrenAll' /\ ChildrenOnly' /\ ChildrenOrder'
      /\ ParentsDone' /\ NotMixed'
  BY <1>4, LinksStay
<1> HIDE DEF c, a
<1>6. ASSUME NEW i, Done(c, i), diagram[c][i].is = "default" PROVE FALSE
  BY <1>1, <1>3, <1>6, DoneIsClausal, Lengths, ClausesAre, NullIsNone DEF Good, DefaultsDone, Says, Of
<1>7. TimersKnown' /\ TimersOnce' /\ TimersCome' /\ TimersWhole'
  <2>1. TimersKnown' /\ TimersOnce'
    BY <1>1, <1>2, DoneIsClausal DEF Good, TimersKnown, TimersOnce, Says, Of
  <2>2. TimersCome'
    BY <1>2 DEF Good, TimersCome, Says, Of
  <2>3. TimersWhole'
    BY DEF Good, TimersWhole, Handles
  <2> QED
    BY <2>1, <2>2, <2>3
<1>8. DefaultsDone'
  BY <1>1, <1>2, <1>3, <1>6 DEF Good, DefaultsDone, Says, Of
<1>9. DefaultsOnce'
  BY <1>1, <1>2, <1>6 DEF Good, DefaultsOnce, Says, Of
<1>10. DefaultsCome'
  BY <1>1, <1>2 DEF Good, DefaultsCome, Says, Of
<1>11. DefaultsThere'
  BY <1>1, <1>2, <1>3 DEF Good, DefaultsThere, NoDefault
<1> QED
  BY <1>5, <1>7, <1>8, <1>9, <1>10, <1>11 DEF Good

\* vivid_on_timeout: the first of its name
LEMMA TimeoutIsGood ==
    ASSUME WalkTypeOK, WellStacked, Good, calls # <<>>, Last(calls).at <= Len(diagram[Caller]),
           Now.is = "timeout", Now.of \notin timers, timers' = timers \cup {Now.of}, calls' = Step(calls),
           live \cup Blocks("binding_timer", ToSet(Handles), Now.of) \subseteq live',
           UNCHANGED <<diagram, binding, nodes, default, parent, children, regions, failures>>
    PROVE  Good'
<1> DEFINE c == Caller
           a == Last(calls).at
<1>1. /\ c \in nodes /\ a \in 1..Len(diagram[c])
      /\ Now = diagram[c][a] /\ diagram[c][a].is = "timeout"
  BY NowIs
<1>2. /\ \A s, i : Done(s, i)' <=> Done(s, i) \/ (s = c /\ i = a)
      /\ \A s : OnStack(s)' <=> OnStack(s)
  BY ClauseRun
<1>3. Now.is # "sub"
  OBVIOUS
<1>4. /\ SubsKnown' /\ SubsOnce' /\ NodesCome'
      /\ Alike' /\ RegionsHaveChildren' /\ ChildrenAll' /\ ChildrenOnly' /\ ChildrenOrder'
      /\ ParentsDone' /\ NotMixed'
  BY <1>3, LinksStay
<1> HIDE DEF c, a
<1>5. TimersKnown'
  BY <1>1, <1>2 DEF Good, TimersKnown, Says, Of
<1>6. TimersOnce'
  <2>1. ASSUME NEW s, NEW i, Done(s, i), diagram[s][i].is = "timeout" PROVE diagram[s][i].of # Now.of
    BY <2>1, DoneIsClausal DEF Good, TimersKnown, Says, Of
  <2> QED
    BY <1>1, <1>2, <2>1, DoneIsClausal DEF Good, TimersOnce, Says, Of
<1>7. TimersCome'
  BY <1>1, <1>2 DEF Good, TimersCome, Says, Of
<1>8. TimersWhole'
  BY DEF Good, TimersWhole, Handles
<1>9. DefaultsDone' /\ DefaultsOnce'
  BY <1>1, <1>2, DoneIsClausal DEF Good, DefaultsDone, DefaultsOnce, Says, Of
<1>10. DefaultsCome'
  BY <1>1, <1>2 DEF Good, DefaultsCome, Says, Of
<1>11. DefaultsThere'
  BY <1>2 DEF Good, DefaultsThere, NoDefault
<1> QED
  BY <1>4, <1>5, <1>6, <1>7, <1>8, <1>9, <1>10, <1>11 DEF Good

\* What a return leaves alone
LEMMA ReturnLeavesTimers ==
    ASSUME Good, UNCHANGED <<diagram, binding, nodes, timers, live, default, failures>>,
           NEW p, NEW b, p \in Function, diagram[p][b].is = "sub",
           \A s, i : Done(s, i)' <=> Done(s, i) \/ (s = p /\ i = b)
    PROVE  /\ TimersKnown' /\ TimersOnce' /\ TimersCome' /\ TimersWhole'
           /\ DefaultsDone' /\ DefaultsOnce' /\ DefaultsCome'
<1>1. \A s, i : diagram[s][i].is # "sub" => (Done(s, i)' <=> Done(s, i))
  OBVIOUS
<1>2. TimersKnown'
  BY <1>1 DEF Good, TimersKnown, Says, Of
<1>3. TimersOnce'
  BY <1>1 DEF Good, TimersOnce, Says, Of
<1>4. TimersCome'
  BY <1>1 DEF Good, TimersCome, Says, Of
<1>5. TimersWhole'
  BY DEF Good, TimersWhole, Handles
<1>6. DefaultsDone' /\ DefaultsOnce'
  BY <1>1 DEF Good, DefaultsDone, DefaultsOnce, Says, Of
<1>7. DefaultsCome'
  BY <1>1 DEF Good, DefaultsCome, Says, Of
<1> QED
  BY <1>2, <1>3, <1>4, <1>5, <1>6, <1>7

\* A function returns without an error: its state is linked into the tree.
LEMMA LinkIsGood ==
    ASSUME WalkTypeOK, WellStacked, Good, calls # <<>>, Last(calls).at > Len(diagram[Caller]),
           Len(calls) > 1, calls' = Step(Front(calls)), Link(Caller), ~NoDefault(Caller),
           UNCHANGED <<diagram, binding, nodes, timers, live, default, failures>>
    PROVE  Good' /\ WellStacked' /\ calls' \in Seq(Frame) /\ calls' # <<>>
<1>0. PICK x, p, b : x = Caller /\ p = Above /\ b = Waiting
  OBVIOUS
<1>1. /\ calls' \in Seq(Frame) /\ calls' # <<>> /\ WellStacked'
      /\ Begun(p, b) /\ ~Done(p, b) /\ p # x /\ p \in Function /\ p \in nodes
      /\ b \in 1..Len(diagram[p])
      /\ Len(calls) - 1 \in 1..Len(calls) - 1
      /\ diagram[p][b].is = "sub" /\ diagram[p][b].of = x
      /\ \A s, i : Done(s, i)' <=> Done(s, i) \/ (s = p /\ i = b)
      /\ \A s, i : Begun(s, i)' <=> Begun(s, i)
      /\ \A s : OnStack(s)' <=> OnStack(s) /\ s # x
      /\ Len(calls') = Len(calls) - 1
      /\ \A d \in 1..Len(calls') - 1 :
            ClauseAt(d)' = ClauseAt(d) /\ calls'[d].node = calls[d].node /\ d \in 1..Len(calls) - 1
  BY <1>0, FunctionReturns
<1>2. x \in nodes /\ x \in Function /\ Len(calls) \in Nat
  BY <1>0, TopFrame
<1>3. diagram[p][b].region \in BOOLEAN /\ nodes \subseteq Function
  BY <1>1, Lengths, ClausesAre DEF WalkTypeOK
<1>4. /\ ClauseAt(Len(calls) - 1) = diagram[p][b] /\ calls[Len(calls) - 1].node = p
      /\ \A d \in 1..Len(calls) - 1 : calls[d].node = p => d = Len(calls) - 1
  <2>1. ClauseAt(Len(calls) - 1) = diagram[p][b] /\ calls[Len(calls) - 1].node = p
    BY <1>0 DEF ClauseAt, Above, Waiting
  <2>2. \A d \in 1..Len(calls) - 1 : d \in 1..Len(calls)
    BY <1>2
  <2> QED
    BY <1>1, <2>1, <2>2 DEF WellStacked
<1>5. /\ parent' = [parent EXCEPT ![x] = p]
      /\ children' = [children EXCEPT ![p] = <<x>> \o @]
      /\ regions' = [regions EXCEPT ![p] = diagram[p][b].region]
  BY <1>0 DEF Link, Above, Waiting
<1>6. OnStack(p)
  <2>1. Len(calls) - 1 \in 1..Len(calls) /\ calls[Len(calls) - 1].node = p
    BY <1>1, <1>2, <1>4
  <2> QED
    BY <2>1 DEF OnStack
<1>7. \A j : Done(p, j) => j < b
  <2>1. Len(calls) - 1 \in 1..Len(calls) /\ calls[Len(calls) - 1].node = p /\ calls[Len(calls) - 1].at = b
    BY <1>0, <1>1, <1>2, <1>4 DEF Waiting
  <2> QED
    BY <2>1 DEF Done
<1>8. \A s, i : Done(s, i) => Begun(s, i) /\ s \in nodes /\ i \in 1..Len(diagram[s])
  BY DoneIsBegun, DoneIsClausal
<1>c. /\ Begun(p, b) /\ ~Done(p, b) /\ p # x /\ p \in Function /\ p \in nodes /\ b \in 1..Len(diagram[p])
      /\ diagram[p][b].is = "sub" /\ diagram[p][b].of = x
  BY <1>1
<1>d. \A s, i : Done(s, i)' <=> Done(s, i) \/ (s = p /\ i = b)
  BY <1>1
<1>s. UNCHANGED <<diagram, nodes>>
  OBVIOUS
<1>9. \A s, i : Done(s, i) /\ diagram[s][i].is = "sub" => diagram[s][i].of # x
  BY <1>c, <1>d, <1>8, BegunIsClausal DEF Good, SubsOnce, Says, Of
<1>10. /\ \A s \in Function : s # p => children'[s] = children[s] /\ regions'[s] = regions[s]
       /\ \A s \in Function : s # x => parent'[s] = parent[s]
       /\ parent'[x] = p /\ regions'[p] = diagram[p][b].region
       /\ children[p] \in Seq(Function) /\ children'[p] = <<x>> \o children[p]
  BY <1>c, <1>d, <1>2, <1>5 DEF WalkTypeOK
<1>11. /\ Len(children[p]) \in Nat /\ Len(children'[p]) = Len(children[p]) + 1 /\ children'[p] # <<>>
       /\ children'[p][1] = x
       /\ \A k \in 1..Len(children[p]) : children'[p][k + 1] = children[p][k]
       /\ \A k \in 1..Len(children'[p]) : k # 1 => /\ k - 1 \in 1..Len(children[p])
                                                  /\ children'[p][k] = children[p][k - 1]
  <2>1. PICK old \in Seq(Function) : old = children[p]
    BY <1>10
  <2>2. /\ Len(old) \in Nat /\ Len(<<x>> \o old) = Len(old) + 1 /\ <<x>> \o old # <<>>
        /\ (<<x>> \o old)[1] = x
        /\ \A k \in 1..Len(old) : (<<x>> \o old)[k + 1] = old[k]
    BY <1>2
  <2>3. \A k \in 1..Len(<<x>> \o old) : k # 1 =>
           k - 1 \in 1..Len(old) /\ (<<x>> \o old)[k] = old[k - 1]
    BY <1>2
  <2> QED
    BY <1>10, <2>1, <2>2, <2>3
<1>12. SubsKnown' /\ SubsOnce' /\ NodesCome'
  <2>1. \A s, i : Begun(s, i)' <=> Begun(s, i)
    BY <1>1
  <2>2. SubsKnown'
    BY <2>1 DEF Good, SubsKnown, Says, Of
  <2>3. SubsOnce'
    BY <2>1 DEF Good, SubsOnce, Says, Of
  <2>4. NodesCome'
    BY <2>1 DEF Good, NodesCome, Says, Of
  <2> QED
    BY <2>2, <2>3, <2>4
<1>13. /\ TimersKnown' /\ TimersOnce' /\ TimersCome' /\ TimersWhole'
       /\ DefaultsDone' /\ DefaultsOnce' /\ DefaultsCome'
  BY <1>1, ReturnLeavesTimers
<1>14. Alike'
  <2>1. ASSUME NEW i, Done(p, i), diagram[p][i].is = "sub" PROVE diagram[p][i].region = regions'[p]
    <3>1. diagram[p][i].region = regions[p] /\ children[p] # <<>>
      <4>1. diagram[p][i].region = regions[p]
        BY <1>8, <2>1 DEF Good, Alike, Says
      <4>2. PICK k \in 1..Len(children[p]) : children[p][k] = diagram[p][i].of
        BY <1>8, <2>1 DEF Good, ChildrenAll, Says, Of
      <4> QED
        BY <1>11, <4>1, <4>2
    <3>2. IF diagram[p][b].region THEN children[p] # <<>> => regions[p] ELSE ~regions[p]
      BY <1>1, <1>4 DEF Good, NotMixed
    <3>3. regions[p] \in BOOLEAN
      BY <1>c, <1>d DEF WalkTypeOK
    <3> QED
      BY <1>3, <1>10, <3>1, <3>2, <3>3
  <2> QED
    BY <1>c, <1>d, <1>3, <1>8, <1>10, <2>1 DEF Good, Alike, Says
<1>15. RegionsHaveChildren'
  BY <1>10, <1>11 DEF Good, RegionsHaveChildren
<1>16. ChildrenAll'
  <2>1. \E k \in 1..Len(children'[p]) : children'[p][k] = x
    BY <1>11
  <2>2. ASSUME NEW i, Done(p, i), diagram[p][i].is = "sub"
        PROVE  \E k \in 1..Len(children'[p]) : children'[p][k] = diagram[p][i].of
    <3>1. PICK k \in 1..Len(children[p]) : children[p][k] = diagram[p][i].of
      BY <1>8, <2>2 DEF Good, ChildrenAll, Says, Of
    <3>2. k + 1 \in 1..Len(children'[p])
      BY <1>11
    <3> QED
      BY <1>11, <3>1, <3>2
  <2>3. ASSUME NEW s \in nodes, s # p, NEW i, Done(s, i), diagram[s][i].is = "sub"
        PROVE  \E k \in 1..Len(children'[s]) : children'[s][k] = diagram[s][i].of
    BY <1>3, <1>8, <1>10, <2>3, SMTT(30) DEF Good, ChildrenAll, Says, Of
  <2> QED
    <3>1. ASSUME NEW s \in nodes, NEW i, Done(s, i)', diagram[s][i].is = "sub"
          PROVE  \E k \in 1..Len(children'[s]) : children'[s][k] = diagram[s][i].of
      <4>1. CASE s = p /\ i = b
        BY <1>c, <2>1, <4>1
      <4>2. CASE ~(s = p /\ i = b)
        <5>1. Done(s, i)
          BY <1>d, <3>1, <4>2
        <5> QED
          BY <2>2, <2>3, <3>1, <5>1
      <4> QED
        BY <4>1, <4>2
    <3> QED
      BY <3>1 DEF ChildrenAll, Says, Of
<1>17. ChildrenOnly'
  <2>1. ASSUME NEW k \in 1..Len(children'[p])
        PROVE  \E i \in 1..Len(diagram[p]) : Done(p, i)' /\ diagram[p][i].is = "sub" /\ diagram[p][i].of = children'[p][k]
    <3>1. CASE k = 1
      <4>1. Done(p, b)'
        BY <1>d
      <4> QED
        BY <1>c, <1>11, <3>1, <4>1
    <3>2. CASE k # 1
      <4>1. k - 1 \in 1..Len(children[p]) /\ children'[p][k] = children[p][k - 1]
        BY <1>11, <3>2
      <4>2. \E i \in 1..Len(diagram[p]) : Done(p, i) /\ diagram[p][i].is = "sub" /\ diagram[p][i].of = children[p][k - 1]
        BY <1>c, <1>d, <4>1 DEF Good, ChildrenOnly, Says, Of
      <4>3. \A j : Done(p, j) => Done(p, j)'
        BY <1>d
      <4> QED
        BY <4>1, <4>2, <4>3
    <3> QED
      BY <3>1, <3>2
  <2>2. ASSUME NEW s \in Function, s # p, NEW k \in 1..Len(children'[s])
        PROVE  \E i \in 1..Len(diagram[s]) : Done(s, i)' /\ diagram[s][i].is = "sub" /\ diagram[s][i].of = children'[s][k]
    BY <1>c, <1>d, <1>10, <2>2, SMTT(30) DEF Good, ChildrenOnly, Says, Of
  <2> QED
    <3>1. ASSUME NEW s \in Function, NEW k \in 1..Len(children'[s])
          PROVE  \E i \in 1..Len(diagram[s]) : Done(s, i)' /\ diagram[s][i].is = "sub" /\ diagram[s][i].of = children'[s][k]
      <4>1. CASE s = p
        BY <2>1, <4>1
      <4>2. CASE s # p
        BY <2>2, <4>2
      <4> QED
        BY <4>1, <4>2
    <3> QED
      BY <3>1 DEF ChildrenOnly, Says, Of
<1>18. ChildrenOrder'
  <2>1. ASSUME NEW k \in 1..Len(children'[p]), NEW l \in 1..Len(children'[p]), k < l,
               NEW i \in 1..Len(diagram[p]), NEW j \in 1..Len(diagram[p]),
               Done(p, i)', Done(p, j)', diagram[p][i].is = "sub", diagram[p][j].is = "sub",
               diagram[p][i].of = children'[p][k], diagram[p][j].of = children'[p][l]
        PROVE  j < i
    <3>1. \A q \in 1..Len(children'[p]) : q # 1 => /\ q - 1 \in 1..Len(children[p])
                                                   /\ children'[p][q] = children[p][q - 1] /\ children'[p][q] # x
      <4>1. ASSUME NEW q \in 1..Len(children'[p]), q # 1
            PROVE  q - 1 \in 1..Len(children[p]) /\ children'[p][q] = children[p][q - 1]
        BY <1>11, <4>1
      <4>2. ASSUME NEW q \in 1..Len(children[p]) PROVE children[p][q] # x
        <5>1. PICK e \in 1..Len(diagram[p]) :
                 Done(p, e) /\ diagram[p][e].is = "sub" /\ diagram[p][e].of = children[p][q]
          BY <1>c DEF Good, ChildrenOnly, Says, Of
        <5> QED
          BY <1>9, <5>1
      <4> QED
        BY <4>1, <4>2
    <3>2. l # 1 /\ k \in Nat /\ l \in Nat
      BY <1>11, <2>1
    <3>3. j # b /\ Done(p, j) /\ j < b
      <4>1. j # b
        BY <1>c, <2>1, <3>1, <3>2
      <4>2. Done(p, j)
        BY <1>d, <2>1, <4>1
      <4> QED
        BY <1>7, <4>1, <4>2
    <3>4. CASE k = 1
      <4>1. diagram[p][i].of = x
        BY <1>11, <2>1, <3>4
      <4>2. i = b
        BY <1>9, <1>d, <2>1, <4>1
      <4> QED
        BY <3>3, <4>2
    <3>5. CASE k # 1
      <4>1. i # b /\ Done(p, i)
        <5>1. i # b
          BY <1>c, <2>1, <3>1, <3>5
        <5> QED
          BY <1>d, <2>1, <5>1
      <4>2. /\ k - 1 \in 1..Len(children[p]) /\ l - 1 \in 1..Len(children[p]) /\ k - 1 < l - 1
            /\ diagram[p][i].of = children[p][k - 1] /\ diagram[p][j].of = children[p][l - 1]
        <5>1. k - 1 < l - 1
          BY <2>1, <3>2
        <5> QED
          BY <2>1, <3>1, <3>2, <3>5, <5>1
      <4> QED
        BY <1>c, <1>d, <2>1, <3>3, <4>1, <4>2 DEF Good, ChildrenOrder, Says, Of
    <3> QED
      BY <3>4, <3>5
  <2>2. ASSUME NEW s \in Function, s # p, NEW k \in 1..Len(children'[s]), NEW l \in 1..Len(children'[s]), k < l,
               NEW i \in 1..Len(diagram[s]), NEW j \in 1..Len(diagram[s]),
               Done(s, i)', Done(s, j)', diagram[s][i].is = "sub", diagram[s][j].is = "sub",
               diagram[s][i].of = children'[s][k], diagram[s][j].of = children'[s][l]
        PROVE  j < i
    <3>1. children'[s] = children[s] /\ Done(s, i) /\ Done(s, j)
      BY <1>c, <1>d, <1>3, <1>10, <2>2
    <3> QED
      BY <2>2, <3>1 DEF Good, ChildrenOrder, Says, Of
  <2> QED
    <3>1. ASSUME NEW s \in Function, NEW k \in 1..Len(children'[s]), NEW l \in 1..Len(children'[s]), k < l,
                 NEW i \in 1..Len(diagram[s]), NEW j \in 1..Len(diagram[s]),
                 Done(s, i)', Done(s, j)', diagram[s][i].is = "sub", diagram[s][j].is = "sub",
                 diagram[s][i].of = children'[s][k], diagram[s][j].of = children'[s][l]
          PROVE  j < i
      <4>1. CASE s = p
        BY <2>1, <3>1, <4>1
      <4>2. CASE s # p
        BY <2>2, <3>1, <4>2
      <4> QED
        BY <4>1, <4>2
    <3> QED
      BY <3>1, SMTT(30) DEF ChildrenOrder, Says, Of
<1>19. ParentsDone'
  <2>1. ASSUME NEW s, NEW i, Done(s, i), diagram[s][i].is = "sub" PROVE parent'[diagram[s][i].of] = s
    <3>1. diagram[s][i].of # x /\ s \in nodes /\ i \in 1..Len(diagram[s])
      BY <1>8, <1>9, <2>1
    <3>2. diagram[s][i].of \in Function
      BY <1>3, <2>1, <3>1, Lengths, ClausesAre
    <3>3. parent[diagram[s][i].of] = s
      BY <2>1, <3>1 DEF Good, ParentsDone, Says, Of
    <3> QED
      BY <1>10, <3>1, <3>2, <3>3
  <2> QED
    BY <1>c, <1>d, <1>10, <2>1 DEF ParentsDone, Says, Of
<1>20. NotMixed'
  <2>1. ASSUME NEW d \in 1..Len(calls') - 1
        PROVE  /\ ClauseAt(d)' = ClauseAt(d) /\ d \in 1..Len(calls) - 1
               /\ calls'[d].node = calls[d].node /\ calls[d].node \in Function /\ calls[d].node # p
    <3>1. /\ ClauseAt(d)' = ClauseAt(d) /\ calls'[d].node = calls[d].node /\ d \in 1..Len(calls) - 1
          /\ d # Len(calls) - 1 /\ d \in 1..Len(calls)
      BY <1>1, <1>2
    <3>2. calls[d].node \in Function
      BY <3>1, FramesAre DEF WalkTypeOK
    <3> QED
      BY <1>4, <3>1, <3>2
  <2> QED
    BY <1>10, <2>1 DEF Good, NotMixed
<1>21. DefaultsThere'
  <2>1. ~NoDefault(x)'
    <3>1. ~NoDefault(x)
      BY <1>0
    <3>2. children'[x] = children[x] /\ regions'[x] = regions[x]
      BY <1>c, <1>2, <1>10
    <3> QED
      BY <3>1, <3>2 DEF NoDefault
  <2>2. ASSUME NEW s \in nodes, s # x, ~OnStack(s) PROVE ~NoDefault(s)'
    BY <1>3, <1>6, <1>10, <2>2 DEF Good, DefaultsThere, NoDefault
  <2> QED
    <3>1. ASSUME NEW s \in nodes, ~OnStack(s)' PROVE ~NoDefault(s)'
      <4>1. CASE s = x
        BY <2>1, <4>1
      <4>2. CASE s # x
        <5>1. ~OnStack(s)
          BY <1>1, <3>1, <4>2
        <5> QED
          BY <2>2, <4>2, <5>1
      <4> QED
        BY <4>1, <4>2
    <3> QED
      BY <3>1 DEF DefaultsThere
<1> QED
  BY <1>1, <1>12, <1>13, <1>14, <1>15, <1>16, <1>17, <1>18, <1>19, <1>20, <1>21 DEF Good

\* The function of the root returns without an error.
LEMMA RootReturnIsGood ==
    ASSUME WalkTypeOK, WellStacked, Good, calls # <<>>, Last(calls).at > Len(diagram[Caller]),
           Len(calls) <= 1, calls' = <<>>, ~NoDefault(Caller),
           UNCHANGED <<diagram, binding, nodes, timers, live, parent, children, default, regions, failures>>
    PROVE  Good'
<1>1. /\ Len(calls') = 0 /\ Len(calls) \in Nat
      /\ \A s, i : (Done(s, i)' <=> Done(s, i)) /\ (Begun(s, i)' <=> Begun(s, i))
      /\ \A s : OnStack(s) => s = Caller
  BY RootReturns, TopFrame
<1>2. SubsKnown' /\ SubsOnce' /\ NodesCome'
  BY <1>1 DEF Good, SubsKnown, SubsOnce, NodesCome, Says, Of
<1>3. TimersKnown' /\ TimersOnce' /\ TimersCome'
  BY <1>1 DEF Good, TimersKnown, TimersOnce, TimersCome, Says, Of
<1>4. TimersWhole'
  BY DEF Good, TimersWhole, Handles
<1>5. Alike' /\ RegionsHaveChildren' /\ ChildrenAll' /\ ParentsDone'
  <2>1. Alike' /\ RegionsHaveChildren'
    BY <1>1 DEF Good, Alike, RegionsHaveChildren, Says
  <2>2. ChildrenAll'
    BY <1>1 DEF Good, ChildrenAll, Says, Of
  <2>3. ParentsDone'
    BY <1>1 DEF Good, ParentsDone, Says, Of
  <2> QED
    BY <2>1, <2>2, <2>3
<1>6. ChildrenOnly' /\ ChildrenOrder'
  <2>1. ChildrenOnly'
    BY <1>1, SMTT(30) DEF Good, ChildrenOnly, Says, Of
  <2>2. ChildrenOrder'
    <3>1. ChildrenOrder
      BY DEF Good
    <3> QED
      BY <1>1, <3>1, OrderStays
  <2> QED
    BY <2>1, <2>2
<1>7. NotMixed'
  BY <1>1 DEF NotMixed
<1>8. DefaultsDone' /\ DefaultsOnce' /\ DefaultsCome'
  BY <1>1 DEF Good, DefaultsDone, DefaultsOnce, DefaultsCome, Says, Of
<1>9. DefaultsThere'
  <2>1. ASSUME NEW s \in nodes PROVE ~NoDefault(s)
    BY <1>1 DEF Good, DefaultsThere
  <2>2. \A s : NoDefault(s)' <=> NoDefault(s)
    BY DEF NoDefault
  <2> QED
    BY <2>1, <2>2 DEF DefaultsThere
<1> QED
  BY <1>2, <1>3, <1>4, <1>5, <1>6, <1>7, <1>8, <1>9 DEF Good

\* walk_init begins with the function of the root.
LEMMA RootIsGood ==
    ASSUME WalkTypeOK, nodes = {}, timers = {}, calls = <<>>, failures = 0,
           children = [s \in Function |-> <<>>], default = [s \in Function |-> Null],
           regions = [s \in Function |-> FALSE],
           calls' = Append(calls, [node |-> Root, at |-> 1]), nodes' = nodes \cup {Root},
           UNCHANGED <<diagram, binding, timers, parent, children, default, regions, failures>>
    PROVE  Good' /\ WellStacked' /\ calls' \in Seq(Frame) /\ calls' # <<>>
<1>1. /\ calls' \in Seq(Frame) /\ calls' # <<>> /\ WellStacked' /\ Len(calls') = 1
      /\ \A s, i : ~Done(s, i)' /\ ~Begun(s, i)'
      /\ \A s : OnStack(s)' <=> s = Root
  BY RootCalled
<1>2. nodes' = {Root} /\ Root \in Function
  BY NullIsNone
<1>3. SubsKnown' /\ SubsOnce' /\ NodesCome'
  BY <1>1, <1>2 DEF SubsKnown, SubsOnce, NodesCome
<1>4. TimersKnown' /\ TimersOnce' /\ TimersCome' /\ TimersWhole'
  BY <1>1 DEF TimersKnown, TimersOnce, TimersCome, TimersWhole
<1>5. \A s \in Function : Len(children'[s]) = 0 /\ ~regions'[s] /\ default'[s] = Null
  OBVIOUS
<1>6. Alike' /\ RegionsHaveChildren' /\ ChildrenAll' /\ ParentsDone'
  BY <1>1, <1>5 DEF Alike, RegionsHaveChildren, ChildrenAll, ParentsDone
<1>7. ChildrenOnly' /\ ChildrenOrder'
  BY <1>1, <1>5 DEF ChildrenOnly, ChildrenOrder
<1>8. NotMixed'
  BY <1>1 DEF NotMixed
<1>9. DefaultsDone' /\ DefaultsOnce' /\ DefaultsCome' /\ DefaultsThere'
  BY <1>1, <1>2, <1>5 DEF DefaultsDone, DefaultsOnce, DefaultsCome, DefaultsThere
<1> QED
  BY <1>1, <1>3, <1>4, <1>6, <1>7, <1>8, <1>9 DEF Good
--------------------------------------------------------------------------------
(* Every error that the walk finds is one of the declaration. *)

LEMMA WhereIs ==
    ASSUME NEW s, NEW kind
    PROVE  \A i : i \in Where(s, kind) <=> i \in 1..Len(diagram[s]) /\ diagram[s][i].is = kind
BY DEF Where

\* Two clauses of one kind that say the same
LEMMA TwiceIsUnsound ==
    ASSUME NEW kind \in {"sub", "timeout"}, NEW s \in Declared, NEW t \in Declared,
           NEW i \in 1..Len(diagram[s]), NEW j \in 1..Len(diagram[t]),
           diagram[s][i].is = kind, diagram[t][j].is = kind, diagram[s][i].of = diagram[t][j].of,
           ~(s = t /\ i = j),
           kind = "sub" => diagram[s][i].of \in Declared, kind = "timeout" => diagram[s][i].of \in Timers
    PROVE  ~Sound
<1>1. ~Once(diagram[s][i].of, kind)
  BY WhereIs, SMTT(30) DEF Once
<1> QED
  BY <1>1 DEF Sound

\* vivid_sub_node finds regions beside other sub-states.
LEMMA MixedIsUnsound ==
    ASSUME WalkTypeOK, WellStacked, Good, nodes \subseteq Declared,
           calls # <<>>, Last(calls).at <= Len(diagram[Caller]),
           Now.is = "sub", Mixed(Now.region)
    PROVE  ~Sound
<1> DEFINE c == Caller
           a == Last(calls).at
<1>1. /\ c \in nodes /\ c \in Function /\ c \in Declared /\ a \in 1..Len(diagram[c])
      /\ Now = diagram[c][a] /\ diagram[c][a].is = "sub" /\ Now.region \in BOOLEAN
      /\ regions[c] \in BOOLEAN
  BY NowIs, ClausesAre DEF WalkTypeOK
<1>2. children[c] # <<>> /\ Now.region # regions[c]
  BY <1>1 DEF Mixed, Good, RegionsHaveChildren
<1> HIDE DEF c, a
<1>3. 1 \in 1..Len(children[c])
  BY <1>1, <1>2 DEF WalkTypeOK
<1>4. PICK i \in 1..Len(diagram[c]) : Done(c, i) /\ diagram[c][i].is = "sub"
  BY <1>1, <1>3 DEF Good, ChildrenOnly, Says
<1>5. diagram[c][i].region = regions[c]
  BY <1>1, <1>4 DEF Good, Alike, Says
<1>6. i \in Where(c, "sub") /\ a \in Where(c, "sub") /\ diagram[c][i].region # diagram[c][a].region
  BY <1>1, <1>2, <1>4, <1>5, WhereIs
<1> QED
  BY <1>1, <1>6 DEF Sound

\* walk_init finds that the state has a node.
LEMMA AgainIsUnsound ==
    ASSUME WalkTypeOK, WellStacked, Good, nodes \subseteq Declared,
           calls # <<>>, Last(calls).at <= Len(diagram[Caller]),
           Now.is = "sub", Now.of \in nodes
    PROVE  ~Sound
<1> DEFINE c == Caller
           a == Last(calls).at
           x == Now.of
<1>1. /\ c \in nodes /\ c \in Function /\ c \in Declared /\ a \in 1..Len(diagram[c])
      /\ diagram[c][a].is = "sub" /\ diagram[c][a].of = x /\ ~Begun(c, a) /\ x \in Declared
  BY NowIs
<1> HIDE DEF c, a, x
<1>2. CASE x = Root
  <2>1. Root \in Subs(c)
    BY <1>1, <1>2, WhereIs DEF Subs
  <2> QED
    BY <1>1, <2>1 DEF Sound
<1>3. CASE x # Root
  <2>1. x \in nodes
    BY DEF x
  <2>2. PICK s \in nodes : \E i \in 1..Len(diagram[s]) :
            Begun(s, i) /\ diagram[s][i].is = "sub" /\ diagram[s][i].of = x
    BY <1>3, <2>1 DEF Good, NodesCome, Says, Of
  <2>2b. PICK i \in 1..Len(diagram[s]) :
            Begun(s, i) /\ diagram[s][i].is = "sub" /\ diagram[s][i].of = x
    BY <2>2
  <2>3. ~(s = c /\ i = a) /\ s \in Declared
    BY <1>1, <2>2b
  <2> QED
    BY <1>1, <2>2b, <2>3, TwiceIsUnsound
<1> QED
  BY <1>2, <1>3

\* vivid_default finds that there is a default, or that the state has no node.
LEMMA DefaultIsUnsound ==
    ASSUME WalkTypeOK, WellStacked, Good, nodes \subseteq Declared,
           calls # <<>>, Last(calls).at <= Len(diagram[Caller]),
           Now.is = "default", default[Caller] # Null \/ Now.of \notin nodes
    PROVE  ~(Sound /\ DefaultBelow)
<1> DEFINE c == Caller
           a == Last(calls).at
<1>1. /\ c \in nodes /\ c \in Function /\ c \in Declared /\ a \in 1..Len(diagram[c])
      /\ diagram[c][a].is = "default" /\ Now = diagram[c][a] /\ ~Done(c, a)
      /\ \A j \in 1..Len(diagram[c]) : j < a => Begun(c, j)
  BY NowIs
<1>2. default[c] # Null \/ Now.of \notin nodes
  OBVIOUS
<1> HIDE DEF c, a
<1>3. a \in Where(c, "default")
  BY <1>1, WhereIs
<1>4. CASE default[c] # Null
  <2>1. PICK i \in 1..Len(diagram[c]) : Done(c, i) /\ diagram[c][i].is = "default"
    BY <1>1, <1>4 DEF Good, DefaultsCome, Says
  <2>2. i \in Where(c, "default") /\ i # a
    BY <1>1, <2>1, WhereIs
  <2> QED
    BY <1>1, <1>3, <2>2 DEF Sound
<1>5. CASE Now.of \notin nodes
  <2>1. ASSUME DefaultBelow PROVE FALSE
    <3>1. PICK j \in Where(c, "sub") : j < a /\ diagram[c][j].of = Now.of
      BY <1>1, <1>3, <2>1 DEF DefaultBelow
    <3>2. j \in 1..Len(diagram[c]) /\ diagram[c][j].is = "sub"
      BY WhereIs
    <3>3. Begun(c, j)
      BY <1>1, <3>1, <3>2
    <3> QED
      BY <1>1, <1>5, <3>1, <3>2, <3>3 DEF Good, SubsKnown, Says, Of
  <2> QED
    BY <2>1
<1> QED
  BY <1>2, <1>4, <1>5

\* vivid_on_timeout finds that there is a timer of that name.
LEMMA TimeoutIsUnsound ==
    ASSUME WalkTypeOK, WellStacked, Good, nodes \subseteq Declared,
           calls # <<>>, Last(calls).at <= Len(diagram[Caller]),
           Now.is = "timeout", Now.of \in timers
    PROVE  ~Sound
<1> DEFINE c == Caller
           a == Last(calls).at
           u == Now.of
<1>1. /\ c \in nodes /\ c \in Function /\ c \in Declared /\ a \in 1..Len(diagram[c])
      /\ diagram[c][a].is = "timeout" /\ diagram[c][a].of = u /\ ~Done(c, a) /\ u \in Timers /\ u \in timers
  BY NowIs, ClausesAre
<1> HIDE DEF c, a, u
<1>2. PICK s \in nodes : \E i \in 1..Len(diagram[s]) :
          Done(s, i) /\ diagram[s][i].is = "timeout" /\ diagram[s][i].of = u
  BY <1>1 DEF Good, TimersCome, Says, Of
<1>2b. PICK i \in 1..Len(diagram[s]) :
          Done(s, i) /\ diagram[s][i].is = "timeout" /\ diagram[s][i].of = u
  BY <1>2
<1>3. ~(s = c /\ i = a) /\ s \in Declared
  BY <1>1, <1>2b
<1> QED
  BY <1>1, <1>2b, <1>3, TwiceIsUnsound

\* A function has run, and there is a choice without a default.
LEMMA NoDefaultIsUnsound ==
    ASSUME WalkTypeOK, WellStacked, Good, nodes \subseteq Declared,
           calls # <<>>, Last(calls).at > Len(diagram[Caller]), NoDefault(Caller)
    PROVE  ~Sound
<1> DEFINE c == Caller
<1>1. /\ c \in nodes /\ c \in Function /\ c \in Declared
      /\ Len(calls) \in 1..Len(calls) /\ calls[Len(calls)].node = c
      /\ calls[Len(calls)].at > Len(diagram[c]) /\ Len(diagram[c]) \in Nat /\ calls[Len(calls)].at \in Nat
  BY TopFrame
<1>2. children[c] # <<>> /\ ~regions[c] /\ default[c] = Null
  BY DEF NoDefault
<1> HIDE DEF c
<1>3. \A j \in 1..Len(diagram[c]) : Done(c, j)
  <2>1. \A d \in 1..Len(calls) : calls[d].node = c => d = Len(calls)
    BY <1>1 DEF WellStacked
  <2> QED
    BY <1>1, <2>1 DEF Done, Clausal
<1>4. 1 \in 1..Len(children[c])
  BY <1>1, <1>2 DEF WalkTypeOK
<1>5. PICK i \in 1..Len(diagram[c]) : Done(c, i) /\ diagram[c][i].is = "sub"
  BY <1>1, <1>4 DEF Good, ChildrenOnly, Says
<1>6. i \in Where(c, "sub") /\ ~diagram[c][i].region
  <2>1. diagram[c][i].region = regions[c]
    BY <1>1, <1>5 DEF Good, Alike, Says
  <2> QED
    BY <1>2, <1>5, <2>1, WhereIs
<1>7. ASSUME Sound PROVE FALSE
  <2>1. PICK j \in Where(c, "default") : TRUE
    BY <1>1, <1>6, <1>7 DEF Sound
  <2>2. j \in 1..Len(diagram[c]) /\ diagram[c][j].is = "default"
    BY WhereIs
  <2>3. diagram[c][j].of \in Function
    BY <1>1, <2>2, Lengths, ClausesAre
  <2> QED
    BY <1>1, <1>2, <1>3, <2>2, <2>3, NullIsNone DEF Good, DefaultsDone, Says, Of
<1> QED
  BY <1>7
--------------------------------------------------------------------------------
(* One step of the walk at a time *)

\* What a step leaves alone that touches no clause
LEMMA TreeStays ==
    ASSUME WalkTypeOK, WellStacked, nodes \subseteq Declared,
           UNCHANGED <<machine, tree>>, failures' = failures \/ failures' = failures + 1
    PROVE  WalkTypeOK' /\ WellStacked' /\ nodes' \subseteq Declared'
<1>1. UNCHANGED <<diagram, nodes, calls, parent, children, default, regions, initError>>
  BY DEF machine, tree
<1>2. Declared' = Declared
  BY <1>1, DeclarationStays
<1>3. failures' \in Nat
  BY DEF WalkTypeOK
<1>4. WalkTypeOK'
  BY <1>1, <1>3 DEF WalkTypeOK
<1>5. WellStacked'
  BY <1>1 DEF WellStacked, ClauseAt
<1> QED
  BY <1>1, <1>2, <1>4, <1>5

LEMMA GoodStays ==
    ASSUME Good, UNCHANGED <<machine, tree, failures>>, live \subseteq live'
    PROVE  Good'
<1>1. /\ UNCHANGED <<diagram, nodes, timers, calls, parent, children, default, regions>>
      /\ UNCHANGED <<binding, failures>>
  BY DEF machine, tree
<1>2. \A s, i : (Done(s, i)' <=> Done(s, i)) /\ (Begun(s, i)' <=> Begun(s, i))
  BY <1>1 DEF Done, Begun, Clausal
<1>3. SubsKnown' /\ SubsOnce' /\ NodesCome'
  BY <1>1, <1>2 DEF Good, SubsKnown, SubsOnce, NodesCome, Says, Of
<1>4. TimersKnown' /\ TimersOnce' /\ TimersCome'
  BY <1>1, <1>2 DEF Good, TimersKnown, TimersOnce, TimersCome, Says, Of
<1>5. TimersWhole'
  BY <1>1 DEF Good, TimersWhole, Handles
<1>6. Alike' /\ RegionsHaveChildren' /\ ChildrenAll' /\ ParentsDone'
  BY <1>1, <1>2 DEF Good, Alike, RegionsHaveChildren, ChildrenAll, ParentsDone, Says, Of
<1>7. ChildrenOnly'
  BY <1>1, <1>2 DEF Good, ChildrenOnly, Says, Of
<1>8. ChildrenOrder'
  <2>1. ChildrenOrder
    BY DEF Good
  <2> QED
    BY <1>1, <1>2, <2>1, OrderStays
<1>9. NotMixed'
  BY <1>1 DEF Good, NotMixed, ClauseAt
<1>10. DefaultsDone' /\ DefaultsOnce' /\ DefaultsCome'
  BY <1>1, <1>2 DEF Good, DefaultsDone, DefaultsOnce, DefaultsCome, Says, Of
<1>11. DefaultsThere'
  BY <1>1 DEF Good, DefaultsThere, OnStack, NoDefault
<1> QED
  BY <1>1, <1>3, <1>4, <1>5, <1>6, <1>7, <1>8, <1>9, <1>10, <1>11 DEF Good

\* The walk goes on.
LEMMA WalkGoesOn ==
    ASSUME pc' = "walk", calls' # <<>>, Root \in nodes', ~initError' => Good', initError' => Blamed'
    PROVE  WalkedOn'
<1>1. pc' \notin BeforeWalk /\ pc' \notin {"queue", "created", "destroy"}
  BY DEF BeforeWalk
<1> QED
  BY <1>1 DEF WalkedOn, Refused

\* A clause runs into an error.
LEMMA ClauseFails ==
    ASSUME WalkInvariant, pc = "walk", Last(calls).at <= Len(diagram[Caller]),
           calls' = Step(calls), initError' = TRUE, pc' = "walk",
           UNCHANGED <<diagram, nodes, parent, children, default, regions>>,
           \/ failures' = failures + 1
           \/ failures' = failures /\ (initError \/ Blamed)
    PROVE  WalkInvariant'
<1>1. WalkTypeOK /\ WellStacked /\ nodes \subseteq Declared /\ calls # <<>> /\ Root \in nodes /\ (initError => Blamed)
  BY DEF WalkInvariant, WalkedOn
<1>2. calls' \in Seq(Frame) /\ calls' # <<>> /\ WellStacked'
  BY <1>1, ClauseRun
<1>3. failures' \in Nat /\ Blamed'
  BY <1>1, BlamedStays
<1>4. WalkTypeOK'
  BY <1>1, <1>2, <1>3 DEF WalkTypeOK
<1>5. nodes' \subseteq Declared'
  BY <1>1, DeclarationStays
<1>6. WalkedOn'
  BY <1>1, <1>2, <1>3, WalkGoesOn
<1> QED
  BY <1>2, <1>4, <1>5, <1>6 DEF WalkInvariant

\* What holds while a clause runs
LEMMA WhileRunning ==
    ASSUME WalkInvariant, NEW kind, Running(kind)
    PROVE  /\ WalkTypeOK /\ WellStacked /\ nodes \subseteq Declared /\ calls # <<>> /\ Root \in nodes
           /\ pc = "walk" /\ Last(calls).at <= Len(diagram[Caller]) /\ Now.is = kind
           /\ initError \in BOOLEAN /\ (~initError => Good) /\ (initError => Blamed)
BY DEF WalkInvariant, WalkedOn, Running, Clauses, WalkTypeOK

LEMMA SubNodeMixedWalks == WalkInvariant /\ SubNodeMixed => WalkInvariant'
<1> SUFFICES ASSUME WalkInvariant, SubNodeMixed PROVE WalkInvariant'
  OBVIOUS
<1>1. /\ Running("sub") /\ Mixed(Now.region) /\ initError' = TRUE /\ calls' = Step(calls)
      /\ pc' = pc /\ failures' = failures
      /\ UNCHANGED <<diagram, nodes, parent, children, default, regions>>
  BY DEF SubNodeMixed, machine
<1>2. ~initError => Blamed
  BY <1>1, WhileRunning, MixedIsUnsound DEF Blamed
<1> QED
  BY <1>1, <1>2, WhileRunning, ClauseFails

LEMMA SubNodeWalks == WalkInvariant /\ SubNode => WalkInvariant'
<1> SUFFICES ASSUME WalkInvariant, SubNode PROVE WalkInvariant'
  OBVIOUS
<1>1. /\ Running("sub") /\ ~Mixed(Now.region) /\ Enter(Now.of)
      /\ UNCHANGED <<diagram, binding, timers, parent, children, default, regions>>
  BY DEF SubNode, Enter, machine
<1>2. /\ WalkTypeOK /\ WellStacked /\ nodes \subseteq Declared /\ calls # <<>> /\ Root \in nodes
      /\ pc = "walk" /\ Last(calls).at <= Len(diagram[Caller]) /\ Now.is = "sub"
      /\ initError \in BOOLEAN /\ (~initError => Good) /\ (initError => Blamed)
  BY <1>1, WhileRunning
<1>3. EnterFails => initError' = TRUE /\ calls' = Step(calls) /\ pc' = "walk"
  BY <1>2 DEF EnterFails, Continue
<1>4. CASE EnterFails /\ nodes' = nodes /\ failures' = failures + 1
  BY <1>1, <1>2, <1>3, <1>4, ClauseFails
<1>5. CASE EnterFails /\ nodes' = nodes /\ failures' = failures /\ Now.of \in nodes
  <2>1. ~initError => Blamed
    BY <1>2, <1>5, AgainIsUnsound DEF Blamed
  <2> QED
    BY <1>1, <1>2, <1>3, <1>5, <2>1, ClauseFails
<1>6. CASE /\ Now.of \notin nodes /\ live \subseteq live' /\ nodes' = nodes \cup {Now.of}
           /\ calls' = Append(calls, [node |-> Now.of, at |-> 1])
           /\ pc' = "walk" /\ UNCHANGED <<initError, failures>>
  <2>1. Now.of \in Function /\ Now.of \in Declared
    BY <1>2, NowIs, ClausesAre, DeclaredIs
  <2>2. calls' \in Seq(Frame) /\ calls' # <<>> /\ WellStacked'
    BY <1>1, <1>2, <1>6, <2>1, FunctionCalled
  <2>3. ~initError' => Good'
    BY <1>1, <1>2, <1>6, EnterIsGood
  <2>4. initError' => Blamed'
    BY <1>1, <1>2, <1>6, BlamedStays
  <2>5. WalkTypeOK'
    BY <1>1, <1>2, <1>6, <2>1, <2>2 DEF WalkTypeOK
  <2>6. nodes' \subseteq Declared'
    BY <1>1, <1>2, <1>6, <2>1, DeclarationStays
  <2>7. WalkedOn'
    BY <1>2, <1>6, <2>2, <2>3, <2>4, WalkGoesOn
  <2> QED
    BY <2>2, <2>5, <2>6, <2>7 DEF WalkInvariant
<1> QED
  <2>1. \/ Obtain("node_entry", Now.of, FALSE) /\ EnterFails /\ nodes' = nodes
        \/ AlreadyDefined(Now.of) /\ EnterFails /\ UNCHANGED <<failures, nodes>>
        \/ failures' = failures + 1 /\ EnterFails /\ UNCHANGED nodes
        \/ /\ ~AlreadyDefined(Now.of)
           /\ live' = live \cup {<<"node_entry", "node_entry", Now.of>>, <<"node", "node", Now.of>>}
           /\ nodes' = nodes \cup {Now.of}
           /\ calls' = Append(calls, [node |-> Now.of, at |-> 1])
           /\ Continue("walk")
           /\ UNCHANGED <<initError, failures>>
    BY <1>1 DEF Enter
  <2>2. Obtain("node_entry", Now.of, FALSE) => failures' = failures + 1
    BY DEF Obtain
  <2> QED
    BY <1>4, <1>5, <1>6, <2>1, <2>2 DEF AlreadyDefined, Continue

LEMMA DefaultWalks == WalkInvariant /\ Default => WalkInvariant'
<1> SUFFICES ASSUME WalkInvariant, Default PROVE WalkInvariant'
  OBVIOUS
<1>1. /\ Running("default") /\ calls' = Step(calls)
      /\ UNCHANGED <<diagram, binding, pc, live, nodes, timers, parent, children, regions, failures>>
  BY DEF Default, machine
<1>2. /\ WalkTypeOK /\ WellStacked /\ nodes \subseteq Declared /\ calls # <<>> /\ Root \in nodes
      /\ pc = "walk" /\ Last(calls).at <= Len(diagram[Caller]) /\ Now.is = "default"
      /\ initError \in BOOLEAN /\ (~initError => Good) /\ (initError => Blamed)
  BY <1>1, WhileRunning
<1>3. CASE default[Caller] = Null /\ Now.of \in nodes
  <2>1. default' = [default EXCEPT ![Caller] = Now.of] /\ initError' = initError
    BY <1>3 DEF Default
  <2>2. calls' \in Seq(Frame) /\ calls' # <<>> /\ WellStacked'
    BY <1>1, <1>2, ClauseRun
  <2>3. ~initError' => Good'
    BY <1>1, <1>2, <1>3, <2>1, DefaultIsGood
  <2>4. initError' => Blamed'
    BY <1>1, <1>2, <2>1, BlamedStays
  <2>5. Now.of \in Function
    BY <1>2, NowIs, ClausesAre
  <2>6. WalkTypeOK'
    BY <1>1, <1>2, <2>1, <2>2, <2>5 DEF WalkTypeOK
  <2>7. nodes' \subseteq Declared'
    BY <1>1, <1>2, DeclarationStays
  <2>8. WalkedOn'
    BY <1>1, <1>2, <2>2, <2>3, <2>4, WalkGoesOn
  <2> QED
    BY <2>2, <2>6, <2>7, <2>8 DEF WalkInvariant
<1>4. CASE ~(default[Caller] = Null /\ Now.of \in nodes)
  <2>1. initError' = TRUE /\ default' = default
    BY <1>4 DEF Default
  <2>2. ~initError => Blamed
    BY <1>2, <1>4, DefaultIsUnsound DEF Blamed
  <2> QED
    BY <1>1, <1>2, <2>1, <2>2, ClauseFails
<1> QED
  BY <1>3, <1>4

LEMMA OnTimeoutWalks == WalkInvariant /\ OnTimeout => WalkInvariant'
<1> SUFFICES ASSUME WalkInvariant, OnTimeout PROVE WalkInvariant'
  OBVIOUS
<1> DEFINE entry == <<"timer_entry", "timer_entry", Now.of>>
           block == <<"timers", "timers", Now.of>>
           all == live \cup {entry, block} \cup Blocks("binding_timer", ToSet(Handles), Now.of)
<1>1. /\ Running("timeout") /\ calls' = Step(calls)
      /\ UNCHANGED <<diagram, binding, pc, nodes, default, parent, children, regions>>
  BY DEF OnTimeout, machine
<1>2. /\ WalkTypeOK /\ WellStacked /\ nodes \subseteq Declared /\ calls # <<>> /\ Root \in nodes
      /\ pc = "walk" /\ Last(calls).at <= Len(diagram[Caller]) /\ Now.is = "timeout"
      /\ initError \in BOOLEAN /\ (~initError => Good) /\ (initError => Blamed)
  BY <1>1, WhileRunning
<1>3. CASE initError' = TRUE /\ failures' = failures + 1
  BY <1>1, <1>2, <1>3, ClauseFails
<1>4. CASE initError' = TRUE /\ failures' = failures /\ Now.of \in timers
  <2>1. ~initError => Blamed
    BY <1>2, <1>4, TimeoutIsUnsound DEF Blamed
  <2> QED
    BY <1>1, <1>2, <1>4, <2>1, ClauseFails
<1>5. CASE /\ Now.of \notin timers /\ timers' = timers \cup {Now.of}
           /\ live' = all /\ UNCHANGED <<initError, failures>>
  <2>1. calls' \in Seq(Frame) /\ calls' # <<>> /\ WellStacked'
    BY <1>1, <1>2, ClauseRun
  <2>2. live \cup Blocks("binding_timer", ToSet(Handles), Now.of) \subseteq live'
    BY <1>5
  <2>3. ~initError' => Good'
    BY <1>1, <1>2, <1>5, <2>2, TimeoutIsGood
  <2>4. initError' => Blamed'
    BY <1>1, <1>2, <1>5, BlamedStays
  <2>5. WalkTypeOK'
    BY <1>1, <1>2, <1>5, <2>1 DEF WalkTypeOK
  <2>6. nodes' \subseteq Declared'
    BY <1>1, <1>2, DeclarationStays
  <2>7. WalkedOn'
    BY <1>1, <1>2, <2>1, <2>3, <2>4, WalkGoesOn
  <2> QED
    BY <2>1, <2>5, <2>6, <2>7 DEF WalkInvariant
<1> QED
  <2>1. \/ Obtain("timer_entry", Now.of, FALSE) /\ initError' = TRUE
        \/ Now.of \in timers /\ initError' = TRUE /\ UNCHANGED failures
        \/ failures' = failures + 1 /\ initError' = TRUE
        \/ /\ Now.of \notin timers /\ timers' = timers \cup {Now.of}
           /\ \/ failures' = failures + 1 /\ initError' = TRUE
              \/ live' = all /\ UNCHANGED <<initError, failures>>
    BY DEF OnTimeout
  <2>2. Obtain("timer_entry", Now.of, FALSE) => failures' = failures + 1
    BY DEF Obtain
  <2> QED
    BY <1>3, <1>4, <1>5, <2>1, <2>2

LEMMA FrontIsThere ==
    ASSUME NEW s \in Seq(Frame), s # <<>>, Front(s) # <<>>
    PROVE  Len(s) > 1
<1>1. Front(s) \in Seq(Frame) /\ Len(Front(s)) = Len(s) - 1
  BY FrontFrames
<1>2. Len(Front(s)) \in Nat /\ Len(Front(s)) # 0
  BY <1>1
<1> QED
  BY <1>1, <1>2

LEMMA ReturnWalks == WalkInvariant /\ Return => WalkInvariant'
<1> SUFFICES ASSUME WalkInvariant, Return PROVE WalkInvariant'
  OBVIOUS
<1> DEFINE ok == ~initError /\ ~NoDefault(Caller)
<1>1. /\ pc = "walk" /\ calls # <<>> /\ Last(calls).at > Len(diagram[Caller])
      /\ UNCHANGED <<diagram, binding, nodes, timers, live, default, failures>>
  BY DEF Return, Clauses, machine
<1>2. /\ WalkTypeOK /\ WellStacked /\ nodes \subseteq Declared /\ Root \in nodes
      /\ initError \in BOOLEAN /\ (~initError => Good) /\ (initError => Blamed)
  BY <1>1 DEF WalkInvariant, WalkedOn, WalkTypeOK
<1>3. Len(calls) \in Nat /\ (Front(calls) = <<>> <=> Len(calls) = 1) /\ Len(calls) # 0
  BY <1>1, <1>2, FrontFrames, TopFrame DEF WalkTypeOK
<1>4. ~ok => Blamed
  BY <1>1, <1>2, NoDefaultIsUnsound DEF Blamed
<1>5. ~ok => Blamed'
  BY <1>1, <1>2, <1>4, BlamedStays
<1>6. nodes' \subseteq Declared'
  BY <1>1, <1>2, DeclarationStays
<1>7. CASE Front(calls) = <<>>
  <2>1. calls' = <<>> /\ OrError(ok, "queue") /\ UNCHANGED <<parent, children, regions, initError>>
    BY <1>7 DEF Return
  <2>2. Len(calls) <= 1
    <3>1. Len(calls) = 1
      BY <1>3, <1>7
    <3> QED
      BY <3>1
  <2>3. calls' \in Seq(Frame) /\ WellStacked'
    BY <1>1, <1>2, <2>1, <2>2, RootReturns
  <2>4. WalkTypeOK'
    BY <1>1, <1>2, <2>1, <2>3 DEF WalkTypeOK
  <2>5. ok => Good' /\ pc' = "queue"
    BY <1>1, <1>2, <2>1, <2>2, RootReturnIsGood DEF OrError, Continue
  <2>6. ~ok => pc' = "destroy"
    BY <2>1 DEF OrError, Error
  <2>7. ok => WalkedOn'
    <3>1. ok => pc' \notin BeforeWalk /\ pc' \notin {"walk", "created", "destroy"}
      BY <2>5 DEF BeforeWalk
    <3> QED
      BY <1>1, <1>2, <2>1, <2>5, <3>1 DEF WalkedOn, Refused
  <2>8. ~ok => WalkedOn'
    <3>1. ~ok => pc' \notin BeforeWalk /\ pc' \notin {"walk", "queue", "created"}
      BY <2>6 DEF BeforeWalk
    <3> QED
      BY <1>5, <3>1 DEF WalkedOn
  <2> QED
    BY <1>6, <2>3, <2>4, <2>7, <2>8 DEF WalkInvariant
<1>8. CASE Front(calls) # <<>>
  <2>1. calls' = Step(Front(calls)) /\ pc' = "walk"
    BY <1>8 DEF Return, Continue
  <2>2. Len(calls) > 1
    BY <1>1, <1>2, <1>8, FrontIsThere DEF WalkTypeOK
  <2>3. calls' \in Seq(Frame) /\ calls' # <<>> /\ WellStacked'
    BY <1>1, <1>2, <2>1, <2>2, FunctionReturns
  <2>4. CASE ok
    <3>1. Link(Caller) /\ initError' = initError
      BY <1>8, <2>4 DEF Return
    <3>2. Good'
      BY <1>1, <1>2, <2>1, <2>2, <2>4, <3>1, LinkIsGood
    <3>3. Caller \in Function /\ Above \in Function /\ diagram[Above][Waiting].region \in BOOLEAN
      <4>1. /\ Above \in Function /\ Waiting \in 1..Len(diagram[Above]) /\ diagram[Above][Waiting].is = "sub"
        BY <1>1, <1>2, <2>1, <2>2, FunctionReturns
      <4> QED
        BY <1>1, <1>2, <4>1, TopFrame, Lengths, ClausesAre
    <3>4. /\ parent' = [parent EXCEPT ![Caller] = Above]
          /\ children' = [children EXCEPT ![Above] = <<Caller>> \o @]
          /\ regions' = [regions EXCEPT ![Above] = diagram[Above][Waiting].region]
      BY <3>1 DEF Link, Above, Waiting
    <3>5. <<Caller>> \o children[Above] \in Seq(Function)
      <4>1. children[Above] \in Seq(Function)
        BY <1>2, <3>3 DEF WalkTypeOK
      <4> QED
        BY <3>3, <4>1
    <3>6. children' \in [Function -> Seq(Function)]
      BY <1>2, <3>3, <3>4, <3>5 DEF WalkTypeOK
    <3>7. WalkTypeOK'
      BY <1>1, <1>2, <2>3, <3>1, <3>3, <3>4, <3>6 DEF WalkTypeOK
    <3>8. WalkedOn'
      BY <1>1, <1>2, <2>1, <2>3, <2>4, <3>1, <3>2, WalkGoesOn
    <3> QED
      BY <1>6, <2>3, <3>7, <3>8 DEF WalkInvariant
  <2>5. CASE ~ok
    <3>1. initError' = TRUE /\ UNCHANGED <<parent, children, regions>>
      BY <1>8, <2>5 DEF Return
    <3>2. WalkTypeOK'
      BY <1>1, <1>2, <2>3, <3>1 DEF WalkTypeOK
    <3>3. WalkedOn'
      BY <1>1, <1>2, <1>5, <2>1, <2>3, <2>5, <3>1, WalkGoesOn
    <3> QED
      BY <1>6, <2>3, <3>2, <3>3 DEF WalkInvariant
  <2> QED
    BY <2>4, <2>5
<1> QED
  BY <1>7, <1>8

\* While the machine is being taken down, nothing is said of the walk.
LEMMA NothingMore ==
    ASSUME pc' \in {"destroy", "gone", "crashed"}, Refused' => Blamed'
    PROVE  WalkedOn'
<1>1. pc' \notin BeforeWalk /\ pc' \notin {"walk", "queue", "created"}
  BY DEF BeforeWalk
<1> QED
  BY <1>1 DEF WalkedOn

LEMMA EnterRootWalks == WalkInvariant /\ EnterRoot => WalkInvariant'
<1> SUFFICES ASSUME WalkInvariant, EnterRoot PROVE WalkInvariant'
  OBVIOUS
<1>1. /\ pc = "root" /\ Enter(Root)
      /\ UNCHANGED <<diagram, binding, timers, parent, children, default, regions>>
  BY DEF EnterRoot, Enter, machine
<1>2. Untouched /\ failures = 0 /\ nodes = {} /\ calls = <<>> /\ initError = FALSE
  BY <1>1 DEF WalkInvariant, WalkedOn, BeforeWalk, Untouched
<1>3. WalkTypeOK /\ WellStacked /\ nodes \subseteq Declared
  BY DEF WalkInvariant
<1>4. EnterFails => pc' = "destroy" /\ calls' = calls /\ initError' = initError
  BY <1>2 DEF EnterFails, Error
<1>5. CASE EnterFails /\ nodes' = nodes /\ failures' = failures + 1
  <2>1. WalkTypeOK'
    BY <1>1, <1>3, <1>4, <1>5 DEF WalkTypeOK
  <2>2. WellStacked'
    BY <1>1, <1>2, <1>3, <1>4, <1>5 DEF WellStacked, ClauseAt
  <2>3. nodes' \subseteq Declared'
    BY <1>2, <1>5
  <2>4. Blamed'
    BY <1>1, <1>3, <1>5, BlamedStays
  <2> QED
    BY <1>4, <1>5, <2>1, <2>2, <2>3, <2>4, NothingMore DEF WalkInvariant
<1>6. CASE /\ nodes' = nodes \cup {Root} /\ calls' = Append(calls, [node |-> Root, at |-> 1])
           /\ pc' = "walk" /\ UNCHANGED <<initError, failures>>
  <2>1. timers = {} /\ children = [s \in Function |-> <<>>] /\ default = [s \in Function |-> Null]
        /\ regions = [s \in Function |-> FALSE]
    BY <1>2 DEF Untouched
  <2>2. Good' /\ WellStacked' /\ calls' \in Seq(Frame) /\ calls' # <<>>
    BY <1>1, <1>2, <1>3, <1>6, <2>1, RootIsGood
  <2>3. WalkTypeOK'
    BY <1>1, <1>2, <1>3, <1>6, <2>2, NullIsNone DEF WalkTypeOK
  <2>4. nodes' \subseteq Declared' /\ Root \in nodes'
    BY <1>1, <1>2, <1>3, <1>6, DeclaredIs, DeclarationStays
  <2>5. WalkedOn'
    BY <1>2, <1>6, <2>2, <2>4, WalkGoesOn
  <2> QED
    BY <2>2, <2>3, <2>4, <2>5 DEF WalkInvariant
<1> QED
  <2>1. \/ Obtain("node_entry", Root, FALSE) /\ EnterFails /\ nodes' = nodes
        \/ AlreadyDefined(Root)
        \/ failures' = failures + 1 /\ EnterFails /\ UNCHANGED nodes
        \/ /\ nodes' = nodes \cup {Root}
           /\ calls' = Append(calls, [node |-> Root, at |-> 1])
           /\ Continue("walk")
           /\ UNCHANGED <<initError, failures>>
    BY <1>1 DEF Enter
  <2>2. Obtain("node_entry", Root, FALSE) => failures' = failures + 1
    BY DEF Obtain
  <2> QED
    BY <1>2, <1>5, <1>6, <2>1, <2>2 DEF AlreadyDefined, Continue

LEMMA WalksWalk == WalkInvariant /\ Walks => WalkInvariant'
BY EnterRootWalks, SubNodeMixedWalks, SubNodeWalks, DefaultWalks, OnTimeoutWalks, ReturnWalks DEF Walks
--------------------------------------------------------------------------------
(* Before the walk, and after it *)

LEMMA FieldIs ==
    ASSUME NEW f, NEW ok \in BOOLEAN, Field(f, ok)
    PROVE  /\ ok => held' = held \cup {f} /\ failures' = failures /\ live \subseteq live'
           /\ ~ok => held' = held /\ failures' = failures + 1
<1>1. CASE ok = TRUE
  BY <1>1 DEF Field, Obtain
<1>2. CASE ok = FALSE
  BY <1>2 DEF Field, Obtain
<1> QED
  BY <1>1, <1>2

LEMMA StillUntouched ==
    ASSUME Untouched, UNCHANGED tree,
           pc' = "node_map" => (failures' = 0 <=> "binding_event" \in held'),
           pc' = "timer_map" => (failures' = 0 <=> {"binding_event", "node_map"} \subseteq held'),
           pc' \notin {"node_map", "timer_map"} => failures' = 0,
           pc' = "event" => held' \subseteq {"sm"},
           pc' = "node_map" => held' \subseteq {"sm", "binding_event"},
           pc' = "timer_map" => held' \subseteq {"sm", "binding_event", "node_map"}
    PROVE  Untouched'
<1>1. UNCHANGED <<nodes, timers, calls, initError, children, default, regions>>
  BY DEF tree
<1> QED
  BY <1>1 DEF Untouched

LEMMA BeforeIsBefore ==
    ASSUME pc' \in BeforeWalk, Untouched'
    PROVE  WalkedOn'
<1>1. pc' \notin {"walk", "queue", "created", "destroy"}
  BY DEF BeforeWalk
<1> QED
  BY <1>1 DEF WalkedOn, Refused

LEMMA FailedIsBlamed ==
    ASSUME WalkTypeOK, UNCHANGED diagram, failures' = failures + 1
    PROVE  Blamed'
BY BlamedStays

LEMMA CreateSmWalks == LeavesNothing /\ WalkInvariant /\ CreateSm => WalkInvariant'
<1> SUFFICES ASSUME LeavesNothing, WalkInvariant, CreateSm PROVE WalkInvariant'
  OBVIOUS
<1>1. PICK ok \in BOOLEAN : Field("sm", ok) /\ pc' = IF ok THEN "event" ELSE "gone"
  BY DEF CreateSm, Continue
<1>2. pc = "create" /\ UNCHANGED <<machine, tree>> /\ held = {}
  BY DEF CreateSm, LeavesNothing, InOrder
<1>3. Untouched /\ failures = 0
  BY <1>2 DEF WalkInvariant, WalkedOn, BeforeWalk, Untouched
<1>4. failures' = failures \/ failures' = failures + 1
  BY <1>1, FieldIs
<1>5. WalkTypeOK' /\ WellStacked' /\ nodes' \subseteq Declared'
  BY <1>2, <1>4, TreeStays DEF WalkInvariant
<1>6. CASE ok
  <2>1. pc' = "event" /\ held' \subseteq {"sm"} /\ failures' = 0
    BY <1>1, <1>2, <1>3, <1>6, FieldIs
  <2> QED
    BY <1>2, <1>3, <1>5, <2>1, StillUntouched, BeforeIsBefore DEF WalkInvariant, BeforeWalk
<1>7. CASE ~ok
  <2>1. pc' = "gone"
    BY <1>1, <1>7
  <2> QED
    BY <1>5, <2>1, NothingMore DEF WalkInvariant, Refused
<1> QED
  BY <1>6, <1>7

LEMMA CreateEventWalks == WalkInvariant /\ CreateEvent => WalkInvariant'
<1> SUFFICES ASSUME WalkInvariant, CreateEvent PROVE WalkInvariant'
  OBVIOUS
<1>1. PICK ok \in BOOLEAN : Field("binding_event", ok)
  BY DEF CreateEvent
<1>2. pc = "event" /\ UNCHANGED <<machine, tree>> /\ pc' = "node_map"
  BY DEF CreateEvent, Continue
<1>3. Untouched /\ failures = 0 /\ held \subseteq {"sm"}
  BY <1>2 DEF WalkInvariant, WalkedOn, BeforeWalk, Untouched
<1>4. failures' = failures \/ failures' = failures + 1
  BY <1>1, FieldIs
<1>5. WalkTypeOK' /\ WellStacked' /\ nodes' \subseteq Declared'
  BY <1>2, <1>4, TreeStays DEF WalkInvariant
<1>6. /\ failures' = 0 <=> "binding_event" \in held'
      /\ held' \subseteq {"sm", "binding_event"}
  <2>1. CASE ok
    <3>1. held' = held \cup {"binding_event"} /\ failures' = failures
      BY <1>1, <2>1, FieldIs
    <3> QED
      BY <1>3, <3>1
  <2>2. CASE ~ok
    <3>1. held' = held /\ failures' = failures + 1
      BY <1>1, <2>2, FieldIs
    <3> QED
      BY <1>3, <3>1
  <2> QED
    BY <2>1, <2>2
<1>7. Untouched'
  BY <1>2, <1>3, <1>6, StillUntouched
<1> QED
  BY <1>2, <1>5, <1>7, BeforeIsBefore DEF WalkInvariant, BeforeWalk

LEMMA CreateNodeMapWalks == WalkInvariant /\ CreateNodeMap => WalkInvariant'
<1> SUFFICES ASSUME WalkInvariant, CreateNodeMap PROVE WalkInvariant'
  OBVIOUS
<1>1. PICK ok \in BOOLEAN : Field("node_map", ok)
  BY DEF CreateNodeMap
<1>2. pc = "node_map" /\ UNCHANGED <<machine, tree>> /\ pc' = "timer_map"
  BY DEF CreateNodeMap, Continue
<1>3. /\ Untouched /\ failures \in Nat /\ (failures = 0 <=> "binding_event" \in held) /\ held \subseteq {"sm", "binding_event"}
  BY <1>2 DEF WalkInvariant, WalkedOn, BeforeWalk, Untouched, WalkTypeOK
<1>4. failures' = failures \/ failures' = failures + 1
  BY <1>1, FieldIs
<1>5. WalkTypeOK' /\ WellStacked' /\ nodes' \subseteq Declared'
  BY <1>2, <1>4, TreeStays DEF WalkInvariant
<1>6. /\ failures' = 0 <=> {"binding_event", "node_map"} \subseteq held'
      /\ held' \subseteq {"sm", "binding_event", "node_map"}
  <2>1. CASE ok
    <3>1. held' = held \cup {"node_map"} /\ failures' = failures
      BY <1>1, <2>1, FieldIs
    <3> QED
      BY <1>3, <3>1
  <2>2. CASE ~ok
    <3>1. held' = held /\ failures' = failures + 1
      BY <1>1, <2>2, FieldIs
    <3> QED
      BY <1>3, <3>1
  <2> QED
    BY <2>1, <2>2
<1>7. Untouched'
  BY <1>2, <1>3, <1>6, StillUntouched
<1> QED
  BY <1>2, <1>5, <1>7, BeforeIsBefore DEF WalkInvariant, BeforeWalk

LEMMA CreateTimerMapWalks == WalkInvariant /\ CreateTimerMap => WalkInvariant'
<1> SUFFICES ASSUME WalkInvariant, CreateTimerMap PROVE WalkInvariant'
  OBVIOUS
<1>1. PICK ok \in BOOLEAN : Field("timer_map", ok)
  BY DEF CreateTimerMap
<1>2. /\ pc = "timer_map" /\ UNCHANGED <<machine, tree>> /\ OrError(AllThere(held'), "log")
  BY DEF CreateTimerMap
<1>3. /\ Untouched /\ failures \in Nat /\ (failures = 0 <=> {"binding_event", "node_map"} \subseteq held)
      /\ held \subseteq {"sm", "binding_event", "node_map"}
  BY <1>2 DEF WalkInvariant, WalkedOn, BeforeWalk, Untouched, WalkTypeOK
<1>4. failures' = failures \/ failures' = failures + 1
  BY <1>1, FieldIs
<1>5. WalkTypeOK' /\ WellStacked' /\ nodes' \subseteq Declared' /\ WalkTypeOK
  BY <1>2, <1>4, TreeStays DEF WalkInvariant
<1>6. CASE AllThere(held')
  <2>1. pc' = "log"
    BY <1>2, <1>6 DEF OrError, Continue
  <2>2. failures' = 0
    <3>1. ok
      BY <1>1, <1>3, <1>6, FieldIs DEF AllThere
    <3>2. held' = held \cup {"timer_map"} /\ failures' = failures
      BY <1>1, <3>1, FieldIs
    <3> QED
      BY <1>3, <1>6, <3>2 DEF AllThere
  <2>3. Untouched'
    BY <1>2, <1>3, <2>1, <2>2, StillUntouched
  <2> QED
    BY <1>5, <2>1, <2>3, BeforeIsBefore DEF WalkInvariant, BeforeWalk
<1>7. CASE ~AllThere(held')
  <2>1. pc' = "destroy" /\ diagram' = diagram
    BY <1>2, <1>7 DEF OrError, Error, machine
  <2>2. CASE failures' = failures + 1
    BY <1>5, <2>1, <2>2, FailedIsBlamed, NothingMore DEF WalkInvariant
  <2>3. CASE ok
    <3>1. held' = held \cup {"timer_map"} /\ failures' = failures
      BY <1>1, <2>3, FieldIs
    <3>2. failures' > 0
      BY <1>3, <1>7, <3>1 DEF AllThere
    <3> QED
      BY <1>5, <2>1, <3>2, NothingMore DEF WalkInvariant, Blamed
  <2> QED
    BY <1>1, <2>2, <2>3, FieldIs
<1> QED
  BY <1>6, <1>7

LEMMA CreateWalks ==
    ASSUME WalkInvariant, NEW at \in {"log", "uml", "mutex", "queue"}, NEW f, NEW next, Create(at, f, next),
           \/ next \in {"uml", "mutex", "root"} /\ at # "queue"
           \/ next = "created" /\ at = "queue" /\ f = "event_queue"
    PROVE  WalkInvariant'
<1>1. PICK ok \in BOOLEAN : Field(f, ok) /\ OrError(ok, next)
  BY DEF Create
<1>2. pc = at /\ UNCHANGED <<machine, tree>>
  BY DEF Create
<1>3. WalkTypeOK /\ WellStacked /\ nodes \subseteq Declared
  BY DEF WalkInvariant
<1>4. failures' = failures \/ failures' = failures + 1
  BY <1>1, FieldIs
<1>5. WalkTypeOK' /\ WellStacked' /\ nodes' \subseteq Declared'
  BY <1>2, <1>3, <1>4, TreeStays
<1>6. CASE ok
  <2>1. held' = held \cup {f} /\ failures' = failures /\ live \subseteq live' /\ pc' = next
    BY <1>1, <1>6, FieldIs DEF OrError, Continue
  <2>2. CASE next \in {"uml", "mutex", "root"} /\ at # "queue"
    <3>1. Untouched /\ failures = 0
      BY <1>2, <2>2 DEF WalkInvariant, WalkedOn, BeforeWalk, Untouched
    <3>2. Untouched'
      BY <1>2, <2>1, <2>2, <3>1, StillUntouched
    <3> QED
      BY <1>5, <2>1, <2>2, <3>2, BeforeIsBefore DEF WalkInvariant, BeforeWalk
  <2>3. CASE next = "created" /\ at = "queue" /\ f = "event_queue"
    <3>1. calls = <<>> /\ Root \in nodes /\ Good
      BY <1>2, <2>3 DEF WalkInvariant, WalkedOn
    <3>2. calls' = <<>> /\ Root \in nodes'
      BY <1>2, <3>1 DEF tree
    <3>3. Good'
      BY <1>2, <2>1, <3>1, GoodStays
    <3>4. pc' = "created" /\ pc' \notin BeforeWalk /\ "event_queue" \in held'
      BY <2>1, <2>3 DEF BeforeWalk
    <3>5. WalkedOn'
      BY <3>2, <3>3, <3>4 DEF WalkedOn, Refused
    <3> QED
      BY <1>5, <3>5 DEF WalkInvariant
  <2> QED
    BY <2>2, <2>3
<1>7. CASE ~ok
  <2>1. failures' = failures + 1 /\ pc' = "destroy" /\ diagram' = diagram
    BY <1>1, <1>2, <1>7, FieldIs DEF OrError, Error, machine
  <2> QED
    BY <1>3, <1>5, <2>1, FailedIsBlamed, NothingMore DEF WalkInvariant
<1> QED
  BY <1>6, <1>7

LEMMA CreatesWalk == LeavesNothing /\ WalkInvariant /\ Creates => WalkInvariant'
<1> SUFFICES ASSUME LeavesNothing, WalkInvariant, Creates PROVE WalkInvariant'
  OBVIOUS
<1>1. CASE CreateLog
  BY <1>1, CreateWalks DEF CreateLog
<1>2. CASE CreateUml
  <2>1. PICK next \in {"root", "mutex"} : Create("uml", "uml", next)
    BY <1>2 DEF CreateUml
  <2> QED
    BY <2>1, CreateWalks
<1>3. CASE CreateMutex
  BY <1>3, CreateWalks DEF CreateMutex
<1>4. CASE CreateQueue
  BY <1>4, CreateWalks DEF CreateQueue
<1> QED
  BY <1>1, <1>2, <1>3, <1>4, CreateSmWalks, CreateEventWalks, CreateNodeMapWalks, CreateTimerMapWalks
     DEF Creates

LEMMA DestroySmWalks == WalkInvariant /\ DestroySm => WalkInvariant'
<1> SUFFICES ASSUME WalkInvariant, DestroySm PROVE WalkInvariant'
  OBVIOUS
<1>1. pc = "created" /\ pc' = "destroy" /\ UNCHANGED <<machine, tree, held, failures>>
  BY DEF DestroySm, Error
<1>2. WalkTypeOK' /\ WellStacked' /\ nodes' \subseteq Declared'
  BY <1>1, TreeStays DEF WalkInvariant
<1>3. "event_queue" \in held'
  BY <1>1 DEF WalkInvariant, WalkedOn
<1> QED
  BY <1>1, <1>2, <1>3, NothingMore DEF WalkInvariant, Refused

\* Once something has been destroyed, the teardown is no longer whole.
LEMMA TeardownBegins ==
    ASSUME LeavesNothing, pc = "destroy", todo # <<>>
    PROVE  Tail(todo) # Teardown
<1>1. PICK k \in 1..10 : Stage(k)
  BY DEF LeavesNothing, InOrder
<1>2. Len(todo) = 11 - k /\ todo \in Seq(Fields \cup {"timers", "nodes"})
  BY <1>1 DEF Stage
<1>3. Len(Tail(todo)) = 10 - k
  BY <1>2
<1>4. Len(Teardown) = 10
  BY DEF Teardown
<1>5. k \in Nat /\ k # 0
  BY <1>1
<1>6. 10 - k # 10
  BY <1>5
<1> QED
  BY <1>3, <1>4, <1>6

LEMMA DestroysWalk == LeavesNothing /\ WalkInvariant /\ Destroys => WalkInvariant'
<1> SUFFICES ASSUME LeavesNothing, WalkInvariant, Destroys PROVE WalkInvariant'
  OBVIOUS
<1>1. /\ pc = "destroy" /\ todo # <<>> /\ UNCHANGED <<machine, tree, failures>>
      /\ pc' \in {"destroy", "gone", "crashed"} /\ (pc' = "destroy" => todo' = Tail(todo))
  <2>1. CASE DestroyField
    BY <2>1 DEF DestroyField
  <2>2. CASE DestroyTimers
    BY <2>2 DEF DestroyTimers
  <2>3. CASE DestroyNodes
    BY <2>3 DEF DestroyNodes
  <2> QED
    BY <2>1, <2>2, <2>3 DEF Destroys
<1>2. WalkTypeOK' /\ WellStacked' /\ nodes' \subseteq Declared'
  BY <1>1, TreeStays DEF WalkInvariant
<1>3. ~Refused'
  BY <1>1, TeardownBegins DEF Refused, Teardown
<1> QED
  BY <1>1, <1>2, <1>3, NothingMore DEF WalkInvariant

LEMMA WalkInitially == Init => WalkInvariant
<1> SUFFICES ASSUME Init PROVE WalkInvariant
  OBVIOUS
<1>1. /\ nodes = {} /\ timers = {} /\ calls = <<>> /\ initError = FALSE /\ failures = 0 /\ held = {}
      /\ children = [s \in Function |-> <<>>] /\ default = [s \in Function |-> Null]
      /\ regions = [s \in Function |-> FALSE] /\ parent = [s \in Function |-> Null] /\ pc = "create"
  BY DEF Init
<1>2. diagram \in [Function -> Seq(Clause)]
  BY CreationAssumption DEF Init
<1>3. WalkTypeOK
  <2>1. <<>> \in Seq(Frame) /\ <<>> \in Seq(Function)
    OBVIOUS
  <2>2. calls \in Seq(Frame) /\ children \in [Function -> Seq(Function)]
    BY <1>1, <2>1
  <2>3. /\ parent \in [Function -> Function \cup {Null}] /\ default \in [Function -> Function \cup {Null}]
        /\ regions \in [Function -> BOOLEAN]
    BY <1>1
  <2> QED
    BY <1>1, <1>2, <2>2, <2>3 DEF WalkTypeOK
<1>4. WellStacked
  BY <1>1 DEF WellStacked
<1>5. Untouched
  BY <1>1 DEF Untouched
<1>6. WalkedOn
  BY <1>1, <1>5 DEF WalkedOn, Refused
<1> QED
  BY <1>1, <1>3, <1>4, <1>6 DEF WalkInvariant

LEMMA WalkStutters == WalkInvariant /\ UNCHANGED vars => WalkInvariant'
<1> SUFFICES ASSUME WalkInvariant, UNCHANGED vars PROVE WalkInvariant'
  OBVIOUS
<1>1. UNCHANGED <<machine, tree, failures, live, held, pc, todo>>
  BY DEF vars
<1>2. WalkTypeOK' /\ WellStacked' /\ nodes' \subseteq Declared'
  BY <1>1, TreeStays DEF WalkInvariant
<1>3. Good => Good'
  BY <1>1, GoodStays
<1>4. /\ UNCHANGED <<diagram, calls, nodes, timers, initError, children, default, regions>>
      /\ Blamed => Blamed'
  BY <1>1, BlamedStays DEF machine, tree, WalkInvariant
<1>5. (Untouched => Untouched') /\ (Refused' => Refused)
  BY <1>1, <1>4 DEF Untouched, Refused, Teardown
<1>6. WalkedOn'
  BY <1>1, <1>3, <1>4, <1>5 DEF WalkInvariant, WalkedOn
<1> QED
  BY <1>2, <1>6 DEF WalkInvariant

LEMMA WalkPreserved == LeavesNothing /\ WalkInvariant /\ [Next]_vars => WalkInvariant'
<1> SUFFICES ASSUME LeavesNothing, WalkInvariant, [Next]_vars PROVE WalkInvariant'
  OBVIOUS
<1>1. CASE Ended
  BY <1>1, WalkStutters DEF Ended
<1> QED
  BY <1>1, CreatesWalk, WalksWalk, DestroySmWalks, DestroysWalk, WalkStutters DEF Next
--------------------------------------------------------------------------------
(* What a machine is that was created *)

\* Every clause of every state function that was reached has run, and all were reached.
LEMMA CreatedIsDeclared ==
    ASSUME WalkInvariant, pc = "created"
    PROVE  /\ nodes = Declared /\ Good /\ WalkTypeOK
           /\ \A s \in Declared : \A i \in 1..Len(diagram[s]) : Done(s, i) /\ Begun(s, i)
<1>1. /\ calls = <<>> /\ Root \in nodes /\ Good /\ WalkTypeOK /\ nodes \subseteq Declared
      /\ nodes \in SUBSET Function
  BY DEF WalkInvariant, WalkedOn, WalkTypeOK
<1>2. \A s \in nodes : \A i \in 1..Len(diagram[s]) : Done(s, i) /\ Begun(s, i)
  BY <1>1 DEF Done, Begun, Clausal
<1>3. Closed(nodes)
  BY <1>1, <1>2 DEF Closed, Good, SubsKnown, Says, Of
<1>4. nodes = Declared
  BY <1>1, <1>3, DeclaredLeast
<1> QED
  BY <1>1, <1>2, <1>4

LEMMA CreatedFromSound ==
    ASSUME WalkInvariant, pc = "created"
    PROVE  Sound
<1>1. /\ nodes = Declared /\ Good /\ WalkTypeOK /\ Declared \subseteq Function
      /\ \A s \in Declared : \A i \in 1..Len(diagram[s]) : Done(s, i) /\ Begun(s, i)
  BY CreatedIsDeclared, DeclaredIs
<1>2. \A s \in Declared : Root \notin Subs(s)
  BY <1>1, WhereIs DEF Subs, Good, SubsKnown, Says, Of
<1>3. \A x : Once(x, "sub")
  BY <1>1, WhereIs DEF Once, Good, SubsOnce, Says, Of
<1>4. \A x : Once(x, "timeout")
  BY <1>1, WhereIs DEF Once, Good, TimersOnce, Says, Of
<1>5. ASSUME NEW s \in Declared, NEW i \in Where(s, "sub"), NEW j \in Where(s, "sub")
      PROVE  diagram[s][i].region = diagram[s][j].region
  BY <1>1, WhereIs DEF Good, Alike, Says
<1>6. ASSUME NEW s \in Declared, NEW i \in Where(s, "default"), NEW j \in Where(s, "default")
      PROVE  i = j
  BY <1>1, WhereIs DEF Good, DefaultsOnce, Says
<1>7. ASSUME NEW s \in Declared, NEW i \in Where(s, "sub"), ~diagram[s][i].region
      PROVE  Where(s, "default") # {}
  <2>1. i \in 1..Len(diagram[s]) /\ diagram[s][i].is = "sub"
    BY WhereIs
  <2>2. ~regions[s]
    BY <1>1, <1>7, <2>1 DEF Good, Alike, Says
  <2>3. children[s] # <<>>
    <3>1. \E k \in 1..Len(children[s]) : children[s][k] = diagram[s][i].of
      BY <1>1, <2>1 DEF Good, ChildrenAll, Says, Of
    <3> QED
      BY <3>1
  <2>4. ~OnStack(s)
    <3>1. calls = <<>>
      BY DEF WalkInvariant, WalkedOn
    <3> QED
      BY <3>1 DEF OnStack
  <2>5. default[s] # Null
    BY <1>1, <2>2, <2>3, <2>4 DEF Good, DefaultsThere, NoDefault
  <2>6. PICK j \in 1..Len(diagram[s]) : diagram[s][j].is = "default"
    BY <1>1, <2>5 DEF Good, DefaultsCome, Says
  <2> QED
    BY <2>6, WhereIs
<1> QED
  BY <1>2, <1>3, <1>4, <1>5, <1>6, <1>7 DEF Sound

LEMMA CreatedAsDeclared ==
    ASSUME WalkInvariant, pc = "created"
    PROVE  TreeAsDeclared
<1>1. /\ nodes = Declared /\ Good /\ WalkTypeOK /\ Declared \subseteq Function
      /\ \A s \in Declared : \A i \in 1..Len(diagram[s]) : Done(s, i) /\ Begun(s, i)
  BY CreatedIsDeclared, DeclaredIs
<1>2. ASSUME NEW s \in Declared PROVE ToSet(children[s]) = Subs(s)
  <2>1. children[s] \in Seq(Function)
    BY <1>1 DEF WalkTypeOK
  <2>2. ToSet(children[s]) = {children[s][k] : k \in 1..Len(children[s])}
    BY <2>1 DEF ToSet
  <2>3. ASSUME NEW k \in 1..Len(children[s]) PROVE children[s][k] \in Subs(s)
    BY <1>1, WhereIs DEF Subs, Good, ChildrenOnly, Says, Of
  <2>4. ASSUME NEW i \in Where(s, "sub") PROVE \E k \in 1..Len(children[s]) : children[s][k] = diagram[s][i].of
    BY <1>1, WhereIs DEF Good, ChildrenAll, Says, Of
  <2> QED
    BY <2>2, <2>3, <2>4 DEF Subs
<1>3. ASSUME NEW s \in Declared PROVE LatestFirst(s)
  BY <1>1, WhereIs DEF LatestFirst, Good, ChildrenOrder, Says, Of
<1>4. ASSUME NEW s \in Declared, NEW c \in Subs(s) PROVE parent[c] = s
  BY <1>1, WhereIs DEF Subs, Good, ParentsDone, Says, Of
<1>5. ASSUME NEW s \in Declared, NEW i \in Where(s, "default") PROVE default[s] = diagram[s][i].of
  BY <1>1, WhereIs DEF Good, DefaultsDone, Says, Of
<1>6. ASSUME NEW s \in Declared, NEW i \in Where(s, "sub") PROVE regions[s] = diagram[s][i].region
  BY <1>1, WhereIs DEF Good, Alike, Says
<1>7. ASSUME NEW s \in Declared, NEW i \in Where(s, "timeout") PROVE diagram[s][i].of \in timers
  BY <1>1, WhereIs DEF Good, TimersKnown, Says, Of
<1>8. \A t \in timers : Blocks("binding_timer", ToSet(Handles), t) \subseteq live
  BY <1>1 DEF Good, TimersWhole
<1> QED
  BY <1>1, <1>2, <1>3, <1>4, <1>5, <1>6, <1>7, <1>8 DEF TreeAsDeclared

\* A machine is created only from a sound declaration, is what was declared, and
\* is refused only for a reason: no error is lost on the way up from a nested state
\* function, and none is made up (vivid_create_sm, walk_init, vivid_sub_node,
\* vivid_default and vivid_on_timeout).
THEOREM CreationIsSound == Spec => []CreatedIsSound
<1>1. WalkInvariant => CreatedIsSound
  <2> SUFFICES ASSUME WalkInvariant PROVE CreatedIsSound
    OBVIOUS
  <2>1. pc = "created" => Sound /\ TreeAsDeclared
    BY CreatedFromSound, CreatedAsDeclared
  <2>2. pc = "created" => failures = 0
    BY DEF WalkInvariant, WalkedOn, Good
  <2>3. Refused => Blamed
    BY DEF WalkInvariant, WalkedOn
  <2> QED
    BY <2>1, <2>2, <2>3 DEF CreatedIsSound, Blamed
<1>2. Spec => [](LeavesNothing /\ WalkInvariant)
  BY LeavesInitially, LeavesPreserved, WalkInitially, WalkPreserved, PTL DEF Spec
<1> QED
  BY <1>1, <1>2, PTL
================================================================================
