------------------------------- MODULE EventParam -------------------------------
(***************************************************************************)
(* Who owns the parameter of an event between the call that raises it and  *)
(* the clauses that are given it.  With VIVID_PARAM_DYNAMIC the parameter  *)
(* is a block of its own, freed when the event is taken out of the queue;  *)
(* otherwise it is copied into the place the event has in the queue.  The  *)
(* queue is the bounded FIFO that MutexQueue implements.                   *)
(***************************************************************************)
EXTENDS Integers, SequencesExt

CONSTANTS
    Event,        \* events with a parameter
    Value,        \* what a parameter says
    Producer,     \* threads that raise events
    Block,        \* pieces of memory that calloc hands out, again and again
    QueueSize,    \* events the queue has room for
    SizeOf,       \* event -> sizeof of its parameter
    EventClauses, \* the clauses for these events in their order: VIVID_ON_EVENT_PARAM
                  \* (param) or VIVID_ON_EVENT
    None,         \* NULL, and what is not there
    Plain,        \* an event without parameter, like a timeout
    Garbage       \* what memory holds that nobody has written

ASSUME ParamAssumption ==
    /\ QueueSize \in Nat
    /\ SizeOf \in [Event -> Nat]
    /\ EventClauses \in Seq([event : Event, param : BOOLEAN])
    /\ Plain \notin Event /\ Block \cap [event : Event, value : Value] = {}
    /\ None \notin [event : Event, value : Value] \cup Block \cup {Garbage, Plain}
    /\ Garbage \notin [event : Event, value : Value] \cup Block

Place == 0..QueueSize
Param == [event : Event, value : Value]
Memory == Param \cup {Garbage, None}

VARIABLES
    dynamic,      \* VIVID_PARAM_DYNAMIC: the build, which stays as it is
    clausesSeen,  \* the clauses that walk_init has come by
    maxParamSize, \* max_param_size, of the machine and then of its queue
    heap,         \* block -> its content, None when it is free
    raising,      \* producer -> the block of the event it is raising
    names,        \* place -> name of the event in entry_buffer
    params,       \* place -> param: a block, or the content of param_buffer
    sent,         \* history: place -> the parameter the event was raised with
    read, write,
    walk,         \* create, then init, rest, event or jump: what event_callback is at
    jump,         \* me->jump
    given,        \* what the last clause with a parameter was given
    refused,      \* the last event that was not queued, and why
    leaked,       \* history: the blocks whose event never came into the queue
    destroyed     \* vivid_queue_destroy has been called

creation == <<clausesSeen, maxParamSize>>
queue == <<heap, raising, names, params, sent, read, write, refused, leaked, destroyed>>
paramVars == <<dynamic, creation, queue, walk, jump, given>>

ParamInit ==
    /\ dynamic \in BOOLEAN
    /\ clausesSeen = 0 /\ maxParamSize = 0
    /\ heap = [b \in Block |-> None] /\ raising = [p \in Producer |-> None]
    /\ names = [i \in Place |-> None]
    /\ params = [i \in Place |-> IF dynamic THEN None ELSE Garbage]
    /\ sent = [i \in Place |-> None]
    /\ read = 0 /\ write = 0 /\ walk = "create" /\ jump \in BOOLEAN
    /\ given = None /\ refused = None /\ leaked = {} /\ destroyed = FALSE
--------------------------------------------------------------------------------
(* Creating the machine *)

\* The param_size of a clause: VIVID_ON_EVENT asks for none, whatever its event has.
Asks(clause) == IF clause.param THEN SizeOf[clause.event] ELSE 0
\* vivid_on_event, called with "init": the largest size asked for is kept.  A jump
\* asks for nothing (vivid_jump).
LargerOf(size, clause) == IF Asks(clause) > size THEN Asks(clause) ELSE size
OnInit ==
    /\ walk = "create" /\ clausesSeen < Len(EventClauses)
    /\ clausesSeen' = clausesSeen + 1
    /\ maxParamSize' = IF dynamic THEN maxParamSize ELSE LargerOf(maxParamSize, EventClauses[clausesSeen + 1])
    /\ UNCHANGED <<queue, walk, jump, given>>

\* walk_init is done: the queue is made for parameters of that size.
CreateParamQueue ==
    /\ walk = "create" /\ clausesSeen = Len(EventClauses)
    /\ walk' = "init"
    /\ UNCHANGED <<creation, queue, jump, given>>
--------------------------------------------------------------------------------
(* Raising an event *)

IncIndex(i) == IF i + 1 >= QueueSize + 1 THEN 0 ELSE i + 1
Full == IncIndex(write) = read
TooLarge(name) == ~dynamic /\ name # Plain /\ SizeOf[name] > maxParamSize

\* memcpy to the place in param_buffer: what is too long for it runs into the next ones.
Copied(i, param) ==
    [j \in Place |->
        IF j = i THEN param
        ELSE IF j > i /\ SizeOf[param.event] > (j - i) * maxParamSize THEN Garbage
        ELSE params[j]]

\* vivid_queue_push, with the param it is given: a block, or what is copied.
Push(name, param, says) ==
    /\ names' = [names EXCEPT ![write] = name]
    /\ sent' = [sent EXCEPT ![write] = says]
    /\ params' = IF dynamic THEN [params EXCEPT ![write] = param]
                 ELSE IF name = Plain THEN params
                 ELSE Copied(write, param)
    /\ write' = IncIndex(write)
    /\ refused' = None /\ UNCHANGED leaked

\* A queue that is full or too narrow, or a mutex that cannot be locked: the error
\* hook is told, the parameter is left to itself.
Refuse(name, param, cause) ==
    /\ refused' = [event |-> name, cause |-> cause]
    /\ leaked' = IF dynamic /\ param # None THEN leaked \cup {param} ELSE leaked
    /\ UNCHANGED <<names, params, sent, write>>

QueueEvent(name, param, says) ==
    \/ TooLarge(name) /\ Refuse(name, param, "size")
    \/ ~TooLarge(name) /\ Refuse(name, param, "lock")
    \/ ~TooLarge(name) /\ Full /\ Refuse(name, param, "full")
    \/ ~TooLarge(name) /\ ~Full /\ Push(name, param, says)

LoopWaits == UNCHANGED <<creation, read, walk, jump, given, destroyed>>

\* The static functions of VIVID_EVENT_PARAM_*: the parameter is that of the caller.
RaiseStatic(p) ==
    /\ ~dynamic
    /\ \E param \in Param : QueueEvent(param.event, param, param)
    /\ UNCHANGED <<heap, raising>> /\ LoopWaits

\* The dynamic ones: a block for the copy, or nothing is raised.
RaiseDynamic(p) ==
    /\ dynamic /\ raising[p] = None
    /\ \E b \in Block, param \in Param :
        /\ heap[b] = None
        /\ heap' = [heap EXCEPT ![b] = param]
        /\ raising' = [raising EXCEPT ![p] = b]
    /\ UNCHANGED <<names, params, sent, write, refused, leaked>> /\ LoopWaits
QueueDynamic(p) ==
    /\ raising[p] # None
    /\ QueueEvent(heap[raising[p]].event, raising[p], heap[raising[p]])
    /\ raising' = [raising EXCEPT ![p] = None]
    /\ UNCHANGED heap /\ LoopWaits

RaisePlain(p) ==
    /\ raising[p] = None
    /\ QueueEvent(Plain, None, None)
    /\ UNCHANGED <<heap, raising>> /\ LoopWaits

Raise(p) ==
    /\ walk # "create" /\ ~destroyed
    /\ RaiseStatic(p) \/ RaiseDynamic(p) \/ QueueDynamic(p) \/ RaisePlain(p)
--------------------------------------------------------------------------------
(* The machine *)

QueueWaits == UNCHANGED <<creation, queue>>

Content(i) == IF dynamic THEN (IF params[i] = None THEN None ELSE heap[params[i]])
              ELSE params[i]

\* A clause for the event is given the parameter of the one at the front.
Gives(clause) == given' = [clause |-> clause, content |-> Content(read), sent |-> sent[read]]

\* A transition that enters a condition or a junction asks for another walk.
Transition == jump' \in BOOLEAN

\* vivid_on_event: a clause with a parameter is given it; a clause without, or none at
\* all, is not.
OnEvent ==
    /\ \/ \E c \in ToSet(EventClauses) : c.param /\ c.event = names[read] /\ Gives(c.event)
       \/ given' = None
    /\ Transition

\* Wrong: the event is not compared.
AnyLastEvent(clause) == walk = "jump"
\* vivid_jump: a clause with a parameter is taken only for its own event, and never
\* before the first event.
IsLastEvent(clause) == walk = "jump" /\ names[read] = clause
OnJump ==
    \/ \E clause \in Event : IsLastEvent(clause) /\ Gives(clause) /\ Transition
    \/ Transition /\ given' = None

\* The entry of the machine, before the first event.
Begin ==
    /\ walk = "init" /\ ~jump
    /\ walk' = "rest"
    /\ UNCHANGED <<jump, given>> /\ QueueWaits

WalkEvent ==
    /\ walk = "rest" /\ read # write
    /\ walk' = "jump"
    /\ OnEvent
    /\ QueueWaits

WalkJump ==
    /\ walk \in {"init", "jump"} /\ jump
    /\ OnJump
    /\ UNCHANGED walk /\ QueueWaits

\* Wrong: the destructor is not called.
Forget == heap
\* vivid_queue_pop.  A block that is freed may be handed out again at once.
Destruct == IF dynamic /\ params[read] # None THEN [heap EXCEPT ![params[read]] = None] ELSE heap

Pop ==
    /\ heap' = Destruct
    /\ read' = IncIndex(read)
    /\ sent' = [sent EXCEPT ![read] = None]
    /\ UNCHANGED <<creation, raising, names, params, write, refused, leaked, destroyed>>

JumpsDone == walk = "jump" /\ ~jump
EventDone == JumpsDone /\ walk' = "rest" /\ given' = None /\ Pop /\ UNCHANGED jump

InQueue == {i \in Place : IF read <= write THEN read <= i /\ i < write
                          ELSE read <= i \/ i < write}
Queued == {params[i] : i \in InQueue} \cap Block

\* vivid_queue_destroy, when the loop and the other threads are done with the queue:
\* what is still in it goes with it, blocks of parameters excepted.
Destroy ==
    /\ ~destroyed /\ walk \in {"init", "rest"} /\ \A p \in Producer : raising[p] = None
    /\ destroyed' = TRUE /\ read' = write /\ walk' = "gone"
    /\ leaked' = leaked \cup Queued
    /\ UNCHANGED <<creation, heap, raising, names, params, sent, write, jump, given, refused>>

Gone == destroyed /\ UNCHANGED paramVars

Creation == OnInit \/ CreateParamQueue
Machine == Begin \/ WalkEvent \/ WalkJump \/ EventDone \/ Destroy
ParamNext ==
    /\ (\E p \in Producer : Raise(p)) \/ Creation \/ Machine \/ Gone
    /\ UNCHANGED dynamic
ParamSpec == ParamInit /\ [][ParamNext]_paramVars
--------------------------------------------------------------------------------
(* Properties *)

\* An event that is refused for its size is wider than what every clause asks for: no
\* event with a VIVID_ON_EVENT_PARAM clause is.  (One whose parameter is read only by
\* VIVID_JUMP_PARAM, or by nobody, may be: VIVID_ON_EVENT and vivid_jump do not ask.)
AwaitedFits ==
    refused # None /\ refused.cause = "size" =>
        \A c \in ToSet(EventClauses) : Asks(c) < SizeOf[refused.event]

\* Every clause with a parameter, and every jump with one that follows it, is given the
\* parameter that its own event was raised with: not one that was freed, handed out
\* again or overwritten since, and never that of another event; and no event that has
\* a VIVID_ON_EVENT_PARAM clause is refused for its size (vivid_queue_push, vivid_jump).
ReadsOwn ==
    /\ given # None =>
          given.sent # None /\ given.content = given.sent /\ given.sent.event = given.clause
    /\ AwaitedFits

\* A block belongs to one thread that raises an event, or to one event in the queue,
\* or was given up when its event could not be queued or the queue was destroyed:
\* none is freed twice, none is forgotten after its event was processed.
HasOwner ==
    LET inHand == {raising[p] : p \in Producer} \ {None} IN
    /\ {b \in Block : heap[b] # None} = inHand \cup Queued \cup leaked
    /\ inHand \cap Queued = {} /\ inHand \cap leaked = {}
    /\ Queued \cap leaked = {}
    /\ \A i, j \in InQueue : i # j /\ params[i] \in Block => params[i] # params[j]
================================================================================
