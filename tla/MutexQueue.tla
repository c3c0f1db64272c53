------------------------------- MODULE MutexQueue -------------------------------
(***************************************************************************)
(* The event queue of vivid_queue.c as the default build compiles it       *)
(* (VIVID_LOCKFREE = 0): a ring buffer that any thread pushes into and one *)
(* thread, the one that runs the state machine, empties.                   *)
(*                                                                         *)
(* A push holds the mutex from the fullness check to the update of the     *)
(* write index and fills the slot field by field in between.  The consumer *)
(* takes the mutex to compare and to move the indexes, but it reads the    *)
(* front slot without it, from vivid_queue_front until vivid_queue_pop:    *)
(* event_callback keeps that pointer while the whole tree is walked.       *)
(***************************************************************************)
EXTENDS Naturals

CONSTANTS Producer,   \* the threads that call vivid_queue_push
          Value,      \* the events pushed
          NoValue,    \* the contents of a slot fresh from calloc
          NoProducer, \* the mutex is free
          Capacity    \* the size given to vivid_queue_create

ASSUME CapacityAssumption == Capacity \in Nat
ASSUME NoValueAssumption == NoValue \notin Value
ASSUME NoProducerAssumption == NoProducer \notin Producer

VARIABLES buffer,     \* entry_buffer: slot -> [name, param]
          read,       \* me->read
          write,      \* me->write
          mutex,      \* the producer inside binding_mutex, or NoProducer
          pc,         \* where each producer is in vivid_queue_push
          arg,        \* the event each producer pushes
          consumer    \* where the consumer is between empty, front and pop

vars == <<buffer, read, write, mutex, pc, arg, consumer>>

\* One slot more than the capacity: read = write means empty.
Size == Capacity + 1
Slot == 0 .. Capacity

(***************************************************************************)
(* Definitions marked "Wrong" are slips a change to the code could make:   *)
(* each one put in place of the definition below it breaks a property.     *)
(***************************************************************************)

\* The next index, wrapping at the end of the buffer.
IncIndex(i) == IF i + 1 >= Size THEN 0 ELSE i + 1

\* Wrong: never; one entry early.
FullNever == FALSE
FullEarly == IncIndex(IncIndex(write)) = read

\* All entries are full.
Full == IncIndex(write) = read

\* Wrong: forgets that the write index wraps.
NotEmptyUnwrapped == read < write

NotEmpty == read # write

\* Wrong: the answer of lock_mutex is not waited for.
MutexFreeIgnored == TRUE

MutexFree == mutex = NoProducer

Locked == {"check", "fill_name", "fill_param", "publish", "unlock"}
Filling == {"fill_name", "fill_param", "publish"}

Init ==
    /\ buffer = [i \in Slot |-> [name |-> NoValue, param |-> NoValue]]
    /\ read = 0
    /\ write = 0
    /\ mutex = NoProducer
    /\ pc = [p \in Producer |-> "idle"]
    /\ arg = [p \in Producer |-> NoValue]
    /\ consumer = "idle"
--------------------------------------------------------------------------------
(* vivid_queue_push, by producer p *)

Goto(p, l) == pc' = [pc EXCEPT ![p] = l]

CallPush(p, v) ==
    /\ pc[p] = "idle"
    /\ Goto(p, "lock")
    /\ arg' = [arg EXCEPT ![p] = v]
    /\ UNCHANGED <<buffer, read, write, mutex, consumer>>

Lock(p) ==
    /\ pc[p] = "lock"
    /\ MutexFree
    /\ mutex' = p
    /\ Goto(p, "check")
    /\ UNCHANGED <<buffer, read, write, arg, consumer>>

\* All slots are taken: the push is refused.
RefuseFull(p) ==
    /\ pc[p] = "check"
    /\ Full
    /\ Goto(p, "unlock")
    /\ UNCHANGED <<buffer, read, write, mutex, arg, consumer>>

FindRoom(p) ==
    /\ pc[p] = "check"
    /\ ~Full
    /\ Goto(p, "fill_name")
    /\ UNCHANGED <<buffer, read, write, mutex, arg, consumer>>

FillName(p) ==
    /\ pc[p] = "fill_name"
    /\ buffer' = [buffer EXCEPT ![write].name = arg[p]]
    /\ Goto(p, "fill_param")
    /\ UNCHANGED <<read, write, mutex, arg, consumer>>

FillParam(p) ==
    /\ pc[p] = "fill_param"
    /\ buffer' = [buffer EXCEPT ![write].param = arg[p]]
    /\ Goto(p, "publish")
    /\ UNCHANGED <<read, write, mutex, arg, consumer>>

Publish(p) ==
    /\ pc[p] = "publish"
    /\ write' = IncIndex(write)
    /\ Goto(p, "unlock")
    /\ UNCHANGED <<buffer, read, mutex, arg, consumer>>

Unlock(p) ==
    /\ pc[p] = "unlock"
    /\ mutex' = NoProducer
    /\ Goto(p, "idle")
    /\ arg' = [arg EXCEPT ![p] = NoValue]
    /\ UNCHANGED <<buffer, read, write, consumer>>
--------------------------------------------------------------------------------
(* The consumer.  Each of its critical sections reads or writes the indexes *)
(* once, so it is one step, possible only while no producer is inside.      *)

\* vivid_queue_empty answers false: the consumer goes on to the front entry.
SeeNonEmpty ==
    /\ consumer = "idle"
    /\ MutexFree
    /\ NotEmpty
    /\ consumer' = "using"
    /\ UNCHANGED <<buffer, read, write, mutex, pc, arg>>

\* vivid_queue_front gave &entry_buffer[read]; vivid_queue_pop releases it.
Pop ==
    /\ consumer = "using"
    /\ MutexFree
    /\ read' = IncIndex(read)
    /\ consumer' = "idle"
    /\ UNCHANGED <<buffer, write, mutex, pc, arg>>

Push(p) ==
    \/ Lock(p) \/ RefuseFull(p) \/ FindRoom(p) \/ FillName(p)
    \/ FillParam(p) \/ Publish(p) \/ Unlock(p)

Next ==
    \/ \E p \in Producer : Push(p) \/ \E v \in Value : CallPush(p, v)
    \/ SeeNonEmpty
    \/ Pop

Spec == Init /\ [][Next]_vars

(***************************************************************************)
(* Threads are scheduled: a thread inside push runs on, the event loop     *)
(* calls the consumer again.  Mutexes here are not fair, so a consumer     *)
(* that finds the mutex taken again and again needs strong fairness.       *)
(***************************************************************************)
FairSpec ==
    /\ Spec
    /\ \A p \in Producer : WF_vars(Push(p) /\ pc[p] # "lock")
    /\ \A p \in Producer : SF_vars(Lock(p))
    /\ SF_vars(SeeNonEmpty) /\ SF_vars(Pop)
--------------------------------------------------------------------------------
\* Both indexes stay in the buffer; a slot holds a pushed value or calloc's zero.
TypeOK ==
    /\ buffer \in [Slot -> [name : Value \cup {NoValue},
                            param : Value \cup {NoValue}]]
    /\ read \in Slot
    /\ write \in Slot
    /\ mutex \in Producer \cup {NoProducer}
    /\ pc \in [Producer -> Locked \cup {"idle", "lock"}]
    /\ arg \in [Producer -> Value \cup {NoValue}]
    /\ consumer \in {"idle", "using"}

\* The number of accepted entries between the indexes, and the i-th of them.
Count == IF write >= read THEN write - read ELSE write + Size - read
Index(i) == IF read + i - 1 >= Size THEN read + i - 1 - Size ELSE read + i - 1

(***************************************************************************)
(* The waiting events, oldest first: what a BoundedFifo holds.  Entries    *)
(* are compared field by field: a slot whose name and param come from two  *)
(* pushes is no event.                                                     *)
(***************************************************************************)
Contents == [i \in 1 .. Count |-> buffer[Index(i)]]

Fifo == INSTANCE BoundedFifo
            WITH fifo <- Contents, Value <- [name : Value, param : Value]

\* Whole events only: both fields of an accepted slot come from one push.
ContentsWhole ==
    \A i \in 1 .. Count : /\ Contents[i].name = Contents[i].param
                          /\ Contents[i].name \in Value

(***************************************************************************)
(* The ring buffer implements the bounded FIFO: pushes that are accepted   *)
(* append in the order in which they publish, a pop removes the oldest,    *)
(* nothing is lost, repeated or reordered, whatever producers interleave   *)
(* (vivid_queue_push and vivid_queue_pop with the mutex).                  *)
(***************************************************************************)
ImplementsFifo == Fifo!Spec

(***************************************************************************)
(* The entry the consumer is using never changes under it: event_callback  *)
(* passes the pointer returned by vivid_queue_front through the whole walk *)
(* of the tree without the mutex, while producers keep pushing.            *)
(***************************************************************************)
FrontStable ==
    [][consumer = "using" => buffer'[read] = buffer[read]]_vars

\* The producers between the lock and the unlock exclude each other.
MutualExclusion ==
    \A p, q \in Producer : pc[p] \in Locked /\ pc[q] \in Locked => p = q

\* A producer writes only slots that hold no waiting event.
FillsFreeSlot ==
    \A p \in Producer : pc[p] \in Filling => IncIndex(write) # read

(***************************************************************************)
(* A push that found the queue full is answered only while it is full for  *)
(* real: Capacity events are waiting (no slot is lost to the wrap).        *)
(***************************************************************************)
RefusesOnlyWhenFull ==
    [][\A p \in Producer : RefuseFull(p) => Count = Capacity]_vars

\* Every waiting event reaches the front: the queue drains after each push.
Drains == Count > 0 ~> consumer = "using"
================================================================================
