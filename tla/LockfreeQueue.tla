------------------------------ MODULE LockfreeQueue ------------------------------
(***************************************************************************)
(* The event queue of vivid_queue.c as it is compiled with VIVID_LOCKFREE. *)
(* A push claims an entry by moving the pending index, fills it, marks it  *)
(* ready, and then moves the write index over every ready entry it finds   *)
(* there, its own or another's.  All atomics are sequentially consistent;  *)
(* a step is one atomic operation or one plain store.                      *)
(***************************************************************************)
EXTENDS Naturals

CONSTANTS Producer, Value, NoValue,
          Capacity    \* the size given to vivid_queue_create

ASSUME CapacityAssumption == Capacity \in Nat
ASSUME NoValueAssumption == NoValue \notin Value

VARIABLES buffer,     \* entry_buffer: slot -> [name, param]
          ready,      \* ready_buffer: slot -> BOOLEAN
          read, pending, write,
          pc,         \* where each producer is in vivid_queue_push
          index,      \* its local variable index
          arg,        \* the event it pushes
          consumer,   \* where the consumer is between empty, front and pop
          passed      \* (history) the producers whose loaded index the others
                      \* have moved on from

shared == <<buffer, ready, read, pending, write>>
vars == <<shared, pc, index, arg, consumer, passed>>

Size == Capacity + 1
Slot == 0 .. Capacity

(***************************************************************************)
(* Definitions marked "Wrong" are slips a change to the code could make:   *)
(* each one put in place of the definition below it breaks a property.     *)
(***************************************************************************)

IncIndex(i) == IF i + 1 >= Size THEN 0 ELSE i + 1

Init ==
    /\ buffer = [i \in Slot |-> [name |-> NoValue, param |-> NoValue]]
    /\ ready = [i \in Slot |-> FALSE]
    /\ read = 0 /\ pending = 0 /\ write = 0
    /\ pc = [p \in Producer |-> "idle"]
    /\ index = [p \in Producer |-> 0]
    /\ arg = [p \in Producer |-> NoValue]
    /\ consumer = "idle"
    /\ passed = {}
--------------------------------------------------------------------------------
(* vivid_queue_push, by producer p *)

Goto(p, l) == pc' = [pc EXCEPT ![p] = l]

\* p moves an index that the producers at the labels have loaded.
Pass(p, labels) ==
    passed' = (passed \cup {q \in Producer : pc[q] \in labels}) \ {p}
Reload(p) == passed' = passed \ {p}

HoldsPending == {"check", "claim"}
HoldsWrite == {"advance", "publish"}

CallPush(p, v) ==
    /\ pc[p] = "idle"
    /\ Goto(p, "load")
    /\ arg' = [arg EXCEPT ![p] = v]
    /\ UNCHANGED <<shared, index, consumer, passed>>

LoadPending(p) ==
    /\ pc[p] = "load"
    /\ index' = [index EXCEPT ![p] = pending]
    /\ Reload(p)
    /\ Goto(p, "check")
    /\ UNCHANGED <<shared, arg, consumer>>

Return(p) ==
    /\ Goto(p, "idle")
    /\ arg' = [arg EXCEPT ![p] = NoValue]
    /\ index' = [index EXCEPT ![p] = 0]
    /\ Reload(p)

\* Wrong: never.
FullNever(p) == FALSE
Full(p) == IncIndex(index[p]) = read

RefuseFull(p) ==
    /\ pc[p] = "check"
    /\ Full(p)
    /\ Return(p)
    /\ UNCHANGED <<shared, consumer>>

FindRoom(p) ==
    /\ pc[p] = "check"
    /\ ~Full(p)
    /\ Goto(p, "claim")
    /\ UNCHANGED <<shared, index, arg, consumer, passed>>

\* Wrong: the ready flag is set before the entry is filled.
AfterClaimReady == "set_ready"
AfterClaim == "fill_name"

Claim(p) ==
    /\ pc[p] = "claim"
    /\ pending = index[p]
    /\ pending' = IncIndex(index[p])
    /\ Pass(p, HoldsPending)
    /\ Goto(p, AfterClaim)
    /\ UNCHANGED <<buffer, ready, read, write, index, arg, consumer>>

ClaimFails(p) ==
    /\ pc[p] = "claim"
    /\ pending # index[p]
    /\ Goto(p, "load")
    /\ UNCHANGED <<shared, index, arg, consumer, passed>>

FillName(p) ==
    /\ pc[p] = "fill_name"
    /\ buffer' = [buffer EXCEPT ![index[p]].name = arg[p]]
    /\ Goto(p, "fill_param")
    /\ UNCHANGED <<ready, read, pending, write, index, arg, consumer, passed>>

FillParam(p) ==
    /\ pc[p] = "fill_param"
    /\ buffer' = [buffer EXCEPT ![index[p]].param = arg[p]]
    /\ Goto(p, "set_ready")
    /\ UNCHANGED <<ready, read, pending, write, index, arg, consumer, passed>>

SetReady(p) ==
    /\ pc[p] = "set_ready"
    /\ ready' = [ready EXCEPT ![index[p]] = TRUE]
    /\ Goto(p, "load_write")
    /\ UNCHANGED <<buffer, read, pending, write, index, arg, consumer, passed>>

LoadWrite(p) ==
    /\ pc[p] = "load_write"
    /\ index' = [index EXCEPT ![p] = write]
    /\ Reload(p)
    /\ Goto(p, "advance")
    /\ UNCHANGED <<shared, arg, consumer>>

\* The entry at the index is ready, and no other thread will publish it.
TakeReady(p) ==
    /\ pc[p] = "advance"
    /\ ready[index[p]]
    /\ ready' = [ready EXCEPT ![index[p]] = FALSE]
    /\ Goto(p, "publish")
    /\ UNCHANGED <<buffer, read, pending, write, index, arg, consumer, passed>>

NothingReady(p) ==
    /\ pc[p] = "advance"
    /\ ~ready[index[p]]
    /\ Return(p)
    /\ UNCHANGED <<shared, consumer>>

\* Wrong: a push publishes one entry, not all that are ready.
AfterPublishReturn == "idle"
AfterPublish == "advance"

Publish(p) ==
    /\ pc[p] = "publish"
    /\ index' = [index EXCEPT ![p] = IncIndex(index[p])]
    /\ write' = IncIndex(index[p])
    /\ Pass(p, HoldsWrite)
    /\ Goto(p, AfterPublish)
    /\ UNCHANGED <<buffer, ready, read, pending, arg, consumer>>
--------------------------------------------------------------------------------
(* The consumer *)

SeeNonEmpty ==
    /\ consumer = "idle"
    /\ read # write
    /\ consumer' = "using"
    /\ UNCHANGED <<shared, pc, index, arg, passed>>

Pop ==
    /\ consumer = "using"
    /\ read' = IncIndex(read)
    /\ consumer' = "idle"
    /\ UNCHANGED <<buffer, ready, pending, write, pc, index, arg, passed>>

Push(p) ==
    \/ LoadPending(p) \/ RefuseFull(p) \/ FindRoom(p) \/ Claim(p) \/ ClaimFails(p)
    \/ FillName(p) \/ FillParam(p) \/ SetReady(p) \/ LoadWrite(p) \/ TakeReady(p)
    \/ NothingReady(p) \/ Publish(p)

Next ==
    \/ \E p \in Producer : Push(p) \/ \E v \in Value : CallPush(p, v)
    \/ SeeNonEmpty
    \/ Pop

Spec == Init /\ [][Next]_vars

\* The entries claimed and not yet published.
Unpublished ==
    IF write <= pending THEN write .. pending - 1
    ELSE (write .. Capacity) \cup (0 .. pending - 1)

(***************************************************************************)
(* The scheduling assumptions under which the queue is correct: once the   *)
(* others have moved on from an index that a producer has loaded and not   *)
(* used, they do not come round to the same entry again before it is used. *)
(***************************************************************************)
TimelyClaim ==
    \A p \in passed : pc[p] \in HoldsPending => index[p] # pending
TimelyPublish ==
    \A p \in passed : pc[p] \in HoldsWrite => index[p] \notin Unpublished

TimelyClaimSpec == Init /\ [][Next /\ TimelyClaim']_vars
TimelySpec == Init /\ [][Next /\ TimelyClaim' /\ TimelyPublish']_vars
--------------------------------------------------------------------------------
\* The three indexes and those the producers hold stay in the buffer.
TypeOK ==
    /\ buffer \in [Slot -> [name : Value \cup {NoValue}, param : Value \cup {NoValue}]]
    /\ ready \in [Slot -> BOOLEAN]
    /\ read \in Slot /\ pending \in Slot /\ write \in Slot
    /\ pc \in [Producer -> HoldsPending \cup HoldsWrite \cup
                 {"idle", "load", "fill_name", "fill_param", "set_ready", "load_write"}]
    /\ index \in [Producer -> Slot]
    /\ arg \in [Producer -> Value \cup {NoValue}]
    /\ consumer \in {"idle", "using"}
    /\ passed \subseteq Producer

Count == IF write >= read THEN write - read ELSE write + Size - read
Index(i) == IF read + i - 1 >= Size THEN read + i - 1 - Size ELSE read + i - 1
Contents == [i \in 1 .. Count |-> buffer[Index(i)]]

Fifo == INSTANCE BoundedFifo
            WITH fifo <- Contents, Value <- [name : Value, param : Value]

(***************************************************************************)
(* The ring buffer implements the bounded FIFO: an event is accepted when  *)
(* the write index passes its entry, whichever thread moves it, and by     *)
(* then both fields come from one push.                                    *)
(***************************************************************************)
ImplementsFifo == Fifo!Spec

(***************************************************************************)
(* The entry the consumer is using never changes under it, although no     *)
(* lock keeps the producers out.                                           *)
(***************************************************************************)
FrontStable ==
    [][consumer = "using" => buffer'[read] = buffer[read]]_vars

(***************************************************************************)
(* The write index moves over one entry at a time: "Increment the write    *)
(* index for each 'ready' flag that can be changed from true to false".    *)
(***************************************************************************)
WriteAdvances == [][write' # write => write' = IncIndex(write)]_vars

(***************************************************************************)
(* No event is stranded: when no push is under way every claimed entry has *)
(* been published.  A producer that finds nothing ready relies on another  *)
(* to publish its entry for it.                                            *)
(***************************************************************************)
NoneStranded ==
    (\A p \in Producer : pc[p] \in {"idle", "load"}) =>
        write = pending /\ \A i \in Slot : ~ready[i]
================================================================================
