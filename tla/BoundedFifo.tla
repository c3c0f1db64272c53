------------------------------ MODULE BoundedFifo ------------------------------
(***************************************************************************)
(* What vivid_queue promises its callers, in either build: events come out *)
(* whole, in the order in which they were accepted, and at most Capacity   *)
(* of them are waiting.  Refused pushes change nothing.                    *)
(***************************************************************************)
EXTENDS Naturals, Sequences

CONSTANTS Value,      \* what is queued: an event with its parameter
          Capacity    \* the event_queue_size given to vivid_create_sm

VARIABLE fifo

Init == fifo = <<>>

Accept(v) ==
    /\ Len(fifo) < Capacity
    /\ fifo' = Append(fifo, v)

Remove ==
    /\ fifo # <<>>
    /\ fifo' = Tail(fifo)

Next == Remove \/ \E v \in Value : Accept(v)

Spec == Init /\ [][Next]_fifo
================================================================================
