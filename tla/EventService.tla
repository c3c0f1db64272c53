----------------------------- MODULE EventService -----------------------------
(***************************************************************************)
(* What the event loop promises the state machines that share it: an event *)
(* may be posted to any of them while there is room, and a machine that    *)
(* has events waiting is served, one event at a time, however busy the     *)
(* others are.  Nobody has to be woken up here.                            *)
(***************************************************************************)
EXTENDS Naturals

CONSTANTS Machine, QueueSize

VARIABLE waiting    \* machine -> how many events are in its queue

Init == waiting = [m \in Machine |-> 0]

Post(m) ==
    /\ waiting[m] < QueueSize
    /\ waiting' = [waiting EXCEPT ![m] = @ + 1]

Serve(m) ==
    /\ waiting[m] > 0
    /\ waiting' = [waiting EXCEPT ![m] = @ - 1]

Next == \E m \in Machine : Post(m) \/ Serve(m)

Safety == Init /\ [][Next]_waiting

Spec == Safety /\ \A m \in Machine : WF_waiting(Serve(m))
================================================================================
