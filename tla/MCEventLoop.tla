------------------------------ MODULE MCEventLoop ------------------------------
(***************************************************************************)
(* EventLoop for TLC, in three parts.  First alone: two machines, so that  *)
(* one may starve the other or steal its signal, two threads that post     *)
(* besides the loop's own, and two places in the queues, so that two       *)
(* pushes are answered by one trigger.  Then one machine on the lock-free  *)
(* queue, with three threads, as a third is needed for the write index to  *)
(* be moved by two of them while another pushes.  Then what is below the   *)
(* flag on FreeRTOS, with three interrupt handlers that nest.              *)
(***************************************************************************)
EXTENDS EventLoop, FreertosIsr

CONSTANTS Value, NoValue

VARIABLES
    buffer, ready, read, pending, write, pc, index, arg, consumer, passed,
    lfInit, lfTrig, lfSignal, lfPost, lfAt, lfPos,
    part        \* which of the three moves; the others stay as they begin

Machines == {"m1", "m2"}
NewestFirst == <<"m2", "m1">>

Lockfree ==
    INSTANCE LockfreeLoop
        WITH Producer <- Thread, Capacity <- QueueSize,
             init <- lfInit, trig <- lfTrig, signal <- lfSignal, post <- lfPost,
             at <- lfAt, pos <- lfPos

lfVars == <<buffer, ready, read, pending, write, pc, index, arg, consumer, passed,
            lfInit, lfTrig, lfSignal, lfPost, lfAt, lfPos>>
all == <<vars, lfVars, isrVars, part>>

Plain(A) == part = "plain" /\ A /\ UNCHANGED <<lfVars, isrVars, part>>
Joined(A) == part = "lockfree" /\ A /\ UNCHANGED <<vars, isrVars, part>>
Nested(A) == part = "freertos" /\ A /\ UNCHANGED <<vars, lfVars, part>>

MCInit ==
    /\ Init /\ Lockfree!AllInit /\ IsrInit
    /\ part \in {"plain", "lockfree", "freertos"}
    /\ yieldAfter => part = "freertos"
MCNext == Plain(Next) \/ Joined(Lockfree!AllNext) \/ Nested(IsrNext)

\* The fairness of EventLoop and that of LockfreeLoop.
MCSpec ==
    /\ MCInit /\ [][MCNext]_all
    /\ WF_all(Plain(HandleEvent)) /\ \A t \in Thread : WF_all(Plain(Trigger(t)))
    /\ SF_all(Joined(Lockfree!HandleEvent /\ Lockfree!Timely))
    /\ \A t \in Thread :
          WF_all(Joined((Lockfree!Steps(t) \/ Lockfree!Triggers(t)) /\ Lockfree!Timely))

\* A lock-free queue and the loop together serve every event whose push has
\* returned, although another thread may be the one to publish it, and the loop sleeps
\* only when nothing that was ever pushed is left (LockfreeLoop;
\* vivid_queue_push, trigger_event and handle_event).
LockfreeServes ==
    Lockfree!ImplementsService /\ [](part = "lockfree" => Lockfree!SleepsOnlyIdle)
================================================================================
