------------------------------ MODULE LockfreeLoop ------------------------------
(***************************************************************************)
(* The lock-free queue and the event loop together, for one machine.  In   *)
(* this build a push may return before its event can be seen: an earlier   *)
(* entry is not ready yet, and the thread that fills it will publish both. *)
(* The loop may be woken, find the queue empty and go to sleep in between, *)
(* so that the trigger of the one thread has to do for the other.  State   *)
(* code pushes events, too, in the loop's own thread.                      *)
(*                                                                         *)
(* The steps are those of LockfreeQueue and EventLoop; what is said here   *)
(* is how vivid_queue_event, event_callback and the binding join them.     *)
(***************************************************************************)
EXTENDS LockfreeQueue, Sequences

CONSTANT Loop       \* the producer that is the loop's own thread

VARIABLES init, trig, signal, post, at, pos

loop == <<init, trig, signal, post, at, pos>>

Single == {"machine"}

\* The loop sees the entries that are published.
L == INSTANCE EventLoop
        WITH Machine <- Single, List <- <<"machine">>, Caller <- Producer \ {Loop},
             QueueSize <- Capacity, waiting <- [m \in Single |-> Count]

AllInit == Init /\ L!Init
--------------------------------------------------------------------------------
(* vivid_queue_event *)

Call(p) ==
    /\ L!MayPost(p)
    /\ \E v \in Value : CallPush(p, v)
    /\ UNCHANGED loop

\* Wrong: an event in front has a trigger of its own.
PushedIfFirst(p) ==
    post' = IF Count = 1 THEN [post EXCEPT ![p] = L!ToSet("machine")] ELSE post
\* The push has returned true: trigger_event is called.
Pushed(p) == post' = [post EXCEPT ![p] = L!ToSet("machine")]

Returns(p) ==
    /\ NothingReady(p)
    /\ Pushed(p)
    /\ UNCHANGED <<init, trig, signal, at, pos>>

\* All the other steps of a push; a refused one triggers nothing.
Pushes(p) ==
    /\ \/ LoadPending(p) \/ RefuseFull(p) \/ FindRoom(p) \/ Claim(p) \/ ClaimFails(p)
       \/ FillName(p) \/ FillParam(p) \/ SetReady(p) \/ LoadWrite(p) \/ TakeReady(p)
       \/ Publish(p)
    /\ UNCHANGED loop
--------------------------------------------------------------------------------
(* handle_event and event_callback *)

\* The loop goes on when the state code that runs in its thread has pushed.
Free == pc[Loop] = "idle"

Handles ==
    /\ Free
    /\ UNCHANGED vars
    /\ \/ L!Wake \/ L!Visit \/ L!EndOfList \/ L!ClearTrig \/ L!Callback \/ L!Entered
       \/ L!TriggerAgain

Takes ==
    /\ Free
    /\ IF read # write THEN SeeNonEmpty ELSE UNCHANGED vars
    /\ L!Take

Pops ==
    /\ Free
    /\ Pop
    /\ L!Pop

Triggers(p) == UNCHANGED vars /\ L!Trigger(p)

HandleEvent == Handles \/ Takes \/ Pops
Steps(p) == Returns(p) \/ Pushes(p)

\* The scheduling that LockfreeQueue assumes.
Timely == TimelyClaim' /\ TimelyPublish'

AllNext ==
    /\ \/ HandleEvent
       \/ \E p \in Producer : Call(p) \/ Steps(p) \/ Triggers(p)
    /\ Timely

AllSpec == AllInit /\ [][AllNext]_<<vars, loop>>

\* Every thread is scheduled, none has to push, and state code returns, however
\* often it has pushed and been refused.
FairSpec ==
    /\ AllSpec
    /\ SF_<<vars, loop>>(HandleEvent /\ Timely)
    /\ \A p \in Producer : WF_<<vars, loop>>((Steps(p) \/ Triggers(p)) /\ Timely)
--------------------------------------------------------------------------------
(***************************************************************************)
(* The loop sleeps only when there is nothing to do: when it waits, has no *)
(* signal and no thread is inside of vivid_queue_event, then nothing that  *)
(* was ever pushed is left, seen or not.                                   *)
(***************************************************************************)
SleepsOnlyIdle ==
    L!Asleep /\ (\A p \in Producer : pc[p] = "idle") =>
        ~trig["machine"] /\ ~init["machine"] /\ read = pending

Claimed == IF pending >= read THEN pending - read ELSE pending + Size - read

Service == INSTANCE EventService
    WITH Machine <- Single, QueueSize <- Capacity, waiting <- [m \in Single |-> Claimed]

(***************************************************************************)
(* The composition implements the service of the event loop: an event is   *)
(* waiting from the moment at which its entry is claimed, however late it  *)
(* can be seen, and is served in the end.                                  *)
(***************************************************************************)
ImplementsService == Service!Spec
================================================================================
