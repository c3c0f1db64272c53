------------------------------- MODULE EventLoop -------------------------------
(***************************************************************************)
(* How an event gets from vivid_queue_event to event_callback: the trigger *)
(* flag of each binding event, the one file descriptor, Windows event or   *)
(* task notification that wakes the loop, and the loop itself, which goes  *)
(* through the list of events and calls back those whose flag is set.      *)
(*                                                                         *)
(* Any thread posts events: push, set the flag, signal the loop, in three  *)
(* steps between which everything else may happen.  The loop's own thread  *)
(* posts too, from the code of the states and to trigger itself again.     *)
(* The Linux and FreeRTOS bindings look at the flag and clear it in one    *)
(* step; Windows does it in two, and so does the model, for all of them.   *)
(***************************************************************************)
EXTENDS Naturals, Sequences

CONSTANTS Machine,    \* the state machines, each with one binding event
          List,       \* me->data->events: the machines, newest first
          Caller,     \* the other threads that call vivid_queue_event
          Loop,       \* the thread that calls vivid_binding_..._handle_event
          QueueSize   \* event_queue_size

ASSUME ListAssumption ==
    /\ List \in Seq(Machine)
    /\ \A m \in Machine : \E i \in 1 .. Len(List) : List[i] = m
ASSUME LoopAssumption == Loop \notin Caller
ASSUME QueueSizeAssumption == QueueSize \in Nat

VARIABLES
    waiting,    \* machine -> the length of its event queue
    init,       \* machine -> me->init
    trig,       \* machine -> event->trig
    signal,     \* the loop's thread has been signalled
    post,       \* thread -> what is left to do of its trigger_event
    at,         \* where the loop is
    pos         \* how far it has come in the list

vars == <<waiting, init, trig, signal, post, at, pos>>

Thread == Caller \cup {Loop}

None == [step |-> "none"]
ToSet(m) == [step |-> "set", machine |-> m]
ToSignal == [step |-> "signal"]

Init ==
    /\ waiting = [m \in Machine |-> 0]
    /\ init = [m \in Machine |-> TRUE]
    /\ trig = [m \in Machine |-> TRUE]
    /\ signal = TRUE
    /\ post = [t \in Thread |-> None]
    /\ at = "poll"
    /\ pos = 1

\* The machine the loop has come to.
Current == List[pos]

(***************************************************************************)
(* Definitions marked "Wrong" are slips a change to the code could make:   *)
(* each one put in place of the definition below it breaks a property.     *)
(***************************************************************************)
--------------------------------------------------------------------------------
(* vivid_queue_event and trigger_event, by thread t *)

\* The code of the states runs in the loop's thread.
MayPost(t) == post[t] = None /\ (t = Loop => at \in {"enter", "walk"})

Push(t, m) ==
    /\ MayPost(t)
    /\ waiting[m] < QueueSize
    /\ waiting' = [waiting EXCEPT ![m] = @ + 1]
    /\ post' = [post EXCEPT ![t] = ToSet(m)]
    /\ UNCHANGED <<init, trig, signal, at, pos>>

\* The queue is full: the event is reported to the error hook and dropped.
RefusePush(t, m) ==
    /\ MayPost(t)
    /\ waiting[m] = QueueSize
    /\ UNCHANGED vars

\* Wrong: a loop that is awake is not signalled.
SignalIfAsleep == IF at = "poll" THEN ToSignal ELSE None
AfterSet == ToSignal

SetTrig(t) ==
    /\ post[t].step = "set"
    /\ trig' = [trig EXCEPT ![post[t].machine] = TRUE]
    /\ post' = [post EXCEPT ![t] = AfterSet]
    /\ UNCHANGED <<waiting, init, signal, at, pos>>

Signal(t) ==
    /\ post[t].step = "signal"
    /\ signal' = TRUE
    /\ post' = [post EXCEPT ![t] = None]
    /\ UNCHANGED <<waiting, init, trig, at, pos>>
--------------------------------------------------------------------------------
(* The loop: handle_event and, for each triggered event, event_callback *)

LoopAt(step) == at = step /\ post[Loop] = None
Goto(step) == at' = step /\ UNCHANGED pos
NextEvent == at' = "visit" /\ pos' = pos + 1

Wake ==
    /\ LoopAt("poll")
    /\ signal
    /\ signal' = FALSE
    /\ at' = "visit" /\ pos' = 1
    /\ UNCHANGED <<waiting, init, trig, post>>

Visit ==
    /\ LoopAt("visit")
    /\ pos <= Len(List)
    /\ IF trig[Current] THEN Goto("clear") ELSE NextEvent
    /\ UNCHANGED <<waiting, init, trig, signal, post>>

EndOfList ==
    /\ LoopAt("visit")
    /\ pos > Len(List)
    /\ Goto("poll")
    /\ UNCHANGED <<waiting, init, trig, signal, post>>

ClearTrig ==
    /\ LoopAt("clear")
    /\ trig' = [trig EXCEPT ![Current] = FALSE]
    /\ Goto("callback")
    /\ UNCHANGED <<waiting, init, signal, post>>

\* The first callback enters the initial states.
Callback ==
    /\ LoopAt("callback")
    /\ init' = [init EXCEPT ![Current] = FALSE]
    /\ Goto(IF init[Current] THEN "enter" ELSE "take")
    /\ UNCHANGED <<waiting, trig, signal, post>>

Entered ==
    /\ LoopAt("enter")
    /\ Goto("take")
    /\ UNCHANGED <<waiting, init, trig, signal, post>>

Empty(m) == waiting[m] = 0

Take ==
    /\ LoopAt("take")
    /\ IF Empty(Current) THEN NextEvent ELSE Goto("walk")
    /\ UNCHANGED <<waiting, init, trig, signal, post>>

\* The states have handled the event: vivid_queue_pop.
Pop ==
    /\ LoopAt("walk")
    /\ waiting' = [waiting EXCEPT ![Current] = @ - 1]
    /\ Goto("more")
    /\ UNCHANGED <<init, trig, signal, post>>

\* Wrong: every push brings a callback of its own.
MoreNever(m) == FALSE
More(m) == waiting[m] # 0

TriggerAgain ==
    /\ LoopAt("more")
    /\ post' = IF More(Current) THEN [post EXCEPT ![Loop] = ToSet(Current)] ELSE post
    /\ NextEvent
    /\ UNCHANGED <<waiting, init, trig, signal>>

HandleEvent ==
    Wake \/ Visit \/ EndOfList \/ ClearTrig \/ Callback \/ Entered \/ Take \/ Pop
         \/ TriggerAgain

Trigger(t) == SetTrig(t) \/ Signal(t)

Next ==
    \/ HandleEvent
    \/ \E t \in Thread : Trigger(t)
                       \/ \E m \in Machine : Push(t, m) \/ RefusePush(t, m)

Spec == Init /\ [][Next]_vars

(***************************************************************************)
(* The loop is never left, the code of the states returns, and a thread    *)
(* that has pushed an event goes on to trigger.                            *)
(***************************************************************************)
FairSpec ==
    Spec /\ WF_vars(HandleEvent) /\ \A t \in Thread : WF_vars(Trigger(t))
--------------------------------------------------------------------------------
\* What the variables hold; the loop is called back only at a place in the list.
TypeOK ==
    /\ waiting \in [Machine -> 0 .. QueueSize]
    /\ init \in [Machine -> BOOLEAN]
    /\ trig \in [Machine -> BOOLEAN]
    /\ signal \in BOOLEAN
    /\ post \in [Thread -> {None, ToSignal} \cup {ToSet(m) : m \in Machine}]
    /\ at \in {"poll", "visit", "clear", "callback", "enter", "take", "walk", "more"}
    /\ pos \in 1 .. Len(List) + 1
    /\ at \notin {"poll", "visit"} => pos \in 1 .. Len(List)

Service == INSTANCE EventService

(***************************************************************************)
(* The triggers do their work and nothing but: the loop implements the     *)
(* service without them, in which every machine with events waiting is     *)
(* served in the end.  No wake-up is lost between a push and the callback, *)
(* and no machine is starved by another that never runs out of events.     *)
(***************************************************************************)
ImplementsService == Service!Spec

(***************************************************************************)
(* The loop sleeps only when there is nothing to do: with no signal and no *)
(* thread about to give one, no event waits, no flag is set and no machine *)
(* has still to enter its initial states.                                  *)
(***************************************************************************)
Asleep == at = "poll" /\ ~signal /\ \A t \in Thread : post[t] = None

SleepsOnlyIdle ==
    Asleep => \A m \in Machine : waiting[m] = 0 /\ ~trig[m] /\ ~init[m]

(***************************************************************************)
(* The event that the states are working on stays in the queue until they  *)
(* are done: between the check for an empty queue and the pop, the queue   *)
(* of the machine called back is not empty, so the pop is safe.            *)
(***************************************************************************)
NeverPopsEmpty == at = "walk" => waiting[Current] > 0
================================================================================
