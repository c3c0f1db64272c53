-------------------------------- MODULE Countdown --------------------------------
(***************************************************************************)
(* The countdown example, in C and in C++, on the engine of VividSm: its   *)
(* tree of states, and the one variable of the application, which the      *)
(* actions of its clauses set and the guard of its condition reads.        *)
(***************************************************************************)
EXTENDS Naturals, Sequences

CONSTANT QueueSize,
         Length     \* 10 in the examples

VARIABLES counter,  \* me->counter, m_counter
          ticks     \* (history) the timeouts taken since the start

VARIABLES todo, state, init, jump, stateChange, queue, trig, armed, running, due,
          fired, stays, heard, fresh, notified      \* of VividSm

Node == {"root", "idle", "timing", "cond_done", "ringing"}
Event == {"ev_start"}
Timer == {"tm_ready", "tm_ringing"}
NoNode == "none"
Root == "root"
NoEvent == "noEvent"
Jump == "jump"

SubNodes ==
    [n \in Node |-> IF n = "root" THEN <<"idle", "timing", "cond_done", "ringing">>
                    ELSE <<>>]

NodeType ==
    [n \in Node |-> CASE n = "root" -> "root"
                      [] n = "cond_done" -> "condition"
                      [] OTHER -> "state"]

DefaultChild == [n \in Node |-> IF n = "root" THEN "idle" ELSE "none"]

Always(on, target) == [on |-> on, app |-> FALSE, target |-> target, param |-> "noEvent"]
Guarded(on, target) == [Always(on, target) EXCEPT !.app = TRUE]

Clauses ==
    [n \in Node |->
       CASE n = "idle" -> << Always("ev_start", "timing") >>
         [] n = "timing" -> << Always("tm_ready", "cond_done") >>
         [] n = "cond_done" -> << Guarded("jump", "ringing"), Always("jump", "timing") >>
         [] n = "ringing" -> << Always("tm_ringing", "idle") >>
         [] OTHER -> <<>>]

INSTANCE VividSm

all == <<vars, counter, ticks>>
--------------------------------------------------------------------------------
\* The step calls the state with an event whose clause leads to the target.
Goes(source, target) ==
    /\ Calling("event") /\ call.node = source
    /\ \E i \in DOMAIN todo' : todo'[i] = Arrive(source, target)

Done == counter = 0

\* The guard of the first jump of cond_done, when it is asked.
Decides ==
    Calling("event") /\ call.node = "cond_done" /\ call.event = Jump =>
        (Goes("cond_done", "ringing") <=> Done)

Reset == Length

\* Wrong: the tick counts twice.
TickTwice == IF counter >= 2 THEN counter - 2 ELSE 0
Tick == counter - 1

Acts ==
    /\ counter' = IF Goes("idle", "timing") THEN Reset
                  ELSE IF Goes("timing", "cond_done") THEN Tick ELSE counter
    /\ ticks' = IF Goes("idle", "timing") THEN 0
                ELSE IF Goes("timing", "cond_done") /\ ticks <= Length THEN ticks + 1
                ELSE ticks

CountInit == Init /\ counter = 0 /\ ticks = 0

(***************************************************************************)
(* An event that finds the queue full ends the program: error_hook of the  *)
(* example programs aborts.  The steps are those of a program that runs.   *)
(***************************************************************************)
Posts == Room /\ (\E e \in Event : QueueEvent(e))
Expires(t) == Room /\ TimerCallback(t)

CountNext ==
    /\ \/ Engine \/ Posts
       \/ \E t \in Timer : TimeComes(t) \/ TimerFires(t) \/ Expires(t)
    /\ Decides
    /\ Acts

CountSpec == CountInit /\ [][CountNext]_all

\* The loop runs, the timers expire, and their thread has its turn among those
\* that push; the user need not type, and may type for ever.
CountFair ==
    /\ CountSpec
    /\ WF_all(Engine /\ Decides /\ Acts)
    /\ \A t \in Timer :
          /\ WF_all(TimeComes(t) /\ Acts)
          /\ WF_all(TimerFires(t) /\ Acts)
          /\ SF_all(Expires(t) /\ Acts)
--------------------------------------------------------------------------------
(***************************************************************************)
(* A countdown that is started comes to its end, and rings after exactly   *)
(* as many timeouts as were to be counted, whatever is typed and however   *)
(* late they arrive: the counter that the guard reads and the timeouts     *)
(* that were taken since the start agree.  The end comes back to idle,     *)
(* while timeouts share the queue with whatever the user types.            *)
(***************************************************************************)
Rings ==
    /\ "timing" \in active ~> "ringing" \in active /\ ticks = Length
    /\ "ringing" \in active ~> "idle" \in active
================================================================================
