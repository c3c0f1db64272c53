------------------------------- MODULE VividTimer -------------------------------
(***************************************************************************)
(* vivid_on_timeout and timer_callback of vivid_sm.c: a state with one     *)
(* VIVID_ON_TIMEOUT clause, entered and left over and over, on the timer   *)
(* and the clock of one binding.  The thread of the timer, the thread of   *)
(* the loop and the passing of time interleave at every step, so that      *)
(* timeouts of an earlier stay in the state arrive in a later one.         *)
(***************************************************************************)
EXTENDS BindingTimer

CONSTANT Size       \* the places in the event queue

ASSUME SizeAssumption == Size \in Nat \ {0}

VARIABLES
    in,         \* the state is in
    active,     \* timer->active
    queue,      \* the events in the queue
    at,         \* where the loop is
    age,        \* history: ticks since due_time was computed, up to Timeout
    answered,   \* history: timeouts of this stay that were not ignored
    jumped,     \* history: in this stay the clock was set, or came round
    lost        \* history: in this stay a start or a timeout was lost

history == <<age, answered, jumped, lost>>
vars == <<binding, time, timer, in, active, queue, at, history>>

\* An event of the application that takes the machine into the state or out of
\* it, one that has nothing to do with it, and the timeout.
Event == {"go", "other", "timeout"}

Init ==
    /\ TimerInit
    /\ in = FALSE /\ active = FALSE
    /\ queue = <<>> /\ at = "idle"
    /\ age = Timeout /\ answered = 0 /\ jumped = FALSE /\ lost = FALSE
--------------------------------------------------------------------------------
(* The other threads, and time *)

Room == Len(queue) < Size

\* vivid_queue_event with an event of the application
QueueEvent ==
    /\ Room
    /\ \E e \in {"go", "other"} : queue' = Append(queue, e)
    /\ UNCHANGED <<time, timer, in, active, at, history>>

\* timer_callback; the error hook is told if there is no room.
TimerCallback ==
    /\ CallsBack(at = "idle")
    /\ queue' = IF Room THEN Append(queue, "timeout") ELSE queue
    /\ lost' = (lost \/ ~Room)
    /\ UNCHANGED <<in, active, at, age, answered, jumped>>

Tick ==
    /\ ClockTicks
    /\ age' = IF age < Timeout THEN age + 1 ELSE age
    /\ jumped' = (jumped \/ (Wraps /\ reading + 1 = Width))
    /\ UNCHANGED <<in, active, queue, at, answered, lost>>

SetClock ==
    /\ ClockSetForward \/ ClockSetBack
    /\ jumped' = TRUE
    /\ UNCHANGED <<in, active, queue, at, age, answered, lost>>

Expires == TimerExpires /\ UNCHANGED <<in, active, queue, at, history>>
RunCommand == TimerTask /\ UNCHANGED <<in, active, queue, at, history>>
--------------------------------------------------------------------------------
(* The loop *)

\* The event may take the machine into the state, or out of it, or out and in again.
HandleEvent ==
    /\ at = "idle" /\ queue # <<>> /\ Head(queue) # "timeout"
    /\ at' \in CASE Head(queue) = "other" -> {"pop"}
              [] in -> {"leave", "reenter"}
              [] OTHER -> {"enter"}
    /\ UNCHANGED <<time, timer, in, active, queue, history>>

\* Wrong: whatever arrives while the timer is active is accepted.
IgnoreInactive == ~active
Ignore == ~active \/ TooEarly

\* Wrong: the timer stays active.
KeptActive == active
Spent == FALSE

IgnoreTimeout ==
    /\ at = "idle" /\ queue # <<>> /\ Head(queue) = "timeout"
    /\ ~in \/ Ignore
    /\ at' = "pop"
    /\ lost' = (lost \/ (in /\ age = Timeout /\ jumped))
    /\ UNCHANGED <<time, timer, in, active, queue, age, answered, jumped>>

\* The clause may have a guard that is false, an action and no target, or a target.
AnswerTimeout ==
    /\ at = "idle" /\ queue # <<>> /\ Head(queue) = "timeout"
    /\ in /\ ~Ignore
    /\ active' = Spent
    /\ answered' = answered + 1
    /\ at' \in {"pop", "leave", "reenter"}
    /\ UNCHANGED <<time, timer, in, queue, age, jumped, lost>>

\* Wrong: a timer that is left stays active.
LeftActive == active
Stopped == FALSE

\* vivid_on_timeout with exit
Leave ==
    /\ at \in {"leave", "reenter"}
    /\ StopTimer
    /\ active' = Stopped /\ in' = FALSE
    /\ at' = IF at = "leave" THEN "pop" ELSE "enter"
    /\ UNCHANGED <<time, queue, history>>

\* vivid_on_timeout with entry: the due time ...
SetDue ==
    /\ at = "enter"
    /\ due' = DueAfter /\ in' = TRUE /\ at' = "start"
    /\ age' = 0 /\ answered' = 0 /\ lost' = FALSE
    /\ jumped' = (Wraps /\ reading + Timeout >= Width)
    /\ UNCHANGED <<reading, timer, active, queue>>

\* ... and start_timer
Start ==
    /\ at = "start"
    /\ StartTimer
    /\ active' = TRUE /\ at' = "pop"
    /\ lost' = (lost \/ (binding = "freertos" /\ ~HasPlace))
    /\ UNCHANGED <<time, in, queue, age, answered, jumped>>

Pop ==
    /\ at = "pop"
    /\ queue' = Tail(queue) /\ at' = "idle"
    /\ UNCHANGED <<time, timer, in, active, history>>

Loop ==
    \/ HandleEvent \/ IgnoreTimeout \/ AnswerTimeout
    \/ Leave \/ SetDue \/ Start \/ Pop

Next ==
    /\ \/ QueueEvent \/ TimerCallback \/ Tick \/ SetClock \/ Expires \/ RunCommand
       \/ Loop
    /\ UNCHANGED binding

Spec == Init /\ [][Next]_vars

\* Time passes, the timer thread is scheduled, and state code returns.
\* (Strong, as libev calls back only between the events: it comes to each of its
\* watchers in turn.)
FairSpec ==
    /\ Spec
    /\ WF_vars(Tick /\ UNCHANGED binding)
    /\ WF_vars(Expires /\ UNCHANGED binding) /\ SF_vars(TimerCallback /\ UNCHANGED binding)
    /\ WF_vars(Loop /\ UNCHANGED binding)
--------------------------------------------------------------------------------
\* Every variable stays in its type and the queues in their bounds.
TypeOK ==
    /\ TimerTypeOK
    /\ in \in BOOLEAN /\ active \in BOOLEAN
    /\ queue \in Seq(Event) /\ Len(queue) <= Size
    /\ at \in {"idle", "leave", "reenter", "enter", "start", "pop"}
    /\ age \in 0 .. Timeout /\ answered \in Nat
    /\ jumped \in BOOLEAN /\ lost \in BOOLEAN

\* A state gets at most one timeout in one stay: the periodic timers of most
\* bindings, and timeouts left over in the queue, do not repeat it
\* (timer->active is cleared, vivid_sm.c:518).
AtMostOnce == answered <= 1

\* A timeout is never accepted before Timeout ticks have passed since the state
\* was entered, whatever an earlier stay has left in the queue or under way:
\* "Ignore late arriving timeouts" (vivid_sm.c:515).
LateIgnored == [][answered' = answered + 1 => age = Timeout]_vars

\* The same for clocks that can jump: a timeout is accepted early only if during
\* this stay the clock was set, or came round.
EarlyOnlyAfterJump == [][answered' = answered + 1 => age = Timeout \/ jumped]_vars

\* While the timer is active, something that will bring the timeout exists: the
\* timer runs, its callback is due, or the event is queued.  With a one-shot timer
\* the start or the event may have been lost for good, to a full queue or to a
\* counter that came round; a periodic timer survives that.
StillComes ==
    at = "idle" /\ active =>
        \/ Ticking
        \/ \E i \in DOMAIN queue : queue[i] = "timeout"
        \/ ~Periodic /\ lost

\* A periodic timer that is active does not stay so, the state gets its timeout or
\* is left, unless the queue is full time and again when the timer calls back, or
\* the clock is set time and again.
ComesBack ==
    \/ ~Periodic
    \/ []<><<SetClock>>_vars
    \/ []<><<TimerCallback /\ ~Room>>_vars
    \/ active ~> ~active
================================================================================
