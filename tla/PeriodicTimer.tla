------------------------------ MODULE PeriodicTimer ------------------------------
(***************************************************************************)
(* vivid_periodic_timer.c on the timer and the clock of one binding: the   *)
(* timer's thread triggers a binding event, and the loop calls the user    *)
(* back when it comes to the event.  The user starts and stops the timer   *)
(* from the loop's thread, a start while it runs included.                 *)
(***************************************************************************)
EXTENDS BindingTimer

VARIABLES
    periodicActive, \* me->active
    trig,           \* the trigger flag of me->event
    periodicAt,     \* the loop is "idle", or between the two steps of "start"
    sinceStart,     \* history: ticks since due_time was computed, up to Timeout
    called,         \* history: the user has been called since then
    sinceJumped,    \* history: since then the clock was set, or came round
    startLost       \* history: since then a start was lost, or a timeout in time ignored

periodicHistory == <<sinceStart, called, sinceJumped, startLost>>
periodicVars == <<binding, time, timer, periodicActive, trig, periodicAt, periodicHistory>>

\* vivid_periodic_timer_create
PeriodicInit ==
    /\ TimerInit
    /\ periodicActive = FALSE /\ trig = FALSE /\ periodicAt = "idle"
    /\ sinceStart = Timeout /\ called = FALSE /\ sinceJumped = FALSE /\ startLost = FALSE
--------------------------------------------------------------------------------
\* vivid_periodic_timer_start: the due time ...
PeriodicSetDue ==
    /\ periodicAt = "idle"
    /\ due' = DueAfter /\ periodicAt' = "start"
    /\ sinceStart' = 0 /\ called' = FALSE /\ startLost' = FALSE
    /\ sinceJumped' = (Wraps /\ reading + Timeout >= Width)
    /\ UNCHANGED <<reading, timer, periodicActive, trig>>

\* ... and start_timer
PeriodicStart ==
    /\ periodicAt = "start"
    /\ StartTimer
    /\ periodicActive' = TRUE /\ periodicAt' = "idle"
    /\ startLost' = (binding = "freertos" /\ ~HasPlace)
    /\ UNCHANGED <<time, trig, sinceStart, called, sinceJumped>>

PeriodicStopped == FALSE

\* vivid_periodic_timer_stop
PeriodicStop ==
    /\ periodicAt = "idle"
    /\ StopTimer
    /\ periodicActive' = PeriodicStopped
    /\ UNCHANGED <<time, trig, periodicAt, periodicHistory>>

\* timer_callback, in the timer's thread
PeriodicTimerCallback ==
    /\ CallsBack(periodicAt = "idle")
    /\ trig' = TRUE
    /\ UNCHANGED <<periodicActive, periodicAt, periodicHistory>>

\* Wrong: an event under way when the timer was started again counts.
PeriodicIgnoreInactive == ~periodicActive
PeriodicIgnore == ~periodicActive \/ TooEarly

\* event_callback, which does nothing ...
IgnoreEvent ==
    /\ periodicAt = "idle" /\ trig
    /\ PeriodicIgnore
    /\ trig' = FALSE
    /\ startLost' = (startLost \/ (periodicActive /\ sinceStart = Timeout /\ sinceJumped))
    /\ UNCHANGED <<time, timer, periodicActive, periodicAt, sinceStart, called, sinceJumped>>

\* ... or calls the user.
CallUser ==
    /\ periodicAt = "idle" /\ trig
    /\ ~PeriodicIgnore
    /\ trig' = FALSE
    /\ called' = TRUE
    /\ UNCHANGED <<time, timer, periodicActive, periodicAt, sinceStart, sinceJumped, startLost>>

PeriodicTick ==
    /\ ClockTicks
    /\ sinceStart' = IF sinceStart < Timeout THEN sinceStart + 1 ELSE sinceStart
    /\ sinceJumped' = (sinceJumped \/ (Wraps /\ reading + 1 = Width))
    /\ UNCHANGED <<periodicActive, trig, periodicAt, called, startLost>>

PeriodicSetClock ==
    /\ ClockSetForward \/ ClockSetBack
    /\ sinceJumped' = TRUE
    /\ UNCHANGED <<periodicActive, trig, periodicAt, sinceStart, called, startLost>>

PeriodicExpires == TimerExpires /\ UNCHANGED <<periodicActive, trig, periodicAt, periodicHistory>>
PeriodicRunCommand == TimerTask /\ UNCHANGED <<periodicActive, trig, periodicAt, periodicHistory>>

PeriodicLoop == PeriodicStart \/ IgnoreEvent \/ CallUser

PeriodicNext ==
    /\ \/ PeriodicSetDue \/ PeriodicStop \/ PeriodicLoop
       \/ PeriodicTimerCallback \/ PeriodicTick \/ PeriodicSetClock
       \/ PeriodicExpires \/ PeriodicRunCommand
    /\ UNCHANGED binding

PeriodicSpec == PeriodicInit /\ [][PeriodicNext]_periodicVars

\* Time passes, the timer's thread is scheduled, and the loop comes to its events.
\* (Strong, as libev calls back only between the events: it comes to each of its
\* watchers in turn.)
PeriodicFairSpec ==
    /\ PeriodicSpec
    /\ WF_periodicVars(PeriodicTick /\ UNCHANGED binding)
    /\ WF_periodicVars(PeriodicExpires /\ UNCHANGED binding)
    /\ SF_periodicVars(PeriodicTimerCallback /\ UNCHANGED binding)
    /\ WF_periodicVars(PeriodicLoop /\ UNCHANGED binding)
--------------------------------------------------------------------------------
PeriodicTypeOK ==
    /\ TimerTypeOK
    /\ periodicActive \in BOOLEAN /\ trig \in BOOLEAN /\ periodicAt \in {"idle", "start"}
    /\ sinceStart \in 0 .. Timeout /\ called \in BOOLEAN
    /\ sinceJumped \in BOOLEAN /\ startLost \in BOOLEAN

\* The user is not called before the timeout has passed since the latest start,
\* though an expiry of an earlier start may be under way in the timer's thread or
\* in the loop (vivid_periodic_timer.c:26), unless the clock has jumped since.
NeverEarly == [][CallUser => sinceStart = Timeout \/ sinceJumped]_periodicVars

\* A timer that is active will call the user; a one-shot timer of FreeRTOS at least
\* the first time, unless the start was lost or the counter came round.
StillCalls ==
    periodicAt = "idle" /\ periodicActive =>
        \/ Ticking
        \/ trig
        \/ ~Periodic /\ (called \/ startLost)

\* As long as it is neither stopped nor started anew, the user is called again and
\* again, unless timers expire once or the clock is set time and again.
KeepsCalling ==
    \/ ~Periodic
    \/ []<>(~periodicActive)
    \/ []<><<PeriodicSetDue>>_periodicVars
    \/ []<><<PeriodicSetClock>>_periodicVars
    \/ []<><<CallUser>>_periodicVars
================================================================================
