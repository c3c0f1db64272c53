-------------------------------- MODULE MCTimers --------------------------------
(***************************************************************************)
(* A timer of each binding, used by a state for its timeout or by the      *)
(* library's periodic timer.                                               *)
(***************************************************************************)
EXTENDS VividTimer, PeriodicTimer

VARIABLE user       \* of the timer, the same all the time

ofState == <<in, active, queue, at, history>>
ofPeriodic == <<periodicActive, trig, periodicAt, periodicHistory>>
all == <<vars, ofPeriodic, user>>

Uses(u, A) == user = u /\ A /\ UNCHANGED <<user, binding>>
State(A) == Uses("state", A) /\ UNCHANGED ofPeriodic
User(A) == Uses("periodic", A) /\ UNCHANGED ofState

MCInit == Init /\ PeriodicInit /\ user \in {"state", "periodic"}
MCNext ==
    \/ State(Next)
    \/ User(PeriodicNext)

\* The fairness of VividTimer and of PeriodicTimer.
MCSpec ==
    /\ MCInit /\ [][MCNext]_all
    /\ WF_all(State(Tick)) /\ WF_all(State(Expires))
    /\ SF_all(State(TimerCallback)) /\ WF_all(State(Loop))
    /\ WF_all(User(PeriodicTick)) /\ WF_all(User(PeriodicExpires))
    /\ SF_all(User(PeriodicTimerCallback)) /\ WF_all(User(PeriodicLoop))

\* Where timers repeat, an active one of a state does not stay so (the state gets its
\* timeout or is left), and that of a user calls again and again, unless the clock is
\* set or the queue found full time and again (vivid_on_timeout, timer_callback).
AlwaysComes == ComesBack /\ KeepsCalling
================================================================================
