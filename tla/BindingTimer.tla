------------------------------ MODULE BindingTimer ------------------------------
(***************************************************************************)
(* The clock and one timer of a binding: get_time, start_timer, stop_timer *)
(* and the thread that notices an expiry and calls the timer's callback.   *)
(* A user of the timer computes a due time from the clock when it starts   *)
(* the timer and compares the two when the timeout reaches it.             *)
(*                                                                         *)
(* Linux, Windows and libev read a clock that does not come round, and     *)
(* only due > reading is ever asked of it, so the model forgets how far it *)
(* has come: whenever the reading reaches Width it starts again from zero  *)
(* and the due time is moved down with it.  The FreeRTOS tick counter is   *)
(* an unsigned number that does come round, and due times with it.         *)
(***************************************************************************)
EXTENDS Integers, Sequences

CONSTANTS Bindings,     \* the bindings whose timers are looked at
          Timeout,      \* the timeout, in ticks
          Width,        \* the tick counter counts modulo Width
          CommandSize   \* the places in the queue of the FreeRTOS timer task

ASSUME BindingAssumption == Bindings \subseteq {"linux", "win32", "libev", "freertos"}
ASSUME TimeAssumption ==
    /\ Timeout \in Nat \ {0} /\ Width \in Nat \ {0} /\ CommandSize \in Nat
    /\ "freertos" \in Bindings => Timeout < Width

VARIABLES
    binding,    \* the binding of the program, the same all the time
    reading,    \* what get_time returns
    due,        \* due_time
    left,       \* ticks to the next expiry of the timer, or Off
    fired,      \* an expiry has been noticed and its callback not called yet
    commands    \* what the FreeRTOS timer task has still to do

time == <<reading, due>>
timer == <<left, fired, commands>>

Off == -1

TimerInit ==
    /\ binding \in Bindings
    /\ reading = 0 /\ due = 0
    /\ left = Off /\ fired = FALSE
    /\ commands = <<>>
--------------------------------------------------------------------------------
(***************************************************************************)
(* Definitions marked "Wrong" here and in the modules that extend this one *)
(* are slips a change to the code could make: each one put in place of the *)
(* definition below it breaks a property.                                  *)
(***************************************************************************)

(* The clocks *)

\* The FreeRTOS clock is a tick counter of type unsigned.
Wraps == binding = "freertos"

\* GetSystemTime and ev_time are the time of day, which can be set.
Settable == binding \in {"win32", "libev"}

DueAfter == IF Wraps THEN (reading + Timeout) % Width ELSE reading + Timeout

TooEarly == due > reading

DownBy(n, d) == IF n > d THEN n - d ELSE 0

\* A tick of the clock; an expired timer waits to be noticed.
ClockTicks ==
    /\ reading' = (reading + 1) % Width
    /\ due' = IF ~Wraps /\ reading + 1 = Width THEN DownBy(due, Width) ELSE due
    /\ left' = IF left > 0 THEN left - 1 ELSE left
    /\ UNCHANGED <<fired, commands>>

\* The time of day is set forward or back: a due time comes closer or goes away.
ClockSetForward == Settable /\ due' = DownBy(due, 1) /\ UNCHANGED <<reading, timer>>
ClockSetBack ==
    /\ Settable
    /\ due <= Width + Timeout
    /\ due' = due + 1
    /\ UNCHANGED <<reading, timer>>
--------------------------------------------------------------------------------
(* start_timer and stop_timer *)

\* timerfd_settime with the timeout as first expiry and as interval.
LinuxStart == left' = Timeout /\ UNCHANGED <<fired, commands>>
\* ... and with zero; an expiry that epoll_wait has reported already is beyond it.
LinuxStop == left' = Off /\ UNCHANGED <<fired, commands>>

Win32Start == left' = Timeout /\ UNCHANGED <<fired, commands>>
Win32Stop == left' = Off /\ UNCHANGED <<fired, commands>>

\* ev_timer_start does nothing for a timer that runs: it expires when it would have, or
\* at once where ev_timer_set has overwritten the time that libev looks at.
LibevStart ==
    /\ left' \in IF left = Off THEN {Timeout} ELSE {left, 0}
    /\ UNCHANGED <<fired, commands>>
\* ev_timer_stop takes back a pending callback.
LibevStop == left' = Off /\ fired' = FALSE /\ UNCHANGED commands

\* A command for the timer task; with no place for it, it is reported and lost.
HasPlace == Len(commands) < CommandSize
FreertosCommand(c) ==
    /\ commands' = IF HasPlace THEN Append(commands, c) ELSE commands
    /\ UNCHANGED <<left, fired>>
FreertosStart == FreertosCommand("start")
FreertosStop == FreertosCommand("stop")

StartTimer ==
    \/ binding = "linux" /\ LinuxStart
    \/ binding = "win32" /\ Win32Start
    \/ binding = "libev" /\ LibevStart
    \/ binding = "freertos" /\ FreertosStart

StopTimer ==
    \/ binding = "linux" /\ LinuxStop
    \/ binding = "win32" /\ Win32Stop
    \/ binding = "libev" /\ LibevStop
    \/ binding = "freertos" /\ FreertosStop
--------------------------------------------------------------------------------
(* Expiry *)

\* Wrong: it_interval is left at zero.
LinuxOnce == {Off}
\* The interval begins when the timer expires, not when that is noticed.
LinuxAgain == 1 .. Timeout

\* epoll_wait reports the timer; read takes its count, and does not notice
\* that there is none because the timer was stopped in between.
LinuxExpires == left' \in LinuxAgain

\* The thread pool waits for a timer with a period.
Win32Expires == left' \in 1 .. Timeout
\* libev starts the timer again with its repeat value, or at once when it is behind.
LibevExpires == left' \in 0 .. Timeout
\* xTimerCreate with pdFALSE: the timer goes to sleep.
FreertosExpires == left' = Off

TimerExpires ==
    /\ left = 0 /\ ~fired
    /\ fired' = TRUE
    /\ \/ binding = "linux" /\ LinuxExpires
       \/ binding = "win32" /\ Win32Expires
       \/ binding = "libev" /\ LibevExpires
       \/ binding = "freertos" /\ FreertosExpires
    /\ UNCHANGED <<time, commands>>

\* The timer task of FreeRTOS, which is also the one that calls the callbacks.
TimerTask ==
    /\ commands # <<>> /\ ~fired
    /\ left' = IF Head(commands) = "start" THEN Timeout ELSE Off
    /\ commands' = Tail(commands)
    /\ UNCHANGED <<time, fired>>

\* timer_callback in the binding: only libev calls it in the loop's thread.
CallsBack(loopIsFree) ==
    /\ fired
    /\ binding = "libev" => loopIsFree
    /\ fired' = FALSE
    /\ UNCHANGED <<time, left, commands>>
--------------------------------------------------------------------------------
Periodic == binding # "freertos"

\* The timer will go off, or has gone off and not called back.
Ticking == left # Off \/ fired \/ \E i \in DOMAIN commands : commands[i] = "start"

TimerTypeOK ==
    /\ binding \in Bindings
    /\ reading \in 0 .. Width - 1
    /\ due \in 0 .. Width + Timeout + 1
    /\ left \in -1 .. Timeout
    /\ fired \in BOOLEAN
    /\ commands \in Seq({"start", "stop"})
    /\ Len(commands) <= CommandSize
================================================================================
