------------------------------ MODULE TimerProofs ------------------------------
(***************************************************************************)
(* Proofs about the timers, for every binding, timeout, width of the clock *)
(* and length of the queues: lemmas about BindingTimer, then VividTimer,   *)
(* then PeriodicTimer.                                                     *)
(***************************************************************************)
EXTENDS VividTimer, PeriodicTimer, TLAPS

(* BindingTimer: clocks and timers of the bindings *)

LEMMA Wrapping ==
    ASSUME NEW x \in 0 .. Width - 1
    PROVE  (x + 1) % Width = IF x + 1 = Width THEN 0 ELSE x + 1
  BY TimeAssumption

LEMMA WrappingDue ==
    ASSUME NEW x \in 0 .. Width - 1, binding \in Bindings, Wraps
    PROVE  (x + Timeout) % Width = IF x + Timeout < Width THEN x + Timeout
                                                        ELSE x + Timeout - Width
  BY TimeAssumption DEF Wraps

LEMMA TickOfClock ==
    ASSUME TimerTypeOK, ClockTicks
    PROVE  /\ reading' = IF reading + 1 = Width THEN 0 ELSE reading + 1
           /\ due' = IF ~Wraps /\ reading + 1 = Width THEN DownBy(due, Width) ELSE due
           /\ left' = IF left > 0 THEN left - 1 ELSE left
  BY Wrapping DEF ClockTicks, TimerTypeOK
--------------------------------------------------------------------------------
(* The commands of a one-shot timer *)

\* A start that no later stop takes back.
StartAhead ==
    \E i \in 1 .. Len(commands) :
        /\ commands[i] = "start"
        /\ \A j \in i + 1 .. Len(commands) : commands[j] # "stop"

LEMMA StartStaysAhead ==
    ASSUME StartAhead, commands' = commands
    PROVE  StartAhead'
  BY DEF StartAhead

\* A start that finds a place is ahead.
LEMMA StartPuts ==
    ASSUME TimerTypeOK, commands' = Append(commands, "start")
    PROVE  StartAhead'
<1> USE DEF TimerTypeOK
<1>1. /\ Len(commands) + 1 \in 1 .. Len(commands')
      /\ commands'[Len(commands) + 1] = "start"
  OBVIOUS
<1>2. \A j \in Len(commands) + 1 + 1 .. Len(commands') : commands'[j] # "stop"
  OBVIOUS
<1> QED
  BY <1>1, <1>2 DEF StartAhead

LEMMA OneOrMore == \A n \in Nat \ {0} : n = 1 \/ n > 1
  OBVIOUS

\* When the timer task runs a command, the start stays ahead or has just been made.
LEMMA StartRuns ==
    ASSUME TimerTypeOK, StartAhead, TimerTask
    PROVE  StartAhead' \/ (commands' = <<>> /\ left' = Timeout)
<1> USE DEF TimerTypeOK
<1>0. /\ commands # <<>> /\ commands' = Tail(commands)
      /\ left' = IF Head(commands) = "start" THEN Timeout ELSE Off
  BY DEF TimerTask
<1>1. PICK i \in 1 .. Len(commands) :
          commands[i] = "start" /\ \A j \in i + 1 .. Len(commands) : commands[j] # "stop"
  BY DEF StartAhead
<1>2. Len(commands) \in Nat \ {0}
  BY <1>0
<1>3. CASE i = 1
  <2>1. CASE Len(commands) = 1
    BY <1>0, <1>1, <1>3, <2>1
  <2>2. CASE Len(commands) > 1
    <3>1. commands[2] \in {"start", "stop"} /\ commands[2] # "stop"
      BY <1>1, <1>2, <1>3, <2>2
    <3>2. 1 \in 1 .. Len(commands') /\ commands'[1] = "start"
      BY <1>0, <1>2, <2>2, <3>1
    <3>3. \A j \in 1 + 1 .. Len(commands') : commands'[j] # "stop"
      BY <1>0, <1>1, <1>3, <2>2
    <3> QED
      BY <3>2, <3>3 DEF StartAhead
  <2> QED
    BY <1>2, <2>1, <2>2, OneOrMore, Zenon
<1>4. CASE i # 1
  <2>1. i - 1 \in 1 .. Len(commands') /\ commands'[i - 1] = "start"
    BY <1>0, <1>1, <1>4
  <2>2. \A j \in (i - 1) + 1 .. Len(commands') : commands'[j] # "stop"
    BY <1>0, <1>1, <1>4
  <2> QED
    BY <2>1, <2>2 DEF StartAhead
<1> QED
  BY <1>3, <1>4
--------------------------------------------------------------------------------
(* VividTimer: the timeout of a state *)

\* A timeout that is answered ends the timer's activity.
OnceInv ==
    /\ AtMostOnce
    /\ active \/ at = "start" => answered = 0

\* As long as the clock goes its way, the due time tells how long the stay has been.
DueInv ==
    in /\ ~jumped =>
        IF age < Timeout THEN due = reading + (Timeout - age) ELSE due <= reading

\* The loop is at an event of the queue, and the timer is active only in a stay.
LoopInv ==
    /\ at # "idle" => queue # <<>>
    /\ active => in
    /\ at = "enter" => ~in
    /\ at = "start" => in /\ ~active

\* A timeout that the loop has yet to come to.
TimeoutAhead ==
    \E i \in 1 .. Len(queue) : queue[i] = "timeout" /\ (at # "idle" => i > 1)

\* Why a one-shot timer brings a timeout: it is about to be started, or runs until
\* the timeout has passed, or has brought the timeout of this very stay.
WillCome ==
    \/ StartAhead
    \/ /\ commands = <<>>
       /\ \/ left # Off /\ left + age >= Timeout
          \/ age = Timeout /\ (fired \/ TimeoutAhead)

\* A timer that is active: a periodic one runs, a one-shot one will come.
ComesInv ==
    /\ Periodic => commands = <<>>
    /\ active /\ Periodic => left # Off
    /\ active /\ ~Periodic /\ ~lost => WillCome

IInv == TypeOK /\ OnceInv /\ DueInv /\ LoopInv /\ ComesInv
--------------------------------------------------------------------------------
\* What a tick of the clock does to the variables.
LEMMA TickStep ==
    ASSUME TypeOK, Tick
    PROVE  /\ reading' = IF reading + 1 = Width THEN 0 ELSE reading + 1
           /\ due' = IF ~Wraps /\ reading + 1 = Width THEN DownBy(due, Width) ELSE due
           /\ age' = IF age < Timeout THEN age + 1 ELSE age
           /\ left' = IF left > 0 THEN left - 1 ELSE left
           /\ jumped' = (jumped \/ (Wraps /\ reading + 1 = Width))
  BY TickOfClock DEF Tick, TypeOK

\* The variables that are true or false.
Flags ==
    /\ fired \in BOOLEAN /\ in \in BOOLEAN /\ active \in BOOLEAN
    /\ jumped \in BOOLEAN /\ lost \in BOOLEAN

LEMMA InitIInv == Init => IInv
<1> SUFFICES ASSUME Init PROVE IInv
  OBVIOUS
<1>1. Flags
  BY DEF Init, TimerInit, Flags
<1>2. TypeOK
  BY <1>1, TimeAssumption, SizeAssumption
  DEF Init, TimerInit, TypeOK, TimerTypeOK, Off, Flags
<1>3. OnceInv /\ DueInv /\ LoopInv /\ ComesInv
  BY DEF Init, TimerInit, OnceInv, AtMostOnce, DueInv, LoopInv, ComesInv
<1> QED
  BY <1>2, <1>3 DEF IInv
--------------------------------------------------------------------------------
(* Each part of the invariant is preserved by each action. *)

LEMMA BindingKept == [Next]_vars => binding' = binding
  BY DEF Next, vars

LEMMA FlagsStep == Flags /\ [Next]_vars => Flags'
<1> SUFFICES ASSUME Flags, [Next]_vars PROVE Flags'
  OBVIOUS
<1> USE DEF Flags
<1>1. CASE QueueEvent \/ SetClock
  BY <1>1, Zenon DEF QueueEvent, SetClock, ClockSetForward, ClockSetBack, timer, history
<1>2. CASE TimerCallback \/ Tick
  BY <1>2, Zenon DEF TimerCallback, CallsBack, Tick, ClockTicks
<1>3. CASE Expires \/ RunCommand
  BY <1>3, Zenon DEF Expires, TimerExpires, RunCommand, TimerTask, history
<1>4. CASE HandleEvent \/ IgnoreTimeout \/ AnswerTimeout \/ SetDue \/ Pop
  BY <1>4, Zenon DEF HandleEvent, IgnoreTimeout, AnswerTimeout, SetDue, Pop, Spent, timer,
                     history
<1>5. CASE Leave \/ Start
  BY <1>5, Zenon DEF Leave, StopTimer, LinuxStop, Win32Stop, LibevStop, FreertosStop,
                     Start, StartTimer, LinuxStart, Win32Start, LibevStart,
                     FreertosStart, FreertosCommand, Stopped, history
<1>6. CASE UNCHANGED vars
  BY <1>6, Zenon DEF vars, timer, history
<1> QED
  BY <1>1, <1>2, <1>3, <1>4, <1>5, <1>6, Zenon DEF Next, Loop

LEMMA TypeStep == TypeOK /\ LoopInv /\ [Next]_vars => TypeOK'
<1> SUFFICES ASSUME TypeOK, LoopInv, [Next]_vars PROVE TypeOK'
  OBVIOUS
<1>0. Flags' /\ binding' \in Bindings
  BY FlagsStep, BindingKept DEF TypeOK, TimerTypeOK, Flags
<1> USE <1>0, TimeAssumption, SizeAssumption DEF TypeOK, TimerTypeOK, Flags
<1>1. CASE QueueEvent
  BY <1>1 DEF QueueEvent, Room, Event, time, timer, history
<1>2. CASE TimerCallback
  <2>1. UNCHANGED <<reading, due, left, commands, at, age, answered>>
    BY <1>2 DEF TimerCallback, CallsBack, time
  <2>2. queue' \in Seq(Event) /\ Len(queue') <= Size
    BY <1>2 DEF TimerCallback, Room, Event
  <2> QED
    BY <2>1, <2>2
<1>3. CASE Tick
  <2>1. UNCHANGED <<commands, queue, at, answered>>
    BY <1>3 DEF Tick, ClockTicks
  <2>2. due' \in 0 .. Width + Timeout + 1
    BY <1>3, TickStep DEF DownBy
  <2>3. reading' \in 0 .. Width - 1 /\ left' \in -1 .. Timeout /\ age' \in 0 .. Timeout
    BY <1>3, TickStep
  <2> QED
    BY <2>1, <2>2, <2>3
<1>4. CASE SetClock
  BY <1>4 DEF SetClock, ClockSetForward, ClockSetBack, DownBy, timer
<1>5. CASE Expires
  BY <1>5 DEF Expires, TimerExpires, LinuxExpires, LinuxAgain, Win32Expires,
              LibevExpires, FreertosExpires, Off, time, history
<1>6. CASE RunCommand
  BY <1>6 DEF RunCommand, TimerTask, Off, time, history
<1>7. CASE HandleEvent
  BY <1>7 DEF HandleEvent, time, timer, history
<1>8. CASE IgnoreTimeout
  BY <1>8 DEF IgnoreTimeout, time, timer
<1>9. CASE AnswerTimeout
  <2>1. UNCHANGED <<time, timer, queue, age>> /\ answered' = answered + 1
        /\ at' \in {"pop", "leave", "reenter"}
    BY <1>9 DEF AnswerTimeout
  <2> QED
    BY <2>1 DEF time, timer
<1>10. CASE Leave
  <2>1. UNCHANGED <<reading, due, queue, age, answered>>
        /\ at' \in {"pop", "enter"}
    BY <1>10 DEF Leave, time, history
  <2>2. /\ left' \in {Off, left}
        /\ \/ commands' = commands
           \/ HasPlace /\ commands' = Append(commands, "stop")
    BY <1>10, Zenon DEF Leave, StopTimer, LinuxStop, Win32Stop, LibevStop, FreertosStop,
                 FreertosCommand
  <2>3. commands' \in Seq({"start", "stop"}) /\ Len(commands') <= CommandSize
    BY <2>2 DEF HasPlace
  <2> QED
    BY <2>1, <2>2, <2>3 DEF Off
<1>11. CASE SetDue
  <2>1. due' \in 0 .. Width + Timeout
    BY <1>11, WrappingDue DEF SetDue, DueAfter
  <2>2. UNCHANGED <<reading, left, commands, queue>> /\ at' = "start"
        /\ age' = 0 /\ answered' = 0
    BY <1>11 DEF SetDue, timer
  <2> QED
    BY <2>1, <2>2
<1>12. CASE Start
  <2>1. UNCHANGED <<reading, due, queue, age, answered>> /\ at' = "pop"
    BY <1>12 DEF Start, time
  <2>2. /\ left' \in {Timeout, left, 0}
        /\ \/ commands' = commands
           \/ HasPlace /\ commands' = Append(commands, "start")
    BY <1>12, Zenon DEF Start, StartTimer, LinuxStart, Win32Start, LibevStart, FreertosStart,
                 FreertosCommand
  <2>3. commands' \in Seq({"start", "stop"}) /\ Len(commands') <= CommandSize
    BY <2>2 DEF HasPlace
  <2> QED
    BY <2>1, <2>2, <2>3 DEF Off
<1>13. CASE Pop
  <2>1. queue' \in Seq(Event) /\ Len(queue') <= Size
    BY <1>13 DEF Pop, LoopInv
  <2> QED
    BY <1>13, <2>1 DEF Pop, time, timer, history
<1>14. CASE UNCHANGED vars
  BY <1>14 DEF vars, time, timer, history
<1> QED
  BY <1>1, <1>2, <1>3, <1>4, <1>5, <1>6, <1>7, <1>8, <1>9, <1>10, <1>11, <1>12,
     <1>13, <1>14 DEF Next, Loop

LEMMA OnceStep == TypeOK /\ LoopInv /\ OnceInv /\ [Next]_vars => OnceInv'
<1> SUFFICES ASSUME TypeOK, LoopInv, OnceInv, [Next]_vars PROVE OnceInv'
  OBVIOUS
<1> USE DEF OnceInv, AtMostOnce
<1>1. CASE SetDue
  BY <1>1 DEF SetDue, LoopInv, timer
<1>2. CASE AnswerTimeout
  BY <1>2 DEF AnswerTimeout, Ignore, Spent, TypeOK
<1>3. CASE Leave
  BY <1>3 DEF Leave, Stopped, history
<1>4. CASE Start
  BY <1>4 DEF Start
<1>5. ASSUME ~SetDue, ~AnswerTimeout, ~Leave, ~Start
      PROVE  UNCHANGED <<active, answered>> /\ (at' = "start" => at = "start")
  BY <1>5 DEF Next, Loop, QueueEvent, TimerCallback, Tick, SetClock, Expires,
              RunCommand, HandleEvent, IgnoreTimeout, Pop, vars, history
<1> QED
  BY <1>1, <1>2, <1>3, <1>4, <1>5

LEMMA DueStep == TypeOK /\ DueInv /\ [Next]_vars => DueInv'
<1> SUFFICES ASSUME TypeOK, DueInv, [Next]_vars, in', ~jumped' PROVE DueInv'
  BY DEF DueInv
<1>1. CASE Tick
  <2>1. in /\ ~jumped /\ in' = in /\ (Wraps => reading + 1 # Width)
    BY <1>1, TickStep DEF Tick, TypeOK
  <2> QED
    BY <2>1, <1>1, TickStep, TimeAssumption DEF DueInv, DownBy, TypeOK, TimerTypeOK
<1>2. CASE SetDue
  <2>1. ~(Wraps /\ reading + Timeout >= Width)
    BY <1>2, Zenon DEF SetDue
  <2>2. DueAfter = reading + Timeout
    <3>1. CASE Wraps
      BY <2>1, <3>1, WrappingDue, TimeAssumption DEF DueAfter, TypeOK, TimerTypeOK
    <3>2. CASE ~Wraps
      BY <3>2 DEF DueAfter
    <3> QED
      BY <3>1, <3>2
  <2>3. due' = reading + Timeout
    BY <1>2, <2>2 DEF SetDue
  <2> QED
    BY <1>2, <2>3, TimeAssumption DEF SetDue, DueInv, TypeOK, TimerTypeOK
<1>3. CASE SetClock
  BY <1>3 DEF SetClock
<1>4. ASSUME ~Tick, ~SetDue, ~SetClock
      PROVE  UNCHANGED <<time, age, jumped>> /\ (in' => in)
  BY <1>4 DEF Next, Loop, QueueEvent, TimerCallback, CallsBack, Expires, TimerExpires,
              RunCommand, TimerTask, HandleEvent, IgnoreTimeout, AnswerTimeout, Leave,
              Start, Pop, vars, history
<1> QED
  BY <1>1, <1>2, <1>3, <1>4 DEF DueInv, time

LEMMA LoopStep == TypeOK /\ LoopInv /\ [Next]_vars => LoopInv'
<1> SUFFICES ASSUME TypeOK, LoopInv, [Next]_vars PROVE LoopInv'
  OBVIOUS
<1> USE DEF LoopInv, TypeOK
<1>1. CASE QueueEvent \/ TimerCallback
  BY <1>1 DEF QueueEvent, TimerCallback
<1>2. CASE HandleEvent
  BY <1>2 DEF HandleEvent
<1>3. CASE IgnoreTimeout \/ AnswerTimeout
  BY <1>3 DEF IgnoreTimeout, AnswerTimeout, Spent
<1>4. CASE Leave
  BY <1>4 DEF Leave, Stopped
<1>5. CASE SetDue
  BY <1>5 DEF SetDue
<1>6. CASE Start
  BY <1>6 DEF Start
<1>7. CASE Pop
  BY <1>7 DEF Pop
<1>8. CASE Tick \/ SetClock \/ Expires \/ RunCommand \/ UNCHANGED vars
  BY <1>8 DEF Tick, SetClock, Expires, RunCommand, vars
<1> QED
  BY <1>1, <1>2, <1>3, <1>4, <1>5, <1>6, <1>7, <1>8 DEF Next, Loop

LEMMA PeriodicStep ==
    ASSUME TypeOK, LoopInv, ComesInv, [Next]_vars, Periodic
    PROVE  commands' = <<>> /\ (active' => left' # Off)
<1> USE TimeAssumption DEF ComesInv, Periodic, TypeOK, TimerTypeOK, Off
<1>1. CASE QueueEvent \/ SetClock \/ HandleEvent \/ IgnoreTimeout \/ Pop \/ UNCHANGED vars
  BY <1>1 DEF QueueEvent, SetClock, ClockSetForward, ClockSetBack, HandleEvent,
              IgnoreTimeout, Pop, vars, timer
<1>2. CASE TimerCallback
  BY <1>2 DEF TimerCallback, CallsBack
<1>3. CASE Tick
  BY <1>3 DEF Tick, ClockTicks
<1>4. CASE Expires
  BY <1>4 DEF Expires, TimerExpires, LinuxExpires, LinuxAgain, Win32Expires,
              LibevExpires
<1>5. CASE RunCommand
  BY <1>5 DEF RunCommand, TimerTask
<1>6. CASE AnswerTimeout
  BY <1>6 DEF AnswerTimeout, Spent, timer
<1>7. CASE Leave
  BY <1>7 DEF Leave, StopTimer, LinuxStop, Win32Stop, LibevStop, Stopped
<1>8. CASE SetDue
  BY <1>8 DEF SetDue, LoopInv, timer
<1>9. CASE Start
  BY <1>9 DEF Start, StartTimer, LinuxStart, Win32Start, LibevStart
<1> QED
  BY <1>1, <1>2, <1>3, <1>4, <1>5, <1>6, <1>7, <1>8, <1>9 DEF Next, Loop

\* No step takes a timeout away that the loop has not come to.
LEMMA TimeoutStaysAhead ==
    ASSUME TypeOK, LoopInv, TimeoutAhead,
           \/ UNCHANGED <<queue, at>>
           \/ UNCHANGED at /\ \E e \in Event : queue' = Append(queue, e)
           \/ at = "pop" /\ at' = "idle" /\ queue' = Tail(queue)
           \/ at = "idle" /\ Head(queue) # "timeout" /\ queue' = queue
    PROVE  TimeoutAhead'
<1>1. PICK i \in 1 .. Len(queue) : queue[i] = "timeout" /\ (at # "idle" => i > 1)
  BY DEF TimeoutAhead
<1>2. CASE UNCHANGED <<queue, at>>
  BY <1>2 DEF TimeoutAhead
<1>3. CASE UNCHANGED at /\ \E e \in Event : queue' = Append(queue, e)
  <2>1. i \in 1 .. Len(queue') /\ queue'[i] = queue[i]
    BY <1>1, <1>3 DEF TypeOK
  <2> QED
    BY <1>1, <1>3, <2>1 DEF TimeoutAhead
<1>4. CASE at = "pop" /\ at' = "idle" /\ queue' = Tail(queue)
  <2>1. i > 1
    BY <1>1, <1>4
  <2>2. i - 1 \in 1 .. Len(queue') /\ queue'[i - 1] = queue[i]
    BY <1>1, <1>4, <2>1 DEF TypeOK
  <2> QED
    BY <1>1, <1>4, <2>2 DEF TimeoutAhead
<1>5. CASE at = "idle" /\ Head(queue) # "timeout" /\ queue' = queue
  <2>1. i > 1
    BY <1>1, <1>5 DEF TypeOK
  <2> QED
    BY <1>1, <1>5, <2>1 DEF TimeoutAhead
<1> QED
  BY <1>2, <1>3, <1>4, <1>5

LEMMA OneShotStep ==
    ASSUME TypeOK, DueInv, LoopInv, ComesInv, [Next]_vars, ~Periodic, active', ~lost'
    PROVE  WillCome'
<1> USE DEF TypeOK, TimerTypeOK
<1>1. CASE QueueEvent \/ HandleEvent \/ Pop \/ SetClock \/ UNCHANGED vars
  <2>1. UNCHANGED <<left, fired, commands, active, age, lost>>
    BY <1>1 DEF QueueEvent, HandleEvent, Pop, SetClock, ClockSetForward, ClockSetBack, vars,
                timer, history
  <2>2. TimeoutAhead => TimeoutAhead'
    BY <1>1, TimeoutStaysAhead
    DEF QueueEvent, Event, HandleEvent, Pop, SetClock, vars
  <2> QED
    BY <2>1, <2>2, StartStaysAhead DEF ComesInv, WillCome, Off
<1>2. CASE TimerCallback
  <2>1. /\ UNCHANGED <<left, commands, active, at, age>> /\ fired /\ ~lost /\ Room
        /\ queue' = Append(queue, "timeout")
    BY <1>2, Zenon DEF TimerCallback, CallsBack
  <2>2. TimeoutAhead'
    BY <2>1 DEF TimeoutAhead, LoopInv
  <2> QED
    BY <2>1, <2>2, StartStaysAhead DEF ComesInv, WillCome, Off
<1>3. CASE Tick
  <2>1. UNCHANGED <<fired, commands, active, queue, at, lost>>
    BY <1>3 DEF Tick, ClockTicks
  <2>2. TimeoutAhead => TimeoutAhead'
    BY <2>1, TimeoutStaysAhead
  <2> QED
    BY <1>3, <2>1, <2>2, TickStep, StartStaysAhead, TimeAssumption
    DEF ComesInv, WillCome, Off
<1>4. CASE Expires
  <2>1. /\ left = 0 /\ fired'
        /\ UNCHANGED <<commands, active, age, lost, queue, at>>
    BY <1>4 DEF Expires, TimerExpires, history
  <2>2. TimeoutAhead => TimeoutAhead'
    BY <2>1, TimeoutStaysAhead
  <2> QED
    BY <2>1, <2>2, StartStaysAhead, TimeAssumption DEF ComesInv, WillCome, Off
<1>5. CASE RunCommand
  <2>1. commands # <<>> /\ UNCHANGED <<active, age, lost>>
    BY <1>5 DEF RunCommand, TimerTask, history
  <2>2. StartAhead
    BY <2>1 DEF ComesInv, WillCome
  <2>3. StartAhead' \/ (commands' = <<>> /\ left' = Timeout)
    BY <1>5, <2>2, StartRuns DEF RunCommand
  <2> QED
    BY <2>1, <2>3, TimeAssumption DEF WillCome, Off
<1>6. CASE IgnoreTimeout
  <2>1. /\ at = "idle" /\ (Ignore \/ ~in) /\ ~lost /\ ~(in /\ age = Timeout /\ jumped)
        /\ UNCHANGED <<time, timer, active, age>>
    BY <1>6, Zenon DEF IgnoreTimeout
  <2>2. active /\ in /\ due > reading
    BY <2>1 DEF LoopInv, Ignore, TooEarly
  <2>3. age # Timeout
    BY <2>1, <2>2, TimeAssumption DEF DueInv
  <2> QED
    BY <2>1, <2>2, <2>3, StartStaysAhead DEF ComesInv, WillCome, timer, Off
<1>7. CASE AnswerTimeout \/ Leave \/ SetDue
  BY <1>7 DEF AnswerTimeout, Spent, Leave, Stopped, SetDue, LoopInv
<1>8. CASE Start
  <2>1. HasPlace /\ commands' = Append(commands, "start")
    BY <1>8
    DEF Start, StartTimer, FreertosStart, FreertosCommand, Periodic
  <2>2. StartAhead'
    BY <2>1, StartPuts
  <2> QED
    BY <2>2 DEF WillCome
<1> QED
  BY <1>1, <1>2, <1>3, <1>4, <1>5, <1>6, <1>7, <1>8 DEF Next, Loop

LEMMA ComesStep ==
    ASSUME TypeOK, DueInv, LoopInv, ComesInv, [Next]_vars
    PROVE  ComesInv'
<1>1. CASE Periodic
  BY <1>1, PeriodicStep, BindingKept DEF ComesInv, Periodic
<1>2. CASE ~Periodic
  BY <1>2, OneShotStep, BindingKept DEF ComesInv, Periodic
<1> QED
  BY <1>1, <1>2

LEMMA IInvStep == IInv /\ [Next]_vars => IInv'
  BY TypeStep, OnceStep, DueStep, LoopStep, ComesStep DEF IInv

LEMMA IInvAlways == Spec => []IInv
  BY InitIInv, IInvStep, PTL DEF Spec
--------------------------------------------------------------------------------
\* Every variable stays in its type and the queues in their bounds, for every
\* binding (vivid_on_timeout and the timers of the bindings).
THEOREM TypeCorrect == Spec => []TypeOK
<1>1. IInv => TypeOK
  BY DEF IInv
<1> QED
  BY <1>1, IInvAlways, PTL

\* A state gets at most one timeout in one stay (vivid_on_timeout).
THEOREM OncePerStay == Spec => []AtMostOnce
<1>1. IInv => AtMostOnce
  BY DEF IInv, OnceInv
<1> QED
  BY <1>1, IInvAlways, PTL

\* A timer that is active will bring its timeout, except a one-shot timer whose
\* start or timeout was lost.
THEOREM TimeoutStillComes == Spec => []StillComes
<1>1. IInv => StillComes
  <2> SUFFICES ASSUME IInv, at = "idle", active PROVE StillComes
    BY DEF StillComes
  <2>1. CASE Periodic
    BY <2>1 DEF IInv, ComesInv, StillComes, Ticking
  <2>2. CASE ~Periodic /\ ~lost
    <3>1. WillCome
      BY <2>2 DEF IInv, ComesInv
    <3>2. CASE StartAhead
      BY <3>2 DEF StartAhead, StillComes, Ticking, IInv, TypeOK, TimerTypeOK
    <3>3. CASE ~StartAhead
      BY <3>1, <3>3
      DEF WillCome, TimeoutAhead, StillComes, Ticking, IInv, TypeOK, TimerTypeOK
    <3> QED
      BY <3>2, <3>3
  <2>3. CASE ~Periodic /\ lost
    BY <2>3 DEF StillComes
  <2> QED
    BY <2>1, <2>2, <2>3
<1> QED
  BY <1>1, IInvAlways, PTL

LEMMA AnsweredWhenDue ==
    ASSUME IInv, [Next]_vars, answered' = answered + 1
    PROVE  age = Timeout \/ jumped
<1>1. AnswerTimeout
  <2>1. answered \in Nat /\ answered + 1 # answered /\ answered + 1 # 0
    BY DEF IInv, TypeOK
  <2> QED
    BY <2>1 DEF Next, Loop, QueueEvent, TimerCallback, Tick, SetClock, Expires,
       RunCommand, HandleEvent, IgnoreTimeout, Leave, SetDue, Start, Pop, vars, history
<1>2. in /\ due <= reading
  BY <1>1 DEF AnswerTimeout, Ignore, TooEarly, IInv, TypeOK, TimerTypeOK
<1> QED
  BY <1>2, TimeAssumption DEF IInv, DueInv, TypeOK, TimerTypeOK

\* A timeout is accepted before its time only after the clock was set, or came
\* round, during the stay.
THEOREM EarlyNeedsJump == Spec => EarlyOnlyAfterJump
<1>1. IInv /\ [Next]_vars => [answered' = answered + 1 => age = Timeout \/ jumped]_vars
  BY AnsweredWhenDue
<1> QED
  BY <1>1, IInvAlways, PTL DEF Spec, EarlyOnlyAfterJump

\* On Linux, whose clock cannot be set and does not come round, no timeout is ever
\* accepted before its time: those left from earlier stays are ignored.
THEOREM LateIgnoredOnLinux == Bindings = {"linux"} => (Spec => LateIgnored)
<1> SUFFICES ASSUME Bindings = {"linux"} PROVE Spec => LateIgnored
  OBVIOUS
<1> DEFINE NoJump == binding = "linux" /\ ~jumped
<1>1. Init => NoJump
  BY DEF Init, TimerInit
<1>2. NoJump /\ [Next]_vars => NoJump'
  <2> SUFFICES ASSUME NoJump, [Next]_vars PROVE NoJump'
    OBVIOUS
  <2>1. ~Wraps /\ ~Settable
    BY DEF Wraps, Settable
  <2>2. ~jumped'
    BY <2>1, Zenon DEF Next, Loop, QueueEvent, TimerCallback, Tick, SetClock,
       ClockSetForward, ClockSetBack, Expires, RunCommand, HandleEvent, IgnoreTimeout,
       AnswerTimeout, Leave, SetDue, Start, Pop, vars, history
  <2> QED
    BY <2>2, BindingKept
<1>3. IInv /\ NoJump /\ [Next]_vars => [answered' = answered + 1 => age = Timeout]_vars
  BY AnsweredWhenDue
<1> QED
  BY <1>1, <1>2, <1>3, IInvAlways, PTL DEF Spec, LateIgnored
--------------------------------------------------------------------------------
(* PeriodicTimer *)

\* As long as the clock goes its way, the due time tells how long ago the start was.
PeriodicDueInv ==
    ~sinceJumped =>
        IF sinceStart < Timeout THEN due = reading + (Timeout - sinceStart)
                                ELSE due <= reading

\* Why a one-shot timer calls: it is about to be started, or runs until the timeout
\* has passed, or has brought the timeout of this very start.
WillCall ==
    \/ StartAhead
    \/ /\ commands = <<>>
       /\ \/ left # Off /\ left + sinceStart >= Timeout
          \/ sinceStart = Timeout /\ (fired \/ trig)

CallsInv ==
    /\ Periodic => commands = <<>>
    /\ periodicActive /\ Periodic /\ periodicAt = "idle" => left # Off
    /\ periodicActive /\ ~Periodic /\ periodicAt = "idle" /\ ~startLost /\ ~called => WillCall

PeriodicIInv == PeriodicTypeOK /\ PeriodicDueInv /\ CallsInv

\* The variables that are true or false.
PeriodicFlags ==
    /\ fired \in BOOLEAN /\ periodicActive \in BOOLEAN /\ trig \in BOOLEAN
    /\ called \in BOOLEAN /\ sinceJumped \in BOOLEAN /\ startLost \in BOOLEAN
--------------------------------------------------------------------------------
\* What a tick of the clock does to the variables.
LEMMA PeriodicTickStep ==
    ASSUME PeriodicTypeOK, PeriodicTick
    PROVE  /\ reading' = IF reading + 1 = Width THEN 0 ELSE reading + 1
           /\ due' = IF ~Wraps /\ reading + 1 = Width THEN DownBy(due, Width) ELSE due
           /\ sinceStart' = IF sinceStart < Timeout THEN sinceStart + 1 ELSE sinceStart
           /\ left' = IF left > 0 THEN left - 1 ELSE left
           /\ sinceJumped' = (sinceJumped \/ (Wraps /\ reading + 1 = Width))
  BY TickOfClock DEF PeriodicTick, PeriodicTypeOK

LEMMA PeriodicInitIInv == PeriodicInit => PeriodicIInv
<1> SUFFICES ASSUME PeriodicInit PROVE PeriodicIInv
  OBVIOUS
<1>1. PeriodicFlags
  BY DEF PeriodicInit, TimerInit, PeriodicFlags
<1>2. PeriodicTypeOK
  BY <1>1, TimeAssumption DEF PeriodicInit, TimerInit, PeriodicTypeOK, TimerTypeOK, Off,
                              PeriodicFlags
<1>3. PeriodicDueInv /\ CallsInv
  BY TimeAssumption DEF PeriodicInit, TimerInit, PeriodicDueInv, CallsInv
<1> QED
  BY <1>2, <1>3 DEF PeriodicIInv

LEMMA PeriodicBindingKept == [PeriodicNext]_periodicVars => binding' = binding
  BY DEF PeriodicNext, periodicVars

LEMMA PeriodicFlagsStep == PeriodicFlags /\ [PeriodicNext]_periodicVars => PeriodicFlags'
<1> SUFFICES ASSUME PeriodicFlags, [PeriodicNext]_periodicVars PROVE PeriodicFlags'
  OBVIOUS
<1> USE DEF PeriodicFlags
<1>1. CASE PeriodicSetDue \/ IgnoreEvent \/ CallUser
  BY <1>1, Zenon DEF PeriodicSetDue, IgnoreEvent, CallUser, timer
<1>2. CASE PeriodicStart \/ PeriodicStop
  BY <1>2, Zenon DEF PeriodicStart, StartTimer, LinuxStart, Win32Start, LibevStart,
                     FreertosStart, PeriodicStop, StopTimer, LinuxStop, Win32Stop, LibevStop,
                     FreertosStop, FreertosCommand, PeriodicStopped, periodicHistory
<1>3. CASE PeriodicTimerCallback \/ PeriodicTick
  BY <1>3, Zenon DEF PeriodicTimerCallback, CallsBack, PeriodicTick, ClockTicks, periodicHistory
<1>4. CASE PeriodicSetClock \/ PeriodicExpires \/ PeriodicRunCommand
  BY <1>4, Zenon DEF PeriodicSetClock, ClockSetForward, ClockSetBack, PeriodicExpires,
                     TimerExpires,
                     PeriodicRunCommand, TimerTask, timer, periodicHistory
<1>5. CASE UNCHANGED periodicVars
  BY <1>5, Zenon DEF periodicVars, timer, periodicHistory
<1> QED
  BY <1>1, <1>2, <1>3, <1>4, <1>5, Zenon DEF PeriodicNext, PeriodicLoop

LEMMA PeriodicTypeStep == PeriodicTypeOK /\ [PeriodicNext]_periodicVars => PeriodicTypeOK'
<1> SUFFICES ASSUME PeriodicTypeOK, [PeriodicNext]_periodicVars PROVE PeriodicTypeOK'
  OBVIOUS
<1>0. PeriodicFlags' /\ binding' \in Bindings
  BY PeriodicFlagsStep, PeriodicBindingKept DEF PeriodicTypeOK, TimerTypeOK, PeriodicFlags
<1> USE <1>0, TimeAssumption DEF PeriodicTypeOK, TimerTypeOK, PeriodicFlags
<1>1. CASE PeriodicSetDue
  <2>1. due' \in 0 .. Width + Timeout
    BY <1>1, WrappingDue DEF PeriodicSetDue, DueAfter
  <2>2. UNCHANGED <<reading, left, commands>> /\ periodicAt' = "start" /\ sinceStart' = 0
    BY <1>1 DEF PeriodicSetDue, timer
  <2> QED
    BY <2>1, <2>2
<1>2. CASE PeriodicStart
  <2>1. UNCHANGED <<reading, due, sinceStart>> /\ periodicAt' = "idle"
    BY <1>2 DEF PeriodicStart, time
  <2>2. /\ left' \in {Timeout, left, 0}
        /\ commands' = commands \/ (HasPlace /\ commands' = Append(commands, "start"))
    BY <1>2, Zenon DEF PeriodicStart, StartTimer, LinuxStart, Win32Start, LibevStart,
                       FreertosStart, FreertosCommand
  <2>3. commands' \in Seq({"start", "stop"}) /\ Len(commands') <= CommandSize
    BY <2>2 DEF HasPlace
  <2> QED
    BY <2>1, <2>2, <2>3
<1>3. CASE PeriodicStop
  <2>1. UNCHANGED <<reading, due, sinceStart, periodicAt>>
    BY <1>3 DEF PeriodicStop, time, periodicHistory
  <2>2. /\ left' \in {Off, left}
        /\ commands' = commands \/ (HasPlace /\ commands' = Append(commands, "stop"))
    BY <1>3, Zenon DEF PeriodicStop, StopTimer, LinuxStop, Win32Stop, LibevStop, FreertosStop,
                       FreertosCommand
  <2>3. commands' \in Seq({"start", "stop"}) /\ Len(commands') <= CommandSize
    BY <2>2 DEF HasPlace
  <2> QED
    BY <2>1, <2>2, <2>3 DEF Off
<1>4. CASE PeriodicTimerCallback \/ IgnoreEvent \/ CallUser \/ UNCHANGED periodicVars
  <2>1. UNCHANGED <<reading, due, left, commands, periodicAt, sinceStart>>
    BY <1>4 DEF PeriodicTimerCallback, CallsBack, IgnoreEvent, CallUser, periodicVars, time,
                timer, periodicHistory
  <2> QED
    BY <2>1
<1>5. CASE PeriodicTick
  <2>1. UNCHANGED <<commands, periodicAt>>
    BY <1>5 DEF PeriodicTick, ClockTicks
  <2>2. due' \in 0 .. Width + Timeout + 1
    BY <1>5, PeriodicTickStep DEF DownBy
  <2>3. reading' \in 0 .. Width - 1 /\ left' \in -1 .. Timeout /\ sinceStart' \in 0 .. Timeout
    BY <1>5, PeriodicTickStep
  <2> QED
    BY <2>1, <2>2, <2>3
<1>6. CASE PeriodicSetClock
  <2>1. UNCHANGED <<reading, left, commands, periodicAt, sinceStart>>
    BY <1>6 DEF PeriodicSetClock, ClockSetForward, ClockSetBack, timer
  <2>2. due' \in 0 .. Width + Timeout + 1
    BY <1>6 DEF PeriodicSetClock, ClockSetForward, ClockSetBack, DownBy
  <2> QED
    BY <2>1, <2>2
<1>7. CASE PeriodicExpires
  <2>1. UNCHANGED <<reading, due, commands, periodicAt, sinceStart>>
    BY <1>7 DEF PeriodicExpires, TimerExpires, time, periodicHistory
  <2>2. left' \in -1 .. Timeout
    BY <1>7 DEF PeriodicExpires, TimerExpires, LinuxExpires, LinuxAgain, Win32Expires,
                LibevExpires, FreertosExpires, Off
  <2> QED
    BY <2>1, <2>2
<1>8. CASE PeriodicRunCommand
  <2>1. UNCHANGED <<reading, due, periodicAt, sinceStart>>
    BY <1>8 DEF PeriodicRunCommand, TimerTask, time, periodicHistory
  <2>2. /\ left' \in {Timeout, Off}
        /\ commands' \in Seq({"start", "stop"}) /\ Len(commands') <= CommandSize
    BY <1>8 DEF PeriodicRunCommand, TimerTask
  <2> QED
    BY <2>1, <2>2 DEF Off
<1> QED
  BY <1>1, <1>2, <1>3, <1>4, <1>5, <1>6, <1>7, <1>8 DEF PeriodicNext, PeriodicLoop

LEMMA PeriodicDueStep ==
    PeriodicTypeOK /\ PeriodicDueInv /\ [PeriodicNext]_periodicVars => PeriodicDueInv'
<1> SUFFICES ASSUME PeriodicTypeOK, PeriodicDueInv, [PeriodicNext]_periodicVars,
             ~sinceJumped'
             PROVE  PeriodicDueInv'
  BY DEF PeriodicDueInv
<1>1. CASE PeriodicTick
  <2>1. ~sinceJumped /\ ~(Wraps /\ reading + 1 = Width)
    BY <1>1, PeriodicTickStep, Zenon
  <2> QED
    BY <2>1, <1>1, PeriodicTickStep, TimeAssumption DEF PeriodicDueInv, DownBy,
                                                        PeriodicTypeOK, TimerTypeOK
<1>2. CASE PeriodicSetDue
  <2>1. ~(Wraps /\ reading + Timeout >= Width)
    BY <1>2, Zenon DEF PeriodicSetDue
  <2>2. DueAfter = reading + Timeout
    <3>1. CASE Wraps
      BY <2>1, <3>1, WrappingDue, TimeAssumption DEF DueAfter, PeriodicTypeOK, TimerTypeOK
    <3>2. CASE ~Wraps
      BY <3>2 DEF DueAfter
    <3> QED
      BY <3>1, <3>2
  <2>3. due' = reading + Timeout
    BY <1>2, <2>2 DEF PeriodicSetDue
  <2> QED
    BY <1>2, <2>3, TimeAssumption DEF PeriodicSetDue, PeriodicDueInv, PeriodicTypeOK,
                                      TimerTypeOK
<1>3. CASE PeriodicSetClock
  BY <1>3 DEF PeriodicSetClock
<1>4. ASSUME ~PeriodicTick, ~PeriodicSetDue, ~PeriodicSetClock
      PROVE  UNCHANGED <<time, sinceStart, sinceJumped>>
  BY <1>4 DEF PeriodicNext, PeriodicLoop, PeriodicStart, PeriodicStop, PeriodicTimerCallback,
              CallsBack, IgnoreEvent, CallUser,
              PeriodicExpires, TimerExpires, PeriodicRunCommand, TimerTask, periodicVars,
                  periodicHistory
<1> QED
  BY <1>1, <1>2, <1>3, <1>4 DEF PeriodicDueInv, time

LEMMA PeriodicCallsStep ==
    ASSUME PeriodicTypeOK, PeriodicDueInv, CallsInv, [PeriodicNext]_periodicVars
    PROVE  CallsInv'
<1>1. CASE Periodic
  <2> USE <1>1, PeriodicBindingKept, TimeAssumption DEF CallsInv, Periodic, PeriodicTypeOK,
                                                        TimerTypeOK, Off
  <2>1. CASE PeriodicSetDue \/ IgnoreEvent \/ CallUser \/ PeriodicSetClock
      \/ UNCHANGED periodicVars
    BY <2>1 DEF PeriodicSetDue, IgnoreEvent, CallUser, PeriodicSetClock, ClockSetForward,
                ClockSetBack,
                periodicVars, timer
  <2>2. CASE PeriodicStart
    BY <2>2 DEF PeriodicStart, StartTimer, LinuxStart, Win32Start, LibevStart
  <2>3. CASE PeriodicStop
    BY <2>3 DEF PeriodicStop, StopTimer, LinuxStop, Win32Stop, LibevStop, PeriodicStopped
  <2>4. CASE PeriodicTimerCallback
    BY <2>4 DEF PeriodicTimerCallback, CallsBack
  <2>5. CASE PeriodicTick
    BY <2>5 DEF PeriodicTick, ClockTicks
  <2>6. CASE PeriodicExpires
    BY <2>6 DEF PeriodicExpires, TimerExpires, LinuxExpires, LinuxAgain, Win32Expires,
                LibevExpires
  <2>7. CASE PeriodicRunCommand
    BY <2>7 DEF PeriodicRunCommand, TimerTask
  <2> QED
    BY <2>1, <2>2, <2>3, <2>4, <2>5, <2>6, <2>7 DEF PeriodicNext, PeriodicLoop
<1>2. CASE ~Periodic
  <2> SUFFICES ASSUME periodicActive', periodicAt' = "idle", ~startLost', ~called'
               PROVE  WillCall'
    BY <1>2, PeriodicBindingKept DEF CallsInv, Periodic
  <2> USE <1>2 DEF PeriodicTypeOK, TimerTypeOK
  <2>1. CASE PeriodicSetDue
    BY <2>1 DEF PeriodicSetDue
  <2>2. CASE PeriodicStart
    <3>1. HasPlace /\ commands' = Append(commands, "start")
      BY <2>2
      DEF PeriodicStart, StartTimer, FreertosStart, FreertosCommand, Periodic
    <3>2. StartAhead'
      BY <3>1, StartPuts
    <3> QED
      BY <3>2 DEF WillCall
  <2>3. CASE PeriodicStop \/ CallUser
    BY <2>3 DEF PeriodicStop, PeriodicStopped, CallUser
  <2>4. CASE PeriodicTimerCallback
    BY <2>4, StartStaysAhead DEF PeriodicTimerCallback, CallsBack, CallsInv, WillCall, Off,
                                 periodicHistory
  <2>5. CASE IgnoreEvent
    <3>1. /\ ~periodicActive \/ TooEarly
          /\ ~(periodicActive /\ sinceStart = Timeout /\ sinceJumped) /\ ~startLost
          /\ UNCHANGED <<time, timer, periodicActive, periodicAt, sinceStart, called>>
      BY <2>5, Zenon DEF IgnoreEvent, PeriodicIgnore
    <3>2. periodicActive /\ due > reading
      BY <3>1 DEF TooEarly
    <3>3. sinceStart # Timeout
      BY <3>1, <3>2, TimeAssumption DEF PeriodicDueInv
    <3> QED
      BY <3>1, <3>2, <3>3, StartStaysAhead DEF CallsInv, WillCall, timer, Off
  <2>6. CASE PeriodicTick
    <3>1. UNCHANGED <<fired, commands, periodicActive, trig, periodicAt, startLost, called>>
      BY <2>6 DEF PeriodicTick, ClockTicks
    <3> QED
      BY <2>6, <3>1, PeriodicTickStep, StartStaysAhead, TimeAssumption
      DEF CallsInv, WillCall, Off
  <2>7. CASE PeriodicSetClock \/ UNCHANGED periodicVars
    BY <2>7, StartStaysAhead
    DEF PeriodicSetClock, ClockSetForward, ClockSetBack, CallsInv, WillCall, periodicVars,
        timer, periodicHistory
  <2>8. CASE PeriodicExpires
    <3>1. /\ left = 0 /\ fired'
          /\ UNCHANGED <<commands, periodicActive, periodicAt, sinceStart, startLost, called>>
      BY <2>8 DEF PeriodicExpires, TimerExpires, periodicHistory
    <3> QED
      BY <3>1, StartStaysAhead, TimeAssumption DEF CallsInv, WillCall, Off
  <2>9. CASE PeriodicRunCommand
    <3>1. commands # <<>> /\ UNCHANGED <<periodicActive, periodicAt, sinceStart, startLost, called>>
      BY <2>9 DEF PeriodicRunCommand, TimerTask, periodicHistory
    <3>2. StartAhead
      BY <3>1 DEF CallsInv, WillCall
    <3>3. StartAhead' \/ (commands' = <<>> /\ left' = Timeout)
      BY <2>9, <3>2, StartRuns DEF PeriodicRunCommand
    <3> QED
      BY <3>1, <3>3, TimeAssumption DEF WillCall, Off
  <2> QED
    BY <2>1, <2>2, <2>3, <2>4, <2>5, <2>6, <2>7, <2>8, <2>9 DEF PeriodicNext, PeriodicLoop
<1> QED
  BY <1>1, <1>2

LEMMA PeriodicIInvAlways == PeriodicSpec => []PeriodicIInv
<1>1. PeriodicIInv /\ [PeriodicNext]_periodicVars => PeriodicIInv'
  BY PeriodicTypeStep, PeriodicDueStep, PeriodicCallsStep DEF PeriodicIInv
<1> QED
  BY PeriodicInitIInv, <1>1, PTL DEF PeriodicSpec
--------------------------------------------------------------------------------
\* Every variable stays in its type and the command queue in its bound.
THEOREM PeriodicTypeCorrect == PeriodicSpec => []PeriodicTypeOK
<1>1. PeriodicIInv => PeriodicTypeOK
  BY DEF PeriodicIInv
<1> QED
  BY <1>1, PeriodicIInvAlways, PTL

\* The user is called only when the timeout has passed since the latest start,
\* unless the clock was set, or came round, since then.
THEOREM CallsInTime == PeriodicSpec => NeverEarly
<1>1. PeriodicIInv /\ [PeriodicNext]_periodicVars
         => [CallUser => sinceStart = Timeout \/ sinceJumped]_periodicVars
  <2> SUFFICES ASSUME PeriodicIInv, CallUser PROVE sinceStart = Timeout \/ sinceJumped
    OBVIOUS
  <2>1. due <= reading
    BY DEF CallUser, PeriodicIgnore, TooEarly, PeriodicIInv, PeriodicTypeOK, TimerTypeOK
  <2> QED
    BY <2>1, TimeAssumption DEF PeriodicIInv, PeriodicDueInv, PeriodicTypeOK, TimerTypeOK
<1> QED
  BY <1>1, PeriodicIInvAlways, PTL DEF PeriodicSpec, NeverEarly

\* A timer that is active will call the user, a one-shot timer at least once unless
\* the start was lost or the counter came round.
THEOREM CallIsComing == PeriodicSpec => []StillCalls
<1>1. PeriodicIInv => StillCalls
  <2> SUFFICES ASSUME PeriodicIInv, periodicAt = "idle", periodicActive PROVE StillCalls
    BY DEF StillCalls
  <2>1. CASE Periodic
    BY <2>1 DEF PeriodicIInv, CallsInv, StillCalls, Ticking
  <2>2. CASE ~Periodic /\ ~startLost /\ ~called
    BY <2>2 DEF PeriodicIInv, CallsInv, WillCall, StartAhead, StillCalls, Ticking,
                PeriodicTypeOK, TimerTypeOK
  <2>3. CASE ~Periodic /\ (startLost \/ called)
    BY <2>3 DEF StillCalls
  <2> QED
    BY <2>1, <2>2, <2>3
<1> QED
  BY <1>1, PeriodicIInvAlways, PTL
================================================================================
