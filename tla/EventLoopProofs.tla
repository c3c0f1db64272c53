---------------------------- MODULE EventLoopProofs ----------------------------
(***************************************************************************)
(* Proofs about EventLoop, for any number of machines, threads and queued  *)
(* events and any order of the list; then about what is below its flag on  *)
(* FreeRTOS (FreertosIsr), for any number of interrupt handlers that nest. *)
(***************************************************************************)
EXTENDS EventLoop, FreertosIsr, TLAPS

InCallback == {"callback", "enter", "take", "walk", "more"}

\* The loop is at m: it will look at m's queue, or look again, before it moves on.
Attending(m) == at \in InCallback \cup {"clear"} /\ Current = m

\* The loop comes to m before it sleeps.
Ahead(m) ==
    \/ at \in {"visit", "clear"} /\ \E i \in pos .. Len(List) : List[i] = m
    \/ at \in InCallback /\ \E i \in pos + 1 .. Len(List) : List[i] = m

\* Why no event is forgotten, no initial entry and no trigger.
EventsFollowed ==
    \A m \in Machine : waiting[m] > 0 =>
        trig[m] \/ Attending(m) \/ \E t \in Thread : post[t] = ToSet(m)
InitFollowed ==
    \A m \in Machine : init[m] =>
        trig[m] \/ (at \in {"clear", "callback"} /\ Current = m)
TriggersFollowed ==
    \A m \in Machine : trig[m] =>
        signal \/ Ahead(m) \/ \E t \in Thread : post[t] = ToSignal

IInv ==
    /\ TypeOK
    /\ EventsFollowed
    /\ InitFollowed
    /\ TriggersFollowed
    /\ NeverPopsEmpty
--------------------------------------------------------------------------------
\* The three kinds of post are told apart, and only a pending set names a machine.
LEMMA PostKinds ==
    ASSUME TypeOK, NEW t \in Thread
    PROVE  /\ post[t] \in {None, ToSignal} \cup {ToSet(m) : m \in Machine}
           /\ post[t].step = "set" => /\ post[t].machine \in Machine
                                      /\ post[t] = ToSet(post[t].machine)
           /\ post[t].step = "signal" <=> post[t] = ToSignal
  BY DEF TypeOK, None, ToSet, ToSignal

LEMMA CurrentIsMachine ==
    ASSUME TypeOK, at \notin {"poll", "visit"}
    PROVE  pos \in 1 .. Len(List) /\ Current \in Machine
  BY ListAssumption DEF TypeOK, Current

LEMMA IInvInit == Init => IInv
<1> SUFFICES ASSUME Init PROVE IInv
  OBVIOUS
<1>1. Len(List) \in Nat
  BY ListAssumption
<1>2. TypeOK
  BY <1>1, QueueSizeAssumption DEF Init, TypeOK
<1> QED
  BY <1>2 DEF Init, IInv, EventsFollowed, InitFollowed, TriggersFollowed,
              NeverPopsEmpty

LEMMA TypeStep == TypeOK /\ NeverPopsEmpty /\ [Next]_vars => TypeOK'
<1> SUFFICES ASSUME TypeOK, NeverPopsEmpty, [Next]_vars PROVE TypeOK'
  OBVIOUS
<1>a. Len(List) \in Nat /\ QueueSize \in Nat /\ Loop \in Thread
  BY ListAssumption, QueueSizeAssumption DEF Thread
<1>1. ASSUME NEW t \in Thread, NEW m \in Machine, Push(t, m) PROVE TypeOK'
  BY <1>1, <1>a DEF Push, TypeOK
<1>2. ASSUME NEW t \in Thread, SetTrig(t) PROVE TypeOK'
  BY <1>2, PostKinds DEF SetTrig, AfterSet, TypeOK
<1>3. ASSUME NEW t \in Thread, Signal(t) PROVE TypeOK'
  BY <1>3 DEF Signal, TypeOK
<1>4. CASE Wake
  <2>1. /\ waiting' = waiting /\ init' = init /\ trig' = trig /\ post' = post
        /\ signal' = FALSE /\ at' = "visit" /\ pos' = 1
    BY <1>4 DEF Wake
  <2>2. pos' \in 1 .. Len(List) + 1
    BY <2>1, <1>a
  <2> QED
    BY <2>1, <2>2 DEF TypeOK
<1>5. CASE Visit
  BY <1>5, <1>a DEF Visit, LoopAt, Goto, NextEvent, TypeOK
<1>6. CASE EndOfList
  BY <1>6 DEF EndOfList, LoopAt, Goto, TypeOK
<1>7. CASE ClearTrig
  BY <1>7, CurrentIsMachine DEF ClearTrig, LoopAt, Goto, TypeOK
<1>8. CASE Callback
  BY <1>8, CurrentIsMachine DEF Callback, LoopAt, Goto, TypeOK
<1>9. CASE Entered
  BY <1>9 DEF Entered, LoopAt, Goto, TypeOK
<1>10. CASE Take
  BY <1>10, <1>a DEF Take, LoopAt, Goto, NextEvent, TypeOK
<1>11. CASE Pop
  BY <1>11, <1>a, CurrentIsMachine DEF Pop, LoopAt, Goto, NeverPopsEmpty, TypeOK
<1>12. CASE TriggerAgain
  BY <1>12, <1>a, CurrentIsMachine DEF TriggerAgain, LoopAt, NextEvent, TypeOK
<1>13. CASE UNCHANGED vars
  BY <1>13 DEF vars, TypeOK
<1> QED
  BY <1>1, <1>2, <1>3, <1>4, <1>5, <1>6, <1>7, <1>8, <1>9, <1>10, <1>11, <1>12,
     <1>13 DEF Next, HandleEvent, Trigger, RefusePush

\* Only the loop pops, so what it has seen in a queue stays there until then.
LEMMA PopStep == IInv /\ [Next]_vars => NeverPopsEmpty'
<1> SUFFICES ASSUME IInv, [Next]_vars PROVE NeverPopsEmpty'
  OBVIOUS
<1>t. TypeOK /\ TypeOK' /\ NeverPopsEmpty
  BY TypeStep DEF IInv
<1>a. Len(List) \in Nat
  BY ListAssumption
<1>1. ASSUME NEW t \in Thread, NEW m \in Machine, Push(t, m) PROVE NeverPopsEmpty'
  <2> SUFFICES ASSUME at' = "walk" PROVE waiting'[Current'] > 0
    BY DEF NeverPopsEmpty
  <2>1. at = "walk" /\ Current' = Current /\ Current \in Machine
    BY <1>1, <1>t, CurrentIsMachine DEF Push, Current
  <2> QED
    BY <1>1, <1>t, <2>1 DEF Push, NeverPopsEmpty, TypeOK
<1>2. CASE Take
  BY <1>2, <1>t, CurrentIsMachine
  DEF Take, LoopAt, Goto, NextEvent, Empty, NeverPopsEmpty, Current, TypeOK
<1>3. CASE \/ \E t \in Thread : SetTrig(t) \/ Signal(t)
           \/ UNCHANGED vars
  BY <1>3, <1>t DEF SetTrig, Signal, vars, NeverPopsEmpty, Current
<1>4. CASE \/ Wake \/ Visit \/ EndOfList \/ ClearTrig \/ Callback \/ Entered
           \/ Pop \/ TriggerAgain
  BY <1>4, <1>t
  DEF Wake, Visit, EndOfList, ClearTrig, Callback, Entered, Pop, TriggerAgain,
      LoopAt, Goto, NextEvent, NeverPopsEmpty
<1> QED
  BY <1>1, <1>2, <1>3, <1>4 DEF Next, HandleEvent, Trigger, RefusePush

\* A step of the loop in a callback moves on, or stays with the same machine.
LEMMA EventsStep == IInv /\ [Next]_vars => EventsFollowed'
<1> SUFFICES ASSUME IInv, [Next]_vars,
                    NEW m \in Machine, waiting'[m] > 0
             PROVE  (trig[m] \/ Attending(m) \/ \E t \in Thread : post[t] = ToSet(m))'
  BY DEF EventsFollowed
<1> DEFINE Followed == trig[m] \/ Attending(m) \/ \E t \in Thread : post[t] = ToSet(m)
<1>t. TypeOK /\ TypeOK' /\ EventsFollowed /\ Len(List) \in Nat /\ Loop \in Thread
  BY TypeStep, ListAssumption DEF IInv, Thread
<1>f. waiting[m] > 0 => Followed
  BY <1>t DEF EventsFollowed
<1>1. ASSUME NEW t \in Thread, NEW n \in Machine, Push(t, n) PROVE Followed'
  <2>1. CASE n = m
    BY <1>1, <2>1, <1>t DEF Push, TypeOK
  <2>2. CASE n # m
    <3>1. waiting[m] > 0
      BY <1>1, <2>2, <1>t DEF Push, TypeOK
    <3>2. \A u \in Thread : post[u] = ToSet(m) => post'[u] = ToSet(m)
      BY <1>1, <1>t DEF Push, MayPost, TypeOK, None, ToSet
    <3> QED
      BY <1>1, <3>1, <3>2, <1>f DEF Push, Attending, Current
  <2> QED
    BY <2>1, <2>2
<1>2. ASSUME NEW t \in Thread, SetTrig(t) PROVE Followed'
  <2>1. trig[m] => trig'[m]
    BY <1>2, <1>t, PostKinds DEF SetTrig, TypeOK
  <2>2. ASSUME NEW u \in Thread, post[u] = ToSet(m)
        PROVE  trig'[m] \/ post'[u] = ToSet(m)
    BY <1>2, <1>t, <2>2, PostKinds DEF SetTrig, TypeOK, ToSet
  <2> QED
    BY <1>2, <2>1, <2>2, <1>f DEF SetTrig, Attending, Current
<1>3. ASSUME NEW t \in Thread, Signal(t) PROVE Followed'
  <2>1. \A u \in Thread : post[u] = ToSet(m) => post'[u] = ToSet(m)
    BY <1>3, <1>t DEF Signal, TypeOK, ToSet
  <2> QED
    BY <1>3, <2>1, <1>f DEF Signal, Attending, Current
<1>4. CASE Wake \/ EndOfList
  BY <1>4, <1>f DEF Wake, EndOfList, LoopAt, Goto, Attending, InCallback
<1>5. CASE Visit
  BY <1>5, <1>f DEF Visit, LoopAt, Goto, NextEvent, Attending, InCallback, Current
<1>6. CASE ClearTrig
  BY <1>6, <1>f, <1>t, CurrentIsMachine
  DEF ClearTrig, LoopAt, Goto, Attending, InCallback, Current, TypeOK
<1>7. CASE Callback \/ Entered
  BY <1>7, <1>f
  DEF Callback, Entered, LoopAt, Goto, Attending, InCallback, Current
<1>8. CASE Take
  BY <1>8, <1>f, <1>t
  DEF Take, Empty, LoopAt, Goto, NextEvent, Attending, InCallback, Current, TypeOK
<1>9. CASE Pop
  <2>1. Current = m \/ waiting[m] > 0
    BY <1>9, <1>t, CurrentIsMachine DEF Pop, LoopAt, TypeOK
  <2> QED
    BY <1>9, <1>f, <2>1 DEF Pop, LoopAt, Goto, Attending, InCallback, Current
<1>10. CASE TriggerAgain
  <2>1. waiting[m] > 0 /\ at = "more" /\ post[Loop] = None
    BY <1>10 DEF TriggerAgain, LoopAt
  <2>2. CASE Current = m
    BY <1>10, <2>1, <2>2, <1>t DEF TriggerAgain, More, TypeOK
  <2>3. CASE Current # m
    <3>1. \A u \in Thread : post[u] = ToSet(m) => post'[u] = ToSet(m)
      BY <1>10, <2>1, <1>t DEF TriggerAgain, TypeOK, None, ToSet
    <3> QED
      BY <1>10, <2>1, <2>3, <3>1, <1>f DEF TriggerAgain, Attending
  <2> QED
    BY <2>2, <2>3
<1>11. CASE UNCHANGED vars
  BY <1>11, <1>f DEF vars, Attending, Current
<1> QED
  BY <1>1, <1>2, <1>3, <1>4, <1>5, <1>6, <1>7, <1>8, <1>9, <1>10, <1>11
  DEF Next, HandleEvent, Trigger, RefusePush

LEMMA InitStep == IInv /\ [Next]_vars => InitFollowed'
<1> SUFFICES ASSUME IInv, [Next]_vars, NEW m \in Machine, init'[m]
             PROVE  (trig[m] \/ (at \in {"clear", "callback"} /\ Current = m))'
  BY DEF InitFollowed
<1>t. TypeOK /\ InitFollowed
  BY DEF IInv
<1>1. init[m]
  BY <1>t, CurrentIsMachine
  DEF Next, HandleEvent, Trigger, Push, RefusePush, SetTrig, Signal, Wake, Visit,
      EndOfList, ClearTrig, Callback, Entered, Take, Pop, TriggerAgain, LoopAt,
      vars, TypeOK
<1>2. trig[m] \/ (at \in {"clear", "callback"} /\ Current = m)
  BY <1>1, <1>t DEF InitFollowed
<1>3. CASE \E t \in Thread : SetTrig(t)
  BY <1>2, <1>3, <1>t, PostKinds DEF SetTrig, Current, TypeOK
<1>4. CASE Visit
  BY <1>2, <1>4 DEF Visit, LoopAt, Goto, NextEvent, Current
<1>5. CASE ClearTrig
  BY <1>2, <1>5, <1>t, CurrentIsMachine DEF ClearTrig, LoopAt, Goto, Current, TypeOK
<1>6. CASE Callback
  BY <1>2, <1>6, <1>t, CurrentIsMachine DEF Callback, LoopAt, TypeOK
<1>7. CASE Wake \/ EndOfList \/ Entered \/ Take \/ Pop \/ TriggerAgain
  BY <1>2, <1>7 DEF Wake, EndOfList, Entered, Take, Pop, TriggerAgain, LoopAt
<1>8. CASE \/ \E t \in Thread : Signal(t) \/ \E n \in Machine : Push(t, n)
           \/ UNCHANGED vars
  BY <1>2, <1>8 DEF Signal, Push, vars, Current
<1> QED
  BY <1>3, <1>4, <1>5, <1>6, <1>7, <1>8 DEF Next, HandleEvent, Trigger, RefusePush

LEMMA TriggersStep == IInv /\ [Next]_vars => TriggersFollowed'
<1> SUFFICES ASSUME IInv, [Next]_vars, NEW m \in Machine, trig'[m]
             PROVE  (signal \/ Ahead(m) \/ \E t \in Thread : post[t] = ToSignal)'
  BY DEF TriggersFollowed
<1> DEFINE Followed == signal \/ Ahead(m) \/ \E t \in Thread : post[t] = ToSignal
<1>t. TypeOK /\ TriggersFollowed /\ Len(List) \in Nat /\ Loop \in Thread
  BY ListAssumption DEF IInv, Thread
<1>f. trig[m] => Followed
  BY <1>t DEF TriggersFollowed
<1>1. ASSUME NEW t \in Thread, NEW n \in Machine, Push(t, n) PROVE Followed'
  <2>1. \A u \in Thread : post[u] = ToSignal => post'[u] = ToSignal
    BY <1>1, <1>t DEF Push, MayPost, TypeOK, None, ToSignal
  <2> QED
    BY <1>1, <2>1, <1>f DEF Push, Ahead
<1>2. ASSUME NEW t \in Thread, SetTrig(t) PROVE Followed'
  BY <1>2, <1>t DEF SetTrig, AfterSet, TypeOK
<1>3. ASSUME NEW t \in Thread, Signal(t) PROVE Followed'
  BY <1>3 DEF Signal
<1>4. CASE Wake
  BY <1>4, ListAssumption DEF Wake, Ahead
<1>5. CASE Visit
  <2>1. trig[m] /\ at = "visit" /\ pos \in 1 .. Len(List)
    BY <1>5, <1>t DEF Visit, LoopAt, TypeOK
  <2>2. CASE trig[Current]
    BY <1>5, <1>f, <2>1, <2>2 DEF Visit, Goto, Ahead, InCallback
  <2>3. CASE ~trig[Current]
    <3>1. at' = "visit" /\ pos' = pos + 1
      BY <1>5, <2>3 DEF Visit, NextEvent
    <3>2. \A i \in pos .. Len(List) : List[i] = m => i \in pos' .. Len(List)
      BY <2>1, <2>3, <3>1 DEF Current
    <3>3. Ahead(m) => Ahead(m)'
      BY <2>1, <3>1, <3>2 DEF Ahead, InCallback
    <3> QED
      BY <1>5, <1>f, <2>1, <3>3 DEF Visit
  <2> QED
    BY <2>2, <2>3
<1>6. CASE EndOfList
  BY <1>6, <1>f, <1>t DEF EndOfList, LoopAt, Goto, Ahead, InCallback, TypeOK
<1>7. CASE ClearTrig
  <2>1. /\ at = "clear" /\ at' = "callback" /\ pos' = pos /\ pos \in 1 .. Len(List)
        /\ trig[m] /\ List[pos] # m
    BY <1>7, <1>t, CurrentIsMachine DEF ClearTrig, LoopAt, Goto, Current, TypeOK
  <2>2. \A i \in pos .. Len(List) : List[i] = m => i \in pos + 1 .. Len(List)
    BY <2>1
  <2>3. Ahead(m) => Ahead(m)'
    BY <2>1, <2>2 DEF Ahead, InCallback
  <2> QED
    BY <1>7, <1>f, <2>1, <2>3 DEF ClearTrig
<1>8. CASE Callback \/ Entered \/ Pop
  BY <1>8, <1>f DEF Callback, Entered, Pop, LoopAt, Goto, Ahead, InCallback
<1>9. CASE Take
  BY <1>9, <1>f DEF Take, LoopAt, Goto, NextEvent, Ahead, InCallback
<1>10. CASE TriggerAgain
  <2>1. \A u \in Thread : post[u] = ToSignal => post'[u] = ToSignal
    BY <1>10, <1>t DEF TriggerAgain, LoopAt, TypeOK, None, ToSignal
  <2> QED
    BY <1>10, <2>1, <1>f DEF TriggerAgain, LoopAt, NextEvent, Ahead, InCallback
<1>11. CASE UNCHANGED vars
  BY <1>11, <1>f DEF vars, Ahead
<1> QED
  BY <1>1, <1>2, <1>3, <1>4, <1>5, <1>6, <1>7, <1>8, <1>9, <1>10, <1>11
  DEF Next, HandleEvent, Trigger, RefusePush

LEMMA IInvAlways == Spec => []IInv
<1>1. IInv /\ [Next]_vars => IInv'
  BY TypeStep, PopStep, EventsStep, InitStep, TriggersStep DEF IInv
<1> QED
  BY <1>1, IInvInit, PTL DEF Spec
--------------------------------------------------------------------------------
(***************************************************************************)
(* The variables keep their types; in particular no queue length runs      *)
(* below zero and handle_event never goes past the end of its list.        *)
(***************************************************************************)
THEOREM TypeCorrect == Spec => []TypeOK
<1>1. IInv => TypeOK
  BY DEF IInv
<1> QED
  BY <1>1, IInvAlways, PTL

\* event_callback pops only from a queue in which its event still is.
THEOREM PopIsSafe == Spec => []NeverPopsEmpty
<1>1. IInv => NeverPopsEmpty
  BY DEF IInv
<1> QED
  BY <1>1, IInvAlways, PTL

(***************************************************************************)
(* No wake-up is lost: a loop that sleeps without a signal under way has   *)
(* no event to handle, whatever the threads that pushed and triggered and  *)
(* in whichever order their steps and those of the loop came.              *)
(***************************************************************************)
THEOREM NoLostWakeup == Spec => []SleepsOnlyIdle
<1>1. IInv => SleepsOnlyIdle
  <2> SUFFICES ASSUME IInv, Asleep, NEW m \in Machine
               PROVE  waiting[m] = 0 /\ ~trig[m] /\ ~init[m]
    BY DEF SleepsOnlyIdle
  <2>1. \A t \in Thread : post[t] # ToSignal /\ post[t] # ToSet(m)
    BY DEF Asleep, None, ToSignal, ToSet
  <2>2. ~trig[m]
    BY <2>1 DEF IInv, TriggersFollowed, Asleep, Ahead, InCallback
  <2>3. ~init[m]
    BY <2>2 DEF IInv, InitFollowed, Asleep
  <2>4. ~(waiting[m] > 0)
    BY <2>1, <2>2 DEF IInv, EventsFollowed, Asleep, Attending, InCallback
  <2>5. waiting[m] \in 0 .. QueueSize
    BY DEF IInv, TypeOK
  <2> QED
    BY <2>2, <2>3, <2>4, <2>5, QueueSizeAssumption
<1> QED
  BY <1>1, IInvAlways, PTL

(***************************************************************************)
(* The safety half of ImplementsService: each step of the threads and the  *)
(* loop is a step of the service, or none.                                 *)
(***************************************************************************)
THEOREM LoopIsService == Spec => Service!Safety
<1>1. Init => Service!Init
  BY DEF Init, Service!Init
<1>2. IInv /\ [Next]_vars => [Service!Next]_waiting
  <2> SUFFICES ASSUME IInv, [Next]_vars PROVE [Service!Next]_waiting
    OBVIOUS
  <2>1. ASSUME NEW t \in Thread, NEW m \in Machine, Push(t, m) PROVE Service!Next
    BY <2>1 DEF Push, Service!Next, Service!Post
  <2>2. CASE Pop
    BY <2>2, CurrentIsMachine
    DEF Pop, LoopAt, IInv, NeverPopsEmpty, Service!Next, Service!Serve
  <2> QED
    BY <2>1, <2>2
    DEF Next, HandleEvent, Trigger, RefusePush, SetTrig, Signal, Wake, Visit,
        EndOfList, ClearTrig, Callback, Entered, Take, TriggerAgain, vars
<1> QED
  BY <1>1, <1>2, IInvAlways, PTL DEF Spec, Service!Safety
--------------------------------------------------------------------------------
(* Interrupt handlers on FreeRTOS *)

\* The main task does something only while it is running, and is not blocked with a
\* notification that it has not seen.
TaskInv ==
    /\ main # "running" => does[Main] = "idle"
    /\ main = "blocked" => ~notified

\* Who is inside of the mutex runs, and what the mask was is that it was not raised.
MaskInv ==
    /\ masked <=> \E c \in Context : Inside(c)
    /\ \A c \in Context : Inside(c) =>
          Runs(c) /\ (IF does[c] = "store" THEN ~local[c] ELSE ~status)

\* A handler that is going to ask for a switch.
Asks(i) == does[i] \in {"clear", "yield"} /\ local[i]

SwitchInv ==
    main = "ready" =>
        pended \/ (\E i \in Interrupt : Asks(i)) \/ (yieldRequired /\ \E i \in Interrupt : does[i] = "read")

\* A handler that has found the flag clear and is about to clear it may destroy what
\* another has noted meanwhile: that one has asked for a switch itself, or is on its
\* way to do so.
ClearInv ==
    \A i \in Interrupt :
        does[i] = "clear" /\ ~local[i] /\ yieldRequired =>
            pended \/ \E j \in Interrupt : j > i /\ (Asks(j) \/ does[j] = "read")

TrigInv ==
    isrTrig => notified \/ does[Main] \in {"lock", "store", "take"}
            \/ \E c \in Context \ {Main} : does[c] \in {"unlock", "notify"}

IsrIInv == IsrTypeOK /\ TaskInv /\ MaskInv /\ SwitchInv /\ ClearInv /\ TrigInv
--------------------------------------------------------------------------------
LEMMA CurrentUnique ==
    ASSUME IsrTypeOK, NEW c \in Context, NEW d \in Context, Runs(c), Runs(d)
    PROVE  c = d
<1>1. CASE c \in Interrupt /\ d \in Interrupt
  <2>1. ~(c > d) /\ ~(d > c)
    BY <1>1 DEF Runs
  <2> QED
    BY <1>1, <2>1, InterruptAssumption
<1>2. CASE c \in Interrupt /\ d \notin Interrupt
  BY <1>2 DEF Runs, NoHandler
<1>3. CASE c \notin Interrupt /\ d \in Interrupt
  BY <1>3 DEF Runs, NoHandler
<1>4. CASE c \notin Interrupt /\ d \notin Interrupt
  <2>1. c \in {Main, Low} /\ d \in {Main, Low}
    BY <1>4 DEF Context
  <2> QED
    BY <1>4, <2>1, TaskAssumption DEF Runs
<1> QED
  BY <1>1, <1>2, <1>3, <1>4

\* The one that runs, outside of the mutex: nobody is inside.
LEMMA Outside ==
    ASSUME IsrTypeOK, MaskInv, NEW c \in Context, Runs(c), ~Inside(c)
    PROVE  masked = FALSE /\ \A d \in Context : ~Inside(d)
<1>1. \A d \in Context : ~Inside(d)
  BY CurrentUnique DEF MaskInv
<1> QED
  BY <1>1 DEF MaskInv, IsrTypeOK

\* The steps that the handlers and the tasks take from one label to the next.
LEMMA OthersStay ==
    ASSUME IsrTypeOK, NEW c \in Context, NEW label \in Labels, Goes(c, label)
    PROVE  does'[c] = label /\ \A d \in Context \ {c} : does'[d] = does[d]
BY DEF Goes, IsrTypeOK
--------------------------------------------------------------------------------
LEMMA IsrInitIInv == IsrInit => IsrIInv
<1> SUFFICES ASSUME IsrInit PROVE IsrIInv
  OBVIOUS
<1>1. \A c \in Context : does[c] = "idle" /\ local[c] = FALSE
  BY DEF IsrInit
<1>2. Main \in Context /\ Low \in Context /\ Interrupt \subseteq Context
  BY DEF Context
<1>3. IsrTypeOK
  BY <1>1, <1>2 DEF IsrInit, IsrTypeOK, Labels
<1>4. TaskInv /\ SwitchInv
  BY DEF IsrInit, TaskInv, SwitchInv
<1>5. MaskInv
  BY <1>1 DEF IsrInit, MaskInv, Inside
<1>6. ClearInv
  BY DEF IsrInit, ClearInv
<1>7. TrigInv
  BY DEF IsrInit, TrigInv
<1> QED
  BY <1>3, <1>4, <1>5, <1>6, <1>7 DEF IsrIInv
--------------------------------------------------------------------------------
\* Every step but the switch is one of one context, which goes to another label.
LEMMA IsrTypeStep == ASSUME IsrTypeOK, IsrNext PROVE IsrTypeOK'
<1> USE DEF IsrTypeOK, Goes, Labels, Kept
<1>0. Main \in Context /\ Low \in Context /\ Interrupt \subseteq Context
      /\ Main # Low /\ Main \notin Interrupt /\ Low \notin Interrupt
  BY TaskAssumption DEF Context
<1>1. ASSUME NEW i \in Interrupt, Interrupted(i) PROVE IsrTypeOK'
  BY <1>0, <1>1 DEF Interrupted
<1>2. ASSUME NEW i \in Interrupt, NotifyFromISR(i) PROVE IsrTypeOK'
  BY <1>0, <1>2 DEF NotifyFromISR, Notes, Wakes, Woken
<1>3. ASSUME NEW i \in Interrupt, ReadRequired(i) PROVE IsrTypeOK'
  BY <1>0, <1>3 DEF ReadRequired
<1>4. ASSUME NEW i \in Interrupt, ClearRequired(i) PROVE IsrTypeOK'
  BY <1>0, <1>4 DEF ClearRequired
<1>5. ASSUME NEW i \in Interrupt, YieldFromISR(i) PROVE IsrTypeOK'
  BY <1>0, <1>5 DEF YieldFromISR
<1>6. ASSUME NEW c \in Context, EnterCritical(c) PROVE IsrTypeOK'
  BY <1>0, <1>6 DEF EnterCritical, Raised
<1>7. ASSUME NEW c \in Context, StoreStatus(c) PROVE IsrTypeOK'
  BY <1>0, <1>7 DEF StoreStatus
<1>8. ASSUME NEW c \in Context, Unlock(c) PROVE IsrTypeOK'
  BY <1>0, <1>8 DEF Unlock, Afterwards
<1>9. ASSUME NEW c \in Context \ {Main}, RaiseTrig(c) PROVE IsrTypeOK'
  BY <1>0, <1>9 DEF RaiseTrig
<1>10. CASE LowTriggers
  BY <1>0, <1>10 DEF LowTriggers
<1>11. CASE Notify
  BY <1>0, <1>11 DEF Notify, Wakes, Woken
<1>12. CASE NotifyWait
  BY <1>0, <1>12 DEF NotifyWait
<1>13. CASE TakeTrig
  BY <1>0, <1>13 DEF TakeTrig
<1>14. CASE Switch
  BY <1>0, <1>14 DEF Switch
<1> QED
  BY <1>1, <1>2, <1>3, <1>4, <1>5, <1>6, <1>7, <1>8, <1>9, <1>10, <1>11, <1>12, <1>13, <1>14 DEF IsrNext
--------------------------------------------------------------------------------
LEMMA TaskStep == ASSUME IsrTypeOK, TaskInv, IsrNext PROVE TaskInv'
<1> USE DEF TaskInv, Goes, IsrTypeOK, Kept
<1>0. Main \in Context /\ Main # Low /\ Main \notin Interrupt /\ Interrupt \subseteq Context
  BY TaskAssumption DEF Context
<1>1. ASSUME NEW i \in Interrupt,
             Interrupted(i) \/ NotifyFromISR(i) \/ ReadRequired(i) \/ ClearRequired(i) \/ YieldFromISR(i)
      PROVE  TaskInv'
  BY <1>0, <1>1 DEF Interrupted, NotifyFromISR, ReadRequired, ClearRequired, YieldFromISR, Wakes, Woken
<1>2. ASSUME NEW c \in Context, EnterCritical(c) \/ StoreStatus(c) \/ Unlock(c) PROVE TaskInv'
  BY <1>0, <1>2 DEF EnterCritical, StoreStatus, Unlock, Afterwards
<1>3. ASSUME NEW c \in Context \ {Main}, RaiseTrig(c) PROVE TaskInv'
  BY <1>0, <1>3 DEF RaiseTrig
<1>4. CASE LowTriggers \/ Notify
  BY <1>0, <1>4 DEF LowTriggers, Notify, Wakes, Woken
<1>5. CASE Switch
  BY <1>0, <1>5 DEF Switch
<1>6. CASE NotifyWait
  BY <1>0, <1>6 DEF NotifyWait, Runs
<1>7. CASE TakeTrig
  BY <1>0, <1>7 DEF TakeTrig
<1> QED
  BY <1>1, <1>2, <1>3, <1>4, <1>5, <1>6, <1>7 DEF IsrNext

\* Nobody is inside of the mutex after the step.
LEMMA NobodyInside ==
    ASSUME masked' = FALSE, \A c \in Context : ~Inside(c)'
    PROVE  MaskInv'
BY DEF MaskInv

\* A context that runs and is outside goes to a label that is outside as well, and the
\* mask is what it was.
LEMMA StaysOutside ==
    ASSUME IsrTypeOK, MaskInv, NEW c \in Context, Runs(c), ~Inside(c),
           NEW label \in {"idle", "lock", "notify", "read", "clear", "yield"}, Goes(c, label),
           masked' = masked
    PROVE  MaskInv'
<1>1. masked = FALSE /\ \A d \in Context : ~Inside(d)
  BY Outside
<1>2. \A d \in Context : ~Inside(d)'
  BY <1>1 DEF Inside, Goes, IsrTypeOK
<1> QED
  BY <1>1, <1>2, NobodyInside

\* One that goes to a label inside is the only one there, and still runs.
LEMMA StaysInside ==
    ASSUME IsrTypeOK, NEW c \in Context, Runs(c), \A d \in Context \ {c} : ~Inside(d),
           NEW label \in {"store", "set", "take", "unlock"}, Goes(c, label),
           masked' = TRUE, main' = main, does[c] # "idle",
           IF label = "store" THEN local'[c] = FALSE ELSE status' = FALSE
    PROVE  MaskInv'
<1>1. /\ does'[c] = label
      /\ \A d \in Context \ {c} : does'[d] = does[d]
  BY DEF Goes, IsrTypeOK
<1>2. Inside(c)' /\ \A d \in Context \ {c} : ~Inside(d)'
  BY <1>1 DEF Inside
<1>3. Runs(c)'
  BY <1>1 DEF Runs, NoHandler, Context
<1> QED
  BY <1>1, <1>2, <1>3 DEF MaskInv

LEMMA MaskStep == ASSUME IsrTypeOK, MaskInv, IsrNext PROVE MaskInv'
<1> USE DEF Kept
<1>0. Main \in Context /\ Low \in Context /\ Interrupt \subseteq Context
  BY DEF Context
<1>1. ASSUME NEW i \in Interrupt, Interrupted(i) PROVE MaskInv'
  <2>1. ~masked /\ masked' = masked /\ Goes(i, "lock")
    BY <1>1 DEF Interrupted
  <2>2. \A c \in Context : ~Inside(c)
    BY <2>1 DEF MaskInv
  <2>3. \A c \in Context : ~Inside(c)'
    BY <2>1, <2>2 DEF Inside, Goes, IsrTypeOK
  <2> QED
    BY <2>1, <2>3, NobodyInside DEF IsrTypeOK
<1>2. ASSUME NEW i \in Interrupt,
             NotifyFromISR(i) \/ ReadRequired(i) \/ ClearRequired(i) \/ YieldFromISR(i)
      PROVE  MaskInv'
  <2>1. Runs(i) /\ ~Inside(i) /\ masked' = masked
    BY <1>2 DEF NotifyFromISR, ReadRequired, ClearRequired, YieldFromISR, Inside
  <2>2. \E label \in {"idle", "read", "clear", "yield"} : Goes(i, label)
    BY <1>2 DEF NotifyFromISR, ReadRequired, ClearRequired, YieldFromISR
  <2> QED
    BY <1>0, <2>1, <2>2, StaysOutside
<1>3. ASSUME NEW c \in Context, EnterCritical(c) PROVE MaskInv'
  <2>1. Runs(c) /\ ~Inside(c) /\ does[c] # "idle" /\ Goes(c, "store") /\ masked' = TRUE /\ main' = main
        /\ local' = [local EXCEPT ![c] = masked]
    BY <1>3 DEF EnterCritical, Raised, Inside
  <2>2. masked = FALSE /\ \A d \in Context : ~Inside(d)
    BY <2>1, Outside
  <2>3. local'[c] = FALSE
    BY <2>1, <2>2 DEF IsrTypeOK
  <2> QED
    BY <2>1, <2>2, <2>3, StaysInside
<1>4. ASSUME NEW c \in Context, Inside(c), StoreStatus(c) \/ RaiseTrig(c) \/ (c = Main /\ TakeTrig)
      PROVE  MaskInv'
  <2>1. /\ Runs(c) /\ does[c] # "idle" /\ masked' = masked /\ main' = main
        /\ \E label \in {"set", "take", "unlock"} : Goes(c, label)
    BY <1>4 DEF StoreStatus, RaiseTrig, TakeTrig
  <2>2. masked = TRUE /\ \A d \in Context \ {c} : ~Inside(d)
    BY <1>4, <2>1, CurrentUnique DEF MaskInv, IsrTypeOK
  <2>3. status' = FALSE
    <3>1. CASE StoreStatus(c)
      BY <1>4, <3>1 DEF StoreStatus, MaskInv, IsrTypeOK
    <3>2. CASE ~StoreStatus(c)
      BY <1>4, <3>2 DEF RaiseTrig, TakeTrig, MaskInv, IsrTypeOK
    <3> QED
      BY <3>1, <3>2
  <2> QED
    BY <2>1, <2>2, <2>3, StaysInside
<1>5. ASSUME NEW c \in Context, Unlock(c) PROVE MaskInv'
  <2>1. Inside(c) /\ Runs(c) /\ masked' = status /\ does[c] = "unlock"
        /\ \E label \in {"idle", "notify"} : Goes(c, label)
    BY <1>5 DEF Unlock, Afterwards, Inside
  <2>2. status = FALSE /\ \A d \in Context \ {c} : ~Inside(d)
    BY <2>1, CurrentUnique DEF MaskInv, IsrTypeOK
  <2>3. \A d \in Context : ~Inside(d)'
    BY <2>1, <2>2 DEF Inside, Goes, IsrTypeOK
  <2> QED
    BY <2>1, <2>2, <2>3, NobodyInside
<1>6. CASE LowTriggers \/ Notify
  <2>1. Runs(Low) /\ ~Inside(Low) /\ masked' = masked /\ \E label \in {"idle", "lock"} : Goes(Low, label)
    BY <1>6 DEF LowTriggers, Notify, Inside
  <2> QED
    BY <1>0, <2>1, StaysOutside
<1>7. CASE NotifyWait
  <2>1. Runs(Main) /\ ~Inside(Main) /\ masked' = masked /\ (Goes(Main, "lock") \/ does' = does)
    BY <1>7 DEF NotifyWait, Inside
  <2>2. masked = FALSE /\ \A d \in Context : ~Inside(d)
    BY <1>0, <2>1, Outside
  <2>3. \A d \in Context : ~Inside(d)'
    BY <2>1, <2>2 DEF Inside, Goes, IsrTypeOK
  <2> QED
    BY <2>1, <2>2, <2>3, NobodyInside
<1>8. CASE Switch
  <2>1. ~masked /\ masked' = masked /\ does' = does
    BY <1>8 DEF Switch
  <2>2. \A c \in Context : ~Inside(c)'
    BY <2>1 DEF MaskInv, Inside
  <2> QED
    BY <2>1, <2>2, NobodyInside DEF IsrTypeOK
<1> QED
  BY <1>0, <1>1, <1>2, <1>3, <1>4, <1>5, <1>6, <1>7, <1>8 DEF IsrNext, StoreStatus, RaiseTrig, TakeTrig, Inside
--------------------------------------------------------------------------------
(***************************************************************************)
(* Handlers that change nothing of what the invariant of the flag is about.*)
(***************************************************************************)
LEMMA FlagSame ==
    ASSUME SwitchInv, ClearInv, NEW c \in Context, IsrTypeOK,
           does[c] \notin {"read", "clear", "yield"},
           \A d \in Context \ {c} : does'[d] = does[d] /\ local'[d] = local[d],
           does'[c] \notin {"read", "clear", "yield"},
           main' = "ready" => main = "ready" \/ pended', pended => pended',
           yieldRequired' = yieldRequired
    PROVE  SwitchInv' /\ ClearInv'
<1>1. \A i \in Interrupt : does[i] \in {"read", "clear", "yield"} \/ does'[i] \in {"read", "clear", "yield"} =>
          does'[i] = does[i] /\ local'[i] = local[i]
  BY DEF Context
<1>2. \A i \in Interrupt : Asks(i)' <=> Asks(i)
  BY <1>1 DEF Asks
<1>3. \A i \in Interrupt : (does'[i] = "read" <=> does[i] = "read") /\ (does'[i] = "clear" => does[i] = "clear" /\ local'[i] = local[i])
  BY <1>1
<1>4. SwitchInv'
  BY <1>2, <1>3 DEF SwitchInv
<1>5. ClearInv'
  BY <1>2, <1>3 DEF ClearInv
<1> QED
  BY <1>4, <1>5

LEMMA FlagStep == ASSUME IsrTypeOK, SwitchInv, ClearInv, IsrNext PROVE SwitchInv' /\ ClearInv'
<1> USE DEF Kept
<1>0. Main \in Context /\ Low \in Context /\ Interrupt \subseteq Context
  BY DEF Context
<1>1. ASSUME NEW c \in Context,
             EnterCritical(c) \/ StoreStatus(c) \/ Unlock(c) \/ RaiseTrig(c)
                \/ (c \in Interrupt /\ Interrupted(c))
                \/ (c = Low /\ (LowTriggers \/ Notify)) \/ (c = Main /\ (NotifyWait \/ TakeTrig))
      PROVE  SwitchInv' /\ ClearInv'
  <2>1. /\ does[c] \notin {"read", "clear", "yield"} /\ does'[c] \notin {"read", "clear", "yield"}
        /\ \A d \in Context \ {c} : does'[d] = does[d] /\ local'[d] = local[d]
    BY <1>0, <1>1 DEF EnterCritical, StoreStatus, Unlock, Afterwards, RaiseTrig, Interrupted, LowTriggers, Notify,
          NotifyWait, TakeTrig, Goes, IsrTypeOK
  <2>2. yieldRequired' = yieldRequired
    BY <1>1 DEF EnterCritical, StoreStatus, Unlock, RaiseTrig, Interrupted, LowTriggers, Notify, NotifyWait, TakeTrig
  <2>3. (main' = "ready" => main = "ready" \/ pended') /\ (pended => pended')
    <3>1. CASE c = Low /\ Notify
      BY <3>1 DEF Notify, Wakes, Woken
    <3>2. CASE c = Main /\ NotifyWait
      BY <3>2 DEF NotifyWait
    <3>3. CASE UNCHANGED <<main, pended>>
      BY <3>3
    <3> QED
      BY <1>1, <3>1, <3>2, <3>3
         DEF EnterCritical, StoreStatus, Unlock, RaiseTrig, Interrupted, LowTriggers, TakeTrig
  <2> QED
    BY <2>1, <2>2, <2>3, FlagSame
<1>2. ASSUME NEW i \in Interrupt, NotifyFromISR(i) PROVE SwitchInv' /\ ClearInv'
  <2>1. /\ does[i] = "notify" /\ does'[i] = (IF yieldAfter THEN "yield" ELSE "read") /\ pended' = pended
        /\ \A j \in Interrupt \ {i} : does'[j] = does[j] /\ local'[j] = local[j]
        /\ \A j \in Interrupt : j > i => does[j] = "idle"
    BY <1>0, <1>2 DEF NotifyFromISR, Goes, IsrTypeOK, Runs
  <2>2. /\ main' = "ready" => main = "ready" \/ (main = "blocked" /\ Wakes)
        /\ Wakes => IF yieldAfter THEN local'[i] = TRUE ELSE yieldRequired' = TRUE
        /\ IF yieldAfter THEN yieldRequired' = yieldRequired ELSE yieldRequired => yieldRequired'
    BY <1>0, <1>2 DEF NotifyFromISR, Notes, Wakes, Woken, IsrTypeOK
  <2>3. \A j \in Interrupt : (Asks(j) => Asks(j)') /\ (does[j] = "read" => does'[j] = "read")
    BY <2>1 DEF Asks
  <2>4. SwitchInv'
    <3>1. CASE Wakes
      BY <2>1, <2>2, <3>1 DEF SwitchInv, Asks
    <3>2. CASE ~Wakes
      BY <2>1, <2>2, <2>3, <3>2 DEF SwitchInv
    <3> QED
      BY <3>1, <3>2
  <2>5. ClearInv'
    <3> SUFFICES ASSUME NEW j \in Interrupt, does'[j] = "clear", ~local'[j], yieldRequired'
                 PROVE  pended' \/ \E k \in Interrupt : k > j /\ (Asks(k)' \/ does'[k] = "read")
      BY DEF ClearInv
    <3>1. j # i /\ does[j] = "clear" /\ ~local[j] /\ i > j
      BY <2>1, InterruptAssumption
    <3>2. CASE yieldAfter
      BY <2>1, <2>2, <2>3, <3>1, <3>2 DEF ClearInv
    <3>3. CASE ~yieldAfter
      BY <2>1, <3>1, <3>3
    <3> QED
      BY <3>2, <3>3
  <2> QED
    BY <2>4, <2>5
<1>3. ASSUME NEW i \in Interrupt, ReadRequired(i) PROVE SwitchInv' /\ ClearInv'
  <2>1. /\ does[i] = "read" /\ does'[i] = "clear" /\ local'[i] = yieldRequired
        /\ \A j \in Interrupt \ {i} : does'[j] = does[j] /\ local'[j] = local[j]
        /\ pended' = pended /\ main' = main /\ yieldRequired' = yieldRequired
    BY <1>0, <1>3 DEF ReadRequired, Goes, IsrTypeOK
  <2>2. \A j \in Interrupt : Asks(j) => Asks(j)'
    BY <2>1 DEF Asks
  <2>3. yieldRequired => Asks(i)'
    BY <2>1 DEF Asks
  <2>4. SwitchInv'
    BY <2>1, <2>2, <2>3 DEF SwitchInv
  <2>5. ClearInv'
    <3> SUFFICES ASSUME NEW j \in Interrupt, does'[j] = "clear", ~local'[j], yieldRequired'
                 PROVE  pended' \/ \E k \in Interrupt : k > j /\ (Asks(k)' \/ does'[k] = "read")
      BY DEF ClearInv
    <3>1. j # i /\ does[j] = "clear" /\ ~local[j] /\ yieldRequired
      BY <2>1
    <3>2. pended \/ \E k \in Interrupt : k > j /\ (Asks(k) \/ does[k] = "read")
      BY <3>1 DEF ClearInv
    <3>3. \A k \in Interrupt : Asks(k) \/ does[k] = "read" => Asks(k)' \/ does'[k] = "read"
      BY <2>1, <2>2, <2>3, <3>1
    <3> QED
      BY <2>1, <3>2, <3>3
  <2> QED
    BY <2>4, <2>5
<1>4. ASSUME NEW i \in Interrupt, ClearRequired(i) PROVE SwitchInv' /\ ClearInv'
  <2>1. /\ does[i] = "clear" /\ does'[i] = "yield" /\ local' = local
        /\ \A j \in Interrupt \ {i} : does'[j] = does[j]
        /\ pended' = pended /\ main' = main /\ yieldRequired' = FALSE
        /\ \A j \in Interrupt : j > i => does[j] = "idle"
    BY <1>0, <1>4 DEF ClearRequired, Goes, IsrTypeOK, Runs
  <2>2. \A j \in Interrupt : Asks(j) => Asks(j)'
    BY <2>1 DEF Asks
  <2>3. yieldRequired => pended \/ Asks(i)
    BY <2>1 DEF ClearInv, Asks
  <2>4. SwitchInv'
    BY <2>1, <2>2, <2>3 DEF SwitchInv
  <2> QED
    BY <2>1, <2>4 DEF ClearInv
<1>5. ASSUME NEW i \in Interrupt, YieldFromISR(i) PROVE SwitchInv' /\ ClearInv'
  <2>1. /\ does[i] = "yield" /\ local' = local
        /\ \A j \in Interrupt \ {i} : does'[j] = does[j]
        /\ does'[i] = "idle"
        /\ pended' = (pended \/ local[i]) /\ main' = main /\ yieldRequired' = yieldRequired
    BY <1>0, <1>5 DEF YieldFromISR, Goes, IsrTypeOK
  <2>2. \A j \in Interrupt : Asks(j) => pended' \/ Asks(j)'
    BY <2>1 DEF Asks
  <2>3. \A j \in Interrupt : (does'[j] = "read" <=> does[j] = "read") /\ (does'[j] = "clear" <=> does[j] = "clear")
    BY <2>1
  <2>4. SwitchInv'
    BY <2>1, <2>2, <2>3 DEF SwitchInv
  <2>5. ClearInv'
    BY <2>1, <2>2, <2>3 DEF ClearInv
  <2> QED
    BY <2>4, <2>5
<1>6. CASE Switch
  <2>1. does' = does /\ main' # "ready" /\ \A i \in Interrupt : does[i] = "idle"
    BY <1>6 DEF Switch, NoHandler, IsrTypeOK
  <2> QED
    BY <2>1 DEF SwitchInv, ClearInv
<1> QED
  BY <1>0, <1>1, <1>2, <1>3, <1>4, <1>5, <1>6 DEF IsrNext
--------------------------------------------------------------------------------
\* Between the flag and the notification of a trigger somebody is on the way.
LEMMA TrigStep == ASSUME IsrTypeOK, TaskInv, TrigInv, IsrNext PROVE TrigInv'
<1> USE DEF Kept, TrigInv
<1>0. Main \in Context /\ Low \in Context /\ Interrupt \subseteq Context
      /\ Main # Low /\ Main \notin Interrupt
  BY TaskAssumption DEF Context
<1>1. ASSUME NEW i \in Interrupt,
             Interrupted(i) \/ ReadRequired(i) \/ ClearRequired(i) \/ YieldFromISR(i)
      PROVE  TrigInv'
  BY <1>0, <1>1 DEF Interrupted, ReadRequired, ClearRequired, YieldFromISR, Goes, IsrTypeOK
<1>2. CASE Notify \/ \E i \in Interrupt : NotifyFromISR(i)
  BY <1>2 DEF Notify, NotifyFromISR
<1>3. ASSUME NEW c \in Context, EnterCritical(c) PROVE TrigInv'
  BY <1>0, <1>3 DEF EnterCritical, Goes, IsrTypeOK
<1>4. ASSUME NEW c \in Context, StoreStatus(c) PROVE TrigInv'
  BY <1>0, <1>4 DEF StoreStatus, Goes, IsrTypeOK
<1>5. ASSUME NEW c \in Context, Unlock(c) PROVE TrigInv'
  BY <1>0, <1>5 DEF Unlock, Afterwards, Goes, IsrTypeOK
<1>6. ASSUME NEW c \in Context \ {Main}, RaiseTrig(c) PROVE TrigInv'
  BY <1>0, <1>6 DEF RaiseTrig, Goes, IsrTypeOK
<1>7. CASE LowTriggers
  BY <1>0, <1>7 DEF LowTriggers, Goes, IsrTypeOK
<1>8. CASE NotifyWait
  BY <1>0, <1>8 DEF NotifyWait, Goes, IsrTypeOK
<1>9. CASE TakeTrig
  BY <1>9 DEF TakeTrig
<1>10. CASE Switch
  BY <1>10 DEF Switch
<1> QED
  BY <1>1, <1>2, <1>3, <1>4, <1>5, <1>6, <1>7, <1>8, <1>9, <1>10 DEF IsrNext
--------------------------------------------------------------------------------
LEMMA IsrStutterIInv == ASSUME IsrIInv, UNCHANGED isrVars PROVE IsrIInv'
BY DEF IsrIInv, isrVars, IsrTypeOK, TaskInv, MaskInv, SwitchInv, ClearInv, TrigInv, Inside, Asks, Runs, NoHandler

LEMMA IsrInvariance == IsrSpec => []IsrIInv
<1>1. IsrIInv /\ [IsrNext]_isrVars => IsrIInv'
  <2> SUFFICES ASSUME IsrIInv, [IsrNext]_isrVars PROVE IsrIInv'
    OBVIOUS
  <2>1. CASE IsrNext
    BY <2>1, IsrTypeStep, TaskStep, MaskStep, FlagStep, TrigStep DEF IsrIInv
  <2>2. CASE UNCHANGED isrVars
    BY <2>2, IsrStutterIInv
  <2> QED
    BY <2>1, <2>2
<1> QED
  BY <1>1, IsrInitIInv, PTL DEF IsrSpec

\* The labels of every context are its own.
THEOREM IsrTypeCorrect == IsrSpec => []IsrTypeOK
<1>1. IsrIInv => IsrTypeOK
  BY DEF IsrIInv
<1> QED
  BY <1>1, IsrInvariance, PTL

\* lock_mutex and unlock_mutex are a mutex, with one interrupt_status for all.
THEOREM MaskIsMutex == IsrSpec => []MaskedInside
<1>1. IsrIInv => MaskedInside
  <2> SUFFICES ASSUME IsrIInv PROVE MaskedInside
    OBVIOUS
  <2> QED
    BY CurrentUnique DEF IsrIInv, MaskInv, MaskedInside
<1> QED
  BY <1>1, IsrInvariance, PTL

\* With either setting of the option, the last of the nested handlers leaves with a
\* switch to the task that one of them has woken.
THEOREM SwitchAlwaysFollows == IsrSpec => []SwitchFollows
<1>1. IsrIInv => SwitchFollows
  BY DEF IsrIInv, SwitchInv, SwitchFollows, NoHandler, Asks
<1> QED
  BY <1>1, IsrInvariance, PTL

\* The main task is blocked only while nothing is triggered that it has not been, or
\* is about to be, told of.
THEOREM TriggersAreTold == IsrSpec => []ToldOfTrigger
<1>1. IsrIInv => ToldOfTrigger
  BY DEF IsrIInv, TaskInv, TrigInv, ToldOfTrigger
<1> QED
  BY <1>1, IsrInvariance, PTL
================================================================================
