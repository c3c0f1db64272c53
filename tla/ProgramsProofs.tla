----------------------------- MODULE ProgramsProofs -----------------------------
(***************************************************************************)
(* Proofs about the example programs.  dispatch: for any number of callers *)
(* that the dispatch queue has places for, any lengths of the queues, and  *)
(* timers of either kind.  The programs on Linux and on the other          *)
(* platforms: whichever call fails, and whenever the loop ends.            *)
(***************************************************************************)
EXTENDS MCPrograms, FiniteSetTheorems, SequenceTheorems, TLAPS

--------------------------------------------------------------------------------
(* dispatch *)

\* No caller has two requests in the queue.
OneEach ==
    \A i, j \in 1 .. Len(dispatchQueue) :
        dispatchQueue[i].from = dispatchQueue[j].from => i = j

\* Requests are of callers that have begun, and of the value that they have now.
RequestsRight ==
    \A i \in 1 .. Len(dispatchQueue) :
        /\ dispatchQueue[i].from \in begun
        /\ dispatchQueue[i].foo = foo[dispatchQueue[i].from]

InQueue(c) == \E i \in 1 .. Len(dispatchQueue) : dispatchQueue[i].from = c

\* An answer is the only one, is right, and takes the place of a request.
AnswersRight ==
    \A c \in Caller : answers[c] # <<>> =>
        /\ c \in begun /\ ~InQueue(c)
        /\ Len(answers[c]) = 1 /\ Head(answers[c]) = 2 * foo[c]

\* Who has begun has asked, or been answered.
NoneForgotten == \A c \in begun : answers[c] # <<>> \/ InQueue(c)

IInv == TypeOK /\ OneEach /\ RequestsRight /\ AnswersRight /\ NoneForgotten

\* A queue with a place for it takes an element.
LEMMA AppendFits ==
    ASSUME NEW E, NEW q \in Seq(E), NEW x \in E, NEW size \in Nat, HasRoom(q, size)
    PROVE  Append(q, x) \in Seq(E) /\ Len(Append(q, x)) <= size
<1>1. Append(q, x) \in Seq(E) /\ Len(Append(q, x)) = Len(q) + 1 /\ Len(q) \in Nat
  BY AppendProperties, LenProperties
<1> QED
  BY <1>1 DEF HasRoom

(***************************************************************************)
(* The caller that asks has a place in the queue: the others that are in   *)
(* it are fewer than the callers, and those are not more than the places.  *)
(***************************************************************************)
LEMMA PlaceForRequest ==
    ASSUME TypeOK, OneEach, NEW c \in Caller, ~InQueue(c)
    PROVE  Len(dispatchQueue) < DispatchSize
<1> DEFINE n == Len(dispatchQueue)
           others == Caller \ {c}
           f == [i \in 1 .. n |-> dispatchQueue[i].from]
<1>1. n \in Nat /\ \A i \in 1 .. n : dispatchQueue[i] \in Request
  BY LenProperties DEF TypeOK
<1>2. f \in [1 .. n -> others]
  BY <1>1 DEF Request, InQueue
<1>3. \A i, j \in 1 .. n : f[i] = f[j] => i = j
  BY DEF OneEach
<1>4. f \in Injection(1 .. n, others)
  BY <1>2, <1>3 DEF Injection, IsInjective
<1>5. IsFiniteSet(others) /\ Cardinality(others) = Cardinality(Caller) - 1
  BY FS_RemoveElement, CallerAssumption
<1>6. Cardinality(1 .. n) <= Cardinality(others)
  BY <1>4, <1>5, FS_Injection
<1>7. Cardinality(1 .. n) = n
  <2>1. n \in Nat
    BY <1>1
  <2>2. Cardinality(1 .. n) = IF 1 > n THEN 0 ELSE n - 1 + 1
    BY <2>1, FS_Interval
  <2> QED
    BY <2>1, <2>2
<1>8. Cardinality(Caller) \in Nat
  BY FS_CardinalityType, CallerAssumption
<1> QED
  BY <1>1, <1>5, <1>6, <1>7, <1>8, CallerAssumption, SizeAssumption

\* What callee_dispatch does for a caller that has no request in the queue.
LEMMA RequestAdded ==
    ASSUME TypeOK, OneEach, NEW c \in Caller, ~InQueue(c),
           NEW k \in 0 .. FooBound - 1, CalleeDispatch(c, k, events)
    PROVE  /\ dispatchQueue' \in Seq(Request)
           /\ Len(dispatchQueue') = Len(dispatchQueue) + 1
           /\ Len(dispatchQueue') <= DispatchSize
           /\ \A i \in 1 .. Len(dispatchQueue) : dispatchQueue'[i] = dispatchQueue[i]
           /\ dispatchQueue'[Len(dispatchQueue) + 1] = [from |-> c, foo |-> k]
           /\ events' \in Seq({"ev_dispatch", "tm_process"}) /\ Len(events') <= EventSize
           /\ aborted' \in BOOLEAN
<1>1. Len(dispatchQueue) < DispatchSize
  BY PlaceForRequest
<1>2. [from |-> c, foo |-> k] \in Request
  BY DEF Request
<1>3. dispatchQueue \in Seq(Request) /\ Len(dispatchQueue) \in Nat
  BY LenProperties DEF TypeOK
<1>4. dispatchQueue' = Append(dispatchQueue, [from |-> c, foo |-> k])
  BY <1>1 DEF CalleeDispatch, HasRoom
<1>5. /\ events' \in Seq({"ev_dispatch", "tm_process"})
      /\ Len(events') <= EventSize
  <2>1. events \in Seq({"ev_dispatch", "tm_process"}) /\ Len(events) <= EventSize
    BY DEF TypeOK
  <2>2. CASE HasRoom(events, EventSize)
    <3>1. events' = Append(events, "ev_dispatch")
      BY <2>2 DEF CalleeDispatch
    <3> QED
      BY <2>1, <2>2, <3>1, AppendFits, SizeAssumption
  <2>3. CASE ~HasRoom(events, EventSize)
    BY <2>1, <2>3 DEF CalleeDispatch
  <2> QED
    BY <2>2, <2>3
<1>6. aborted' \in BOOLEAN
  BY Zenon DEF CalleeDispatch, TypeOK
<1> QED
  BY <1>1, <1>2, <1>3, <1>4, <1>5, <1>6, AppendProperties, SizeAssumption
--------------------------------------------------------------------------------
LEMMA InitIInv == Init => IInv
<1> SUFFICES ASSUME Init PROVE IInv
  OBVIOUS
<1>1. TypeOK
  <2>1. /\ begun \subseteq Caller /\ foo \in [Caller -> 0 .. FooBound - 1]
        /\ answers \in [Caller -> Seq(Nat)]
    BY FooAssumption, EmptySeq DEF Init
  <2>2. /\ state \in {"idle", "processing"}
        /\ events \in Seq({"ev_dispatch", "tm_process"}) /\ Len(events) <= EventSize
    BY SizeAssumption, EmptySeq DEF Init
  <2>3. dispatchQueue \in Seq(Request) /\ Len(dispatchQueue) <= DispatchSize
    BY SizeAssumption, EmptySeq DEF Init
  <2>4. due \in BOOLEAN /\ aborted \in BOOLEAN
    BY DEF Init
  <2> QED
    BY <2>1, <2>2, <2>3, <2>4 DEF TypeOK
<1>2. Len(dispatchQueue) = 0
  BY EmptySeq DEF Init
<1> QED
  BY <1>1, <1>2 DEF Init, IInv, OneEach, RequestsRight, AnswersRight, NoneForgotten, InQueue

LEMMA BeginsIInv ==
    ASSUME IInv, NEW c \in Caller, CallerBegins(c)
    PROVE  IInv'
<1> USE DEF IInv
<1>1. c \notin begun /\ begun' = begun \cup {c} /\ foo' = foo /\ answers' = answers
      /\ state' = state /\ due' = due /\ CalleeDispatch(c, foo[c], events)
  BY DEF CallerBegins
<1>2. ~InQueue(c)
  BY <1>1 DEF InQueue, RequestsRight
<1>3. foo[c] \in 0 .. FooBound - 1 /\ Len(dispatchQueue) \in Nat
  BY LenProperties DEF TypeOK
<1>4. /\ dispatchQueue' \in Seq(Request)
      /\ Len(dispatchQueue') = Len(dispatchQueue) + 1
      /\ Len(dispatchQueue') <= DispatchSize
      /\ \A i \in 1 .. Len(dispatchQueue) : dispatchQueue'[i] = dispatchQueue[i]
      /\ dispatchQueue'[Len(dispatchQueue) + 1] = [from |-> c, foo |-> foo[c]]
      /\ events' \in Seq({"ev_dispatch", "tm_process"}) /\ Len(events') <= EventSize
      /\ aborted' \in BOOLEAN
  BY <1>1, <1>2, <1>3, RequestAdded
<1>5. TypeOK'
  BY <1>1, <1>4 DEF TypeOK
<1>6. OneEach'
  BY <1>2, <1>3, <1>4 DEF OneEach, InQueue
<1>7. RequestsRight'
  BY <1>1, <1>3, <1>4 DEF RequestsRight
<1>8. AnswersRight'
  BY <1>1, <1>2, <1>3, <1>4 DEF AnswersRight, InQueue
<1>9. NoneForgotten'
  BY <1>1, <1>3, <1>4 DEF NoneForgotten, InQueue
<1> QED
  BY <1>5, <1>6, <1>7, <1>8, <1>9

LEMMA RespondsIInv ==
    ASSUME IInv, NEW c \in Caller, CallerResponds(c)
    PROVE  IInv'
<1> USE DEF IInv
<1>1. /\ answers[c] # <<>> /\ answers' = [answers EXCEPT ![c] = Tail(@)]
      /\ foo' = [foo EXCEPT ![c] = (@ + 1) % FooBound]
      /\ begun' = begun /\ state' = state /\ due' = due
      /\ CalleeDispatch(c, foo'[c], events)
  BY DEF CallerResponds, NextRequest
<1>2. c \in begun /\ ~InQueue(c) /\ Len(answers[c]) = 1
  BY <1>1 DEF AnswersRight
<1>3. foo'[c] \in 0 .. FooBound - 1 /\ foo' \in [Caller -> 0 .. FooBound - 1]
      /\ \A d \in Caller \ {c} : foo'[d] = foo[d]
  <2>1. \A x \in Nat : x % FooBound \in 0 .. FooBound - 1
    BY FooAssumption
  <2>2. foo[c] + 1 \in Nat
    BY FooAssumption DEF TypeOK
  <2> QED
    BY <1>1, <2>1, <2>2 DEF TypeOK
<1>4. Len(dispatchQueue) \in Nat
  BY LenProperties DEF TypeOK
<1>5. /\ dispatchQueue' \in Seq(Request)
      /\ Len(dispatchQueue') = Len(dispatchQueue) + 1
      /\ Len(dispatchQueue') <= DispatchSize
      /\ \A i \in 1 .. Len(dispatchQueue) : dispatchQueue'[i] = dispatchQueue[i]
      /\ dispatchQueue'[Len(dispatchQueue) + 1] = [from |-> c, foo |-> foo'[c]]
      /\ events' \in Seq({"ev_dispatch", "tm_process"}) /\ Len(events') <= EventSize
      /\ aborted' \in BOOLEAN
  BY <1>1, <1>2, <1>3, RequestAdded
<1>5a. \A i \in 1 .. Len(dispatchQueue') :
          i \in 1 .. Len(dispatchQueue) \/ i = Len(dispatchQueue) + 1
  BY <1>4, <1>5
<1>6. /\ answers' \in [Caller -> Seq(Nat)] /\ answers'[c] = <<>>
      /\ \A d \in Caller \ {c} : answers'[d] = answers[d]
  <2>1. answers[c] \in Seq(Nat)
    BY DEF TypeOK
  <2>2. Tail(answers[c]) \in Seq(Nat) /\ Len(Tail(answers[c])) = 0
    BY <1>1, <1>2, <2>1, HeadTailProperties
  <2>3. Tail(answers[c]) = <<>>
    BY <2>2, EmptySeq
  <2> QED
    BY <1>1, <2>2, <2>3 DEF TypeOK
<1>7. TypeOK'
  BY <1>1, <1>3, <1>5, <1>6 DEF TypeOK
<1>8. OneEach'
  BY <1>2, <1>4, <1>5, <1>5a DEF OneEach, InQueue
<1>9. RequestsRight'
  <2>1. \A i \in 1 .. Len(dispatchQueue) :
           dispatchQueue[i].from \in Caller \ {c}
    BY <1>2 DEF InQueue, RequestsRight, TypeOK
  <2> QED
    BY <1>1, <1>2, <1>3, <1>4, <1>5, <2>1 DEF RequestsRight
<1>10. AnswersRight'
  <2> SUFFICES ASSUME NEW d \in Caller, answers'[d] # <<>>
               PROVE  /\ d \in begun' /\ ~InQueue(d)'
                      /\ Len(answers'[d]) = 1 /\ Head(answers'[d]) = 2 * foo'[d]
    BY DEF AnswersRight
  <2>1. d # c /\ answers'[d] = answers[d] /\ foo'[d] = foo[d]
    BY <1>3, <1>6
  <2>2. /\ d \in begun /\ ~InQueue(d)
        /\ Len(answers[d]) = 1 /\ Head(answers[d]) = 2 * foo[d]
    BY <2>1 DEF AnswersRight
  <2>3. \A i \in 1 .. Len(dispatchQueue') : dispatchQueue'[i].from # d
    BY <1>4, <1>5, <1>5a, <2>1, <2>2 DEF InQueue
  <2> QED
    BY <1>1, <2>1, <2>2, <2>3 DEF InQueue
<1>11. NoneForgotten'
  <2> SUFFICES ASSUME NEW d \in begun, answers'[d] = <<>>
               PROVE  \E i \in 1 .. Len(dispatchQueue') : dispatchQueue'[i].from = d
    BY <1>1 DEF NoneForgotten, InQueue
  <2>1. CASE d = c
    <3>1. Len(dispatchQueue) + 1 \in 1 .. Len(dispatchQueue')
      BY <1>4, <1>5
    <3> QED
      BY <1>5, <2>1, <3>1
  <2>2. CASE d # c
    <3>1. answers[d] = <<>>
      BY <1>6, <2>2 DEF TypeOK
    <3>2. PICK i \in 1 .. Len(dispatchQueue) : dispatchQueue[i].from = d
      BY <3>1 DEF NoneForgotten, InQueue
    <3>3. i \in 1 .. Len(dispatchQueue') /\ dispatchQueue'[i] = dispatchQueue[i]
      BY <1>4, <1>5
    <3> QED
      BY <3>2, <3>3
  <2> QED
    BY <2>1, <2>2
<1> QED
  BY <1>7, <1>8, <1>9, <1>10, <1>11

\* process answers the oldest request and takes it away; there is a place for the
\* answer, since the caller that waits for it has none.
LEMMA ProcessIInv ==
    ASSUME IInv, dispatchQueue # <<>>, Process,
           UNCHANGED <<begun, foo>>, state' \in {"idle", "processing"}, due' \in BOOLEAN,
           events' \in Seq({"ev_dispatch", "tm_process"}), Len(events') <= EventSize
    PROVE  IInv'
<1> USE DEF IInv
<1> DEFINE c == Head(dispatchQueue).from
           n == Len(dispatchQueue)
<1>1. /\ n \in Nat \ {0} /\ Head(dispatchQueue) = dispatchQueue[1]
      /\ dispatchQueue[1] \in Request
  BY LenProperties, EmptySeq DEF TypeOK
<1>2. c \in Caller /\ c \in begun /\ InQueue(c) /\ c = dispatchQueue[1].from
      /\ dispatchQueue[1].foo = foo[c] /\ foo[c] \in Nat
  <2>1. 1 \in 1 .. n /\ c = dispatchQueue[1].from
    BY <1>1
  <2>2. c \in begun /\ dispatchQueue[1].foo = foo[c]
    BY <2>1 DEF RequestsRight
  <2>3. InQueue(c)
    BY <2>1 DEF InQueue
  <2>4. c \in Caller /\ foo[c] \in Nat
    BY <2>2, FooAssumption DEF TypeOK
  <2> QED
    BY <2>1, <2>2, <2>3, <2>4
<1>3. answers[c] = <<>> /\ answers[c] \in Seq(Nat)
  BY <1>2 DEF AnswersRight, TypeOK
<1>4. HasRoom(answers[c], EventSize)
  BY <1>3, SizeAssumption, EmptySeq DEF HasRoom
<1>5. /\ answers' = [answers EXCEPT ![c] = Append(@, Head(dispatchQueue).foo * 2)]
      /\ aborted' = aborted
      /\ dispatchQueue' = Tail(dispatchQueue)
  BY <1>4 DEF Process, Oldest, Pop
<1>6. /\ dispatchQueue' \in Seq(Request) /\ Len(dispatchQueue') = n - 1
      /\ \A i \in 1 .. n - 1 : dispatchQueue'[i] = dispatchQueue[i + 1]
  BY <1>5, HeadTailProperties DEF TypeOK
<1>7. /\ answers'[c] = <<2 * foo[c]>> /\ answers' \in [Caller -> Seq(Nat)]
      /\ \A d \in Caller \ {c} : answers'[d] = answers[d]
  <2>1. Head(dispatchQueue).foo * 2 = 2 * foo[c] /\ 2 * foo[c] \in Nat
    BY <1>1, <1>2
  <2>2. Append(<<>>, 2 * foo[c]) = <<2 * foo[c]>> /\ <<2 * foo[c]>> \in Seq(Nat)
    BY <2>1
  <2> QED
    BY <1>2, <1>3, <1>5, <2>1, <2>2 DEF TypeOK
<1>8. TypeOK'
  <2>1. Len(dispatchQueue') <= DispatchSize
    BY <1>1, <1>6, SizeAssumption DEF TypeOK
  <2>2. aborted' \in BOOLEAN
    BY <1>5 DEF TypeOK
  <2> QED
    BY <1>6, <1>7, <2>1, <2>2 DEF TypeOK
<1>9. OneEach'
  BY <1>1, <1>6 DEF OneEach
<1>10. RequestsRight'
  BY <1>1, <1>6 DEF RequestsRight
<1>11. \A d \in Caller : InQueue(d)' => InQueue(d) /\ d # c
  BY <1>1, <1>2, <1>6 DEF InQueue, OneEach
<1>12. \A d \in Caller \ {c} : InQueue(d) => InQueue(d)'
  <2> SUFFICES ASSUME NEW d \in Caller \ {c}, NEW i \in 1 .. n, dispatchQueue[i].from = d
               PROVE  InQueue(d)'
    BY DEF InQueue
  <2>1. i - 1 \in 1 .. n - 1 /\ i = (i - 1) + 1
    BY <1>1, <1>2
  <2> QED
    BY <1>6, <2>1 DEF InQueue
<1>13. AnswersRight'
  <2>1. Len(<<2 * foo[c]>>) = 1 /\ Head(<<2 * foo[c]>>) = 2 * foo[c]
    BY <1>2
  <2> QED
    BY <1>2, <1>7, <1>11, <2>1 DEF AnswersRight
<1>14. NoneForgotten'
  <2>1. <<2 * foo[c]>> # <<>>
    OBVIOUS
  <2> QED
    BY <1>7, <1>12, <2>1 DEF NoneForgotten, TypeOK
<1> QED
  BY <1>8, <1>9, <1>10, <1>13, <1>14

\* Nothing but the events of the callee and its flags changes.
LEMMA SameIInv ==
    ASSUME IInv, UNCHANGED <<begun, foo, answers, dispatchQueue>>,
           state' \in {"idle", "processing"}, due' \in BOOLEAN, aborted' \in BOOLEAN,
           events' \in Seq({"ev_dispatch", "tm_process"}), Len(events') <= EventSize
    PROVE  IInv'
  BY DEF IInv, TypeOK, OneEach, RequestsRight, AnswersRight, NoneForgotten, InQueue

LEMMA ServedIInv ==
    ASSUME IInv, CalleeServed
    PROVE  IInv'
<1>1. UNCHANGED <<begun, foo>> /\ events # <<>> /\ events' = Tail(events)
  BY DEF CalleeServed
<1>2. events' \in Seq({"ev_dispatch", "tm_process"}) /\ Len(events') <= EventSize
  <2>1. events \in Seq({"ev_dispatch", "tm_process"}) /\ Len(events) <= EventSize
    BY DEF IInv, TypeOK
  <2> QED
    BY <1>1, <2>1, HeadTailProperties, LenProperties, SizeAssumption
<1>3. CASE UNCHANGED <<state, answers, dispatchQueue, aborted, due>>
  BY <1>1, <1>2, <1>3, SameIInv DEF IInv, TypeOK
<1>4. CASE CondEmpty
  <2>1. CASE dispatchQueue = <<>>
    <3>1. state' = "idle" /\ UNCHANGED <<answers, dispatchQueue, aborted, due>>
      BY <1>4, <2>1 DEF CondEmpty
    <3> QED
      BY <1>1, <1>2, <3>1, SameIInv DEF IInv, TypeOK
  <2>2. CASE dispatchQueue # <<>>
    BY <1>1, <1>2, <1>4, <2>2, ProcessIInv DEF CondEmpty
  <2> QED
    BY <2>1, <2>2
<1> QED
  BY <1>3, <1>4 DEF CalleeServed, Dispatched, TimedOut, AfterProcessing

LEMMA TimerIInv ==
    ASSUME IInv, TimerCallback
    PROVE  IInv'
<1>1. UNCHANGED <<begun, foo, answers, state, dispatchQueue>> /\ due' = TRUE
  BY DEF TimerCallback
<1>2. events' \in Seq({"ev_dispatch", "tm_process"}) /\ Len(events') <= EventSize
  <2>1. events \in Seq({"ev_dispatch", "tm_process"}) /\ Len(events) <= EventSize
    BY DEF IInv, TypeOK
  <2>2. CASE HasRoom(events, EventSize)
    <3>1. events' = Append(events, "tm_process")
      BY <2>2 DEF TimerCallback
    <3> QED
      BY <2>1, <2>2, <3>1, AppendFits, SizeAssumption
  <2>3. CASE ~HasRoom(events, EventSize)
    BY <2>1, <2>3 DEF TimerCallback
  <2> QED
    BY <2>2, <2>3
<1>3. aborted' \in BOOLEAN
  BY Zenon DEF IInv, TypeOK, TimerCallback
<1> QED
  BY <1>1, <1>2, <1>3, SameIInv DEF IInv, TypeOK

LEMMA NextIInv == IInv /\ [Next]_vars => IInv'
<1> SUFFICES ASSUME IInv, [Next]_vars PROVE IInv'
  OBVIOUS
<1>1. ASSUME NEW c \in Caller, Caller1(c) PROVE IInv'
  BY <1>1, BeginsIInv, RespondsIInv DEF Caller1
<1>2. CASE Callee
  BY <1>2, ServedIInv DEF Callee
<1>3. CASE Timer
  BY <1>3, TimerIInv DEF Timer
<1>4. CASE Aborted \/ UNCHANGED vars
  <2>1. UNCHANGED vars
    BY <1>4 DEF Aborted
  <2> QED
    BY <2>1, SameIInv DEF vars, IInv, TypeOK
<1> QED
  BY <1>1, <1>2, <1>3, <1>4 DEF Next
--------------------------------------------------------------------------------
LEMMA Invariance == Spec => []IInv
  BY InitIInv, NextIInv, PTL DEF Spec

\* The queues keep their sizes and hold what they should.
THEOREM TypeCorrect == Spec => []TypeOK
<1>1. IInv => TypeOK
  BY DEF IInv
<1> QED
  BY <1>1, Invariance, PTL

\* Each caller that has begun has one request in the queue or one answer, and the
\* dispatch queue (dispatch_queue of callee.c) drops none.
THEOREM OneOutstandingAlways == Spec => []OneOutstanding
<1>1. ASSUME IInv, NEW c \in Caller
      PROVE  Cardinality(Requests(c)) + Len(answers[c]) = IF c \in begun THEN 1 ELSE 0
  <2> USE <1>1 DEF IInv
  <2>0. answers[c] \in Seq(Nat) /\ Len(dispatchQueue) \in Nat
    BY LenProperties DEF TypeOK
  <2>1. CASE InQueue(c)
    <3>1. PICK i \in 1 .. Len(dispatchQueue) : dispatchQueue[i].from = c
      BY <2>1 DEF InQueue
    <3>2. Requests(c) = {i}
      BY <3>1 DEF Requests, OneEach
    <3>3. answers[c] = <<>> /\ c \in begun
      BY <2>1, <3>1 DEF AnswersRight, RequestsRight
    <3>4. Cardinality({i}) = 1 /\ Len(answers[c]) = 0
      BY <3>3, FS_Singleton, EmptySeq
    <3> QED
      BY <3>2, <3>3, <3>4
  <2>2. CASE ~InQueue(c)
    <3>1. Requests(c) = {}
      BY <2>2 DEF Requests, InQueue
    <3>2. Cardinality({}) = 0
      BY FS_EmptySet
    <3>3. CASE c \in begun
      <4>1. answers[c] # <<>>
        BY <2>2, <3>3 DEF NoneForgotten
      <4>2. Len(answers[c]) = 1
        BY <4>1 DEF AnswersRight
      <4> QED
        BY <3>1, <3>2, <3>3, <4>2
    <3>4. CASE c \notin begun
      <4>1. answers[c] = <<>>
        BY <3>4 DEF AnswersRight
      <4>2. Len(answers[c]) = 0
        BY <4>1, EmptySeq
      <4> QED
        BY <3>1, <3>2, <3>4, <4>2
    <3> QED
      BY <3>3, <3>4
  <2> QED
    BY <2>1, <2>2
<1>2. IInv => OneOutstanding
  BY <1>1 DEF OneOutstanding
<1> QED
  BY <1>2, Invariance, PTL

\* A caller is answered its own request (callee_request_t keeps who has asked).
THEOREM RightAnswerAlways == Spec => []RightAnswer
<1>1. IInv => RightAnswer
  BY DEF IInv, AnswersRight, RequestsRight, RightAnswer, Requests
<1> QED
  BY <1>1, Invariance, PTL

\* Every caller that waits is given one answer, its own (callee_dispatch and
\* process), for any number of callers.
THEOREM EachAnsweredAlways == Spec => []EachAnswered
<1>1. OneOutstanding /\ RightAnswer => EachAnswered
  BY DEF EachAnswered
<1> QED
  BY <1>1, OneOutstandingAlways, RightAnswerAlways, PTL

--------------------------------------------------------------------------------
(* The program on Linux *)

\* The steps of the creation that come before there is an application.
Before == {"event", "signal", "binding", "data", "mutex", "event_fd", "quit_fd",
           "timer_efd", "epoll_ctl", "thread", "application"}
BindingBlocks == {"binding", "data", "mutex"}
AllBlocks == BindingBlocks \cup {"application", "timer"}
BindingFds == {"event_fd", "quit_fd", "timer_efd"}

LinuxTypeOK ==
    /\ pc \in Before \cup {"efd", "add", "loop", "close", "destroy queue",
                           "destroy timer", "destroy binding", "join", "close fds",
                           "free", "end", "aborted", "undefined"}
    /\ fd \in [Linux!Variables -> Linux!Variables \cup {Linux!Stdin, Linux!None}]
    /\ open \subseteq Linux!Variables \cup {Linux!Stdin}
    /\ thread \in {"off", "waiting", "expired", "done"}
    /\ id \in {Linux!None, "thread", "undefined"}
    /\ armed \in BOOLEAN /\ calm \in BOOLEAN /\ touched \in BOOLEAN

\* The variable of an open descriptor denotes it.
FdsKnown == \A v \in Linux!Variables \cap open : fd[v] = v

\* The blocks in use follow from where main is; on its way out they are those of
\* as many of the creations as were done.
HeapAt ==
    /\ pc \in {"event", "signal", "binding", "end"} => live = {}
    /\ pc = "data" => live = {"binding"}
    /\ pc = "mutex" => live = {"binding", "data"}
    /\ pc \in {"event_fd", "quit_fd", "timer_efd", "epoll_ctl", "thread", "application"}
          => live = BindingBlocks
    /\ pc \in {"efd", "add", "loop", "destroy queue"} => live = AllBlocks
    /\ pc = "close" => live \in {{}, BindingBlocks, AllBlocks}
    /\ pc = "destroy timer" => live = AllBlocks \ {"application"}
    /\ pc \in {"destroy binding", "join", "close fds", "free"} => live \subseteq BindingBlocks

\* So do the open descriptors: those of the binding are open only while its data
\* lives, and are closed before that is freed.
FdsAt ==
    /\ "efd" \in open => pc \in {"add", "loop", "close"}
    /\ "m_quit_event_fd" \in open
          => pc \notin {"event", "end", "destroy queue", "destroy timer"}
    /\ BindingFds \cap open # {} => "data" \in live /\ pc # "free"
    /\ pc \in {"mutex", "event_fd"} => BindingFds \cap open = {}
    /\ pc = "quit_fd" => BindingFds \cap open \subseteq {"event_fd"}
    /\ pc = "timer_efd" => "timer_efd" \notin open

\* A thread that runs is known to the binding, which joins it before it goes.
ThreadAt ==
    /\ pc \in Before \ {"application"} => thread = "off"
    /\ thread \in {"waiting", "expired"} =>
          id = "thread" /\ "data" \in live /\ pc \notin {"close fds", "free"}

\* The thread is in the callback, or the timer runs, only with all it uses, unless
\* the destruction of the application has overtaken it.
CalmAt ==
    /\ pc \in Before \/ "application" \in live => calm
    /\ (armed \/ thread = "expired") /\ calm => AllBlocks \subseteq live
    /\ Linux!SafeIfCalm

LinuxInv == LinuxTypeOK /\ FdsKnown /\ HeapAt /\ FdsAt /\ ThreadAt /\ CalmAt

LEMMA LinuxInvInit == Linux!Init => LinuxInv
  BY DEF Linux!Init, LinuxInv, LinuxTypeOK, FdsKnown, HeapAt, FdsAt, ThreadAt, CalmAt,
         Linux!SafeIfCalm, Before, BindingBlocks, AllBlocks, BindingFds, Linux!Variables,
         Linux!Stdin, Linux!None

\* What a call that opens a descriptor does to the descriptors, and to pc.
LEMMA OpenKnown ==
    ASSUME LinuxInv, NEW v \in Linux!Variables, v \notin open, NEW next, NEW error,
           Linux!Open(v, next, error)
    PROVE  /\ fd' \in [Linux!Variables -> Linux!Variables \cup {Linux!Stdin, Linux!None}]
           /\ open' \subseteq Linux!Variables \cup {Linux!Stdin}
           /\ FdsKnown'
           /\ \/ open' = open \cup {v} /\ pc' = next
              \/ open' = open /\ pc' = error
<1>1. CASE Linux!Opened(v) /\ pc' = next
  BY <1>1 DEF LinuxInv, LinuxTypeOK, FdsKnown, Linux!Opened
<1>2. CASE Linux!OpenFails(v) /\ pc' = error
  BY <1>2 DEF LinuxInv, LinuxTypeOK, FdsKnown, Linux!OpenFails
<1> QED
  BY <1>1, <1>2 DEF Linux!Open

\* What a call that closes descriptors does to them.
LEMMA CloseKnown ==
    ASSUME LinuxInv, NEW vs \in SUBSET Linux!Variables, Linux!Close(vs), fd' = fd
    PROVE  /\ open' \subseteq open
           /\ FdsKnown'
           /\ vs \cap open' = {}
<1>1. open' \subseteq open
  BY DEF Linux!Close
<1>2. FdsKnown'
  BY <1>1 DEF LinuxInv, FdsKnown
<1>3. vs \cap open' = {}
  BY DEF LinuxInv, FdsKnown, Linux!Close
<1> QED
  BY <1>1, <1>2, <1>3

LEMMA OpensKeepInv ==
    ASSUME LinuxInv,
           \/ Linux!CreateEvent \/ Linux!OpenEventFd \/ Linux!OpenQuitFd
           \/ Linux!OpenEfd \/ Linux!CreateEfd
    PROVE  LinuxInv'
<1> USE DEF LinuxInv, LinuxTypeOK, Before, BindingBlocks, AllBlocks
<1> DEFINE OpensOf(v) ==
               /\ fd' \in [Linux!Variables -> Linux!Variables \cup {Linux!Stdin, Linux!None}]
               /\ open' \subseteq Linux!Variables \cup {Linux!Stdin}
               /\ FdsKnown'
               /\ open' \in {open, open \cup {v}}
           Same == UNCHANGED <<live, id, thread, armed, calm, touched>>
<1>1. CASE Linux!CreateEvent
  <2>1. pc = "event" /\ pc' \in {"signal", "close"} /\ Same
    BY <1>1 DEF Linux!CreateEvent, Linux!Open, Linux!Heap, Linux!Histories
  <2>2. "m_quit_event_fd" \in Linux!Variables /\ "m_quit_event_fd" \notin open
    BY <2>1 DEF FdsAt, BindingFds, Linux!Variables
  <2>3. OpensOf("m_quit_event_fd")
    BY <1>1, <2>2, OpenKnown DEF Linux!CreateEvent
  <2>5. HeapAt' /\ ThreadAt' /\ CalmAt'
    BY <2>1 DEF HeapAt, ThreadAt, CalmAt, Linux!SafeIfCalm
  <2>6. FdsAt'
    BY <2>1, <2>3 DEF HeapAt, FdsAt, BindingFds
  <2> QED
    BY <2>1, <2>3, <2>5, <2>6
<1>2. CASE Linux!OpenEventFd
  <2>1. pc = "event_fd" /\ pc' \in {"quit_fd"} /\ Same
    BY <1>2 DEF Linux!OpenEventFd, Linux!Open, Linux!Heap, Linux!Histories
  <2>2. "event_fd" \in Linux!Variables /\ "event_fd" \notin open
    BY <2>1 DEF FdsAt, BindingFds, Linux!Variables
  <2>3. OpensOf("event_fd")
    BY <1>2, <2>2, OpenKnown DEF Linux!OpenEventFd
  <2>5. HeapAt' /\ ThreadAt' /\ CalmAt'
    BY <2>1 DEF HeapAt, ThreadAt, CalmAt, Linux!SafeIfCalm
  <2>6. FdsAt'
    BY <2>1, <2>3 DEF HeapAt, FdsAt, BindingFds
  <2> QED
    BY <2>1, <2>3, <2>5, <2>6
<1>3. CASE Linux!OpenQuitFd
  <2>1. pc = "quit_fd" /\ pc' \in {"timer_efd", "destroy binding"} /\ Same
    BY <1>3 DEF Linux!OpenQuitFd, Linux!Open, Linux!Heap, Linux!Histories
  <2>2. "quit_fd" \in Linux!Variables /\ "quit_fd" \notin open
    BY <2>1 DEF FdsAt, BindingFds, Linux!Variables
  <2>3. OpensOf("quit_fd")
    BY <1>3, <2>2, OpenKnown DEF Linux!OpenQuitFd
  <2>5. HeapAt' /\ ThreadAt' /\ CalmAt'
    BY <2>1 DEF HeapAt, ThreadAt, CalmAt, Linux!SafeIfCalm
  <2>6. FdsAt'
    BY <2>1, <2>3 DEF HeapAt, FdsAt, BindingFds
  <2> QED
    BY <2>1, <2>3, <2>5, <2>6
<1>4. CASE Linux!OpenEfd
  <2>1. pc = "timer_efd" /\ pc' \in {"epoll_ctl", "destroy binding"} /\ Same
    BY <1>4 DEF Linux!OpenEfd, Linux!Open, Linux!Heap, Linux!Histories
  <2>2. "timer_efd" \in Linux!Variables /\ "timer_efd" \notin open
    BY <2>1 DEF FdsAt, BindingFds, Linux!Variables
  <2>3. OpensOf("timer_efd")
    BY <1>4, <2>2, OpenKnown DEF Linux!OpenEfd
  <2>5. HeapAt' /\ ThreadAt' /\ CalmAt'
    BY <2>1 DEF HeapAt, ThreadAt, CalmAt, Linux!SafeIfCalm
  <2>6. FdsAt'
    BY <2>1, <2>3 DEF HeapAt, FdsAt, BindingFds
  <2> QED
    BY <2>1, <2>3, <2>5, <2>6
<1>5. CASE Linux!CreateEfd
  <2>1. pc = "efd" /\ pc' \in {"add", "close"} /\ Same
    BY <1>5 DEF Linux!CreateEfd, Linux!Open, Linux!Heap, Linux!Histories
  <2>2. "efd" \in Linux!Variables /\ "efd" \notin open
    BY <2>1 DEF FdsAt, BindingFds, Linux!Variables
  <2>3. OpensOf("efd")
    BY <1>5, <2>2, OpenKnown DEF Linux!CreateEfd
  <2>5. HeapAt' /\ ThreadAt' /\ CalmAt'
    BY <2>1 DEF HeapAt, ThreadAt, CalmAt, Linux!SafeIfCalm
  <2>6. FdsAt'
    BY <2>1, <2>3 DEF HeapAt, FdsAt, BindingFds
  <2> QED
    BY <2>1, <2>3, <2>5, <2>6
<1> QED
  BY <1>1, <1>2, <1>3, <1>4, <1>5

\* The other steps of the creation, and those of the loop and of the outside.
LEMMA CreationKeepsInv ==
    ASSUME LinuxInv,
           \/ Linux!SetHandlers \/ Linux!CreateBinding \/ Linux!CreateData
           \/ Linux!CreateMutex \/ Linux!AddQuitFd \/ Linux!CreateThread
           \/ Linux!CreateApplication \/ Linux!AddFds
    PROVE  LinuxInv'
<1> USE DEF LinuxInv, LinuxTypeOK, FdsKnown, HeapAt, FdsAt, ThreadAt, CalmAt,
            Linux!SafeIfCalm, Before, BindingBlocks, AllBlocks, BindingFds,
            Linux!Heap, Linux!Descriptors, Linux!Histories
<1>1. CASE Linux!SetHandlers
  BY <1>1 DEF Linux!SetHandlers, Linux!Check
<1>7. CASE Linux!AddQuitFd
  BY <1>7 DEF Linux!AddQuitFd, Linux!Check
<1>8. CASE Linux!AddFds
  BY <1>8 DEF Linux!AddFds, Linux!Check
<1>2. CASE Linux!CreateBinding
  BY <1>2 DEF Linux!CreateBinding, Linux!Alloc
<1>3. CASE Linux!CreateData
  BY <1>3 DEF Linux!CreateData, Linux!Alloc
<1>4. CASE Linux!CreateMutex
  BY <1>4 DEF Linux!CreateMutex, Linux!Alloc
<1>5. CASE Linux!CreateThread
  BY <1>5 DEF Linux!CreateThread
<1>6. CASE Linux!CreateApplication
  BY <1>6 DEF Linux!CreateApplication
<1> QED
  BY <1>1, <1>2, <1>3, <1>4, <1>5, <1>6, <1>7, <1>8

\* What the invariant is about stays, but for the end of the loop.
StaysAt(next) ==
    /\ pc' = next
    /\ fd' = fd /\ open' = open /\ live' = live /\ id' = id /\ thread' = thread
    /\ armed' = armed /\ calm' = calm /\ touched' = touched

LEMMA StayKeepsInv ==
    ASSUME LinuxInv, StaysAt(pc) \/ (pc = "loop" /\ StaysAt("close"))
    PROVE  LinuxInv'
<1> USE DEF LinuxInv, StaysAt
<1>1. LinuxTypeOK' /\ FdsKnown'
  BY DEF LinuxTypeOK, FdsKnown
<1>2. HeapAt'
  BY DEF HeapAt, AllBlocks
<1>3. FdsAt'
  BY DEF FdsAt
<1>4. ThreadAt'
  BY DEF ThreadAt, Before
<1>5. CalmAt'
  <2>1. pc' \in Before => pc \in Before
    BY DEF Before
  <2> QED
    BY <2>1 DEF CalmAt, Linux!SafeIfCalm
<1> QED
  BY <1>1, <1>2, <1>3, <1>4, <1>5

LEMMA LoopKeepsInv ==
    ASSUME LinuxInv, Linux!Loop \/ Linux!Signal \/ Linux!Typed \/ UNCHANGED linux
    PROVE  LinuxInv'
<1>1. CASE Linux!HandleEvent
  BY <1>1 DEF Linux!HandleEvent, Linux!Descriptors, Linux!Histories, LinuxInv, LinuxTypeOK,
              FdsKnown, HeapAt, FdsAt, ThreadAt, CalmAt, Linux!SafeIfCalm, Before,
              BindingBlocks, AllBlocks
<1>2. CASE Linux!HandleInput \/ Linux!Signal \/ Linux!Typed
  <2>1. StaysAt(pc)
    BY <1>2 DEF Linux!HandleInput, Linux!Signal, Linux!Typed, Linux!Heap,
                Linux!Descriptors, Linux!Histories, StaysAt
  <2> QED
    BY <2>1, StayKeepsInv
<1>3. CASE Linux!HandleQuit \/ Linux!WaitFails
  <2>1. pc = "loop" /\ StaysAt("close")
    BY <1>3 DEF Linux!HandleQuit, Linux!WaitFails, Linux!Heap, Linux!Descriptors,
                Linux!Histories, StaysAt
  <2> QED
    BY <2>1, StayKeepsInv
<1>4. CASE UNCHANGED linux
  <2>1. StaysAt(pc)
    BY <1>4 DEF linux, StaysAt
  <2> QED
    BY <2>1, StayKeepsInv
<1> QED
  BY <1>1, <1>2, <1>3, <1>4 DEF Linux!Loop

LEMMA ThreadKeepsInv ==
    ASSUME LinuxInv, Linux!Thread
    PROVE  LinuxInv'
<1> USE DEF LinuxInv
<1>1. /\ UNCHANGED <<pc, fd, open, live, id, armed, calm>>
      /\ \/ thread = "waiting" /\ armed /\ thread' = "expired" /\ touched' = touched
         \/ /\ thread = "expired" /\ thread' = "waiting"
            /\ touched' = (touched \/ ~({"timer", "application", "data"} \subseteq live))
         \/ thread = "waiting" /\ thread' = "done" /\ touched' = touched
  BY DEF Linux!Thread, Linux!Expires, Linux!Calls, Linux!Quits, Linux!Descriptors,
         Linux!Histories
<1>2. FdsKnown' /\ HeapAt' /\ FdsAt'
  BY <1>1 DEF FdsKnown, HeapAt, FdsAt
<1>3. LinuxTypeOK'
  BY <1>1 DEF LinuxTypeOK
<1>4. ThreadAt'
  BY <1>1 DEF ThreadAt, Before
<1>5. CalmAt'
  <2>1. calm /\ thread = "expired" => {"timer", "application", "data"} \subseteq live
    BY DEF CalmAt, AllBlocks, BindingBlocks
  <2>2. touched' => touched \/ ~calm
    BY <1>1, <2>1
  <2> QED
    BY <1>1, <2>2 DEF CalmAt, Linux!SafeIfCalm
<1> QED
  BY <1>2, <1>3, <1>4, <1>5

LEMMA LeavesKeepInv ==
    ASSUME LinuxInv, Linux!Leaves
    PROVE  LinuxInv'
<1> USE DEF LinuxInv, LinuxTypeOK, HeapAt, FdsAt, ThreadAt, CalmAt,
            Linux!SafeIfCalm, Before, BindingBlocks, AllBlocks, BindingFds,
            Linux!Heap, Linux!Descriptors, Linux!Histories
<1>0. BindingFds \cup {"m_quit_event_fd", "efd"} = Linux!Variables
  BY DEF Linux!Variables
<1>1. CASE Linux!CloseMain
  <2>1. open' \subseteq open /\ FdsKnown' /\ {"efd", "m_quit_event_fd"} \cap open' = {}
    BY <1>0, <1>1, CloseKnown DEF Linux!CloseMain
  <2> QED
    BY <1>1, <2>1 DEF Linux!CloseMain
<1>2. CASE Linux!DestroyQueue
  BY <1>2 DEF Linux!DestroyQueue, FdsKnown
<1>3. CASE Linux!DestroyTimer
  BY <1>3 DEF Linux!DestroyTimer, FdsKnown
<1>4. CASE Linux!TellThread
  <2>1. /\ UNCHANGED <<fd, open, live, id, thread, armed, calm, touched>>
        /\ pc = "destroy binding" /\ pc' \in {"free", "close fds", "join"}
        /\ pc' = "free" => "data" \notin live
        /\ pc' = "close fds" => id = Linux!None
    BY <1>4 DEF Linux!TellThread
  <2>2. LinuxTypeOK' /\ FdsKnown'
    BY <2>1 DEF FdsKnown
  <2>3. HeapAt' /\ FdsAt'
    BY <2>1
  <2>4. ThreadAt' /\ CalmAt'
    BY <2>1 DEF Linux!None
  <2> QED
    BY <2>2, <2>3, <2>4
<1>5. CASE Linux!Join
  BY <1>5 DEF Linux!Join, Linux!CanJoin, FdsKnown
<1>6a. {"timer_efd", "event_fd", "quit_fd"} = BindingFds
  OBVIOUS
<1>6. CASE Linux!CloseFds
  <2>1. open' \subseteq open /\ FdsKnown' /\ BindingFds \cap open' = {}
    BY <1>0, <1>6, <1>6a, CloseKnown DEF Linux!CloseFds
  <2> QED
    BY <1>6, <2>1 DEF Linux!CloseFds
<1>7. CASE Linux!Free
  BY <1>7 DEF Linux!Free, FdsKnown
<1> QED
  BY <1>1, <1>2, <1>3, <1>4, <1>5, <1>6, <1>7 DEF Linux!Leaves

LEMMA LinuxInvStep == LinuxInv /\ (Linux!Next \/ UNCHANGED linux) => LinuxInv'
  BY OpensKeepInv, CreationKeepsInv, LoopKeepsInv, ThreadKeepsInv, LeavesKeepInv
  DEF Linux!Next, Linux!Creates, Linux!Ended, Linux!vars, linux

LEMMA LinuxInvImplies == LinuxInv => Linux!NothingLeft /\ Linux!SafeIfCalm
  BY DEF LinuxInv, LinuxTypeOK, HeapAt, FdsAt, ThreadAt, CalmAt, BindingFds,
         Linux!NothingLeft, Linux!Variables

--------------------------------------------------------------------------------
(* The programs on libev, Windows and FreeRTOS *)

Parts == {"me", "data", "event_handle", "mutex", "queue", "timer", "application",
          "quit_event", "task", "loop"}

\* On the way out the queue of the application goes once, before what a callback
\* of its timer uses.
QueueOnce(s) == \A i, j \in 1 .. Len(s) : s[i] = "queue" /\ s[j] = "queue" => i = j
QueueFirst(s) == \A i, j \in 1 .. Len(s) : s[i] = "queue" /\ s[j] \in Other!Uses => i <= j

OtherTypeOK ==
    /\ platform \in {"libev", "win32", "freertos"}
    /\ phase \in {"create", "loop", "leave", "ended"}
    /\ phase = "create" => step \in 1 .. Len(Other!Creation)
    /\ back \in Seq(Parts)
    /\ started \in BOOLEAN /\ expired \in BOOLEAN /\ wasCalm \in BOOLEAN /\ used \in BOOLEAN

\* What is in use will be given back: the way out begins with all there can be.
ToBeGivenBack ==
    /\ phase \in {"create", "loop"} => inUse \subseteq ToSet(Other!Out)
    /\ phase = "leave" => back # <<>> /\ inUse \subseteq ToSet(back)
    /\ phase = "ended" => inUse = {}

\* What has been created so far is in use until the way out.
CreatedInUse ==
    /\ phase = "create" =>
          \A i \in 1 .. step - 1 : Other!Kept(Other!Creation[i]) \subseteq inUse
    /\ phase = "loop" =>
          \A i \in 1 .. Len(Other!Creation) : Other!Kept(Other!Creation[i]) \subseteq inUse

\* A callback runs, or can come, only with all it uses, unless the destruction of
\* the application has overtaken it.
OtherCalmAt ==
    /\ phase = "create" => ~started /\ ~expired
    /\ expired => platform = "win32"
    /\ phase = "leave" => QueueOnce(back)
    /\ phase = "leave" /\ (started \/ expired) => QueueFirst(back)
    /\ phase \in {"create", "loop"} \/ (phase = "leave" /\ "queue" \in ToSet(back)) => wasCalm
    /\ platform = "win32" /\ phase # "ended" /\ (started \/ expired) /\ wasCalm
          => Other!Uses \subseteq inUse
    /\ Other!SafeIfCalm

OtherInv == OtherTypeOK /\ ToBeGivenBack /\ CreatedInUse /\ OtherCalmAt

\* Joining and shortening the lists of what is given back.
LEMMA Joined ==
    ASSUME NEW S, NEW s \in Seq(S), NEW t \in Seq(S)
    PROVE  /\ s \o t \in Seq(S)
           /\ Len(s \o t) = Len(s) + Len(t)
           /\ ToSet(s \o t) = ToSet(s) \cup ToSet(t)
<1>1. /\ s \o t \in Seq(S) /\ Len(s \o t) = Len(s) + Len(t)
      /\ Len(s) \in Nat /\ Len(t) \in Nat
      /\ \A i \in 1 .. Len(s) + Len(t) :
            (s \o t)[i] = IF i <= Len(s) THEN s[i] ELSE t[i - Len(s)]
  BY ConcatProperties, LenProperties
<1>2. /\ ToSet(s) = {s[i] : i \in 1 .. Len(s)}
      /\ ToSet(t) = {t[i] : i \in 1 .. Len(t)}
      /\ ToSet(s \o t) = {(s \o t)[i] : i \in 1 .. Len(s \o t)}
  BY <1>1, LenProperties DEF ToSet
<1>3. ToSet(s \o t) \subseteq ToSet(s) \cup ToSet(t)
  BY <1>1, <1>2
<1>4. ToSet(s) \subseteq ToSet(s \o t)
  BY <1>1, <1>2
<1>5. ASSUME NEW i \in 1 .. Len(t) PROVE t[i] \in ToSet(s \o t)
  <2>1. Len(s) + i \in 1 .. Len(s \o t) /\ (s \o t)[Len(s) + i] = t[i]
    BY <1>1
  <2> QED
    BY <1>2, <2>1
<1> QED
  BY <1>1, <1>2, <1>3, <1>4, <1>5

LEMMA JoinedParts ==
    ASSUME NEW s \in Seq(Parts), NEW t \in Seq(Parts)
    PROVE  /\ s \o t \in Seq(Parts)
           /\ Len(s \o t) = Len(s) + Len(t)
           /\ ToSet(s \o t) = ToSet(s) \cup ToSet(t)
  BY Joined

LEMMA JoinedQueue ==
    ASSUME NEW s \in Seq(Parts), NEW t \in Seq(Parts)
    PROVE  /\ "queue" \notin ToSet(t) /\ QueueOnce(s) => QueueOnce(s \o t)
           /\ "queue" \notin ToSet(s) /\ QueueOnce(t) => QueueOnce(s \o t)
           /\ "queue" \notin ToSet(t) /\ QueueFirst(s) => QueueFirst(s \o t)
           /\ ToSet(s) \cap Other!Uses = {} /\ QueueFirst(t) => QueueFirst(s \o t)
<1>1. /\ Len(s \o t) = Len(s) + Len(t)
      /\ Len(s) \in Nat /\ Len(t) \in Nat
      /\ \A i \in 1 .. Len(s) + Len(t) :
            (s \o t)[i] = IF i <= Len(s) THEN s[i] ELSE t[i - Len(s)]
  BY ConcatProperties, LenProperties
<1>2. /\ \A i \in 1 .. Len(s) : s[i] \in ToSet(s)
      /\ \A i \in 1 .. Len(t) : t[i] \in ToSet(t)
  BY LenProperties DEF ToSet
<1>3. "queue" \in Other!Uses
  BY DEF Other!Uses
<1>4. ASSUME "queue" \notin ToSet(t)
      PROVE  (QueueOnce(s) => QueueOnce(s \o t)) /\ (QueueFirst(s) => QueueFirst(s \o t))
  <2>1. \A i \in 1 .. Len(s \o t) : (s \o t)[i] = "queue" => i \in 1 .. Len(s) /\ s[i] = "queue"
    BY <1>1, <1>2, <1>4
  <2>2. QueueOnce(s) => QueueOnce(s \o t)
    BY <2>1 DEF QueueOnce
  <2>3. QueueFirst(s) => QueueFirst(s \o t)
    BY <1>1, <2>1 DEF QueueFirst
  <2> QED
    BY <2>2, <2>3
<1>5. ASSUME NEW i \in 1 .. Len(s \o t)
      PROVE  \/ i \in 1 .. Len(s) /\ (s \o t)[i] \in ToSet(s)
             \/ i - Len(s) \in 1 .. Len(t) /\ (s \o t)[i] = t[i - Len(s)]
  <2>1. CASE i <= Len(s)
    BY <1>1, <1>2, <2>1
  <2>2. CASE ~(i <= Len(s))
    BY <1>1, <2>2
  <2> QED
    BY <2>1, <2>2
<1>6. ASSUME "queue" \notin ToSet(s), QueueOnce(t) PROVE QueueOnce(s \o t)
  <2>1. SUFFICES ASSUME NEW i \in 1 .. Len(s \o t), NEW j \in 1 .. Len(s \o t),
                        (s \o t)[i] = "queue", (s \o t)[j] = "queue"
                 PROVE  i = j
    BY DEF QueueOnce
  <2>2. /\ i - Len(s) \in 1 .. Len(t) /\ t[i - Len(s)] = "queue"
        /\ j - Len(s) \in 1 .. Len(t) /\ t[j - Len(s)] = "queue"
    BY <1>5, <1>6, <2>1
  <2>3. i - Len(s) = j - Len(s)
    BY <1>6, <2>2 DEF QueueOnce
  <2> QED
    BY <1>1, <2>3
<1>7. ASSUME ToSet(s) \cap Other!Uses = {}, QueueFirst(t) PROVE QueueFirst(s \o t)
  <2>1. SUFFICES ASSUME NEW i \in 1 .. Len(s \o t), NEW j \in 1 .. Len(s \o t),
                        (s \o t)[i] = "queue", (s \o t)[j] \in Other!Uses
                 PROVE  i <= j
    BY DEF QueueFirst
  <2>2. i - Len(s) \in 1 .. Len(t) /\ t[i - Len(s)] = "queue"
    BY <1>3, <1>5, <1>7, <2>1
  <2>3. j - Len(s) \in 1 .. Len(t) /\ t[j - Len(s)] \in Other!Uses
    BY <1>5, <1>7, <2>1
  <2>4. i - Len(s) <= j - Len(s)
    BY <1>7, <2>2, <2>3 DEF QueueFirst
  <2> QED
    BY <1>1, <2>4
<1> QED
  BY <1>4, <1>6, <1>7

LEMMA EmptySet ==
    ASSUME NEW s \in Seq(Parts)
    PROVE  ToSet(s) # {} <=> s # <<>>
<1>1. Len(s) \in Nat /\ ToSet(s) = {s[i] : i \in 1 .. Len(s)}
  BY LenProperties DEF ToSet
<1>2. Len(s) = 0 <=> s = <<>>
  BY EmptySeq
<1> QED
  BY <1>1, <1>2

LEMMA JoinedOnce ==
    ASSUME NEW s \in Seq(Parts), NEW t \in Seq(Parts), NEW u \in Seq(Parts)
    PROVE  (s \o t) \o u = s \o (t \o u)
  BY ConcatAssociative

LEMMA Backwards ==
    \A a, b, c : /\ Other!Reverse(<<a, b>>) = <<b, a>>
                 /\ Other!Reverse(<<a, b, c>>) = <<c, b, a>>
  BY DEF Other!Reverse

LEMMA OneToSet == \A s : Other!ToSet(s) = ToSet(s)
  BY DEF Other!ToSet, ToSet

LEMMA ShortenedParts ==
    ASSUME NEW s \in Seq(Parts), s # <<>>
    PROVE  /\ Tail(s) \in Seq(Parts)
           /\ ToSet(s) \ {Head(s)} \subseteq ToSet(Tail(s))
           /\ ToSet(Tail(s)) \subseteq ToSet(s)
           /\ Len(s) = 1 => ToSet(s) = {Head(s)}
           /\ Len(s) # 1 => Tail(s) # <<>>
           /\ QueueOnce(s) => QueueOnce(Tail(s))
           /\ QueueFirst(s) => QueueFirst(Tail(s))
           /\ QueueOnce(s) /\ Head(s) = "queue" => "queue" \notin ToSet(Tail(s))
           /\ QueueFirst(s) /\ "queue" \in ToSet(s) /\ Head(s) # "queue"
                 => Head(s) \notin Other!Uses
<1>1. /\ Tail(s) \in Seq(Parts) /\ Len(s) \in Nat /\ Len(s) > 0 /\ Len(Tail(s)) = Len(s) - 1
      /\ Head(s) = s[1]
      /\ \A i \in 1 .. Len(s) - 1 : Tail(s)[i] = s[i + 1]
  BY HeadTailProperties, LenProperties, EmptySeq
<1>2. /\ ToSet(s) = {s[i] : i \in 1 .. Len(s)}
      /\ ToSet(Tail(s)) = {Tail(s)[i] : i \in 1 .. Len(Tail(s))}
  BY <1>1, LenProperties DEF ToSet
<1>3. ASSUME NEW i \in 1 .. Len(s), i # 1 PROVE s[i] \in ToSet(Tail(s))
  <2>1. i - 1 \in 1 .. Len(Tail(s)) /\ Tail(s)[i - 1] = s[i]
    BY <1>1, <1>3
  <2> QED
    BY <1>2, <2>1
<1>4. ToSet(s) \ {Head(s)} \subseteq ToSet(Tail(s))
  BY <1>1, <1>2, <1>3
<1>5. ToSet(Tail(s)) \subseteq ToSet(s)
  BY <1>1, <1>2
<1>6. /\ Len(s) = 1 => ToSet(s) = {Head(s)}
      /\ Len(s) # 1 => Tail(s) # <<>>
  BY <1>1, <1>2, EmptySeq
<1>7. (QueueOnce(s) => QueueOnce(Tail(s))) /\ (QueueFirst(s) => QueueFirst(Tail(s)))
  BY <1>1 DEF QueueOnce, QueueFirst
<1>8. QueueOnce(s) /\ Head(s) = "queue" => "queue" \notin ToSet(Tail(s))
  BY <1>1, <1>2 DEF QueueOnce
<1>9. QueueFirst(s) /\ "queue" \in ToSet(s) /\ Head(s) # "queue" => Head(s) \notin Other!Uses
  BY <1>1, <1>2 DEF QueueFirst
<1> QED
  BY <1>1, <1>4, <1>5, <1>6, <1>7, <1>8, <1>9

\* The way out of each platform.
LEMMA WayOut ==
    ASSUME platform \in {"libev", "win32", "freertos"}
    PROVE  /\ Other!Out \in Seq(Parts) /\ QueueOnce(Other!Out) /\ QueueFirst(Other!Out)
           /\ Other!Out # <<>> /\ "queue" \in ToSet(Other!Out)
           /\ {"queue", "timer", "application"} \subseteq ToSet(Other!Out)
           /\ ToSet(Other!BindingParts) \subseteq ToSet(Other!Out)
           /\ platform = "win32" => "quit_event" \in ToSet(Other!Out)
           /\ platform = "freertos" => "task" \in ToSet(Other!Out)
           /\ Other!BindingDestroy \in Seq(Parts)
           /\ ToSet(Other!BindingDestroy) = ToSet(Other!BindingParts)
           /\ "queue" \notin ToSet(Other!BindingDestroy)
<1> DEFINE A == Other!ApplicationDestroy
           B == Other!BindingDestroy
<1>1. /\ A \in Seq(Parts) /\ ToSet(A) = {"queue", "timer", "application"}
      /\ QueueOnce(A) /\ QueueFirst(A)
  <2>1. A = <<"queue", "timer", "application">>
    BY DEF Other!ApplicationDestroy
  <2>2. A \in Seq(Parts) /\ Len(A) = 3 /\ A[1] = "queue" /\ A[2] = "timer" /\ A[3] = "application"
    BY <2>1 DEF Parts
  <2>3. ToSet(A) = {"queue", "timer", "application"}
    BY <2>1 DEF ToSet
  <2> QED
    BY <2>2, <2>3 DEF QueueOnce, QueueFirst, Other!Uses
<1>2. /\ B \in Seq(Parts) /\ ToSet(B) = ToSet(Other!BindingParts)
      /\ "queue" \notin ToSet(B)
  <2>1. CASE platform = "libev"
    <3>1. Other!BindingParts = <<"me", "data">>
      BY <2>1 DEF Other!BindingParts, Other!LibevBinding
    <3>2. B = <<"data", "me">>
      BY <3>1, Backwards DEF Other!BindingDestroy
    <3>3. ToSet(B) = {"me", "data"} /\ ToSet(Other!BindingParts) = {"me", "data"}
      BY <3>1, <3>2 DEF ToSet
    <3> QED
      BY <3>2, <3>3 DEF Parts
  <2>2. CASE platform = "win32"
    <3>1. Other!BindingParts = <<"me", "data", "event_handle">>
      BY <2>2 DEF Other!BindingParts, Other!Win32Binding
    <3>2. B = <<"event_handle", "data", "me">>
      BY <3>1, Backwards DEF Other!BindingDestroy
    <3>3. /\ ToSet(B) = {"me", "data", "event_handle"}
          /\ ToSet(Other!BindingParts) = {"me", "data", "event_handle"}
      BY <3>1, <3>2 DEF ToSet
    <3> QED
      BY <3>2, <3>3 DEF Parts
  <2>3. CASE platform = "freertos"
    <3>1. Other!BindingParts = <<"me", "data", "mutex">>
      BY <2>3 DEF Other!BindingParts, Other!FreertosBinding
    <3>2. B = <<"mutex", "data", "me">>
      BY <3>1, Backwards DEF Other!BindingDestroy
    <3>3. /\ ToSet(B) = {"me", "data", "mutex"}
          /\ ToSet(Other!BindingParts) = {"me", "data", "mutex"}
      BY <3>1, <3>2 DEF ToSet
    <3> QED
      BY <3>2, <3>3 DEF Parts
  <2> QED
    BY <2>1, <2>2, <2>3
<1>3. /\ A \o B \in Seq(Parts) /\ ToSet(A \o B) = ToSet(A) \cup ToSet(B)
      /\ QueueOnce(A \o B) /\ QueueFirst(A \o B)
  BY <1>1, <1>2, JoinedParts, JoinedQueue
<1>4. \A x \in Parts : <<x>> \in Seq(Parts) /\ ToSet(<<x>>) = {x}
  BY DEF ToSet
<1>5. CASE platform = "libev"
  <2>1. Other!Out = (A \o B) \o <<"loop">>
    BY <1>5 DEF Other!Out, Other!LibevOut
  <2>2. /\ <<"loop">> \in Seq(Parts) /\ ToSet(<<"loop">>) = {"loop"}
    BY <1>4 DEF Parts
  <2>3. /\ Other!Out \in Seq(Parts) /\ QueueOnce(Other!Out) /\ QueueFirst(Other!Out)
        /\ ToSet(Other!Out) = ToSet(A \o B) \cup {"loop"}
    <3> HIDE DEF A, B
    <3> QED
      BY <1>3, <2>1, <2>2, JoinedParts, JoinedQueue
  <2> QED
    BY <1>1, <1>2, <1>3, <1>5, <2>3, EmptySet
<1>6. CASE platform = "win32"
  <2>1. Other!Out = <<"quit_event">> \o (A \o B)
    BY <1>6, <1>1, <1>2, JoinedOnce DEF Other!Out, Other!Win32Out
  <2>2. /\ <<"quit_event">> \in Seq(Parts) /\ ToSet(<<"quit_event">>) = {"quit_event"}
    BY <1>4 DEF Parts
  <2>3. /\ Other!Out \in Seq(Parts) /\ QueueOnce(Other!Out) /\ QueueFirst(Other!Out)
        /\ ToSet(Other!Out) = ToSet(A \o B) \cup {"quit_event"}
    <3>1. ToSet(<<"quit_event">>) \cap Other!Uses = {} /\ "queue" \notin ToSet(<<"quit_event">>)
      BY <2>2 DEF Other!Uses
    <3> DEFINE C == <<"quit_event">>
               D == A \o B
    <3>2. /\ C \in Seq(Parts) /\ D \in Seq(Parts) /\ QueueOnce(D) /\ QueueFirst(D)
          /\ ToSet(C) \cap Other!Uses = {} /\ "queue" \notin ToSet(C)
          /\ ToSet(C) = {"quit_event"} /\ Other!Out = C \o D
      BY <1>3, <2>1, <2>2, <3>1
    <3> HIDE DEF C, D
    <3>3. QueueOnce(C \o D) /\ QueueFirst(C \o D)
      BY <3>2, JoinedQueue
    <3>4. C \o D \in Seq(Parts) /\ ToSet(C \o D) = ToSet(C) \cup ToSet(D)
      BY <3>2, JoinedParts
    <3>5. Other!Out \in Seq(Parts) /\ QueueOnce(Other!Out) /\ QueueFirst(Other!Out)
      BY <3>2, <3>3, <3>4
    <3>6. ToSet(Other!Out) = ToSet(D) \cup {"quit_event"}
      BY <3>2, <3>4
    <3> QED
      BY <3>5, <3>6 DEF D
  <2> QED
    BY <1>1, <1>2, <1>3, <1>6, <2>3, EmptySet
<1>7. CASE platform = "freertos"
  <2>1. Other!Out = (A \o B) \o <<"task">>
    BY <1>7 DEF Other!Out, Other!FreertosOut
  <2>2. /\ <<"task">> \in Seq(Parts) /\ ToSet(<<"task">>) = {"task"}
    BY <1>4 DEF Parts
  <2>3. /\ Other!Out \in Seq(Parts) /\ QueueOnce(Other!Out) /\ QueueFirst(Other!Out)
        /\ ToSet(Other!Out) = ToSet(A \o B) \cup {"task"}
    <3> HIDE DEF A, B
    <3> QED
      BY <1>3, <2>1, <2>2, JoinedParts, JoinedQueue
  <2> QED
    BY <1>1, <1>2, <1>3, <1>7, <2>3, EmptySet
<1> QED
  BY <1>5, <1>6, <1>7

\* Everything that is created will be given back; on Windows it is all that a
\* callback of the timer uses.
LEMMA AllCreated ==
    ASSUME platform \in {"libev", "win32", "freertos"}
    PROVE  /\ Len(Other!Creation) \in Nat \ {0}
           /\ \A i \in 1 .. Len(Other!Creation) :
                 Other!Kept(Other!Creation[i]) \subseteq ToSet(Other!Out)
           /\ platform = "win32" =>
                 Other!Uses \subseteq
                    UNION {Other!Kept(Other!Creation[i]) : i \in 1 .. Len(Other!Creation)}
<1> DEFINE C == Other!Creation
           K(x) == Other!Kept(x)
           S == Parts \cup {"watchers", "ctrl_handler", "scheduler"}
<1>1. Other!ToSet(Other!ApplicationDestroy) = {"queue", "timer", "application"}
  BY DEF Other!ToSet, Other!ApplicationDestroy
<1>2. /\ K("application") = {"queue", "timer", "application"}
      /\ \A x \in {"watchers", "ctrl_handler", "scheduler"} : K(x) = {}
      /\ \A x \in {"me", "data", "event_handle", "mutex", "quit_event", "task"} : K(x) = {x}
  BY <1>1 DEF Other!Kept
<1>3. ASSUME C \in Seq(S), ToSet(C) # {}
      PROVE  /\ Len(C) \in Nat \ {0} /\ \A i \in 1 .. Len(C) : C[i] \in ToSet(C)
             /\ UNION {K(x) : x \in ToSet(C)} = UNION {K(C[i]) : i \in 1 .. Len(C)}
  <2> HIDE DEF K, C, S
  <2>1. Len(C) \in Nat /\ ToSet(C) = {C[i] : i \in 1 .. Len(C)}
    BY <1>3, LenProperties DEF ToSet
  <2> QED
    BY <1>3, <2>1
<1>4. CASE platform = "libev"
  <2>1. /\ C \in Seq(S) /\ ToSet(C) = {"me", "data", "application", "watchers"}
    <3> DEFINE s == <<"me", "data">>
               t == <<"application", "watchers">>
    <3>1. s \in Seq(S) /\ t \in Seq(S)
      BY DEF Parts
    <3>2. ToSet(s) = {"me", "data"} /\ ToSet(t) = {"application", "watchers"}
      BY DEF ToSet
    <3>3. C = s \o t
      BY <1>4 DEF Other!Creation, Other!LibevMain, Other!LibevBinding
    <3> HIDE DEF s, t, S
    <3> QED
      BY <3>1, <3>2, <3>3, Joined
  <2>2. ToSet(Other!BindingParts) = {"me", "data"}
    BY <1>4 DEF Other!BindingParts, Other!LibevBinding, ToSet
  <2>3. \A x \in ToSet(C) : K(x) \subseteq ToSet(Other!Out)
    BY <1>2, <1>4, <2>1, <2>2, WayOut
  <2> HIDE DEF K, C, S
  <2> QED
    BY <1>3, <1>4, <2>1, <2>3 DEF K, C
<1>5. CASE platform = "win32"
  <2>1. /\ C \in Seq(S)
        /\ ToSet(C) = {"quit_event", "ctrl_handler", "me", "data", "event_handle", "application"}
    <3> DEFINE s == <<"quit_event", "ctrl_handler">>
               t == <<"me", "data", "event_handle">>
               u == <<"application">>
    <3>1. s \in Seq(S) /\ t \in Seq(S) /\ u \in Seq(S)
      BY DEF Parts
    <3>2. /\ ToSet(s) = {"quit_event", "ctrl_handler"} /\ ToSet(u) = {"application"}
          /\ ToSet(t) = {"me", "data", "event_handle"}
      BY DEF ToSet
    <3>3. C = (s \o t) \o u \/ C = s \o (t \o u)
      BY <1>5 DEF Other!Creation, Other!Win32Main, Other!Win32Binding
    <3> HIDE DEF s, t, u, S
    <3>4. /\ s \o t \in Seq(S) /\ ToSet(s \o t) = ToSet(s) \cup ToSet(t)
          /\ t \o u \in Seq(S) /\ ToSet(t \o u) = ToSet(t) \cup ToSet(u)
      BY <3>1, Joined
    <3>5. /\ (s \o t) \o u \in Seq(S) /\ ToSet((s \o t) \o u) = ToSet(s \o t) \cup ToSet(u)
          /\ s \o (t \o u) \in Seq(S) /\ ToSet(s \o (t \o u)) = ToSet(s) \cup ToSet(t \o u)
      <4> DEFINE v == s \o t
                 w == t \o u
      <4>1. v \in Seq(S) /\ w \in Seq(S)
        BY <3>4
      <4> HIDE DEF v, w
      <4>2. v \o u \in Seq(S) /\ ToSet(v \o u) = ToSet(v) \cup ToSet(u)
        BY <3>1, <4>1, Joined
      <4>3. s \o w \in Seq(S) /\ ToSet(s \o w) = ToSet(s) \cup ToSet(w)
        BY <3>1, <4>1, Joined
      <4> QED
        BY <4>2, <4>3 DEF v, w
    <3> QED
      BY <3>2, <3>3, <3>4, <3>5
  <2>2. ToSet(Other!BindingParts) = {"me", "data", "event_handle"}
    BY <1>5 DEF Other!BindingParts, Other!Win32Binding, ToSet
  <2>3. \A x \in ToSet(C) : K(x) \subseteq ToSet(Other!Out)
    BY <1>2, <1>5, <2>1, <2>2, WayOut
  <2>4. Other!Uses \subseteq K("me") \cup K("data") \cup K("event_handle") \cup K("application")
    BY <1>2 DEF Other!Uses
  <2> HIDE DEF K, C, S
  <2>5. Other!Uses \subseteq UNION {K(x) : x \in ToSet(C)}
    BY <2>1, <2>4
  <2> QED
    BY <1>3, <1>5, <2>1, <2>3, <2>5 DEF K, C
<1>6. CASE platform = "freertos"
  <2>1. /\ C \in Seq(S)
        /\ ToSet(C) = {"task", "me", "data", "mutex", "application", "scheduler"}
    <3> DEFINE s == <<"task">>
               t == <<"me", "data", "mutex">>
               u == <<"application", "scheduler">>
    <3>1. s \in Seq(S) /\ t \in Seq(S) /\ u \in Seq(S)
      BY DEF Parts
    <3>2. /\ ToSet(s) = {"task"} /\ ToSet(u) = {"application", "scheduler"}
          /\ ToSet(t) = {"me", "data", "mutex"}
      BY DEF ToSet
    <3>3. C = (s \o t) \o u \/ C = s \o (t \o u)
      BY <1>6 DEF Other!Creation, Other!FreertosMain, Other!FreertosBinding
    <3> HIDE DEF s, t, u, S
    <3>4. /\ s \o t \in Seq(S) /\ ToSet(s \o t) = ToSet(s) \cup ToSet(t)
          /\ t \o u \in Seq(S) /\ ToSet(t \o u) = ToSet(t) \cup ToSet(u)
      BY <3>1, Joined
    <3>5. /\ (s \o t) \o u \in Seq(S) /\ ToSet((s \o t) \o u) = ToSet(s \o t) \cup ToSet(u)
          /\ s \o (t \o u) \in Seq(S) /\ ToSet(s \o (t \o u)) = ToSet(s) \cup ToSet(t \o u)
      <4> DEFINE v == s \o t
                 w == t \o u
      <4>1. v \in Seq(S) /\ w \in Seq(S)
        BY <3>4
      <4> HIDE DEF v, w
      <4>2. v \o u \in Seq(S) /\ ToSet(v \o u) = ToSet(v) \cup ToSet(u)
        BY <3>1, <4>1, Joined
      <4>3. s \o w \in Seq(S) /\ ToSet(s \o w) = ToSet(s) \cup ToSet(w)
        BY <3>1, <4>1, Joined
      <4> QED
        BY <4>2, <4>3 DEF v, w
    <3> QED
      BY <3>2, <3>3, <3>4, <3>5
  <2>2. ToSet(Other!BindingParts) = {"me", "data", "mutex"}
    BY <1>6 DEF Other!BindingParts, Other!FreertosBinding, ToSet
  <2>3. \A x \in ToSet(C) : K(x) \subseteq ToSet(Other!Out)
    BY <1>2, <1>6, <2>1, <2>2, WayOut
  <2> HIDE DEF K, C, S
  <2> QED
    BY <1>3, <1>6, <2>1, <2>3 DEF K, C
<1> QED
  BY <1>4, <1>5, <1>6

\* The order of the creation and of the way out is the platform's.
LEMMA SamePlatform ==
    ASSUME platform' = platform
    PROVE  Other!Out' = Other!Out /\ Other!Creation' = Other!Creation
  BY DEF Other!Out, Other!LibevOut, Other!Win32Out, Other!FreertosOut, Other!ApplicationDestroy,
         Other!BindingDestroy, Other!BindingParts, Other!LibevBinding, Other!Win32Binding,
         Other!FreertosBinding, Other!Creation, Other!LibevMain, Other!Win32Main,
         Other!FreertosMain, Other!Reverse

LEMMA OtherInvInit == Other!Init => OtherInv
<1> SUFFICES ASSUME Other!Init PROVE OtherInv
  OBVIOUS
<1>1. OtherTypeOK
  <2>1. /\ platform \in {"libev", "win32", "freertos"} /\ step = 1 /\ phase = "create"
        /\ back = <<>> /\ started = FALSE /\ expired = FALSE /\ wasCalm = TRUE /\ used = FALSE
    BY DEF Other!Init
  <2>2. back \in Seq(Parts)
    BY <2>1, EmptySeq
  <2>3. Len(Other!Creation) \in Nat \ {0}
    BY <2>1, AllCreated
  <2>4. 1 \in 1 .. Len(Other!Creation)
    BY <2>3
  <2> QED
    BY <2>1, <2>2, <2>4 DEF OtherTypeOK
<1>2. ToBeGivenBack /\ CreatedInUse
  BY DEF Other!Init, ToBeGivenBack, CreatedInUse
<1>3. OtherCalmAt
  BY DEF Other!Init, OtherCalmAt, Other!SafeIfCalm
<1> QED
  BY <1>1, <1>2, <1>3 DEF OtherInv

\* One call of the creation.
LEMMA CreateKeepsInv == OtherInv /\ Other!Create => OtherInv'
<1> SUFFICES ASSUME OtherInv, Other!Create PROVE OtherInv'
  OBVIOUS
<1>1. /\ platform \in {"libev", "win32", "freertos"} /\ platform' = platform
      /\ Other!Out' = Other!Out /\ Other!Creation' = Other!Creation
  BY SamePlatform DEF OtherInv, OtherTypeOK, Other!Create
<1>2. /\ phase = "create" /\ step \in 1 .. Len(Other!Creation) /\ step' = step + 1
      /\ inUse' = inUse \cup Other!Kept(Other!Creation[step])
      /\ phase' = IF step = Len(Other!Creation) THEN "loop" ELSE phase
      /\ Len(Other!Creation) \in Nat \ {0}
  BY <1>1, AllCreated DEF OtherInv, OtherTypeOK, Other!Create
<1>3. OtherTypeOK'
  BY <1>1, <1>2 DEF OtherInv, OtherTypeOK, Other!Create, Other!Timer, Other!Histories
<1>4. ToBeGivenBack'
  BY <1>1, <1>2, AllCreated DEF OtherInv, ToBeGivenBack
<1>5. \A i \in 1 .. step : Other!Kept(Other!Creation[i]) \subseteq inUse'
  BY <1>2 DEF OtherInv, CreatedInUse
<1>6. CreatedInUse'
  BY <1>1, <1>2, <1>5 DEF CreatedInUse
<1>7. OtherCalmAt'
  BY <1>1, <1>2 DEF OtherInv, OtherCalmAt, Other!Create, Other!Timer, Other!Histories,
                    Other!SafeIfCalm
<1> QED
  BY <1>3, <1>4, <1>6, <1>7 DEF OtherInv

\* A call of the creation fails, and main leaves.
LEMMA FailureKeepsInv == OtherInv /\ Other!CreateFails => OtherInv'
<1> SUFFICES ASSUME OtherInv, Other!CreateFails PROVE OtherInv'
  OBVIOUS
<1>1. /\ platform \in {"libev", "win32", "freertos"} /\ platform' = platform
      /\ Other!Out' = Other!Out /\ Other!Creation' = Other!Creation
  BY SamePlatform DEF OtherInv, OtherTypeOK, Other!CreateFails
<1> DEFINE B == Other!BindingDestroy
           O == Other!Out
<1>2. /\ B \in Seq(Parts) /\ "queue" \notin ToSet(B)
      /\ O \in Seq(Parts) /\ O # <<>> /\ QueueOnce(O) /\ "queue" \in ToSet(O)
  BY <1>1, WayOut
<1>3. /\ phase = "create" /\ phase' = "leave" /\ inUse' = inUse /\ inUse \subseteq ToSet(O)
      /\ back' = B \o O \/ back' = <<>> \o O
  BY DEF OtherInv, ToBeGivenBack, Other!CreateFails
<1> HIDE DEF B, O
<1>4. <<>> \o O = O
  BY <1>2, ConcatEmptySeq
<1>5. /\ B \o O \in Seq(Parts) /\ ToSet(B \o O) = ToSet(B) \cup ToSet(O)
      /\ QueueOnce(B \o O)
  BY <1>2, JoinedParts, JoinedQueue
<1>6. B \o O # <<>>
  <2> DEFINE s == B \o O
  <2>1. s \in Seq(Parts) /\ ToSet(s) # {}
    BY <1>2, <1>5
  <2> HIDE DEF s
  <2>2. s # <<>>
    BY <2>1, EmptySet
  <2> QED
    BY <2>2 DEF s
<1>7. /\ back' \in Seq(Parts) /\ back' # <<>> /\ QueueOnce(back') /\ inUse' \subseteq ToSet(back')
  BY <1>2, <1>3, <1>4, <1>5, <1>6
<1>8. OtherTypeOK'
  BY <1>1, <1>3, <1>7 DEF OtherInv, OtherTypeOK, Other!CreateFails, Other!Timer, Other!Histories
<1>9. ToBeGivenBack' /\ CreatedInUse'
  BY <1>3, <1>7 DEF ToBeGivenBack, CreatedInUse
<1>10. QueueOnce(back)'
  BY <1>7 DEF QueueOnce
<1>11. OtherCalmAt'
  BY <1>1, <1>3, <1>10 DEF OtherInv, OtherCalmAt, Other!CreateFails, Other!Timer, Other!Histories,
                   Other!SafeIfCalm
<1> QED
  BY <1>8, <1>9, <1>11 DEF OtherInv

\* The loop, the failure to wait, and the callback of the timer of Windows.
LEMMA OtherLoopKeepsInv ==
    OtherInv /\ (Other!HandleEvent \/ Other!WaitFails \/ Other!Expires \/ Other!Calls) => OtherInv'
<1> SUFFICES ASSUME OtherInv,
                    Other!HandleEvent \/ Other!WaitFails \/ Other!Expires \/ Other!Calls
             PROVE  OtherInv'
  OBVIOUS
<1> USE DEF Other!HandleEvent, Other!WaitFails, Other!Expires, Other!Calls, Other!Timer,
            Other!Histories
<1>1. /\ platform \in {"libev", "win32", "freertos"} /\ platform' = platform
      /\ phase' = phase /\ step' = step /\ back' = back /\ inUse' = inUse
      /\ wasCalm' = wasCalm
  BY DEF OtherInv, OtherTypeOK
<1>2. Other!Out' = Other!Out /\ Other!Creation' = Other!Creation
  BY <1>1, SamePlatform
<1>3. OtherTypeOK'
  BY <1>1, <1>2 DEF OtherInv, OtherTypeOK, Other!Runs
<1>4. ToBeGivenBack' /\ CreatedInUse'
  BY <1>1, <1>2 DEF OtherInv, ToBeGivenBack, CreatedInUse
<1>5. ASSUME platform = "win32", phase = "loop" PROVE Other!Uses \subseteq inUse
  BY <1>5, AllCreated DEF OtherInv, CreatedInUse
<1>6. (QueueOnce(back)' <=> QueueOnce(back)) /\ (QueueFirst(back)' <=> QueueFirst(back))
  BY <1>1 DEF QueueOnce, QueueFirst, Other!Uses
<1>7. Other!Uses' = Other!Uses
  BY DEF Other!Uses
<1>8. /\ phase = "create" => ~started /\ ~expired
      /\ expired => platform = "win32"
      /\ phase = "leave" => QueueOnce(back)
      /\ phase = "leave" /\ (started \/ expired) => QueueFirst(back)
      /\ phase \in {"create", "loop"} \/ (phase = "leave" /\ "queue" \in ToSet(back)) => wasCalm
      /\ platform = "win32" /\ phase # "ended" /\ (started \/ expired) /\ wasCalm
            => Other!Uses \subseteq inUse
      /\ used => ~wasCalm
  BY DEF OtherInv, OtherCalmAt, Other!SafeIfCalm
<1>9. \/ phase = "loop" /\ expired' = expired /\ used' = used
      \/ /\ platform = "win32" /\ started /\ phase # "ended" /\ phase # "create"
         /\ started' = started /\ used' = used
      \/ /\ expired /\ phase # "ended" /\ ~expired' /\ started' = started
         /\ used' = (used \/ ~(Other!Uses \subseteq inUse))
  <2>1. CASE Other!HandleEvent \/ Other!WaitFails
    BY <2>1
  <2>2. CASE Other!Expires
    BY <1>8, <2>2 DEF Other!Runs
  <2>3. CASE Other!Calls
    BY <2>3
  <2> QED
    BY <2>1, <2>2, <2>3
<1>10. /\ phase' = "create" => ~started' /\ ~expired'
       /\ expired' => platform' = "win32"
       /\ phase' = "leave" /\ (started' \/ expired') => QueueFirst(back)
       /\ platform' = "win32" /\ phase' # "ended" /\ (started' \/ expired') /\ wasCalm'
             => Other!Uses \subseteq inUse
       /\ used' => ~wasCalm'
  <2>1. CASE phase = "loop" /\ expired' = expired /\ used' = used
    BY <1>1, <1>5, <1>8, <2>1
  <2>2. CASE /\ platform = "win32" /\ started /\ phase # "ended" /\ phase # "create"
             /\ started' = started /\ used' = used
    BY <1>1, <1>8, <2>2
  <2>3. CASE /\ expired /\ phase # "ended" /\ ~expired' /\ started' = started
             /\ used' = (used \/ ~(Other!Uses \subseteq inUse))
    BY <1>1, <1>8, <2>3
  <2> QED
    BY <1>9, <2>1, <2>2, <2>3
<1>11. OtherCalmAt'
  BY <1>1, <1>6, <1>7, <1>8, <1>10 DEF OtherCalmAt, Other!SafeIfCalm
<1> QED
  BY <1>3, <1>4, <1>11 DEF OtherInv

\* The loop ends.
LEMMA QuitKeepsInv == OtherInv /\ Other!Quit => OtherInv'
<1> SUFFICES ASSUME OtherInv, Other!Quit PROVE OtherInv'
  OBVIOUS
<1> USE DEF Other!Quit, Other!Leaves, Other!Timer, Other!Histories
<1>1. /\ platform \in {"libev", "win32", "freertos"} /\ platform' = platform
      /\ Other!Out' = Other!Out /\ Other!Creation' = Other!Creation
  BY SamePlatform DEF OtherInv, OtherTypeOK
<1>2. /\ phase = "loop" /\ phase' = "leave" /\ back' = Other!Out /\ inUse' = inUse
      /\ Other!Out \in Seq(Parts) /\ Other!Out # <<>> /\ inUse \subseteq ToSet(Other!Out)
  BY <1>1, WayOut DEF OtherInv, ToBeGivenBack
<1>3. QueueOnce(back)' /\ QueueFirst(back)'
  BY <1>1, <1>2, WayOut DEF QueueOnce, QueueFirst, Other!Uses
<1>4. OtherTypeOK'
  BY <1>1, <1>2 DEF OtherInv, OtherTypeOK
<1>5. ToBeGivenBack' /\ CreatedInUse'
  BY <1>1, <1>2 DEF ToBeGivenBack, CreatedInUse
<1>6. OtherCalmAt'
  BY <1>1, <1>2, <1>3 DEF OtherInv, OtherCalmAt, Other!SafeIfCalm, Other!Uses
<1> QED
  BY <1>4, <1>5, <1>6 DEF OtherInv

\* One block or handle is given back.
LEMMA LeaveKeepsInv == OtherInv /\ Other!Leave => OtherInv'
<1> SUFFICES ASSUME OtherInv, Other!Leave PROVE OtherInv'
  OBVIOUS
<1> DEFINE x == Head(back)
           t == Tail(back)
<1>1. /\ platform \in {"libev", "win32", "freertos"} /\ platform' = platform
      /\ Other!Out' = Other!Out /\ Other!Creation' = Other!Creation
  BY SamePlatform DEF OtherInv, OtherTypeOK, Other!Leave
<1>2. /\ phase = "leave" /\ inUse' = inUse \ {x} /\ started' = (started /\ x # "timer")
      /\ wasCalm' = (IF x = "queue" THEN ~started /\ ~expired ELSE wasCalm)
      /\ back' = t /\ phase' = (IF Len(back) = 1 THEN "ended" ELSE phase)
      /\ step' = step /\ expired' = expired /\ used' = used
  BY DEF Other!Leave
<1>3. /\ back \in Seq(Parts) /\ back # <<>> /\ inUse \subseteq ToSet(back) /\ QueueOnce(back)
      /\ started \in BOOLEAN /\ expired \in BOOLEAN /\ wasCalm \in BOOLEAN /\ used \in BOOLEAN
      /\ expired => platform = "win32"
      /\ started \/ expired => QueueFirst(back)
      /\ "queue" \in ToSet(back) => wasCalm
      /\ platform = "win32" /\ (started \/ expired) /\ wasCalm => Other!Uses \subseteq inUse
      /\ used => ~wasCalm
  BY <1>2 DEF OtherInv, OtherTypeOK, ToBeGivenBack, OtherCalmAt, Other!SafeIfCalm
<1>4. /\ t \in Seq(Parts)
      /\ ToSet(back) \ {x} \subseteq ToSet(t)
      /\ ToSet(t) \subseteq ToSet(back)
      /\ Len(back) = 1 => ToSet(back) = {x}
      /\ Len(back) # 1 => t # <<>>
      /\ QueueOnce(back) => QueueOnce(t)
      /\ QueueFirst(back) => QueueFirst(t)
      /\ QueueOnce(back) /\ x = "queue" => "queue" \notin ToSet(t)
      /\ QueueFirst(back) /\ "queue" \in ToSet(back) /\ x # "queue" => x \notin Other!Uses
  BY <1>3, ShortenedParts
<1> HIDE DEF x, t
<1>5. OtherTypeOK'
  BY <1>1, <1>2, <1>3, <1>4 DEF OtherTypeOK
<1>6. ToBeGivenBack' /\ CreatedInUse'
  BY <1>2, <1>3, <1>4 DEF ToBeGivenBack, CreatedInUse
<1>7. (QueueOnce(back)' <=> QueueOnce(t)) /\ (QueueFirst(back)' <=> QueueFirst(t))
  BY <1>2 DEF QueueOnce, QueueFirst, Other!Uses
<1>8. x = "queue" => "queue" \in ToSet(back)
  <2>1. x \in ToSet(back)
    BY <1>3, HeadTailProperties, EmptySeq, LenProperties DEF x, ToSet
  <2> QED
    BY <2>1
<1>9. "queue" \in Other!Uses /\ Other!Uses' = Other!Uses
  BY DEF Other!Uses
<1>10. ASSUME platform = "win32", started' \/ expired', wasCalm' PROVE Other!Uses \subseteq inUse'
  <2>1. x # "queue"
    BY <1>2, <1>3, <1>10
  <2>2. Other!Uses \subseteq inUse /\ QueueFirst(back)
    BY <1>2, <1>3, <1>10, <2>1
  <2>3. "queue" \in ToSet(back)
    BY <1>3, <1>9, <2>2
  <2> QED
    BY <1>2, <1>4, <2>1, <2>2, <2>3
<1>11. Other!SafeIfCalm'
  BY <1>2, <1>3, <1>8 DEF Other!SafeIfCalm
<1>12. /\ "queue" \in ToSet(t) => wasCalm'
       /\ QueueOnce(t) /\ (started' \/ expired' => QueueFirst(t))
  BY <1>2, <1>3, <1>4
<1>13. OtherCalmAt'
  BY <1>1, <1>2, <1>3, <1>7, <1>9, <1>10, <1>11, <1>12 DEF OtherCalmAt
<1> QED
  BY <1>5, <1>6, <1>13 DEF OtherInv

LEMMA OtherStayKeepsInv == OtherInv /\ UNCHANGED other => OtherInv'
<1> SUFFICES ASSUME OtherInv, UNCHANGED other PROVE OtherInv'
  OBVIOUS
<1>1. /\ platform' = platform /\ phase' = phase /\ step' = step /\ back' = back
      /\ inUse' = inUse /\ started' = started /\ expired' = expired /\ wasCalm' = wasCalm
      /\ used' = used
  BY DEF other
<1>2. Other!Out' = Other!Out /\ Other!Creation' = Other!Creation
  BY <1>1, SamePlatform
<1>3. OtherTypeOK'
  BY <1>1, <1>2 DEF OtherInv, OtherTypeOK
<1>4. ToBeGivenBack' /\ CreatedInUse'
  BY <1>1, <1>2 DEF OtherInv, ToBeGivenBack, CreatedInUse
<1>5. OtherCalmAt'
  BY <1>1 DEF OtherInv, OtherCalmAt, Other!SafeIfCalm, QueueOnce, QueueFirst, Other!Uses
<1> QED
  BY <1>3, <1>4, <1>5 DEF OtherInv

LEMMA OtherInvStep == OtherInv /\ (Other!Next \/ UNCHANGED other) => OtherInv'
<1>1. Other!Ended => UNCHANGED other
  BY DEF Other!Ended, Other!vars, other
<1> QED
  BY <1>1, CreateKeepsInv, FailureKeepsInv, OtherLoopKeepsInv, QuitKeepsInv, LeaveKeepsInv,
     OtherStayKeepsInv DEF Other!Next

LEMMA OtherInvImplies == OtherInv => Other!NothingLeft /\ Other!SafeIfCalm
  BY DEF OtherInv, ToBeGivenBack, OtherCalmAt, Other!NothingLeft

--------------------------------------------------------------------------------
(* The programs together *)

ProgramsInv == LinuxInv /\ OtherInv

LEMMA ProgramsInvStep == ProgramsInv /\ [MCNext]_all => ProgramsInv'
<1> SUFFICES ASSUME ProgramsInv, [MCNext]_all PROVE ProgramsInv'
  OBVIOUS
<1>1. /\ Linux!Next \/ UNCHANGED linux
      /\ Other!Next \/ UNCHANGED other
  <2>1. CASE InDispatch(Next)
    BY <2>1 DEF InDispatch
  <2>2. CASE InCountdown(Count!CountNext)
    BY <2>2 DEF InCountdown
  <2>3. CASE InLinux(Linux!Next)
    BY <2>3 DEF InLinux
  <2>4. CASE InOther(Other!Next)
    BY <2>4 DEF InOther
  <2>5. CASE UNCHANGED all
    BY <2>5 DEF all
  <2> QED
    BY <2>1, <2>2, <2>3, <2>4, <2>5 DEF MCNext
<1> QED
  BY <1>1, LinuxInvStep, OtherInvStep DEF ProgramsInv

LEMMA ProgramsInvariance == MCSpec => []ProgramsInv
<1>1. MCInit => ProgramsInv
  BY LinuxInvInit, OtherInvInit DEF MCInit, ProgramsInv
<1> QED
  BY <1>1, ProgramsInvStep, PTL DEF MCSpec

\* On every platform, whichever call of the creation fails and whenever the loop
\* ends: main has given back every block, handle and descriptor it took, and has
\* joined the thread it started (main, create and destroy of the bindings).
THEOREM NothingIsLeft == MCSpec => []NothingLeft
<1>1. ProgramsInv => NothingLeft
  BY LinuxInvImplies, OtherInvImplies DEF ProgramsInv, NothingLeft
<1> QED
  BY <1>1, ProgramsInvariance, PTL

\* A thread in the callback of a timer has all it uses while the application is
\* destroyed, unless the timer ran, or had just expired, when that began
\* (vivid_destroy_sm, destroy_timer of the bindings).
THEOREM SafeWhenCalm == MCSpec => []SafeIfCalm
<1>1. ProgramsInv => SafeIfCalm
  BY LinuxInvImplies, OtherInvImplies DEF ProgramsInv, SafeIfCalm
<1> QED
  BY <1>1, ProgramsInvariance, PTL
================================================================================
