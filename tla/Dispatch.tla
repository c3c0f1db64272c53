--------------------------------- MODULE Dispatch ---------------------------------
(***************************************************************************)
(* The dispatch example: callers whose machines request something of one   *)
(* callee and wait for its answer, over and over.  The machines share an   *)
(* event loop, which serves them one event at a time; requests go through  *)
(* a queue of the callee, answers come back as events with a parameter.    *)
(***************************************************************************)
EXTENDS Naturals, FiniteSets, SequencesExt

CONSTANTS
    Caller,         \* caller_a and caller_b of application.c
    DispatchSize,   \* places in dispatch_queue
    EventSize,      \* places in the event queue of a machine
    FooBound,       \* bound: foo is counted modulo this
    Repeats         \* the timers of the binding expire again and again

ASSUME CallerAssumption == IsFiniteSet(Caller) /\ Cardinality(Caller) <= DispatchSize
ASSUME SizeAssumption == DispatchSize \in Nat \ {0} /\ EventSize \in Nat \ {0}
ASSUME FooAssumption == FooBound \in Nat \ {0}
ASSUME RepeatsAssumption == Repeats \in BOOLEAN

VARIABLES
    begun,          \* the callers that have entered waiting
    foo,            \* caller -> foo
    answers,        \* caller -> the ev_response events in its queue: their bar
    state,          \* of the callee
    events,         \* in the event queue of the callee
    dispatchQueue,  \* the requests: [from, foo]
    due,            \* the second that started with the entry of processing is over
    aborted         \* a queue was full: the error hook has ended the program

vars == <<begun, foo, answers, state, events, dispatchQueue, due, aborted>>

Request == [from : Caller, foo : 0..FooBound - 1]

Init ==
    /\ begun = {} /\ foo = [c \in Caller |-> 0]
    /\ answers = [c \in Caller |-> <<>>]
    /\ state = "idle" /\ events = <<>> /\ dispatchQueue = <<>>
    /\ due = FALSE /\ aborted = FALSE
--------------------------------------------------------------------------------
(* The callers *)

HasRoom(q, size) == Len(q) < size

\* callee_dispatch: a request for which there is no place is dropped, the event
\* is queued in any case.  An event for which there is none ends the program.
\* The function is called with the events that are left in the queue.
CalleeDispatch(c, n, left) ==
    /\ dispatchQueue' = IF HasRoom(dispatchQueue, DispatchSize)
                        THEN Append(dispatchQueue, [from |-> c, foo |-> n])
                        ELSE dispatchQueue
    /\ IF HasRoom(left, EventSize)
       THEN events' = Append(left, "ev_dispatch") /\ UNCHANGED aborted
       ELSE events' = left /\ aborted' = TRUE

\* The first event of a machine enters it: the action of the default of root is
\* a request.
CallerBegins(c) ==
    /\ c \notin begun
    /\ begun' = begun \cup {c}
    /\ CalleeDispatch(c, foo[c], events)
    /\ UNCHANGED <<foo, answers, state, due>>

\* Wrong: the next request is made up before the answer is processed.
RequestFirst(c) == CalleeDispatch(c, foo[c], events)
NextRequest(c) == CalleeDispatch(c, foo'[c], events)

\* waiting: process(me, param); request(me);
CallerResponds(c) ==
    /\ answers[c] # <<>>
    /\ answers' = [answers EXCEPT ![c] = Tail(@)]
    /\ foo' = [foo EXCEPT ![c] = (@ + 1) % FooBound]
    /\ NextRequest(c)
    /\ UNCHANGED <<begun, state, due>>
--------------------------------------------------------------------------------
(* The callee *)

\* Wrong: the latest request is answered, and the oldest taken out.
Latest(q) == q[Len(q)]
Oldest(q) == Head(q)
Pop(q) == Tail(q)

\* process: the answer is an event of the caller, with its own place in a queue.
Process ==
    LET request == Oldest(dispatchQueue) IN
    /\ IF HasRoom(answers[request.from], EventSize)
       THEN /\ answers' = [answers EXCEPT ![request.from] = Append(@, request.foo * 2)]
            /\ UNCHANGED aborted
       ELSE aborted' = TRUE /\ UNCHANGED answers
    /\ dispatchQueue' = Pop(dispatchQueue)

\* cond_empty, and the entry of the state it jumps to: the timer starts anew.
CondEmpty ==
    IF dispatchQueue = <<>>
    THEN state' = "idle" /\ UNCHANGED <<answers, dispatchQueue, aborted, due>>
    ELSE state' = "processing" /\ due' = FALSE /\ Process

AfterProcessing == CondEmpty

\* What is not awaited in the state is taken out of the queue without effect; so
\* is a timeout of an earlier stay, unless the time of this one is over as well.
Dispatched ==
    /\ Head(events) = "ev_dispatch"
    /\ IF state = "idle" THEN CondEmpty
       ELSE UNCHANGED <<state, answers, dispatchQueue, aborted, due>>
TimedOut ==
    /\ Head(events) = "tm_process"
    /\ IF state = "processing" /\ due THEN AfterProcessing
       ELSE UNCHANGED <<state, answers, dispatchQueue, aborted, due>>

CalleeServed ==
    /\ events # <<>>
    /\ events' = Tail(events)
    /\ Dispatched \/ TimedOut
    /\ UNCHANGED <<begun, foo>>

\* The thread of the timers.  A repeating timer expires again until it is stopped.
Expires == state = "processing" /\ (~due \/ Repeats)
TimerCallback ==
    /\ Expires
    /\ due' = TRUE
    /\ IF HasRoom(events, EventSize)
       THEN events' = Append(events, "tm_process") /\ UNCHANGED aborted
       ELSE aborted' = TRUE /\ UNCHANGED events
    /\ UNCHANGED <<begun, foo, answers, state, dispatchQueue>>
--------------------------------------------------------------------------------
Caller1(c) == ~aborted /\ (CallerBegins(c) \/ CallerResponds(c))
Callee == ~aborted /\ CalleeServed
Timer == ~aborted /\ TimerCallback
Aborted == aborted /\ UNCHANGED vars

Next == (\E c \in Caller : Caller1(c)) \/ Callee \/ Timer \/ Aborted
Spec == Init /\ [][Next]_vars

\* The loop serves every machine that has events (EventService, which EventLoop
\* implements), and a timer that runs expires.
FairSpec ==
    Spec /\ WF_vars(Callee) /\ WF_vars(Timer) /\ \A c \in Caller : WF_vars(Caller1(c))
--------------------------------------------------------------------------------
(* Properties *)

TypeOK ==
    /\ begun \subseteq Caller
    /\ foo \in [Caller -> 0..FooBound - 1]
    /\ answers \in [Caller -> Seq(Nat)]
    /\ state \in {"idle", "processing"}
    /\ events \in Seq({"ev_dispatch", "tm_process"}) /\ Len(events) <= EventSize
    /\ dispatchQueue \in Seq(Request) /\ Len(dispatchQueue) <= DispatchSize
    /\ due \in BOOLEAN /\ aborted \in BOOLEAN

Requests(c) == {i \in 1..Len(dispatchQueue) : dispatchQueue[i].from = c}

\* A caller that waits waits for something: exactly one request of it is in the
\* queue of the callee, or one answer is on its way.  No request is ever lost for
\* want of a place, and none is answered twice.
OneOutstanding ==
    \A c \in Caller :
        Cardinality(Requests(c)) + Len(answers[c]) = IF c \in begun THEN 1 ELSE 0

\* A caller is given the answer to its own request, however the requests of the
\* others come in between (callback and app of callee_request_t).
RightAnswer ==
    \A c \in Caller :
        /\ answers[c] # <<>> => Head(answers[c]) = 2 * foo[c]
        /\ \A i \in Requests(c) : dispatchQueue[i].foo = foo[c]

\* Every caller that waits is given one answer, its own: what a caller of
\* callee_dispatch relies on.
EachAnswered == OneOutstanding /\ RightAnswer

\* Every caller that waits is answered again and again, unless the event queue of the callee
\* overflows with timeouts, which ends the program.
Served == \A c \in Caller : \A n \in 0..FooBound - 1 :
             c \in begun /\ foo[c] = n ~> foo[c] # n \/ aborted
================================================================================
