-------------------------------- MODULE VividSm --------------------------------
(***************************************************************************)
(* The engine of vivid_sm.c: one call of event_callback, which enters the  *)
(* initial states, takes one event, walks the tree with it, makes the      *)
(* transitions the clauses ask for, runs the jumps that follow and pops    *)
(* the event.                                                              *)
(*                                                                         *)
(* The walks are C recursion.  Here the call stack is data: todo lists the *)
(* calls still to be made, innermost first, and a step takes the first and *)
(* puts the calls its body makes in its place.  Other threads queue events *)
(* and timers expire between any two steps, and vivid_is_in may be called  *)
(* between any two steps.                                                  *)
(***************************************************************************)
EXTENDS StateTree, Integers

CONSTANT QueueSize      \* event_queue_size

ASSUME QueueSizeAssumption == QueueSize \in Nat \ {0}

VARIABLES
    todo,        \* the calls to make before event_callback returns
    state,       \* node->state, the current sub-state, or NoNode
    init,        \* me->init
    jump,        \* me->jump
    stateChange, \* me->transition.state_change
    queue,       \* me->event_queue
    trig,        \* the binding event is triggered: event_callback will be called
    armed,       \* timer->active
    running,     \* the binding's timer is started
    due,         \* the clock has reached timer->due_time
    fired,       \* the binding is about to call timer_callback
    stays,       \* (history) node -> calls with entry, less calls with exit
    heard,       \* (history) the nodes this walk has called with its event
    fresh,       \* (history) the nodes entered since this walk began
    notified     \* (history) the states that were in at the last callback

engine == <<state, init, jump, stateChange, queue, trig, armed, running, due,
            fired>>
history == <<stays, heard, fresh, notified>>
vars == <<todo, engine, history>>

\* The states that are in: entered and not left.
active == {n \in Node : stays[n] > 0}

\* The states proper, without the pseudo-states and the regions.
Real == {n \in Node : NodeType[n] \in {"state", "final"}}

\* Who enters t by default enters m.
ByDefault(t, m) ==
    /\ t \in Upward[m]
    /\ \A x \in Upward[m] \ {t} :
          t \in Upward[x] => Region(x) \/ DefaultChild[parent[x]] = x
--------------------------------------------------------------------------------
(* The calls *)

CallEntry(n) == [op |-> "entry", node |-> n]
CallExit(n) == [op |-> "exit", node |-> n]
\* Wrong: the default sub-states are not entered.
EntryDownShallow(n, except) == CallEntry(n)
EntryDown(n, except) == [op |-> "entry_down", node |-> n, except |-> except]
EntryUp(n, ancestor, branch, enter) ==
    [op |-> "entry_up", node |-> n, ancestor |-> ancestor, branch |-> branch,
     flag |-> enter]
ExitDown(n, except) == [op |-> "exit_down", node |-> n, except |-> except]
ExitUp(n, ancestor, branch, exit) ==
    [op |-> "exit_up", node |-> n, ancestor |-> ancestor, branch |-> branch,
     flag |-> exit]
SetState(n, value) == [op |-> "set_state", node |-> n, value |-> value]
\* walk_event, and the part of it that follows the current sub-state.
WalkEvent(n, e, last) == [op |-> "event", node |-> n, event |-> e, last |-> last]
WalkState(n, e, last) == [op |-> "descend", node |-> n, event |-> e, last |-> last]
\* The end of vivid_transit with the action, and the end of the transition.
Leave == [op |-> "leave"]
Arrive(source, target) == [op |-> "arrive", source |-> source, node |-> target]
RunJumps(last) == [op |-> "jump", last |-> last]
Take == [op |-> "take"]
PopEvent == [op |-> "pop"]
Retrigger == [op |-> "retrigger"]

\* The calls that are made only under a condition.
When(cond, calls) == IF cond THEN calls ELSE <<>>

\* The first call returns, having made these.
Becomes(calls) == todo' = calls \o Tail(todo)

Calling(op) == todo # <<>> /\ Head(todo).op = op
call == Head(todo)

Init ==
    /\ todo = <<>>
    /\ state = [n \in Node |-> NoNode]
    /\ init = TRUE /\ trig = TRUE
    /\ jump = FALSE /\ stateChange = FALSE
    /\ queue = <<>>
    /\ armed = [t \in Timer |-> FALSE]
    /\ running = [t \in Timer |-> FALSE]
    /\ due = [t \in Timer |-> FALSE]
    /\ fired = [t \in Timer |-> FALSE]
    /\ stays = [n \in Node |-> 0]
    /\ heard = {} /\ fresh = {}
    \* No callback tells the application of the states that it starts in.
    /\ notified = {n \in Real : ByDefault(Root, n)}
--------------------------------------------------------------------------------
(* Entering and leaving: walk_entry_down, walk_entry_up, walk_exit_down,   *)
(* walk_exit_up.  The node pointers that are fixed after creation are read *)
(* at once; node->state is read where the C code reads it.                 *)

WalkEntryDown ==
    /\ Calling("entry_down")
    /\ LET n == call.node  default == DefaultChild[n] IN
       Becomes(When(n # call.except,
                      <<CallEntry(n)>>
                   \o When(default # NoNode,
                           <<SetState(n, default), EntryDown(default, NoNode)>>)
                   \o When(Parallel(n), <<EntryDown(children[n], NoNode)>>))
            \o When(NextRegion(n) # NoNode,
                    <<EntryDown(NextRegion(n), call.except)>>))
    /\ UNCHANGED <<engine, history>>

WalkEntryUp ==
    /\ Calling("entry_up")
    /\ LET n == call.node IN
       Becomes(When(n # Root /\ n # call.ancestor,
                    <<EntryUp(parent[n], call.ancestor, n, call.flag)>>)
            \o IF call.branch = NoNode THEN <<EntryDown(n, NoNode)>>
               ELSE <<SetState(n, call.branch)>>
                 \o When(n # call.ancestor \/ call.flag, <<CallEntry(n)>>)
                 \o When(Parallel(n), <<EntryDown(children[n], call.branch)>>))
    /\ UNCHANGED <<engine, history>>

WalkExitDown ==
    /\ Calling("exit_down")
    /\ LET n == call.node IN
       Becomes(When(n # call.except,
                      When(state[n] # NoNode,
                           <<ExitDown(state[n], NoNode), SetState(n, NoNode)>>)
                   \o When(Parallel(n), <<ExitDown(children[n], NoNode)>>)
                   \o <<CallExit(n)>>)
            \o When(NextRegion(n) # NoNode,
                    <<ExitDown(NextRegion(n), call.except)>>))
    /\ UNCHANGED <<engine, history>>

WalkExitUp ==
    /\ Calling("exit_up")
    /\ LET n == call.node IN
       Becomes(When(call.branch = NoNode /\ state[n] # NoNode,
                    <<ExitDown(state[n], NoNode)>>)
            \o When(Parallel(n), <<ExitDown(children[n], call.branch)>>)
            \o <<SetState(n, NoNode)>>
            \o When(n # call.ancestor \/ call.flag, <<CallExit(n)>>)
            \o When(n # Root /\ n # call.ancestor,
                    <<ExitUp(parent[n], call.ancestor, n, call.flag)>>))
    /\ UNCHANGED <<engine, history>>

\* Wrong: NULL is not stored.
AssignedNeverClears(n, value) ==
    IF value = NoNode THEN state ELSE [state EXCEPT ![n] = value]
Assigned(n, value) == [state EXCEPT ![n] = value]

\* Wrong: final states are forgotten.
CountsNotFinal(value) == value # NoNode /\ NodeType[value] = "state"
\* "Ignore pseudo-state changes", and those of regions.
Counts(value) == value \in Real

\* set_state
AssignState ==
    /\ Calling("set_state")
    /\ state' = Assigned(call.node, call.value)
    /\ stateChange' = (stateChange \/ Counts(call.value))
    /\ Becomes(<<>>)
    /\ UNCHANGED <<init, jump, queue, trig, armed, running, due, fired, history>>

(***************************************************************************)
(* vivid_call_node with "entry": every ON_TIMEOUT of the node starts its   *)
(* timer, and a JUMP asks for a jump walk.                                 *)
(***************************************************************************)
RunEntry ==
    /\ Calling("entry")
    /\ LET started == TimersOf(call.node) IN
       /\ armed' = [t \in Timer |-> t \in started \/ armed[t]]
       /\ running' = [t \in Timer |-> t \in started \/ running[t]]
       /\ due' = [t \in Timer |-> t \notin started /\ due[t]]
    /\ jump' = (jump \/ HasJump(call.node))
    /\ stays' = [stays EXCEPT ![call.node] = @ + 1]
    /\ fresh' = fresh \cup {call.node}
    /\ Becomes(<<>>)
    /\ UNCHANGED <<state, init, stateChange, queue, trig, fired, heard, notified>>

\* Wrong: a timer whose timeout was answered is left running.
StoppedIfActive(n) == {t \in TimersOf(n) : armed[t]}
Stopped(n) == TimersOf(n)

\* vivid_call_node with "exit": every ON_TIMEOUT of the node stops its timer.
RunExit ==
    /\ Calling("exit")
    /\ LET stopped == Stopped(call.node) IN
       /\ armed' = [t \in Timer |-> t \notin stopped /\ armed[t]]
       /\ running' = [t \in Timer |-> t \notin stopped /\ running[t]]
       /\ due' = [t \in Timer |-> t \notin stopped /\ due[t]]
    /\ stays' = [stays EXCEPT ![call.node] = @ - 1]
    /\ Becomes(<<>>)
    /\ UNCHANGED <<state, init, jump, stateChange, queue, trig, fired, heard,
                   fresh, notified>>
--------------------------------------------------------------------------------
(* walk_event *)

(***************************************************************************)
(* The clauses of n that vivid_on_event, vivid_on_timeout or vivid_jump    *)
(* answer true for.  A timeout counts only while its timer is active and   *)
(* due; a jump with a parameter only after the event that carries it.      *)
(***************************************************************************)
Matching(n, e, last) ==
    {i \in DOMAIN Clauses[n] :
        /\ Clauses[n][i].on = e
        /\ e \in Timer => armed[e] /\ due[e]
        /\ e = Jump => Clauses[n][i].param \in {NoEvent, last}}

\* The first of them whose guard is true returns from the state function.
Taken(n, e, last) ==
    {i \in Matching(n, e, last) :
        \A j \in Matching(n, e, last) : j < i => Clauses[n][j].app}

\* A timeout that is answered is spent, even if its guard is false.
SpendTimeout(n, e, last) ==
    armed' = [t \in Timer |->
                armed[t] /\ ~(t = e /\ Matching(n, e, last) # {})]

\* Wrong: forgets the transition to a state around the source.
ReenterSource(n, target, ancestor) == ancestor = n
Reenter(n, target, ancestor) == ancestor = n \/ ancestor = target

(***************************************************************************)
(* vivid_transit: the way up from the source is left at once, the way down *)
(* to the target is entered when the state function has returned.          *)
(***************************************************************************)
Transit(n, target) ==
    LET ancestor == Ancestor(n, target)
        reenter == Reenter(n, target, ancestor)
    IN  Becomes(<<ExitUp(n, ancestor, NoNode, reenter), Leave,
                  EntryUp(target, ancestor, NoNode, reenter), Arrive(n, target)>>)

MakeTransition ==
    /\ Calling("event")
    /\ \E i \in Taken(call.node, call.event, call.last) :
          /\ Clauses[call.node][i].target # NoNode
          /\ Transit(call.node, Clauses[call.node][i].target)
    /\ SpendTimeout(call.node, call.event, call.last)
    /\ heard' = heard \cup {call.node}
    /\ UNCHANGED <<state, init, jump, stateChange, queue, trig, running, due,
                   fired, stays, fresh, notified>>

\* Wrong: the regions beside are left out.
OthersFirstRegion(n, e, last) ==
    When(Parallel(n), <<WalkEvent(children[n], e, last)>>) \o <<WalkState(n, e, last)>>
Others(n, e, last) ==
       When(Parallel(n), <<WalkEvent(children[n], e, last)>>)
    \o When(NextRegion(n) # NoNode, <<WalkEvent(NextRegion(n), e, last)>>)
    \o <<WalkState(n, e, last)>>

\* No clause is taken, or one without a target: the event goes on to the
\* regions inside, to the regions beside, and to the current sub-state.
PassOn ==
    /\ Calling("event")
    /\ \/ \A i \in Matching(call.node, call.event, call.last) :
             Clauses[call.node][i].app
       \/ \E i \in Taken(call.node, call.event, call.last) :
             Clauses[call.node][i].target = NoNode
    /\ Becomes(Others(call.node, call.event, call.last))
    /\ SpendTimeout(call.node, call.event, call.last)
    /\ heard' = heard \cup {call.node}
    /\ UNCHANGED <<state, init, jump, stateChange, queue, trig, running, due,
                   fired, stays, fresh, notified>>

Descend ==
    /\ Calling("descend")
    /\ Becomes(When(state[call.node] # NoNode,
                    <<WalkEvent(state[call.node], call.event, call.last)>>))
    /\ UNCHANGED <<engine, history>>

LeaveDone ==
    /\ Calling("leave")
    /\ stateChange' = FALSE
    /\ Becomes(<<>>)
    /\ UNCHANGED <<state, init, jump, queue, trig, armed, running, due, fired,
                   history>>

\* state_change_callback tells the application that the states have changed.
ArriveDone ==
    /\ Calling("arrive")
    /\ notified' = IF stateChange THEN active \cap Real ELSE notified
    /\ Becomes(<<>>)
    /\ UNCHANGED <<engine, stays, heard, fresh>>
--------------------------------------------------------------------------------
(* event_callback and jump *)

InitialWalk == <<EntryDown(Root, NoNode), RunJumps(NoEvent)>>

EventCallback ==
    /\ todo = <<>>
    /\ trig
    /\ trig' = FALSE
    /\ init' = FALSE
    /\ todo' = When(init, InitialWalk) \o <<Take>>
    /\ UNCHANGED <<state, jump, stateChange, queue, armed, running, due, fired,
                   history>>

\* vivid_queue_empty, and vivid_queue_front when there is an event.
TakeEvent ==
    /\ Calling("take")
    /\ Becomes(When(queue # <<>>,
                    <<WalkEvent(Root, Head(queue), NoEvent), RunJumps(Head(queue)),
                      PopEvent, Retrigger>>))
    /\ heard' = {} /\ fresh' = {}
    /\ UNCHANGED <<engine, stays, notified>>

JumpAgain ==
    /\ Calling("jump")
    /\ jump
    /\ jump' = FALSE
    /\ todo' = <<WalkEvent(Root, Jump, call.last)>> \o todo
    /\ heard' = {} /\ fresh' = {}
    /\ UNCHANGED <<state, init, stateChange, queue, trig, armed, running, due,
                   fired, stays, notified>>

JumpsDone ==
    /\ Calling("jump")
    /\ ~jump
    /\ Becomes(<<>>)
    /\ heard' = {} /\ fresh' = {}
    /\ UNCHANGED <<engine, stays, notified>>

Pop ==
    /\ Calling("pop")
    /\ queue' = Tail(queue)
    /\ Becomes(<<>>)
    /\ UNCHANGED <<state, init, jump, stateChange, trig, armed, running, due, fired,
                   history>>

\* Wrong: off by one.
SeveralEvents == Len(queue) > 1
MoreEvents == queue # <<>>

TriggerAgain ==
    /\ Calling("retrigger")
    /\ trig' = (trig \/ MoreEvents)
    /\ Becomes(<<>>)
    /\ UNCHANGED <<state, init, jump, stateChange, queue, armed, running, due, fired,
                   history>>
--------------------------------------------------------------------------------
(* The rest of the program *)

Room == Len(queue) < QueueSize

\* vivid_queue_event: what finds the queue full is reported and dropped.
Queued(e) ==
    /\ queue' = IF Room THEN Append(queue, e) ELSE queue
    /\ trig' = (trig \/ Room)

QueueEvent(e) ==
    /\ Queued(e)
    /\ UNCHANGED <<todo, state, init, jump, stateChange, armed, running, due, fired,
                   history>>

TimeComes(t) ==
    /\ running[t] /\ ~due[t]
    /\ due' = [due EXCEPT ![t] = TRUE]
    /\ UNCHANGED <<todo, state, init, jump, stateChange, queue, trig, armed, running,
                   fired, history>>

\* The timer goes off, in the thread that serves the timers; where timers are
\* periodic it does so again until it is stopped.
TimerFires(t) ==
    /\ running[t] /\ due[t] /\ ~fired[t]
    /\ fired' = [fired EXCEPT ![t] = TRUE]
    /\ UNCHANGED <<todo, state, init, jump, stateChange, queue, trig, armed, running,
                   due, history>>

\* That thread calls timer_callback, whatever became of the timer meanwhile.
TimerCallback(t) ==
    /\ fired[t]
    /\ fired' = [fired EXCEPT ![t] = FALSE]
    /\ Queued(t)
    /\ UNCHANGED <<todo, state, init, jump, stateChange, armed, running, due, history>>

Engine ==
    \/ WalkEntryDown \/ WalkEntryUp \/ WalkExitDown \/ WalkExitUp \/ AssignState
    \/ RunEntry \/ RunExit
    \/ MakeTransition \/ PassOn \/ Descend \/ LeaveDone \/ ArriveDone
    \/ EventCallback \/ TakeEvent \/ JumpAgain \/ JumpsDone \/ Pop \/ TriggerAgain

Environment ==
    \/ \E e \in Event : QueueEvent(e)
    \/ \E t \in Timer : TimeComes(t) \/ TimerFires(t) \/ TimerCallback(t)

Next == Engine \/ Environment

Spec == Init /\ [][Next]_vars

\* The event loop calls event_callback when triggered, and the callback runs on.
FairSpec == Spec /\ WF_vars(Engine)
--------------------------------------------------------------------------------
\* event_callback has returned at least once and is not running.
Resting == todo = <<>> /\ ~init

\* vivid_is_in, from any thread.
IsIn(n) == n = Root \/ state[parent[n]] = n

Config == INSTANCE StateConfig

\* Where the clauses of n lead.
Targets(n) == {Clauses[n][i].target : i \in DOMAIN Clauses[n]} \ {NoNode}

(***************************************************************************)
(* The transitions the engine carries out as drawn: none to a region, none *)
(* into a region from outside of it, and none out of a region that is      *)
(* itself divided while regions beside it still wait for the event.  The   *)
(* library accepts others, and MCRegionTarget shows what becomes of one.   *)
(***************************************************************************)
Supported ==
    /\ \A n \in Node : \A t \in Targets(n) :
          /\ ~Region(t)
          /\ \A r \in Upward[t] : Region(r) => r \in Upward[n]
    /\ \A r \in Node : Region(r) /\ Parallel(r) /\ NextRegion(r) # NoNode =>
          \A n \in Node \ {r} : r \in Upward[n] =>
             \A t \in Targets(n) : r \in Upward[t]

(***************************************************************************)
(* Every condition and junction leads on: each of its jumps has a target,  *)
(* and one of them neither a guard nor a parameter, as diagrams demand.    *)
(***************************************************************************)
Pseudo(n) == NodeType[n] \in {"condition", "junction"}

LeadsOn ==
    \A n \in Node : Pseudo(n) =>
       LET jumps == {i \in DOMAIN Clauses[n] : Clauses[n][i].on = Jump}
       IN  /\ \A i \in jumps : Clauses[n][i].target # NoNode
           /\ \E i \in jumps : ~Clauses[n][i].app /\ Clauses[n][i].param = NoEvent

(***************************************************************************)
(* No transition out of a region leads back into the state it divides, be  *)
(* it by default: the regions still to have their turn with the event      *)
(* would be offered it although it led to them.                            *)
(***************************************************************************)
NoWayBack ==
    \A n \in Node : \A t \in Targets(n) : \A r \in Upward[n] :
       Region(r) => ~ByDefault(t, parent[r])

(***************************************************************************)
(* No region has a transition into itself, while regions beside it wait:   *)
(* walk_event returns with it, without having gone on to them.             *)
(***************************************************************************)
NoneCutShort ==
    \A r \in Node : Region(r) /\ NextRegion(r) # NoNode =>
       \A t \in Targets(r) : r \notin Upward[t]

(***************************************************************************)
(* Entry code runs from the outside in and exit code from the inside out,  *)
(* each once per stay, whatever the source and the target: the calls that  *)
(* the four walks make, in the order in which they make them.              *)
(***************************************************************************)
ImplementsConfig == Config!Spec

(***************************************************************************)
(* When event_callback returns, the machine is in a leaf everywhere: every *)
(* state that is in has a sub-state in, every region of a parallel state   *)
(* is in, and no condition or junction is, as the jumps have run until a   *)
(* state proper was reached (in trees in which each of them has a clause   *)
(* without a guard, as diagrams demand).                                   *)
(***************************************************************************)
CompleteAtRest ==
    Resting => /\ Config!Complete
               /\ \A n \in active : ~Pseudo(n)

(***************************************************************************)
(* At the end of a transition its target is in, and the machine is already *)
(* complete: the state change callback never sees it half way.             *)
(***************************************************************************)
TransitionLands == Calling("arrive") => call.node \in active /\ Config!Complete

(***************************************************************************)
(* Both: whenever the application is told of a change or the handler       *)
(* returns, the machine is somewhere as a whole.                           *)
(***************************************************************************)
CompleteWhenSeen == CompleteAtRest /\ TransitionLands

(***************************************************************************)
(* A transition leaves and enters nothing above or beside the deepest      *)
(* state around both its ends, and that state itself only if it is one of  *)
(* the ends (the climb and reenter_ancestor in vivid_transit).             *)
(***************************************************************************)
MovesBelowAncestor ==
    [][\A m \in Node, i \in DOMAIN todo :
          stays'[m] # stays[m] /\ todo[i].op = "arrive" =>
             LET ends == {todo[i].source, todo[i].node}
                 common == Upward[todo[i].source] \cap Upward[todo[i].node]
             IN  common \subseteq Upward[m] /\ (m \in common => m \in ends)]_vars

(***************************************************************************)
(* vivid_is_in agrees with the entry and exit code when the machine rests. *)
(* Regions are left out: their parent's state pointer is not theirs.       *)
(***************************************************************************)
IsInAgrees == Resting => \A n \in Node : ~Region(n) => (IsIn(n) <=> n \in active)

(***************************************************************************)
(* The application is told of every change: between events, the states     *)
(* that are in are the ones it saw at the last callback.                   *)
(***************************************************************************)
ChangesNotified == Resting => notified = active \cap Real

(***************************************************************************)
(* One event is offered to a state once, and only to states that were in   *)
(* when the walk began: a state entered by a transition does not see the   *)
(* event that led to it (walk_event reads node->state after the callee).   *)
(***************************************************************************)
OfferedOnce ==
    Calling("event") =>
        call.node \in active /\ call.node \notin heard \cup fresh

(***************************************************************************)
(* No state misses an event: at the end of a walk, the states that are in  *)
(* and were not entered by it have been offered the event, in every region.*)
(***************************************************************************)
OfferedToAll ==
    Calling("jump") /\ heard # {} => active \ fresh \subseteq heard

\* A state that is not in has no timer running, one that is in at rest has.
TimersFollowStates ==
    Resting => \A n \in Node : \A t \in TimersOf(n) : running[t] <=> n \in active

\* An event in the queue is handled and popped: triggers are never lost.
EventsServed == queue # <<>> ~> Calling("pop")
================================================================================
