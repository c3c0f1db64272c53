# Verification of the Vivid state machine library

TLA+ specifications of the core of this repository, the TLC configurations that
check them, and TLAPS proofs. Source paths are relative to the repository's
root as `src/...`; the library's own sources are therefore under `src/src/`.

## 1. Inventory

An application declares states as C functions made of macros (`VIVID_SUB_STATE`,
`VIVID_ON_EVENT`, `VIVID_ON_TIMEOUT`, `VIVID_JUMP`, ...). The library calls those
functions with an event name, `init`, `entry`, `exit`, `jump` or one of the
application's, and each macro decides for itself whether it is meant.

| Component | Source | State it keeps | Operations |
|---|---|---|---|
| Event queue | `src/src/vivid_queue.c` | ring buffer, `read`, `write`; lock-free: `pending`, ready flags | create, push (any thread), empty / front / pop (the loop's thread), destroy |
| State tree | `src/src/vivid_sm.c` (`walk_init`, `vivid_sub_node`, `vivid_default`) | `struct vivid_node`: parent, children, siblings, default, depth, type | built once, by calling every state function with `init` |
| Engine | `src/src/vivid_sm.c` (`event_callback`, the walks, `vivid_transit`, `jump`) | `node->state`, `me->transition`, `me->jump`, `me->init` | handle one event; enter and leave states; jump; `vivid_is_in` and `vivid_get_state` from any thread |
| Timeouts | `src/src/vivid_sm.c` (`vivid_on_timeout`, `timer_callback`) | `due_time`, `active` per timer | start on entry, stop on exit, queue an event when the time comes |
| Event delivery | `trigger_event`, `handle_event` of `src/src/binding/vivid_binding_{linux,freertos,win32}.c` | trigger flag per event, list of events, eventfd / notification / Windows event | set flag and signal (any thread); wake, scan the list, call back (the loop) |
| Binding timers | the same files and `vivid_binding_libev.c` | timerfd, FreeRTOS timer, waitable timer, `ev_timer` | start, stop, expiry in another thread |
| Map | `src/src/vivid_map.c` | red-black tree: function or string address to node or timer | set, get, iterate |
| Construction | `src/src/vivid_sm.c` (`vivid_create_sm`, `vivid_destroy_sm`) | what each field of the machine holds, the half-built tree | create with an error path after every step, destroy |
| Parameters | `src/inc/vivid/sm.h`, `vivid_sm.c`, `vivid_queue.c` | a copy in the queue's place, or a block of the heap | raise an event with a parameter, read it in clauses and jumps, free it |
| Interrupts | `src/src/binding/vivid_binding_freertos.c` | interrupt mask, trigger flag, yield flag | trigger from interrupt handlers and tasks |
| Periodic timer | `src/src/vivid_periodic_timer.c` | `due_time`, `active` | start, stop, call back |
| Diagrams | `src/src/vivid_uml.c`, `src/tools/vivid-gen.py` | text | write PlantUML |
| Log | `src/src/vivid_log.c` | a buffer | format, hand over |
| Examples, mains | `src/examples/` | | the dispatch example has a second queue and a protocol |

How they interact. `vivid_queue_event` pushes into the queue, sets the trigger
flag of the machine's binding event and signals the loop; this happens in any
thread, the timer thread and the loop's own included. The loop's thread calls
`vivid_binding_..._handle_event`, which calls `event_callback` of each machine
whose flag is set. `event_callback` takes the front event, walks the tree with
it, makes the transitions the clauses ask for, runs the jumps, pops the event,
and triggers itself if there are more. Entering and leaving states starts and
stops timers; a timer that expires queues an event.

What is hard. Producers race with each other and with the loop, which keeps a
pointer into the queue's buffer without holding its mutex. The lock-free build
relies on indexes that come round. A push, a flag and a signal are three steps.
Entry and exit walks are recursive, go by depths and sibling lists, and run
application code in the middle. A timeout may arrive when its state has been
left, on a clock that comes round or is set back. Creation can fail after any of
a dozen steps, and destruction meets a timer thread that is still at work. State pointers are read by other threads in the middle of a transition.
`PROJECT.json` lists these hazards line by line under `hazards`.

What makes each component correct: the queue is a bounded FIFO of whole events,
and its front does not change while it is in use; no event is left in it
without a callback on its way; entry and exit code runs in the order of the
tree and once each, between events the machine is in a leaf in every region,
and the application is told of every change; each event is offered once to
every state that was in; a timer runs only for a state that is in; the handler
returns.

## 2. Modules

| Module | Models | Checked by |
|---|---|---|
| `BoundedFifo` | abstract: what either queue promises | (refined) |
| `MutexQueue` | `vivid_queue.c` with `VIVID_LOCKFREE=0` | itself |
| `LockfreeQueue` | `vivid_queue.c` with `VIVID_LOCKFREE=1` | itself, `MCLockfreeQueue` |
| `EventService` | abstract: every machine with events is served | (refined) |
| `EventLoop` | `vivid_queue_event`, `trigger_event`, `handle_event`, the outer part of `event_callback` for several machines | `MCEventLoop` |
| `LockfreeLoop` | composition of `LockfreeQueue` and `EventLoop` | `MCEventLoop` |
| `FreertosIsr` | `vivid_binding_freertos.c` under interrupts, the main task of the example | `MCEventLoop` |
| `EventParam` | who owns an event's parameter, static and dynamic | `MCVividCreate` |
| `StateTree` | the tree as constants, and what `vivid_sub_node` and the climb of `vivid_transit` derive from it | (extended) |
| `StateConfig` | abstract: in which order entry and exit code may run | (refined) |
| `VividSm` | the engine of `vivid_sm.c` with its queue and timers | `MCNested`, `MCRegions`, `MCRegionTarget` |
| `VividSmInvariants` | the inductive invariants of `VividSm` | (proved) |
| `Countdown` | the countdown example on `VividSm` | `MCPrograms` |
| `VividCreate` | `vivid_create_sm` and `vivid_destroy_sm` with all they call in the bindings, the log, the diagram, the maps and the queue | `MCVividCreate` |
| `BindingTimer` | clock and timer of the four bindings | (extended) |
| `VividTimer` | `vivid_on_timeout`, `timer_callback` on `BindingTimer` | itself, `MCTimers` |
| `PeriodicTimer` | `vivid_periodic_timer.c` on `BindingTimer` | `MCTimers` |
| `LinuxProcess` | the example program on Linux from `main` to its end | `MCPrograms` |
| `Platforms` | the example programs on libev, Windows and FreeRTOS | `MCPrograms` |
| `Dispatch` | the dispatch example | `MCPrograms` |
| `Dictionary` | abstract: what a map promises | (refined) |
| `VividMap` | `vivid_map.c` | `MCVividCreate` |
| `CodeText`, `JsonProp`, `Diagram` | `vivid_uml.c`: code in labels, properties, what is drawn | `MCDiagrams` |
| `CodeText`, `MacroArg`, `Diagram` | `vivid-gen.py`: code in labels, arguments, what is drawn | `MCDiagrams` |

Theorems are in `MutexQueueProofs`, `LockfreeQueueProofs` (with `LockfreeLoop`),
`EventLoopProofs` (with `FreertosIsr`), `VividSmProofs` (`StateTree`, `VividSm`),
`TimerProofs` (`BindingTimer`, `VividTimer`, `PeriodicTimer`), `ProgramsProofs`
(`Dispatch`, `LinuxProcess`, `Platforms`), `VividCreateProofs` and `StorageProofs`
(`EventParam`, `VividMap`). A module "checked by itself" has a configuration and no MC
module. Definitions marked "Wrong" are slips that a change to the code could
make; nothing uses them, and each one put in place of a definition of its
module breaks a property.

Some MC modules hold several modules that do not touch each other's variables,
with a variable `part` that is chosen at the start and never changes: the steps
are those of that part, and the others' variables stay as they begin. The state
space is the sum of the parts, not their product. An invariant is true of the
parts that stand still because it is true of their initial states, and fairness
is that of each part's own specification.

### The queues

`buffer`, `read`, `write`, `pending` and `ready` are the fields of `struct
vivid_queue`; `pc`, `index` and `arg` are the local state of each call of
`vivid_queue_push`. A slot has two fields, name and param, written one after the
other, so that a mixture of two pushes would show. In `MutexQueue` a push is
eight steps, each label one statement between `lock_mutex` and `unlock_mutex`;
the consumer's critical sections touch the indexes once each and are one step,
possible while no producer holds the mutex. In `LockfreeQueue` each atomic
operation is one step (they are all sequentially consistent) and the ready flag
and the fields are steps of their own. `Contents` is the refinement mapping: the
entries from `read` to `write`, oldest first. `FrontStable` is about the pointer
that `event_callback` gets from `vivid_queue_front` and passes through the whole
walk. Left out: the refusal of an oversized parameter (before anything is
touched) and a mutex that cannot be locked, which are in `EventParam`, and
creation and destruction, which are in `VividCreate`.

### Event delivery

`EventLoop` has one binding event per machine in the order of the binding's
list, the trigger flags, and one `signal` for the eventfd, the FreeRTOS
notification bit or the Windows auto-reset event, which all remember that they
were signalled until the loop looks. Every thread, the loop's own included, has
a `post`: what is left to do of a `trigger_event` call. `at` and `pos` are where
the loop is in `handle_event` and `event_callback`. The queues are counters: that
they are FIFOs is what the queue modules show. Windows reads the flag and clears
it in two steps, Linux and FreeRTOS in one; the model takes two for all, which
includes the behaviours of one. A push that finds the queue full is reported and
triggers nothing (`RefusePush`).

### The engine

`VividSm` makes the C call stack data: `todo` lists the calls still to be made,
innermost first, and a step takes the first and puts the calls of its body in
its place, so each small function of the C code is one action and the
application's code, other threads and timers run between any two of them. The
node pointers fixed at creation are read at once, `node->state` where the code
reads it. `state`, `init`, `jump` and `stateChange` are the fields of the same
names; `armed`, `running` and `due` are `timer->active`, the binding's timer and
`due_time <= get_time()`; `fired` is an expiry that the timer thread has seen
and not yet turned into an event, so that late timeouts occur. `stays`, `heard`,
`fresh` and `notified` are history variables that the properties use and no
action reads. An application's guard is a free choice where a clause says so
(`app`). The push and the trigger of an event are one step here; that their
separation does no harm is `EventLoop`'s subject. A clause whose target is not
in the tree is reported by the code and ignored; the trees have none.

`StateConfig` says what the entry and exit calls amount to: a state is entered
after the one around it and left before it, never twice in a row, and at most
one sub-state that is no region is in. `VividSm` implements it, with `stays` as
the mapping.

`Countdown` gives the guard and the actions of one real
application to the free choices of the engine.

### The lock-free build and its loop

`LockfreeLoop` runs the steps of `LockfreeQueue` and of `EventLoop` side by side
for one machine. What joins them is small: `trigger_event` follows a push that
returned true, the loop sees the published entries only, and `event_callback`
pops with the queue's own steps. An event is waiting from the moment its entry
is claimed; `ImplementsService` says it is served although the loop may find
the queue empty and go to sleep in between.

### FreeRTOS under interrupts

`FreertosIsr` has handlers that nest by priority, the main task and a task of
lower priority. `masked` and `status` are the interrupt mask and what
`taskENTER_CRITICAL_FROM_ISR` returned; each context's `does` and `local` are its
place and its local variable in `trigger_event` and
`vivid_binding_freertos_is_yield_required`; `yieldRequired` is `m_yield_required`, which is
read and cleared in two steps that a nested handler may come between. Both
settings of `VIVID_BINDING_FREERTOS_YIELD_AFTER_NOTIFY` are initial states.

### Parameters

`EventParam` begins with the walk that asks each clause for the size of its parameter
(`OnInit`), from which the places of the static build get their width; an event whose
parameter is wider is refused. `EventClauses` are the clauses for events that have a
parameter: `VIVID_ON_EVENT_PARAM` asks for its size, `VIVID_ON_EVENT` for nothing
(`Asks`), and a jump is not asked. So `ReadsOwn` promises a place to every event with a
clause of the first kind, and to no other (see section 5). The module has one place for each entry of the queue, the blocks `calloc`
hands out, and the walk of `event_callback` from the front to the pop: clauses
for the event, and jumps that are given its parameter afterwards. In the
dynamic build every allocation, the mutex and the queue may fail; `leaked`
counts the blocks that belong to nobody then. The copy made for an event that
is refused, and those of the events left in a queue that is destroyed, are not
freed by the code, and `HasOwner` says that nothing else is ever lost.

### Construction and destruction

`VividCreate` goes through `vivid_create_sm` call by call. `live` has every block
and handle in use, named by the field that holds it, `held` the fields that are
not null, and any step that the code checks may fail, up to `mayFail` times.
`calls` is the recursion of `walk_init` through the state functions, which run
all their clauses whatever became of the earlier ones. `vivid_destroy_sm`, which
is also the error path, frees what `held` says. `Machines` is the set of declarations,
bindings and builds that are looked at, and one of them is chosen at the start.

### Timers

`BindingTimer` is one timer on one of four bindings: `left` counts down to the
expiry, `fired` is an expiry noticed by the binding's thread whose callback has
not been called, `commands` the queue of the FreeRTOS timer task. Timers are
periodic except on FreeRTOS, whose clock comes round at `Width`; on the others
only the difference of clock and due time matters, and both are moved down when
the clock reaches `Width`. On Windows and libev the clock is the time of day and may be set.
A libev timer that runs is not started anew (`LibevStart`).
`VividTimer` puts a state with one timeout on it, entered and left at any time,
with a queue of `Size` places that may be full; `PeriodicTimer` the library's
periodic timer, with its two-step start and restarts while an expiry is under
way. `age`, `answered`, `called`, `jumped` and `lost` are history.

### Programs

`LinuxProcess` has the descriptors (one not opened yet denotes standard input,
since its variable is 0), the blocks, the timer thread, signals, and a loop
that may be told to quit while the thread is in a callback. `Platforms` has the
same order of creation and destruction as tables for the other three platforms,
with a timer that may be under way. On both, `vivid_destroy_sm` frees the queue
before it deletes the timers, so that a callback under way uses freed memory:
`SafeIfCalm` says that this is the only way it can come about.

`Dispatch` has the callers' counters, the callee's state and event queue, the
dispatch queue and the answers. A full queue ends the program through the error
hook (`aborted`); that the dispatch queue never is full with one place for each
caller is part of what `ProgramsProofs` shows.

### Map

`VividMap` goes through `vivid_map_set`, `vivid_map_get` and `vivid_map_iterate` turn
by turn of their loops and call by call of their recursion: `at` and `above` are the
pointers of the search and of `fixup`, `frames` is the recursion of the iteration. A
node is its key, since what is stored in it is the caller's. `rotate` is one
step, as nothing can come between its assignments; a new node may find no memory.
`VividMap` implements `Dictionary`, whose calls are answered one after the other, and
where a key gets its entry when the call returns (`Contents`).

### Diagrams

The texts are sequences of the characters that the code tells apart. `CodeText`
runs the library's `add_code`, which jumps from one special character to the
next, and the script's, which goes through all of them, on every text of a
length. In `MacroArg` `get_arg` of the script and a preprocessor read the same
characters side by side, until the preprocessor has come to the end of the argument or
finds that it is no code. It also marks the three cases in which the script is known to
read something else: `cut` for a comment that begins with `/*/`, where the two part and
nothing is asked any more; `joined` for a comment that alone separates two tokens and
`reduced` for a row of spaces in a literal, where the texts must be the same but for
spaces. `JsonProp` runs `get_json_prop` on the tokens jsmn
makes of an object. `Diagram` declares machines step by step, writes both
diagrams as sequences of lines, and reads the library's back (`ShowsMachine`).

## 3. Runs

| Run | Module | Bounds | What it shows |
|---|---|---|---|
| `mutex_queue` | `MutexQueue` | 3 producers, 2 values, 2 places | a bounded FIFO with a stable front; every accepted event reaches it |
| `lockfree_queue` | `MCLockfreeQueue` | 3 producers, 2 values, 2 places, timely producers | the same safety for the lock-free build, and no event is stranded |
| `lockfree_write` | `LockfreeQueue` | 3 producers, 1 value, 2 places, timely claims | violated: the write index moves backwards |
| `event_loop` | `MCEventLoop` | 2 machines, 2 threads and the loop's, 2 places; the same for one lock-free queue; 3 priorities of handlers, 2 tasks | no lost wake-up, no starvation, sleeps only when idle; events that are seen later than they are pushed; every trigger told and every switch asked for |
| `nested` | `MCNested` | 7 nodes, 4 levels, 2 timers, 2 places | every transition between any two states, jumps, parameters of jumps, timers; the handler returns and events are served |
| `regions` | `MCRegions` | 23 nodes, 4 parallel states, 1 timer, 2 places | who gets an event, who is entered and left, also with regions inside of regions |
| `region_target` | `MCRegionTarget` | 9 nodes | violated: transitions from outside into a region |
| `timers` | `MCTimers` | 4 bindings, 2 users, timeout 2, clock modulo 4, 1 command, 2 places | once per stay, early only after a jump of the clock, comes until it is taken; the periodic timer calls in time and again and again |
| `timer_late` | `VividTimer` | FreeRTOS, timeout 2, clock modulo 5 | violated: a late timeout is accepted |
| `creation` | `MCVividCreate` | all declarations of three states with up to 3, 1 and 1 clauses; 3 with 2 timers and up to 2 failing calls on 4 bindings; 2 threads, 2 blocks, 3 sizes of parameters, two of them asked for; 8 keys | exactly the sound declarations become a machine, as declared, nothing is left taken; a clause reads what its event was raised with, no event with a `VIVID_ON_EVENT_PARAM` clause is refused for its size, and every block has one owner; the map is a dictionary |
| `programs` | `MCPrograms` | 2 callers with 2 and 4 places; a countdown from 3; the mains of 4 platforms with every checked call able to fail | each caller is answered, with its own answer, for ever; the example counts right and rings; all is given back, in an order in which nothing is used after it, and signals end the program |
| `diagrams` | `MCDiagrams` | a root and 3 states of 4 kinds with a transition, or 5 states and regions; all texts of up to 6 characters; all arguments of up to 6 over two alphabets of 10 characters; objects of up to 9 tokens | the library's diagram is the machine and the script draws the same edges; line breaks only after statements; arguments end where a compiler ends them and have its text, in literals with escapes, calls, braces, white space and comments of both kinds, but for the three marked cases; a property is found where it is and only there |

Type invariants are theorems (section 4) or, where a module has no proofs,
spelled out in the comments of its variables; none takes the place of a property
in a run.

Why the bounds are enough. Queues: with two places the buffer has three slots,
so pushes wrap, it fills up, and a third producer can meet two that disagree;
values only need to be told apart. The loop: two machines are what it takes for
one to take the other's signal or its turn; two places, for two pushes to share
one trigger. Interrupts: with three priorities a handler is between two others.
Parameters: with two blocks calloc runs out and blocks come back while others
are in use. The tree of `nested` has a transition from every state to every
state and so every shape of climb a chain of four levels allows (up, down,
across, to itself, to and from the root, of different depths on both sides); the
actions of the engine look at one node at a time, and more levels repeat the
same steps. Its condition is entered by the initial walk and by transitions, with
and without the parameter its first jump wants. `regions` has a composite inside
one region so that transitions inside a region go up and down as well, a region
that is divided itself, and a parallel state inside a state inside a region.
Declarations: three clauses are two sub-states and a default in any order, one
of each state a cycle, a state declared twice, or a default that points up, down
or beside. Failures: the second one is met on the way out of the first. Timers: a
timeout of two ticks can be late, early and in time; the FreeRTOS clock comes
round during a stay and in between. The map: with eight keys the recolouring
reaches a rotation above the leaves, whose inner subtree is not empty. Texts:
longer than what opens, escapes and closes a literal with a statement after it.
Arguments: six characters and the one that ends them hold a comment of either kind
between two tokens, a comma or a quote inside of a comment, a comment's beginning inside
of a literal, an escaped quote with a comma after it. One alphabet has backslashes and
braces, the other slashes, stars and line ends, so that a backslash next to a comment
is not looked at (outside of literals it is no code, and a comment that is continued
with one does not occur).
Symmetry is used in `lockfree_queue` only, for producers and values, and there
is no liveness in that run.

Deadlock is checked in every run. Programs that end have a step (`Ended`,
`Aborted`) in which nothing changes.

### Fairness

* `MutexQueue!FairSpec`: weak fairness for a producer between two of its steps
  (it is scheduled), strong fairness for taking the mutex, for producers and
  consumer: the bindings' mutexes are not fair queues, so a waiting thread is
  assumed only to win some of the races, not to be served in turn.
* `EventLoop!FairSpec`: weak fairness for the loop (the mains call
  `handle_event` whenever the descriptor is readable, and state code returns)
  and for each thread's trigger steps (a thread that pushed goes on). None for
  pushing.
* `VividSm!FairSpec`: weak fairness for the engine as a whole. None for the
  environment. That an event is served needs a diagram whose jumps come to an
  end: `EventsServed` is checked for a condition whose last jump has no guard;
  a cycle of jumps would run for ever in the code as in the model.

* `LockfreeLoop!FairSpec`: weak fairness for each thread's push and trigger, strong
  fairness for the loop's handling of events: the thread that walks runs state
  code, which may push, and be refused, any number of times before it returns.
  Every step is `Timely` (below).
* `VividTimer!FairSpec`, `PeriodicTimer!FairSpec`: time goes on, the timer's thread
  and the loop are scheduled. None for entering and leaving the state.
* `Dispatch!FairSpec`: each machine with an event is served, which is what
  `EventService` promises of the loop they share; the timer of the callee expires.
* `Countdown!CountFair`: the engine as in `VividSm`; timers count down and fire;
  a timeout is queued in the end (strong: the queue may be full in between).
* `LinuxProcess!FairSpec`: main and the thread run on; epoll
  returns ready descriptors in turn, so that the one for quitting is not passed
  over for ever while input keeps coming.

### The lock-free assumption

`TimelySpec` restricts the steps to those after which no producer holds an index
it loaded before the others went round the whole buffer: `TimelyClaim` is the
half about the check before a claim, `TimelyPublish` the half about the index to
be published. It is not a property of the code: without the first a push can
claim a place in a buffer that is full, and `lockfree_write` shows what happens
without the second. Both need a thread that is suspended between two
instructions while other threads push, and the loop pops, as many events as the
queue has slots.

## 4. Proofs

`MutexQueueProofs`, for any set of producers and values and any capacity. The
assumptions are that the capacity is a natural number and that "no value" and
"no producer" are none. The invariant comes in two layers. `IndexInv` (types,
the mutex is held exactly by the producer between lock and unlock, a producer
that fills has a free slot, a consumer that uses an entry has one) is inductive
by itself and gives `FillsFreeSlot`, `FrontStable` and `RefusesOnlyWhenFull`:
none of these is inductive alone, since "the write index is not next to the read
index" survives a pop only because the popping consumer saw an entry, and
survives another producer only because there is no other. `IInv` adds what a
producer has written by the time it is at each label, and that all waiting
entries are whole. `QueueIsFifo` then shows that each step appends to, removes
from or keeps `Contents`; the lemmas `PublishIndexes`, `PopIndexes` and
`SameIndexes` do the arithmetic of the wrapped indexes.

`LockfreeQueueProofs`, for any set of producers and values and any capacity, under
`TimelySpec` (section 3). What the invariant has to say is where each entry stands
between its claim and its publication, with the indexes counted from the read
index so that the turn of the buffer falls away (`Ahead`): read, write and pending
come in this order (`Order`); an entry that is claimed and not published has
exactly one of an owner that fills it, a ready flag, and a producer about to
publish it (`Owned`, `Published`, `ReadyClaimed`, `Covered`); an entry that could be
published next has a producer on its way to it (`Attended`), which is why none is
stranded; and what a producer loaded still holds unless others have moved on
(`Loaded`), which is where timeliness is needed. `QueueIsFifo` shows that the
events come out in the order of their claims, although they may be filled in any
other.

`EventLoopProofs`, for any number of machines, threads and places and any list
in which each machine occurs. `SleepsOnlyIdle` speaks of the loop asleep; the
inductive invariant says where the wake-up is at every other moment: an event
that waits has its flag set, or a thread about to set it, or the loop at its
machine (`EventsFollowed`); an initial entry likewise (`InitFollowed`); a flag
that is set has a signal given, a thread about to give it, or the loop on its
way to it in the list (`TriggersFollowed`). The last needs the distinction
whether the loop has cleared the current machine's flag already: a flag set
again during the callback is found only by a later pass. `LoopIsService` is the
safety half of the refinement.

About `FreertosIsr`, for every set of priorities: the mask is held by exactly the
context between lock and unlock (`MaskInv`); a flag that is set is told or about
to be (`TrigInv`); a main task that is ready has a switch pended or a handler on
its way to asking for it (`SwitchInv`). The last is not inductive because
`vivid_binding_freertos_is_yield_required` reads the flag and clears it in two steps;
`ClearInv` closes the gap: a handler that has read the flag clear and is about to
clear it can only destroy what a nested handler has asked for already.

About `LockfreeLoop`, under `TimelySpec`'s condition and with the loop as one of the
producers: `AllInv` joins `IndexInv` with what holds the two together. A thread triggers
after its push and never during it (`OneCall`); the consumer uses an entry exactly
while the loop walks (`UsingIsWalk`); and while published entries wait, a flag is set, or the
loop attends to the queue, or a thread is about to set the flag *or is still publishing*
(`EventsFollowed`). The last alternative is what the mutex build does not need: an
entry may be published by a thread that raised another one, and it is that thread's
trigger which follows. With it and `NoneStranded`, nothing is left when the loop
sleeps (`LockfreeSleepsOnlyIdle`).

`TimerProofs` begins with lemmas about `BindingTimer`: about the wrapped clock, and about what
starting, stopping, counting down and calling back leave of a timer.
The part about `VividTimer` is for every binding, timeout, width of the clock and length of
the queues, assuming only that on FreeRTOS the timeout is below the width. The
invariant joins five parts: types; a timeout that is answered ends `active`
(`OnceInv`, gives `AtMostOnce`); as long as the clock goes its way, clock and due
time tell the age of the stay (`DueInv`, gives `EarlyOnlyAfterJump` and
`LateIgnored`); where the loop is determines whether the timer has been started
(`LoopInv`); and a stay that waits has its timer running, or an expiry noticed,
or its timeout in the queue (`ComesInv`, gives `StillComes`). `ComesInv` needs
`DueInv`: a timeout in the queue only counts if it will not be taken for an
early one. `PeriodicTimer` goes the same way with the two-step start.

`ProgramsProofs`, first about `Dispatch`, for every set of callers with a place each in the dispatch
queue. `OneOutstanding` is not inductive: that a caller has one request depends
on the answers it still has to take, on the callee's state, and on an event of
the callee for each request. `IInv` says what each caller's one token is
(`OneEach`, `RequestsRight`, `AnswersRight`) and that no request is without an
event that brings the callee to it (`NoneForgotten`); `EachAnsweredAlways` is
what the callers rely on. `PlaceForRequest` counts:
the requests in the queue map one to one into the callers, the one that asks now
is not among them, so there is a place.

Then about `LinuxProcess` and `Platforms`, for any number of turns of the loop and any
set of failures: the blocks and descriptors in use follow from where main is, and
on the way out from how far the creation came (`HeapAt`, `FdsAt` and their
counterparts); a thread that runs is known to the binding, which joins it; a
callback has all it uses, unless the destruction of the application has overtaken
it (`CalmAt`). This gives `NothingLeft` and `SafeIfCalm` on all four platforms.

`VividSmProofs` begins with `StateTree`, for every tree of states as an application
may declare it. The assumptions are those of `StateTree`: `TreeAssumption`, what
`walk_init` and `vivid_sub_node` insist on; `NodeAssumption`, that the root and no
other node has the type that `calloc` leaves; and `DepthAssumption`, that `walk_init`
came to every state and counted on its way. The last cannot follow from the
others: a cycle of states apart from the root fits it, and is not reached by
`walk_init`. The recursive functions are unfolded by giving a function without
recursion that satisfies their equation (`OverGoesOn`, `LiftedGoesOn`,
`CommonGoesOn`), and induction along the tree by taking the shallowest
counterexample. The lemmas say how parents, children and siblings hang together,
what is above what, and that going on from region to region comes to each of them
once (`ChainOfAll`). `AncestorIsLowest` is the result: the climb of
`vivid_transit`, by depths, ends at the deepest state around both ends.

The rest of it is about `VividSm`, for every such tree, any length of the queue,
any events and timers, and any guards. Its theorems have `Supported` as their
hypothesis: no transition to a region, none into a region from outside of it, and
none out of a region that is itself divided while regions beside it wait. The code
accepts these three and does not carry them out as drawn (section 5:
`region_target` is the counterexample to one of them), so that the theorems would
be false without it. `nested` and `regions` assert it of their trees.

The stack of C calls is data in the model, so the inductive invariant `EngineInv`
speaks of the calls that wait. For each kind of call `VividSmInvariants` says which nodes it
will leave (`Exits`) and enter (`Enters`), itself or by the calls it makes, and whose
pointers it clears and sets; a step replaces a call by calls that do the same
between them. `Before` is the order in which calls may wait: by `Rank` (leave, go
up, arrive, offer events, jump again), and within a rank exits from the inside out
and entries from the outside in. From the calls follow which nodes stay in
(`Staying`) and which will be in at the end (`Planned`); `Plan` says that those make
up a complete machine, `Nested` and `Pointers` that what is in, now and in between,
hangs together with the pointers, and `Each` what the moment of each call needs.
Neither `ImplementsConfig` nor completeness is inductive alone: that an exit call
finds its sub-states left depends on the calls before it, and that the machine is
complete at the end on all of them. Every action has a lemma about the calls it makes
(`ExitDownMakes`, ...), one that the invariant's parts are kept (`ExitDownKeeps`,
...) and one for the stack as a list (`ExitDownIs`, ...). `EngineHolds` is the
invariant, and the properties follow: `EngineImplementsConfig` from `Nested` and
the order of the calls, `EngineMovesBelow` from the part of the order that relates a
call to the arrival it precedes, `EngineAgrees` from `Pointers`, `EngineTimers`
with one more conjunct. `EngineComplete` needs a second invariant, `JumpInv`: a
condition or junction that is in will be left, or a jump walk has been asked for, or
there is a call in the walk under way that offers it a jump, or a node is about to be
entered that asks for another; and where there may be such a walk, `jump()` is still to be
called. Its hypothesis `LeadsOn` is that each condition and junction has a jump
without a guard, and none without a target: otherwise the machine rests in it, as
the code allows.

`EngineOffersOnce` has `OfferInv`. For each call that waits it says which nodes that
call may yet offer the event (`Ahead`); two calls that wait have none in common, none
of them has been offered the event in this walk or entered by it, and what a call
will enter (`Brings`: `Enters`, and what is entered below by default) is nothing that
a later call will offer the event. The last is where its hypothesis is needed.
`NoWayBack` says that no transition out of a region leads back into the state that
the region divides, be it by default: `walk_event` goes on with the regions that wait
although the transition has left and entered them, and would offer them the event
that led to them (`src/src/vivid_sm.c:202`). `EngineOffersAll` has `ServedInv`, the
other half: whoever is in and will stay has been offered the event, or was entered
by this walk, or is ahead of a call that waits. Its hypothesis `NoneCutShort` says
that no region has a transition into itself while regions beside it wait: with
that transition `walk_event` returns before it comes to those
(`src/src/vivid_sm.c:194`), which stay in. Neither hypothesis is implied by `Supported`, and
the code accepts trees without them; `regions` asserts both of its tree.

`EngineNotifies` has `NoticeInv`. `Goal` is what will be in when the calls that wait
have been made, by default entries and all. Either that is what the application was
last told, or the callback is to come, because a call that waits will move a pointer to a
state proper (`Counted`) or has moved one since the transition's action, or a condition
or junction is in `Goal`, so that a jump follows. The hard step is the beginning of a
transition: if its way counts nothing, then nothing changes. `NothingCounted` shows
that the target is then the ancestor itself and has nothing but regions below it, all
the way down. What the application knows before the first callback is where the
machine starts: nothing tells it (`src/src/vivid_sm.c` enters the initial states
without one), so `notified` begins with what the root enters by default.

`VividCreateProofs`, for every set of declarations of any length, every binding and
build and any number of failures. `NothingLeft` speaks of the moments when nothing is being
created; `LeavesNothing` says of every moment that each block in use belongs to
something that will give it back: a field that is held, an entry or a node of a map that
is held, or a timer; and that while a machine is destroyed what is held is still on
the list, the timers and nodes before the maps that lead to them (`InOrder`). `CreatedIsSound` needs the recursion of
`walk_init`: `WalkInvariant` says of each clause of each declared state that has
been called whether it is done (`Done`, `Begun`), and that, as long as no error has been
kept, what is done is in the tree and the tree has nothing else (`Good`, in parts for
sub-states, timers, regions, children in order, parents and defaults). Once there is
one, there was a reason for it (`Blamed`): a call that failed or a declaration that is
wrong. A default is checked when its clause is called, so the invariant has to say which
parents are known by then (`ParentsDone`).

`StorageProofs`, first about `EventParam`, for any events, sizes, clauses, threads and
blocks and any length of the queue. `ReadsOwn` and `HasOwner` follow from an invariant
that says of every entry of the queue that it holds what its event was raised with
(`EntriesHold`), that the width of the places covers all clauses that have been asked
(`WidthsKept`), and of each block that it is free or has one owner (`OneOwner`).

Then about `VividMap`, for any keys. `ImplementsDictionary` needs to know where the search
ends, and that is not local to a node: the invariant has a function `reach`, for each node
the keys, stored or not, whose search comes by it. The top is reached with all keys;
the children part what their parent is reached with (`ChildrenReached`); a key that is
stored is reached by way of all the nodes above it (`ReachedBelow`, `Comparable`). A
rotation leaves `reach` alone but for the two nodes that change places (`RotateKeeps`),
and a search that has come to nothing shows that its key has no node (`SearchMisses`).
The frames of an iteration bring, in order, all that has not been visited (`FramesOn`).
`TreeIsRedBlack` is the balance, with the black heights as a second function
(`Even`): one red pair may be there while `fixup` works on it (`NoRedPair`), and half-way
through a turn the nodes are known to stand as they must for the second rotation
(`FixOn`). That a search ends soon, in proportion to a logarithm, is what
the colours are for; the theorem says the colours are right, not the count.

TLC has checked every one of these invariants on small instances before it was proved:
the six of `VividSm` in every state of `nested`'s tree with a queue of one event, those
of the other modules within the bounds of their runs (of the map, with seven keys).

Proved and not run: `TreeIsRedBlack`, the type invariants of these modules, `MaskedInside` (the
interrupt mask with its one saved status is a mutex), `NeverPopsEmpty`,
`FillsFreeSlot`, `RefusesOnlyWhenFull`, `ContentsWhole`, `StillCalls`, and
`LateIgnoredOnLinux`: with `Bindings = {"linux"}`, timeouts of earlier stays are
always ignored.

Only model-checked: `Countdown`, the diagram modules (`ShowsMachine`, `TextsAlike`,
`FindsProp` and the rest: what recursive definitions compute from a text or
a declaration needs induction over data; these modules declare RECURSIVE operators and
are kept out of every module with a theorem), and all liveness (`Drains`,
`EventsServed`, `AlwaysComes`, `StopsOnSignal`, `Served`, `Rings`, the fairness of
`ImplementsService` and `LockfreeServes`), which is out of the prover's reach.

## 5. Findings

The runs that expect a violation, each against a sentence of the repository that
`PROJECT.json` quotes.

* `lockfree_write` (`src/src/vivid_queue.c:164`, builds with `VIVID_LOCKFREE`): see
  above.
* `region_target` (`src/src/vivid_sm.c:128`): a transition from outside a parallel
  state to a state inside one of its regions leaves the region in the parallel
  state's own state pointer; walks then come to the region twice.
* `timer_late` (`src/src/vivid_sm.c:514`): due time and tick count are compared as
  numbers although both come round on FreeRTOS.

Met while modelling, and kept out of the diagrams, declarations and properties
of the passing runs or built into the models as the code has them:

* `src/inc/vivid/sm.h:121`, `src/src/vivid_sm.c:522`: without `VIVID_PARAM_DYNAMIC`
  only `VIVID_ON_EVENT_PARAM` makes the places of the queue wide enough. An event
  with a parameter that is handled by `VIVID_ON_EVENT`, also when a `VIVID_JUMP_PARAM`
  reads the parameter afterwards, is refused as too large
  (`src/src/vivid_queue.c:101`) unless another event is as wide; with
  `VIVID_PARAM_DYNAMIC` the same machine works.
* `src/src/vivid_periodic_timer.c:63`: a periodic timer that is started while it runs
  is not stopped first, and `ev_timer_start` does nothing for a timer that runs
  (`src/src/binding/vivid_binding_libev.c:116-117`): it expires when it would have.
  The comparison with the due time keeps the user from being called early; the call
  comes with a later expiry.
* `src/src/vivid_queue.c:114-119`: a producer that sleeps between its check and its
  claim while the others go once round the buffer claims a place in a full one.
* `src/src/vivid_sm.c:117`, `199`, `202`: a transition to a region enters the regions
  declared before it a second time; an event that led out of a divided region is
  offered to its siblings all the same; an event that led back to the parallel
  state is offered to what has just been entered. The library accepts all of
  these transitions without complaint.
* `src/src/vivid_sm.c:397`: a default is looked for among all states, not among the
  state's own. `src/src/vivid_sm.c:300`: a timer's entry that holds NULL because its
  creation failed is destroyed like the others.
* `src/src/binding/vivid_binding_linux.c:340` and
  `src/examples/platform/win32/main.c:135`: errors of `pthread_create` and of the
  wait are looked for among negative numbers, where they never are; the size
  check after a `read` (`vivid_binding_linux.c:216`) compares -1 with an unsigned
  size, so that a failed read is taken for an expiry; descriptors not opened yet
  are 0, so that an early failure closes standard input (`365`).
* `destroy_event` never takes an event out of its binding's list; the libev binding
  frees a timer without stopping its watcher; `UnregisterWait` does not wait for a
  callback.
* `src/tools/vivid-gen.py`: spaces inside of strings are reduced (88), `/*/` is
  taken for a whole comment (54), and a comment leaves no space (88), so that
  `a/**/b` is read as `ab`. The separator between regions uses a name that
  is defined nowhere (289), so that the script ends with an error at a region that
  has sub-states; a state with sub-states is written without the brace that line
  298 closes (292); directions are looked up among the properties of the state
  instead of the transition (234). As long as the script does not end, the edges
  it draws are the library's.

## 6. Not modelled, and the plan

Not modelled:

* Formatting: of log messages, of the indentation and wording of diagrams, the
  separator at `src/src/vivid_uml.c:274`.
* The script's search for macros in a file, its monitoring of directories and its
  command line: no property of the library depends on them, and the first is
  regular expressions over text.
* How the mains cut a typed line into events; FreeRTOS's hooks and the set-up of
  hardware.
* Libev, FreeRTOS, jsmn and the operating systems, which appear by what the code
  uses of them.
* Creation and destruction of a periodic timer, which is one block, one event and
  one timer in a row, as in `VividCreate`.
* The toaster example: one event and one timeout between two states, which
  `nested` and `timers` contain.
* Builds with `VIVID_PARAM=0`, which do not compile (`src/src/vivid_sm.c:231`).

Next: the line input of the mains.
