------------------------------ MODULE LinuxProcess ------------------------------
(***************************************************************************)
(* The example program on Linux, from main to its end: the descriptors and *)
(* blocks main.c and vivid_binding_linux.c take and give back, with every  *)
(* call that the code checks able to fail, and the two threads: main with  *)
(* its loop, and timer_thread with one timer of the application.           *)
(*                                                                         *)
(* A descriptor that has not been opened yet is 0 in the memory that       *)
(* calloc returns, and in "int efd = 0"; 0 is standard input.              *)
(***************************************************************************)
EXTENDS Naturals, FiniteSets

VARIABLES
    pc,             \* what main does next
    fd,             \* the variables that hold descriptors: what they denote
    open,           \* the descriptors that are open
    live,           \* the blocks and the application that are in use
    id,             \* timer_thread_id: none, of the thread, or something else
    thread,         \* where timer_thread is
    told,           \* quit_fd is readable
    armed,          \* the timer of the application runs
    ready,          \* the descriptors main waits for that are readable
    signalled,      \* history: SIGINT or SIGTERM has come
    calm,           \* history: nothing of the timer was under way when the
                    \*   application was destroyed
    touched         \* history: memory was used after it was freed

vars == <<pc, fd, open, live, id, thread, told, armed, ready, signalled, calm, touched>>

Stdin == "stdin"
None == "none"              \* -1
Variables == {"m_quit_event_fd", "event_fd", "quit_fd", "timer_efd", "efd"}
Input == {"quit", "input", "vsm"}   \* QUIT_ID, INPUT_ID and VSM_ID

Init ==
    /\ pc = "event"
    /\ fd = [v \in Variables |-> Stdin]
    /\ open = {Stdin}
    /\ live = {} /\ id = None
    /\ thread = "off" /\ told = FALSE /\ armed = FALSE
    /\ ready = {} /\ signalled = FALSE
    /\ calm = TRUE /\ touched = FALSE

Heap == <<live, id, thread, told, armed>>
Descriptors == <<fd, open>>
Histories == <<signalled, calm, touched>>
--------------------------------------------------------------------------------
(* Descriptors *)

Opened(v) == fd' = [fd EXCEPT ![v] = v] /\ open' = open \cup {v}
OpenFails(v) == fd' = [fd EXCEPT ![v] = None] /\ UNCHANGED open
Open(v, next, error) ==
    \/ Opened(v) /\ pc' = next
    \/ OpenFails(v) /\ pc' = error

Close(vs) == open' = open \ {fd[v] : v \in vs}

\* A call of main or of the binding that the code checks and that changes
\* nothing kept here: it goes on, or to the error path.
Check(next, error) == pc' \in {next, error}
--------------------------------------------------------------------------------
(* main, up to the binding *)

CreateEvent ==
    /\ pc = "event" /\ Open("m_quit_event_fd", "signal", "close")
    /\ UNCHANGED <<Heap, ready, Histories>>

SetHandlers ==
    /\ pc = "signal" /\ Check("binding", "close")
    /\ UNCHANGED <<Heap, Descriptors, ready, Histories>>
--------------------------------------------------------------------------------
(* vivid_binding_linux_create; the error path is vivid_binding_linux_destroy, *)
(* after which main goes to its own, without a binding.                       *)

Alloc(block, at, next, error) ==
    /\ pc = at
    /\ \/ live' = live \cup {block} /\ pc' = next
       \/ UNCHANGED live /\ pc' = error
    /\ UNCHANGED <<Descriptors, id, thread, told, armed, ready, Histories>>

CreateBinding == Alloc("binding", "binding", "data", "close")
CreateData == Alloc("data", "data", "mutex", "destroy binding")
CreateMutex == Alloc("mutex", "mutex", "event_fd", "destroy binding")

\* Both are opened before either is looked at.
OpenEventFd ==
    /\ pc = "event_fd" /\ Open("event_fd", "quit_fd", "quit_fd")
    /\ UNCHANGED <<Heap, ready, Histories>>
OpenQuitFd ==
    /\ pc = "quit_fd"
    /\ Open("quit_fd", IF fd["event_fd"] = None THEN "destroy binding" ELSE "timer_efd",
            "destroy binding")
    /\ UNCHANGED <<Heap, ready, Histories>>
OpenEfd ==
    /\ pc = "timer_efd" /\ Open("timer_efd", "epoll_ctl", "destroy binding")
    /\ UNCHANGED <<Heap, ready, Histories>>
AddQuitFd ==
    /\ pc = "epoll_ctl" /\ Check("thread", "destroy binding")
    /\ UNCHANGED <<Heap, Descriptors, ready, Histories>>

\* pthread_create returns a positive number when it fails, and the code looks
\* for a negative one; what is left in timer_thread_id is undefined.
CreateThread ==
    /\ pc = "thread" /\ pc' = "application"
    /\ \/ thread' = "waiting" /\ id' = "thread"
       \/ UNCHANGED thread /\ id' \in {None, "undefined"}
    /\ UNCHANGED <<Descriptors, live, told, armed, ready, Histories>>
--------------------------------------------------------------------------------
(* main, with its loop *)

\* application_create: for want of memory the error hook ends the process; the
\* other errors are in what it returns.
CreateApplication ==
    /\ pc = "application"
    /\ \/ live' = live \cup {"application", "timer"} /\ pc' = "efd"
       \/ UNCHANGED live /\ pc' \in {"close", "aborted"}
    /\ ready' = IF pc' = "efd" THEN ready \cup {"vsm"} ELSE ready
    /\ UNCHANGED <<Descriptors, id, thread, told, armed, Histories>>

CreateEfd ==
    /\ pc = "efd" /\ Open("efd", "add", "close")
    /\ UNCHANGED <<Heap, ready, Histories>>
AddFds ==
    /\ pc = "add" /\ Check("loop", "close")
    /\ UNCHANGED <<Heap, Descriptors, ready, Histories>>

\* Wrong: first the input is read, as long as there is any.
InputFirst == "quit" \in ready /\ "input" \notin ready
QuitHasTurn == "quit" \in ready
HandleQuit ==
    /\ pc = "loop" /\ QuitHasTurn
    /\ pc' = "close"
    /\ UNCHANGED <<Heap, Descriptors, ready, Histories>>

\* handle_input: the application may queue an event.  At the end of the input
\* standard input stays readable.
HandleInput ==
    /\ pc = "loop" /\ "input" \in ready
    /\ \E left \in SUBSET {"input"}, event \in SUBSET {"vsm"} :
          ready' = (ready \ {"input"}) \cup left \cup event
    /\ UNCHANGED <<pc, Heap, Descriptors, Histories>>

\* vivid_binding_linux_handle_event: the machine runs, starts its timer or
\* stops it, and may have more to do.
HandleEvent ==
    /\ pc = "loop" /\ "vsm" \in ready
    /\ \E more \in SUBSET {"vsm"} : ready' = (ready \ {"vsm"}) \cup more
    /\ armed' \in BOOLEAN
    /\ UNCHANGED <<pc, Descriptors, live, id, thread, told, Histories>>

\* epoll_wait fails, for another reason than a signal.
WaitFails ==
    /\ pc = "loop" /\ pc' = "close"
    /\ UNCHANGED <<Heap, Descriptors, ready, Histories>>

\* handle_signal; after the end of the loop nobody reads what it writes.
Signal ==
    /\ pc \notin {"event", "signal", "end", "aborted", "undefined"} /\ ~signalled
    /\ signalled' = TRUE
    /\ ready' = IF "m_quit_event_fd" \in open THEN ready \cup {"quit"} ELSE ready
    /\ UNCHANGED <<pc, Heap, Descriptors, calm, touched>>

Typed ==
    /\ pc = "loop" /\ ready' = ready \cup {"input"}
    /\ UNCHANGED <<pc, Heap, Descriptors, Histories>>
--------------------------------------------------------------------------------
(* The end of main *)

CloseMain ==
    /\ pc = "close"
    /\ Close({"efd", "m_quit_event_fd"})
    /\ pc' = IF "application" \in live THEN "destroy queue"
             ELSE IF "binding" \in live THEN "destroy binding" ELSE "end"
    /\ UNCHANGED <<Heap, fd, ready, Histories>>

\* vivid_destroy_sm: the queue goes first, then the timers, then the rest.
DestroyQueue ==
    /\ pc = "destroy queue" /\ pc' = "destroy timer"
    /\ live' = live \ {"application"}
    /\ calm' = (~armed /\ thread # "expired")
    /\ UNCHANGED <<Descriptors, id, thread, told, armed, ready, signalled, touched>>

DestroyTimer ==
    /\ pc = "destroy timer" /\ pc' = "destroy binding"
    /\ live' = live \ {"timer"} /\ armed' = FALSE
    /\ UNCHANGED <<Descriptors, id, thread, told, ready, Histories>>

\* vivid_binding_linux_destroy: tell the thread to quit ...
TellThread ==
    /\ pc = "destroy binding"
    /\ pc' = IF "data" \notin live THEN "free" ELSE IF id = None THEN "close fds" ELSE "join"
    /\ told' = ("data" \in live /\ id # None)
    /\ UNCHANGED <<Descriptors, live, id, thread, armed, ready, Histories>>

\* Wrong: its descriptors are closed without waiting.
NoJoin == TRUE
\* ... wait for it ...
CanJoin == thread \in {"done", "off"}
Join ==
    /\ pc = "join" /\ CanJoin
    /\ pc' = IF id = "thread" THEN "close fds" ELSE "undefined"
    /\ UNCHANGED <<Heap, Descriptors, ready, Histories>>

\* ... close the descriptors and free the blocks.
CloseFds ==
    /\ pc = "close fds" /\ pc' = "free"
    /\ Close({"timer_efd", "event_fd", "quit_fd"})
    /\ UNCHANGED <<Heap, fd, ready, Histories>>

\* If main has closed its own descriptors it is at its end; if not, the binding
\* could not be created.
Free ==
    /\ pc = "free"
    /\ live' = live \ {"binding", "data", "mutex"}
    /\ pc' = IF "m_quit_event_fd" \in open THEN "close" ELSE "end"
    /\ UNCHANGED <<Descriptors, id, thread, told, armed, ready, Histories>>
--------------------------------------------------------------------------------
(* timer_thread *)

Expires ==
    /\ thread = "waiting" /\ armed
    /\ thread' = "expired"
    /\ UNCHANGED <<pc, Descriptors, live, id, told, armed, ready, Histories>>

\* read and callback: a read that fails has a result of -1, which is not less
\* than the unsigned size, so that the callback follows in any case.
Calls ==
    /\ thread = "expired" /\ thread' = "waiting"
    /\ touched' = (touched \/ ~({"timer", "application", "data"} \subseteq live))
    /\ ready' = ready \cup {"vsm"}
    /\ UNCHANGED <<pc, Descriptors, live, id, told, armed, signalled, calm>>

Quits ==
    /\ thread = "waiting" /\ told
    /\ thread' = "done"
    /\ UNCHANGED <<pc, Descriptors, live, id, told, armed, ready, Histories>>
--------------------------------------------------------------------------------
Creates == CreateEvent \/ SetHandlers \/ CreateBinding \/ CreateData \/ CreateMutex
              \/ OpenEventFd \/ OpenQuitFd \/ OpenEfd \/ AddQuitFd \/ CreateThread
              \/ CreateApplication \/ CreateEfd \/ AddFds
Loop == HandleQuit \/ HandleInput \/ HandleEvent \/ WaitFails
Leaves == CloseMain \/ DestroyQueue \/ DestroyTimer \/ TellThread \/ Join
              \/ CloseFds \/ Free
Thread == Expires \/ Calls \/ Quits

Ended == pc \in {"end", "aborted", "undefined"} /\ UNCHANGED vars

Next == Creates \/ Loop \/ Leaves \/ Thread \/ Signal \/ Typed \/ Ended
Spec == Init /\ [][Next]_vars

\* Both threads run on.  epoll_wait gives the descriptors that are readable in
\* turn, so that none of them waits for ever behind the others.
FairSpec ==
    /\ Spec
    /\ WF_vars(Creates) /\ WF_vars(Leaves) /\ WF_vars(Thread) /\ WF_vars(HandleQuit)
--------------------------------------------------------------------------------
(* Properties *)

\* However main ends, it has closed every descriptor, freed every block and
\* joined the thread (the label out of main, the label error of
\* vivid_binding_linux_create, vivid_binding_linux_destroy).
NothingLeft ==
    pc = "end" => open \subseteq {Stdin} /\ live = {} /\ thread \in {"off", "done"}

\* The application is destroyed while the thread runs: the thread uses freed
\* memory only if the timer ran, or had just expired, when that began.
SafeIfCalm == touched => ~calm

\* A signal ends the program, also while the thread is busy and input keeps
\* coming: quit_event_fd is handled in its turn, and the thread can be joined.
StopsOnSignal ==
    signalled /\ "quit" \in ready ~> pc \in {"end", "aborted", "undefined"}
================================================================================
