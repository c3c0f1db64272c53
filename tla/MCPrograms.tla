------------------------------- MODULE MCPrograms -------------------------------
(***************************************************************************)
(* The example programs: dispatch and countdown as applications, and what  *)
(* their mains take and give back, on Linux and on the other platforms.    *)
(***************************************************************************)
EXTENDS Dispatch

CONSTANTS QueueSize, Length     \* of Countdown

VARIABLES part      \* the module whose steps are taken

VARIABLES todo, engineState, init, jump, stateChange, queue, trig, running, runs,
          dueTime, fired, stays, heard, fresh, notified, counter, ticks
VARIABLES pc, fd, open, live, id, thread, told, armed, ready, signalled, calm, touched
VARIABLES platform, step, phase, back, inUse, registered, started, expired, broken,
          wasCalm, used

Count == INSTANCE Countdown WITH state <- engineState, armed <- running,
                                 running <- runs, due <- dueTime
Linux == INSTANCE LinuxProcess
Other == INSTANCE Platforms WITH todo <- back, live <- inUse, armed <- started,
                                 calm <- wasCalm, touched <- used

dispatch == vars
countdown == <<todo, engineState, init, jump, stateChange, queue, trig, running, runs,
               dueTime, fired, stays, heard, fresh, notified, counter, ticks>>
linux == <<pc, fd, open, live, id, thread, told, armed, ready, signalled, calm, touched>>
other == <<platform, step, phase, back, inUse, registered, started, expired, broken,
           wasCalm, used>>
all == <<part, dispatch, countdown, linux, other>>

InDispatch(A) ==
    part = "dispatch" /\ A /\ UNCHANGED <<part, countdown, linux, other>>
InCountdown(A) ==
    part = "countdown" /\ A /\ UNCHANGED <<part, dispatch, linux, other>>
InLinux(A) ==
    part = "linux" /\ A /\ UNCHANGED <<part, dispatch, countdown, other>>
InOther(A) ==
    part = "other" /\ A /\ UNCHANGED <<part, dispatch, countdown, linux>>

MCInit ==
    /\ part \in {"dispatch", "countdown", "linux", "other"}
    /\ Init /\ Count!CountInit /\ Linux!Init /\ Other!Init
    /\ part # "other" => platform = "libev"

MCNext == InDispatch(Next) \/ InCountdown(Count!CountNext) \/ InLinux(Linux!Next)
             \/ InOther(Other!Next)

\* The fairness of Dispatch, of Countdown and of LinuxProcess.
MCSpec ==
    /\ MCInit /\ [][MCNext]_all
    /\ WF_all(InDispatch(Callee)) /\ WF_all(InDispatch(Timer))
    /\ \A c \in Caller : WF_all(InDispatch(Caller1(c)))
    /\ WF_all(InCountdown(Count!Engine /\ Count!Decides /\ Count!Acts))
    /\ \A t \in Count!Timer :
          /\ WF_all(InCountdown(Count!TimeComes(t) /\ Count!Acts))
          /\ WF_all(InCountdown(Count!TimerFires(t) /\ Count!Acts))
          /\ SF_all(InCountdown(Count!Expires(t) /\ Count!Acts))
    /\ WF_all(InLinux(Linux!Creates)) /\ WF_all(InLinux(Linux!Leaves))
    /\ WF_all(InLinux(Linux!Thread)) /\ WF_all(InLinux(Linux!HandleQuit))
--------------------------------------------------------------------------------
\* However main ends, on every platform, it has closed every descriptor, freed
\* every block and joined the thread it started (the label out of main, the label
\* error of the create functions, and the destroy functions).
NothingLeft == Linux!NothingLeft /\ Other!NothingLeft

\* A thread that runs the callback of a timer while the application is destroyed
\* uses freed memory only if the timer ran, or had just expired, when that began
\* (vivid_destroy_sm, destroy_timer of the bindings).
SafeIfCalm == Linux!SafeIfCalm /\ Other!SafeIfCalm

\* A signal ends the program on Linux, also while the thread is busy and input
\* keeps coming (the loop of main.c, vivid_binding_linux_destroy).
StopsOnSignal == Linux!StopsOnSignal

\* A countdown that is started rings after the seconds that were to be counted,
\* and comes back to idle (timing, cond_done and ringing of countdown.c).
Rings == Count!Rings
================================================================================
