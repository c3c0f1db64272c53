-------------------------------- MODULE Platforms --------------------------------
(***************************************************************************)
(* The example programs on libev, Windows and FreeRTOS, from main to its   *)
(* end: what main and the create function of the binding take, in their    *)
(* order and with every call that is checked able to fail, and what is     *)
(* given back on the way out.  (LinuxProcess is the one on Linux.)         *)
(***************************************************************************)
EXTENDS Naturals, SequencesExt

VARIABLES
    platform,       \* "libev", "win32" or "freertos"
    step,           \* the next step of the creation
    phase,          \* creation, the loop, the way out, or the end
    todo,           \* what is given back next, on the way out
    live,           \* the blocks and handles in use
    registered,     \* the blocks the loop or the system may still call back with
    armed,          \* the timer of the application runs
    expired,        \* a thread of the system is in the callback of the timer
    broken,         \* waiting for events fails, and will go on failing
    calm,           \* history: no timer was under way when the application went
    touched         \* history: memory was used after it was freed

vars == <<platform, step, phase, todo, live, registered, armed, expired, broken, calm, touched>>
--------------------------------------------------------------------------------
(* What there is to create, and what the destroy functions give back *)

LibevBinding == <<"me", "data">>
Win32Binding == <<"me", "data", "event_handle">>
FreertosBinding == <<"me", "data", "mutex">>
BindingParts == CASE platform = "libev"    -> LibevBinding
                  [] platform = "win32"    -> Win32Binding
                  [] platform = "freertos" -> FreertosBinding

\* The last block goes first.  (vivid_destroy_sm: the queue, the timers, the rest.)
BindingDestroy == Reverse(BindingParts)
ApplicationDestroy == <<"queue", "timer", "application">>

\* SetConsoleCtrlHandler and the handlers of libev leave nothing to give back.
LibevMain == LibevBinding \o <<"application", "watchers">>
Win32Main == <<"quit_event", "ctrl_handler">> \o Win32Binding \o <<"application">>
FreertosMain == <<"task">> \o FreertosBinding \o <<"application", "scheduler">>
Creation == CASE platform = "libev"    -> LibevMain
              [] platform = "win32"    -> Win32Main
              [] platform = "freertos" -> FreertosMain

CannotFail == {"watchers"}
Kept(x) == CASE x = "application" -> ToSet(ApplicationDestroy)
             [] x \in {"watchers", "ctrl_handler", "scheduler"} -> {}
             [] OTHER -> {x}

LibevOut == ApplicationDestroy \o BindingDestroy \o <<"loop">>
Win32Out == <<"quit_event">> \o ApplicationDestroy \o BindingDestroy
FreertosOut == ApplicationDestroy \o BindingDestroy \o <<"task">>
Out == CASE platform = "libev"    -> LibevOut
         [] platform = "win32"    -> Win32Out
         [] platform = "freertos" -> FreertosOut

\* What refers to a block that is freed goes with it: the wait on a timer of
\* Windows (UnregisterWait) and a timer of FreeRTOS (xTimerDelete), but not a
\* watcher of libev.  An event is in the list of the binding, or in the loop.
Unregisters == IF platform = "libev" THEN {} ELSE {"timer"}
Registers(x) == IF x = "application" THEN {"application", "timer"} ELSE {}
--------------------------------------------------------------------------------
Init ==
    /\ platform \in {"libev", "win32", "freertos"}
    /\ step = 1 /\ phase = "create" /\ todo = <<>>
    /\ live = {} /\ registered = {}
    /\ armed = FALSE /\ expired = FALSE /\ broken = FALSE
    /\ calm = TRUE /\ touched = FALSE

Timer == <<armed, expired>>
Histories == <<calm, touched>>

\* One call of main, or of the create function of the binding
Create ==
    /\ phase = "create"
    /\ live' = live \cup Kept(Creation[step])
    /\ registered' = registered \cup Registers(Creation[step])
    /\ step' = step + 1
    /\ phase' = IF step = Len(Creation) THEN "loop" ELSE phase
    /\ UNCHANGED <<platform, todo, Timer, broken, Histories>>

\* It fails: the binding gives back what it has, and main goes to its label out.
\* A machine that could not be created stays registered with its event.
CreateFails ==
    /\ phase = "create"
    /\ Creation[step] \notin CannotFail
    /\ phase' = "leave"
    /\ todo' = (IF Creation[step] \in ToSet(BindingParts) THEN BindingDestroy ELSE <<>>) \o Out
    /\ registered' \in {registered, registered \cup (Registers(Creation[step]) \ {"timer"})}
    /\ UNCHANGED <<platform, step, live, Timer, broken, Histories>>

\* The loop: vivid_binding_*_handle_event, or async_callback, runs the machine,
\* which starts its timer or stops it.
HandleEvent ==
    /\ phase = "loop" /\ ~broken
    /\ armed' \in BOOLEAN
    /\ UNCHANGED <<platform, step, phase, todo, live, registered, expired, broken, Histories>>

Leaves == phase' = "leave" /\ todo' = Out

\* SIGINT, SIGTERM or Ctrl-C; the scheduler of FreeRTOS does not return.
Quit ==
    /\ phase = "loop" /\ platform # "freertos" /\ ~broken
    /\ Leaves
    /\ UNCHANGED <<platform, step, live, registered, Timer, broken, Histories>>

\* WaitForMultipleObjects fails.  Its result is unsigned: the tests for less than
\* zero do not see it, and the default of the switch leaves only the switch.
WaitFails ==
    /\ phase = "loop" /\ platform = "win32"
    /\ broken' = TRUE
    /\ UNCHANGED <<platform, step, phase, todo, live, registered, Timer, Histories>>

\* A thread of the system enters the callback, and leaves it after the machine
\* has been told through the queue and the event of the binding.  The other loops
\* call it themselves, or (FreeRTOS) never end.
Uses == {"timer", "queue", "me", "data", "event_handle"}
\* Wrong: stop_timer leaves the timer running.
RunsOn == "timer" \in live
Runs == armed
Expires ==
    /\ platform = "win32" /\ "timer" \in registered /\ Runs /\ ~expired
    /\ phase # "ended"
    /\ expired' = TRUE
    /\ UNCHANGED <<platform, step, phase, todo, live, registered, armed, broken, Histories>>
Calls ==
    /\ expired /\ phase # "ended"
    /\ expired' = FALSE
    /\ touched' = (touched \/ ~(Uses \subseteq live))
    /\ UNCHANGED <<platform, step, phase, todo, live, registered, armed, broken, calm>>

\* The way out: one block or handle after the other, if it is there.
Leave ==
    /\ phase = "leave"
    /\ LET x == Head(todo) IN
       /\ live' = live \ {x}
       /\ registered' = CASE x = "loop" -> {}
                          [] x \in Unregisters -> registered \ {x}
                          [] OTHER -> registered
       /\ armed' = (armed /\ x # "timer")
       /\ calm' = IF x = "queue" THEN ~armed /\ ~expired ELSE calm
    /\ todo' = Tail(todo)
    /\ phase' = IF Len(todo) = 1 THEN "ended" ELSE phase
    /\ UNCHANGED <<platform, step, expired, broken, touched>>

Ended == phase = "ended" /\ UNCHANGED vars

Next == Create \/ CreateFails \/ HandleEvent \/ Quit \/ WaitFails \/ Expires \/ Calls
           \/ Leave \/ Ended
Spec == Init /\ [][Next]_vars
--------------------------------------------------------------------------------
(* Properties *)

\* However main ends, all it took has been given back: the label out of main and
\* the label error of the create functions.
NothingLeft == phase = "ended" => live = {}

\* On Windows a callback uses freed memory only if the timer ran, or had just
\* expired, when the destruction of the application began: UnregisterWait does
\* not wait for it.
SafeIfCalm == touched => ~calm
================================================================================
