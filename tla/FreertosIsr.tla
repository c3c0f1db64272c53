-------------------------------- MODULE FreertosIsr --------------------------------
(***************************************************************************)
(* The FreeRTOS binding below its flags and notifications: events are      *)
(* triggered by interrupt handlers, which interrupt each other and the     *)
(* tasks, the mutex is the interrupt mask, and a handler that has woken    *)
(* the main task has to ask for a switch to it before it returns.          *)
(*                                                                         *)
(* Handlers nest by their priorities, so that those which have begun are   *)
(* the stack, and the one of the highest priority is running.              *)
(***************************************************************************)
EXTENDS Naturals

CONSTANTS
    Interrupt,      \* the handlers that trigger the event: their priorities
    Main,           \* the task of the binding
    Low             \* a task of lower priority, that triggers as well

ASSUME InterruptAssumption == Interrupt \subseteq Nat
ASSUME TaskAssumption == Main # Low /\ Main \notin Interrupt /\ Low \notin Interrupt

Context == Interrupt \cup {Main, Low}

VARIABLES
    yieldAfter,     \* VIVID_BINDING_FREERTOS_YIELD_AFTER_NOTIFY
    does,           \* context -> what it does next; "idle": nothing
    local,          \* context -> what the function it is in has got back
    masked,         \* the mask of interrupts is raised
    status,         \* mutex->interrupt_status
    isrTrig,        \* event->trig
    notified,       \* the main task has been sent its notify_mask
    main,           \* the main task is blocked, ready or running
    pended,         \* a switch of tasks will follow the last handler
    yieldRequired   \* m_yield_required

isrVars == <<yieldAfter, does, local, masked, status, isrTrig, notified, main, pended, yieldRequired>>

Labels == {"idle", "lock", "store", "set", "take", "unlock", "notify", "read", "clear", "yield"}

IsrInit ==
    /\ yieldAfter \in BOOLEAN
    /\ does = [c \in Context |-> "idle"]
    /\ local = [c \in Context |-> FALSE]
    /\ masked = FALSE /\ status = FALSE
    /\ isrTrig = FALSE /\ notified = FALSE
    /\ main = "running" /\ pended = FALSE /\ yieldRequired = FALSE

NoHandler == \A i \in Interrupt : does[i] = "idle"
Runs(c) ==
    IF c \in Interrupt
    THEN does[c] # "idle" /\ \A i \in Interrupt : i > c => does[i] = "idle"
    ELSE NoHandler /\ (c = Main <=> main = "running")

Goes(c, label) == does' = [does EXCEPT ![c] = label]

Kept == <<yieldAfter, notified, main, pended>>
--------------------------------------------------------------------------------
(* Who begins *)

\* USART0_Handler or another; the interrupts of the binding are among those that
\* the mask holds off.
Interrupted(i) ==
    /\ does[i] = "idle" /\ ~masked
    /\ \A j \in Interrupt : j >= i => does[j] = "idle"
    /\ Goes(i, "lock")
    /\ UNCHANGED <<Kept, local, masked, status, isrTrig, yieldRequired>>

LowTriggers ==
    /\ Runs(Low) /\ does[Low] = "idle"
    /\ Goes(Low, "lock")
    /\ UNCHANGED <<Kept, local, masked, status, isrTrig, yieldRequired>>

\* main_task: xTaskNotifyWait clears what it returns, and blocks without it.
NotifyWait ==
    /\ Runs(Main) /\ does[Main] = "idle"
    /\ IF notified THEN notified' = FALSE /\ Goes(Main, "lock") /\ UNCHANGED main
       ELSE main' = "blocked" /\ UNCHANGED <<notified, does>>
    /\ UNCHANGED <<yieldAfter, local, masked, status, isrTrig, pended, yieldRequired>>
--------------------------------------------------------------------------------
(* The mutex *)

Raised == masked' = TRUE

\* lock_mutex: the mask is raised first, what it was is stored then.
EnterCritical(c) ==
    /\ Runs(c) /\ does[c] = "lock"
    /\ local' = [local EXCEPT ![c] = masked] /\ Raised
    /\ Goes(c, "store")
    /\ UNCHANGED <<Kept, status, isrTrig, yieldRequired>>
StoreStatus(c) ==
    /\ Runs(c) /\ does[c] = "store"
    /\ status' = local[c]
    /\ Goes(c, IF c = Main THEN "take" ELSE "set")
    /\ UNCHANGED <<Kept, local, masked, isrTrig, yieldRequired>>

RaiseTrig(c) ==
    /\ Runs(c) /\ does[c] = "set"
    /\ isrTrig' = TRUE /\ Goes(c, "unlock")
    /\ UNCHANGED <<Kept, local, masked, status, yieldRequired>>
\* vivid_binding_freertos_handle_event; the callback is EventLoop's subject.
TakeTrig ==
    /\ Runs(Main) /\ does[Main] = "take"
    /\ isrTrig' = FALSE /\ Goes(Main, "unlock")
    /\ UNCHANGED <<Kept, local, masked, status, yieldRequired>>

\* Wrong: the trigger is told to no one.
NotTold(c) == "idle"
Afterwards(c) == IF c = Main THEN "idle" ELSE "notify"
Unlock(c) ==
    /\ Runs(c) /\ does[c] = "unlock"
    /\ masked' = status /\ Goes(c, Afterwards(c))
    /\ UNCHANGED <<Kept, local, status, isrTrig, yieldRequired>>
--------------------------------------------------------------------------------
(* trigger_event tells the main task *)

Wakes == main = "blocked"
Woken == main' = IF Wakes THEN "ready" ELSE main

\* xTaskNotify: the kernel switches by itself.
Notify ==
    /\ Runs(Low) /\ does[Low] = "notify"
    /\ notified' = TRUE /\ Woken /\ pended' = (pended \/ Wakes)
    /\ Goes(Low, "idle")
    /\ UNCHANGED <<yieldAfter, local, masked, status, isrTrig, yieldRequired>>

\* Wrong: what another handler has noted is overwritten.
NotesLast == yieldRequired' = Wakes
Notes == yieldRequired' = (yieldRequired \/ Wakes)

\* xTaskNotifyFromISR tells the handler whether it has woken the task: in a
\* variable of the function, or in the one that all handlers share.
NotifyFromISR(i) ==
    /\ Runs(i) /\ does[i] = "notify"
    /\ notified' = TRUE /\ Woken
    /\ IF yieldAfter
       THEN local' = [local EXCEPT ![i] = Wakes] /\ UNCHANGED yieldRequired
       ELSE Notes /\ UNCHANGED local
    /\ Goes(i, IF yieldAfter THEN "yield" ELSE "read")
    /\ UNCHANGED <<yieldAfter, masked, status, isrTrig, pended>>

\* vivid_binding_freertos_is_yield_required, in two steps.
ReadRequired(i) ==
    /\ Runs(i) /\ does[i] = "read"
    /\ local' = [local EXCEPT ![i] = yieldRequired] /\ Goes(i, "clear")
    /\ UNCHANGED <<Kept, masked, status, isrTrig, yieldRequired>>
ClearRequired(i) ==
    /\ Runs(i) /\ does[i] = "clear"
    /\ yieldRequired' = FALSE /\ Goes(i, "yield")
    /\ UNCHANGED <<Kept, local, masked, status, isrTrig>>

\* portYIELD_FROM_ISR, and the handler returns.
YieldFromISR(i) ==
    /\ Runs(i) /\ does[i] = "yield"
    /\ pended' = (pended \/ local[i]) /\ Goes(i, "idle")
    /\ UNCHANGED <<yieldAfter, local, masked, status, isrTrig, notified, main, yieldRequired>>

\* The switch of tasks, of the lowest priority of all interrupts.
Switch ==
    /\ pended /\ NoHandler /\ ~masked
    /\ pended' = FALSE
    /\ main' = IF main = "ready" THEN "running" ELSE main
    /\ UNCHANGED <<yieldAfter, does, local, masked, status, isrTrig, notified, yieldRequired>>
--------------------------------------------------------------------------------
IsrNext ==
    \/ \E i \in Interrupt :
          Interrupted(i) \/ NotifyFromISR(i) \/ ReadRequired(i) \/ ClearRequired(i) \/ YieldFromISR(i)
    \/ \E c \in Context : EnterCritical(c) \/ StoreStatus(c) \/ Unlock(c)
    \/ \E c \in Context \ {Main} : RaiseTrig(c)
    \/ LowTriggers \/ Notify
    \/ NotifyWait \/ TakeTrig
    \/ Switch
IsrSpec == IsrInit /\ [][IsrNext]_isrVars
--------------------------------------------------------------------------------
(* Properties *)

IsrTypeOK ==
    /\ does \in [Context -> Labels]
    /\ does[Main] \in {"idle", "lock", "store", "take", "unlock"}
    /\ does[Low] \in {"idle", "lock", "store", "set", "unlock", "notify"}
    /\ \A i \in Interrupt : does[i] # "take"
    /\ local \in [Context -> BOOLEAN]
    /\ main \in {"blocked", "ready", "running"}
    /\ yieldAfter \in BOOLEAN /\ masked \in BOOLEAN /\ status \in BOOLEAN /\ isrTrig \in BOOLEAN
    /\ notified \in BOOLEAN /\ pended \in BOOLEAN /\ yieldRequired \in BOOLEAN

Inside(c) == does[c] \in {"store", "set", "take", "unlock"}

\* The mutex works although all contexts keep what the mask was in the one place of
\* the mutex: no two are inside at once, interrupts are held off exactly while one is,
\* and what a handler was interrupted in is found again as it was.
MaskedInside ==
    /\ masked <=> \E c \in Context : Inside(c)
    /\ \A c, d \in Context : Inside(c) /\ Inside(d) => c = d

\* No handler leaves the woken task to wait for the next tick, whichever of the nested
\* ones has taken the flag that they share (m_yield_required is read and cleared in
\* two steps, and by handlers that have not set it).
SwitchFollows == NoHandler /\ main = "ready" => pended

\* The main task does not sleep on a trigger: a context that has set it is about to
\* tell, or has told.
ToldOfTrigger ==
    main = "blocked" /\ isrTrig => \E c \in Context : does[c] \in {"unlock", "notify"}
================================================================================
