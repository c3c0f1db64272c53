SPECIFICATION MCSpec
CONSTANTS
    Machine <- Machines
    List <- NewestFirst
    Caller = {c1, c2}
    Loop = loop
    QueueSize = 2
    Value = {e1}
    NoValue = noValue
    Interrupt = {1, 2, 3}
    Main = Main
    Low = Low
INVARIANTS SleepsOnlyIdle SwitchFollows ToldOfTrigger
PROPERTIES ImplementsService LockfreeServes
