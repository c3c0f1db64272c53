SPECIFICATION FairSpec
CONSTANTS
    Producer = {p1, p2, p3}
    Value = {e1, e2}
    NoValue = noValue
    NoProducer = noProducer
    Capacity = 2
PROPERTIES ImplementsFifo FrontStable Drains
