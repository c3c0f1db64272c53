SPECIFICATION TimelySpec
CONSTANTS
    Producer = {p1, p2, p3}
    Value = {e1, e2}
    NoValue = noValue
    Capacity = 2
SYMMETRY Symmetry
INVARIANTS NoneStranded
PROPERTIES ImplementsFifo FrontStable
