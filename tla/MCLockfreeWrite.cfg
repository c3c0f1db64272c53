SPECIFICATION TimelyClaimSpec
CONSTANTS
    Producer = {p1, p2, p3}
    Value = {e1}
    NoValue = noValue
    Capacity = 2
PROPERTIES WriteAdvances
