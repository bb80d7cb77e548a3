SPECIFICATION Spec
CONSTANTS
    Names <- InOrder
    Cases <- SomeCases
    Paces = {"relaxed"}
    Lengths = {30, 240}
    Clocks = {720, 1120}
    MaxChanges = 2
    MaxAge = 1
INVARIANT TrainsStay
CHECK_DEADLOCK FALSE
