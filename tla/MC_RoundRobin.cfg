CONSTANTS
    e1 = e1
    e2 = e2
    c1 = c1
    c2 = c2
    NoEngine = NoEngine
    Engine <- MCEngine
    Caller <- MCCaller
    Capacity <- MCCapacity
SYMMETRY MCSymmetry
INIT Init
NEXT Next
INVARIANT SelectNeverPanics
