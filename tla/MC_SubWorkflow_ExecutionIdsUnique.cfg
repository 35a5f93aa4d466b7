CONSTANTS
    p1 = p1
    p2 = p2
    c1 = c1
    c2 = c2
    c3 = c3
    NoCall = NoCall
    Parent <- MCParent
    Call <- MCCall
    CallParent <- MCCallParent
    MaxTime <- MCMaxTime
SPECIFICATION Spec
INVARIANT ExecutionIdsUnique
\* Every call, goroutine and CancelChildren loop of the finite instance
\* ends and the clock stops at its bound; that is not a deadlock of the code.
CHECK_DEADLOCK FALSE
