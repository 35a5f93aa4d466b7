CONSTANTS
    x1 = x1
    x2 = x2
    x3 = x3
    x4 = x4
    Exec <- MCExec
    Capacity <- MCCapacity

SPECIFICATION Spec
INVARIANT WithinCapacity
\* Once every call has been made and every goroutine has returned, the
\* finite instance rests; that is not a deadlock of the code.
CHECK_DEADLOCK FALSE
