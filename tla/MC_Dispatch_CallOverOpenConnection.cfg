CONSTANTS
    e1 = e1
    e2 = e2
    r1 = r1
    r2 = r2
    r3 = r3
    Engine <- MCEngine
    Request <- MCRequest
    NoEngine = NoEngine
    Pod <- MCPod
    MaxChanges <- MCMaxChanges
SYMMETRY MCSymmetry
SPECIFICATION Spec
INVARIANT CallOverOpenConnection
\* Every request returns and discovery stops after MaxChanges callbacks:
\* the finite instance then rests, which is not a deadlock of the code.
CHECK_DEADLOCK FALSE
