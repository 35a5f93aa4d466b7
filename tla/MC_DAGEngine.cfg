CONSTANTS
    Node <- MCNode
    Graphs <- MCGraphs
    NoNode = NoNode

SPECIFICATION FairSpec

\* A state in which a goroutine is stuck before Run returns violates
\* Termination itself, which is stronger than deadlock freedom here.
CHECK_DEADLOCK FALSE

INVARIANT StartedAfterDependencies
INVARIANT AtMostOnce
INVARIANT ReturnMeansQuiescent
INVARIANT CompletesWhenNoFailure
PROPERTY Termination
PROPERTY DAGRefinement
