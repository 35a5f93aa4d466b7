----------------------------- MODULE DAGSchedule -----------------------------
(***************************************************************************)
(* What running a preprocessed engine promises (spec 4.1 and the           *)
(* invariants of spec section 8), with goroutines, locks, counters and the *)
(* WaitGroup left out.  A node starts only while PENDING and once every    *)
(* dependency has COMPLETED; a started node finishes COMPLETED or FAILED;  *)
(* Run returns only when no node is running and no node could still start *)
(* (a node behind a failed dependency, or on a cycle, never can), and      *)
(* after it has returned nothing starts.                                   *)
(***************************************************************************)
CONSTANTS
    Node,       \* node ids of the graph
    Graphs      \* the dependency relations the engine may be given

VARIABLES
    deps,       \* the dependencies of each node, fixed
    status,     \* the status of each node
    result      \* "pending" until Run returns

vars == <<deps, status, result>>

Init ==
    /\ deps \in Graphs
    /\ status = [n \in Node |-> "PENDING"]
    /\ result = "pending"

(* Node n may start: it is PENDING and all its dependencies COMPLETED.     *)
Ready(n) ==
    /\ status[n] = "PENDING"
    /\ \A u \in deps[n] : status[u] = "COMPLETED"

Start(n) ==
    /\ result = "pending"
    /\ Ready(n)
    /\ status' = [status EXCEPT ![n] = "RUNNING"]
    /\ UNCHANGED <<deps, result>>

Finish(n) ==
    /\ status[n] = "RUNNING"
    /\ \E s \in {"COMPLETED", "FAILED"} : status' = [status EXCEPT ![n] = s]
    /\ UNCHANGED <<deps, result>>

Return ==
    /\ result = "pending"
    /\ \A n \in Node : status[n] # "RUNNING" /\ ~Ready(n)
    /\ result' = "nil"
    /\ UNCHANGED <<deps, status>>

Next ==
    \/ \E n \in Node : Start(n) \/ Finish(n)
    \/ Return

Spec == Init /\ [][Next]_vars

=============================================================================
