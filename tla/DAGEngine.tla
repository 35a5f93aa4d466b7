------------------------------ MODULE DAGEngine ------------------------------
(***************************************************************************)
(* The DAG scheduler of one engine: dagengine/engine.go.                   *)
(*                                                                         *)
(* The engine is taken in the state PreprocessDAG leaves it in (every      *)
(* node PENDING, ReadyCounter = len(Dependencies), Children lists built),  *)
(* and Run(ctx) is modelled from there.  Run launches one goroutine per    *)
(* root, each goroutine runs executeNode, and a successful node calls      *)
(* triggerChildren, which under the engine mutex decrements the counter    *)
(* of every child and launches the child whose counter reaches zero while  *)
(* it is still PENDING.  Run returns when the WaitGroup reaches zero.      *)
(*                                                                         *)
(* Data are abstracted away: the executor's result and error are an       *)
(* outcome chosen nondeterministically (success or failure), inputs are    *)
(* nil as in the code.  Dependencies are a set per node.                   *)
(***************************************************************************)
EXTENDS Integers, FiniteSets

CONSTANTS
    Node,       \* node ids of the graph
    Graphs,     \* the dependency relations a preprocessed engine may have
    NoNode      \* owner of the engine mutex when nobody holds it

ASSUME NodeAssumption == IsFiniteSet(Node)
ASSUME GraphsAssumption == Graphs \subseteq [Node -> SUBSET Node]
ASSUME NoNodeAssumption == NoNode \notin Node

VARIABLES
    deps,          \* n.Dependencies (fixed after preprocessing)
    status,        \* n.Status
    readyCounter,  \* n.ReadyCounter
    held,          \* n.mu is locked by a goroutine that has returned
    pc,            \* where the executeNode goroutine of n is
    toTrigger,     \* children the triggerChildren loop of n has yet to visit
    engineLock,    \* holder of e.mu (the node whose triggerChildren runs)
    wg,            \* e.wg, the WaitGroup counter
    rootsLeft,     \* roots Run's launch loop has not reached yet
    result,        \* "pending" while Run blocks, then the error it returns
    launches       \* history: how many goroutines were started for n

vars == <<deps, status, readyCounter, held, pc, toTrigger, engineLock, wg,
          rootsLeft, result, launches>>

Status == {"PENDING", "RUNNING", "COMPLETED", "FAILED"}

(* Goroutine stages of executeNode(n): not launched, launched and about to *)
(* lock n.mu to set RUNNING, running the task, waiting for e.mu at the     *)
(* start of triggerChildren, inside the triggerChildren loop, returned.    *)
PC == {"none", "start", "execute", "lockEngine", "trigger", "done"}

-----------------------------------------------------------------------------
(* Plausible bugs of the code below, each used to show that a property     *)
(* can fail: a counter initialised off by one, the launch test without the *)
(* counter, a launch without wg.Add(1), a failure path without wg.Done().  *)
InitialReadyCounterMinusOne(n) == Cardinality(deps[n]) - 1

InitialReadyCounterPlusOne(n) == Cardinality(deps[n]) + 1

ShouldLaunchWhilePending(c, cnt) == status[c] = "PENDING"

LaunchWithoutAdd(n) ==
    /\ pc' = [pc EXCEPT ![n] = "start"]
    /\ wg' = wg
    /\ launches' = [launches EXCEPT ![n] = @ + 1]

FailWithoutDone(n) ==
    /\ pc[n] = "execute"
    /\ ~held[n]
    /\ status' = [status EXCEPT ![n] = "FAILED"]
    /\ held' = [held EXCEPT ![n] = TRUE]
    /\ pc' = [pc EXCEPT ![n] = "done"]
    /\ UNCHANGED <<deps, readyCounter, toTrigger, engineLock, wg, rootsLeft,
                   result, launches>>

(* Run waits on the WaitGroup without first finishing its launch loop.   *)
RunReturnBeforeLoop ==
    /\ result = "pending"
    /\ wg = 0
    /\ result' = "nil"
    /\ UNCHANGED <<deps, status, readyCounter, held, pc, toTrigger,
                   engineLock, wg, rootsLeft, launches>>

-----------------------------------------------------------------------------
(* n.Children as PreprocessDAG builds it: every node listing n as a        *)
(* dependency.                                                             *)
Children(n) == {c \in Node : n \in deps[c]}

(* NewNode initialises ReadyCounter to len(deps).                          *)
InitialReadyCounter(n) == Cardinality(deps[n])

(* The condition under which triggerChildren launches child c once its     *)
(* counter has been decremented to cnt.                                    *)
ShouldLaunch(c, cnt) == cnt = 0 /\ status[c] = "PENDING"

(* go e.executeNode(ctx, n), preceded by e.wg.Add(1).                      *)
Launch(n) ==
    /\ pc' = [pc EXCEPT ![n] = "start"]
    /\ wg' = wg + 1
    /\ launches' = [launches EXCEPT ![n] = @ + 1]

Init ==
    /\ deps \in Graphs
    /\ status = [n \in Node |-> "PENDING"]
    /\ readyCounter = [n \in Node |-> InitialReadyCounter(n)]
    /\ held = [n \in Node |-> FALSE]
    /\ pc = [n \in Node |-> "none"]
    /\ toTrigger = [n \in Node |-> {}]
    /\ engineLock = NoNode
    /\ wg = 0
    /\ rootsLeft = {n \in Node : deps[n] = {}}
    /\ result = "pending"
    /\ launches = [n \in Node |-> 0]

-----------------------------------------------------------------------------
(* Run's loop over e.Nodes reaches root n (map order is unspecified).      *)
RunLaunchRoot(n) ==
    /\ n \in rootsLeft
    /\ rootsLeft' = rootsLeft \ {n}
    /\ Launch(n)
    /\ UNCHANGED <<deps, status, readyCounter, held, toTrigger, engineLock,
                   result>>

(* e.wg.Wait() returns once the loop is over and the counter is zero;     *)
(* Run then returns nil: the final-status check is left as a comment.      *)
RunReturn ==
    /\ result = "pending"
    /\ rootsLeft = {}
    /\ wg = 0
    /\ result' = "nil"
    /\ UNCHANGED <<deps, status, readyCounter, held, pc, toTrigger,
                   engineLock, wg, rootsLeft, launches>>

(* executeNode, lines 50-52: lock n.mu, Status = RUNNING, unlock.          *)
SetRunning(n) ==
    /\ pc[n] = "start"
    /\ ~held[n]
    /\ status' = [status EXCEPT ![n] = "RUNNING"]
    /\ pc' = [pc EXCEPT ![n] = "execute"]
    /\ UNCHANGED <<deps, readyCounter, held, toTrigger, engineLock, wg,
                   rootsLeft, result, launches>>

(* The task returns an error: Status = FAILED and the goroutine returns    *)
(* through the deferred wg.Done() without unlocking n.mu.                  *)
Fail(n) ==
    /\ pc[n] = "execute"
    /\ ~held[n]
    /\ status' = [status EXCEPT ![n] = "FAILED"]
    /\ held' = [held EXCEPT ![n] = TRUE]
    /\ pc' = [pc EXCEPT ![n] = "done"]
    /\ wg' = wg - 1
    /\ UNCHANGED <<deps, readyCounter, toTrigger, engineLock, rootsLeft,
                   result, launches>>

(* The task succeeds: Status = COMPLETED under n.mu, then triggerChildren. *)
Complete(n) ==
    /\ pc[n] = "execute"
    /\ ~held[n]
    /\ status' = [status EXCEPT ![n] = "COMPLETED"]
    /\ pc' = [pc EXCEPT ![n] = "lockEngine"]
    /\ UNCHANGED <<deps, readyCounter, held, toTrigger, engineLock, wg,
                   rootsLeft, result, launches>>

(* triggerChildren takes e.mu and starts its loop over n.Children.         *)
AcquireEngine(n) ==
    /\ pc[n] = "lockEngine"
    /\ engineLock = NoNode
    /\ engineLock' = n
    /\ toTrigger' = [toTrigger EXCEPT ![n] = Children(n)]
    /\ pc' = [pc EXCEPT ![n] = "trigger"]
    /\ UNCHANGED <<deps, status, readyCounter, held, wg, rootsLeft, result,
                   launches>>

(* One iteration for child c (the Children order follows map iteration):   *)
(* lock c.mu, ReadyCounter--, launch c if it reached 0 while PENDING.      *)
TriggerChild(n, c) ==
    /\ pc[n] = "trigger"
    /\ c \in toTrigger[n]
    /\ ~held[c]
    /\ readyCounter' = [readyCounter EXCEPT ![c] = @ - 1]
    /\ toTrigger' = [toTrigger EXCEPT ![n] = @ \ {c}]
    /\ IF ShouldLaunch(c, readyCounter[c] - 1)
         THEN Launch(c)
         ELSE UNCHANGED <<pc, wg, launches>>
    /\ UNCHANGED <<deps, status, held, engineLock, rootsLeft, result>>

(* The loop is over: e.mu is released and the deferred wg.Done() runs.     *)
TriggerDone(n) ==
    /\ pc[n] = "trigger"
    /\ toTrigger[n] = {}
    /\ engineLock' = NoNode
    /\ pc' = [pc EXCEPT ![n] = "done"]
    /\ wg' = wg - 1
    /\ UNCHANGED <<deps, status, readyCounter, held, toTrigger, rootsLeft,
                   result, launches>>

(* Run has returned: the scheduler does nothing more.                      *)
Terminated ==
    /\ result # "pending"
    /\ UNCHANGED vars

NodeStep(n) ==
    \/ SetRunning(n)
    \/ Fail(n)
    \/ Complete(n)
    \/ AcquireEngine(n)
    \/ \E c \in Node : TriggerChild(n, c)
    \/ TriggerDone(n)

RunStep ==
    \/ \E n \in Node : RunLaunchRoot(n)
    \/ RunReturn

Next ==
    \/ RunStep
    \/ \E n \in Node : NodeStep(n)
    \/ Terminated

Spec == Init /\ [][Next]_vars

(* Go schedules every runnable goroutine eventually, and the executor is   *)
(* assumed to return: each goroutine, and Run itself, is weakly fair.      *)
FairSpec == Spec /\ WF_vars(RunStep) /\ \A n \in Node : WF_vars(NodeStep(n))

-----------------------------------------------------------------------------
(* Properties                                                              *)

TypeOK ==
    /\ deps \in [Node -> SUBSET Node]
    /\ status \in [Node -> Status]
    /\ readyCounter \in [Node -> Int]
    /\ held \in [Node -> BOOLEAN]
    /\ pc \in [Node -> PC]
    /\ toTrigger \in [Node -> SUBSET Node]
    /\ engineLock \in Node \cup {NoNode}
    /\ wg \in Int
    /\ rootsLeft \subseteq Node
    /\ result \in {"pending", "nil"}
    /\ launches \in [Node -> Nat]

(* Topological order (spec section 8, invariant 1): a node's goroutine is  *)
(* started only when every dependency has COMPLETED.  It rests on the      *)
(* ReadyCounter bookkeeping of NewNode and triggerChildren being exact for *)
(* every interleaving of the parents' triggerChildren loops.               *)
StartedAfterDependencies ==
    \A n \in Node : pc[n] # "none" =>
        \A u \in deps[n] : status[u] = "COMPLETED"

(* At-most-once execution (spec section 8, invariant 2): triggerChildren   *)
(* never launches a second goroutine for a node, whichever parent brings   *)
(* its counter to zero and however the children's own goroutines race.    *)
AtMostOnce ==
    \A n \in Node : launches[n] <= 1

(* When Run's wg.Wait() returns, no executeNode goroutine is still alive:  *)
(* the child's wg.Add(1) inside triggerChildren happens before the         *)
(* parent's deferred wg.Done(), so the counter never touches zero early.   *)
ReturnMeansQuiescent ==
    result # "pending" => \A n \in Node : pc[n] \in {"none", "done"}

(* If no task fails, Run returns only after every node has COMPLETED: the  *)
(* counters reach zero for every node of an acyclic graph, so no node is   *)
(* left PENDING.                                                           *)
CompletesWhenNoFailure ==
    (result # "pending" /\ \A n \in Node : status[n] # "FAILED")
        => \A n \in Node : status[n] = "COMPLETED"

(* The scheduler implements the contract of spec 4.1 (DAGSchedule), for   *)
(* every graph, cycles included: n.Status changes only as a node starting  *)
(* once its dependencies COMPLETED or a running node finishing, and Run's  *)
(* wg.Wait() returns only when nothing runs and no PENDING node has all    *)
(* its dependencies COMPLETED, i.e. triggerChildren has launched every     *)
(* node it could before the last wg.Done().                                *)
Schedule == INSTANCE DAGSchedule

DAGRefinement == Schedule!Spec

(* The dependency relation g is acyclic, stated as the proofs use it:     *)
(* every non-empty set of nodes has a member none of whose dependencies is *)
(* in the set (for a finite graph, the same as having no cycle).  Spec 4.1 *)
(* has preprocessing reject any cycle; the engine itself does not        *)
(* check it (engine.go:24).                                                *)
IsDag(g) == \A S \in SUBSET Node : S # {} => \E n \in S : g[n] \cap S = {}

(* Run eventually returns (spec 4.1, termination guarantee): no goroutine  *)
(* blocks forever, not even on the n.mu that a failed node leaves locked.  *)
Termination == <>(result # "pending")

=============================================================================
