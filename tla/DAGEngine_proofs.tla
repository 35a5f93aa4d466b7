-------------------------- MODULE DAGEngine_proofs --------------------------
(***************************************************************************)
(* Proofs about the DAG scheduler of DAGEngine, for every finite set of    *)
(* nodes and every dependency relation.                                    *)
(***************************************************************************)
EXTENDS DAGEngine, FiniteSetTheorems, TLAPS

(* Parent u has already decremented the counter of child c: its            *)
(* triggerChildren loop is past c, or over after the node COMPLETED.       *)
Triggered(u, c) ==
    \/ pc[u] = "done" /\ status[u] = "COMPLETED"
    \/ pc[u] = "trigger" /\ c \notin toTrigger[u]

(* The dependencies of c that have not decremented its counter yet.        *)
Waiting(c) == {u \in deps[c] : ~Triggered(u, c)}

(* The stage of the goroutine of n determines n.Status.                    *)
StatusMatchesPC(n) ==
    /\ pc[n] \in {"none", "start"} => status[n] = "PENDING"
    /\ pc[n] = "execute" => status[n] = "RUNNING"
    /\ pc[n] \in {"lockEngine", "trigger"} => status[n] = "COMPLETED"
    /\ pc[n] = "done" => status[n] \in {"COMPLETED", "FAILED"}

(* The parts of the inductive strengthening of StartedAfterDependencies   *)
(* and AtMostOnce.                                                         *)
StatusInv == \A n \in Node : StatusMatchesPC(n)

(* triggerChildren only visits children, and only while it runs.           *)
TriggerInv ==
    \A n \in Node :
        /\ toTrigger[n] \subseteq Children(n)
        /\ pc[n] # "trigger" => toTrigger[n] = {}

(* ReadyCounter counts exactly the dependencies that have not yet          *)
(* decremented it.                                                         *)
CounterInv == \A c \in Node : readyCounter[c] = Cardinality(Waiting(c))

(* A launched node waits for nobody.                                       *)
StartedInv == \A n \in Node : pc[n] # "none" => Waiting(n) = {}

(* Run's loop only has unlaunched roots left to launch.                    *)
RootsInv == \A n \in rootsLeft : deps[n] = {} /\ pc[n] = "none"

(* A node has been launched once if its goroutine exists, never else.      *)
LaunchInv == \A n \in Node : launches[n] = IF pc[n] = "none" THEN 0 ELSE 1

IInv ==
    /\ TypeOK
    /\ StatusInv
    /\ TriggerInv
    /\ CounterInv
    /\ StartedInv
    /\ RootsInv
    /\ LaunchInv

-----------------------------------------------------------------------------
(* Every subset of the nodes is finite and has a natural cardinality.      *)
LEMMA SubsetCardinality ==
    ASSUME NEW S \in SUBSET Node
    PROVE  IsFiniteSet(S) /\ Cardinality(S) \in Nat
BY NodeAssumption, FS_Subset, FS_CardinalityType

(* Type correctness of the scheduler (TypeOK is inductive by itself).      *)
LEMMA TypeInit == Init => TypeOK
<1> SUFFICES ASSUME Init PROVE TypeOK
    OBVIOUS
<1>1. deps \in [Node -> SUBSET Node]
    BY GraphsAssumption DEF Init
<1>2. readyCounter \in [Node -> Int]
    BY <1>1, SubsetCardinality DEF Init, InitialReadyCounter
<1>3. QED
    BY <1>1, <1>2, NoNodeAssumption DEF Init, TypeOK, Status, PC

LEMMA TypeStep == TypeOK /\ [Next]_vars => TypeOK'
<1> SUFFICES ASSUME TypeOK, [Next]_vars PROVE TypeOK'
    OBVIOUS
<1>1. ASSUME NEW n \in Node, RunLaunchRoot(n) PROVE TypeOK'
    BY <1>1 DEF RunLaunchRoot, Launch, TypeOK, PC
<1>2. CASE RunReturn
    BY <1>2 DEF RunReturn, TypeOK
<1>3. ASSUME NEW n \in Node, SetRunning(n) PROVE TypeOK'
    BY <1>3 DEF SetRunning, TypeOK, Status, PC
<1>4. ASSUME NEW n \in Node, Fail(n) PROVE TypeOK'
    BY <1>4 DEF Fail, TypeOK, Status, PC
<1>5. ASSUME NEW n \in Node, Complete(n) PROVE TypeOK'
    BY <1>5 DEF Complete, TypeOK, Status, PC
<1>6. ASSUME NEW n \in Node, AcquireEngine(n) PROVE TypeOK'
    BY <1>6 DEF AcquireEngine, Children, TypeOK, PC
<1>7. ASSUME NEW n \in Node, NEW c \in Node, TriggerChild(n, c)
      PROVE TypeOK'
    BY <1>7 DEF TriggerChild, Launch, TypeOK, PC
<1>8. ASSUME NEW n \in Node, TriggerDone(n) PROVE TypeOK'
    BY <1>8 DEF TriggerDone, TypeOK, PC
<1>9. CASE Terminated \/ UNCHANGED vars
    BY <1>9 DEF Terminated, vars, TypeOK
<1>10. QED
    BY <1>1, <1>2, <1>3, <1>4, <1>5, <1>6, <1>7, <1>8, <1>9
    DEF Next, RunStep, NodeStep

LEMMA TypeCorrect == Spec => []TypeOK
BY TypeInit, TypeStep, PTL DEF Spec

-----------------------------------------------------------------------------
(* The strengthened invariant holds initially: nobody has triggered        *)
(* anybody, so every dependency is still waited for.                       *)
LEMMA IInvInit == Init => IInv
<1> SUFFICES ASSUME Init PROVE IInv
    OBVIOUS
<1>1. TypeOK
    BY TypeInit
<1>2. \A c \in Node : Waiting(c) = deps[c]
    BY <1>1 DEF Init, TypeOK, Waiting, Triggered
<1>3. QED
    BY <1>1, <1>2
    DEF Init, IInv, StatusInv, StatusMatchesPC, TriggerInv, CounterInv,
        InitialReadyCounter, StartedInv, RootsInv, LaunchInv

(* A step that changes neither deps nor whether any parent has triggered   *)
(* any child leaves every Waiting set as it is.                            *)
LEMMA WaitingUnchanged ==
    ASSUME TypeOK,
           deps' = deps,
           \A u, c \in Node : Triggered(u, c)' <=> Triggered(u, c)
    PROVE  \A c \in Node : Waiting(c)' = Waiting(c)
BY DEF TypeOK, Waiting

(* A step that changes neither deps, readyCounter, toTrigger, nor any      *)
(* Waiting set keeps the counter and trigger parts of the invariant.       *)
LEMMA CounterFrame ==
    ASSUME IInv,
           UNCHANGED <<deps, readyCounter, toTrigger>>,
           \A c \in Node : Waiting(c)' = Waiting(c)
    PROVE  CounterInv' /\ (\A n \in Node : toTrigger'[n] \subseteq Children(n)')
BY DEF IInv, CounterInv, TriggerInv, Children

(* Every step preserves the strengthened invariant: one case per action,   *)
(* and under it one step per part the action can disturb.                  *)
LEMMA IInvStep == IInv /\ [Next]_vars => IInv'
<1> SUFFICES ASSUME IInv, [Next]_vars PROVE IInv'
    OBVIOUS
<1>0. TypeOK /\ TypeOK'
    BY TypeStep DEF IInv
<1>1. ASSUME NEW n \in Node, RunLaunchRoot(n) PROVE IInv'
    <2>1. pc[n] = "none" /\ deps[n] = {}
        BY <1>1 DEF RunLaunchRoot, IInv, RootsInv
    <2>2. \A u, c \in Node : Triggered(u, c)' <=> Triggered(u, c)
        BY <1>1, <2>1 DEF RunLaunchRoot, Launch, Triggered
    <2>3. \A c \in Node : Waiting(c)' = Waiting(c)
        BY <1>0, <1>1, <2>2, WaitingUnchanged DEF RunLaunchRoot
    <2>4. CounterInv' /\ (\A m \in Node : toTrigger'[m] \subseteq Children(m)')
        BY <1>1, <2>3, CounterFrame DEF RunLaunchRoot
    <2>5. TriggerInv'
        BY <1>0, <1>1, <2>1, <2>4 DEF IInv, TriggerInv, RunLaunchRoot, Launch,
                                     TypeOK
    <2>6. StatusInv'
        BY <1>0, <1>1, <2>1 DEF IInv, StatusInv, StatusMatchesPC,
                               RunLaunchRoot, Launch, TypeOK
    <2>7. StartedInv'
        BY <1>0, <1>1, <2>1, <2>3 DEF IInv, StartedInv, RunLaunchRoot, Launch,
                                     Waiting, TypeOK
    <2>8. RootsInv' /\ LaunchInv'
        BY <1>0, <1>1, <2>1 DEF IInv, RootsInv, LaunchInv, RunLaunchRoot,
                               Launch, TypeOK
    <2>9. QED
        BY <1>0, <2>4, <2>5, <2>6, <2>7, <2>8 DEF IInv
<1>2. CASE RunReturn
    <2>1. \A c \in Node : Waiting(c)' = Waiting(c)
        BY <1>2 DEF RunReturn, Waiting, Triggered
    <2>2. QED
        BY <1>0, <1>2, <2>1
        DEF IInv, RunReturn, StatusInv, StatusMatchesPC, TriggerInv, Children,
            CounterInv, StartedInv, RootsInv, LaunchInv
<1>3. ASSUME NEW n \in Node, SetRunning(n) PROVE IInv'
    <2>1. \A u, c \in Node : Triggered(u, c)' <=> Triggered(u, c)
        BY <1>0, <1>3 DEF SetRunning, Triggered, TypeOK
    <2>2. \A c \in Node : Waiting(c)' = Waiting(c)
        BY <1>0, <1>3, <2>1, WaitingUnchanged DEF SetRunning
    <2>3. CounterInv' /\ (\A m \in Node : toTrigger'[m] \subseteq Children(m)')
        BY <1>3, <2>2, CounterFrame DEF SetRunning
    <2>4. StatusInv'
        BY <1>0, <1>3 DEF IInv, StatusInv, StatusMatchesPC, SetRunning, TypeOK
    <2>5. QED
        BY <1>0, <1>3, <2>2, <2>3, <2>4
        DEF IInv, SetRunning, TriggerInv, StartedInv, RootsInv, LaunchInv,
            TypeOK
<1>4. ASSUME NEW n \in Node, Fail(n) PROVE IInv'
    <2>1. \A u, c \in Node : Triggered(u, c)' <=> Triggered(u, c)
        BY <1>0, <1>4 DEF Fail, Triggered, TypeOK
    <2>2. \A c \in Node : Waiting(c)' = Waiting(c)
        BY <1>0, <1>4, <2>1, WaitingUnchanged DEF Fail
    <2>3. CounterInv' /\ (\A m \in Node : toTrigger'[m] \subseteq Children(m)')
        BY <1>4, <2>2, CounterFrame DEF Fail
    <2>4. StatusInv'
        BY <1>0, <1>4 DEF IInv, StatusInv, StatusMatchesPC, Fail, TypeOK
    <2>5. QED
        BY <1>0, <1>4, <2>2, <2>3, <2>4
        DEF IInv, Fail, TriggerInv, StartedInv, RootsInv, LaunchInv, TypeOK
<1>5. ASSUME NEW n \in Node, Complete(n) PROVE IInv'
    <2>1. \A u, c \in Node : Triggered(u, c)' <=> Triggered(u, c)
        BY <1>0, <1>5 DEF Complete, Triggered, TypeOK
    <2>2. \A c \in Node : Waiting(c)' = Waiting(c)
        BY <1>0, <1>5, <2>1, WaitingUnchanged DEF Complete
    <2>3. CounterInv' /\ (\A m \in Node : toTrigger'[m] \subseteq Children(m)')
        BY <1>5, <2>2, CounterFrame DEF Complete
    <2>4. StatusInv'
        BY <1>0, <1>5 DEF IInv, StatusInv, StatusMatchesPC, Complete, TypeOK
    <2>5. QED
        BY <1>0, <1>5, <2>2, <2>3, <2>4
        DEF IInv, Complete, TriggerInv, StartedInv, RootsInv, LaunchInv,
            TypeOK
<1>6. ASSUME NEW n \in Node, AcquireEngine(n) PROVE IInv'
    <2>1. \A c \in Node : Waiting(c)' = Waiting(c)
        BY <1>0, <1>6 DEF AcquireEngine, Waiting, Triggered, Children, TypeOK
    <2>2. CounterInv'
        BY <1>6, <2>1 DEF IInv, CounterInv, AcquireEngine
    <2>3. TriggerInv'
        BY <1>0, <1>6 DEF IInv, TriggerInv, AcquireEngine, Children, TypeOK
    <2>4. StatusInv'
        BY <1>0, <1>6 DEF IInv, StatusInv, StatusMatchesPC, AcquireEngine,
                         TypeOK
    <2>5. QED
        BY <1>0, <1>6, <2>1, <2>2, <2>3, <2>4
        DEF IInv, AcquireEngine, StartedInv, RootsInv, LaunchInv, TypeOK
<1>7. ASSUME NEW n \in Node, NEW c \in Node, TriggerChild(n, c)
      PROVE IInv'
    <2>1. n \in Waiting(c)
        BY <1>0, <1>7 DEF TriggerChild, IInv, TriggerInv, Waiting, Triggered,
                         Children
    <2>2. pc[c] = "none"
        BY <2>1 DEF IInv, StartedInv
    <2>3. Waiting(c)' = Waiting(c) \ {n}
        BY <1>0, <1>7, <2>2 DEF TriggerChild, Launch, Waiting, Triggered,
                               TypeOK
    <2>4. \A x \in Node \ {c} : Waiting(x)' = Waiting(x)
        BY <1>0, <1>7, <2>2 DEF TriggerChild, Launch, Waiting, Triggered,
                               TypeOK
    <2>5. Cardinality(Waiting(c)') = Cardinality(Waiting(c)) - 1
        <3>1. Waiting(c) \in SUBSET Node
            BY <1>0 DEF Waiting, TypeOK
        <3>2. IsFiniteSet(Waiting(c))
            BY <3>1, SubsetCardinality
        <3>3. QED
            BY <2>1, <2>3, <3>2, FS_RemoveElement
    <2>6. CounterInv'
        BY <1>0, <1>7, <2>4, <2>5 DEF IInv, CounterInv, TriggerChild, TypeOK
    <2>7. TriggerInv'
        <3>1. \A m \in Node : toTrigger'[m] \subseteq Children(m)'
            BY <1>0, <1>7 DEF IInv, TriggerInv, TriggerChild, Children, TypeOK
        <3>2. pc'[c] \in {pc[c], "start"} /\ \A m \in Node \ {c} : pc'[m] = pc[m]
            BY <1>0, <1>7 DEF TriggerChild, Launch, TypeOK
        <3>3. QED
            BY <1>0, <1>7, <2>2, <3>1, <3>2
            DEF IInv, TriggerInv, TriggerChild, TypeOK
    <2>8. CASE ShouldLaunch(c, readyCounter[c] - 1)
        <3>1. Waiting(c)' = {}
            <4>1. Cardinality(Waiting(c)') = 0
                BY <1>0, <1>7, <2>6, <2>8
                DEF CounterInv, ShouldLaunch, TriggerChild, TypeOK
            <4>2. IsFiniteSet(Waiting(c)')
                BY <1>0, SubsetCardinality DEF Waiting, TypeOK
            <4>3. QED
                BY <4>1, <4>2, FS_EmptySet
        <3>2. StatusInv'
            BY <1>0, <1>7, <2>2, <2>8 DEF IInv, StatusInv, StatusMatchesPC,
                                     TriggerChild, Launch, ShouldLaunch, TypeOK
        <3>3. StartedInv'
            BY <1>0, <1>7, <2>4, <2>8, <3>1
            DEF IInv, StartedInv, TriggerChild, Launch, ShouldLaunch, TypeOK
        <3>4. RootsInv' /\ LaunchInv'
            BY <1>0, <1>7, <2>1, <2>2, <2>8
            DEF IInv, RootsInv, LaunchInv, TriggerChild, Launch, ShouldLaunch,
                Waiting, TypeOK
        <3>5. QED
            BY <1>0, <2>6, <2>7, <3>2, <3>3, <3>4 DEF IInv
    <2>9. CASE ~ShouldLaunch(c, readyCounter[c] - 1)
        <3>1. UNCHANGED <<pc, launches, status, rootsLeft, deps>>
            BY <1>7, <2>9 DEF TriggerChild
        <3>2. StartedInv'
            BY <1>0, <2>2, <2>4, <3>1 DEF IInv, StartedInv, TypeOK
        <3>3. QED
            BY <1>0, <2>6, <2>7, <3>1, <3>2
            DEF IInv, StatusInv, StatusMatchesPC, RootsInv, LaunchInv
    <2>10. QED
        BY <2>8, <2>9
<1>8. ASSUME NEW n \in Node, TriggerDone(n) PROVE IInv'
    <2>1. status[n] = "COMPLETED"
        BY <1>8 DEF TriggerDone, IInv, StatusInv, StatusMatchesPC
    <2>2. \A u, c \in Node : Triggered(u, c)' <=> Triggered(u, c)
        BY <1>8, <2>1 DEF TriggerDone, Triggered
    <2>3. \A c \in Node : Waiting(c)' = Waiting(c)
        BY <1>0, <1>8, <2>2, WaitingUnchanged DEF TriggerDone
    <2>4. CounterInv' /\ (\A m \in Node : toTrigger'[m] \subseteq Children(m)')
        BY <1>8, <2>3, CounterFrame DEF TriggerDone
    <2>5. StatusInv'
        BY <1>0, <1>8, <2>1 DEF IInv, StatusInv, StatusMatchesPC, TriggerDone,
                               TypeOK
    <2>6. QED
        BY <1>0, <1>8, <2>3, <2>4, <2>5
        DEF IInv, TriggerDone, TriggerInv, StartedInv, RootsInv, LaunchInv,
            TypeOK
<1>9. CASE Terminated \/ UNCHANGED vars
    <2>1. UNCHANGED vars
        BY <1>9 DEF Terminated
    <2>2. \A c \in Node : Waiting(c)' = Waiting(c)
        BY <2>1 DEF vars, Waiting, Triggered
    <2>3. QED
        BY <1>0, <2>1, <2>2
        DEF vars, IInv, StatusInv, StatusMatchesPC, TriggerInv, Children,
            CounterInv, StartedInv, RootsInv, LaunchInv
<1>10. QED
    BY <1>1, <1>2, <1>3, <1>4, <1>5, <1>6, <1>7, <1>8, <1>9
    DEF Next, RunStep, NodeStep

LEMMA IInvCorrect == Spec => []IInv
BY IInvInit, IInvStep, PTL DEF Spec

-----------------------------------------------------------------------------
(* Topological order: in every behaviour of Run, for every graph and every *)
(* interleaving of the goroutines, a node is started only after each of    *)
(* its dependencies has COMPLETED (spec section 8, invariant 1).           *)
THEOREM TopologicalOrder == Spec => []StartedAfterDependencies
<1>1. IInv => StartedAfterDependencies
    <2> SUFFICES ASSUME IInv, NEW n \in Node, pc[n] # "none",
                        NEW u \in deps[n]
                 PROVE  status[u] = "COMPLETED"
        BY DEF StartedAfterDependencies
    <2>1. u \in Node /\ Triggered(u, n)
        BY DEF IInv, StartedInv, Waiting, TypeOK
    <2>2. QED
        BY <2>1 DEF IInv, StatusInv, StatusMatchesPC, Triggered
<1>2. QED
    BY <1>1, IInvCorrect, PTL

(* At-most-once execution: no node is ever launched twice (spec section 8, *)
(* invariant 2).                                                           *)
THEOREM ExecutedAtMostOnce == Spec => []AtMostOnce
<1>1. IInv => AtMostOnce
    BY DEF IInv, LaunchInv, AtMostOnce
<1>2. QED
    BY <1>1, IInvCorrect, PTL

-----------------------------------------------------------------------------
(* What Run's return means.  The WaitGroup counts exactly the goroutines   *)
(* that are alive, and once Run has returned nothing is left to launch.    *)

(* The executeNode goroutines launched and not yet returned.               *)
Live == {n \in Node : pc[n] \notin {"none", "done"}}

(* e.wg equals the number of live goroutines: wg.Add(1) comes with every   *)
(* launch and the deferred wg.Done() with every return.                    *)
WgInv == wg = Cardinality(Live)

(* Run returned only after its loop and with the counter at zero.          *)
ReturnInv == result # "pending" => rootsLeft = {} /\ wg = 0

(* A node not launched yet is a root Run's loop has still to reach, or     *)
(* waits for a dependency that has not triggered it.                       *)
NotLaunchedInv ==
    \A c \in Node : pc[c] = "none" => c \in rootsLeft \/ Waiting(c) # {}

(* The graph is the one Init chose.                                        *)
DepsInv == deps \in Graphs

QInv == IInv /\ WgInv /\ ReturnInv /\ NotLaunchedInv /\ DepsInv

(* The live set is finite, its cardinality natural.                        *)
LEMMA LiveFinite ==
    IsFiniteSet(Live) /\ Cardinality(Live) \in Nat
BY SubsetCardinality DEF Live

(* While a goroutine is alive, Run has not returned.                       *)
LEMMA LivePending ==
    ASSUME WgInv, ReturnInv, NEW n \in Node, pc[n] \notin {"none", "done"}
    PROVE  result = "pending"
<1>1. n \in Live
    BY DEF Live
<1>2. Cardinality(Live) # 0
    BY <1>1, LiveFinite, FS_EmptySet
<1> QED
    BY <1>2 DEF WgInv, ReturnInv

(* A launch adds one goroutine to the live set and one to the counter.     *)
LEMMA WgLaunch ==
    ASSUME TypeOK, WgInv, NEW n \in Node, pc[n] = "none",
           pc' = [pc EXCEPT ![n] = "start"], wg' = wg + 1
    PROVE  WgInv'
<1>1. Live' = Live \cup {n} /\ n \notin Live
    BY DEF Live, TypeOK
<1> QED
    BY <1>1, LiveFinite, FS_AddElement DEF WgInv

(* A return removes one goroutine from both.                               *)
LEMMA WgReturn ==
    ASSUME TypeOK, WgInv, NEW n \in Node, pc[n] \in {"execute", "trigger"},
           pc' = [pc EXCEPT ![n] = "done"], wg' = wg - 1
    PROVE  WgInv'
<1>1. Live' = Live \ {n} /\ n \in Live
    BY DEF Live, TypeOK
<1> QED
    BY <1>1, LiveFinite, FS_RemoveElement DEF WgInv

(* A step between two live stages, or that launches nothing, keeps WgInv.  *)
LEMMA WgFrame ==
    ASSUME TypeOK, WgInv, wg' = wg,
           \A m \in Node : (pc'[m] \in {"none", "done"}) <=> (pc[m] \in {"none", "done"})
    PROVE  WgInv'
<1>1. Live' = Live
    BY DEF Live, TypeOK
<1> QED
    BY <1>1 DEF WgInv

(* A step that launches no node and keeps every Waiting set and Run's      *)
(* remaining roots keeps NotLaunchedInv.                                   *)
LEMMA NotLaunchedFrame ==
    ASSUME NotLaunchedInv, rootsLeft' = rootsLeft,
           \A c \in Node : Waiting(c)' = Waiting(c),
           \A c \in Node : pc'[c] = "none" => pc[c] = "none"
    PROVE  NotLaunchedInv'
BY DEF NotLaunchedInv

LEMMA QInvInit == Init => QInv
<1> SUFFICES ASSUME Init PROVE QInv
    OBVIOUS
<1>1. IInv /\ TypeOK
    BY IInvInit, TypeInit
<1>2. Live = {}
    BY DEF Init, Live
<1>3. WgInv
    BY <1>2, FS_EmptySet DEF Init, WgInv
<1>4. \A c \in Node : Waiting(c) = deps[c]
    BY <1>1 DEF Init, TypeOK, Waiting, Triggered
<1>5. NotLaunchedInv
    BY <1>4 DEF Init, NotLaunchedInv
<1> QED
    BY <1>1, <1>3, <1>5 DEF Init, QInv, ReturnInv, DepsInv

LEMMA QInvStep == QInv /\ [Next]_vars => QInv'
<1> SUFFICES ASSUME QInv, [Next]_vars PROVE QInv'
    OBVIOUS
<1>0. /\ TypeOK /\ TypeOK' /\ IInv /\ IInv'
      /\ WgInv /\ ReturnInv /\ NotLaunchedInv /\ DepsInv
    BY TypeStep, IInvStep DEF QInv, IInv
<1>d. DepsInv'
    BY <1>0 DEF DepsInv, Next, RunStep, NodeStep, RunLaunchRoot, RunReturn,
                SetRunning, Fail, Complete, AcquireEngine, TriggerChild,
                TriggerDone, Terminated, vars
<1>1. ASSUME NEW n \in Node, RunLaunchRoot(n) PROVE QInv'
    <2>1. pc[n] = "none" /\ result = "pending"
        BY <1>0, <1>1 DEF RunLaunchRoot, IInv, RootsInv, ReturnInv
    <2>2. WgInv'
        BY <1>0, <1>1, <2>1, WgLaunch DEF RunLaunchRoot, Launch
    <2>3. \A c \in Node : Waiting(c)' = Waiting(c)
        <3>1. \A u, c \in Node : Triggered(u, c)' <=> Triggered(u, c)
            BY <1>1, <2>1 DEF RunLaunchRoot, Launch, Triggered
        <3> QED
            BY <1>0, <1>1, <3>1, WaitingUnchanged DEF RunLaunchRoot
    <2>4. NotLaunchedInv'
        BY <1>0, <1>1, <2>3 DEF NotLaunchedInv, RunLaunchRoot, Launch, TypeOK
    <2>5. ReturnInv'
        BY <1>1, <2>1 DEF ReturnInv, RunLaunchRoot
    <2> QED
        BY <1>0, <1>d, <2>2, <2>4, <2>5 DEF QInv
<1>2. CASE RunReturn
    <2>1. \A c \in Node : Waiting(c)' = Waiting(c)
        BY <1>2 DEF RunReturn, Waiting, Triggered
    <2>2. NotLaunchedInv'
        BY <1>0, <1>2, <2>1, NotLaunchedFrame DEF RunReturn
    <2>3. WgInv' /\ ReturnInv'
        BY <1>0, <1>2 DEF RunReturn, WgInv, ReturnInv, Live
    <2> QED
        BY <1>0, <1>d, <2>2, <2>3 DEF QInv
<1>3. ASSUME NEW n \in Node,
             SetRunning(n) \/ Complete(n) \/ AcquireEngine(n)
      PROVE  QInv'
    <2>1. \A c \in Node : Waiting(c)' = Waiting(c)
        BY <1>0, <1>3 DEF SetRunning, Complete, AcquireEngine, Waiting,
                         Triggered, Children, TypeOK
    <2>2. \A m \in Node : pc'[m] = pc[m] \/ (m = n /\ pc[m] \notin {"none", "done"}
                                                  /\ pc'[m] \notin {"none", "done"})
        BY <1>0, <1>3 DEF SetRunning, Complete, AcquireEngine, TypeOK
    <2>3. WgInv'
        BY <1>0, <1>3, <2>2, WgFrame DEF SetRunning, Complete, AcquireEngine
    <2>4. NotLaunchedInv'
        BY <1>0, <1>3, <2>1, <2>2, NotLaunchedFrame
        DEF SetRunning, Complete, AcquireEngine
    <2>5. ReturnInv'
        BY <1>0, <1>3 DEF ReturnInv, SetRunning, Complete, AcquireEngine
    <2> QED
        BY <1>0, <1>d, <2>3, <2>4, <2>5 DEF QInv
<1>4. ASSUME NEW n \in Node, Fail(n) \/ TriggerDone(n) PROVE QInv'
    <2>1. pc[n] \in {"execute", "trigger"} /\ pc' = [pc EXCEPT ![n] = "done"]
          /\ wg' = wg - 1
        BY <1>4 DEF Fail, TriggerDone
    <2>2. result = "pending"
        BY <1>0, <2>1, LivePending
    <2>3. WgInv'
        BY <1>0, <2>1, WgReturn
    <2>4. \A c \in Node : Waiting(c)' = Waiting(c)
        <3>1. CASE Fail(n)
            <4>1. \A u, c \in Node : Triggered(u, c)' <=> Triggered(u, c)
                BY <1>0, <3>1 DEF Fail, Triggered, TypeOK
            <4> QED
                BY <1>0, <3>1, <4>1, WaitingUnchanged DEF Fail
        <3>2. CASE TriggerDone(n)
            <4>1. status[n] = "COMPLETED"
                BY <1>0, <3>2 DEF TriggerDone, IInv, StatusInv, StatusMatchesPC
            <4>2. \A u, c \in Node : Triggered(u, c)' <=> Triggered(u, c)
                BY <1>0, <3>2, <4>1 DEF TriggerDone, Triggered, IInv,
                                       TriggerInv, TypeOK
            <4> QED
                BY <1>0, <3>2, <4>2, WaitingUnchanged DEF TriggerDone
        <3> QED
            BY <1>4, <3>1, <3>2
    <2>5. NotLaunchedInv'
        <3>1. rootsLeft' = rootsLeft
            BY <1>4 DEF Fail, TriggerDone
        <3> QED
            BY <1>0, <2>1, <2>4, <3>1, NotLaunchedFrame DEF TypeOK
    <2>6. ReturnInv'
        BY <1>4, <2>2 DEF ReturnInv, Fail, TriggerDone
    <2> QED
        BY <1>0, <1>d, <2>3, <2>5, <2>6 DEF QInv
<1>5. ASSUME NEW n \in Node, NEW c \in Node, TriggerChild(n, c) PROVE QInv'
    <2>0. pc[n] = "trigger" /\ result = "pending"
        BY <1>0, <1>5, LivePending DEF TriggerChild
    <2>1. n \in Waiting(c) /\ pc[c] = "none" /\ status[c] = "PENDING"
        BY <1>0, <1>5 DEF TriggerChild, IInv, TriggerInv, Waiting, Triggered,
                         Children, StartedInv, StatusInv, StatusMatchesPC
    <2>2. Waiting(c)' = Waiting(c) \ {n}
        BY <1>0, <1>5, <2>1 DEF TriggerChild, Launch, Waiting, Triggered,
                               TypeOK
    <2>3. \A x \in Node \ {c} : Waiting(x)' = Waiting(x)
        BY <1>0, <1>5, <2>1 DEF TriggerChild, Launch, Waiting, Triggered,
                               TypeOK
    <2>4. ReturnInv'
        BY <1>5, <2>0 DEF ReturnInv, TriggerChild
    <2>5. CASE ShouldLaunch(c, readyCounter[c] - 1)
        <3>1. WgInv'
            BY <1>0, <1>5, <2>1, <2>5, WgLaunch DEF TriggerChild, Launch
        <3>2. NotLaunchedInv'
            BY <1>0, <1>5, <2>3, <2>5
            DEF NotLaunchedInv, TriggerChild, Launch, TypeOK
        <3> QED
            BY <1>0, <1>d, <2>4, <3>1, <3>2 DEF QInv
    <2>6. CASE ~ShouldLaunch(c, readyCounter[c] - 1)
        <3>1. UNCHANGED <<pc, wg, rootsLeft>>
            BY <1>5, <2>6 DEF TriggerChild
        <3>2. WgInv'
            BY <1>0, <3>1 DEF WgInv, Live
        <3>3. readyCounter[c] - 1 # 0
            BY <2>1, <2>6 DEF ShouldLaunch
        <3>4. Waiting(c)' # {}
            <4>1. readyCounter'[c] = Cardinality(Waiting(c)')
                BY <1>0 DEF IInv, CounterInv
            <4>2. readyCounter'[c] = readyCounter[c] - 1
                BY <1>0, <1>5 DEF TriggerChild, TypeOK
            <4> QED
                BY <3>3, <4>1, <4>2, FS_EmptySet
        <3>5. NotLaunchedInv'
            BY <1>0, <2>3, <3>1, <3>4 DEF NotLaunchedInv
        <3> QED
            BY <1>0, <1>d, <2>4, <3>2, <3>5 DEF QInv
    <2> QED
        BY <2>5, <2>6
<1>6. CASE Terminated \/ UNCHANGED vars
    <2>1. UNCHANGED vars
        BY <1>6 DEF Terminated
    <2> QED
        BY <1>0, <2>1 DEF vars, QInv, WgInv, Live, ReturnInv, NotLaunchedInv,
                          Waiting, Triggered, DepsInv
<1> QED
    BY <1>1, <1>2, <1>3, <1>4, <1>5, <1>6 DEF Next, RunStep, NodeStep

LEMMA QInvCorrect == Spec => []QInv
BY QInvInit, QInvStep, PTL DEF Spec

(* Once Run has returned, no executeNode goroutine is alive.               *)
LEMMA ReturnedQuiescent ==
    ASSUME QInv, result # "pending"
    PROVE  \A n \in Node : pc[n] \in {"none", "done"}
<1>1. Cardinality(Live) = 0
    BY DEF QInv, ReturnInv, WgInv
<1>2. Live = {}
    BY <1>1, LiveFinite, FS_EmptySet
<1> QED
    BY <1>2 DEF Live

(* When Run's wg.Wait() returns, every goroutine it launched, and every    *)
(* goroutine those launched in triggerChildren, has returned: the child's  *)
(* wg.Add(1) precedes its parent's deferred wg.Done().  For every graph,   *)
(* cycles included.                                                        *)
THEOREM RunReturnsQuiescent == Spec => []ReturnMeansQuiescent
<1>1. QInv => ReturnMeansQuiescent
    BY ReturnedQuiescent DEF ReturnMeansQuiescent
<1> QED
    BY <1>1, QInvCorrect, PTL

(* For every acyclic graph, a Run in which no task failed returns only     *)
(* once every node has COMPLETED: an unlaunched node would wait for an     *)
(* unlaunched dependency, and following dependencies inside the set of     *)
(* unlaunched nodes would never end, which a DAG rules out.                *)
THEOREM CompletesOnAcyclicGraphs ==
    ASSUME \A g \in Graphs : IsDag(g)
    PROVE  Spec => []CompletesWhenNoFailure
<1>1. QInv => CompletesWhenNoFailure
    <2> SUFFICES ASSUME QInv, result # "pending",
                        \A n \in Node : status[n] # "FAILED"
                 PROVE  \A n \in Node : status[n] = "COMPLETED"
        BY DEF CompletesWhenNoFailure
    <2>0. TypeOK /\ StatusInv /\ NotLaunchedInv /\ rootsLeft = {}
        BY DEF QInv, IInv, ReturnInv
    <2>1. \A n \in Node : pc[n] \in {"none", "done"}
        BY ReturnedQuiescent
    <2>2. \A n \in Node : pc[n] = "done" => status[n] = "COMPLETED"
        BY <2>0 DEF StatusInv, StatusMatchesPC
    <2> DEFINE S == {n \in Node : pc[n] = "none"}
    <2>3. S = {}
        <3> SUFFICES ASSUME S # {} PROVE FALSE
            OBVIOUS
        <3>1. IsDag(deps)
            BY DEF QInv, DepsInv
        <3>2. PICK m \in S : deps[m] \cap S = {}
            BY <3>1 DEF IsDag
        <3>3. PICK u \in Waiting(m) : TRUE
            BY <2>0, <3>2 DEF NotLaunchedInv
        <3>4. u \in Node /\ u \in deps[m] /\ ~Triggered(u, m)
            BY <2>0, <3>3 DEF Waiting, TypeOK
        <3>5. pc[u] = "done"
            BY <2>1, <3>2, <3>4
        <3> QED
            BY <2>2, <3>4, <3>5 DEF Triggered
    <2> QED
        BY <2>1, <2>2, <2>3
<1> QED
    BY <1>1, QInvCorrect, PTL

-----------------------------------------------------------------------------
(* Refinement of the contract DAGSchedule (spec 4.1), with the identity    *)
(* mapping: the engine's deps, status and result are the contract's.       *)

(* A launched goroutine finds every dependency COMPLETED.                  *)
LEMMA StartedDepsCompleted ==
    ASSUME IInv, NEW n \in Node, pc[n] # "none", NEW u \in deps[n]
    PROVE  status[u] = "COMPLETED"
<1>1. u \in Node /\ Triggered(u, n)
    BY DEF IInv, StartedInv, Waiting, TypeOK
<1> QED
    BY <1>1 DEF IInv, StatusInv, StatusMatchesPC, Triggered

(* When the WaitGroup is at zero and Run's loop is over, no node runs and  *)
(* none is ready: a PENDING node was never launched, so it waits for a     *)
(* dependency whose goroutine has not triggered it, and that dependency,   *)
(* having no live goroutine either, has not COMPLETED.                     *)
LEMMA NothingLeftToStart ==
    ASSUME QInv, rootsLeft = {}, wg = 0
    PROVE  \A n \in Node : status[n] # "RUNNING" /\ ~Schedule!Ready(n)
<1>0. TypeOK /\ StatusInv /\ NotLaunchedInv
    BY DEF QInv, IInv
<1>1. \A n \in Node : pc[n] \in {"none", "done"}
    <2>1. Cardinality(Live) = 0
        BY DEF QInv, WgInv
    <2>2. Live = {}
        BY <2>1, LiveFinite, FS_EmptySet
    <2> QED
        BY <2>2 DEF Live
<1> SUFFICES ASSUME NEW n \in Node
             PROVE  status[n] # "RUNNING" /\ ~Schedule!Ready(n)
    OBVIOUS
<1>2. status[n] # "RUNNING"
    BY <1>0, <1>1 DEF StatusInv, StatusMatchesPC
<1>3. ~Schedule!Ready(n)
    <2> SUFFICES ASSUME status[n] = "PENDING",
                        \A u \in deps[n] : status[u] = "COMPLETED"
                 PROVE  FALSE
        BY DEF Schedule!Ready
    <2>1. pc[n] = "none"
        BY <1>0, <1>1 DEF StatusInv, StatusMatchesPC
    <2>2. PICK u \in Waiting(n) : TRUE
        BY <1>0, <2>1 DEF NotLaunchedInv
    <2>3. u \in Node /\ u \in deps[n] /\ ~Triggered(u, n)
        BY <1>0, <2>2 DEF Waiting, TypeOK
    <2>4. pc[u] = "done"
        BY <1>0, <1>1, <2>3 DEF StatusInv, StatusMatchesPC
    <2> QED
        BY <2>3, <2>4 DEF Triggered
<1> QED
    BY <1>2, <1>3

(* Every step of the engine is a step of the contract or leaves deps,      *)
(* status and result alone.                                                *)
LEMMA ScheduleStep == QInv /\ [Next]_vars => [Schedule!Next]_Schedule!vars
<1> SUFFICES ASSUME QInv, [Next]_vars PROVE [Schedule!Next]_Schedule!vars
    OBVIOUS
<1>0. IInv /\ TypeOK /\ StatusInv /\ WgInv /\ ReturnInv
    BY DEF QInv, IInv
<1>1. ASSUME NEW n \in Node, SetRunning(n) PROVE Schedule!Start(n)
    <2>1. pc[n] = "start"
        BY <1>1 DEF SetRunning
    <2>2. result = "pending"
        BY <1>0, <2>1, LivePending
    <2>3. status[n] = "PENDING"
        BY <1>0, <2>1 DEF StatusInv, StatusMatchesPC
    <2>4. \A u \in deps[n] : status[u] = "COMPLETED"
        BY <1>0, <2>1, StartedDepsCompleted
    <2> QED
        BY <1>1, <2>2, <2>3, <2>4 DEF SetRunning, Schedule!Start, Schedule!Ready
<1>2. ASSUME NEW n \in Node, Fail(n) \/ Complete(n) PROVE Schedule!Finish(n)
    <2>1. status[n] = "RUNNING"
        BY <1>0, <1>2 DEF Fail, Complete, StatusInv, StatusMatchesPC
    <2> QED
        BY <1>2, <2>1 DEF Fail, Complete, Schedule!Finish
<1>3. ASSUME RunReturn PROVE Schedule!Return
    <2>1. \A n \in Node : status[n] # "RUNNING" /\ ~Schedule!Ready(n)
        BY <1>3, NothingLeftToStart DEF RunReturn
    <2> QED
        BY <1>3, <2>1 DEF RunReturn, Schedule!Return
<1>4. ASSUME NEW n \in Node,
             \/ RunLaunchRoot(n) \/ AcquireEngine(n) \/ TriggerDone(n)
             \/ \E c \in Node : TriggerChild(n, c)
      PROVE  UNCHANGED Schedule!vars
    BY <1>4 DEF RunLaunchRoot, AcquireEngine, TriggerDone, TriggerChild,
                Schedule!vars
<1>5. CASE Terminated \/ UNCHANGED vars
    BY <1>5 DEF Terminated, vars, Schedule!vars
<1> QED
    BY <1>1, <1>2, <1>3, <1>4, <1>5
    DEF Next, RunStep, NodeStep, Schedule!Next

(* For every finite node set and every dependency relation, cycles         *)
(* included, Run implements the contract of spec 4.1: statuses move only   *)
(* PENDING to RUNNING once every dependency COMPLETED, and RUNNING to      *)
(* COMPLETED or FAILED; wg.Wait() returns only when nothing runs and       *)
(* nothing more could start.                                               *)
THEOREM DAGEngineImplementsSchedule == Spec => DAGRefinement
<1>1. Init => Schedule!Init
    BY DEF Init, Schedule!Init
<1>2. QInv /\ [Next]_vars => [Schedule!Next]_Schedule!vars
    BY ScheduleStep
<1> QED
    BY <1>1, <1>2, QInvInit, QInvStep, PTL DEF Spec, DAGRefinement, Schedule!Spec
=============================================================================
