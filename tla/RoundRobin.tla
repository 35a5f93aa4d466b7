----------------------------- MODULE RoundRobin -----------------------------
(***************************************************************************)
(* RoundRobinLoadBalancer of orchestrator/loadbalancer.go, the balancer    *)
(* the configuration selects with load_balancer_type "round-robin".  Each  *)
(* method runs under lb.mu.Lock, so each call is one step; callers (the    *)
(* discovery callback and request goroutines) issue them in any order.     *)
(* Nothing ever increments the round-robin balancer's activeWorkflows (it  *)
(* has no IncrementActiveWorkflows), so every active count reads 0 and the *)
(* capacity test of SelectEngine is 0 < capacity.  The keys of capacities  *)
(* and the slice hold the same engines: every method updates both under   *)
(* the lock.  An index out of range panics, which ends the process.        *)
(***************************************************************************)
EXTENDS Integers, Sequences
LOCAL INSTANCE SequencesExt

CONSTANTS
    Engine,     \* engine ids
    Caller,     \* goroutines calling SelectEngine
    Capacity,   \* capacities AddEngine and UpdateEngineCapacity are given
    NoEngine    \* the empty id returned with an error

VARIABLES
    engines,    \* lb.engines, in order
    current,    \* lb.current
    capacities, \* lb.capacities (0 for an absent key, as Go reads it)
    selected,   \* the id the caller's last SelectEngine returned
    panicked    \* a SelectEngine indexed past the end of lb.engines

vars == <<engines, current, capacities, selected, panicked>>

TypeOK ==
    /\ engines \in Seq(Engine)
    /\ current \in Nat
    /\ capacities \in [Engine -> Capacity \cup {0}]
    /\ selected \in [Caller -> Engine \cup {NoEngine}]
    /\ panicked \in BOOLEAN

(* NewRoundRobinLoadBalancer: empty slice and maps, current 0.             *)
Init ==
    /\ engines = <<>>
    /\ current = 0
    /\ capacities = [e \in Engine |-> 0]
    /\ selected = [c \in Caller |-> NoEngine]
    /\ panicked = FALSE

(* AddEngine: an engine already in the slice is refused; else it is        *)
(* appended and its capacity stored.                                       *)
AddEngine(e, cap) ==
    /\ e \notin ToSet(engines)
    /\ engines' = Append(engines, e)
    /\ capacities' = [capacities EXCEPT ![e] = cap]
    /\ UNCHANGED <<current, selected, panicked>>

(* RemoveEngine: the engine's slot is cut out of the slice and its keys    *)
(* deleted; lb.current is left as it was.  "not found" changes nothing.    *)
RemoveEngine(e) ==
    /\ \E i \in 1..Len(engines) :
          /\ engines[i] = e
          /\ engines' = RemoveAt(engines, i)
    /\ capacities' = [capacities EXCEPT ![e] = 0]
    /\ UNCHANGED <<current, selected, panicked>>

(* UpdateEngineCapacity: only for an engine the balancer holds.            *)
UpdateEngineCapacity(e, cap) ==
    /\ e \in ToSet(engines)
    /\ capacities' = [capacities EXCEPT ![e] = cap]
    /\ UNCHANGED <<engines, current, selected, panicked>>

(* The slot the loop of SelectEngine reads in its i-th iteration (0-based  *)
(* Go index), from start = lb.current.                                     *)
Slot(i) == (current + i) % Len(engines)

(* The loop returns in the first iteration whose engine has room, or in    *)
(* the iteration after which lb.current is back at start, the n-th: the   *)
(* trailing "return lb.engines[0]" is never reached.                       *)
ReturnIter == CHOOSE k \in 0..Len(engines) - 1 :
            /\ 0 < capacities[engines[Slot(k) + 1]] \/ k = Len(engines) - 1
            /\ \A j \in 0..k - 1 : ~(0 < capacities[engines[Slot(j) + 1]])

(* SelectEngine: "no engines available" on an empty slice; lb.engines      *)
(* [lb.current] panics when a removal has left lb.current past the end;     *)
(* else the loop above, which leaves lb.current one past the slot it       *)
(* returned.                                                               *)
SelectEngine(c) ==
    \/ /\ engines = <<>>
       /\ selected' = [selected EXCEPT ![c] = NoEngine]
       /\ UNCHANGED <<engines, current, capacities, panicked>>
    \/ /\ engines # <<>> /\ current >= Len(engines)
       /\ panicked' = TRUE
       /\ UNCHANGED <<engines, current, capacities, selected>>
    \/ /\ engines # <<>> /\ current < Len(engines)
       /\ selected' = [selected EXCEPT ![c] = engines[Slot(ReturnIter) + 1]]
       /\ current' = (Slot(ReturnIter) + 1) % Len(engines)
       /\ UNCHANGED <<engines, capacities, panicked>>

(* A panic ends the process: no further call.                              *)
Next ==
    /\ ~panicked
    /\ \/ \E e \in Engine, cap \in Capacity :
              AddEngine(e, cap) \/ UpdateEngineCapacity(e, cap)
       \/ \E e \in Engine : RemoveEngine(e)
       \/ \E c \in Caller : SelectEngine(c)

Spec == Init /\ [][Next]_vars

-----------------------------------------------------------------------------
(* Properties                                                              *)

(* SelectEngine answers an engine or the "no engines available" error      *)
(* (spec 4.4, the LoadBalancer interface), whatever sequence of AddEngine, *)
(* RemoveEngine and SelectEngine calls came before: it never indexes past   *)
(* the end of lb.engines.                                                  *)
SelectNeverPanics == ~panicked

=============================================================================
