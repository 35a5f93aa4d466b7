--------------------------- MODULE Dispatch_proofs ---------------------------
(***************************************************************************)
(* Proofs, for every finite set of engines, requests and pods and every    *)
(* bound on discovery callbacks, that the balancer's active count never    *)
(* over-reports the calls in flight.                                        *)
(***************************************************************************)
EXTENDS Dispatch, FiniteSetTheorems, TLAPS

(* A request past SelectEngine holds an engine id.                         *)
ChosenInv == \A r \in Request : pc[r] \in {"lookup", "connect", "call"} => chosen[r] \in Engine

(* The part of CoreTypeOK the proofs need: the transport's connections are    *)
(* read by neither property.                                               *)
CoreTypeOK ==
    /\ engines \subseteq Engine
    /\ ring \subseteq Engine
    /\ active \in [Engine -> Nat]
    /\ pc \in [Request -> PC]
    /\ chosen \in [Request -> Engine \cup {NoEngine}]

IInv == CoreTypeOK /\ ChosenInv /\ NoOverCount

(* The in-flight set of an engine is a finite set of requests.             *)
LEMMA InFlightFinite ==
    ASSUME NEW e
    PROVE  /\ IsFiniteSet(InFlightSet(e))
           /\ Cardinality(InFlightSet(e)) \in Nat
<1>1. InFlightSet(e) \subseteq Request
    BY DEF InFlightSet
<1>2. IsFiniteSet(InFlightSet(e))
    BY <1>1, RequestAssumption, FS_Subset
<1> QED
    BY <1>2, FS_CardinalityType

(* A step that keeps every in-flight set keeps every in-flight count.      *)
LEMMA InFlightFrame ==
    ASSUME NEW e, InFlightSet(e)' = InFlightSet(e)
    PROVE  InFlight(e)' = InFlight(e)
BY DEF InFlight

LEMMA IInvInit == Init => IInv
<1> SUFFICES ASSUME Init PROVE IInv
    OBVIOUS
<1>1. CoreTypeOK
    BY DEF Init, CoreTypeOK, PC
<1>2. ChosenInv
    BY DEF Init, ChosenInv
<1>3. \A e \in Engine : InFlightSet(e) = {}
    BY DEF Init, InFlightSet
<1>4. NoOverCount
    <2> SUFFICES ASSUME NEW e \in Engine PROVE active[e] <= InFlight(e)
        BY DEF NoOverCount
    <2>1. active[e] = 0
        BY DEF Init
    <2>2. InFlight(e) = 0
        BY <1>3, FS_EmptySet DEF InFlight
    <2> QED
        BY <2>1, <2>2
<1> QED
    BY <1>1, <1>2, <1>4 DEF IInv

(* Select and Lookup move a request between stages before the call, so no *)
(* in-flight set changes.                                                  *)
LEMMA PreCallStep ==
    ASSUME IInv, NEW r \in Request, Select(r) \/ Lookup(r)
    PROVE  IInv'
<1>0. CoreTypeOK
    BY DEF IInv
<1>1. pc'[r] \in {"lookup", "connect", "done"} /\ pc[r] \in {"idle", "lookup"}
    BY <1>0 DEF Select, Lookup, CoreTypeOK
<1>2. \A q \in Request \ {r} : pc'[q] = pc[q] /\ chosen'[q] = chosen[q]
    BY <1>0 DEF Select, Lookup, CoreTypeOK
<1>3. \A e \in Engine : InFlightSet(e)' = InFlightSet(e)
    BY <1>1, <1>2 DEF InFlightSet
<1>4. active' = active
    BY DEF Select, Lookup
<1>5. CoreTypeOK'
    BY <1>0, <1>1 DEF Select, Lookup, CoreTypeOK, PC
<1>6. ChosenInv'
    BY <1>0, <1>2 DEF Select, Lookup, ChosenInv, IInv, CoreTypeOK
<1>7. NoOverCount'
    BY <1>3, <1>4, InFlightFrame DEF IInv, NoOverCount
<1> QED
    BY <1>5, <1>6, <1>7 DEF IInv

(* Connect either returns early or increments the count and enters the     *)
(* call, which adds the request to the chosen engine's in-flight set.      *)
LEMMA ConnectStep ==
    ASSUME IInv, NEW r \in Request, Connect(r)
    PROVE  IInv'
<1>0. CoreTypeOK /\ ChosenInv /\ NoOverCount
    BY DEF IInv
<1>1. chosen[r] \in Engine
    BY <1>0 DEF Connect, ChosenInv
<1>2. CASE ConnectFailed(r)
    <2>1. \A e \in Engine : InFlightSet(e)' = InFlightSet(e)
        BY <1>2, <1>0 DEF Connect, ConnectFailed, InFlightSet, CoreTypeOK
    <2>2. CoreTypeOK'
        BY <1>2, <1>0 DEF Connect, ConnectFailed, CoreTypeOK, PC
    <2>3. ChosenInv'
        BY <1>2, <1>0 DEF Connect, ConnectFailed, ChosenInv, CoreTypeOK
    <2>4. NoOverCount'
        BY <2>1, <1>2, <1>0, InFlightFrame DEF Connect, ConnectFailed, NoOverCount
    <2> QED
        BY <2>2, <2>3, <2>4 DEF IInv
<1>3. CASE /\ active' = [active EXCEPT ![chosen[r]] = @ + 1]
           /\ pc' = [pc EXCEPT ![r] = "call"]
    <2> DEFINE c == chosen[r]
    <2>0. chosen' = chosen
        BY DEF Connect
    <2>1. r \notin InFlightSet(c)
        BY <1>0 DEF Connect, InFlightSet
    <2>2. InFlightSet(c)' = InFlightSet(c) \cup {r}
        BY <1>3, <1>0 DEF Connect, InFlightSet, CoreTypeOK
    <2>3. InFlight(c)' = InFlight(c) + 1
        BY <2>1, <2>2, InFlightFinite, FS_AddElement DEF InFlight
    <2>4. \A e \in Engine \ {c} : InFlightSet(e)' = InFlightSet(e)
        BY <1>3, <1>0 DEF Connect, InFlightSet, CoreTypeOK
    <2>5. CoreTypeOK'
        BY <1>3, <1>1, <1>0 DEF Connect, CoreTypeOK, PC
    <2>6. ChosenInv'
        BY <1>3, <1>1, <1>0 DEF Connect, ChosenInv, CoreTypeOK
    <2>7. NoOverCount'
        <3> SUFFICES ASSUME NEW e \in Engine PROVE active'[e] <= InFlight(e)'
            BY DEF NoOverCount
        <3>1. CASE e = c
            <4>1. active'[e] = active[e] + 1
                BY <3>1, <1>3, <1>1, <1>0 DEF CoreTypeOK
            <4>2. active[e] <= InFlight(e)
                BY <1>0 DEF NoOverCount
            <4>3. active[e] \in Nat /\ InFlight(e) \in Nat
                BY <1>0, InFlightFinite DEF CoreTypeOK, InFlight
            <4> QED
                BY <4>1, <4>2, <4>3, <3>1, <2>3, <2>0
        <3>2. CASE e # c
            <4>1. active'[e] = active[e]
                BY <3>2, <1>3, <1>0 DEF CoreTypeOK
            <4> QED
                BY <4>1, <3>2, <2>4, <1>0, InFlightFrame DEF NoOverCount
        <3> QED
            BY <3>1, <3>2
    <2> QED
        BY <2>5, <2>6, <2>7 DEF IInv
<1> QED
    BY <1>2, <1>3 DEF Connect

(* Finish ends the call and decrements a positive count.                   *)
LEMMA FinishStep ==
    ASSUME IInv, NEW r \in Request, Finish(r)
    PROVE  IInv'
<1>0. CoreTypeOK /\ ChosenInv /\ NoOverCount
    BY DEF IInv
<1> DEFINE c == chosen[r]
<1>9. chosen' = chosen
    BY DEF Finish
<1>1. c \in Engine
    BY <1>0 DEF Finish, ChosenInv
<1>2. r \in InFlightSet(c)
    BY DEF Finish, InFlightSet
<1>3. InFlightSet(c)' = InFlightSet(c) \ {r}
    BY <1>0 DEF Finish, InFlightSet, CoreTypeOK
<1>4. InFlight(c)' = InFlight(c) - 1
    BY <1>2, <1>3, InFlightFinite, FS_RemoveElement DEF InFlight
<1>5. \A e \in Engine \ {c} : InFlightSet(e)' = InFlightSet(e)
    BY <1>0 DEF Finish, InFlightSet, CoreTypeOK
<1>6. CoreTypeOK'
    BY <1>1, <1>0 DEF Finish, Decrement, CoreTypeOK, PC
<1>7. ChosenInv'
    BY <1>0 DEF Finish, ChosenInv, CoreTypeOK
<1>8. NoOverCount'
    <2> SUFFICES ASSUME NEW e \in Engine PROVE active'[e] <= InFlight(e)'
        BY DEF NoOverCount
    <2>1. CASE e = c
        <3>1. active'[e] = IF active[e] > 0 THEN active[e] - 1 ELSE active[e]
            BY <2>1, <1>1, <1>0 DEF Finish, Decrement, CoreTypeOK
        <3>2. InFlight(c) \in Nat /\ InFlight(c) # 0
            <4>1. InFlightSet(c) # {}
                BY <1>2
            <4> QED
                BY <4>1, InFlightFinite, FS_EmptySet DEF InFlight
        <3>3. active[c] <= InFlight(c) /\ active[c] \in Nat
            BY <1>0, <1>1 DEF NoOverCount, CoreTypeOK
        <3> QED
            BY <3>1, <3>2, <3>3, <2>1, <1>4, <1>9
    <2>2. CASE e # c
        <3>1. active'[e] = active[e]
            BY <2>2, <1>0 DEF Finish, Decrement, CoreTypeOK
        <3> QED
            BY <3>1, <2>2, <1>5, <1>0, InFlightFrame DEF NoOverCount
    <2> QED
        BY <2>1, <2>2
<1> QED
    BY <1>6, <1>7, <1>8 DEF IInv

(* discoverEngines names every engine it finds by a label or pod name,    *)
(* both engine ids.                                                        *)
LEMMA DiscoverEnginesType ==
    ASSUME NEW P \in SUBSET Pod
    PROVE  DiscoverEngines(P) \subseteq Engine
BY PodAssumption DEF DiscoverEngines

(* A discovery callback only resets counts to zero.                        *)
LEMMA WatchEventStep ==
    ASSUME IInv, NEW P \in SUBSET Pod, WatchEvent(P)
    PROVE  IInv'
<1>0. CoreTypeOK /\ ChosenInv /\ NoOverCount
    BY DEF IInv
<1>1. \A e \in Engine : InFlightSet(e)' = InFlightSet(e)
    BY DEF WatchEvent, OnChange, InFlightSet
<1>2. CoreTypeOK'
    BY <1>0, DiscoverEnginesType DEF WatchEvent, OnChange, AddEngines,
                                     RemoveEngines, CoreTypeOK
<1>3. ChosenInv'
    BY <1>0 DEF WatchEvent, ChosenInv
<1>4. NoOverCount'
    <2> SUFFICES ASSUME NEW e \in Engine PROVE active'[e] <= InFlight(e)'
        BY DEF NoOverCount
    <2>1. active'[e] \in {0, active[e]}
        BY DEF WatchEvent, OnChange, AddEngines, RemoveEngines
    <2>2. InFlight(e)' = InFlight(e)
        BY <1>1, InFlightFrame
    <2>3. active[e] <= InFlight(e) /\ InFlight(e) \in Nat
        BY <1>0, InFlightFinite DEF NoOverCount, InFlight
    <2> QED
        BY <2>1, <2>2, <2>3
<1> QED
    BY <1>2, <1>3, <1>4 DEF IInv

(* The discovery goroutine's and Stop's other steps leave the balancer and *)
(* the requests alone.                                                     *)
ControlStep ==
    \/ WatchFailed \/ WatchStarted \/ WatchReturn
    \/ StopCancel \/ StopWait \/ StopClose

LEMMA ControlFrame ==
    ASSUME ControlStep
    PROVE  UNCHANGED <<engines, ring, active, pc, chosen>>
BY DEF ControlStep, WatchFailed, WatchStarted, WatchReturn, StopCancel,
       StopWait, StopClose

LEMMA IInvStep == IInv /\ [Next]_vars => IInv'
<1> SUFFICES ASSUME IInv, [Next]_vars PROVE IInv'
    OBVIOUS
<1>1. CASE UNCHANGED vars
    BY <1>1 DEF vars, IInv, CoreTypeOK, ChosenInv, NoOverCount, InFlight, InFlightSet
<1>2. CASE \E r \in Request : Select(r) \/ Lookup(r)
    BY <1>2, PreCallStep
<1>3. CASE \E r \in Request : Connect(r)
    BY <1>3, ConnectStep
<1>4. CASE \E r \in Request : Finish(r)
    BY <1>4, FinishStep
<1>5. CASE \E P \in SUBSET Pod : WatchEvent(P)
    BY <1>5, WatchEventStep
<1>6. CASE ControlStep
    BY <1>6, ControlFrame DEF IInv, CoreTypeOK, ChosenInv, NoOverCount,
                              InFlight, InFlightSet
<1> QED
    BY <1>1, <1>2, <1>3, <1>4, <1>5, <1>6 DEF Next, ControlStep

(* The balancer's active count of an engine never exceeds the remote calls *)
(* to it in flight (ExecuteWorkflow's increment after Connect and deferred *)
(* decrement, discovery's AddEngine/RemoveEngine resets), for every number *)
(* of engines, requests and discovery callbacks.                           *)
THEOREM CountNeverOverReports == Spec => []NoOverCount
<1>1. Init => IInv
    BY IInvInit
<1>2. IInv /\ [Next]_vars => IInv'
    BY IInvStep
<1>3. IInv => NoOverCount
    BY DEF IInv
<1> QED
    BY <1>1, <1>2, <1>3, PTL DEF Spec
=============================================================================
