------------------------------ MODULE Dispatch ------------------------------
(***************************************************************************)
(* The dispatch core of OrchestratorV2 (src/unnamed/part_000) with the     *)
(* parts it drives: the ConsistentHashLoadBalancer of                      *)
(* orchestrator/loadbalancer.go, the connection cache of GRPCTransport and *)
(* the Watch loop of KubernetesDiscovery (orchestrator/transport/          *)
(* grpc_transport.go), and Stop.                                           *)
(*                                                                         *)
(* Each client request is a goroutine with a pc.  The registry reads at    *)
(* the start of ExecuteWorkflow change nothing here and are left out; the  *)
(* execution-counter increment is folded into the selection step (it      *)
(* touches no other variable).  The remote call's outcome changes no state *)
(* of the dispatcher (its defers run on success and error alike).  The     *)
(* discovery callback runs under o.mu, which the engine lookup also takes; *)
(* its balancer calls are visible to SelectEngine and Increment/Decrement  *)
(* in between, but each of those commutes with the rest of the callback,  *)
(* so the callback is one step.  Engine capacities, addresses and ports    *)
(* are never read by selection or by the properties and are left out.     *)
(***************************************************************************)
EXTENDS Integers, FiniteSets, Sequences

CONSTANTS
    Engine,      \* engine ids discovery may report
    Request,     \* concurrent ExecuteWorkflow calls
    NoEngine,    \* no engine selected yet; a pod without an engine-id label
    Pod,         \* the pods the label selector may list
    MaxChanges   \* bound on discovery callbacks

ASSUME EngineAssumption == IsFiniteSet(Engine) /\ NoEngine \notin Engine
ASSUME RequestAssumption == IsFiniteSet(Request)
ASSUME MaxChangesAssumption == MaxChanges \in Nat
ASSUME PodAssumption ==
    Pod \subseteq [name : Engine, label : Engine \cup {NoEngine},
                   running : BOOLEAN, ip : BOOLEAN]

VARIABLES
    engines,   \* keys of o.engines
    ring,      \* members of the balancer's hash ring
    active,    \* lb.activeWorkflows (0 for an absent key, as Go reads it)
    pc,        \* stage of each ExecuteWorkflow goroutine
    chosen,    \* the engine SelectEngine returned to the request
    counter,   \* o.executionCounter
    changes,   \* discovery callbacks so far
    conns,     \* every grpcConnection dialled so far, in dial order
    cache,     \* gt.connections: engine -> index in conns, 0 for none
    held,      \* the connection Connect returned to the request (0: none)
    ctxDone,   \* o.ctx cancelled
    discPc,    \* the discovery goroutine: start, watching, returned
    stopPc     \* position in Stop

vars == <<engines, ring, active, pc, chosen, counter, changes, conns, cache,
          held, ctxDone, discPc, stopPc>>

(* Stages of ExecuteWorkflow: not called, engine selected, engine found,  *)
(* remote call in flight (active count incremented), returned.            *)
PC == {"idle", "lookup", "connect", "call", "done"}

StopPC == {"running", "cancelled", "waited", "stopped"}

Conn == [eng : Engine, open : BOOLEAN]

(* Requests whose remote call to e is in flight, and how many.            *)
InFlightSet(e) == {r \in Request : pc[r] = "call" /\ chosen[r] = e}

InFlight(e) == Cardinality(InFlightSet(e))

-----------------------------------------------------------------------------
(* discoverEngines: the pods in phase Running that have an IP, each named  *)
(* by its engine-id label or else by the pod name.                         *)
DiscoverEngines(P) ==
    {IF p.label # NoEngine THEN p.label ELSE p.name :
        p \in {q \in P : q.running /\ q.ip}}

(* ConsistentHashLoadBalancer.AddEngine and RemoveEngine, for a set of     *)
(* engines: ring membership, and the count set to 0 or deleted (which Go   *)
(* reads as 0).                                                            *)
AddEngines(lb, S) ==
    [ring |-> lb.ring \cup S,
     active |-> [e \in Engine |-> IF e \in S THEN 0 ELSE lb.active[e]]]

RemoveEngines(lb, S) ==
    [ring |-> lb.ring \ S,
     active |-> [e \in Engine |-> IF e \in S THEN 0 ELSE lb.active[e]]]

(* GRPCTransport.Connect under gt.mu: the cached connection of the engine  *)
(* if there is one, whatever its state; else a new one is dialled and      *)
(* cached.  DialContext without WithBlock does not wait for the server and *)
(* fails only on a malformed target, which a pod IP and port is not.       *)
TransportConnect(r) ==
    LET e == chosen[r] IN
    IF cache[e] # 0
       THEN /\ held' = [held EXCEPT ![r] = cache[e]]
            /\ UNCHANGED <<conns, cache>>
       ELSE /\ conns' = Append(conns, [eng |-> e, open |-> TRUE])
            /\ cache' = [cache EXCEPT ![e] = Len(conns) + 1]
            /\ held' = [held EXCEPT ![r] = Len(conns) + 1]

(* grpcConnection.Close: ClientConn.Close; on a closed one it only returns *)
(* ErrClientConnClosing.                                                   *)
CloseConn(i) == conns' = [conns EXCEPT ![i].open = FALSE]

(* GRPCTransport.Close under gt.mu: the map is walked in Go's random       *)
(* order, each connection closed and deleted, until a Close fails: on an   *)
(* already closed one, which stays cached, and the walk returns with the   *)
(* rest untouched.  P is the part walked before that.                      *)
TransportClose ==
    LET Cached == {e \in Engine : cache[e] # 0}
        IsOpen(e) == conns[cache[e]].open
    IN \E P \in SUBSET {e \in Cached : IsOpen(e)} :
          /\ \/ P = Cached
             \/ \E f \in Cached \ P : ~IsOpen(f)
          /\ conns' = [i \in DOMAIN conns |->
                         IF \E e \in P : cache[e] = i
                            THEN [conns[i] EXCEPT !.open = FALSE]
                            ELSE conns[i]]
          /\ cache' = [e \in Engine |-> IF e \in P THEN 0 ELSE cache[e]]

-----------------------------------------------------------------------------
(* Plausible bugs of the code below, each used to show that a property     *)
(* can fail: the active count incremented before Connect, whose error      *)
(* return then leaves without the deferred decrement.                      *)
ConnectFailedAfterIncrement(r) ==
    /\ active' = [active EXCEPT ![chosen[r]] = @ + 1]
    /\ pc' = [pc EXCEPT ![r] = "done"]
    /\ UNCHANGED <<conns, cache, held>>

-----------------------------------------------------------------------------
Init ==
    /\ engines = {}
    /\ ring = {}
    /\ active = [e \in Engine |-> 0]
    /\ pc = [r \in Request |-> "idle"]
    /\ chosen = [r \in Request |-> NoEngine]
    /\ counter = 0
    /\ changes = 0
    /\ conns = <<>>
    /\ cache = [e \in Engine |-> 0]
    /\ held = [r \in Request |-> 0]
    /\ ctxDone = FALSE
    /\ discPc = "start"
    /\ stopPc = "running"

(* nextExecutionID, then SelectEngine(workflowID): "no engines available"  *)
(* on an empty ring, else the owner of the key on the ring (which member   *)
(* owns it is left open).                                                  *)
Select(r) ==
    /\ pc[r] = "idle"
    /\ counter' = counter + 1
    /\ IF ring = {}
          THEN /\ pc' = [pc EXCEPT ![r] = "done"]
               /\ UNCHANGED chosen
          ELSE \E e \in ring :
                  /\ chosen' = [chosen EXCEPT ![r] = e]
                  /\ pc' = [pc EXCEPT ![r] = "lookup"]
    /\ UNCHANGED <<engines, ring, active, changes, conns, cache, held,
                   ctxDone, discPc, stopPc>>

(* o.engines[engineID] under o.mu.RLock: "engine not found" if discovery   *)
(* removed it since the selection; there is no retry.                      *)
Lookup(r) ==
    /\ pc[r] = "lookup"
    /\ pc' = [pc EXCEPT ![r] = IF chosen[r] \in engines THEN "connect" ELSE "done"]
    /\ UNCHANGED <<engines, ring, active, chosen, counter, changes, conns,
                   cache, held, ctxDone, discPc, stopPc>>

(* BuildWorkflow fails (the builder returns an error): return before the  *)
(* connection and the increment.                                           *)
ConnectFailed(r) ==
    /\ UNCHANGED <<active, conns, cache, held>>
    /\ pc' = [pc EXCEPT ![r] = "done"]

(* The definition is built, transport.Connect returns a connection and    *)
(* its Close is deferred; then IncrementActiveWorkflows(engineID)          *)
(* (lb.activeWorkflows[id]++, which creates the key if the engine was      *)
(* removed meanwhile) and the deferred decrement is registered.            *)
Connect(r) ==
    /\ pc[r] = "connect"
    /\ \/ ConnectFailed(r)
       \/ /\ TransportConnect(r)
          /\ active' = [active EXCEPT ![chosen[r]] = @ + 1]
          /\ pc' = [pc EXCEPT ![r] = "call"]
    /\ UNCHANGED <<engines, ring, chosen, counter, changes, ctxDone, discPc,
                   stopPc>>

(* DecrementActiveWorkflows: only a positive count is decremented.         *)
Decrement(e) == [active EXCEPT ![e] = IF @ > 0 THEN @ - 1 ELSE @]

(* The remote call returns (success or error alike) and the defers run in  *)
(* reverse order: the decrement, then conn.Close().                        *)
Finish(r) ==
    /\ pc[r] = "call"
    /\ active' = Decrement(chosen[r])
    /\ CloseConn(held[r])
    /\ pc' = [pc EXCEPT ![r] = "done"]
    /\ UNCHANGED <<engines, ring, chosen, counter, changes, cache, held,
                   ctxDone, discPc, stopPc>>

(* onChange(snapshot): engines new to o.engines are added to the map and   *)
(* to the balancer; known ones only get their info and capacity updated;   *)
(* engines missing from the snapshot are deleted and RemoveEngine'd.       *)
OnChange(snapshot) ==
    LET lb == RemoveEngines(AddEngines([ring |-> ring, active |-> active],
                                       snapshot \ engines),
                            engines \ snapshot)
    IN /\ engines' = snapshot
       /\ ring' = lb.ring
       /\ active' = lb.active

(* Watch: the pod watcher cannot be created, Watch returns the error and   *)
(* the goroutine ends: no engine is ever discovered.                       *)
WatchFailed ==
    /\ discPc = "start"
    /\ discPc' = "returned"
    /\ UNCHANGED <<engines, ring, active, pc, chosen, counter, changes, conns,
                   cache, held, ctxDone, stopPc>>

(* Watch: the watcher is created; the loop follows.                        *)
WatchStarted ==
    /\ discPc = "start"
    /\ discPc' = "watching"
    /\ UNCHANGED <<engines, ring, active, pc, chosen, counter, changes, conns,
                   cache, held, ctxDone, stopPc>>

(* The initial discoverEngines, or one after a pod event (Go's select may  *)
(* take an event even once o.ctx is done), lists the pods P and calls      *)
(* onChange with what it found.  A failed list calls nothing.              *)
WatchEvent(P) ==
    /\ discPc = "watching"
    /\ changes < MaxChanges
    /\ changes' = changes + 1
    /\ OnChange(DiscoverEngines(P))
    /\ UNCHANGED <<pc, chosen, counter, conns, cache, held, ctxDone, discPc,
                   stopPc>>

(* Watch returns ctx.Err() on o.ctx.Done(); the goroutine's wg.Done().     *)
WatchReturn ==
    /\ discPc = "watching" /\ ctxDone
    /\ discPc' = "returned"
    /\ UNCHANGED <<engines, ring, active, pc, chosen, counter, changes, conns,
                   cache, held, ctxDone, stopPc>>

(* Stop: o.cancel().                                                       *)
StopCancel ==
    /\ stopPc = "running"
    /\ stopPc' = "cancelled"
    /\ ctxDone' = TRUE
    /\ UNCHANGED <<engines, ring, active, pc, chosen, counter, changes, conns,
                   cache, held, discPc>>

(* Stop: o.wg.Wait() returns once the discovery goroutine has.  Requests  *)
(* are not counted: they carry on across Stop.                             *)
StopWait ==
    /\ stopPc = "cancelled" /\ discPc = "returned"
    /\ stopPc' = "waited"
    /\ UNCHANGED <<engines, ring, active, pc, chosen, counter, changes, conns,
                   cache, held, ctxDone, discPc>>

(* Stop: transport.Close() (its error is ignored), then discovery.Close(), *)
(* which closes stopCh after the Watch loop has already returned.          *)
StopClose ==
    /\ stopPc = "waited"
    /\ stopPc' = "stopped"
    /\ TransportClose
    /\ UNCHANGED <<engines, ring, active, pc, chosen, counter, changes, held,
                   ctxDone, discPc>>

Next ==
    \/ \E r \in Request : Select(r) \/ Lookup(r) \/ Connect(r) \/ Finish(r)
    \/ \E P \in SUBSET Pod : WatchEvent(P)
    \/ WatchFailed \/ WatchStarted \/ WatchReturn
    \/ StopCancel \/ StopWait \/ StopClose

Spec == Init /\ [][Next]_vars

-----------------------------------------------------------------------------
(* Properties                                                              *)

TypeOK ==
    /\ engines \subseteq Engine
    /\ ring \subseteq Engine
    /\ active \in [Engine -> Nat]
    /\ pc \in [Request -> PC]
    /\ chosen \in [Request -> Engine \cup {NoEngine}]
    /\ counter \in Nat
    /\ changes \in Nat
    /\ conns \in Seq(Conn)
    /\ cache \in [Engine -> 0..Len(conns)]
    /\ held \in [Request -> 0..Len(conns)]
    /\ ctxDone \in BOOLEAN
    /\ discPc \in {"start", "watching", "returned"}
    /\ stopPc \in StopPC

(* The active count never over-reports: however discovery removes and      *)
(* re-adds engines under in-flight requests, an engine's count is at most  *)
(* the number of remote calls to it still in flight, because every        *)
(* increment is matched by the deferred decrement on every exit path.      *)
NoOverCount == \A e \in Engine : active[e] <= InFlight(e)

(* Capacity accounting (spec 4.4, 4.6 step 6): the active count of every   *)
(* engine in the balancer equals its executions in flight.                 *)
ActiveCountAccurate == \A e \in ring : active[e] = InFlight(e)

(* Until Stop begins, a remote call goes over an open connection: the     *)
(* connection the transport hands a request has not been closed by        *)
(* another request's deferred conn.Close(), before or during the call.     *)
(* (Stop closing the connections under calls still in flight is           *)
(* shutdown, and is not counted.)                                          *)
CallOverOpenConnection ==
    stopPc = "running" =>
        \A r \in Request : pc[r] = "call" => conns[held[r]].open

=============================================================================
