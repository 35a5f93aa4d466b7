# TLA+ verification of the workflows engine and orchestrator

This directory holds the TLA+ model of the Go code under `src/`. It has
modules, TLC configurations and TLAPS proofs. `PROJECT.json` lists every
component, run, mutant, source mapping, finding, hazard and theorem.

## The system

- **DAG engine** (`src/dagengine/engine.go`). It runs one workflow as a
  DAG of nodes.
  - `Run` starts a goroutine `executeNode` for every root and waits on a
    `sync.WaitGroup`.
  - `executeNode` sets RUNNING under `n.mu` and executes the task. On
    failure it sets FAILED and returns, still holding `n.mu`. Otherwise it
    sets COMPLETED and calls `triggerChildren`.
  - `triggerChildren` holds the engine mutex `e.mu`. For each child it locks
    the child, decrements `ReadyCounter`, and launches the child when the
    counter hits zero and the child is still PENDING.
  - `AddNode` and `PreprocessDAG` build the nodes and Children lists before
    `Run`.
- **Version registry** (`src/orchestrator/message.go`,
  `src/orchestrator/workflow_manager.go`).
  - `WorkflowManager.RegisterWorkflow` holds `wm.mu` for its whole body. It
    asks `VersionManager.CanUpdate`, runs the builder, calls
    `RegisterVersion`, and keeps the builder.
  - `RegisterVersion` stores the version and moves `latest` if the new one
    is newer by `isNewerVersion`. It then recomputes the version's
    Dependents in `updateDependencies`.
  - `OrchestratorV2.ExecuteWorkflow` (`src/unnamed/part_000`) reads the
    latest version and the builder.
- **Dispatch.**
  - `OrchestratorV2.ExecuteWorkflow` selects an engine from the
    consistent-hash load balancer (`src/orchestrator/loadbalancer.go`) and
    looks it up in the engine map. That map is kept up to date by the
    discovery callback (`startDiscovery`).
  - It then increments and decrements the engine's active-workflow count
    around the remote call.
  - Engines run `EngineService` (`src/unnamed/part_003`), which applies
    capacity admission and `StopWorkflow`.
- **Sub-workflows, monitoring and the rest.**
  - `SubWorkflowCoordinator` (`src/unnamed/part_005`) launches child
    workflows and cancels them.
  - `Monitor` (`src/unnamed/part_001`) fans events out to subscribers.
  - `GRPCTransport` (`src/orchestrator/transport/grpc_transport.go`)
    caches one gRPC connection per engine id; `KubernetesDiscovery.Watch`
    lists the engine pods on every pod event and calls `onChange`.
  - YAML parsing, triggers, secrets and the CLIs are I/O around these
    parts.

## Modules

| module | models | state | actions |
|---|---|---|---|
| `DAGEngine` | `Run`, `executeNode`, `triggerChildren`, `NewNode`, `PreprocessDAG` | `deps`, `status`, `readyCounter`, `held` (n.mu left locked), `pc` per goroutine, `toTrigger` (loop position), `engineLock` (e.mu), `wg`, `rootsLeft` (Run's launch loop), `result`, history `launches` | `RunLaunchRoot`, `RunReturn`, `SetRunning`, `Fail`, `Complete`, `AcquireEngine`, `TriggerChild`, `TriggerDone` |
| `DAGSchedule` | the contract of spec 4.1 for running a preprocessed engine | `deps`, `status`, `result` | `Start`, `Finish`, `Return` |
| `VersionRegistry` | `RegisterWorkflow`, `CanUpdate`, `RegisterVersion`, `updateDependencies`, `isNewerVersion` | `versions`, `latest`, `dependencies`, `dependents`, `builders` | `RegisterWorkflow(w, v, d)` |
| `RoundRobin` | `RoundRobinLoadBalancer` | `engines` (the slice), `current`, `capacities`, `selected`, `panicked` | `AddEngine`, `RemoveEngine`, `UpdateEngineCapacity`, `SelectEngine` |
| `Dispatch` | `OrchestratorV2.ExecuteWorkflow` (engine path), `startDiscovery`, `Stop`, `ConsistentHashLoadBalancer`, `GRPCTransport.Connect`/`Close`, `KubernetesDiscovery.Watch`/`discoverEngines` | `engines` (o.engines keys), `ring`, `active` (lb.activeWorkflows), `pc`, `chosen` and `held` per request, `counter`, `changes`, `conns`, `cache`, `ctxDone`, `discPc`, `stopPc` | `Select`, `Lookup`, `Connect` (incl. `ConnectFailed`), `Finish`, `WatchFailed`, `WatchStarted`, `WatchEvent(P)`, `WatchReturn`, `StopCancel`, `StopWait`, `StopClose` |
| `EngineService` | `EngineService.ExecuteWorkflow`, its goroutine, `StopWorkflow` | `active` (table keys), `status`, `cancelled` (ctx cancelled), `pc` per execution | `ExecuteWorkflow`, `RunReturns`, `Release`, `StopWorkflow` |
| `SubWorkflow` | `SubWorkflowCoordinator.ExecuteSubWorkflow`, its goroutine, `CancelChildren` | `now` (clock), `pc`, `stamp`, `status` per call, `table` (activeSubWorkflows), `children`, and per parent `cpc`, `todo`, `target` of CancelChildren's loop | `Tick`, `ExecuteSubWorkflow`, `StartChild`, `ChildReturns`, `CancelChildren`, `CancelCheck`, `CancelWrite`, `CancelDone` |
| `Monitor` | `NewMonitor`, `Start`, `Stop`, `Subscribe`, `RecordEvent`, the stream goroutine of `AttachToEngineGRPC`, `processEvents`, and main.go's subscriber loop | `ctxDone` (m.ctx), `evBuf`/`evClosed` (m.events), `subState`/`subBuf` per subscription, `ppc` (processEvents), `spc` and `received` per stream goroutine, `wg`, `stopPc` (position in Stop), `panicked` | `Start`, `Attach`, `StreamReceive`, `RecordEvent`, `StreamCancelled`, `StreamEOF`, `Subscribe`, `Consume`, `Distribute`, `ProcessorExit`, `StopCancel`, `StopClose`, `StopWait`, `StopCloseSubscribers` |
| `DAGEngine_proofs` (also the refinement of `DAGSchedule`), `VersionRegistry_proofs`, `Dispatch_proofs`, `EngineService_proofs`, `Monitor_proofs` | TLAPS proofs | | |
| `MC_DAGEngine`, `MC_VersionRegistry`, `MC_Dispatch`, `MC_RoundRobin`, `MC_EngineService`, `MC_SubWorkflow`, `MC_Monitor` | TLC instances | | |

### DAGEngine

- Each goroutine is a program counter `pc[n]`. Its values are none, start,
  execute, lockEngine, trigger and done. Each action is one critical
  section of the code:
  - `SetRunning` is lines 50-52.
  - `Complete` and `Fail` are the task outcome and lines 57-68.
  - `AcquireEngine` is `e.mu.Lock()`.
  - `TriggerChild` is one loop iteration, atomic because it runs under
    `e.mu` and the child's `n.mu`.
  - `TriggerDone` is the deferred unlock plus `wg.Done()`.
- `Fail` leaves `held[n]` TRUE: the code returns without `n.mu.Unlock()`.
  `TriggerChild` on such a child would block, so it is guarded by
  `~held[c]`.
- Go's map iteration order is a nondeterministic choice:
  - `RunLaunchRoot` picks any root left.
  - `TriggerChild` picks any child left.
- The graph is any member of the constant `Graphs`. `Init` is the state
  after `NewNode` and `PreprocessDAG`:
  - `ReadyCounter = len(deps)`.
  - `Children` is derived from `deps`.
- `DAGSchedule` states what `Run` promises, with goroutines, locks,
  counters and the WaitGroup left out:
  - `Start(n)`: a PENDING node whose dependencies have all COMPLETED
    becomes RUNNING, while `Run` has not returned.
  - `Finish(n)`: a RUNNING node becomes COMPLETED or FAILED.
  - `Return`: `Run` returns when no node runs and no node is `Ready`.
- `Schedule == INSTANCE DAGSchedule` maps `deps`, `status` and `result`
  to themselves. `DAGRefinement == Schedule!Spec` is checked as a property
  and proved. `SetRunning` is `Start`, `Fail` and `Complete` are `Finish`,
  `RunReturn` is `Return`, and every other step stutters.
- `IsDag(g)` states acyclicity as the proofs use it: every non-empty set
  of nodes has a member with no dependency inside the set. For a finite
  graph this is the same as having no cycle.

### VersionRegistry

- A version is a triple. `VersionString` builds its `"M.m.p"` bytes, and
  `StringGreater` is Go's bytewise `>` on strings. So `isNewerVersion` is
  modelled by what it does. That it disagrees with the spec's semantic
  order is plain from its own comment ("assume lexicographic comparison")
  and is listed as a hazard rather than run.
- A builder's definition is abstracted to the set of workflow ids that
  `extractDependencies` returns.
- A refused `CanUpdate` or a failing builder returns before any write. So
  it is a stuttering step and is not an action.
- All other registry methods only read.

### Dispatch

- Each `ExecuteWorkflow` call is a goroutine. It moves through these
  stages: idle, lookup, connect, call, done.
  - `Select` is `nextExecutionID` and `SelectEngine`. An empty ring fails
    the call; otherwise any ring member may own the key.
  - `Lookup` is the `o.engines` lookup. It fails, with no retry, if
    discovery removed the engine in the meantime.
  - `Connect` either fails in `BuildWorkflow`/`Connect` before the
    increment, or increments the engine's count (`lb.activeWorkflows[id]++`,
    which recreates a deleted key).
  - `Finish` is the call's return and the defers in reverse order: the
    clamped `Decrement`, then `conn.Close()` on the connection the request
    holds.
- The transport is `conns` (every connection dialled, with its open flag),
  `cache` (engine -> connection, the `gt.connections` map) and `held`
  (request -> connection). `TransportConnect` returns the cached
  connection whatever its state, or dials and caches a new one (a dial
  without `WithBlock` does not fail on a pod address). `TransportClose`
  walks the cache in any order and stops at the first connection that is
  already closed, as `GRPCTransport.Close` returns on the first error.
- Discovery is the goroutine `discPc`: `WatchFailed` (the watcher cannot
  be created), `WatchStarted`, then `WatchEvent(P)` for the initial list
  and each pod event, and `WatchReturn` on `o.ctx.Done()`. A pod set `P`
  is drawn from the constant `Pod`; `DiscoverEngines` keeps the running
  pods with an IP and names each by its `engine-id` label or pod name.
- `Stop` is `StopCancel` (`o.cancel()`), `StopWait` (`o.wg.Wait()`, which
  counts only the discovery goroutine) and `StopClose` (the transport's
  `Close`; discovery's `Close` only closes `stopCh` after `Watch` has
  returned).
- `OnChange(snapshot)` is the discovery callback:
  - new engines get `AddEngine`, which sets the count to 0;
  - missing engines get `RemoveEngine`, which drops the count.
- The callback runs under `o.mu`, and the lookup also takes `o.mu`. Its
  balancer calls can interleave with `SelectEngine` and
  `Increment`/`Decrement` of other requests. Each such call commutes with
  the rest of the callback, so the callback is modelled as one step.
- The registry reads at the start of `ExecuteWorkflow` are left out here:
  they do not touch this state.

### RoundRobin

- `RoundRobin` is `RoundRobinLoadBalancer`, each method one step under
  `lb.mu`. Nothing increments its active counts, so `SelectEngine`'s test is
  `0 < capacity`. The loop is `ReturnIter`, the first iteration whose engine
  has room or the `n`-th, after which `lb.current` is back at its start
  (so the final `return lb.engines[0]` is dead code). `RemoveEngine` cuts
  the slot out (`RemoveAt`) and leaves `lb.current` alone; a `SelectEngine`
  with `lb.current` past the end panics, and a panic ends the process.

### EngineService

- Admission is one `es.mu` section, so the capacity test and the
  insertion are atomic. The run goroutine makes three steps:
  - `engine.Run`, a single step, because `DAGEngine` shows it returns
    (`Termination`) and always returns nil;
  - the status write under `es.mu`;
  - the deferred delete, in its own `es.mu` section.
- `StopWorkflow` may run at any point while the record exists.

### SubWorkflow

- A child id `"<parent>-sub-<UnixNano>"` is the pair
  `<<parent, clock reading>>`. The clock `now` never decreases, and two
  readings may be equal.
- The goroutine writes through its own record pointer (`status[c]`). The
  map (`table`) holds whichever record was stored last under an id.
- `CancelChildren` is a loop with three kinds of step:
  - the snapshot under RLock;
  - a lookup and status test per child;
  - the write in a separate lock section.
- The dispatcher call is one step whose outcome (error or not) is chosen
  nondeterministically.

### Monitor

- A buffered channel is its fill level (`evBuf`, `subBuf[u]`): no
  property tells events apart. A send in a `select` with a `default`
  branch adds one, or drops the event when the buffer is full.
- A send on a closed channel panics even inside such a `select`. The panic
  ends the process: `panicked` is set and `Next` takes no further step.
- A stream goroutine has two steps per event, and `Stop` may run between
  them:
  - `StreamReceive`, where the `select` takes an engine event; Go picks
    any ready case, so this can happen after cancellation;
  - `RecordEvent`.
  It returns on `streamCtx.Done()` (`StreamCancelled`) or when the engine
  closes its stream (`StreamEOF`). Both paths run the deferred
  `wg.Done()`.
- `Stop` is four steps:
  - `m.cancel()`;
  - `close(m.events)` together with the stream-cancel loop, whose cancels
    repeat what every `streamCtx` inherited from `m.ctx`;
  - `m.wg.Wait()`;
  - closing the listed subscriber channels.
- Streams are attached before `Stop`, as `main.go` does.

## Runs

| run | cfg | expect | shows |
|---|---|---|---|
| dag_safety | `MC_DAGEngine.cfg` | pass | `StartedAfterDependencies`, `AtMostOnce`, `ReturnMeansQuiescent`, `CompletesWhenNoFailure` and `DAGRefinement` hold for all 64 DAGs on 4 nodes (17,328 states). The `MCGraphsAcyclic` assumption checks that each of these graphs satisfies `IsDag`. The run also checks `Termination`: `Run` returns under weak fairness of every goroutine |
| registry_safety | `MC_VersionRegistry.cfg` | pass | `BuilderMatchesLatest`, `NoSpuriousDependents` over 2 ids and 4 versions (343,009 states) |
| registry_dependents | `MC_VersionRegistry_DependentSafety.cfg` | violation | w 1.0.0, then x depending on w, then w 2.0.0 is accepted (seed scenario 3) |
| dispatch_accounting | `MC_Dispatch.cfg` | pass | `NoOverCount` (51,104 states): with 3 requests, 2 engines and 4 discovery callbacks, a count never exceeds the calls in flight |
| dispatch_count_accuracy | `MC_Dispatch_ActiveCountAccurate.cfg` | violation | a call is in flight on e2, discovery drops and re-adds e2 (`AddEngine` sets the count to 0), and its count reads 0 |
| dispatch_shared_connection | `MC_Dispatch_CallOverOpenConnection.cfg` | violation | r1 and r2 pick e2; r1 dials and caches a connection, calls and returns, its deferred `Close` closes it, and r2 is handed the closed connection and calls over it |
| engine_capacity | `MC_EngineService.cfg` | pass | `WithinCapacity` with 4 executions on capacity 2 (6,636 states) |
| sub_id_collision | `MC_SubWorkflow_ExecutionIdsUnique.cfg` | violation | c1 and c2, both children of p1, call `ExecuteSubWorkflow` within one clock reading and get the same id; c2's record replaces c1's in `activeSubWorkflows` |
| sub_terminal_overwrite | `MC_SubWorkflow_TerminalStatusStable.cfg` | violation | CancelChildren writes CANCELLED, then the goroutine writes COMPLETED (or the reverse race) |
| monitor_stop | `MC_Monitor.cfg` | pass | `StopQuiescent` and `StopCompletes` with 2 streams and 2 subscriptions (8,280 states) |
| monitor_record_after_stop | `MC_Monitor_EventsSendSafe.cfg` | violation | a stream takes an event after `m.cancel()`, `Stop` closes `m.events`, and `RecordEvent` panics |
| rr_select_after_remove | `MC_RoundRobin.cfg` | violation | add e1, add e2, a select moves `current` to 1, e2 is removed, and the next select indexes `engines[1]` of a one-element slice |

### Bounds

- **DAG engine.** `MC_DAGEngine` enumerates every DAG on nodes 1..4, where
  a node depends only on smaller ids. That covers:
  - diamonds, where two parents race on one counter;
  - several roots;
  - chains;
  - a node with three parents;
  - failures at every position.
- **Registry.** `MC_VersionRegistry` has two ids, so one can depend on the
  other. Its versions 1.0.0, 2.0.0, 9.0.0 and 10.0.0 include a pair whose
  string and semantic orders disagree.

- **Dispatch.** `MC_Dispatch` has two engines, three requests, four
  callbacks and four pods: one named e1, one named e1 but labelled e2, one
  without an IP and one not running. So a snapshot can be empty, either
  engine or both, the label can override the name, and both filters are
  exercised. That is enough for an engine to leave and return under two
  in-flight calls, for a lookup to lose its engine, for two requests to
  share a cached connection and for `Stop` to meet calls in flight.
  Symmetry is over requests only: the pods name the engines.
- **Round robin.** `MC_RoundRobin` has two engines, two callers and
  capacities 0 and 1: a full and a free engine, and a removal of the last
  slot after the cursor has moved past the first.

- **Engine service.** `MC_EngineService` has 4 executions on capacity 2,
  so admission at the boundary races with deletes.

- **Sub-workflows.** `MC_SubWorkflow` has two children of p1, one child
  of p2 and a clock bounded by 2. Both parents may cancel at any point, so
  every order of start, return, check and write arises, and so do equal
  and distinct clock readings.

- **Monitor.** `MC_Monitor` has two streams with two events each, two
  subscriptions, and channels of capacity 1. So both drop paths, a
  subscription before and after `Stop`, and `Stop` at every point of both
  stream loops are reached. The fairness run has no symmetry; the
  violation run declares it over streams and subscriptions.

The registry, dispatch, engine-service, sub-workflow and monitor cfgs set
`CHECK_DEADLOCK FALSE`. The version set is finite,
and once it is used up every further registration is refused, which is a
state the registry really rests in. In dispatch, every request returns and
discovery stops at its bound. The liveness run also sets it: after
`Run` returns the model only stutters, and `Termination` is the stronger
statement.

### Fairness

Only the two liveness runs assume fairness; every other run checks
safety under `Spec`. `DAGEngine`'s `FairSpec` assumes weak fairness of
each node's goroutine and of `Run`.
`Monitor`'s assumes it for `processEvents`, for each stream goroutine's
`RecordEvent` and cancellation exit, and for `Stop` once it has begun.
Engines (events, end of stream), clients (`Subscribe`, the call to `Stop`)
and consumers get none.
Go's scheduler runs every runnable goroutine eventually, and each step is
enabled until taken. The steps are: lock free, counter update, or
WaitGroup at zero.

### Mutants

Each property of a passing run is broken by a plausible bug of the code
(`PROJECT.json` "mutants"):

- a `ReadyCounter` initialised one too low or one too high;
- a launch test that ignores the counter;
- a launch without `wg.Add(1)`;
- a failure path without `wg.Done()`;
- a `CanUpdate` without the "is newer" check;
- an `updateDependencies` that counts a self-reference;
- an active count incremented before `Connect`'s error return;
- a capacity test with `>` instead of `>=`;
- a `Run` that waits before its launch loop is over (breaks
  `DAGRefinement`);
- `wg.Add(1)` moved into the stream goroutine;
- a stream loop without the `streamCtx.Done()` case.

## Findings

Each finding below is shown by a violation run.

1. **Dependents are stale** (`message.go:228`). `updateDependencies` fills
   in Dependents only for the version being registered, so a dependent
   registered later never protects its dependency. `CanUpdate` then
   accepts a new version of a workflow that others depend on.
2. **The active count loses in-flight calls** (`loadbalancer.go:55`).
   This happens when an engine leaves and rejoins discovery while it runs
   calls. `AddEngine` resets the count to 0, and the later decrements are
   absorbed by the `> 0` guard. Any fallback policy reading the count sees
   an engine as less loaded than it is.
3. **A child's terminal status is overwritten** (`part_005:103`, `:163`).
   The goroutine replaces CANCELLED, and `CancelChildren`'s
   check-then-write replaces COMPLETED.
4. **`Stop` can make the monitor panic** (`part_001:73`). `Stop` closes
   `m.events` right after `m.cancel()`, without waiting for the stream
   goroutines. A goroutine whose `select` already took an engine event
   then sends on the closed channel in `RecordEvent`. The `default` branch
   does not help: a send on a closed channel panics.
5. **A request closes the connection others share** (`part_000:154`,
   `grpc_transport.go:48`). `Connect` hands every request to an engine the
   one cached connection, and `ExecuteWorkflow` defers `conn.Close()` on
   it. The first request to return closes it under concurrent calls, and
   the closed connection stays cached for every later request. `Stop`'s
   `transport.Close` also closes connections under calls still in flight.
6. **The round-robin balancer panics after a removal**
   (`loadbalancer.go:193`, `:215`). `RemoveEngine` shortens the slice but
   keeps `lb.current`, which can then equal the new length;
   `SelectEngine` reads `lb.engines[lb.current]` before any check.
7. **Sub-workflow ids collide** (`part_005:51`). The child id is
   `"<parent>-sub-<UnixNano>"`, with no counter, but spec 3 says an
   `execution_id` is globally unique. Two children of one parent that
   read the same clock value get the same id. Sibling sub-workflow nodes
   run concurrently, and clocks with coarser than nanosecond resolution
   make equal readings likely. The second record replaces the first in
   `activeSubWorkflows`, so the first child can no longer be looked up or
   cancelled, and the parent's children list holds the id twice.

These divergences can be read straight off the source, so no run checks
them. They are listed in `PROJECT.json` as hazards.

- `Run` returns nil even when nodes FAILED (`engine.go:39`).
- Versions compare as strings (`message.go:266`, "assume lexicographic
  comparison"), so `latest` can move backwards in semantic order.
- A stopped execution reports COMPLETED (`part_003:82`): the run
  goroutine's final write overwrites `StopWorkflow`'s CANCELLED, as the
  sub-workflow run shows for the same pattern.
- The engine has no cycle check (`engine.go:24`, "omitted for brevity"),
  and the validator has none either. On a cycle, the cycle's nodes are
  never launched, and `Run` returns nil with them still PENDING. The
  theorems below cover cyclic graphs; the run's instance holds only DAGs.
- There is no fail-fast (`engine.go:61`): other roots still start.
- A request whose engine discovery removed after selection fails with no
  retry (`part_000:130`); spec 4.6 asks for a retry on another engine.
- `CancelChildren` does not stop the children's executions
  (`part_005:164`, a TODO).
- The spec counts dropped events; the monitor keeps no counter.

## Proofs (TLAPS)

### `DAGEngine_proofs`

It proves these results for every finite `Node` and every dependency
relation, cycles included:

- `TypeCorrect`;
- `TopologicalOrder` (`Spec => []StartedAfterDependencies`);
- `ExecutedAtMostOnce` (`Spec => []AtMostOnce`);
- `RunReturnsQuiescent` (`Spec => []ReturnMeansQuiescent`);
- `DAGEngineImplementsSchedule` (`Spec => DAGRefinement`).

It also proves `CompletesOnAcyclicGraphs`: when every graph in `Graphs`
satisfies `IsDag`, `Spec => []CompletesWhenNoFailure`. The hypothesis is
needed, because on a cycle that property is false.

The invariant is not inductive by itself. The strengthening `IInv` adds
these conjuncts:

- `StatusInv`: the goroutine's pc fixes the node's status.
- `TriggerInv`: the loop visits only children, and only while it runs.
- `CounterInv`: the central one. `readyCounter[c]` equals the cardinality
  of `Waiting(c)`, the dependencies whose triggerChildren has not yet
  passed c.
- `StartedInv`: a launched node waits for nobody.
- `RootsInv`: Run's loop has only unlaunched roots left.
- `LaunchInv`: `launches` is 1 exactly for launched nodes.

The key step is `TriggerChild`. The parent leaves `Waiting(c)`, so the
counter and the cardinality drop together (`FS_RemoveElement`). A launch
happens only when `Waiting(c)` becomes empty, and every dependency then
is COMPLETED. `IInv` was model-checked with TLC before it was proved.

The last three results rest on a stronger invariant, `QInv`. It is `IInv`
plus the following conjuncts:

- `WgInv`: `wg` equals the size of `Live`, the nodes whose goroutine is
  launched and has not returned. `Launch` adds one to both
  (`FS_AddElement`); `Fail` and `TriggerDone` remove one from both
  (`FS_RemoveElement`). The child's launch inside `triggerChildren`
  therefore happens before its parent's `wg.Done()`.
- `ReturnInv`: once `Run` has returned, its loop is over and `wg = 0`.
  So while a goroutine is live, `Run` has not returned (`LivePending`).
- `NotLaunchedInv`: a node not yet launched is either a root `Run`'s loop
  has still to reach, or it has a dependency in `Waiting(c)`. The key step
  is again `TriggerChild`. When the child is not launched, its counter
  stays non-zero, so `Waiting(c)` stays non-empty by `CounterInv`.
- `DepsInv`: the graph is the one `Init` chose.

At `Run`'s return, `wg = 0` makes `Live` empty. So every node is either
unlaunched or done, which is `RunReturnsQuiescent`.

`NothingLeftToStart` then shows that no node is ready. A PENDING node is
unlaunched, so it waits for some dependency `u` that has not triggered
it. `u` has no live goroutine; if it had COMPLETED, it would be done and
would have triggered every child. So `u` is not COMPLETED. That gives the
`Return` step of the refinement. `SetRunning` is `Start` by
`StartedDepsCompleted` and `LivePending`.

`CompletesOnAcyclicGraphs` applies `IsDag` to the set of unlaunched
nodes. A minimal member of that set would wait on a dependency outside
it, which is done and, with no failure, COMPLETED, and so would have
triggered it. So the set is empty, and every node is done and COMPLETED.

Acyclicity is stated as this well-foundedness condition, not derived by
induction over the graph. The library's induction theorems take an
operator parameter, which the installed provers cannot instantiate.
`QInv` was model-checked with TLC (17,328 states) before it was proved.

### `VersionRegistry_proofs`

It proves two results for every set of ids and versions:

- `BuilderAlwaysMatchesLatest` (`Spec => []BuilderMatchesLatest`);
- `DependentsAlwaysReal` (`Spec => []NoSpuriousDependents`).

The strengthening adds `LatestDefined`: an id has a latest version exactly
when it has a registered one. The argument is:

- An accepted registration of an existing id passed `isNewerVersion`, so
  it becomes latest, and its builder is kept. The order itself is never
  expanded, so the result holds for any comparison.
- `CanUpdate` never admits a registered string (`CanUpdateFresh`). So the
  dependencies of registered versions never change, and a recorded
  dependent stays real.

### `Dispatch_proofs`

It proves `CountNeverOverReports` (`Spec => []NoOverCount`) for every
finite `Engine`, `Request` and `Pod` and every `MaxChanges`.

The strengthening `IInv` is `CoreTypeOK` (the types of the five variables
the balancer reads), `ChosenInv` (a request past selection holds an
engine) and `NoOverCount`. One lemma is proved per action:

- `Connect` adds the request to the chosen engine's in-flight set
  (`FS_AddElement`) as the count goes up.
- `Finish` removes it (`FS_RemoveElement`). The count drops only if it was
  positive, and the in-flight set was non-empty.
- `WatchEvent` only sets counts to 0; `DiscoverEnginesType` shows from
  `PodAssumption` that the snapshot is a set of engines.
- The other discovery and `Stop` steps leave the balancer and the requests
  alone (`ControlFrame`).

### `EngineService_proofs`

It proves `CapacityRespected` (`Spec => []WithinCapacity`) for every
capacity and every finite set of executions.

The strengthening `TableMatchesPC` says an execution is in the table
exactly between admission and the deferred delete. So an admitted id is
new, and the table grows by one (`FS_AddElement`) only from below the
capacity.

### `Monitor_proofs`

It proves `StopWaitsForAll` (`Spec => []StopQuiescent`) for every finite
`Stream` and all capacities. The strengthening `WgInv` says `wg` equals:

- 1 while `processEvents` loops, plus
- the number of stream goroutines between `Attach` and their exit
  (`Running`).

`Attach` adds a member to `Running` (`FS_AddElement`), and an exit
removes one (`FS_RemoveElement`). So `wg = 0` at `StopWait` means every
goroutine has returned (`FS_EmptySet`). After that no goroutine can start:
`Start` and `Attach` require `Stop` not to have begun.

### Only model-checked

Three kinds of result stay with TLC (every safety property of a passing
run also has a theorem):

- liveness (`Termination`, `StopCompletes`);
- the violation runs;
- the statements about the concrete string order and about the
  transport's connections (`CallOverOpenConnection` is a violation run).

TLAPS cannot prove liveness under fairness, and the string order is
defined over concrete byte sequences.

## Not modelled yet, and why

- Subscribing after `Stop` returns a channel that is never closed, and
  attaching after `Stop` panics on the nil map. The model allows the first
  without a property, and leaves out the second because callers attach
  at start-up. The coordinator's records are never
  released, which no finite instance can show. With the round-robin balancer `ExecuteWorkflow`'s type
  assertion to `*ConsistentHashLoadBalancer` panics on every request;
  `Dispatch` models the consistent-hash configuration and `RoundRobin` the
  balancer alone. These hazards are listed in `PROJECT.json` without
  covering properties.
- The gRPC connection's remote methods (`ExecuteWorkflow`,
  `StreamEvents`, `GetStatus`, `Cancel`) are stubs that return "protobuf
  code generation required", and `grpc_transport_impl.go` is entirely
  commented out; their outcome changes no dispatch state. The polling
  `Discover` is never called.
- The YAML parser and validator, config and the CLIs are pure parsing or
  I/O. Cron and HTTP triggers, secret stores and the management HTTP
  server are adapters that spec section 1 puts outside the core; they
  hold no state the modelled components read.
- The Lua executor only matters to the scheduler through success or
  failure.
