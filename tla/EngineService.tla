---------------------------- MODULE EngineService ----------------------------
(***************************************************************************)
(* The engine runtime's execution table: EngineService (src/unnamed/part_003). *)
(* ExecuteWorkflow admits an execution under es.mu if the table is below   *)
(* capacity and starts a goroutine that runs the DAG engine, writes the    *)
(* final status under es.mu and, in a deferred call, deletes the record    *)
(* under es.mu again.  StopWorkflow marks a recorded execution CANCELLED   *)
(* and cancels its context.                                                *)
(*                                                                         *)
(* engine.Run is one step: DAGEngine shows it returns under fairness       *)
(* (Termination), and it always returns nil (engine.go:39), so the         *)
(* goroutine's err != nil branch is never taken, cancelled context or not. *)
(***************************************************************************)
EXTENDS Integers, FiniteSets

CONSTANTS
    Exec,       \* execution ids sent to this engine (distinct, as minted)
    Capacity    \* es.capacity

ASSUME ExecAssumption == IsFiniteSet(Exec)
ASSUME CapacityAssumption == Capacity \in Nat

VARIABLES
    active,     \* keys of es.activeWorkflows
    status,     \* exec.Status of each execution record ("none": never made)
    cancelled,  \* exec.Cancel() has been called
    pc          \* stage of the ExecuteWorkflow call and its goroutine

vars == <<active, status, cancelled, pc>>

ExecStatus == {"none", "RUNNING", "COMPLETED", "FAILED", "CANCELLED"}

(* Not called, refused at capacity, goroutine in engine.Run, status        *)
(* written and the deferred delete pending, record deleted.                *)
PC == {"idle", "rejected", "running", "finished", "done"}

-----------------------------------------------------------------------------
(* A plausible bug used to show WithinCapacity can fail: the capacity test *)
(* written with > instead of >=.                                           *)
AtCapacityOffByOne(n) == n > Capacity

-----------------------------------------------------------------------------
(* len(es.activeWorkflows) >= es.capacity                                  *)
AtCapacity(n) == n >= Capacity

Init ==
    /\ active = {}
    /\ status = [x \in Exec |-> "none"]
    /\ cancelled = [x \in Exec |-> FALSE]
    /\ pc = [x \in Exec |-> "idle"]

(* ExecuteWorkflow(ctx, workflowID, version, x, engine): refuse at         *)
(* capacity, else record x RUNNING and start the goroutine.                *)
ExecuteWorkflow(x) ==
    /\ pc[x] = "idle"
    /\ IF AtCapacity(Cardinality(active))
          THEN /\ pc' = [pc EXCEPT ![x] = "rejected"]
               /\ UNCHANGED <<active, status>>
          ELSE /\ active' = active \cup {x}
               /\ status' = [status EXCEPT ![x] = "RUNNING"]
               /\ pc' = [pc EXCEPT ![x] = "running"]
    /\ UNCHANGED cancelled

(* engine.Run(execCtx) returns nil; then exec.Status = "COMPLETED" under   *)
(* es.mu, whatever StopWorkflow wrote.                                     *)
RunReturns(x) ==
    /\ pc[x] = "running"
    /\ status' = [status EXCEPT ![x] = "COMPLETED"]
    /\ pc' = [pc EXCEPT ![x] = "finished"]
    /\ UNCHANGED <<active, cancelled>>

(* The deferred delete(es.activeWorkflows, executionID) under es.mu.       *)
Release(x) ==
    /\ pc[x] = "finished"
    /\ active' = active \ {x}
    /\ pc' = [pc EXCEPT ![x] = "done"]
    /\ UNCHANGED <<status, cancelled>>

(* StopWorkflow(x): "not found" unless recorded; else CANCELLED and        *)
(* exec.Cancel().                                                          *)
StopWorkflow(x) ==
    /\ x \in active
    /\ status' = [status EXCEPT ![x] = "CANCELLED"]
    /\ cancelled' = [cancelled EXCEPT ![x] = TRUE]
    /\ UNCHANGED <<active, pc>>

(* The goroutine of execution x.                                           *)
Goroutine(x) == RunReturns(x) \/ Release(x)

Next ==
    \E x \in Exec : ExecuteWorkflow(x) \/ Goroutine(x) \/ StopWorkflow(x)

Spec == Init /\ [][Next]_vars

-----------------------------------------------------------------------------
(* Properties                                                              *)

TypeOK ==
    /\ active \subseteq Exec
    /\ status \in [Exec -> ExecStatus]
    /\ cancelled \in [Exec -> BOOLEAN]
    /\ pc \in [Exec -> PC]

(* Capacity enforcement (spec 4.2, seed scenario 5): however admissions,   *)
(* completions and deletes interleave, the table never holds more than     *)
(* es.capacity executions.                                                 *)
WithinCapacity == Cardinality(active) <= Capacity

=============================================================================
