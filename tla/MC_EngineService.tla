--------------------------- MODULE MC_EngineService ---------------------------
(* Four executions on an engine of capacity 2: admissions race with         *)
(* deletes at the boundary, and StopWorkflow races with the goroutine.      *)
EXTENDS EngineService, TLC

CONSTANTS x1, x2, x3, x4

MCExec == {x1, x2, x3, x4}

MCCapacity == 2

MCSymmetry == Permutations(MCExec)
=============================================================================
