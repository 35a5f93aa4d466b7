----------------------------- MODULE MC_Dispatch -----------------------------
(* Two engines, three concurrent requests, four discovery callbacks: enough *)
(* for an engine to leave and come back under two in-flight calls, and for *)
(* a cached connection to be shared, closed and reused.  The pods cover    *)
(* every case of discoverEngines: named by the pod name, by the engine-id  *)
(* label, skipped for lack of an IP, skipped for not running.  Engines are *)
(* not symmetric once the pods name them; requests are.                    *)
EXTENDS Dispatch, TLC

CONSTANTS e1, e2, r1, r2, r3

MCEngine == {e1, e2}

MCRequest == {r1, r2, r3}

MCPod ==
    { [name |-> e1, label |-> NoEngine, running |-> TRUE, ip |-> TRUE],
      [name |-> e1, label |-> e2, running |-> TRUE, ip |-> TRUE],
      [name |-> e2, label |-> NoEngine, running |-> TRUE, ip |-> FALSE],
      [name |-> e2, label |-> e2, running |-> FALSE, ip |-> TRUE] }

MCMaxChanges == 4

MCSymmetry == Permutations(MCRequest)
=============================================================================
