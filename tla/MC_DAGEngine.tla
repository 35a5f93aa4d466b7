---------------------------- MODULE MC_DAGEngine ----------------------------
(* Model-checking instance of DAGEngine: nodes 1..4 and every acyclic      *)
(* dependency relation on them (each node may depend on any node with a    *)
(* smaller id, which covers every DAG of four nodes up to renaming: 64     *)
(* graphs, among them chains, the diamond, forks, joins and independent    *)
(* branches).                                                              *)
EXTENDS DAGEngine

MCNode == 1..4

MCGraphs == {g \in [MCNode -> SUBSET MCNode] : \A n \in MCNode : g[n] \subseteq 1..(n - 1)}

(* Every graph of the instance is a DAG, the hypothesis of the theorem     *)
(* CompletesOnAcyclicGraphs.                                               *)
ASSUME MCGraphsAcyclic == \A g \in MCGraphs : IsDag(g)

=============================================================================
