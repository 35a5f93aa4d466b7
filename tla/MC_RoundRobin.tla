---------------------------- MODULE MC_RoundRobin ----------------------------
(* Two engines, two callers; capacity 0 (full) or 1 (room).                 *)
EXTENDS RoundRobin, TLC

CONSTANTS e1, e2, c1, c2

MCEngine == {e1, e2}
MCCaller == {c1, c2}
MCCapacity == {0, 1}

MCSymmetry == Permutations(MCEngine) \cup Permutations(MCCaller)
=============================================================================
