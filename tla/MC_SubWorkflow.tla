---------------------------- MODULE MC_SubWorkflow ----------------------------
(* One parent with two children and a second parent with one: the          *)
(* children race with CancelChildren, and two calls may read the same       *)
(* clock value.                                                             *)
EXTENDS SubWorkflow, TLC

CONSTANTS p1, p2, c1, c2, c3

MCParent == {p1, p2}

MCCall == {c1, c2, c3}

MCCallParent == (c1 :> p1) @@ (c2 :> p1) @@ (c3 :> p2)

MCMaxTime == 2
=============================================================================
