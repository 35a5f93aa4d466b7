----------------------------- MODULE MC_Monitor -----------------------------
(* Two engine streams, two subscriptions, channels of capacity 1 so that   *)
(* both drop paths are reached, and two events per stream.                 *)
EXTENDS Monitor, TLC

CONSTANTS s1, s2, u1, u2

MCStream == {s1, s2}
MCSub == {u1, u2}
MCEvCap == 1
MCSubCap == 1
MCMaxEvents == 2

(* No property names a stream or a subscription. *)
MCSymmetry == Permutations(MCStream) \cup Permutations(MCSub)

=============================================================================
