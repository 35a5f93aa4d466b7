------------------------- MODULE MC_VersionRegistry -------------------------
(* Two workflow ids and four versions, among them 9.0.0 and 10.0.0, whose  *)
(* strings order the other way round from their semantic versions.        *)
EXTENDS VersionRegistry

CONSTANTS a, b

MCWfId == {a, b}

MCVersion == {<<1, 0, 0>>, <<2, 0, 0>>, <<9, 0, 0>>, <<10, 0, 0>>}
=============================================================================
