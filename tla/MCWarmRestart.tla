--------------------------- MODULE MCWarmRestart ---------------------------
(* Two readers, three driver keys, two mappings. *)
EXTENDS WarmRestart, TLC

CONSTANTS A, B, k1, k2, k3, m1, m2

MCIds  == {A, B}
MCKeys == {k1, k2, k3}
MCMaps == {m1, m2}

Names == Permutations(MCIds) \cup Permutations(MCKeys) \cup Permutations(MCMaps)
=============================================================================
