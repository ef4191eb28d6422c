----------------------------- MODULE MCRegistry -----------------------------
(* Small instances of Registry.                                            *)
EXTENDS Registry, TLC

Symmetry == Permutations(Objects) \cup Permutations(Counters) \cup Permutations(Conns)
              \cup Permutations(Targets)
=============================================================================
