-------------------------- MODULE MCGenerationStore --------------------------
(* Small instances of GenerationStore for TLC. *)
EXTENDS GenerationStore, TLC

CONSTANTS p1, p2, p3, g1, g2, g3, r1

Symmetry == Permutations(Procs) \cup Permutations(Gens)

AllKinds == {"rebuild", "vector", "rollback", "recover"}
PublishOnly == {"rebuild", "vector"}
=============================================================================
