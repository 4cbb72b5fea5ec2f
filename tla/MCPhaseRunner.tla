--------------------------- MODULE MCPhaseRunner ---------------------------
(* Instances of PhaseRunner for TLC. *)
EXTENDS PhaseRunner, TLC

CONSTANTS r1, r2

\* r2 depends on r1, in a later wave; or both lie on one dependency cycle and
\* share a wave.
ChainEdges == {<<r1, r2>>}
ChainWaves == [r \in Repos |-> IF r = r1 THEN 0 ELSE 1]
CycleEdges == {<<r1, r2>>, <<r2, r1>>}
OneWave    == [r \in Repos |-> 0]

Symmetry == Permutations(Procs)

=============================================================================
