------------------------------ MODULE MCProbes ------------------------------
(* TLC instance of Probes. *)
EXTENDS Probes, TLC

\* The idle threads already share a key without waits of their own that nest.
MCNesting == [t \in Threads |-> IF t \in Idle THEN 1 ELSE 2]

IdleSymmetry == Permutations(Idle)
=============================================================================
