---------------------------- MODULE MCAggregator ----------------------------
(* TLC instance of Aggregator. *)
EXTENDS Aggregator, TLC

CONSTANTS k1, k2

\* One countable event; one event without a key and one that creates a profile
\* without being counted.
MCBatchKinds ==
    {<<[key |-> k1, counted |-> TRUE]>>,
     <<[key |-> NoKey, counted |-> TRUE], [key |-> k1, counted |-> FALSE]>>,
     <<[key |-> k2, counted |-> TRUE]>>}

Symmetry == Permutations(Streams)
=============================================================================
