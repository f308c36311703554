-------------------------- MODULE MCWorkloadProfile --------------------------
(* TLC instance of WorkloadProfile. *)
EXTENDS WorkloadProfile

\* A call with lock time only, which counts as one sample, and one that adds
\* samples, no lock time, and a negative number of context switches: /api/simulate-events
\* does not reject negative counts.
MCBulkInputs ==
    {[pageFaults |-> 3, cacheMisses |-> 0, ctxSwitches |-> -1, lockNs |-> 0],
     [pageFaults |-> 0, cacheMisses |-> 0, ctxSwitches |-> 0, lockNs |-> 3]}
=============================================================================
