---------------------------- MODULE MCAkilScore ----------------------------
(* TLC instance of AkilScore. *)
EXTENDS AkilScore

CONSTANTS n1, n2, cand, a, b, d

Rates(cache, lock, fault, switch, confidence) ==
    [CacheMissRate |-> cache, LockContentionRatio |-> lock, PageFaultRate |-> fault,
     ContextSwitchRate |-> switch, Confidence |-> confidence]

Light == Rates(1, 0, 1, 2, "HIGH")
Heavy == Rates(9, 3, 5, 5, "HIGH")
Drained == Silent("UNKNOWN")
Negative == Rates(-5, 0, -4, 0, "HIGH")

\* The candidate is known in every degree; its neighbours are light, heavy,
\* barely known, drained or simulated with negative counts.
MCProfiles ==
    [w \in Workloads |->
       CASE w = cand -> {Light, Rates(7, 3, 1, 2, "MEDIUM"), Rates(8, 1, 3, 3, "LOW")}
         [] w = a    -> {Heavy, Rates(2, 1, 1, 2, "LOW"), Drained}
         [] w = b    -> {Heavy, Light, Negative}
         [] OTHER    -> {Heavy}]

\* The second node has a neighbour more than the first, which also runs the
\* candidate's replicas and a DaemonSet.
MCLocated ==
    [w \in Workloads |-> CASE w = a -> {n1, n2} [] w = b -> {n2} [] OTHER -> {n1}]
=============================================================================
