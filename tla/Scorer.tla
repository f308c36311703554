------------------------------- MODULE Scorer -------------------------------
(***************************************************************************)
(* The co-location score (src/pkg/scoring/scorer.go) as a function.        *)
(*                                                                         *)
(* A rate is an integer in units of 1/Unit of the signal's maximum rate    *)
(* (the lock ratio: of 1), so that penalties are exact in units of 1/Unit  *)
(* of a point, and in quarters of that after dampening.  The code computes *)
(* in float64; the error of that is left out.                              *)
(***************************************************************************)
EXTENDS Integers, FiniteSets, Functions

CONSTANTS
    Unit,          \* resolution of rates
    WeightCache, WeightLock, WeightPageFault, WeightCtxSwitch

ASSUME ScorerAssumption ==
    /\ Unit \in Nat \ {0}
    /\ WeightCache \in Nat /\ WeightLock \in Nat
    /\ WeightPageFault \in Nat /\ WeightCtxSwitch \in Nat

NeutralScore == 50

Confidences == {"UNKNOWN", "LOW", "MEDIUM", "HIGH"}

RuntimeProfile == [CacheMissRate : Int, LockContentionRatio : Int, PageFaultRate : Int,
                   ContextSwitchRate : Int, Confidence : Confidences]

\* A profile without any activity.
Silent(confidence) ==
    [CacheMissRate |-> 0, LockContentionRatio |-> 0, PageFaultRate |-> 0,
     ContextSwitchRate |-> 0, Confidence |-> confidence]

\* A candidate without a profile is scored as a silent workload known well.
Assumed(candidate) ==
    IF candidate.Confidence = "UNKNOWN" THEN Silent("HIGH") ELSE candidate

\* confidenceDampeningFactor, in quarters.
Quarters(confidence) ==
    CASE confidence = "LOW"    -> 1
      [] confidence = "MEDIUM" -> 3
      [] confidence = "HIGH"   -> 4
      [] OTHER                 -> 0

\* What one neighbour p adds: its own cache misses, and the sum of both sides
\* for the other signals.
Penalty(candidate, p) ==
      p.CacheMissRate * WeightCache
    + (candidate.LockContentionRatio + p.LockContentionRatio) * WeightLock
    + (candidate.PageFaultRate + p.PageFaultRate) * WeightPageFault
    + (candidate.ContextSwitchRate + p.ContextSwitchRate) * WeightCtxSwitch

\* The neighbours with profile data; the others are skipped.
Known(neighbours) == {w \in DOMAIN neighbours : neighbours[w].Confidence # "UNKNOWN"}

\* A score in points, in units of 1/(4 * Unit).
Points(n) == n * 4 * Unit

Clamp(score) ==
    IF score < 0 THEN 0 ELSE IF score > Points(100) THEN Points(100) ELSE score

\* math.Round of a score that is not negative.
Round(score) == (score + Points(1) \div 2) \div Points(1)

\* Fault: a neighbour's cache pressure is limited by the candidate's.
ScoreMinCache(candidate, neighbours) ==
    LET c == Assumed(candidate)
        Less(a, b) == IF a < b THEN a ELSE b
        total == SumFunction([w \in Known(neighbours) |->
                   Penalty(c, [neighbours[w] EXCEPT
                                 !.CacheMissRate = Less(@, c.CacheMissRate)])])
    IN  IF DOMAIN neighbours = {} THEN 100
        ELSE Round(Clamp(Points(100) - total * Quarters(c.Confidence)))

\* Fault: the penalty is averaged over the neighbours.
ScoreAverage(candidate, neighbours) ==
    LET c == Assumed(candidate)
        total == SumFunction([w \in Known(neighbours) |-> Penalty(c, neighbours[w])])
    IN  IF DOMAIN neighbours = {} THEN 100
        ELSE Round(Clamp(Points(100)
               - (total * Quarters(c.Confidence)) \div Cardinality(DOMAIN neighbours)))

\* Fault: the score is not clamped.
ScoreUnclamped(candidate, neighbours) ==
    LET c == Assumed(candidate)
        total == SumFunction([w \in Known(neighbours) |-> Penalty(c, neighbours[w])])
    IN  IF DOMAIN neighbours = {} THEN 100
        ELSE Round(Points(100) - total * Quarters(c.Confidence))

\* Scorer.Score; neighbours is a function from workloads to profiles.
Score(candidate, neighbours) ==
    LET c == Assumed(candidate)
        total == SumFunction([w \in Known(neighbours) |-> Penalty(c, neighbours[w])])
    IN  IF DOMAIN neighbours = {} THEN 100
        ELSE Round(Clamp(Points(100) - total * Quarters(c.Confidence)))
=============================================================================
