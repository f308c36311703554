------------------------------ MODULE AkilScore ------------------------------
(***************************************************************************)
(* The scheduler plugin (src/pkg/scoring/akil_score.go) while one pod is   *)
(* scheduled again and again: the framework scores all nodes in parallel,  *)
(* one goroutine each, and every goroutine asks the aggregator twice under *)
(* one deadline.  Profiles change, the aggregator restarts, hangs or is    *)
(* unreachable between any two of these steps.                             *)
(*                                                                         *)
(* A query is answered from the store at one moment (how a query and its   *)
(* concurrent updates mix is the subject of Aggregator).                   *)
(***************************************************************************)
EXTENDS Scorer

CONSTANTS
    Workloads,    \* workload keys
    Candidate,    \* the key of the pod to schedule
    DaemonSets,   \* keys of kind DaemonSet
    Nodes,        \* nodes that passed the filters
    Located,      \* the nodes each workload's events come from
    Profiles      \* the profiles each workload may have

ASSUME AkilScoreAssumption ==
    /\ IsFiniteSet(Workloads) /\ Candidate \in Workloads /\ DaemonSets \subseteq Workloads
    /\ Located \in [Workloads -> SUBSET Nodes]
    /\ \A w \in Workloads : Profiles[w] \subseteq RuntimeProfile

VARIABLES
    store,        \* the aggregator's profiles: a function on the keys it has
    aggregator,   \* "up", "stuck" (does not answer) or "down" (refuses)
    score,        \* each node's goroutine: pc, candidate profile, result
    quiet         \* ghost: nothing changed in this cycle

vars == <<store, aggregator, score, quiet>>

\* Store.QueryProfile of a key that is not in the store.
Absent == Silent("UNKNOWN")

ProfileOf(key) == IF key \in DOMAIN store THEN store[key] ELSE Absent

EmptyStore == [w \in {} |-> Absent]

Goroutine(at) == [pc |-> at, cand |-> Absent, result |-> NeutralScore, failed |-> FALSE]

\* The profiles that count as neighbours: on the node, in the store, neither
\* the candidate's own replicas nor a DaemonSet.
Colocated(node) ==
    [w \in {v \in DOMAIN store \ (DaemonSets \cup {Candidate}) : node \in Located[v]}
       |-> store[w]]

-----------------------------------------------------------------------------
(* Score, for one node. *)

\* The first query is answered.
QueryProfile(node) ==
    /\ score[node].pc = "candidate"
    /\ aggregator = "up"
    /\ score' = [score EXCEPT ![node].pc = "node", ![node].cand = ProfileOf(Candidate)]
    /\ UNCHANGED <<store, aggregator, quiet>>

\* The second query is answered, and the score computed and returned.
QueryNodeProfiles(node) ==
    /\ score[node].pc = "node"
    /\ aggregator = "up"
    /\ score' = [score EXCEPT ![node].pc = "done",
                              ![node].cand = Absent,
                              ![node].result = Score(score[node].cand, Colocated(node))]
    /\ UNCHANGED <<store, aggregator, quiet>>

\* Fault: the queries have no deadline of their own.
QueryFailsNoDeadline(node) ==
    /\ score[node].pc \in {"candidate", "node"}
    /\ aggregator = "down"
    /\ score' = [score EXCEPT ![node] = [Goroutine("done") EXCEPT !.failed = TRUE]]
    /\ UNCHANGED <<store, aggregator, quiet>>

\* Either query fails, because the aggregator is down or because the deadline
\* passes before the answer, which happens at any time: a neutral score.
QueryFails(node) ==
    /\ score[node].pc \in {"candidate", "node"}
    /\ score' = [score EXCEPT ![node] = [Goroutine("done") EXCEPT !.failed = TRUE]]
    /\ UNCHANGED <<store, aggregator, quiet>>

-----------------------------------------------------------------------------
(* The scheduling framework and the aggregator. *)

\* A scheduling cycle begins: all nodes are scored in parallel.
StartCycle ==
    /\ \A n \in Nodes : score[n].pc = "done"
    /\ score' = [n \in Nodes |-> Goroutine("candidate")]
    /\ quiet' = TRUE
    /\ UNCHANGED <<store, aggregator>>

\* Telemetry arrives for a workload, or its window drains.
ProfileChanges(w, p) ==
    /\ aggregator # "down"
    /\ store' = [v \in DOMAIN store \cup {w} |-> IF v = w THEN p ELSE store[v]]
    /\ quiet' = FALSE
    /\ UNCHANGED <<aggregator, score>>

\* A restarted aggregator has an empty store.
AggregatorChanges(state) ==
    /\ aggregator' = state
    /\ store' = IF state = "down" THEN EmptyStore ELSE store
    /\ quiet' = FALSE
    /\ UNCHANGED score

Init ==
    /\ store = EmptyStore
    /\ aggregator = "up"
    /\ score = [n \in Nodes |-> Goroutine("candidate")]
    /\ quiet = TRUE

ScoreStep(node) == QueryProfile(node) \/ QueryNodeProfiles(node) \/ QueryFails(node)

Next ==
    \/ \E n \in Nodes : ScoreStep(n)
    \/ StartCycle
    \/ \E w \in Workloads : \E p \in Profiles[w] : ProfileChanges(w, p)
    \/ \E state \in {"up", "stuck", "down"} : AggregatorChanges(state)

\* A goroutine goes on when it has an answer or an error, and the deadline of
\* its context gives it an error at the latest.
Spec == Init /\ [][Next]_vars /\ \A n \in Nodes : WF_vars(ScoreStep(n))

-----------------------------------------------------------------------------
(* Properties. *)

TypeOK ==
    /\ DOMAIN store \subseteq Workloads
    /\ \A w \in DOMAIN store : store[w] \in Profiles[w]
    /\ aggregator \in {"up", "stuck", "down"}
    /\ \A n \in Nodes :
         /\ score[n].pc \in {"candidate", "node", "done"}
         /\ score[n].cand \in Profiles[Candidate] \cup {Absent}
         /\ score[n].result \in 0 .. 100

\* The workloads whose pressure a pod placed on the node would feel.
Noisy(node) == {w \in DOMAIN Colocated(node) : store[w].Confidence # "UNKNOWN"}

\* The pressure of a profile over all signals but its cache misses.
Pressure(p) ==
    p.LockContentionRatio * WeightLock + p.PageFaultRate * WeightPageFault
      + p.ContextSwitchRate * WeightCtxSwitch

\* The penalty in closed form: the neighbours' pressure, plus the candidate's
\* own once per neighbour.
Reference(node) ==
    LET c == ProfileOf(Candidate)
        own == IF c.Confidence = "UNKNOWN" THEN 0 ELSE Pressure(c)
        weight == CASE c.Confidence = "LOW" -> 1 [] c.Confidence = "MEDIUM" -> 3 [] OTHER -> 4
    IN  weight * (Cardinality(Noisy(node)) * own
                  + SumFunction([w \in Noisy(node) |-> Pressure(store[w])])
                  + SumFunction([w \in Noisy(node) |-> store[w].CacheMissRate * WeightCache]))

Answered(node) == score[node].pc = "done" /\ ~score[node].failed

\* If nothing changed during the cycle, a node that was answered is within half
\* a point of 100 less the penalty, or at the end of the scale the penalty
\* passes: own replicas, DaemonSets, the state of other nodes' queries and the
\* order of the answers do not matter.
ScoreIsReference ==
    quiet => \A n \in Nodes : Answered(n) =>
      LET exact == Points(100) - Reference(n)
          got   == Points(score[n].result)
      IN  \/ exact <= 0 /\ got = 0
          \/ exact >= Points(100) /\ got = Points(100)
          \/ 2 * (got - exact) <= Points(1) /\ 2 * (exact - got) <= Points(1)

\* The penalty of a neighbour as the README writes it: the smaller of the two
\* cache miss rates counts, not the neighbour's.
DocumentedPenalty(c, p) ==
    Penalty(c, IF p.CacheMissRate < c.CacheMissRate
               THEN p ELSE [p EXCEPT !.CacheMissRate = c.CacheMissRate])

\* The README: "No profile exists for candidate workload | Return neutral score
\* (50)", and otherwise 100 less the sum of the pairwise penalties, in which
\* "cachePenalty(candidate, p) = min(candidate.cache_miss_rate,
\* p.cache_miss_rate)".  If nothing changed during the cycle, a node that was
\* answered has that score.
ScoreAsDocumented ==
    quiet => \A n \in Nodes : Answered(n) =>
      LET c == ProfileOf(Candidate)
          total == SumFunction([w \in Noisy(n) |-> DocumentedPenalty(c, store[w])])
      IN  score[n].result =
            IF c.Confidence = "UNKNOWN" THEN NeutralScore
            ELSE Round(Clamp(Points(100) - total * Quarters(c.Confidence)))

\* No rate is negative.  The simulation endpoint does not reject negative counts, so
\* a profile may be otherwise.
NonNegative(p) ==
    /\ p.CacheMissRate >= 0 /\ p.LockContentionRatio >= 0
    /\ p.PageFaultRate >= 0 /\ p.ContextSwitchRate >= 0

\* If nothing changed during the cycle, of two nodes that were answered the one
\* with fewer noisy neighbours (a subset of the other's) never scores lower, unless
\* the rates that count are negative.
NoisierNeverBetter ==
    quiet => \A m, n \in Nodes :
      (/\ Answered(m) /\ Answered(n) /\ Noisy(m) \subseteq Noisy(n)
       /\ \A w \in Noisy(n) \cup {Candidate} : NonNegative(ProfileOf(w)))
        => score[m].result >= score[n].result

\* The plugin never stalls scheduling: whatever the aggregator does, every node
\* that is being scored gets a score.
ScoringEnds ==
    \A n \in Nodes : score[n].pc = "candidate" ~> score[n].pc = "done"
=============================================================================
