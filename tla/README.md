# AKIL: a TLA+ model and its verification

AKIL collects scheduling-relevant kernel events per Kubernetes workload, keeps a
sliding-window profile of each workload and offers the profiles to a scheduler
plugin and a demo UI. This directory holds TLA+ modules for the parts of it that
run concurrently or keep state over time, the TLC configurations that check them,
and TLAPS proofs of their safety properties. `PROJECT.json` maps every definition
to the source lines it stands for.

## The system

| Part | Source | State | Operations |
|---|---|---|---|
| eBPF probes | `pkg/ebpf/akil.c` | ring buffer, start time per waiting thread | page fault, context switch, cache miss, contention begin and end |
| Collector | `cmd/collector/main.go` | current batch, last flush, stream | read, resolve, append, send, reopen, drain acks, terminate |
| Cgroup resolver | `pkg/cgroup/resolver.go` | map cgroup id -> workload key | sync every 10 s, Resolve |
| Batch assembler | `pkg/telemetry/batch.go` | current batch, output channel, done | Add, Start (ticker), Stop, Batches |
| Cgroup TTL cache | `pkg/telemetry/cgroup.go` | entries with expiry | Resolve, EvictExpired |
| Sliding window | `pkg/profile/window.go` | ring of buckets, current index, last rotation, nodes | five Record methods, ResetData, ComputeProfile |
| Profile store | `pkg/profile/store.go` | sync.Map key -> profile | GetOrCreate, QueryProfile, QueryNodeProfiles, Delete |
| Aggregator | `cmd/aggregator/main.go` | none of its own | StreamTelemetry, queries, HTTP endpoints |
| Autoscaler | `cmd/aggregator/autoscaler.go` | switch, replica count, log | loop every 3 s, toggles, /api/scale |
| Scorer, plugin | `pkg/scoring` | none | Score |
| CLI, frontend, scripts, generated code | `cmd/akil-cli`, `frontend`, ... | none of interest | |

How the parts interact. The probes write events into the ring buffer; the collector
reads them one at a time, drops those whose cgroup the resolver does not know, and
sends the others in batches on a bidirectional gRPC stream. The aggregator runs one
goroutine per stream, which records every event of a batch in the profile of its
workload and answers with an ack that a goroutine of the collector throws away. HTTP
handlers record simulated events, reset profiles and set the replica count from
other goroutines; the autoscaler reads profiles and writes the same replica count.
The plugin queries the aggregator while it scores a pod. The batch assembler and the
TTL cache are libraries of the repository that the collector's binary does not use.

What is hard. The window is rotated lazily, only when somebody touches it, by an
integer number of buckets. Almost every operation above is a sequence of short
critical sections or remote calls between which other goroutines run. Streams break,
the aggregator crashes and loses its profiles, the collector is restarted. The stream
has flow control in both directions. The eBPF programs share a map of bounded size
between CPUs without a lock, and read it through pointers that others may invalidate.
`PROJECT.json` lists these hazards at the lines where they bite, with the properties that
cover them.

What makes each part correct, in one line:

- window: a profile is the exact sum of a suffix of the history, of bounded length;
- store: one profile per workload, with the events an atomic map would have, an ack means
  recorded, a query misses nothing;
- autoscaler: no write after it is switched off but the one in flight, a log that
  tells the truth, no lost update in a cluster, convergence;
- batch assembler: every event in exactly one place, no empty batch, a full one always about
  to be flushed, a clean stop;
- probes: the lock time that reaches a workload is that of the wait that ended;
- TTL cache: an identity that is stale for a bounded time only, and an answer always;
- pipeline: at most once, loss only by a fault, no deadlock, recovery, an orderly end;
- scorer and plugin: the score the neighbours justify, a sound ranking, never a stall.

## Modules

Each component has a module `X.tla`, an instance for TLC `MCX.tla` with its `.cfg`
files and, where something is proved, `X_proofs.tla`. Operators whose comment begins
with "Fault:" are deliberately wrong variants of the definition that follows them.
No specification uses them; substituted for that definition, each one makes TLC
report the property that guards against it.

**WorkloadProfile** (`window.go`). Every method holds the profile's lock from start to
end, so each is one atomic action: `RecordPageFault`, `RecordCacheMiss`,
`RecordLockContention`, `RecordCtxSwitch` and `RecordBulk` share `Record`;
`ResetData`; `ComputeProfile`. `maybeRotate` is the operators `Rotations`,
`RotatedIdx`, `Expired`, `RotatedBuckets` and `RotatedAt`: the loop over the rotations
is written as the set of buckets it resets. The clock is an integer that `Tick`
advances; Go's monotonic clock does not go back. Rates are totals over a constant, so
a profile contains the totals. Ghost fields remember which calls a bucket contains.

**Aggregator** (`store.go` under the handlers of `main.go`). Stream goroutines and
request goroutines with a program counter each. `GetOrCreate` is two steps, `Load` and
`LoadOrStore`, and the profile found is used in a third. `QueryNodeProfiles` visits the
keys one by one, in any order, with the values of that moment, and locks a profile
twice (`QueryVisit`, `QueryCompute`). A profile is reduced to its events and nodes. A
batch may come from any node at any time, also from one its workload has left. What
`/api/simulate-events` records with one `RecordBulk` is one event (`Simulated`), which no
ack covers. Requests are assumed to name a workload.

**EventStore** is what the store promises: a map from workloads to events, on which
recording, resetting, deleting and acknowledging are atomic; there are no profile objects,
no lookups and no goroutines. `Aggregator` implements it under the mapping `Content`, which
reads the events of each key off the object the store has for it. Whoever looked a profile up
before its deletion may record into it unseen; the abstract `Record` and `Reset` allow that
for deleted workloads only. That an acknowledged event was recorded once and stays to be seen
until its workload is erased (`AckedMeansRecorded`) follows from it.

**Autoscaler** (`autoscaler.go`, `/api/scale` and `/api/autoscale/*` of `main.go`). The
loop's tick is a sequence of steps: the switch, the count, the keys, in a cluster the
deployment's label and its scale, one `QueryProfile` per key, the write, the log. The
handlers run between any two of them. `inCluster` chooses between the simulated count
and the Kubernetes API, whose update is refused when the scale changed since it was
read. The ghost `writes` remembers what the loop wrote; `Scalings` is the log without the
entries of the switch. `heat` is the class of a workload's rates with respect to the thresholds of
`decide`. Other writers of the deployment's scale are left out.

**BatchAssembler** (`batch.go`). `Add` is append-and-decide, take, send; the goroutine
of `Start` is tick or done, take, send, close; `Stop`; the consumer. A send that finds
the channel closed panics, one that finds it full drops the batch. `Stop` is called at
most once: a second close panics in Go by itself. A flush that finds nothing to take sends
nothing, so an Add that decided to flush may find its batch gone.

**Probes** (`akil.c`, and the decoding of a record in `cmd/collector/main.go`). Every
program is an action; the two lock programs are split wherever they touch the shared
clock or map, so those of different CPUs interleave at these points (`contention_begin`
and `handle_contention_begin`; `contention_end`, `EndNow`, `EndRead`, `EndDelete`,
`EndEmit`). One thread's programs do not overlap: the kernel does not start a program
on a CPU that runs one. The map is per thread id, bounded, and an update that finds it
full does nothing. All idle threads have id 0. A pointer that `bpf_map_lookup_elem`
returned is a set of values it may read: once the element was deleted or replaced by
another CPU, the kernel may give it to any later key. Subtraction is modulo 2^64,
abstracted to `Modulus`, and `Int64` is the collector's conversion. Waits nest (a mutex
waits for its own spin lock, an interrupt handler for another). `Attach` is the order in
which the collector attaches the two lock probes. `Event`'s `waited` and `covered`, a
wait's `intact` and an entry's `by` and `paired` are ghosts. The kernel's helper functions
are represented by what `akil.c` uses them for: `Key`, `HasRoom` and `Emit` at their calls, the
clock and the reuse of elements as the environment.

**CgroupCache** (`pkg/telemetry/cgroup.go`). `Resolve` is a sequence of steps: the
lookup under the read lock, the test of the expiry, the search of cgroupfs, the request
to the kubelet, the store under the write lock. Several goroutines take them at once,
while cgroup ids change owners and `EvictExpired` sweeps. Each search or request may
fail; the kubelet may hang, which the client's timeout turns into an error. `Latency`
bounds the time from finding a cgroup to caching the answer. The walk of cgroupfs, the
parsing of the path and the pod list are reduced to the container they lead to; errors
of each are kept.

**Collector** (`akil.c`, `resolver.go`, `cmd/collector/main.go`, `StreamTelemetry`).
The whole path of an event. Events are alike except for one, the tracer, whose fate is
followed; as the code never looks at more of an event than its type and cgroup, what
holds for the tracer holds for each. The stream has a window in each direction.
`BreakStream`, `Crash`, `Terminate`, `Shutdown` and `PodChanges` are the faults; a handler of a
broken stream may still be processing its last batch (`orphan`). `calm` ends the
faults, to state what happens afterwards. One pod stands for the resolver's map.
The aggregator's `Shutdown` refuses new streams and waits in `GracefulStop` until no handler is
left; then `httpServer.Shutdown` closes the HTTP listener and waits for the request that is in
progress, if any (`request`, `HttpDone`), and main returns (`ShutdownDone`). Requests that
ended before do not matter here and are left out. The kill that follows a shutdown that hangs
is `Crash`. While the collector has exited there are no probes and no ring buffer. `sync` is
one step: what matters here is when the map is replaced.

**Delivery** is what the pipeline promises for one event: created, then recorded once, or
lost if something failed. `Collector` implements it under a mapping (`Status`) that reads
the tracer's fate off the places it is in: ring buffer, batch, stream, handlers, profile.

**Scorer** (`scorer.go`) is the score as a function, with rates as integer fractions of
their maxima so that arithmetic is exact; the code's float64 error is left out.
**AkilScore** (`akil_score.go`) extends it with the plugin: one goroutine per node asks
for the candidate's profile and then for the node's, while profiles change and the
aggregator hangs, refuses or restarts with an empty store. Its `Located` is what the
store's node locations say; `StartCycle` is the scheduling framework.

## Runs

| Run | Checks | Bounds |
|---|---|---|
| `window` | `StalenessBound`, `Retention`, `ProfileIsSuffix`, `WindowBounds` | 3 buckets of 2 ticks, 10 ticks, 2 calls |
| `window_stale` | `WindowSizeStaleness` is violated | same |
| `store` | `OneProfilePerKey`, `NodeQueryComplete`, `ImplementsStore` | 2 keys, 2 nodes, 2 streams, 1 request goroutine, 3 events, simulated ones included, 2 requests |
| `autoscaler` | `DisableTakesEffect`, `LogIsHistory`, `ClusterNoLostUpdate`, `DrainsToOne`, `HotReachesMax` | 2 workloads, at most 3 replicas (4 by hand), log of 1, 1 POST, 1 toggle |
| `autoscaler_hot` | `HotNeverScalesDown` is violated | same |
| `batch` | `EachEventOnce`, `FullIsFlushed`, `PanicOnlyIfLate`, `StopLeavesNothing`, `EventuallyTaken`, `StopCloses` | 3 adders, batches of 2, channel of 1, 5 events |
| `probes` | `DurationExact`, `DurationWithinWait`, `WaitIsMeasured`, `MapHoldsWaits` | a thread with two nested waits and two idle threads, a map of 1 entry, a ring of 1, 1 tick, modulus 8 |
| `cgroup_cache` | `BoundedStaleness`, `ResolveEnds` | 2 resolvers, 1 id, 2 containers, lifetime 2, latency 1, 4 ticks |
| `pipeline` | `ImplementsDelivery`, `SendEnds`, `Recovers`, `ShutdownEnds`, `Delivered` | ring of 1, batches of 2, windows of 1 |
| `pipeline_flush` | `FlushedInTime` is violated | same |
| `scoring` | `ScoreIsReference`, `NoisierNeverBetter`, `ScoringEnds` | 2 nodes, 2 neighbours and a DaemonSet, the code's weights, up to 3 profiles each, one with negative rates |
| `scoring_documented` | `ScoreAsDocumented` is violated | same |

Each passing run also checks its module's `TypeOK`.

Why the bounds are enough. *Window*: three buckets give a current, a middle and an
oldest one, and two ticks per bucket the remainder that rotation forgets; ten ticks
suffice for the worst case, since both bounds are attained on this instance (tightening
either by one tick makes TLC find a counterexample), and two calls are enough to be in
different buckets. *Store*: two streams race for one key, and a request goroutine races
with both; the third object lets a key be created again after Delete. *Autoscaler*:
`MaxManual` exceeds `MaxReplicas` as 10 exceeds 6, and a log of one entry overflows at
once. One toggle switches off a loop that started enabled or on one that did not. *Batch*:
five events fill a batch of two with the two extra events that racing adders bring, and one more.
*Pipeline*: windows of one are full after one message, and a ring of one overflows at the
second event; a ring of two has been checked as well, with the same result.
*Probes*: a map of one entry is full whenever another thread waits; one thread's waits
nest while two idle threads race for one key and for a freed element. One tick tells the
beginning of a wait from its end; two ticks have been checked as well (20 million states),
with the same result. *CgroupCache*: two overlapping resolutions can store in the wrong
order, and four ticks outlast lifetime plus latency; five ticks, and two ids with a
lifetime of one, gave the same result. The bound is attained: with `CacheTTL` alone it fails.
*Scoring*: the nodes share a neighbour, one has another one in addition and the other
the candidate's own replicas and a DaemonSet; two heavy neighbours exceed the scale, and a
profile with negative rates, which `RecordBulk` does not exclude, exceeds it at the other end.

The runs other than `store` and `batch` check deadlock freedom too: the clock's bound
leaves `ComputeProfile`, the probes and `Lookup` enabled, and the loops always have a step
or wait for a change of the environment. `store` and `batch` may stop when their bounds are used up.

Fairness. *Autoscaler*: weak fairness of the loop; its ticker fires for as long as the
process runs, and none of its steps waits for another goroutine. *BatchAssembler*: weak
fairness of the ticker goroutine and of an Add in progress, and strong fairness of the
done branch: `select` picks at random among ready cases, so it does not pass over one for
ever. Nothing makes anybody call Add or Stop, nor the consumer receive. *Collector*: weak
fairness of every goroutine's enabled steps, of the resolver's ticker, of restarts by
Kubernetes and of the passing of time; strong fairness of a successful reopen (a dial to
a running aggregator does not fail for ever) and of the exit of a terminated collector
(its reader is closed by another goroutine). Nothing ends an HTTP request that is in progress
when the aggregator shuts down: `Recovers` and `ShutdownEnds` name its end (`RequestEnds`) as
their assumption. *AkilScore*: weak fairness of each
node's goroutine, which gets an answer or an error, at the latest from its deadline.
*CgroupCache*: weak fairness of each call of `Resolve`, which gets an answer or an error,
at the latest from the HTTP client's timeout. *Probes* states no fairness, as it has no
liveness property.
Nothing makes the kernel produce events: the
properties that need them say so.

## Results

All properties above hold on the instances, except the four that restate a sentence of
the repository's documentation:

1. *Staleness* (`README.md:325`): a profile may contain events older than the window.
   `maybeRotate` sets `lastRotation` to now, forgetting up to a bucket's worth of elapsed
   time at each rotation. With N buckets of D ticks the oldest event may be
   (N-1)(2D-1)+(D-1) ticks old, close to twice the window.
2. *Hot workloads* (`autoscaler.go:76`): a hot workload loses replicas when the count was
   set above `maxReplicas` through `/api/scale`.
3. *Flush interval* (`README.md:191`): a partial batch in the collector is not flushed
   after a second but when the next event of a known workload arrives.
4. *Documented score* (`README.md:493`, `:494` and `:417`, `scorer.go:105`,
   `docs/CONFERENCE_DEMO_GUIDE.md:25` and `:37`): a candidate without a profile does not score
   a neutral 50. It is scored as a silent workload by its neighbours' pressure, 100 on an
   empty node. And the cache penalty of a known candidate is not that of the smaller of both
   rates but of the neighbour's. The trace shows the first; with the first conjunct left out
   TLC finds the second. Comments in `scorer.go` say that both were changed on purpose;
   `ScoreIsReference` states what the code computes.

More facts a reader should know. Where a promise is weaker than one might expect, the
property states the exact one:

- Without a cluster the autoscaler may overwrite a manual change made during its tick
  (`ClusterNoLostUpdate` is about the other mode), and every toggle makes the scaling log
  longer for good (`LogIsHistory` has the exact bound).
- `batch.go:28` says "MaxEvents is the maximum number of events per batch": with several
  goroutines a batch may exceed it, by one event for each other goroutine that adds between
  the decision to flush and the flush. `BatchBound` in `BatchAssembler_proofs` is the limit
  that is proved, and TLC attains it. What `batch.go:83` says, that a batch which reaches
  `maxEvents` is flushed immediately, holds in the form of `FullIsFlushed`.
- `store.go:63` says that a node query returns the workloads "that have pods on the given
  node". `nodeLocations` only grows (`window.go:137`): neither rotation nor `ResetData` removes
  a node, so a workload is also reported for nodes its pods have left. `NodeQueryComplete` is
  the half of the sentence that holds.
- `README.md:121` and `:131` describe lock times per lock address; the code keeps one start
  time per thread (`akil.c:98`: "a thread waits on at most one lock at a time"). When a
  thread's waits nest, the inner one is reported with its own time and the outer one
  not at all (`WaitIsMeasured`), but never with a wrong time (`DurationExact`).
- Idle threads have one id between them, so their start times and pointers get mixed up:
  their lock times may be wrong, and even wrap below zero. They never reach a profile,
  because no workload has the root cgroup (`DurationWithinWait` fails as soon as the
  collector forwards events without a workload).
- The lifetime of a TTL cache entry begins when it is stored, after the search, and an
  older of two overlapping resolutions may overwrite the newer answer: an identity may
  be stale by up to the lifetime plus the latency (`BoundedStaleness`). Nothing in the
  repository calls `EvictExpired`, so the cache only grows; the comment that calls it an
  LRU cache (`cgroup.go:22`) does not describe it.
- `GracefulStop` waits for the collectors' streams, and these end only when a collector
  does: a shutdown with collectors connected ends by being killed. `httpServer.Shutdown`
  then waits without a deadline for a request in progress. `ShutdownEnds` says that nothing
  else holds a shutdown up, neither a handler of a broken stream nor a collector that tries to
  reopen one; `Recovers` shows the price of the second wait: while it lasts the process is
  alive, its gRPC server closed, and nothing is recorded.
- `resolver.go` and the plugin take the workload key from the pod's direct owner, for a
  Deployment its ReplicaSet, unlike `README.md:181` and `pkg/telemetry/cgroup.go:345`: a
  rollout starts with a new profile.
- A candidate without samples is penalised in full, one with a few samples a quarter as
  much (`scorer.go:181` suggests the opposite).
- `types.go:11` and `README.md:137` number the event types from 0, `akil.c:17` and the
  protocol from 1; `ParseRawEvent` wants records of 64 bytes while `akil.c` sends 40. Both
  belong to the loader, a stub that the collector does not use.

## Proofs

TLC checks the instances of the runs; the modules `X_proofs` prove the same properties for
every value of the constants. Each has the theorem that its `IndInv` is an invariant and
derives the properties from it. An `IndInv` contains the type of the whole state in full
(`TypeInv`), of which `TypeOK` states the part a reader cares about.

`WorkloadProfile_proofs`: `TypeCorrect`, `StalenessTheorem`, `RetentionTheorem`,
`SuffixTheorem` (that `ProfileIsSuffix` holds) and `BoundsTheorem` (`WindowBounds`), for every
number of buckets, bucket duration, set of nodes and integer inputs.
Assumptions: `WindowAssumption` (at least one bucket, a positive duration, which
`NewWorkloadProfile` enforces) and `InputAssumption` (types of the inputs).
The first two bounds are not inductive: a call's age says nothing about when its bucket will be
reset. The invariant adds, for each call held, the distance (`Age`) of its
bucket from the current one, counted backwards round the ring: a call in a bucket of
age g is at least as old as g rotations demand and at most as old as g rotations with the
largest remainder allow, and a call no longer in the ring is more than N-1 durations old. The
lemma about one rotation (`RotateRing`) is the core: rotating by r raises every surviving
bucket's age by r, and every bucket it resets was old enough. That a profile is a suffix of
the history rests on a second invariant, `SuffixInv`: a call in a bucket is older than the
start of every younger bucket, and a call that was dropped older than the start of all, so
what the ring holds is an interval of time and no call is in two buckets; and each bucket's
counters are the sums over the calls it holds. The horizon is then the oldest bucket's start,
moved into the two bounds. `BoundsTheorem` needs that the recursive function of
`WindowEndAfter` exists, which is shown by induction on the number of buckets.

The lemmas about sums that this needs are at the head of the module (`AkilScore_proofs` has
those of them it uses): what `SumFunction` of the community modules computes is the sum in any
order, so an element can be added and disjoint sets put together. Induction is by the least
counterexample, with the set of cases that have the property in place of the property: the
library's `WFMin` gives the least element of a set of naturals.

`BatchAssembler_proofs`: `TypeCorrect`, `FullTheorem`, `BatchBoundTheorem`, `PanicTheorem`,
`StopTheorem` and `OnceTheorem`, for every finite set of adding goroutines and every limit
(`BatchAssumption`). `TypeCorrect` includes that no batch in anybody's hand, in the channel or
delivered is empty, though flushes race for the events. `FullTheorem` (that `FullIsFlushed`
holds) and the bound need the invariant that the current batch is never longer than MaxEvents -
1 plus the number of goroutines that have decided to flush and have not done so: a full batch
has one of them, and at the limit everyone is one, so nobody is left to add. `PanicTheorem` and
`StopTheorem` need the invariant that, unless some Add was late, all adders are idle once done
is closed, and that from the final flush on the current batch is empty. `OnceTheorem` (that
`EachEventOnce` holds) needs `OnceInv`: any two places of an event are the same one, only added
events are anywhere, every batch is a run of consecutive numbers, and the current batch ends
with the last number given out, so the next Add continues it. Every step then moves all events
of one batch from one place to another; one lemma per step says which.

`CgroupCache_proofs`: `TypeCorrect` and `StalenessTheorem` (that `BoundedStaleness` holds), for
every lifetime, latency, number of resolvers, ids and containers (`CacheAssumption`). The
property speaks of answers already given; the invariant says
how old the knowledge behind every *future* answer may be: a cached entry, also a copy that a
call in progress has read, was true no longer than `CacheTTL + Latency` before its expiry
(`EntryFresh`), and what a resolution has found was true when it was found, at most `Latency`
ago (`CallFresh`). Its key lemma is `LastHeldMonotone`: the moment a container last had an id
never moves back, whoever owns the id in the meantime, so no step makes anything known
older except the clock's, which the expiry and the latency account for.

`Probes_proofs`: `TypeCorrect`, `DurationsAreExact`, `DurationsAreWithinWait`,
`WaitsAreMeasured` and `EntriesAreWaits`, for every finite set of threads, any nesting of waits
and any size of the map and of the ring. Assumption: `ProbesAssumption` (the clock does not
reach half the range of the subtraction, as 2^63 ns is 292 years of uptime; the values that
stand for "no entry" and "not a number" are different from entries and numbers). The invariant
`Own(t)` of a thread that is not idle relates its map entry, its waits and the handler it runs.
Between handlers the entry, if there is one, is not older than the innermost wait, and it is
exactly that wait's beginning if the wait is intact; a covered wait that was disturbed has no
entry. In a handler the pointer read is that entry, and nobody else frees it, as no other
thread has the key. That is what makes the subtraction neither wrong nor negative. For the idle
threads, which share a key, only the weaker `EntryInUse` holds: whoever stored an entry with
both probes attached still waits. The lemmas follow one thread's own steps (`OwnSelf`) and
those of another (`OwnOther`).

`Autoscaler_proofs`: `TypeCorrect`, `DisablingTakesEffect`, `NoUpdateIsLost` (the action
property `ClusterNoLostUpdate`), `LogIsBounded` and `LogTellsHistory` (that `LogIsHistory` holds),
for all workloads and limits (`AutoscalerAssumption`). A late write is followed by no tick that
passes the switch (`LateInv`), and as long as the version that GetScale returned is current, so
is the count read with it (`FreshInv`). That the log tells the history needs `HistoryInv`: the
log's scaling entries are an end of the sequence of writes made, the write that is being logged
apart, and that write is the last one. The log grows at one end and is trimmed at the other, so
two lemmas say what `Scalings` makes of either: of an entry appended (`ScalingsAppend`) and, by
induction on the length, of the oldest entry gone (`ScalingsTail`).

`Aggregator_proofs`: `TypeCorrect`, `OneProfile`, `AcksAreTrue`, `NodeQueriesComplete` and
`Implements` (the store implements `EventStore`), for all sets of keys, nodes, streams and
handlers and any batches (`AggregatorAssumption`). `StoreInv`: a key never deleted has at most
one object and the store has it, so whatever a goroutine found in either half of `GetOrCreate`
is that one (`Holds`), also when it is used a step later. `EventsInv`: of a batch in work, the
events before the stream's position are recorded, the others not yet, and no event, simulated
ones included, has a number that is in use elsewhere. `QueryInv`: a workload owed to a query is
still to be visited, being computed or in the answer. The steps of others are covered by one
action, `Grows`, which says what no step of the store undoes. For the refinement there is one
lemma per step that is not a stutter of the map. They rest on `ContentStep`: a method called on
an object changes what queries see of that object's key and of no other, or, if the object is
no longer the one in the store, of none, which by `Holds` happens only to deleted keys.

`AkilScore_proofs`: `TypeCorrect` (scores stay on the framework's scale), `ScoreIsReferenceCorrect`
and `NoisierNeverBetterCorrect`, for every finite set of workloads, all integer rates, every
resolution and all weights (`ScorerAssumption`, `AkilScoreAssumption`). The invariant `IInv` says
that in a quiet cycle a node's goroutine holds the candidate's present profile between its two
queries (`QuietOK`), so an answered node has `Score` of the present profiles. The rest is
arithmetic of that function: the sum of penalties is linear (`SumLinear`, `PenaltySplit`), which
gives the closed form, and grows with the set of neighbours when none is negative
(`SumMonotone`); rounding is monotone, is off by half a point at most, and stays on the scale.
The proof attempt showed that `NoisierNeverBetter` needs rates that are not negative, so the
property says so (`NonNegative`).

`Collector_proofs`: `TypeCorrect`, and `Implements`: the pipeline implements `Delivery`, for
every size of the ring buffer, the batch and the windows (`CollectorAssumption`) and any
number of faults. The mapping `Status` counts tracers in five places; the invariant is
that the tracer is at exactly one location (`Where(loc)`) and that a dead stream, a reopen and
an exit are found only after a fault (`FaultInv`). Each action moves the location along an
edge (`StepMoves`), and each edge is a step of Delivery or a stutter (`StepImplements`): the
tracer is dropped only where a fault is recorded in the same step or before it.

The ghosts of these modules are read by no guard, with two exceptions: in `CgroupCache` a
container that lost its id does not get one again (`OwnerChanges` reads `left`), which is about
the environment, and counters that end the runs (`calls`, `requests`, `added` and the like)
are compared with their bounds, which the theorems leave arbitrary. So the theorems are about
the code's own state.

Only model-checked, and why:

- every liveness property (`DrainsToOne`, `HotReachesMax`, `EventuallyTaken`, `StopCloses`,
  `ResolveEnds`, `SendEnds`, `Recovers`, `ShutdownEnds`, `Delivered`, `ScoringEnds`): the
  prover has no fairness and no ENABLED;
- the four violations, for which an instance is the proof.

## Not modelled

Flag parsing, logging, JSON and CORS; `/api/pods/create`; the attaching of perf counters and
start-up failures, which end the process; the walk of cgroupfs, the parsing of cgroup paths
and the matching of container ids by prefix; the attribution of a reused cgroup id by
`resolver.go`, whose map may be stale for as long as its List fails; the loader stub and its
event types; the CLI and the frontend; generated code, scripts, manifests, benchmarks and
recorded evidence. Counters are unbounded integers: an int64 does not overflow at the rates
of a 60 s window. Of the repository's C, `akil.c` is modelled in full. The other C files are
libbpf's headers under `pkg/ebpf/headers`: declarations and macros that came with the
library. The helpers that `akil.c` calls are modelled where it calls them.

## Plan

Done: WorkloadProfile, BatchAssembler, Aggregator with EventStore, Autoscaler, Probes,
CgroupCache, Collector with Delivery, Scorer and AkilScore, and proofs of all their safety
properties. What would extend the project further:

1. The resolver of the collector with several workloads and cgroup ids that are reused, to
   bound the attribution of events to the wrong workload while List fails.
2. The scorer's float64 arithmetic: how far its rounding may differ from the exact score.
