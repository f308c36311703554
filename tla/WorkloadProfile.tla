--------------------------- MODULE WorkloadProfile ---------------------------
(***************************************************************************)
(* The sliding window of one workload (src/pkg/profile/window.go): a ring  *)
(* of BucketCount buckets, each meant to cover BucketDuration, rotated     *)
(* lazily by every operation that records into or reads the window.        *)
(*                                                                         *)
(* Every method holds wp.mu from its first statement to its return and     *)
(* reads the clock inside the critical section, so each method is one      *)
(* atomic action.  The clock is Go's monotonic one: it never goes back.    *)
(*                                                                         *)
(* Ghost state, which no guard reads: a bucket's field held is the set of  *)
(* recorded calls whose counts it contains, and recorded is the set of all *)
(* calls since the profile was created or last reset.                      *)
(***************************************************************************)
EXTENDS Integers, FiniteSets, FiniteSetsExt, Functions

CONSTANTS
    BucketCount,      \* number of buckets in the ring
    BucketDuration,   \* clock ticks per bucket
    MediumSamples,    \* 100 in the code
    HighSamples,      \* 1000 in the code
    Nodes,            \* node names
    Deltas,           \* cache-miss deltas and lock durations of single events
    BulkInputs,       \* argument tuples of RecordBulk
    MaxTime,          \* bound: the clock stops here
    MaxRecords        \* bound: number of Record* calls

ASSUME WindowAssumption ==
    /\ BucketCount \in Nat \ {0}
    /\ BucketDuration \in Nat \ {0}

ASSUME InputAssumption ==
    /\ Deltas \subseteq Int
    /\ BulkInputs \subseteq [pageFaults : Int, cacheMisses : Int,
                             ctxSwitches : Int, lockNs : Int]
    /\ MediumSamples \in Nat
    /\ HighSamples \in Nat
    /\ MaxTime \in Nat
    /\ MaxRecords \in Nat

VARIABLES
    now,            \* time.Now()
    buckets,        \* wp.buckets
    currentIdx,     \* wp.currentIdx
    lastRotation,   \* wp.lastRotation
    nodeLocations,  \* wp.nodeLocations
    ret,            \* the value returned by the last operation
    recorded,       \* ghost: calls recorded since creation or the last reset
    calls           \* ghost: number of Record* calls made, their identifiers

vars == <<now, buckets, currentIdx, lastRotation, nodeLocations, ret, recorded, calls>>

Indices == 0 .. BucketCount - 1

\* What one Record* call adds to the counters of a bucket.
Counts == [EventCount : Int, PageFaults : Int, CacheMisses : Int,
           LockDurationNs : Int, CtxSwitches : Int]

\* A recorded call: who and when, and what it added.
Call == [id : Nat, at : Nat, node : Nodes, adds : Counts]

NoCounts == [EventCount |-> 0, PageFaults |-> 0, CacheMisses |-> 0,
             LockDurationNs |-> 0, CtxSwitches |-> 0]

Bucket == [counts : Counts, StartTime : Nat, held : SUBSET Call]

\* Bucket.Reset: all counters cleared, a new start time.
Reset(startTime) == [counts |-> NoCounts, StartTime |-> startTime, held |-> {}]

Plus(a, b) == [EventCount     |-> a.EventCount + b.EventCount,
               PageFaults     |-> a.PageFaults + b.PageFaults,
               CacheMisses    |-> a.CacheMisses + b.CacheMisses,
               LockDurationNs |-> a.LockDurationNs + b.LockDurationNs,
               CtxSwitches    |-> a.CtxSwitches + b.CtxSwitches]

NoProfile == [kind |-> "none"]

-----------------------------------------------------------------------------
(* maybeRotate: how far to rotate, and the ring after rotating. *)

\* Whole bucket durations since the last rotation, capped at the ring's size.
Rotations ==
    LET missed == (now - lastRotation) \div BucketDuration
    IN  IF missed > BucketCount THEN BucketCount ELSE missed

\* The loop of maybeRotate resets the Rotations buckets after the current one
\* and makes the last of them current.
RotatedIdx == (currentIdx + Rotations) % BucketCount

\* Fault: only the bucket that becomes current is reset, the skipped ones stay.
ExpiredLastOnly == IF Rotations > 0 THEN {RotatedIdx} ELSE {}

Expired == {(currentIdx + k) % BucketCount : k \in 1 .. Rotations}

RotatedBuckets ==
    [i \in Indices |-> IF i \in Expired THEN Reset(now) ELSE buckets[i]]

\* Fault: the time of the last rotation is not updated.
RotatedAtNever == lastRotation

\* The time since the last full bucket is forgotten: lastRotation becomes now,
\* not lastRotation + Rotations * BucketDuration.
RotatedAt == IF Rotations > 0 THEN now ELSE lastRotation

-----------------------------------------------------------------------------
(* The operations. *)

\* The body the Record* methods share.
Record(adds, node) ==
    LET call == [id |-> calls, at |-> now, node |-> node, adds |-> adds]
        b    == RotatedBuckets[RotatedIdx]
    IN  /\ calls < MaxRecords
        /\ buckets' = [RotatedBuckets EXCEPT ![RotatedIdx] =
                          [b EXCEPT !.counts = Plus(b.counts, adds),
                                    !.held = b.held \cup {call}]]
        /\ currentIdx' = RotatedIdx
        /\ lastRotation' = RotatedAt
        /\ nodeLocations' = nodeLocations \cup {node}
        /\ recorded' = recorded \cup {call}
        /\ calls' = calls + 1
        /\ ret' = NoProfile
        /\ UNCHANGED now

\* The counts of a single event.
OneEvent(pageFaults, cacheMisses, lockNs, ctxSwitches) ==
    [EventCount |-> 1, PageFaults |-> pageFaults, CacheMisses |-> cacheMisses,
     LockDurationNs |-> lockNs, CtxSwitches |-> ctxSwitches]

RecordPageFault(node) == Record(OneEvent(1, 0, 0, 0), node)

RecordCacheMiss(delta, node) == Record(OneEvent(0, delta, 0, 0), node)

RecordLockContention(durationNs, node) == Record(OneEvent(0, 0, durationNs, 0), node)

RecordCtxSwitch(node) == Record(OneEvent(0, 0, 0, 1), node)

\* A lock duration counts as one sample, and only when it is positive.
BulkCounts(in) ==
    [EventCount     |-> in.pageFaults + in.cacheMisses + in.ctxSwitches
                          + (IF in.lockNs > 0 THEN 1 ELSE 0),
     PageFaults     |-> in.pageFaults,
     CacheMisses    |-> in.cacheMisses,
     LockDurationNs |-> in.lockNs,
     CtxSwitches    |-> in.ctxSwitches]

RecordBulk(in, node) == Record(BulkCounts(in), node)

\* Fault: the current index is set one past the ring.
ResetDataPastEnd ==
    /\ buckets' = [i \in Indices |-> Reset(now)]
    /\ currentIdx' = BucketCount
    /\ lastRotation' = now
    /\ recorded' = {}
    /\ ret' = NoProfile
    /\ UNCHANGED <<now, nodeLocations, calls>>

\* ResetData clears every bucket but leaves currentIdx and nodeLocations.
ResetData ==
    /\ buckets' = [i \in Indices |-> Reset(now)]
    /\ lastRotation' = now
    /\ recorded' = {}
    /\ ret' = NoProfile
    /\ UNCHANGED <<now, currentIdx, nodeLocations, calls>>

Confidence(samples) ==
    IF samples > HighSamples THEN "HIGH"
    ELSE IF samples >= MediumSamples THEN "MEDIUM"
    ELSE IF samples > 0 THEN "LOW"
    ELSE "UNKNOWN"

\* Sum of one counter over a ring of buckets.
Total(ring, Counter(_)) == SumFunction([i \in Indices |-> Counter(ring[i].counts)])

\* Fault: the last bucket of the slice is taken for the newest.
WindowEndOfLast(ring) == ring[BucketCount - 1].StartTime + BucketDuration

\* windowEnd after the loop of ComputeProfile has seen buckets 0..i.  A start
\* is compared with the end computed so far, not with the newest start; -1 is
\* the zero time.
WindowEndAfter(ring) ==
    LET end[i \in Indices] ==
          LET before == IF i = 0 THEN -1 ELSE end[i - 1]
          IN  IF ring[i].StartTime > before
              THEN ring[i].StartTime + BucketDuration
              ELSE before
    IN  end[BucketCount - 1]

\* The RuntimeProfile.  Each rate is its total over the fixed window duration
\* BucketCount * BucketDuration, so the total stands for it.
ProfileOf(ring) ==
    LET events == Total(ring, LAMBDA c : c.EventCount)
    IN  [kind           |-> "profile",
         PageFaults     |-> Total(ring, LAMBDA c : c.PageFaults),
         CacheMisses    |-> Total(ring, LAMBDA c : c.CacheMisses),
         LockDurationNs |-> Total(ring, LAMBDA c : c.LockDurationNs),
         CtxSwitches    |-> Total(ring, LAMBDA c : c.CtxSwitches),
         SampleCount    |-> events,
         WindowStart    |-> Min({ring[i].StartTime : i \in Indices}),
         WindowEnd      |-> WindowEndAfter(ring),
         Confidence     |-> Confidence(events)]

\* Fault: reading does not rotate the window.
ComputeProfileUnrotated ==
    /\ ret' = ProfileOf(buckets)
    /\ UNCHANGED <<now, buckets, currentIdx, lastRotation, nodeLocations, recorded, calls>>

\* ComputeProfile rotates too: reading ages the window.
ComputeProfile ==
    /\ buckets' = RotatedBuckets
    /\ currentIdx' = RotatedIdx
    /\ lastRotation' = RotatedAt
    /\ ret' = ProfileOf(RotatedBuckets)
    /\ UNCHANGED <<now, nodeLocations, recorded, calls>>

\* The clock.
Tick ==
    /\ now < MaxTime
    /\ now' = now + 1
    /\ ret' = NoProfile
    /\ UNCHANGED <<buckets, currentIdx, lastRotation, nodeLocations, recorded, calls>>

\* NewWorkloadProfile.
Init ==
    /\ now = 0
    /\ buckets = [i \in Indices |-> Reset(now)]
    /\ currentIdx = 0
    /\ lastRotation = now
    /\ nodeLocations = {}
    /\ ret = NoProfile
    /\ recorded = {}
    /\ calls = 0

Next ==
    \/ Tick
    \/ \E node \in Nodes :
         \/ RecordPageFault(node)
         \/ RecordCtxSwitch(node)
         \/ \E d \in Deltas : RecordCacheMiss(d, node)
         \/ \E d \in Deltas : RecordLockContention(d, node)
         \/ \E in \in BulkInputs : RecordBulk(in, node)
    \/ ResetData
    \/ ComputeProfile

Spec == Init /\ [][Next]_vars

-----------------------------------------------------------------------------
(* Properties. *)

\* The window a profile claims to report.
WindowDuration == BucketCount * BucketDuration

\* The age of the oldest call a fresh profile can contain: each rotation may
\* forget up to BucketDuration - 1 ticks, so a bucket's distance from the
\* current one is worth up to 2 * BucketDuration - 1 ticks.
MaxStaleness == (BucketCount - 1) * (2 * BucketDuration - 1) + (BucketDuration - 1)

\* Every call younger than this is in the window.
MinRetention == (BucketCount - 1) * BucketDuration

Held == UNION {buckets[i].held : i \in Indices}

TypeOK ==
    /\ now \in Nat
    /\ buckets \in [Indices -> Bucket]
    /\ currentIdx \in Indices
    /\ lastRotation \in Nat
    /\ nodeLocations \subseteq Nodes
    /\ recorded \subseteq Call
    /\ calls \in Nat

\* A profile never contains a call older than MaxStaleness at the moment it is
\* computed, however irregularly the window was rotated before.
StalenessBound ==
    ret # NoProfile => \A c \in Held : now - c.at <= MaxStaleness

\* Rotation never discards a call that is at most MinRetention old: whatever is
\* recorded and not reset stays in the ring that long.
Retention ==
    \A c \in recorded : now - c.at <= MinRetention => c \in Held

\* The README's claim for the sliding window: the history in a profile is no
\* older than the window's size.
WindowSizeStaleness ==
    ret # NoProfile => \A c \in Held : now - c.at <= WindowDuration

\* A profile is exactly the totals of a suffix of the history: there is one
\* horizon, between MinRetention and MaxStaleness ago, such that every counter
\* is the sum over the calls since the horizon, none lost and none counted
\* twice.
ProfileIsSuffix ==
    ret # NoProfile =>
      \E horizon \in (now - MaxStaleness) .. (now - MinRetention) :
        LET window == {c \in recorded : c.at >= horizon}
        IN  /\ ret.PageFaults = SumFunction([c \in window |-> c.adds.PageFaults])
            /\ ret.CacheMisses = SumFunction([c \in window |-> c.adds.CacheMisses])
            /\ ret.LockDurationNs = SumFunction([c \in window |-> c.adds.LockDurationNs])
            /\ ret.CtxSwitches = SumFunction([c \in window |-> c.adds.CtxSwitches])
            /\ ret.SampleCount = SumFunction([c \in window |-> c.adds.EventCount])

\* The bounds a profile reports: it starts no later than any call it contains,
\* and its end, although compared with ends instead of starts, is not before
\* the newest bucket's start nor after that bucket's end.
WindowBounds ==
    ret # NoProfile =>
      LET newest == Max({buckets[i].StartTime : i \in Indices})
      IN  /\ \A c \in Held : ret.WindowStart <= c.at
          /\ newest <= ret.WindowEnd
          /\ ret.WindowEnd <= newest + BucketDuration
=============================================================================
