----------------------------- MODULE CgroupCache -----------------------------
(***************************************************************************)
(* The cgroup resolver with a cache (src/pkg/telemetry/cgroup.go): any     *)
(* number of goroutines call Resolve while another calls EvictExpired.     *)
(* Resolve reads the cache under the read lock, and on a miss looks for    *)
(* the cgroup in cgroupfs, asks the kubelet about its container and caches *)
(* the answer: the lock is not held in between, so resolutions of one id   *)
(* overlap and may store their answers in any order.                       *)
(*                                                                         *)
(* A container stands for the PodIdentity the kubelet gives for it.  The   *)
(* kernel reuses the id of a removed cgroup, so an id has different owners *)
(* over time; a container never comes back.                                *)
(***************************************************************************)
EXTENDS Integers

CONSTANTS
    Resolvers,   \* goroutines that call Resolve
    Ids,         \* cgroup ids
    Containers,  \* containers that own a cgroup id at some time
    None,        \* no container, no entry
    CacheTTL,    \* lifetime of an entry, 30 s in the code
    Latency,     \* most time from finding a cgroup to caching the answer; the
                 \* kubelet's answer takes at most 5 s
    MaxTime      \* bound of the clock

ASSUME CacheAssumption ==
    /\ CacheTTL \in Nat \ {0}
    /\ Latency \in Nat
    /\ MaxTime \in Nat
    /\ None \notin Containers

VARIABLES
    clock,    \* time.Now()
    owner,    \* the container whose cgroup has the id, or None
    kubelet,  \* the kubelet answers; it may hang
    cache,    \* CgroupResolver.cache: identity and expiry, or None
    call,     \* the local state of each Resolve
    sweep,    \* EvictExpired's now, or None when it is not running
    left,     \* ghost: when a container lost an id, Never if it did not yet
    age       \* ghost: for how long the answer of each resolver has been untrue

vars == <<clock, owner, kubelet, cache, call, sweep, left, age>>

Never == -(CacheTTL + Latency)

Entry == [identity : Containers, expiry : Int]
Idle  == [pc |-> "idle"]

\* The last moment at which c was the container of id.
LastHeld(id, c) == IF owner[id] = c THEN clock ELSE left[id][c]

Valid(entry) == entry # None /\ clock < entry.expiry

Return(r, c) ==
    /\ call' = [call EXCEPT ![r] = Idle]
    /\ age' = [age EXCEPT ![r] = clock - LastHeld(call[r].id, c)]

ReturnError(r) ==
    /\ call' = [call EXCEPT ![r] = Idle]
    /\ UNCHANGED age

-----------------------------------------------------------------------------
(* Resolve. *)

Lookup(r, id) ==
    /\ call[r].pc = "idle"
    /\ call' = [call EXCEPT ![r] = [pc |-> "check", id |-> id, cached |-> cache[id]]]
    /\ age' = [age EXCEPT ![r] = 0]
    /\ UNCHANGED <<clock, owner, kubelet, cache, sweep, left>>

\* Fault: a hit prolongs the entry.
HitProlongs(r) ==
    /\ call[r].pc = "check"
    /\ Valid(call[r].cached)
    /\ Return(r, call[r].cached.identity)
    /\ cache' = [cache EXCEPT ![call[r].id] =
                    [call[r].cached EXCEPT !.expiry = clock + CacheTTL]]
    /\ UNCHANGED <<clock, owner, kubelet, sweep, left>>

Hit(r) ==
    /\ call[r].pc = "check"
    /\ Valid(call[r].cached)
    /\ Return(r, call[r].cached.identity)
    /\ UNCHANGED <<clock, owner, kubelet, cache, sweep, left>>

\* resolveCgroupPath and parseContainerID: the container that has the id now.
FindCgroup(r) ==
    /\ call[r].pc = "check"
    /\ ~Valid(call[r].cached)
    /\ owner[call[r].id] # None
    /\ call' = [call EXCEPT ![r] = [pc |-> "query", id |-> call[r].id,
                                    found |-> owner[call[r].id], since |-> clock]]
    /\ UNCHANGED <<clock, owner, kubelet, cache, sweep, left, age>>

\* Fault: that a cgroup has no pod is cached too.
FindFailsCached(r) ==
    /\ call[r].pc = "check"
    /\ ~Valid(call[r].cached)
    /\ cache' = [cache EXCEPT ![call[r].id] =
                    [identity |-> None, expiry |-> clock + CacheTTL]]
    /\ ReturnError(r)
    /\ UNCHANGED <<clock, owner, kubelet, sweep, left>>

\* No such cgroup, its id cannot be read, or it is not a container's.
FindFails(r) ==
    /\ call[r].pc = "check"
    /\ ~Valid(call[r].cached)
    /\ ReturnError(r)
    /\ UNCHANGED <<clock, owner, kubelet, cache, sweep, left>>

\* queryKubelet finds the container in the pod list.
QueryKubelet(r) ==
    /\ call[r].pc = "query"
    /\ kubelet
    /\ call' = [call EXCEPT ![r].pc = "store"]
    /\ UNCHANGED <<clock, owner, kubelet, cache, sweep, left, age>>

\* Fault: the HTTP client has no timeout.
QueryFailsNoTimeout(r) ==
    /\ call[r].pc = "query"
    /\ kubelet
    /\ ReturnError(r)
    /\ UNCHANGED <<clock, owner, kubelet, cache, sweep, left>>

\* It is not in the list, the request fails, or it times out.
QueryFails(r) ==
    /\ call[r].pc = "query"
    /\ ReturnError(r)
    /\ UNCHANGED <<clock, owner, kubelet, cache, sweep, left>>

\* The expiry is counted from now, not from when the cgroup was found.
Store(r) ==
    /\ call[r].pc = "store"
    /\ cache' = [cache EXCEPT ![call[r].id] =
                    [identity |-> call[r].found, expiry |-> clock + CacheTTL]]
    /\ Return(r, call[r].found)
    /\ UNCHANGED <<clock, owner, kubelet, sweep, left>>

-----------------------------------------------------------------------------
(* EvictExpired reads the clock before it waits for the lock. *)

EvictStart ==
    /\ sweep = None
    /\ sweep' = clock
    /\ UNCHANGED <<clock, owner, kubelet, cache, call, left, age>>

EvictExpired ==
    /\ sweep # None
    /\ cache' = [id \in Ids |->
                    IF cache[id] # None /\ sweep > cache[id].expiry THEN None ELSE cache[id]]
    /\ sweep' = None
    /\ UNCHANGED <<clock, owner, kubelet, call, left, age>>

-----------------------------------------------------------------------------
(* The environment. *)

\* A container starts or ends, or its id is given to another one.
OwnerChanges(id, c) ==
    /\ c # owner[id]
    /\ c # None => \A i \in Ids : owner[i] # c /\ left[i][c] = Never
    /\ owner' = [owner EXCEPT ![id] = c]
    /\ left' = IF owner[id] = None THEN left
                                   ELSE [left EXCEPT ![id][owner[id]] = clock]
    /\ UNCHANGED <<clock, kubelet, cache, call, sweep, age>>

KubeletChanges ==
    /\ kubelet' = ~kubelet
    /\ UNCHANGED <<clock, owner, cache, call, sweep, left, age>>

Resolving(r) == call[r].pc \in {"query", "store"}

\* Time passes, but not past the latency of a resolution in progress.
Tick ==
    /\ clock < MaxTime
    /\ \A r \in Resolvers : Resolving(r) => clock - call[r].since < Latency
    /\ clock' = clock + 1
    /\ UNCHANGED <<owner, kubelet, cache, call, sweep, left, age>>

-----------------------------------------------------------------------------

Init ==
    /\ clock = 0
    /\ owner = [id \in Ids |-> None]
    /\ kubelet = TRUE
    /\ cache = [id \in Ids |-> None]
    /\ call = [r \in Resolvers |-> Idle]
    /\ sweep = None
    /\ left = [id \in Ids |-> [c \in Containers |-> Never]]
    /\ age = [r \in Resolvers |-> 0]

Step(r) ==
    Hit(r) \/ FindCgroup(r) \/ FindFails(r) \/ QueryKubelet(r) \/ QueryFails(r) \/ Store(r)

Next ==
    \/ \E r \in Resolvers : Step(r) \/ \E id \in Ids : Lookup(r, id)
    \/ EvictStart \/ EvictExpired
    \/ \E id \in Ids, c \in Containers \cup {None} : OwnerChanges(id, c)
    \/ KubeletChanges \/ Tick

\* A call of Resolve goes on by itself.  The kubelet may never answer.
Fairness == \A r \in Resolvers : WF_vars(Step(r))

Spec == Init /\ [][Next]_vars /\ Fairness

-----------------------------------------------------------------------------
(* Properties. *)

Call ==
    [pc : {"idle"}]
        \cup [pc : {"check"}, id : Ids, cached : Entry \cup {None}]
        \cup [pc : {"query", "store"}, id : Ids, found : Containers, since : Int]

TypeOK ==
    /\ clock \in Nat
    /\ owner \in [Ids -> Containers \cup {None}]
    /\ kubelet \in BOOLEAN
    /\ cache \in [Ids -> Entry \cup {None}]
    /\ call \in [Resolvers -> Call]
    /\ sweep \in Nat \cup {None}
    /\ left \in [Ids -> [Containers -> Int]]
    /\ age \in [Resolvers -> Int]

\* An identity that Resolve returns was that of the id's own container less than
\* CacheTTL + Latency ago: whichever of several overlapping resolutions stores
\* last, an id that was reused is not charged to its former owner for longer.
\* The lifetime alone is not a bound, as it starts when the answer is stored.
BoundedStaleness == \A r \in Resolvers : age[r] < CacheTTL + Latency

\* Resolve returns, with an identity or an error, even if the kubelet hangs.
ResolveEnds == \A r \in Resolvers : (call[r].pc # "idle") ~> (call[r].pc = "idle")
=============================================================================
