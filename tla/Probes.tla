------------------------------- MODULE Probes -------------------------------
(***************************************************************************)
(* The eBPF programs (src/pkg/ebpf/akil.c) and the decoding of their       *)
(* records in the collector (src/cmd/collector/main.go).                   *)
(*                                                                         *)
(* A program runs on the CPU of the thread that hit its tracepoint, with   *)
(* preemption off, and the kernel does not start a second one on that CPU: *)
(* the handlers of one thread do not interleave, those of two threads do.  *)
(* A handler that touches only the ring buffer is one step.  The lock      *)
(* handlers are split at every access to the shared map or clock.          *)
(*                                                                         *)
(* A thread may wait for a lock while it waits for another one: a mutex    *)
(* waits for its internal spin lock, an interrupt handler for its own, so  *)
(* waits nest.  The idle threads of all CPUs have the same pid_tgid, 0.    *)
(*                                                                         *)
(* The lookup returns a pointer into the map.  A map element that another  *)
(* CPU deletes or replaces is free for reuse at once, and the pointer then *)
(* reads whichever start time is stored there next, or still the old one.  *)
(***************************************************************************)
EXTENDS Integers, Sequences, FiniteSets

CONSTANTS
    Threads,
    Idle,          \* the threads with pid_tgid 0, all in the root cgroup
    None,          \* NULL, and a payload that is not there
    Junk,          \* what happens to be in reserved and unwritten memory
    MaxEntries,    \* capacity of lock_starts, 65536 in the code
    RingSize,      \* events the ring buffer holds
    SamplePeriod,  \* cache_miss_sample_period
    Modulus,       \* 2^64 in the code
    Nesting,       \* bound: locks each thread waits for at the same time
    MaxTime        \* bound of the clock

ASSUME ProbesAssumption ==
    /\ IsFiniteSet(Threads) /\ Idle \subseteq Threads /\ "idle" \notin Threads
    /\ MaxEntries \in Nat \ {0} /\ RingSize \in Nat \ {0} /\ SamplePeriod \in Nat
    /\ MaxTime \in Nat /\ Nesting \in [Threads -> Nat]
    /\ Modulus \in Nat /\ 2 * MaxTime < Modulus
    /\ None \notin Int /\ Junk \notin Int /\ None # Junk
    /\ None \notin [start : 0 .. MaxTime, by : Threads, paired : BOOLEAN]

VARIABLES
    clock,        \* bpf_ktime_get_ns()
    attached,     \* lock probes attached: "none", "begin" or "both"
    waits,        \* the waits each thread is in, the innermost last
    handler,      \* the local state of the lock handler each thread runs
    lock_starts,  \* start time of each key, or None
    ring          \* the ring buffer

vars == <<clock, attached, waits, handler, lock_starts, ring>>

Keys == (Threads \ Idle) \cup {"idle"}

\* Fault: one start time for all threads.
KeyZero(t) == "idle"

\* bpf_get_current_pid_tgid
Key(t) == IF t \in Idle THEN "idle" ELSE t

NotRunning == [pc |-> "none"]
Innermost(t) == waits[t][Len(waits[t])]
Pop(s) == SubSeq(s, 1, Len(s) - 1)

\* An event of thread t; wait and now are ghosts.
Event(type, t, payload, wait, now) ==
    [type |-> type, thread |-> t, payload |-> payload,
     waited |-> now - wait.begin, covered |-> wait.covered]

\* bpf_ringbuf_reserve, and bpf_ringbuf_submit unless the ring buffer is full.
Emit(e) == ring' = IF Len(ring) < RingSize THEN Append(ring, e) ELSE ring

-----------------------------------------------------------------------------
(* Page faults, context switches and cache misses. *)

NoWait == [begin |-> clock, covered |-> FALSE]

handle_page_fault(t) ==
    /\ handler[t] = NotRunning
    /\ Emit(Event("PAGE_FAULT", t, Junk, NoWait, clock))
    /\ UNCHANGED <<clock, attached, waits, handler, lock_starts>>

handle_sched_switch(t) ==
    /\ handler[t] = NotRunning
    /\ Emit(Event("CTX_SWITCH", t, Junk, NoWait, clock))
    /\ UNCHANGED <<clock, attached, waits, handler, lock_starts>>

handle_cache_miss(t) ==
    /\ handler[t] = NotRunning
    /\ Emit(Event("CACHE_MISS", t, SamplePeriod, NoWait, clock))
    /\ UNCHANGED <<clock, attached, waits, handler, lock_starts>>

-----------------------------------------------------------------------------
(* contention_begin. *)

\* What an update or deletion of key k, storing start, does to a pointer that
\* thread u holds: memory is the set of values it may read.
Pointer(u, k, stored) ==
    IF handler[u].pc \notin {"now", "read"} THEN handler[u]
    ELSE IF handler[u].freed THEN [handler[u] EXCEPT !.memory = @ \cup stored]
    ELSE [handler[u] EXCEPT !.freed = (Key(u) = k)]

\* A thread starts to wait for a lock.  The handler, if it is attached, reads
\* the clock.
contention_begin(t) ==
    /\ handler[t] = NotRunning
    /\ Len(waits[t]) < Nesting[t]
    /\ waits' = [waits EXCEPT ![t] =
                    Append([i \in DOMAIN @ |-> [@[i] EXCEPT !.intact = FALSE]],
                           [begin |-> clock, covered |-> attached = "both", intact |-> FALSE])]
    /\ handler' = IF attached = "none" THEN handler
                  ELSE [handler EXCEPT ![t] = [pc |-> "update", ts |-> clock]]
    /\ UNCHANGED <<clock, attached, lock_starts, ring>>

\* bpf_map_update_elem: a new key needs a free element.
HasRoom(k) ==
    \/ lock_starts[k] # None
    \/ Cardinality({j \in Keys : lock_starts[j] # None}) < MaxEntries

Start(t) == [start |-> handler[t].ts, by |-> t, paired |-> Innermost(t).covered]

\* Fault: an entry that exists is kept, as with BPF_NOEXIST.
handle_contention_beginKeeps(t) ==
    /\ handler[t].pc = "update"
    /\ IF HasRoom(Key(t)) /\ lock_starts[Key(t)] = None
       THEN /\ lock_starts' = [lock_starts EXCEPT ![Key(t)] = Start(t)]
            /\ handler' = [u \in Threads |-> IF u = t THEN NotRunning
                                             ELSE Pointer(u, Key(t), {handler[t].ts})]
            /\ waits' = [waits EXCEPT ![t][Len(waits[t])].intact = TRUE]
       ELSE /\ handler' = [handler EXCEPT ![t] = NotRunning]
            /\ UNCHANGED <<lock_starts, waits>>
    /\ UNCHANGED <<clock, attached, ring>>

\* The update, whose failure is not looked at.
handle_contention_begin(t) ==
    /\ handler[t].pc = "update"
    /\ IF HasRoom(Key(t))
       THEN /\ lock_starts' = [lock_starts EXCEPT ![Key(t)] = Start(t)]
            /\ handler' = [u \in Threads |-> IF u = t THEN NotRunning
                                             ELSE Pointer(u, Key(t), {handler[t].ts})]
            /\ waits' = [waits EXCEPT ![t][Len(waits[t])].intact = TRUE]
       ELSE /\ handler' = [handler EXCEPT ![t] = NotRunning]
            /\ UNCHANGED <<lock_starts, waits>>
    /\ UNCHANGED <<clock, attached, ring>>

-----------------------------------------------------------------------------
(* contention_end. *)

\* The innermost wait ends.  Nothing more happens when the probe is not attached
\* or there is no start time.
contention_end(t) ==
    /\ handler[t] = NotRunning
    /\ waits[t] # <<>>
    /\ IF attached = "both" /\ lock_starts[Key(t)] # None
       THEN /\ handler' = [handler EXCEPT ![t] =
                              [pc |-> "now", memory |-> {lock_starts[Key(t)].start},
                               freed |-> FALSE]]
            /\ UNCHANGED waits
       ELSE /\ waits' = [waits EXCEPT ![t] = Pop(@)]
            /\ UNCHANGED handler
    /\ UNCHANGED <<clock, attached, lock_starts, ring>>

EndNow(t) ==
    /\ handler[t].pc = "now"
    /\ handler' = [handler EXCEPT ![t] =
                      [pc |-> "read", memory |-> @.memory, freed |-> @.freed, now |-> clock]]
    /\ UNCHANGED <<clock, attached, waits, lock_starts, ring>>

\* now - *start in 64 bits.
EndRead(t) ==
    /\ handler[t].pc = "read"
    /\ \E start \in handler[t].memory :
          handler' = [handler EXCEPT ![t] =
                         [pc |-> "delete", now |-> @.now,
                          duration |-> (@.now - start) % Modulus]]
    /\ UNCHANGED <<clock, attached, waits, lock_starts, ring>>

\* Fault: the event is reserved first, and without room for it the handler
\* returns before it deletes the entry.
EndDeleteLate(t) ==
    /\ handler[t].pc = "delete"
    /\ IF Len(ring) < RingSize
       THEN /\ lock_starts' = [lock_starts EXCEPT ![Key(t)] = None]
            /\ handler' = [handler EXCEPT ![t].pc = "emit"]
            /\ UNCHANGED waits
       ELSE /\ handler' = [handler EXCEPT ![t] = NotRunning]
            /\ waits' = [waits EXCEPT ![t] = Pop(@)]
            /\ UNCHANGED lock_starts
    /\ UNCHANGED <<clock, attached, ring>>

\* Deletes the entry there is now, if any.
EndDelete(t) ==
    /\ handler[t].pc = "delete"
    /\ lock_starts' = [lock_starts EXCEPT ![Key(t)] = None]
    /\ handler' = [u \in Threads |-> IF u = t THEN [handler[t] EXCEPT !.pc = "emit"]
                                     ELSE Pointer(u, Key(t), {})]
    /\ UNCHANGED <<clock, attached, waits, ring>>

EndEmit(t) ==
    /\ handler[t].pc = "emit"
    /\ Emit(Event("LOCK_CONTENTION", t, handler[t].duration, Innermost(t), handler[t].now))
    /\ handler' = [handler EXCEPT ![t] = NotRunning]
    /\ waits' = [waits EXCEPT ![t] = Pop(@)]
    /\ UNCHANGED <<clock, attached, lock_starts>>

handle_contention_end(t) == EndNow(t) \/ EndRead(t) \/ EndDelete(t) \/ EndEmit(t)

-----------------------------------------------------------------------------
(* The collector. *)

\* int64(payload)
Int64(n) == IF 2 * n < Modulus THEN n ELSE n - Modulus

\* Fault: the payload is read whatever the type.
DecodeAll(e) ==
    [type |-> e.type, value |-> e.payload, waited |-> e.waited, covered |-> e.covered]

\* The event sent for a record: only two types have a payload.
Decode(e) ==
    [type |-> e.type,
     value |-> CASE e.type = "CACHE_MISS"      -> e.payload
                 [] e.type = "LOCK_CONTENTION" -> Int64(e.payload)
                 [] OTHER                      -> None,
     waited |-> e.waited, covered |-> e.covered]

\* Fault: events without a workload are not ignored.
ForwardAll(e) == {Decode(e)}

\* What is appended to the batch for a record.  No workload has the root cgroup:
\* an event of an idle thread is ignored.
Forward(e) == IF e.thread \in Idle THEN {} ELSE {Decode(e)}

Read ==
    /\ ring # <<>>
    /\ ring' = Tail(ring)
    /\ UNCHANGED <<clock, attached, waits, handler, lock_starts>>

\* The probe of the beginning is attached first; where that of the end cannot
\* be attached the first one stays.
Attach ==
    /\ attached # "both"
    /\ attached' = IF attached = "none" THEN "begin" ELSE "both"
    /\ UNCHANGED <<clock, waits, handler, lock_starts, ring>>

Tick ==
    /\ clock < MaxTime
    /\ clock' = clock + 1
    /\ UNCHANGED <<attached, waits, handler, lock_starts, ring>>

-----------------------------------------------------------------------------

Init ==
    /\ clock = 0
    /\ attached = "none"
    /\ waits = [t \in Threads |-> <<>>]
    /\ handler = [t \in Threads |-> NotRunning]
    /\ lock_starts = [k \in Keys |-> None]
    /\ ring = <<>>

Next ==
    \/ \E t \in Threads :
          \/ handle_page_fault(t) \/ handle_sched_switch(t) \/ handle_cache_miss(t)
          \/ contention_begin(t) \/ handle_contention_begin(t)
          \/ contention_end(t) \/ handle_contention_end(t)
    \/ Read \/ Attach \/ Tick

Spec == Init /\ [][Next]_vars

-----------------------------------------------------------------------------
(* Properties. *)

Times == 0 .. MaxTime

\* The events the collector makes of what is in the ring buffer.
Forwarded == UNION {Forward(ring[i]) : i \in DOMAIN ring}
ForwardedWaits == {e \in Forwarded : e.type = "LOCK_CONTENTION"}

TypeOK ==
    /\ clock \in Times
    /\ attached \in {"none", "begin", "both"}
    /\ \A t \in Threads : Len(waits[t]) <= Nesting[t]
    /\ \A k \in Keys : lock_starts[k] # None => lock_starts[k].start \in Times
    /\ Cardinality({k \in Keys : lock_starts[k] # None}) <= MaxEntries
    /\ Len(ring) <= RingSize
    /\ \A e \in Forwarded : e.value \in Int \cup {None}


\* However waits nest, maps fill up, idle threads race for their common key and
\* freed elements are reused, the lock time sent for a workload's thread is that
\* of the wait which ended, if both probes were attached when it began.
DurationExact == \A e \in ForwardedWaits : e.covered => e.value = e.waited

\* Also for waits that began before the probes were attached, the lock time sent
\* is not negative after 64-bit subtraction and conversion, nor longer than the
\* wait.
DurationWithinWait == \A e \in ForwardedWaits : e.value \in 0 .. e.waited

\* No wait is overlooked without a reason: while a workload's thread waits, its
\* start time is in the map, unless the map was full or a nested wait came.
WaitIsMeasured ==
    \A t \in Threads \ Idle :
        waits[t] # <<>> /\ handler[t] = NotRunning /\ Innermost(t).intact =>
            /\ lock_starts[Key(t)] # None
            /\ lock_starts[Key(t)].start = Innermost(t).begin

\* The map does not fill up with leftovers: an entry stored with both probes
\* attached belongs to a wait in progress, whatever the idle threads do to one
\* another's entries and although the ring buffer may be full.
MapHoldsWaits ==
    \A k \in Keys :
        lock_starts[k] # None /\ lock_starts[k].paired => waits[lock_starts[k].by] # <<>>
=============================================================================
