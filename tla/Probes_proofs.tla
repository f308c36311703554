---------------------------- MODULE Probes_proofs ----------------------------
(***************************************************************************)
(* Proofs about Probes, for any number of threads, any nesting of waits,   *)
(* any capacity of the map and of the ring buffer.                         *)
(***************************************************************************)
EXTENDS Probes, FiniteSetTheorems, TLAPS

-----------------------------------------------------------------------------
(* The type of the state, in full. *)

Wait == [begin : Times, covered : BOOLEAN, intact : BOOLEAN]

StartTime == [start : Times, by : Threads, paired : BOOLEAN]

Handler ==
    [pc : {"none"}]
        \cup [pc : {"update"}, ts : Times]
        \cup [pc : {"now"}, memory : SUBSET Times, freed : BOOLEAN]
        \cup [pc : {"read"}, memory : SUBSET Times, freed : BOOLEAN, now : Times]
        \cup [pc : {"delete", "emit"}, now : Times, duration : 0 .. Modulus - 1]

Types == {"PAGE_FAULT", "CTX_SWITCH", "CACHE_MISS", "LOCK_CONTENTION"}

Record == [type : Types, thread : Threads, payload : Nat \cup {Junk},
           waited : Int, covered : BOOLEAN]

TypeInv ==
    /\ clock \in Times
    /\ attached \in {"none", "begin", "both"}
    /\ waits \in [Threads -> Seq(Wait)]
    /\ handler \in [Threads -> Handler]
    /\ lock_starts \in [Keys -> StartTime \cup {None}]
    /\ ring \in Seq(Record)

-----------------------------------------------------------------------------
(* The invariant of one thread that has its key to itself, as a predicate   *)
(* of the clock c, the attached probes a, its waits ws, its handler h and   *)
(* its map entry e.                                                        *)

\* Waits began one after the other, and all but the innermost were disturbed.
WaitsInv(c, a, ws) ==
    \A i \in 1 .. Len(ws) :
        /\ ws[i].begin <= c
        /\ ws[i].covered => a = "both"
        /\ i < Len(ws) => ~ws[i].intact
        /\ \A j \in 1 .. i : ws[j].begin <= ws[i].begin

\* Between handlers: the entry is that of the innermost wait l, or of a wait
\* inside l that ended unseen, never of an earlier one.
Between(l, e) ==
    /\ l.intact => e # None /\ e.start = l.begin
    /\ l.covered /\ ~l.intact => e = None
    /\ e # None => e.start >= l.begin

\* In a handler, started while l was the innermost wait.
Within(c, a, l, h, e) ==
    /\ h.pc = "update" => h.ts = l.begin /\ ~l.intact /\ a # "none"
    /\ h.pc \in {"now", "read"} =>
         /\ a = "both"
         /\ e # None /\ e.start >= l.begin
         /\ ~h.freed /\ h.memory = {e.start}
         /\ l.covered => e.start = l.begin
    /\ h.pc = "read" => e.start <= h.now /\ h.now <= c
    /\ h.pc \in {"delete", "emit"} =>
         /\ a = "both"
         /\ h.now <= c
         /\ h.duration \in 0 .. h.now - l.begin
         /\ l.covered => h.duration = h.now - l.begin
    /\ h.pc = "emit" => e = None

OwnKey(c, a, ws, h, e) ==
    /\ WaitsInv(c, a, ws)
    /\ e # None => e.start <= c /\ a # "none"
    /\ h.pc # "none" => ws # <<>>
    /\ ws # <<>> /\ h.pc = "none" => Between(ws[Len(ws)], e)
    /\ ws # <<>> /\ h.pc # "none" => Within(c, a, ws[Len(ws)], h, e)

Own(t) == OwnKey(clock, attached, waits[t], handler[t], lock_starts[t])

-----------------------------------------------------------------------------
(* The rest of the invariant. *)

\* What is in the ring buffer: a time of a workload's thread is right.
Truthful(r) ==
    /\ r.type \in {"CACHE_MISS", "LOCK_CONTENTION"} => r.payload \in Nat
    /\ r.type = "LOCK_CONTENTION" /\ r.thread \notin Idle =>
         /\ r.payload <= r.waited
         /\ 2 * r.payload < Modulus
         /\ r.covered => r.payload = r.waited

\* Also for the shared key: an entry stored with both probes attached is that
\* of a thread whose handler of the end has not deleted it yet.
EntryInUse(k) ==
    lock_starts[k] # None =>
        /\ Key(lock_starts[k].by) = k
        /\ lock_starts[k].paired =>
             /\ attached = "both"
             /\ waits[lock_starts[k].by] # <<>>
             /\ handler[lock_starts[k].by].pc # "emit"

\* A handler of a thread runs only while the thread waits.
HandlersWait == \A t \in Threads : handler[t].pc # "none" => waits[t] # <<>>

\* A wait counts as covered only once both probes are attached.
CoveredBoth(t) == \A i \in 1 .. Len(waits[t]) : waits[t][i].covered => attached = "both"

Entries == {k \in Keys : lock_starts[k] # None}

IndInv ==
    /\ TypeInv
    /\ \A t \in Threads \ Idle : Own(t)
    /\ HandlersWait
    /\ \A t \in Threads : CoveredBoth(t)
    /\ \A k \in Keys : EntryInUse(k)
    /\ Cardinality(Entries) <= MaxEntries
    /\ \A t \in Threads : Len(waits[t]) <= Nesting[t]
    /\ Len(ring) <= RingSize
    /\ \A i \in 1 .. Len(ring) : Truthful(ring[i])

-----------------------------------------------------------------------------
(* Lemmas about the type of the state. *)

\* The fields of a handler's state, by where it is.
LEMMA HandlerFields ==
    ASSUME NEW h \in Handler
    PROVE  /\ h.pc \in {"none", "update", "now", "read", "delete", "emit"}
           /\ h.pc = "none" => h = NotRunning
           /\ h.pc = "update" => h.ts \in Times
           /\ h.pc \in {"now", "read"} => h.memory \in SUBSET Times /\ h.freed \in BOOLEAN
           /\ h.pc \in {"read", "delete", "emit"} => h.now \in Times
           /\ h.pc \in {"delete", "emit"} => h.duration \in 0 .. Modulus - 1
BY DEF Handler, NotRunning

\* A thread without a running handler is a state of the model.
LEMMA NotRunningType == NotRunning \in Handler /\ NotRunning.pc = "none"
BY DEF Handler, NotRunning

\* The key of a thread is a key of the map.
LEMMA KeyType == \A t \in Threads : Key(t) \in Keys
BY DEF Key, Keys

\* What another thread's update or deletion does to a handler.
LEMMA PointerType ==
    ASSUME TypeInv, NEW u \in Threads, NEW k \in Keys, NEW stored \in SUBSET Times
    PROVE  /\ Pointer(u, k, stored) \in Handler
           /\ Pointer(u, k, stored).pc = handler[u].pc
<1> DEFINE h == handler[u]
<1>1. h \in Handler
  BY DEF TypeInv
<1>2. CASE h.pc \notin {"now", "read"}
  BY <1>1, <1>2 DEF Pointer
<1>3. CASE h.pc = "now"
  <2>1. h \in [pc : {"now"}, memory : SUBSET Times, freed : BOOLEAN]
    BY <1>1, <1>3 DEF Handler
  <2>2. /\ [h EXCEPT !.memory = @ \cup stored] \in Handler
        /\ [h EXCEPT !.memory = @ \cup stored].pc = "now"
    BY <2>1 DEF Handler
  <2>3. /\ [h EXCEPT !.freed = (Key(u) = k)] \in Handler
        /\ [h EXCEPT !.freed = (Key(u) = k)].pc = "now"
    BY <2>1 DEF Handler
  <2> QED
    BY <1>3, <2>2, <2>3 DEF Pointer
<1>4. CASE h.pc = "read"
  <2>1. h \in [pc : {"read"}, memory : SUBSET Times, freed : BOOLEAN, now : Times]
    BY <1>1, <1>4 DEF Handler
  <2>2. /\ [h EXCEPT !.memory = @ \cup stored] \in Handler
        /\ [h EXCEPT !.memory = @ \cup stored].pc = "read"
    BY <2>1 DEF Handler
  <2>3. /\ [h EXCEPT !.freed = (Key(u) = k)] \in Handler
        /\ [h EXCEPT !.freed = (Key(u) = k)].pc = "read"
    BY <2>1 DEF Handler
  <2> QED
    BY <1>4, <2>2, <2>3 DEF Pointer
<1> QED
  BY <1>2, <1>3, <1>4

\* A pointer that was not freed survives what happens to other keys.
LEMMA PointerOfOthers ==
    ASSUME TypeInv, NEW u \in Threads, NEW k \in Keys, NEW stored,
           handler[u].pc \in {"now", "read"} => ~handler[u].freed,
           Key(u) # k
    PROVE  Pointer(u, k, stored) = handler[u]
<1>1. handler[u] \in Handler
  BY DEF TypeInv
<1>2. CASE handler[u].pc \in {"now", "read"}
  <2>1. handler[u].freed = FALSE /\ (Key(u) = k) = FALSE
    BY <1>1, <1>2, HandlerFields
  <2>2. [handler[u] EXCEPT !.freed = FALSE] = handler[u]
    BY <1>1, <1>2, <2>1 DEF Handler
  <2> QED
    BY <1>2, <2>1, <2>2 DEF Pointer
<1> QED
  BY <1>2 DEF Pointer

\* The innermost wait, the rest, and the waits after one was added or changed.
LEMMA LastWait ==
    ASSUME NEW ws \in Seq(Wait), ws # <<>>
    PROVE  /\ Len(ws) \in Nat \ {0}
           /\ ws[Len(ws)] \in Wait
           /\ Pop(ws) \in Seq(Wait)
           /\ Len(Pop(ws)) = Len(ws) - 1
           /\ \A i \in 1 .. Len(ws) - 1 : Pop(ws)[i] = ws[i]
<1>1. Len(ws) \in Nat \ {0}
  OBVIOUS
<1>2. ws[Len(ws)] \in Wait
  BY <1>1
<1>3. SubSeq(ws, 1, Len(ws) - 1) = [i \in 1 .. Len(ws) - 1 |-> ws[i]]
  BY <1>1
<1> DEFINE s == [i \in 1 .. Len(ws) - 1 |-> ws[i]]
<1>4. s \in Seq(Wait) /\ Len(s) = Len(ws) - 1
  BY <1>1
<1>5. \A i \in 1 .. Len(ws) - 1 : s[i] = ws[i]
  OBVIOUS
<1>6. Pop(ws) = s
  BY <1>3 DEF Pop
<1> HIDE DEF s
<1> QED
  BY <1>1, <1>2, <1>4, <1>5, <1>6

\* All waits disturbed by a nested one w.
Pushed(ws, w) == Append([i \in DOMAIN ws |-> [ws[i] EXCEPT !.intact = FALSE]], w)

\* A nested wait is pushed: the waits around it are no longer intact.
LEMMA PushedWaits ==
    ASSUME NEW ws \in Seq(Wait), NEW w \in Wait
    PROVE  /\ Pushed(ws, w) \in Seq(Wait)
           /\ Len(Pushed(ws, w)) = Len(ws) + 1
           /\ Pushed(ws, w)[Len(ws) + 1] = w
           /\ \A i \in 1 .. Len(ws) : Pushed(ws, w)[i] = [ws[i] EXCEPT !.intact = FALSE]
           /\ Pushed(ws, w) # <<>>
<1> DEFINE s == [i \in 1 .. Len(ws) |-> [ws[i] EXCEPT !.intact = FALSE]]
<1>1. \A i \in 1 .. Len(ws) : [ws[i] EXCEPT !.intact = FALSE] \in Wait
  <2> TAKE i \in 1 .. Len(ws)
  <2>1. ws[i] \in Wait
    OBVIOUS
  <2> QED
    BY <2>1 DEF Wait
<1>2. s \in Seq(Wait) /\ Len(s) = Len(ws)
  BY <1>1
<1>3. Pushed(ws, w) = Append(s, w)
  <2>1. DOMAIN ws = 1 .. Len(ws)
    OBVIOUS
  <2> QED
    BY <2>1, Zenon DEF Pushed
<1>4. \A i \in 1 .. Len(ws) : s[i] = [ws[i] EXCEPT !.intact = FALSE]
  OBVIOUS
<1> HIDE DEF s
<1> QED
  BY <1>2, <1>3, <1>4

\* The innermost wait's start time was stored.
Intact(ws) == [ws EXCEPT ![Len(ws)].intact = TRUE]

\* The innermost wait becomes intact, the others stay as they are.
LEMMA IntactWaits ==
    ASSUME NEW ws \in Seq(Wait), ws # <<>>
    PROVE  /\ Intact(ws) \in Seq(Wait)
           /\ Len(Intact(ws)) = Len(ws)
           /\ Intact(ws)[Len(ws)] = [ws[Len(ws)] EXCEPT !.intact = TRUE]
           /\ \A i \in 1 .. Len(ws) - 1 : Intact(ws)[i] = ws[i]
           /\ Intact(ws) # <<>>
<1> DEFINE w == Intact(ws)
<1>1. [ws[Len(ws)] EXCEPT !.intact = TRUE] \in Wait
  <2>1. ws[Len(ws)] \in Wait
    OBVIOUS
  <2> QED
    BY <2>1 DEF Wait
<1>2. w = [ws EXCEPT ![Len(ws)] = [ws[Len(ws)] EXCEPT !.intact = TRUE]]
  BY DEF Intact
<1>3. Len(ws) \in 1 .. Len(ws) /\ DOMAIN ws = 1 .. Len(ws)
  OBVIOUS
<1> HIDE DEF w
<1>4. w \in Seq(Wait) /\ Len(w) = Len(ws)
  BY <1>1, <1>2, <1>3
<1> QED
  BY <1>2, <1>3, <1>4 DEF w

\* Emit appends the event or drops it.
LEMMA EmitRing ==
    ASSUME TypeInv, NEW e \in Record, Emit(e)
    PROVE  /\ ring' \in Seq(Record)
           /\ Len(ring) <= RingSize => Len(ring') <= RingSize
           /\ \A i \in 1 .. Len(ring') : ring'[i] = e \/ (i <= Len(ring) /\ ring'[i] = ring[i])
<1>1. ring \in Seq(Record) /\ RingSize \in Nat
  BY ProbesAssumption DEF TypeInv
<1> QED
  BY <1>1 DEF Emit

\* A thread with a running handler has an innermost wait.
LEMMA InnermostType ==
    ASSUME TypeInv, HandlersWait, NEW t \in Threads, handler[t].pc # "none"
    PROVE  waits[t] \in Seq(Wait) /\ waits[t] # <<>> /\ Innermost(t) \in Wait
BY LastWait DEF TypeInv, HandlersWait, Innermost

\* The records that the handlers emit.
LEMMA PlainRecord ==
    ASSUME TypeInv, NEW t \in Threads, NEW type \in Types, NEW payload \in Nat \cup {Junk}
    PROVE  Event(type, t, payload, NoWait, clock) \in Record
BY DEF Event, NoWait, Record, TypeInv, Times

\* The record a lock probe submits has the type of records.
LEMMA LockRecord ==
    ASSUME TypeInv, HandlersWait, NEW t \in Threads, handler[t].pc = "emit"
    PROVE  Event("LOCK_CONTENTION", t, handler[t].duration, Innermost(t), handler[t].now) \in Record
<1>1. Innermost(t) \in Wait
  BY InnermostType
<1>2. handler[t].duration \in 0 .. Modulus - 1 /\ handler[t].now \in Times
  BY HandlerFields DEF TypeInv
<1> QED
  BY <1>1, <1>2 DEF Event, Record, Wait, Times, Types

\* The initial states have their types.
LEMMA TypeInvInit == Init => TypeInv
<1> SUFFICES ASSUME Init
             PROVE  TypeInv
  OBVIOUS
<1>1. <<>> \in Seq(Wait) /\ <<>> \in Seq(Record)
  OBVIOUS
<1> QED
  BY <1>1, NotRunningType, ProbesAssumption DEF Init, TypeInv, Times

\* Every step keeps the types.
LEMMA TypeInvNext == TypeInv /\ HandlersWait /\ [Next]_vars => TypeInv'
<1> SUFFICES ASSUME TypeInv, HandlersWait, [Next]_vars
             PROVE  TypeInv'
  OBVIOUS
<1> USE ProbesAssumption
<1>1. ASSUME NEW t \in Threads,
             handle_page_fault(t) \/ handle_sched_switch(t) \/ handle_cache_miss(t)
      PROVE  TypeInv'
  <2>1. PICK type \in Types, payload \in Nat \cup {Junk} :
              Emit(Event(type, t, payload, NoWait, clock))
    BY <1>1 DEF handle_page_fault, handle_sched_switch, handle_cache_miss, Types
  <2>2. ring' \in Seq(Record)
    BY <2>1, PlainRecord, EmitRing
  <2> QED
    BY <1>1, <2>2 DEF TypeInv, handle_page_fault, handle_sched_switch, handle_cache_miss
<1>2. ASSUME NEW t \in Threads, contention_begin(t)
      PROVE  TypeInv'
  <2> DEFINE w == [begin |-> clock, covered |-> attached = "both", intact |-> FALSE]
  <2>1. w \in Wait /\ waits[t] \in Seq(Wait)
    BY DEF Wait, TypeInv
  <2>2. waits' = [waits EXCEPT ![t] = Pushed(waits[t], w)]
    BY <1>2 DEF contention_begin, Pushed
  <2>3. waits' \in [Threads -> Seq(Wait)]
    BY <2>1, <2>2, PushedWaits DEF TypeInv
  <2>4. [pc |-> "update", ts |-> clock] \in Handler
    BY DEF Handler, TypeInv
  <2>5. handler' \in [Threads -> Handler]
    BY <1>2, <2>4 DEF contention_begin, TypeInv
  <2> QED
    BY <1>2, <2>3, <2>5 DEF contention_begin, TypeInv
<1>3. ASSUME NEW t \in Threads, handle_contention_begin(t)
      PROVE  TypeInv'
  <2>1. /\ waits[t] \in Seq(Wait) /\ waits[t] # <<>> /\ Innermost(t) \in Wait
        /\ handler[t].ts \in Times
    BY <1>3, InnermostType, HandlerFields DEF handle_contention_begin, TypeInv
  <2>2. CASE HasRoom(Key(t))
    <3>1. Start(t) \in StartTime
      BY <2>1 DEF Start, StartTime, Wait
    <3>2. lock_starts' \in [Keys -> StartTime \cup {None}]
      BY <1>3, <2>2, <3>1 DEF handle_contention_begin, TypeInv
    <3>3. handler' \in [Threads -> Handler]
      <4>1. \A u \in Threads : Pointer(u, Key(t), {handler[t].ts}) \in Handler
        BY <2>1, KeyType, PointerType
      <4>2. handler' = [u \in Threads |-> IF u = t THEN NotRunning
                                          ELSE Pointer(u, Key(t), {handler[t].ts})]
        BY <1>3, <2>2 DEF handle_contention_begin
      <4> QED
        BY <4>1, <4>2, NotRunningType
    <3>4. waits' \in [Threads -> Seq(Wait)]
      <4>1. waits' = [waits EXCEPT ![t] = Intact(waits[t])]
        BY <1>3, <2>2 DEF handle_contention_begin, Intact
      <4> QED
        BY <2>1, <4>1, IntactWaits DEF TypeInv
    <3> QED
      BY <1>3, <3>2, <3>3, <3>4 DEF handle_contention_begin, TypeInv
  <2>3. CASE ~HasRoom(Key(t))
    BY <1>3, <2>3, NotRunningType DEF handle_contention_begin, TypeInv
  <2> QED
    BY <2>2, <2>3
<1>4. ASSUME NEW t \in Threads, contention_end(t)
      PROVE  TypeInv'
  <2>1. CASE attached = "both" /\ lock_starts[Key(t)] # None
    <3>1. lock_starts[Key(t)].start \in Times
      BY <2>1, KeyType DEF TypeInv, StartTime
    <3>2. [pc |-> "now", memory |-> {lock_starts[Key(t)].start}, freed |-> FALSE] \in Handler
      BY <3>1 DEF Handler
    <3> QED
      BY <1>4, <2>1, <3>2 DEF contention_end, TypeInv
  <2>2. CASE ~(attached = "both" /\ lock_starts[Key(t)] # None)
    <3>1. waits[t] \in Seq(Wait) /\ waits[t] # <<>>
      BY <1>4 DEF contention_end, TypeInv
    <3>2. waits' = [waits EXCEPT ![t] = Pop(waits[t])]
      BY <1>4, <2>2 DEF contention_end
    <3>3. waits' \in [Threads -> Seq(Wait)]
      BY <3>1, <3>2, LastWait DEF TypeInv
    <3> QED
      BY <1>4, <2>2, <3>3 DEF contention_end, TypeInv
  <2> QED
    BY <2>1, <2>2
<1>5. ASSUME NEW t \in Threads, EndNow(t)
      PROVE  TypeInv'
  <2>1. handler[t].memory \in SUBSET Times /\ handler[t].freed \in BOOLEAN /\ clock \in Times
    BY <1>5, HandlerFields DEF EndNow, TypeInv
  <2>2. [pc |-> "read", memory |-> handler[t].memory, freed |-> handler[t].freed, now |-> clock]
           \in Handler
    BY <2>1 DEF Handler
  <2> QED
    BY <1>5, <2>2 DEF EndNow, TypeInv
<1>6. ASSUME NEW t \in Threads, EndRead(t)
      PROVE  TypeInv'
  <2>1. handler[t].memory \in SUBSET Times /\ handler[t].now \in Times
    BY <1>6, HandlerFields DEF EndRead, TypeInv
  <2>2. PICK start \in handler[t].memory :
           handler' = [handler EXCEPT ![t] =
                          [pc |-> "delete", now |-> handler[t].now,
                           duration |-> (handler[t].now - start) % Modulus]]
    BY <1>6 DEF EndRead
  <2>3. (handler[t].now - start) % Modulus \in 0 .. Modulus - 1
    BY <2>1, <2>2 DEF Times
  <2>4. [pc |-> "delete", now |-> handler[t].now,
         duration |-> (handler[t].now - start) % Modulus] \in Handler
    BY <2>1, <2>3 DEF Handler
  <2> QED
    BY <1>6, <2>2, <2>4 DEF EndRead, TypeInv
<1>7. ASSUME NEW t \in Threads, EndDelete(t)
      PROVE  TypeInv'
  <2>1. [handler[t] EXCEPT !.pc = "emit"] \in Handler
    BY <1>7 DEF EndDelete, TypeInv, Handler
  <2>2. \A u \in Threads : Pointer(u, Key(t), {}) \in Handler
    BY KeyType, PointerType
  <2>3. handler' \in [Threads -> Handler]
    BY <1>7, <2>1, <2>2 DEF EndDelete
  <2> QED
    BY <1>7, <2>3, KeyType DEF EndDelete, TypeInv
<1>8. ASSUME NEW t \in Threads, EndEmit(t)
      PROVE  TypeInv'
  <2>1. handler[t].pc = "emit"
    BY <1>8 DEF EndEmit
  <2>2. ring' \in Seq(Record)
    BY <1>8, <2>1, LockRecord, EmitRing DEF EndEmit
  <2>3. waits[t] \in Seq(Wait) /\ waits[t] # <<>>
    BY <2>1, InnermostType
  <2>4. waits' = [waits EXCEPT ![t] = Pop(waits[t])]
    BY <1>8 DEF EndEmit
  <2>5. waits' \in [Threads -> Seq(Wait)]
    BY <2>3, <2>4, LastWait DEF TypeInv
  <2> QED
    BY <1>8, <2>2, <2>5, NotRunningType DEF EndEmit, TypeInv
<1>9. CASE Read
  BY <1>9 DEF Read, TypeInv
<1>10. CASE Attach
  BY <1>10 DEF Attach, TypeInv
<1>11. CASE Tick
  BY <1>11 DEF Tick, TypeInv, Times
<1>12. CASE UNCHANGED vars
  BY <1>12 DEF vars, TypeInv
<1> QED
  BY <1>1, <1>2, <1>3, <1>4, <1>5, <1>6, <1>7, <1>8, <1>9, <1>10, <1>11, <1>12
     DEF Next, handle_contention_end

-----------------------------------------------------------------------------
(* A thread with a key of its own: lemmas about OwnKey. *)

Attached == {"none", "begin", "both"}

\* The beginning of a wait is a number.
LEMMA WaitBegins ==
    ASSUME NEW ws \in Seq(Wait), NEW i \in 1 .. Len(ws)
    PROVE  ws[i] \in Wait /\ ws[i].begin \in Int
<1>1. ws[i] \in Wait
  OBVIOUS
<1> QED
  BY <1>1 DEF Wait, Times

\* Time passes and probes are attached: nothing changes for the thread.
LEMMA OwnLater ==
    ASSUME NEW c \in Times, NEW d \in Times, c <= d,
           NEW a \in Attached, NEW b \in Attached,
           a # "none" => b # "none", a = "both" => b = "both",
           NEW ws \in Seq(Wait), NEW h \in Handler, NEW e \in StartTime \cup {None},
           OwnKey(c, a, ws, h, e)
    PROVE  OwnKey(d, b, ws, h, e)
<1>1. c \in Int /\ d \in Int
  BY ProbesAssumption DEF Times
<1>2. WaitsInv(d, b, ws)
  <2>1. \A i \in 1 .. Len(ws) : ws[i].begin \in Int
    BY WaitBegins
  <2> QED
    BY <1>1, <2>1 DEF OwnKey, WaitsInv
<1>3. e # None => e.start \in Int
  BY DEF StartTime, Times
<1>4. ws # <<>> /\ h.pc # "none" => Within(d, b, ws[Len(ws)], h, e)
  <2>1. h.pc \in {"read", "delete", "emit"} => h.now \in Int
    BY HandlerFields DEF Times
  <2> QED
    BY <1>1, <1>3, <2>1 DEF OwnKey, Within
<1> QED
  BY <1>1, <1>2, <1>3, <1>4 DEF OwnKey

\* The waits that are left when the innermost one ends.
LEMMA WaitsPop ==
    ASSUME NEW c \in Times, NEW a \in Attached, NEW ws \in Seq(Wait), ws # <<>>,
           WaitsInv(c, a, ws)
    PROVE  /\ WaitsInv(c, a, Pop(ws))
           /\ Pop(ws) # <<>> =>
                LET l == Pop(ws)[Len(Pop(ws))]
                IN  /\ l \in Wait
                    /\ l.begin <= ws[Len(ws)].begin
                    /\ ~l.intact
                    /\ l.covered => a = "both"
<1> DEFINE v == Pop(ws)
<1>1. /\ Len(ws) \in Nat \ {0} /\ v \in Seq(Wait) /\ Len(v) = Len(ws) - 1
      /\ \A i \in 1 .. Len(ws) - 1 : v[i] = ws[i]
  BY LastWait
<1> HIDE DEF v
<1>2. WaitsInv(c, a, v)
  BY <1>1 DEF WaitsInv
<1>3. v # <<>> => /\ Len(v) \in 1 .. Len(ws) - 1
                  /\ v[Len(v)] = ws[Len(v)]
                  /\ v[Len(v)] \in Wait
  BY <1>1
<1>4. v # <<>> => /\ v[Len(v)].begin <= ws[Len(ws)].begin
                  /\ ~v[Len(v)].intact
                  /\ v[Len(v)].covered => a = "both"
  BY <1>1, <1>3 DEF WaitsInv
<1> QED
  BY <1>2, <1>3, <1>4 DEF v

\* A nested wait begins now.
LEMMA WaitsPush ==
    ASSUME NEW c \in Times, NEW a \in Attached, NEW ws \in Seq(Wait), NEW w \in Wait,
           w.begin = c, w.covered => a = "both", WaitsInv(c, a, ws)
    PROVE  WaitsInv(c, a, Pushed(ws, w))
<1> DEFINE v == Pushed(ws, w)
<1>1. /\ v \in Seq(Wait) /\ Len(v) = Len(ws) + 1 /\ v[Len(ws) + 1] = w
      /\ \A i \in 1 .. Len(ws) : v[i] = [ws[i] EXCEPT !.intact = FALSE]
  BY PushedWaits
<1> HIDE DEF v
<1>2. \A i \in 1 .. Len(ws) : /\ ws[i].begin \in Int
                              /\ v[i].begin = ws[i].begin
                              /\ v[i].covered = ws[i].covered
                              /\ v[i].intact = FALSE
  <2> TAKE i \in 1 .. Len(ws)
  <2>1. ws[i] \in Wait /\ ws[i].begin \in Int
    BY WaitBegins
  <2>2. v[i] = [ws[i] EXCEPT !.intact = FALSE]
    BY <1>1
  <2> QED
    BY <2>1, <2>2 DEF Wait
<1>3. Len(ws) \in Nat /\ c \in Int
  BY DEF Times
<1>4. ASSUME NEW i \in 1 .. Len(v)
      PROVE  /\ v[i].begin <= c
             /\ v[i].covered => a = "both"
             /\ i < Len(v) => ~v[i].intact
             /\ \A j \in 1 .. i : v[j].begin <= v[i].begin
  <2>1. CASE i \in 1 .. Len(ws)
    BY <1>1, <1>2, <1>3, <2>1 DEF WaitsInv
  <2>2. CASE i = Len(ws) + 1
    <3>1. \A j \in 1 .. i : v[j].begin <= c
      BY <1>1, <1>2, <1>3, <2>2 DEF WaitsInv
    <3> QED
      BY <1>1, <1>3, <2>2, <3>1
  <2> QED
    BY <1>1, <1>3, <2>1, <2>2
<1> QED
  BY <1>4 DEF WaitsInv, v

\* The start time of the innermost wait is stored.
LEMMA WaitsIntact ==
    ASSUME NEW c \in Times, NEW a \in Attached, NEW ws \in Seq(Wait), ws # <<>>,
           WaitsInv(c, a, ws)
    PROVE  /\ WaitsInv(c, a, Intact(ws))
           /\ Intact(ws)[Len(Intact(ws))].begin = ws[Len(ws)].begin
           /\ Intact(ws)[Len(Intact(ws))].intact
<1> DEFINE v == Intact(ws)
<1>1. /\ v \in Seq(Wait) /\ Len(v) = Len(ws)
      /\ v[Len(ws)] = [ws[Len(ws)] EXCEPT !.intact = TRUE]
      /\ \A i \in 1 .. Len(ws) - 1 : v[i] = ws[i]
  BY IntactWaits
<1>2. ws[Len(ws)] \in Wait /\ Len(ws) \in Nat \ {0}
  BY LastWait
<1> HIDE DEF v
<1>3. /\ v[Len(ws)].begin = ws[Len(ws)].begin
      /\ v[Len(ws)].covered = ws[Len(ws)].covered
      /\ v[Len(ws)].intact
  BY <1>1, <1>2 DEF Wait
<1>4. \A i \in 1 .. Len(ws) : /\ v[i].begin = ws[i].begin
                              /\ v[i].covered = ws[i].covered
                              /\ i < Len(ws) => v[i].intact = ws[i].intact
  <2> TAKE i \in 1 .. Len(ws)
  <2>1. CASE i = Len(ws)
    BY <1>2, <1>3, <2>1
  <2>2. CASE i \in 1 .. Len(ws) - 1
    <3>1. v[i] = ws[i]
      BY <1>1, <2>2
    <3> QED
      BY <1>2, <2>2, <3>1
  <2> QED
    BY <1>2, <2>1, <2>2
<1>5. WaitsInv(c, a, v)
  BY <1>1, <1>2, <1>4 DEF WaitsInv
<1> QED
  BY <1>1, <1>3, <1>5 DEF v

\* A 64-bit subtraction that does not wrap.
LEMMA NoWrap ==
    ASSUME NEW x \in Nat, NEW m \in Nat, x < m
    PROVE  x % m = x
OBVIOUS

-----------------------------------------------------------------------------
(* What its own handlers do to a thread with a key of its own, one lemma     *)
(* for each step.                                                          *)

\* A wait begins.
LEMMA OwnBegin ==
    ASSUME NEW c \in Times, NEW a \in Attached, NEW ws \in Seq(Wait),
           NEW e \in StartTime \cup {None}, OwnKey(c, a, ws, NotRunning, e)
    PROVE  LET w == [begin |-> c, covered |-> a = "both", intact |-> FALSE]
           IN  OwnKey(c, a, Pushed(ws, w),
                      IF a = "none" THEN NotRunning ELSE [pc |-> "update", ts |-> c], e)
<1> DEFINE w == [begin |-> c, covered |-> a = "both", intact |-> FALSE]
           v == Pushed(ws, w)
           h == IF a = "none" THEN NotRunning ELSE [pc |-> "update", ts |-> c]
<1>1. w \in Wait /\ w.begin = c /\ (w.covered => a = "both") /\ ~w.intact
  BY DEF Wait
<1>2. a = "none" => ~w.covered
  OBVIOUS
<1> HIDE DEF w
<1>3. v \in Seq(Wait) /\ v # <<>> /\ v[Len(v)] = w
  <2>1. Len(ws) \in Nat
    OBVIOUS
  <2>2. v \in Seq(Wait) /\ v # <<>> /\ Len(v) = Len(ws) + 1 /\ v[Len(ws) + 1] = w
    BY <1>1, PushedWaits
  <2> HIDE DEF v
  <2> QED
    BY <2>1, <2>2
<1>4. WaitsInv(c, a, v)
  BY <1>1, WaitsPush DEF OwnKey
<1> HIDE DEF v
<1>5. CASE a = "none"
  <2>1. h = NotRunning /\ h.pc = "none" /\ e = None
    BY <1>5, NotRunningType DEF OwnKey
  <2>2. Between(w, e)
    BY <1>1, <1>2, <1>5, <2>1 DEF Between
  <2> QED
    BY <1>3, <1>4, <2>1, <2>2 DEF OwnKey, v, w
<1>6. CASE a # "none"
  <2>1. h.pc = "update" /\ h.ts = c
    BY <1>6
  <2> HIDE DEF h
  <2>2. Within(c, a, w, h, e)
    BY <1>1, <1>6, <2>1 DEF Within
  <2>3. e # None => e.start <= c
    BY DEF OwnKey
  <2>4. OwnKey(c, a, v, h, e)
    BY <1>3, <1>4, <1>6, <2>1, <2>2, <2>3 DEF OwnKey
  <2> QED
    BY <2>4 DEF v, w, h
<1> QED
  BY <1>5, <1>6

\* Its start time is stored.
LEMMA OwnStore ==
    ASSUME NEW c \in Times, NEW a \in Attached, NEW ws \in Seq(Wait), NEW h \in Handler,
           NEW e \in StartTime \cup {None}, OwnKey(c, a, ws, h, e), h.pc = "update",
           NEW f \in StartTime, f.start = h.ts
    PROVE  OwnKey(c, a, Intact(ws), NotRunning, f)
<1> DEFINE v == Intact(ws)
           l == ws[Len(ws)]
<1>1. ws # <<>> /\ Within(c, a, l, h, e) /\ WaitsInv(c, a, ws)
  BY DEF OwnKey
<1>2. WaitsInv(c, a, v) /\ v[Len(v)].begin = l.begin /\ v[Len(v)].intact /\ v # <<>>
  BY <1>1, WaitsIntact, IntactWaits
<1>3. f.start = l.begin /\ a # "none" /\ l.begin \in Int
  <2>1. l \in Wait
    BY <1>1, LastWait
  <2> QED
    BY <1>1, <2>1 DEF Within, Wait, Times
<1>4. l.begin <= c
  BY <1>1, LastWait DEF WaitsInv
<1>5. f # None
  BY ProbesAssumption DEF StartTime, Times
<1> HIDE DEF v, l
<1>6. Between(v[Len(v)], f)
  BY <1>2, <1>3, <1>5 DEF Between
<1> QED
  BY <1>2, <1>3, <1>4, <1>5, <1>6, NotRunningType DEF OwnKey, v

\* The map was full, and there was no entry.
LEMMA OwnNoRoom ==
    ASSUME NEW c \in Times, NEW a \in Attached, NEW ws \in Seq(Wait), NEW h \in Handler,
           OwnKey(c, a, ws, h, None), h.pc = "update"
    PROVE  OwnKey(c, a, ws, NotRunning, None)
BY NotRunningType DEF OwnKey, Within, Between

\* The wait ends and its start time is found.
LEMMA OwnFound ==
    ASSUME NEW c \in Times, NEW ws \in Seq(Wait), ws # <<>>, NEW e \in StartTime,
           OwnKey(c, "both", ws, NotRunning, e)
    PROVE  OwnKey(c, "both", ws, [pc |-> "now", memory |-> {e.start}, freed |-> FALSE], e)
<1> DEFINE h == [pc |-> "now", memory |-> {e.start}, freed |-> FALSE]
           l == ws[Len(ws)]
<1>1. h.pc = "now" /\ h.memory = {e.start} /\ ~h.freed
  OBVIOUS
<1>2. Between(l, e) /\ e # None
  BY NotRunningType, ProbesAssumption DEF OwnKey, StartTime, Times
<1> HIDE DEF h
<1>3. Within(c, "both", l, h, e)
  BY <1>1, <1>2 DEF Between, Within
<1>4. OwnKey(c, "both", ws, h, e)
  BY <1>1, <1>3 DEF OwnKey
<1> QED
  BY <1>4 DEF h

\* The wait ends unseen: no probe, or no start time.
LEMMA OwnUnseen ==
    ASSUME NEW c \in Times, NEW a \in Attached, NEW ws \in Seq(Wait), ws # <<>>,
           NEW e \in StartTime \cup {None}, OwnKey(c, a, ws, NotRunning, e),
           a # "both" \/ e = None
    PROVE  OwnKey(c, a, Pop(ws), NotRunning, e)
<1> DEFINE v == Pop(ws)
           m == v[Len(v)]
           l == ws[Len(ws)]
<1>1. WaitsInv(c, a, ws) /\ Between(l, e) /\ (e # None => e.start <= c /\ a # "none")
  BY NotRunningType DEF OwnKey
<1>2. WaitsInv(c, a, v)
  BY <1>1, WaitsPop
<1>3. v # <<>> => m \in Wait /\ m.begin <= l.begin /\ ~m.intact /\ (m.covered => a = "both")
  BY <1>1, WaitsPop
<1>4. l.begin \in Int /\ (v # <<>> => m.begin \in Int) /\ (e # None => e.start \in Int)
  <2>1. l \in Wait
    BY LastWait
  <2> QED
    BY <1>3, <2>1 DEF Wait, Times, StartTime
<1> HIDE DEF v, m, l
<1>5. v # <<>> => Between(m, e)
  BY <1>1, <1>3, <1>4 DEF Between
<1> QED
  BY <1>1, <1>2, <1>5, NotRunningType DEF OwnKey, v, m

\* The handler of the end reads the clock.
LEMMA OwnNow ==
    ASSUME NEW c \in Times, NEW a \in Attached, NEW ws \in Seq(Wait), NEW h \in Handler,
           NEW e \in StartTime \cup {None}, OwnKey(c, a, ws, h, e), h.pc = "now"
    PROVE  OwnKey(c, a, ws,
                  [pc |-> "read", memory |-> h.memory, freed |-> h.freed, now |-> c], e)
<1> DEFINE g == [pc |-> "read", memory |-> h.memory, freed |-> h.freed, now |-> c]
<1>1. g.pc = "read" /\ g.memory = h.memory /\ g.freed = h.freed /\ g.now = c
  OBVIOUS
<1>2. c \in Int
  BY DEF Times
<1> HIDE DEF g
<1>3. Within(c, a, ws[Len(ws)], g, e)
  BY <1>1, <1>2 DEF OwnKey, Within
<1>4. OwnKey(c, a, ws, g, e)
  BY <1>1, <1>3 DEF OwnKey
<1> QED
  BY <1>4 DEF g

\* It computes the duration, which does not wrap around.
LEMMA OwnRead ==
    ASSUME NEW c \in Times, NEW a \in Attached, NEW ws \in Seq(Wait), NEW h \in Handler,
           NEW e \in StartTime \cup {None}, OwnKey(c, a, ws, h, e), h.pc = "read",
           NEW start \in h.memory
    PROVE  OwnKey(c, a, ws,
                  [pc |-> "delete", now |-> h.now, duration |-> (h.now - start) % Modulus], e)
<1> DEFINE g == [pc |-> "delete", now |-> h.now, duration |-> (h.now - start) % Modulus]
           l == ws[Len(ws)]
<1>1. /\ g.pc = "delete" /\ g.now = h.now /\ g.duration = (h.now - start) % Modulus
  OBVIOUS
<1>2. ws # <<>> /\ Within(c, a, l, h, e)
  BY DEF OwnKey
<1>3. l.begin \in Int /\ h.now \in Times /\ e \in StartTime
  <2>1. l \in Wait
    BY <1>2, LastWait
  <2>2. l.begin \in Int
    BY <2>1 DEF Wait, Times
  <2> QED
    BY <1>2, <2>2, HandlerFields DEF Within
<1>4. start = e.start /\ start >= l.begin /\ start <= h.now /\ start \in Times
  BY <1>2, <1>3 DEF Within, StartTime
<1>5. (h.now - start) % Modulus = h.now - start
  <2>1. h.now - start \in Nat /\ Modulus \in Nat /\ h.now - start < Modulus
    BY <1>3, <1>4, ProbesAssumption DEF Times
  <2> QED
    BY <2>1, NoWrap
<1> HIDE DEF g, l
<1>6. g.duration \in 0 .. g.now - l.begin /\ (l.covered => g.duration = g.now - l.begin)
  BY <1>1, <1>2, <1>3, <1>4, <1>5 DEF Within, Times
<1>7. Within(c, a, l, g, e)
  BY <1>1, <1>2, <1>6 DEF Within
<1>8. OwnKey(c, a, ws, g, e)
  BY <1>1, <1>2, <1>7 DEF OwnKey, l
<1> QED
  BY <1>8 DEF g

\* It deletes the entry.
LEMMA OwnDelete ==
    ASSUME NEW c \in Times, NEW a \in Attached, NEW ws \in Seq(Wait), NEW h \in Handler,
           NEW e \in StartTime \cup {None}, OwnKey(c, a, ws, h, e), h.pc = "delete"
    PROVE  OwnKey(c, a, ws, [h EXCEPT !.pc = "emit"], None)
<1> DEFINE g == [h EXCEPT !.pc = "emit"]
<1>1. g.pc = "emit" /\ g.now = h.now /\ g.duration = h.duration
  BY DEF Handler
<1> HIDE DEF g
<1>2. Within(c, a, ws[Len(ws)], g, None)
  BY <1>1 DEF OwnKey, Within
<1>3. OwnKey(c, a, ws, g, None)
  BY <1>1, <1>2 DEF OwnKey
<1> QED
  BY <1>3 DEF g

\* It returns: the wait is over, and there is no entry.
LEMMA OwnEmit ==
    ASSUME NEW c \in Times, NEW a \in Attached, NEW ws \in Seq(Wait), NEW h \in Handler,
           NEW e \in StartTime \cup {None}, OwnKey(c, a, ws, h, e), h.pc = "emit"
    PROVE  e = None /\ OwnKey(c, a, Pop(ws), NotRunning, e)
<1>1. ws # <<>> /\ WaitsInv(c, a, ws) /\ e = None
  BY DEF OwnKey, Within
<1>2. /\ WaitsInv(c, a, Pop(ws))
      /\ Pop(ws) # <<>> => ~Pop(ws)[Len(Pop(ws))].intact
  BY <1>1, WaitsPop
<1> QED
  BY <1>1, <1>2, NotRunningType DEF OwnKey, Between

-----------------------------------------------------------------------------
(* The invariant is inductive. *)

\* The steps of one thread.
Step(u) ==
    \/ handle_page_fault(u) \/ handle_sched_switch(u) \/ handle_cache_miss(u)
    \/ contention_begin(u) \/ handle_contention_begin(u)
    \/ contention_end(u) \/ handle_contention_end(u)

\* No other thread has the key of a workload's thread.
LEMMA KeyOfItsOwn ==
    ASSUME NEW t \in Threads \ Idle
    PROVE  /\ t \in Keys /\ Key(t) = t
           /\ \A u \in Threads : u # t => Key(u) # t
BY ProbesAssumption DEF Key, Keys

\* The state of one thread with a key of its own, typed.
LEMMA OwnType ==
    ASSUME TypeInv, NEW t \in Threads \ Idle
    PROVE  /\ clock \in Times /\ attached \in Attached
           /\ waits[t] \in Seq(Wait) /\ handler[t] \in Handler
           /\ lock_starts[t] \in StartTime \cup {None}
BY KeyOfItsOwn DEF TypeInv, Attached

\* A step that leaves the thread, its handler and its entry alone.
LEMMA OwnFrame ==
    ASSUME TypeInv, NEW t \in Threads \ Idle, Own(t),
           clock' \in Times, clock <= clock',
           attached' \in Attached,
           attached # "none" => attached' # "none", attached = "both" => attached' = "both",
           waits'[t] = waits[t], handler'[t] = handler[t], lock_starts'[t] = lock_starts[t]
    PROVE  Own(t)'
<1>1. OwnKey(clock', attached', waits[t], handler[t], lock_starts[t])
  BY OwnType, OwnLater DEF Own
<1> QED
  BY <1>1 DEF Own

\* A step of another thread.
LEMMA OwnOther ==
    ASSUME TypeInv, NEW t \in Threads \ Idle, Own(t), NEW u \in Threads, u # t, Step(u)
    PROVE  Own(t)'
<1>1. handler[t].pc \in {"now", "read"} => ~handler[t].freed
  <2>1. handler[t].pc \in {"now", "read"} => Within(clock, attached, waits[t][Len(waits[t])],
                                                    handler[t], lock_starts[t])
    BY DEF Own, OwnKey
  <2> QED
    BY <2>1 DEF Within
<1>2. Key(u) # t /\ Key(t) = t /\ Key(u) \in Keys
  BY KeyOfItsOwn, KeyType
<1>3. \A stored : Pointer(t, Key(u), stored) = handler[t]
  BY <1>1, <1>2, PointerOfOthers
<1>4. UNCHANGED <<clock, attached>>
  BY DEF Step, handle_page_fault, handle_sched_switch, handle_cache_miss, contention_begin,
         handle_contention_begin, contention_end, handle_contention_end, EndNow, EndRead,
         EndDelete, EndEmit
<1>5. waits'[t] = waits[t] /\ lock_starts'[t] = lock_starts[t] /\ handler'[t] = handler[t]
  <2>1. CASE handle_page_fault(u) \/ handle_sched_switch(u) \/ handle_cache_miss(u)
    BY <2>1 DEF handle_page_fault, handle_sched_switch, handle_cache_miss
  <2>2. CASE contention_begin(u)
    BY <2>2 DEF contention_begin, TypeInv
  <2>3. CASE handle_contention_begin(u)
    <3>1. CASE HasRoom(Key(u))
      <4>1. handler' = [v \in Threads |-> IF v = u THEN NotRunning
                                          ELSE Pointer(v, Key(u), {handler[u].ts})]
        BY <2>3, <3>1 DEF handle_contention_begin
      <4>2. handler'[t] = handler[t]
        BY <1>3, <4>1
      <4>3. waits'[t] = waits[t] /\ lock_starts'[t] = lock_starts[t]
        BY <1>2, <2>3, <3>1, KeyOfItsOwn DEF handle_contention_begin, TypeInv
      <4> QED
        BY <4>2, <4>3
    <3>2. CASE ~HasRoom(Key(u))
      BY <2>3, <3>2 DEF handle_contention_begin, TypeInv
    <3> QED
      BY <3>1, <3>2
  <2>4. CASE contention_end(u)
    BY <2>4 DEF contention_end, TypeInv
  <2>5. CASE EndNow(u) \/ EndRead(u)
    BY <2>5 DEF EndNow, EndRead, TypeInv
  <2>6. CASE EndDelete(u)
    BY <1>2, <1>3, <2>6 DEF EndDelete, TypeInv
  <2>7. CASE EndEmit(u)
    BY <2>7 DEF EndEmit, TypeInv
  <2> QED
    BY <2>1, <2>2, <2>3, <2>4, <2>5, <2>6, <2>7 DEF Step, handle_contention_end
<1> QED
  BY <1>4, <1>5, OwnType, OwnFrame DEF Times

\* A step of the thread itself.
LEMMA OwnSelf ==
    ASSUME TypeInv, NEW t \in Threads \ Idle, Own(t), Step(t)
    PROVE  Own(t)'
<1> DEFINE c == clock
           a == attached
           ws == waits[t]
           h == handler[t]
           e == lock_starts[t]
<1>1. /\ c \in Times /\ a \in Attached /\ ws \in Seq(Wait) /\ h \in Handler
      /\ e \in StartTime \cup {None}
      /\ OwnKey(c, a, ws, h, e)
  BY OwnType DEF Own
<1>2. t \in Keys /\ Key(t) = t
  BY KeyOfItsOwn
<1>3. waits \in [Threads -> Seq(Wait)] /\ handler \in [Threads -> Handler]
      /\ lock_starts \in [Keys -> StartTime \cup {None}]
  BY DEF TypeInv
<1>4. CASE handle_page_fault(t) \/ handle_sched_switch(t) \/ handle_cache_miss(t)
  BY <1>4 DEF handle_page_fault, handle_sched_switch, handle_cache_miss, Own
<1>5. CASE contention_begin(t)
  <2> DEFINE w == [begin |-> c, covered |-> a = "both", intact |-> FALSE]
  <2>1. h = NotRunning
    BY <1>5 DEF contention_begin
  <2>2. waits'[t] = Pushed(ws, w)
    BY <1>3, <1>5 DEF contention_begin, Pushed
  <2>3. handler'[t] = IF a = "none" THEN NotRunning ELSE [pc |-> "update", ts |-> c]
    BY <1>3, <1>5, <2>1 DEF contention_begin
  <2>4. clock' = c /\ attached' = a /\ lock_starts'[t] = e
    BY <1>5 DEF contention_begin
  <2>5. OwnKey(c, a, Pushed(ws, w),
               IF a = "none" THEN NotRunning ELSE [pc |-> "update", ts |-> c], e)
    BY <1>1, <2>1, OwnBegin
  <2> HIDE DEF w
  <2> QED
    BY <2>2, <2>3, <2>4, <2>5, Zenon DEF Own
<1>6. CASE handle_contention_begin(t)
  <2>1. h.pc = "update" /\ clock' = c /\ attached' = a
    BY <1>6 DEF handle_contention_begin
  <2>2. CASE HasRoom(t)
    <3>1. waits'[t] = Intact(ws)
      BY <1>2, <1>3, <1>6, <2>2 DEF handle_contention_begin, Intact
    <3>2. handler'[t] = NotRunning /\ lock_starts'[t] = Start(t)
      BY <1>2, <1>3, <1>6, <2>2 DEF handle_contention_begin
    <3>3. Start(t) \in StartTime /\ Start(t).start = h.ts
      <4>1. ws # <<>> /\ Innermost(t) = ws[Len(ws)]
        BY <1>1, <2>1 DEF OwnKey, Innermost
      <4>2. Innermost(t) \in Wait /\ h.ts \in Times
        BY <1>1, <2>1, <4>1, LastWait, HandlerFields
      <4> QED
        BY <4>2 DEF Start, StartTime, Wait
    <3>4. OwnKey(c, a, Intact(ws), NotRunning, Start(t))
      BY <1>1, <2>1, <3>3, OwnStore
    <3> QED
      BY <2>1, <3>1, <3>2, <3>4, Zenon DEF Own
  <2>3. CASE ~HasRoom(t)
    <3>1. waits'[t] = ws /\ handler'[t] = NotRunning /\ lock_starts'[t] = e
      BY <1>2, <1>3, <1>6, <2>3 DEF handle_contention_begin
    <3>2. e = None
      BY <2>3 DEF HasRoom
    <3>3. OwnKey(c, a, ws, NotRunning, e)
      BY <1>1, <2>1, <3>2, OwnNoRoom
    <3> QED
      BY <2>1, <3>1, <3>3, Zenon DEF Own
  <2> QED
    BY <2>2, <2>3
<1>7. CASE contention_end(t)
  <2>1. h = NotRunning /\ ws # <<>> /\ clock' = c /\ attached' = a /\ lock_starts'[t] = e
    BY <1>7 DEF contention_end
  <2>2. CASE a = "both" /\ e # None
    <3>1. /\ waits'[t] = ws
          /\ handler'[t] = [pc |-> "now", memory |-> {e.start}, freed |-> FALSE]
      BY <1>2, <1>3, <1>7, <2>2 DEF contention_end
    <3>2. OwnKey(c, "both", ws, [pc |-> "now", memory |-> {e.start}, freed |-> FALSE], e)
      BY <1>1, <2>1, <2>2, OwnFound
    <3> QED
      BY <2>1, <2>2, <3>1, <3>2, Zenon DEF Own
  <2>3. CASE ~(a = "both" /\ e # None)
    <3>1. waits'[t] = Pop(ws) /\ handler'[t] = NotRunning
      BY <1>2, <1>3, <1>7, <2>1, <2>3 DEF contention_end
    <3>2. OwnKey(c, a, Pop(ws), NotRunning, e)
      BY <1>1, <2>1, <2>3, OwnUnseen
    <3> QED
      BY <2>1, <3>1, <3>2, Zenon DEF Own
  <2> QED
    BY <2>2, <2>3
<1>8. CASE EndNow(t)
  <2>1. /\ h.pc = "now" /\ clock' = c /\ attached' = a
        /\ waits'[t] = ws /\ lock_starts'[t] = e
        /\ handler'[t] = [pc |-> "read", memory |-> h.memory, freed |-> h.freed, now |-> c]
    BY <1>3, <1>8 DEF EndNow
  <2>2. OwnKey(c, a, ws, [pc |-> "read", memory |-> h.memory, freed |-> h.freed, now |-> c], e)
    BY <1>1, <2>1, OwnNow
  <2> QED
    BY <2>1, <2>2, Zenon DEF Own
<1>9. CASE EndRead(t)
  <2>1. /\ h.pc = "read" /\ clock' = c /\ attached' = a
        /\ waits'[t] = ws /\ lock_starts'[t] = e
    BY <1>9 DEF EndRead
  <2>2. PICK start \in h.memory :
           handler'[t] = [pc |-> "delete", now |-> h.now,
                          duration |-> (h.now - start) % Modulus]
    BY <1>3, <1>9 DEF EndRead
  <2>3. OwnKey(c, a, ws, [pc |-> "delete", now |-> h.now,
                          duration |-> (h.now - start) % Modulus], e)
    BY <1>1, <2>1, OwnRead
  <2> QED
    BY <2>1, <2>2, <2>3, Zenon DEF Own
<1>10. CASE EndDelete(t)
  <2>1. /\ h.pc = "delete" /\ clock' = c /\ attached' = a /\ waits'[t] = ws
        /\ lock_starts'[t] = None /\ handler'[t] = [h EXCEPT !.pc = "emit"]
    BY <1>2, <1>3, <1>10 DEF EndDelete
  <2>2. OwnKey(c, a, ws, [h EXCEPT !.pc = "emit"], None)
    BY <1>1, <2>1, OwnDelete
  <2> QED
    BY <2>1, <2>2, Zenon DEF Own
<1>11. CASE EndEmit(t)
  <2>1. /\ h.pc = "emit" /\ clock' = c /\ attached' = a /\ lock_starts'[t] = e
        /\ waits'[t] = Pop(ws) /\ handler'[t] = NotRunning
    BY <1>3, <1>11 DEF EndEmit
  <2>2. OwnKey(c, a, Pop(ws), NotRunning, e)
    BY <1>1, <2>1, OwnEmit
  <2> QED
    BY <2>1, <2>2, Zenon DEF Own
<1> QED
  BY <1>4, <1>5, <1>6, <1>7, <1>8, <1>9, <1>10, <1>11
     DEF Step, handle_contention_end

\* Every step keeps what is invariant about each thread that is not idle.
LEMMA OwnNext ==
    ASSUME TypeInv, TypeInv', [Next]_vars, NEW t \in Threads \ Idle, Own(t)
    PROVE  Own(t)'
<1>1. clock \in Int /\ attached \in Attached /\ clock' \in Times /\ attached' \in Attached
  BY DEF TypeInv, Attached, Times
<1>2. ASSUME NEW u \in Threads, Step(u)
      PROVE  Own(t)'
  <2>1. CASE u = t
    BY <1>2, <2>1, OwnSelf
  <2>2. CASE u # t
    BY <1>2, <2>2, OwnOther
  <2> QED
    BY <2>1, <2>2
<1>3. CASE Read
  BY <1>3 DEF Read, Own
<1>4. CASE Attach
  BY <1>1, <1>4, OwnFrame DEF Attach, Attached
<1>5. CASE Tick
  BY <1>1, <1>5, OwnFrame DEF Tick
<1>6. CASE UNCHANGED vars
  BY <1>6 DEF vars, Own
<1> QED
  BY <1>2, <1>3, <1>4, <1>5, <1>6 DEF Next, Step

\* To the other threads they do no more than free what their pointer points to.
LEMMA OthersKeep ==
    ASSUME TypeInv, NEW u \in Threads, Step(u), NEW v \in Threads, v # u
    PROVE  waits'[v] = waits[v] /\ handler'[v].pc = handler[v].pc
<1>1. CASE handle_page_fault(u) \/ handle_sched_switch(u) \/ handle_cache_miss(u)
  BY <1>1 DEF handle_page_fault, handle_sched_switch, handle_cache_miss
<1>2. CASE contention_begin(u)
  BY <1>2 DEF contention_begin, TypeInv
<1>3. CASE handle_contention_begin(u)
  <2>1. CASE HasRoom(Key(u))
    <3>1. handler' = [w \in Threads |-> IF w = u THEN NotRunning
                                        ELSE Pointer(w, Key(u), {handler[u].ts})]
      BY <1>3, <2>1 DEF handle_contention_begin
    <3>2. {handler[u].ts} \in SUBSET Times /\ Key(u) \in Keys
      BY <1>3, HandlerFields, KeyType DEF handle_contention_begin, TypeInv
    <3>3. Pointer(v, Key(u), {handler[u].ts}).pc = handler[v].pc
      BY <3>2, PointerType
    <3>4. waits'[v] = waits[v]
      BY <1>3, <2>1 DEF handle_contention_begin, TypeInv
    <3> QED
      BY <3>1, <3>3, <3>4
  <2>2. CASE ~HasRoom(Key(u))
    BY <1>3, <2>2 DEF handle_contention_begin, TypeInv
  <2> QED
    BY <2>1, <2>2
<1>4. CASE contention_end(u)
  BY <1>4 DEF contention_end, TypeInv
<1>5. CASE EndNow(u) \/ EndRead(u)
  BY <1>5 DEF EndNow, EndRead, TypeInv
<1>6. CASE EndDelete(u)
  <2>1. Pointer(v, Key(u), {}).pc = handler[v].pc
    BY KeyType, PointerType
  <2> QED
    BY <1>6, <2>1 DEF EndDelete
<1>7. CASE EndEmit(u)
  BY <1>7 DEF EndEmit, TypeInv
<1> QED
  BY <1>1, <1>2, <1>3, <1>4, <1>5, <1>6, <1>7 DEF Step, handle_contention_end

\* What they do to the waits and the handler of the thread itself.
LEMMA SelfKeeps ==
    ASSUME TypeInv, HandlersWait, NEW u \in Threads, Step(u), CoveredBoth(u)
    PROVE  /\ handler'[u].pc # "none" => waits'[u] # <<>>
           /\ CoveredBoth(u)'
           /\ Len(waits[u]) <= Nesting[u] => Len(waits'[u]) <= Nesting[u]
<1> DEFINE ws == waits[u]
<1>1. /\ ws \in Seq(Wait) /\ Len(ws) \in Nat /\ Nesting[u] \in Nat
      /\ waits \in [Threads -> Seq(Wait)] /\ handler \in [Threads -> Handler]
      /\ handler[u].pc # "none" => ws # <<>>
  BY ProbesAssumption DEF TypeInv, HandlersWait
<1>2. CASE handle_page_fault(u) \/ handle_sched_switch(u) \/ handle_cache_miss(u)
  BY <1>1, <1>2 DEF handle_page_fault, handle_sched_switch, handle_cache_miss, CoveredBoth
<1>3. CASE contention_begin(u)
  <2> DEFINE w == [begin |-> clock, covered |-> attached = "both", intact |-> FALSE]
             v == Pushed(ws, w)
  <2>1. w \in Wait /\ (w.covered => attached = "both")
    BY DEF TypeInv, Wait
  <2>2. /\ v \in Seq(Wait) /\ Len(v) = Len(ws) + 1 /\ v # <<>> /\ v[Len(ws) + 1] = w
        /\ \A i \in 1 .. Len(ws) : v[i] = [ws[i] EXCEPT !.intact = FALSE]
    <3> HIDE DEF w, ws
    <3> QED
      BY <1>1, <2>1, PushedWaits
  <2>3. waits'[u] = v /\ attached' = attached /\ Len(ws) < Nesting[u]
    <3>1. waits' = [waits EXCEPT ![u] = v] /\ attached' = attached /\ Len(ws) < Nesting[u]
      BY <1>3 DEF contention_begin, Pushed
    <3> HIDE DEF v
    <3> QED
      BY <1>1, <3>1
  <2> HIDE DEF v, w
  <2>4. ASSUME NEW i \in 1 .. Len(v), v[i].covered
        PROVE  attached = "both"
    <3>1. CASE i \in 1 .. Len(ws)
      <4>1. ws[i] \in Wait /\ v[i] = [ws[i] EXCEPT !.intact = FALSE]
        BY <1>1, <2>2, <3>1, WaitBegins
      <4>2. v[i].covered = ws[i].covered
        BY <4>1 DEF Wait
      <4> QED
        BY <2>4, <3>1, <4>2 DEF CoveredBoth
    <3>2. CASE i = Len(ws) + 1
      BY <2>1, <2>2, <2>4, <3>2
    <3> QED
      BY <1>1, <2>2, <3>1, <3>2
  <2> QED
    BY <1>1, <2>2, <2>3, <2>4 DEF CoveredBoth
<1>4. CASE handle_contention_begin(u)
  <2>1. ws # <<>> /\ attached' = attached
    BY <1>1, <1>4 DEF handle_contention_begin
  <2>2. CASE HasRoom(Key(u))
    <3> DEFINE v == Intact(ws)
    <3>1. waits'[u] = v
      BY <1>1, <1>4, <2>2 DEF handle_contention_begin, Intact
    <3>2. /\ Len(v) = Len(ws) /\ v # <<>>
          /\ v[Len(ws)] = [ws[Len(ws)] EXCEPT !.intact = TRUE]
          /\ \A i \in 1 .. Len(ws) - 1 : v[i] = ws[i]
      BY <1>1, <2>1, IntactWaits
    <3>3. ws[Len(ws)] \in Wait /\ Len(ws) \in Nat \ {0}
      BY <1>1, <2>1, LastWait
    <3> HIDE DEF v
    <3>4. v[Len(ws)].covered = ws[Len(ws)].covered
      BY <3>2, <3>3 DEF Wait
    <3>5. ASSUME NEW i \in 1 .. Len(v), v[i].covered
          PROVE  attached = "both"
      <4>1. CASE i = Len(ws)
        BY <3>3, <3>4, <3>5, <4>1 DEF CoveredBoth
      <4>2. CASE i \in 1 .. Len(ws) - 1
        <5>1. v[i] = ws[i] /\ i \in 1 .. Len(ws)
          BY <3>2, <3>3, <4>2
        <5> QED
          BY <3>5, <5>1 DEF CoveredBoth
      <4> QED
        BY <3>2, <3>3, <4>1, <4>2
    <3> QED
      BY <2>1, <3>1, <3>2, <3>5 DEF CoveredBoth
  <2>3. CASE ~HasRoom(Key(u))
    BY <1>1, <1>4, <2>1, <2>3 DEF handle_contention_begin, CoveredBoth
  <2> QED
    BY <2>2, <2>3
<1>5. ASSUME ws # <<>>, waits'[u] = Pop(ws), handler'[u] = NotRunning, attached' = attached
      PROVE  /\ handler'[u].pc # "none" => waits'[u] # <<>>
             /\ CoveredBoth(u)'
             /\ Len(waits[u]) <= Nesting[u] => Len(waits'[u]) <= Nesting[u]
  <2> DEFINE v == Pop(ws)
  <2>1. /\ Len(ws) \in Nat \ {0} /\ Len(v) = Len(ws) - 1
        /\ \A i \in 1 .. Len(ws) - 1 : v[i] = ws[i]
    BY <1>1, <1>5, LastWait
  <2> HIDE DEF v
  <2>2. ASSUME NEW i \in 1 .. Len(v), v[i].covered
        PROVE  attached = "both"
    <3>1. i \in 1 .. Len(ws) - 1 /\ i \in 1 .. Len(ws)
      BY <2>1
    <3>2. ws[i].covered
      BY <2>1, <2>2, <3>1
    <3> QED
      BY <3>1, <3>2 DEF CoveredBoth
  <2>3. waits'[u] = v
    BY <1>5 DEF v
  <2> QED
    BY <1>1, <1>5, <2>1, <2>2, <2>3, NotRunningType DEF CoveredBoth
<1>6. CASE contention_end(u)
  <2>1. CASE attached = "both" /\ lock_starts[Key(u)] # None
    BY <1>1, <1>6, <2>1 DEF contention_end, CoveredBoth
  <2>2. CASE ~(attached = "both" /\ lock_starts[Key(u)] # None)
    BY <1>1, <1>5, <1>6, <2>2 DEF contention_end
  <2> QED
    BY <2>1, <2>2
<1>7. CASE EndNow(u) \/ EndRead(u) \/ EndDelete(u)
  BY <1>1, <1>7 DEF EndNow, EndRead, EndDelete, CoveredBoth
<1>8. CASE EndEmit(u)
  BY <1>1, <1>5, <1>8 DEF EndEmit
<1> QED
  BY <1>2, <1>3, <1>4, <1>6, <1>7, <1>8 DEF Step, handle_contention_end

\* Every step keeps what relates waits, handlers and the nesting limit.
LEMMA WaitsNext ==
    ASSUME TypeInv, HandlersWait, [Next]_vars,
           \A t \in Threads : CoveredBoth(t),
           \A t \in Threads : Len(waits[t]) <= Nesting[t]
    PROVE  /\ HandlersWait'
           /\ \A t \in Threads : CoveredBoth(t)'
           /\ \A t \in Threads : Len(waits'[t]) <= Nesting[t]
<1>1. ASSUME NEW u \in Threads, Step(u), NEW t \in Threads
      PROVE  /\ handler'[t].pc # "none" => waits'[t] # <<>>
             /\ CoveredBoth(t)'
             /\ Len(waits'[t]) <= Nesting[t]
  <2>1. CASE t = u
    BY <1>1, <2>1, SelfKeeps
  <2>2. CASE t # u
    <3>1. waits'[t] = waits[t] /\ handler'[t].pc = handler[t].pc
      BY <1>1, <2>2, OthersKeep
    <3>2. attached' = attached
      BY <1>1 DEF Step, handle_page_fault, handle_sched_switch, handle_cache_miss,
                  contention_begin, handle_contention_begin, contention_end,
                  handle_contention_end, EndNow, EndRead, EndDelete, EndEmit
    <3> QED
      BY <3>1, <3>2 DEF HandlersWait, CoveredBoth
  <2> QED
    BY <2>1, <2>2
<1>2. CASE Read \/ Attach \/ Tick \/ UNCHANGED vars
  BY <1>2 DEF Read, Attach, Tick, vars, HandlersWait, CoveredBoth
<1> QED
  BY <1>1, <1>2 DEF Next, Step, HandlersWait

\* An entry's owner: nothing but the owner's own steps ends the owner's wait.
LEMMA EntryInUseNext ==
    ASSUME TypeInv, HandlersWait, [Next]_vars,
           \A t \in Threads : CoveredBoth(t),
           \A k \in Keys : EntryInUse(k),
           NEW k \in Keys
    PROVE  EntryInUse(k)'
<1> DEFINE e == lock_starts[k]
           b == e.by
<1>1. /\ waits \in [Threads -> Seq(Wait)] /\ handler \in [Threads -> Handler]
      /\ lock_starts \in [Keys -> StartTime \cup {None}]
      /\ e # None => e \in StartTime /\ b \in Threads
  BY DEF TypeInv, StartTime
<1>2. e # None => /\ Key(b) = k
                  /\ e.paired => attached = "both" /\ waits[b] # <<>> /\ handler[b].pc # "emit"
  BY DEF EntryInUse
<1>3. ASSUME NEW u \in Threads, Step(u)
      PROVE  EntryInUse(k)'
  <2>1. attached' = attached
    BY <1>3 DEF Step, handle_page_fault, handle_sched_switch, handle_cache_miss,
                contention_begin, handle_contention_begin, contention_end,
                handle_contention_end, EndNow, EndRead, EndDelete, EndEmit
  <2>2. \A v \in Threads : v # u => waits'[v] = waits[v] /\ handler'[v].pc = handler[v].pc
    BY <1>3, OthersKeep
  <2>3. lock_starts'[k] = e /\ (e # None /\ b # u) => EntryInUse(k)'
    BY <1>1, <1>2, <2>1, <2>2 DEF EntryInUse
  <2>4. lock_starts'[k] = e /\ e # None /\ b = u /\ waits'[u] # <<>> /\ handler'[u].pc # "emit"
           => EntryInUse(k)'
    BY <1>1, <1>2, <2>1 DEF EntryInUse
  <2>5. lock_starts'[k] = None => EntryInUse(k)'
    BY DEF EntryInUse
  <2>6. CASE handle_page_fault(u) \/ handle_sched_switch(u) \/ handle_cache_miss(u)
    BY <1>2, <2>6 DEF handle_page_fault, handle_sched_switch, handle_cache_miss, EntryInUse
  <2>7. CASE contention_begin(u)
    <3> DEFINE w == [begin |-> clock, covered |-> attached = "both", intact |-> FALSE]
    <3>1. w \in Wait /\ waits'[u] = Pushed(waits[u], w) /\ lock_starts'[k] = e
      BY <1>1, <2>7 DEF contention_begin, Pushed, TypeInv, Wait
    <3>2. waits'[u] # <<>>
      BY <1>1, <3>1, PushedWaits
    <3>3. handler'[u].pc # "emit"
      BY <1>1, <2>7, NotRunningType DEF contention_begin
    <3> QED
      BY <2>3, <2>4, <2>5, <3>1, <3>2, <3>3
  <2>8. CASE handle_contention_begin(u)
    <3>1. waits[u] # <<>> /\ waits[u] \in Seq(Wait)
      BY <1>1, <2>8 DEF handle_contention_begin, HandlersWait
    <3>2. CASE HasRoom(Key(u))
      <4>1. waits'[u] = Intact(waits[u]) /\ handler'[u] = NotRunning
        BY <1>1, <2>8, <3>2 DEF handle_contention_begin, Intact
      <4>2. waits'[u] # <<>> /\ handler'[u].pc # "emit"
        BY <3>1, <4>1, IntactWaits, NotRunningType
      <4>3. CASE Key(u) = k
        <5>1. lock_starts'[k] = Start(u)
          BY <1>1, <2>8, <3>2, <4>3 DEF handle_contention_begin
        <5>2. Start(u).by = u /\ Start(u).paired = waits[u][Len(waits[u])].covered
          BY DEF Start, Innermost
        <5>3. Start(u).paired => attached = "both"
          <6>1. Len(waits[u]) \in 1 .. Len(waits[u])
            BY <3>1
          <6> QED
            BY <5>2, <6>1 DEF CoveredBoth
        <5> QED
          BY <2>1, <4>2, <4>3, <5>1, <5>2, <5>3 DEF EntryInUse
      <4>4. CASE Key(u) # k
        <5>1. lock_starts'[k] = e
          BY <1>1, <2>8, <3>2, <4>4 DEF handle_contention_begin
        <5> QED
          BY <2>3, <2>4, <2>5, <4>2, <5>1
      <4> QED
        BY <4>3, <4>4
    <3>3. CASE ~HasRoom(Key(u))
      <4>1. waits'[u] # <<>> /\ handler'[u].pc # "emit" /\ lock_starts'[k] = e
        BY <1>1, <2>8, <3>1, <3>3, NotRunningType DEF handle_contention_begin
      <4> QED
        BY <2>3, <2>4, <2>5, <4>1
    <3> QED
      BY <3>2, <3>3
  <2>9. CASE contention_end(u)
    <3>1. lock_starts'[k] = e /\ waits[u] # <<>> /\ handler[u] = NotRunning
      BY <2>9 DEF contention_end
    <3>2. CASE attached = "both" /\ lock_starts[Key(u)] # None
      <4>1. waits'[u] # <<>> /\ handler'[u].pc # "emit"
        BY <1>1, <2>9, <3>2 DEF contention_end
      <4> QED
        BY <2>3, <2>4, <2>5, <3>1, <4>1
    <3>3. CASE ~(attached = "both" /\ lock_starts[Key(u)] # None)
      <4>1. e # None /\ b = u => ~e.paired
        BY <1>2, <3>3
      <4> QED
        BY <1>2, <2>3, <2>5, <3>1, <4>1 DEF EntryInUse
    <3> QED
      BY <3>2, <3>3
  <2>10. CASE EndNow(u) \/ EndRead(u)
    <3>1. /\ lock_starts'[k] = e /\ handler'[u].pc # "emit"
          /\ waits'[u] = waits[u] /\ waits[u] # <<>>
      BY <1>1, <2>10 DEF EndNow, EndRead, HandlersWait
    <3> QED
      BY <2>3, <2>4, <2>5, <3>1
  <2>11. CASE EndDelete(u)
    <3>1. lock_starts'[k] = IF Key(u) = k THEN None ELSE e
      BY <1>1, <2>11 DEF EndDelete
    <3>2. Key(u) # k => ~(e # None /\ b = u)
      BY <1>2
    <3> QED
      BY <2>3, <2>5, <3>1, <3>2
  <2>12. CASE EndEmit(u)
    <3>1. lock_starts'[k] = e /\ handler[u].pc = "emit"
      BY <2>12 DEF EndEmit
    <3>2. e # None /\ b = u => ~e.paired
      BY <1>2, <3>1
    <3> QED
      BY <1>2, <2>3, <2>5, <3>1, <3>2 DEF EntryInUse
  <2> QED
    BY <1>3, <2>6, <2>7, <2>8, <2>9, <2>10, <2>11, <2>12 DEF Step, handle_contention_end
<1>4. CASE Read \/ Tick \/ UNCHANGED vars
  BY <1>2, <1>4 DEF Read, Tick, vars, EntryInUse
<1>5. CASE Attach
  BY <1>2, <1>5 DEF Attach, EntryInUse
<1> QED
  BY <1>3, <1>4, <1>5 DEF Next, Step

\* The map never holds more than its capacity.
LEMMA EntriesNext ==
    ASSUME TypeInv, [Next]_vars, Cardinality(Entries) <= MaxEntries
    PROVE  Cardinality(Entries') <= MaxEntries
<1>1. IsFiniteSet(Keys)
  <2>1. IsFiniteSet(Threads \ Idle)
    BY ProbesAssumption, FS_Difference
  <2> QED
    BY <2>1, FS_AddElement DEF Keys
<1>2. Entries \in SUBSET Keys /\ Entries' \in SUBSET Keys
  BY DEF Entries
<1>3. IsFiniteSet(Entries) /\ Cardinality(Entries) \in Nat /\ MaxEntries \in Nat
  BY <1>1, <1>2, FS_Subset, FS_CardinalityType, ProbesAssumption
<1>4. ASSUME NEW u \in Threads, handle_contention_begin(u)
      PROVE  Cardinality(Entries') <= MaxEntries
  <2> DEFINE k == Key(u)
  <2>1. k \in Keys
    BY KeyType
  <2>2. CASE HasRoom(k)
    <3>1. lock_starts' = [lock_starts EXCEPT ![k] = Start(u)]
      BY <1>4, <2>2 DEF handle_contention_begin
    <3> HIDE DEF k
    <3>2. Entries' \in SUBSET (Entries \cup {k})
      BY <2>1, <3>1 DEF TypeInv, Entries
    <3>3. /\ IsFiniteSet(Entries \cup {k})
          /\ Cardinality(Entries \cup {k}) =
                IF k \in Entries THEN Cardinality(Entries) ELSE Cardinality(Entries) + 1
      BY <1>3, FS_AddElement
    <3>4. k \in Entries \/ Cardinality(Entries) < MaxEntries
      BY <2>1, <2>2 DEF HasRoom, Entries
    <3>5. Cardinality(Entries \cup {k}) <= MaxEntries
      BY <1>3, <3>3, <3>4
    <3>6. Cardinality(Entries') <= Cardinality(Entries \cup {k})
      BY <3>2, <3>3, FS_Subset
    <3>7. Cardinality(Entries') \in Nat /\ Cardinality(Entries \cup {k}) \in Nat
      BY <3>2, <3>3, FS_Subset, FS_CardinalityType
    <3> QED
      BY <1>3, <3>5, <3>6, <3>7
  <2>3. CASE ~HasRoom(k)
    BY <1>4, <2>3 DEF handle_contention_begin, Entries
  <2> QED
    BY <2>2, <2>3
<1>5. ASSUME NEW u \in Threads, EndDelete(u)
      PROVE  Cardinality(Entries') <= MaxEntries
  <2>1. Entries' \in SUBSET Entries
    BY <1>5 DEF EndDelete, Entries, TypeInv
  <2>2. Cardinality(Entries') <= Cardinality(Entries) /\ Cardinality(Entries') \in Nat
    BY <1>3, <2>1, FS_Subset, FS_CardinalityType
  <2> QED
    BY <1>3, <2>2
<1>6. lock_starts' = lock_starts => Cardinality(Entries') <= MaxEntries
  BY DEF Entries
<1>7. \/ lock_starts' = lock_starts
      \/ \E u \in Threads : handle_contention_begin(u) \/ EndDelete(u)
  BY DEF Next, vars, handle_page_fault, handle_sched_switch, handle_cache_miss, contention_begin,
         contention_end, handle_contention_end, EndNow, EndRead, EndEmit, Read, Attach, Tick
<1> QED
  BY <1>4, <1>5, <1>6, <1>7

\* What is put into the ring buffer is right.
LEMMA RingNext ==
    ASSUME IndInv, [Next]_vars
    PROVE  /\ Len(ring') <= RingSize
           /\ \A i \in 1 .. Len(ring') : Truthful(ring'[i])
<1> USE DEF IndInv
<1>1. ASSUME NEW r \in Record, Emit(r), Truthful(r)
      PROVE  /\ Len(ring') <= RingSize
             /\ \A i \in 1 .. Len(ring') : Truthful(ring'[i])
  <2>1. /\ Len(ring') <= RingSize
        /\ \A i \in 1 .. Len(ring') : ring'[i] = r \/ (i <= Len(ring) /\ ring'[i] = ring[i])
    BY <1>1, EmitRing
  <2>2. Len(ring) \in Nat
    BY DEF TypeInv
  <2>3. ASSUME NEW i \in 1 .. Len(ring')
        PROVE  Truthful(ring'[i])
    <3>1. CASE ring'[i] = r
      BY <1>1, <3>1, Zenon
    <3>2. CASE i <= Len(ring) /\ ring'[i] = ring[i]
      <4>1. i \in 1 .. Len(ring)
        BY <2>2, <3>2
      <4> QED
        BY <3>2, <4>1, Zenon
    <3> QED
      BY <2>1, <2>3, <3>1, <3>2
  <2> QED
    BY <2>1, <2>3
<1>2. ASSUME NEW u \in Threads,
             handle_page_fault(u) \/ handle_sched_switch(u) \/ handle_cache_miss(u)
      PROVE  /\ Len(ring') <= RingSize
             /\ \A i \in 1 .. Len(ring') : Truthful(ring'[i])
  <2>1. PICK type \in Types, payload \in Nat \cup {Junk} :
           /\ type # "LOCK_CONTENTION"
           /\ type = "CACHE_MISS" => payload \in Nat
           /\ Emit(Event(type, u, payload, NoWait, clock))
    BY <1>2, ProbesAssumption
       DEF handle_page_fault, handle_sched_switch, handle_cache_miss, Types
  <2> DEFINE r == Event(type, u, payload, NoWait, clock)
  <2>2. r \in Record
    BY PlainRecord
  <2>3. Truthful(r)
    BY <2>1 DEF Truthful, Event
  <2> HIDE DEF r
  <2> QED
    BY <1>1, <2>1, <2>2, <2>3 DEF r
<1>3. ASSUME NEW u \in Threads, EndEmit(u)
      PROVE  /\ Len(ring') <= RingSize
             /\ \A i \in 1 .. Len(ring') : Truthful(ring'[i])
  <2> DEFINE h == handler[u]
             l == Innermost(u)
             r == Event("LOCK_CONTENTION", u, h.duration, l, h.now)
  <2>1. h.pc = "emit" /\ Emit(r)
    BY <1>3 DEF EndEmit
  <2>2. r \in Record
    BY <2>1, LockRecord
  <2>3. /\ r.type = "LOCK_CONTENTION" /\ r.thread = u /\ r.payload = h.duration
        /\ r.waited = h.now - l.begin /\ r.covered = l.covered
    BY DEF Event
  <2>4. /\ h.duration \in 0 .. Modulus - 1 /\ h.now \in Times /\ l \in Wait
    BY <2>1, HandlerFields, InnermostType DEF TypeInv
  <2> HIDE DEF r
  <2>5. u \notin Idle => /\ h.duration \in 0 .. h.now - l.begin
                         /\ l.covered => h.duration = h.now - l.begin
    BY <2>1 DEF Own, OwnKey, Within, Innermost
  <2>6. l.begin \in Times
    BY <2>4 DEF Wait
  <2> HIDE DEF h, l
  <2>7. u \notin Idle => 2 * h.duration < Modulus
    BY <2>4, <2>5, <2>6, ProbesAssumption DEF Times
  <2>8. Truthful(r)
    BY <2>3, <2>4, <2>5, <2>6, <2>7 DEF Truthful, Times
  <2> QED
    BY <1>1, <2>1, <2>2, <2>8
<1>4. CASE Read
  <2>1. ring \in Seq(Record) /\ ring # <<>> /\ ring' = Tail(ring) /\ RingSize \in Nat
    BY <1>4, ProbesAssumption DEF Read, TypeInv
  <2>2. /\ Len(ring) \in Nat \ {0} /\ Len(ring') = Len(ring) - 1
        /\ \A i \in 1 .. Len(ring') : ring'[i] = ring[i + 1] /\ i + 1 \in 1 .. Len(ring)
    BY <2>1
  <2> QED
    BY <2>1, <2>2
<1>5. ring' = ring => /\ Len(ring') <= RingSize
                      /\ \A i \in 1 .. Len(ring') : Truthful(ring'[i])
  OBVIOUS
<1>6. \/ ring' = ring
      \/ Read
      \/ \E u \in Threads : \/ handle_page_fault(u) \/ handle_sched_switch(u)
                            \/ handle_cache_miss(u) \/ EndEmit(u)
  BY DEF Next, vars, contention_begin, handle_contention_begin, contention_end,
         handle_contention_end, EndNow, EndRead, EndDelete, Attach, Tick
<1> QED
  BY <1>2, <1>3, <1>4, <1>5, <1>6

\* IndInv holds in every reachable state: the entry of a workload's thread,
\* which no other thread can touch, and the handler's local state
\* always describe the innermost wait or one that ended inside it.
THEOREM IndInvHolds == Spec => []IndInv
<1>1. Init => IndInv
  <2> SUFFICES ASSUME Init
               PROVE  IndInv
    OBVIOUS
  <2>1. TypeInv
    BY TypeInvInit
  <2>2. \A t \in Threads \ Idle : Own(t)
    BY KeyOfItsOwn, NotRunningType DEF Init, Own, OwnKey, WaitsInv
  <2>3. HandlersWait /\ \A t \in Threads : CoveredBoth(t)
    BY NotRunningType DEF Init, HandlersWait, CoveredBoth
  <2>4. \A k \in Keys : EntryInUse(k)
    BY DEF Init, EntryInUse
  <2>5. Cardinality(Entries) <= MaxEntries
    <3>1. Entries = {}
      BY DEF Init, Entries
    <3> QED
      BY <3>1, FS_EmptySet, ProbesAssumption
  <2>6. /\ \A t \in Threads : Len(waits[t]) <= Nesting[t]
        /\ Len(ring) <= RingSize
        /\ \A i \in 1 .. Len(ring) : Truthful(ring[i])
    BY ProbesAssumption DEF Init
  <2> QED
    BY <2>1, <2>2, <2>3, <2>4, <2>5, <2>6 DEF IndInv
<1>2. IndInv /\ [Next]_vars => IndInv'
  <2> SUFFICES ASSUME IndInv, [Next]_vars
               PROVE  IndInv'
    OBVIOUS
  <2>1. TypeInv'
    BY TypeInvNext DEF IndInv
  <2>2. \A t \in Threads \ Idle : Own(t)'
    BY <2>1, OwnNext DEF IndInv
  <2>3. /\ HandlersWait'
        /\ \A t \in Threads : CoveredBoth(t)'
        /\ \A t \in Threads : Len(waits'[t]) <= Nesting[t]
    BY WaitsNext DEF IndInv
  <2>4. \A k \in Keys : EntryInUse(k)'
    BY EntryInUseNext DEF IndInv
  <2>5. Cardinality(Entries') <= MaxEntries
    BY EntriesNext DEF IndInv
  <2>6. Len(ring') <= RingSize /\ \A i \in 1 .. Len(ring') : Truthful(ring'[i])
    BY RingNext
  <2> QED
    BY <2>1, <2>2, <2>3, <2>4, <2>5, <2>6 DEF IndInv
<1> QED
  BY <1>1, <1>2, PTL DEF Spec

-----------------------------------------------------------------------------
(* What it shows. *)

\* An event sent is decoded from a record of a workload's thread.
LEMMA ForwardedRecord ==
    ASSUME IndInv, NEW e \in Forwarded
    PROVE  \E r \in Record : r.thread \notin Idle /\ Truthful(r) /\ e = Decode(r)
<1>1. ring \in Seq(Record)
  BY DEF IndInv, TypeInv
<1>2. PICK i \in DOMAIN ring : e \in Forward(ring[i])
  BY DEF Forwarded
<1>3. i \in 1 .. Len(ring) /\ ring[i] \in Record
  BY <1>1
<1>4. Truthful(ring[i])
  BY <1>3 DEF IndInv
<1>5. ring[i].thread \notin Idle /\ e = Decode(ring[i])
  BY <1>2 DEF Forward
<1> QED
  BY <1>3, <1>4, <1>5

\* What the decoding makes of the payload of each type.
LEMMA DecodedRecord ==
    ASSUME NEW r \in Record, r.thread \notin Idle, Truthful(r)
    PROVE  /\ Decode(r).type = r.type
           /\ Decode(r).waited = r.waited /\ Decode(r).covered = r.covered
           /\ Decode(r).value \in Int \cup {None}
           /\ r.type = "LOCK_CONTENTION" =>
                /\ Decode(r).value \in 0 .. r.waited
                /\ r.covered => Decode(r).value = r.waited
<1>1. Modulus \in Nat /\ r.waited \in Int
  BY ProbesAssumption DEF Record
<1>2. CASE r.type = "CACHE_MISS"
  <2>1. Decode(r).value = r.payload
    BY <1>2 DEF Decode
  <2>2. r.payload \in Nat
    BY <1>2 DEF Truthful
  <2> QED
    BY <1>2, <2>1, <2>2 DEF Decode
<1>3. CASE r.type = "LOCK_CONTENTION"
  <2>1. Decode(r).value = Int64(r.payload)
    BY <1>3 DEF Decode
  <2>2. /\ r.payload \in Nat /\ r.payload <= r.waited /\ 2 * r.payload < Modulus
        /\ r.covered => r.payload = r.waited
    BY <1>3 DEF Truthful
  <2>3. Int64(r.payload) = r.payload
    BY <2>2 DEF Int64
  <2> QED
    BY <1>1, <1>3, <2>1, <2>2, <2>3 DEF Decode
<1>4. CASE r.type \notin {"CACHE_MISS", "LOCK_CONTENTION"}
  <2>1. Decode(r).value = None
    BY <1>4 DEF Decode
  <2> QED
    BY <1>4, <2>1 DEF Decode
<1> QED
  BY <1>2, <1>3, <1>4

\* Every part of the state stays in range: the map within its capacity, the ring
\* buffer within its size, and no event is sent with a value that was never
\* written (akil.c leaves the payload of two types unset).
THEOREM TypeCorrect == Spec => []TypeOK
<1>1. IndInv => TypeOK
  <2> SUFFICES ASSUME IndInv
               PROVE  TypeOK
    OBVIOUS
  <2>1. \A k \in Keys : lock_starts[k] # None => lock_starts[k].start \in Times
    BY DEF IndInv, TypeInv, StartTime
  <2>2. \A e \in Forwarded : e.value \in Int \cup {None}
    BY ForwardedRecord, DecodedRecord
  <2> QED
    BY <2>1, <2>2 DEF IndInv, TypeInv, TypeOK, Entries
<1> QED
  BY <1>1, IndInvHolds, PTL

\* However waits nest, the map fills up and idle threads race for their common
\* key, a lock time sent for a workload's thread is that of the wait that ended,
\* if both probes were attached when it began.
THEOREM DurationsAreExact == Spec => []DurationExact
<1>1. IndInv => DurationExact
  BY ForwardedRecord, DecodedRecord DEF DurationExact, ForwardedWaits
<1> QED
  BY <1>1, IndInvHolds, PTL

\* Also for a wait that began before the probes were attached, now - *start does
\* not wrap around, and the time sent is at most that of the wait.
THEOREM DurationsAreWithinWait == Spec => []DurationWithinWait
<1>1. IndInv => DurationWithinWait
  BY ForwardedRecord, DecodedRecord DEF DurationWithinWait, ForwardedWaits
<1> QED
  BY <1>1, IndInvHolds, PTL

\* While a workload's thread waits, its start time is in the map and is that of
\* the wait, unless the map was full or a nested wait came.
THEOREM WaitsAreMeasured == Spec => []WaitIsMeasured
<1>1. IndInv => WaitIsMeasured
  <2> SUFFICES ASSUME IndInv, NEW t \in Threads \ Idle, waits[t] # <<>>,
                      handler[t] = NotRunning, Innermost(t).intact
               PROVE  /\ lock_starts[Key(t)] # None
                      /\ lock_starts[Key(t)].start = Innermost(t).begin
    BY DEF WaitIsMeasured
  <2>1. Between(Innermost(t), lock_starts[t])
    BY NotRunningType DEF IndInv, Own, OwnKey, Innermost
  <2> QED
    BY <2>1, KeyOfItsOwn DEF Between
<1> QED
  BY <1>1, IndInvHolds, PTL

\* An entry stored with both probes attached belongs to a wait in progress, also
\* under the key that all idle threads share: no leftovers fill the map.
THEOREM EntriesAreWaits == Spec => []MapHoldsWaits
<1>1. IndInv => MapHoldsWaits
  BY DEF IndInv, EntryInUse, MapHoldsWaits
<1> QED
  BY <1>1, IndInvHolds, PTL
=============================================================================
