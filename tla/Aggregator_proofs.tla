-------------------------- MODULE Aggregator_proofs --------------------------
(***************************************************************************)
(* Proofs about Aggregator, for any set of workloads, nodes and goroutines *)
(* and any batches.                                                        *)
(***************************************************************************)
EXTENDS Aggregator, TLAPS

-----------------------------------------------------------------------------
(* The type of the state, in full. *)

Object == [key : Keys, events : SUBSET Event, nodeLocations : SUBSET Nodes]

StreamState ==
    [pc : {"recv", "load", "create", "record"}, node : Nodes, events : Seq(Event),
     next : Nat \ {0}, wp : Nat]

Answer == [key : Keys, events : SUBSET Event]

HandlerState ==
    [pc : {"idle", "load", "create", "apply", "range", "compute", "replied"},
     kind : {"none", "simulate", "reset", "query"}, key : Keys \cup {NoKey}, node : Nodes,
     wp : Nat, todo : SUBSET Keys, result : SUBSET Answer, owed : SUBSET Keys]

TypeInv ==
    /\ profiles \in [Keys -> Nat]
    /\ objects \in Seq(Object)
    /\ stream \in [Streams -> StreamState]
    /\ handler \in [Handlers -> HandlerState]
    /\ ingested \in 0 .. MaxEvents
    /\ requests \in Nat
    /\ acked \subseteq Event
    /\ recorded \in [1 .. MaxEvents -> Nat]
    /\ erased \subseteq Keys /\ deleted \subseteq Keys

-----------------------------------------------------------------------------
(* The invariant. *)

\* A key that was never deleted has at most one object, and the store has it.
StoreInv ==
    /\ \A k \in Keys : profiles[k] # Nil =>
         profiles[k] \in 1 .. Len(objects) /\ objects[profiles[k]].key = k
    /\ \A i \in 1 .. Len(objects) :
         objects[i].key \notin deleted => profiles[objects[i].key] = i
    /\ \A i \in 1 .. Len(objects) : \A e \in objects[i].events : e.key = objects[i].key
    /\ deleted \subseteq erased

\* The object w that a goroutine holds for key k.
Holds(w, k) ==
    /\ w \in 1 .. Len(objects)
    /\ objects[w].key = k
    /\ k \notin deleted => profiles[k] = w

StreamInv(x) ==
    /\ x.wp \in 0 .. Len(objects)
    /\ x.pc \in {"create", "record"} =>
         x.next <= Len(x.events) /\ x.events[x.next].key \in Keys
    /\ x.pc = "record" => Holds(x.wp, x.events[x.next].key)

\* What a query has still to visit, is computing, or has computed.
QueryInv(x) ==
    /\ \A k \in x.owed \ deleted :
         /\ OnNode(k, x.node)
         /\ k \in x.todo \/ (x.pc = "compute" /\ k = x.key) \/ \E r \in x.result : r.key = k
    /\ \A r \in x.result : r.key \notin x.todo /\ (x.pc = "compute" => r.key # x.key)
    /\ \A r \in x.result : \A e \in r.events : e.key = r.key
    /\ \A r, q \in x.result : r.key = q.key => r = q
    /\ x.pc = "compute" =>
         /\ x.key \in Keys /\ x.key \notin x.todo
         /\ x.wp \in 1 .. Len(objects) /\ objects[x.wp].key = x.key
    /\ x.pc = "replied" => x.todo = {}

HandlerInv(x) ==
    /\ x.wp \in 0 .. Len(objects)
    /\ x.pc \in {"load", "create", "apply"} => x.key \in Keys
    /\ x.pc = "apply" => Holds(x.wp, x.key)
    /\ x.pc \in {"range", "compute", "replied"} => QueryInv(x)

\* An event that was recorded, once, and is still to be seen.
KeptIn(e, rec, er, pr, ob) ==
    e.counted /\ e.key # NoKey =>
      /\ rec[e.id] = 1
      /\ e.key \in er \/ (pr[e.key] # Nil /\ e \in ob[pr[e.key]].events)

Kept(e) == KeptIn(e, recorded, erased, profiles, objects)

\* The batch in work: the events before next are recorded, the others are not.
BatchInv(x) ==
    \A i \in 1 .. Len(x.events) :
      /\ x.events[i].id \in 1 .. ingested
      /\ i < x.next => Kept(x.events[i])
      /\ i >= x.next => recorded[x.events[i].id] = 0

\* No identifier is in use twice.
UniqueInv ==
    \A s, t \in Streams :
      \A i \in 1 .. Len(stream[s].events), j \in 1 .. Len(stream[t].events) :
        stream[s].events[i].id = stream[t].events[j].id => s = t /\ i = j

EventsInv ==
    /\ \A s \in Streams : BatchInv(stream[s])
    /\ UniqueInv
    /\ \A e \in acked : e.id \in 1 .. ingested /\ Kept(e)
    /\ \A n \in 1 .. MaxEvents : n > ingested => recorded[n] = 0

IndInv ==
    /\ TypeInv
    /\ StoreInv
    /\ \A s \in Streams : StreamInv(stream[s])
    /\ \A h \in Handlers : HandlerInv(handler[h])
    /\ EventsInv

-----------------------------------------------------------------------------
(* The goroutines between two batches or requests. *)

\* A stream waiting for a batch is a stream of the model.
LEMMA ReceivingType ==
    /\ Receiving \in StreamState
    /\ Receiving.pc = "recv" /\ Receiving.events = <<>> /\ Receiving.wp = 0
<1>1. (CHOOSE n \in Nodes : TRUE) \in Nodes
  BY AggregatorAssumption
<1> QED
  BY <1>1 DEF Receiving, StreamState, Nil

\* A handler goroutine without a request is a handler of the model.
LEMMA FreeType ==
    /\ Free \in HandlerState
    /\ Free.pc = "idle" /\ Free.wp = 0
<1>1. (CHOOSE n \in Nodes : TRUE) \in Nodes
  BY AggregatorAssumption
<1> QED
  BY <1>1 DEF Free, HandlerState, Nil

-----------------------------------------------------------------------------
(* The store. *)

\* What no step undoes: objects stay, with their key and the nodes they were
\* seen on; a key keeps its object until it is deleted, and the object its
\* events until the key is erased.
Grows ==
    /\ Len(objects) <= Len(objects')
    /\ \A i \in 1 .. Len(objects) :
         /\ objects'[i].key = objects[i].key
         /\ objects[i].nodeLocations \subseteq objects'[i].nodeLocations
    /\ deleted \subseteq deleted' /\ erased \subseteq erased'
    /\ \A k \in Keys \ deleted' : profiles[k] # Nil => profiles'[k] = profiles[k]
    /\ \A k \in Keys \ erased' : profiles[k] # Nil =>
         objects[profiles[k]].events \subseteq objects'[profiles[k]].events

StoreTypes == profiles \in [Keys -> Nat] /\ objects \in Seq(Object)
              /\ erased \subseteq Keys /\ deleted \subseteq Keys

\* LoadOrStore leaves the store with one object for the key, and returns it.
LEMMA LoadOrStoreStep ==
    ASSUME StoreTypes, StoreInv, NEW k \in Keys, LoadOrStore(k), UNCHANGED <<erased, deleted>>
    PROVE  StoreTypes' /\ StoreInv' /\ Grows /\ Holds(profiles[k], k)'
<1>1. /\ profiles \in [Keys -> Nat] /\ objects \in Seq(Object) /\ Len(objects) \in Nat
      /\ \A i \in 1 .. Len(objects) : objects[i] \in Object
  BY DEF StoreTypes
<1>2. CASE profiles[k] # Nil
  <2>1. UNCHANGED <<profiles, objects, erased, deleted>>
    BY <1>2 DEF LoadOrStore
  <2>2. StoreTypes' /\ StoreInv' /\ Grows
    BY <1>1, <2>1 DEF StoreTypes, StoreInv, Grows
  <2>3. Holds(profiles[k], k)
    BY <1>2 DEF StoreInv, Holds
  <2>4. Holds(profiles[k], k)'
    BY <2>1, <2>3 DEF Holds
  <2> QED
    BY <2>2, <2>4
<1>3. CASE profiles[k] = Nil
  <2> DEFINE o == NewObject(k)
             m == Len(objects) + 1
  <2>1. o \in Object /\ o.key = k /\ o.events = {}
    BY DEF NewObject, Object
  <2>2. objects' = Append(objects, o) /\ profiles' = [profiles EXCEPT ![k] = m]
    BY <1>3 DEF LoadOrStore
  <2> HIDE DEF o
  <2>3. /\ objects' \in Seq(Object) /\ Len(objects') = m /\ objects'[m] = o
        /\ \A i \in 1 .. Len(objects) : objects'[i] = objects[i]
    BY <1>1, <2>1, <2>2
  <2>4. /\ profiles' \in [Keys -> Nat] /\ profiles'[k] = m
        /\ \A j \in Keys : j # k => profiles'[j] = profiles[j]
    BY <1>1, <2>2
  <2>5. k \notin deleted => \A i \in 1 .. Len(objects) : objects[i].key # k
    BY <1>1, <1>3 DEF StoreInv, Nil
  <2>6. StoreTypes'
    BY <2>3, <2>4 DEF StoreTypes
  <2>7. StoreInv'
    <3>1. ASSUME NEW j \in Keys, profiles'[j] # Nil
          PROVE  profiles'[j] \in 1 .. Len(objects') /\ objects'[profiles'[j]].key = j
      BY <1>1, <2>1, <2>3, <2>4, <3>1 DEF StoreInv
    <3>2. ASSUME NEW i \in 1 .. Len(objects'), objects'[i].key \notin deleted
          PROVE  profiles'[objects'[i].key] = i
      <4>1. CASE i = m
        BY <2>1, <2>3, <2>4, <4>1
      <4>2. CASE i \in 1 .. Len(objects)
        <5>1. objects'[i] = objects[i] /\ objects[i].key \in Keys /\ objects[i].key # k
          BY <1>1, <2>3, <2>5, <3>2, <4>2 DEF Object
        <5> QED
          BY <2>4, <3>2, <4>2, <5>1 DEF StoreInv
      <4> QED
        BY <1>1, <2>3, <4>1, <4>2
    <3>3. ASSUME NEW i \in 1 .. Len(objects'), NEW e \in objects'[i].events
          PROVE  e.key = objects'[i].key
      <4>1. CASE i = m
        BY <2>1, <2>3, <3>3, <4>1
      <4>2. CASE i \in 1 .. Len(objects)
        BY <2>3, <3>3, <4>2 DEF StoreInv
      <4> QED
        BY <1>1, <2>3, <4>1, <4>2
    <3> QED
      BY <3>1, <3>2, <3>3 DEF StoreInv
  <2>8. Grows
    <3>1. ASSUME NEW j \in Keys, profiles[j] # Nil
          PROVE  profiles'[j] = profiles[j] /\ objects'[profiles[j]] = objects[profiles[j]]
      BY <1>3, <2>3, <2>4, <3>1 DEF StoreInv
    <3> QED
      BY <1>1, <2>3, <3>1 DEF Grows
  <2>9. Holds(profiles[k], k)'
    BY <1>1, <2>1, <2>3, <2>4 DEF Holds
  <2> QED
    BY <2>6, <2>7, <2>8, <2>9
<1> QED
  BY <1>2, <1>3

\* A method changes one object, and neither its key nor what it must keep.
LEMMA ObjectStep ==
    ASSUME StoreTypes, StoreInv, NEW w \in 1 .. Len(objects), NEW o \in Object,
           objects' = [objects EXCEPT ![w] = o],
           o.key = objects[w].key,
           \A e \in o.events : e.key = o.key,
           objects[w].nodeLocations \subseteq o.nodeLocations,
           objects[w].events \subseteq o.events \/ o.key \in erased',
           UNCHANGED <<profiles, deleted>>, erased \subseteq erased', erased' \subseteq Keys
    PROVE  /\ StoreTypes' /\ StoreInv' /\ Grows
           /\ objects'[w] = o /\ Len(objects') = Len(objects)
           /\ \A i \in 1 .. Len(objects) : i # w => objects'[i] = objects[i]
<1>1. objects \in Seq(Object) /\ Len(objects) \in Nat
  BY DEF StoreTypes
<1>2. /\ objects' \in Seq(Object) /\ Len(objects') = Len(objects) /\ objects'[w] = o
      /\ \A i \in 1 .. Len(objects) : i # w => objects'[i] = objects[i]
  BY <1>1
<1>3. StoreTypes'
  BY <1>2 DEF StoreTypes
<1>4. \A i \in 1 .. Len(objects) :
         /\ objects'[i].key = objects[i].key
         /\ objects[i].nodeLocations \subseteq objects'[i].nodeLocations
         /\ \A e \in objects'[i].events : e.key = objects'[i].key
  BY <1>2 DEF StoreInv
<1>5. StoreInv'
  BY <1>2, <1>4 DEF StoreInv
<1>6. Grows
  <2>1. ASSUME NEW k \in Keys \ erased', profiles[k] # Nil
        PROVE  objects[profiles[k]].events \subseteq objects'[profiles[k]].events
    <3>1. profiles[k] \in 1 .. Len(objects) /\ objects[profiles[k]].key = k
      BY <2>1 DEF StoreInv
    <3> QED
      BY <1>2, <2>1, <3>1
  <2> QED
    BY <1>1, <1>2, <1>4, <2>1 DEF Grows
<1> QED
  BY <1>2, <1>3, <1>5, <1>6

\* Store.Delete.
LEMMA DeleteStep ==
    ASSUME StoreTypes, StoreInv, NEW k \in Keys, Delete(k)
    PROVE  StoreTypes' /\ StoreInv' /\ Grows
<1>1. /\ profiles \in [Keys -> Nat] /\ objects \in Seq(Object) /\ Len(objects) \in Nat
      /\ \A i \in 1 .. Len(objects) : objects[i].key \in Keys
  <2>1. objects \in Seq(Object) /\ \A i \in 1 .. Len(objects) : objects[i] \in Object
    BY DEF StoreTypes
  <2> QED
    BY <2>1 DEF StoreTypes, Object
<1>2. /\ profiles' = [profiles EXCEPT ![k] = Nil] /\ objects' = objects
      /\ erased' = erased \cup {k} /\ deleted' = deleted \cup {k}
  BY DEF Delete
<1>3. /\ profiles' \in [Keys -> Nat] /\ profiles'[k] = Nil
      /\ \A j \in Keys : j # k => profiles'[j] = profiles[j]
  BY <1>1, <1>2 DEF Nil
<1>4. StoreTypes'
  BY <1>2, <1>3 DEF StoreTypes
<1>5. StoreInv'
  <2>1. \A j \in Keys : profiles'[j] # Nil =>
           profiles'[j] \in 1 .. Len(objects') /\ objects'[profiles'[j]].key = j
    BY <1>2, <1>3 DEF StoreInv
  <2>2. \A i \in 1 .. Len(objects') :
           objects'[i].key \notin deleted' => profiles'[objects'[i].key] = i
    BY <1>1, <1>2, <1>3 DEF StoreInv
  <2> QED
    BY <1>2, <2>1, <2>2 DEF StoreInv
<1>6. Grows
  BY <1>1, <1>2, <1>3 DEF Grows
<1> QED
  BY <1>4, <1>5, <1>6

\* A step that does not touch the store.
LEMMA StoreSame ==
    ASSUME StoreTypes, StoreInv, UNCHANGED <<profiles, objects, erased, deleted>>
    PROVE  StoreTypes' /\ StoreInv' /\ Grows
<1>1. Len(objects) \in Nat
  BY DEF StoreTypes
<1> QED
  BY <1>1 DEF StoreTypes, StoreInv, Grows

-----------------------------------------------------------------------------
(* The streams. *)

\* Whoever holds an object keeps holding it.
LEMMA HoldsKept ==
    ASSUME StoreTypes, StoreTypes', Grows, NEW k \in Keys, NEW w, Holds(w, k)
    PROVE  /\ w \in 1 .. Len(objects')
           /\ objects'[w].key = k
           /\ k \notin deleted' => profiles'[k] = w
<1>1. Len(objects) \in Nat /\ Len(objects') \in Nat
  BY DEF StoreTypes
<1>2. w \in 1 .. Len(objects) /\ objects[w].key = k
  BY DEF Holds
<1>3. k \notin deleted' => profiles[k] = w /\ profiles[k] # Nil
  BY <1>1, <1>2 DEF Holds, Grows, Nil
<1> QED
  BY <1>1, <1>2, <1>3 DEF Grows

\* A stream whose goroutine does not move.
LEMMA StreamFrame ==
    ASSUME StoreTypes, StoreTypes', Grows, NEW s \in Streams,
           StreamInv(stream[s]), stream'[s] = stream[s]
    PROVE  StreamInv(stream[s])'
<1> DEFINE x == stream[s]
<1>1. Len(objects) \in Nat /\ Len(objects') \in Nat /\ Len(objects) <= Len(objects')
  BY DEF StoreTypes, Grows
<1>2. x.wp \in 0 .. Len(objects')
  BY <1>1 DEF StreamInv
<1>3. x.pc = "record" => /\ x.wp \in 1 .. Len(objects')
                         /\ objects'[x.wp].key = x.events[x.next].key
                         /\ x.events[x.next].key \notin deleted' =>
                              profiles'[x.events[x.next].key] = x.wp
  BY HoldsKept DEF StreamInv
<1> QED
  BY <1>2, <1>3 DEF StreamInv, Holds

\* The event in work.
LEMMA EventOfType ==
    ASSUME TypeInv, NEW s \in Streams, InBatch(s)
    PROVE  EventOf(s) \in Event /\ stream[s].next \in 1 .. Len(stream[s].events)
<1>1. stream[s] \in StreamState
  BY DEF TypeInv
<1>2. stream[s].events \in Seq(Event) /\ stream[s].next \in Nat \ {0}
  BY <1>1 DEF StreamState
<1>3. stream[s].next \in 1 .. Len(stream[s].events)
  BY <1>2 DEF InBatch
<1> QED
  BY <1>2, <1>3 DEF EventOf

\* What all steps of a stream's goroutine have in common.
StreamKept(s) ==
    /\ StoreTypes' /\ StoreInv' /\ Grows
    /\ stream' \in [Streams -> StreamState]
    /\ \A t \in Streams : t # s => stream'[t] = stream[t]
    /\ StreamInv(stream[s])'

\* Recv: a new batch starts with nothing of it recorded.
LEMMA RecvKept ==
    ASSUME TypeInv, StoreInv, NEW s \in Streams, NEW node \in Nodes, NEW kind \in BatchKinds,
           Recv(s, node, kind)
    PROVE  StreamKept(s)
<1> DEFINE es == [i \in DOMAIN kind |-> [id |-> ingested + i, key |-> kind[i].key,
                                         counted |-> kind[i].counted]]
           y == [pc |-> "load", node |-> node, next |-> 1, wp |-> Nil, events |-> es]
           R == [key : Keys \cup {NoKey}, counted : BOOLEAN]
<1>1. kind \in Seq(R)
  BY AggregatorAssumption
<1> HIDE DEF R
<1>2. ingested \in Nat
  BY AggregatorAssumption DEF TypeInv
<1>3. \A i \in 1 .. Len(kind) : [id |-> ingested + i, key |-> kind[i].key,
                                 counted |-> kind[i].counted] \in Event
  <2> TAKE i \in 1 .. Len(kind)
  <2>1. kind[i] \in R /\ ingested + i \in Nat
    BY <1>1, <1>2
  <2> QED
    BY <2>1 DEF Event, R
<1>4. es \in Seq(Event)
  <2>1. DOMAIN kind = 1 .. Len(kind) /\ Len(kind) \in Nat
    BY <1>1
  <2> QED
    BY <1>3, <2>1
<1>5. stream' = [stream EXCEPT ![s] = y]
  BY DEF Recv
<1> HIDE DEF es
<1>6. y \in StreamState /\ y.pc = "load" /\ y.wp = 0
  BY <1>4 DEF StreamState, Nil
<1> HIDE DEF y
<1>7. stream' \in [Streams -> StreamState] /\ stream'[s] = y
      /\ \A t \in Streams : t # s => stream'[t] = stream[t]
  BY <1>5, <1>6 DEF TypeInv
<1>8. StoreTypes' /\ StoreInv' /\ Grows
  BY StoreSame DEF Recv, TypeInv, StoreTypes, ghosts
<1>9. StreamInv(stream[s])'
  <2>1. Len(objects') \in Nat
    BY <1>8 DEF StoreTypes
  <2> QED
    BY <1>6, <1>7, <2>1 DEF StreamInv
<1> QED
  BY <1>7, <1>8, <1>9 DEF StreamKept

\* An event without a key is skipped: nothing but the position moves.
LEMMA SkipEventKept ==
    ASSUME TypeInv, StoreInv, NEW s \in Streams, StreamInv(stream[s]), SkipEvent(s)
    PROVE  StreamKept(s)
<1> DEFINE y == [stream[s] EXCEPT !.next = @ + 1]
<1>1. stream[s] \in StreamState /\ stream[s].pc = "load"
  BY DEF TypeInv, SkipEvent
<1>2. y \in StreamState /\ y.pc = "load" /\ y.wp = stream[s].wp
  BY <1>1 DEF StreamState
<1>3. stream' = [stream EXCEPT ![s] = y]
  BY DEF SkipEvent
<1> HIDE DEF y
<1>4. stream' \in [Streams -> StreamState] /\ stream'[s] = y
      /\ \A t \in Streams : t # s => stream'[t] = stream[t]
  BY <1>2, <1>3 DEF TypeInv
<1>5. StoreTypes' /\ StoreInv' /\ Grows /\ objects' = objects
  BY StoreSame DEF SkipEvent, TypeInv, StoreTypes, ghosts
<1>6. StreamInv(stream[s])'
  BY <1>2, <1>4, <1>5 DEF StreamInv
<1> QED
  BY <1>4, <1>5, <1>6 DEF StreamKept

\* The Load half of GetOrCreate, in a stream.
LEMMA StreamLoadKept ==
    ASSUME TypeInv, StoreInv, NEW s \in Streams, StreamInv(stream[s]), StreamLoad(s)
    PROVE  StreamKept(s)
<1> DEFINE k == EventOf(s).key
           found == profiles[k]
           y == [stream[s] EXCEPT !.pc = IF found # Nil THEN "record" ELSE "create",
                                  !.wp = found]
<1>1. stream[s] \in StreamState /\ InBatch(s)
  BY DEF TypeInv, StreamLoad
<1>2. k \in Keys /\ k = stream[s].events[stream[s].next].key
      /\ stream[s].next <= Len(stream[s].events)
  <2>1. EventOf(s) \in Event /\ k # NoKey
    BY <1>1, EventOfType DEF StreamLoad
  <2>2. k \in Keys
    BY <2>1 DEF Event
  <2> QED
    BY <1>1, <2>2 DEF EventOf, InBatch
<1>3. found \in Nat /\ found \in 0 .. Len(objects) /\ (found # Nil => Holds(found, k))
  <2>1. found \in Nat /\ Len(objects) \in Nat
    BY <1>2 DEF TypeInv
  <2> HIDE DEF k, found
  <2>2. found # Nil => found \in 1 .. Len(objects) /\ objects[found].key = k
    BY <1>2 DEF StoreInv, found
  <2> QED
    BY <2>1, <2>2 DEF Holds, Nil, found
<1>4. /\ y \in StreamState /\ y.wp = found
      /\ y.pc = (IF found # Nil THEN "record" ELSE "create")
      /\ y.events = stream[s].events /\ y.next = stream[s].next
  BY <1>1, <1>3 DEF StreamState
<1>5. stream' = [stream EXCEPT ![s] = y]
  BY <1>1 DEF StreamLoad, TypeInv
<1> HIDE DEF y
<1>6. stream' \in [Streams -> StreamState] /\ stream'[s] = y
      /\ \A t \in Streams : t # s => stream'[t] = stream[t]
  BY <1>4, <1>5 DEF TypeInv
<1>7. StoreTypes' /\ StoreInv' /\ Grows /\ UNCHANGED <<profiles, objects, deleted>>
  BY StoreSame DEF StreamLoad, TypeInv, StoreTypes, ghosts
<1>8. StreamInv(stream[s])'
  BY <1>2, <1>3, <1>4, <1>6, <1>7 DEF StreamInv, Holds
<1> QED
  BY <1>6, <1>7, <1>8 DEF StreamKept

\* The LoadOrStore half of GetOrCreate, in a stream.
LEMMA StreamCreateKept ==
    ASSUME TypeInv, StoreInv, NEW s \in Streams, StreamInv(stream[s]), StreamCreate(s)
    PROVE  StreamKept(s)
<1>1. /\ stream[s] \in StreamState /\ EventOf(s).key \in Keys
      /\ stream[s].next <= Len(stream[s].events)
  BY DEF TypeInv, StreamCreate, StreamInv, EventOf
<1> PICK k \in Keys : k = EventOf(s).key
  BY <1>1
<1> DEFINE y == [stream[s] EXCEPT !.pc = "record", !.wp = profiles'[k]]
<1>2. StoreTypes' /\ StoreInv' /\ Grows /\ Holds(profiles[k], k)'
  BY <1>1, LoadOrStoreStep DEF StreamCreate, TypeInv, StoreTypes, ghosts
<1>3. profiles'[k] \in Nat
  BY <1>1, <1>2 DEF StoreTypes
<1>4. /\ y \in StreamState /\ y.wp = profiles'[k] /\ y.pc = "record"
      /\ y.events = stream[s].events /\ y.next = stream[s].next
  BY <1>1, <1>3 DEF StreamState
<1>5. stream' = [stream EXCEPT ![s] = y]
  BY <1>1 DEF StreamCreate, TypeInv
<1> HIDE DEF y
<1>6. stream' \in [Streams -> StreamState] /\ stream'[s] = y
      /\ \A t \in Streams : t # s => stream'[t] = stream[t]
  BY <1>4, <1>5 DEF TypeInv
<1>7. y.events[y.next].key = k
  BY <1>4 DEF EventOf
<1>8. profiles'[k] \in 1 .. Len(objects') /\ objects'[profiles'[k]].key = k
  BY <1>2 DEF Holds
<1>9. StreamInv(stream[s])'
  <2>1. Len(objects') \in Nat
    BY <1>2 DEF StoreTypes
  <2>2. y.wp \in 0 .. Len(objects')
    BY <1>4, <1>8, <2>1
  <2> QED
    BY <1>1, <1>4, <1>6, <1>7, <1>8, <2>2 DEF StreamInv, Holds
<1> QED
  BY <1>2, <1>6, <1>9 DEF StreamKept

\* Recording one event of a batch in the profile that the stream holds.
LEMMA StreamRecordKept ==
    ASSUME TypeInv, StoreInv, NEW s \in Streams, StreamInv(stream[s]), StreamRecord(s)
    PROVE  StreamKept(s)
<1> DEFINE e == EventOf(s)
           w == stream[s].wp
           o == [objects[w] EXCEPT !.events = @ \cup {e},
                                   !.nodeLocations = @ \cup {stream[s].node}]
           y == [stream[s] EXCEPT !.pc = "load", !.next = @ + 1, !.wp = Nil]
<1>1. stream[s] \in StreamState /\ StoreTypes
  BY DEF TypeInv, StoreTypes
<1>2. /\ e \in Event /\ w \in 1 .. Len(objects) /\ objects[w].key = e.key
  <2>1. InBatch(s) /\ Holds(w, e.key)
    BY DEF StreamRecord, StreamInv, InBatch, EventOf
  <2> QED
    BY <2>1, EventOfType DEF Holds
<1>3. objects[w] \in Object
  BY <1>1, <1>2 DEF StoreTypes
<1>4. StoreTypes' /\ StoreInv' /\ Grows
  <2>1. CASE e.counted
    <3>1. o \in Object
      BY <1>1, <1>2, <1>3 DEF Object, StreamState
    <3>2. /\ o.key = objects[w].key
          /\ o.events = objects[w].events \cup {e}
          /\ objects[w].nodeLocations \subseteq o.nodeLocations
      BY <1>3 DEF Object
    <3>3. \A d \in o.events : d.key = o.key
      BY <1>2, <3>2 DEF StoreInv
    <3>4. objects' = [objects EXCEPT ![w] = o]
      BY <1>2, <2>1 DEF StreamRecord, TypeInv
    <3>5. UNCHANGED <<profiles, deleted, erased>> /\ erased \subseteq Keys
      BY DEF StreamRecord, TypeInv
    <3> HIDE DEF o, w, e
    <3> QED
      BY <1>1, <1>2, <3>1, <3>2, <3>3, <3>4, <3>5, ObjectStep
  <2>2. CASE ~e.counted
    <3>1. UNCHANGED <<profiles, objects, erased, deleted>>
      BY <2>2 DEF StreamRecord
    <3> QED
      BY <1>1, <3>1, StoreSame
  <2> QED
    BY <2>1, <2>2
<1>5. y \in StreamState /\ y.pc = "load" /\ y.wp = 0
  <2>1. stream[s].next + 1 \in Nat \ {0} /\ Nil = 0 /\ Nil \in Nat
    BY <1>1 DEF StreamState, Nil
  <2> QED
    BY <1>1, <2>1 DEF StreamState
<1>6. stream' = [stream EXCEPT ![s] = y]
  BY <1>1 DEF StreamRecord, TypeInv
<1> HIDE DEF y
<1>7. stream' \in [Streams -> StreamState] /\ stream'[s] = y
      /\ \A t \in Streams : t # s => stream'[t] = stream[t]
  BY <1>5, <1>6 DEF TypeInv
<1>8. StreamInv(stream[s])'
  <2>1. Len(objects') \in Nat
    BY <1>4 DEF StoreTypes
  <2> QED
    BY <1>5, <1>7, <2>1 DEF StreamInv
<1> QED
  BY <1>4, <1>7, <1>8 DEF StreamKept

\* The ack is sent once the batch is used up.
LEMMA SendAckKept ==
    ASSUME TypeInv, StoreInv, NEW s \in Streams, SendAck(s)
    PROVE  StreamKept(s)
<1>1. stream' \in [Streams -> StreamState] /\ stream'[s] = Receiving
      /\ \A t \in Streams : t # s => stream'[t] = stream[t]
  BY ReceivingType DEF TypeInv, SendAck
<1>2. StoreTypes' /\ StoreInv' /\ Grows
  BY StoreSame DEF SendAck, TypeInv, StoreTypes
<1>3. StreamInv(stream[s])'
  <2>1. Len(objects') \in Nat
    BY <1>2 DEF StoreTypes
  <2> QED
    BY <1>1, <2>1, ReceivingType DEF StreamInv
<1> QED
  BY <1>1, <1>2, <1>3 DEF StreamKept

\* Every step of a stream keeps what is invariant about streams.
LEMMA StreamStepKept ==
    ASSUME TypeInv, StoreInv, NEW s \in Streams, StreamInv(stream[s]),
           \/ \E n \in Nodes : \E b \in BatchKinds : Recv(s, n, b)
           \/ StreamStep(s)
    PROVE  StreamKept(s)
BY RecvKept, SkipEventKept, StreamLoadKept, StreamCreateKept, StreamRecordKept, SendAckKept
   DEF StreamStep

-----------------------------------------------------------------------------
(* The handlers. *)

\* A handler whose goroutine does not move.
LEMMA HandlerFrame ==
    ASSUME TypeInv, StoreInv, StoreTypes', Grows, NEW h \in Handlers,
           HandlerInv(handler[h]), handler'[h] = handler[h]
    PROVE  HandlerInv(handler[h])'
<1> DEFINE x == handler[h]
<1>1. /\ Len(objects) \in Nat /\ Len(objects') \in Nat /\ Len(objects) <= Len(objects')
      /\ StoreTypes /\ x \in HandlerState
  BY DEF StoreTypes, Grows, TypeInv
<1>2. x.wp \in 0 .. Len(objects')
  BY <1>1 DEF HandlerInv
<1>3. x.pc = "apply" => /\ x.wp \in 1 .. Len(objects')
                        /\ objects'[x.wp].key = x.key
                        /\ x.key \notin deleted' => profiles'[x.key] = x.wp
  BY <1>1, HoldsKept DEF HandlerInv
<1>4. ASSUME QueryInv(x)
      PROVE  QueryInv(x)'
  <2>1. ASSUME NEW k \in x.owed \ deleted'
        PROVE  /\ profiles'[k] # Nil /\ x.node \in objects'[profiles'[k]].nodeLocations
               /\ k \in x.todo \/ (x.pc = "compute" /\ k = x.key) \/ \E r \in x.result : r.key = k
    <3>1. k \in Keys /\ k \notin deleted
      BY <1>1 DEF HandlerState, Grows
    <3>2. /\ profiles[k] # Nil /\ x.node \in objects[profiles[k]].nodeLocations
          /\ k \in x.todo \/ (x.pc = "compute" /\ k = x.key) \/ \E r \in x.result : r.key = k
      BY <1>4, <3>1 DEF QueryInv, OnNode
    <3>3. profiles'[k] = profiles[k] /\ profiles[k] \in 1 .. Len(objects)
      BY <2>1, <3>1, <3>2 DEF Grows, StoreInv
    <3> QED
      BY <3>2, <3>3 DEF Grows
  <2>2. x.pc = "compute" => /\ x.wp \in 1 .. Len(objects') /\ objects'[x.wp].key = x.key
    BY <1>1, <1>4 DEF QueryInv, Grows
  <2> QED
    BY <1>4, <2>1, <2>2 DEF QueryInv, OnNode
<1> QED
  BY <1>2, <1>3, <1>4 DEF HandlerInv, Holds

\* What all steps of a request's goroutine have in common.
HandlerKept(h) ==
    /\ StoreTypes' /\ StoreInv' /\ Grows
    /\ handler' \in [Handlers -> HandlerState]
    /\ \A g \in Handlers : g # h => handler'[g] = handler[g]
    /\ HandlerInv(handler[h])'

\* Replacing one handler's state: the others keep theirs.
LEMMA HandlerSet ==
    ASSUME TypeInv, NEW h \in Handlers, NEW y \in HandlerState,
           handler' = [handler EXCEPT ![h] = y]
    PROVE  /\ handler' \in [Handlers -> HandlerState] /\ handler'[h] = y
           /\ \A g \in Handlers : g # h => handler'[g] = handler[g]
BY DEF TypeInv

\* A handler that is done, or has not looked anything up.
LEMMA HandlerIdle ==
    ASSUME TypeInv, StoreTypes', StoreInv', Grows, NEW h \in Handlers, NEW y \in HandlerState,
           handler' = [handler EXCEPT ![h] = y],
           y.wp = 0, y.pc \in {"idle", "load"}, y.pc = "load" => y.key \in Keys
    PROVE  HandlerKept(h)
<1>1. Len(objects') \in Nat
  BY DEF StoreTypes
<1>2. /\ handler' \in [Handlers -> HandlerState] /\ handler'[h] = y
      /\ \A g \in Handlers : g # h => handler'[g] = handler[g]
  BY HandlerSet
<1>3. HandlerInv(handler[h])'
  BY <1>1, <1>2 DEF HandlerInv
<1> QED
  BY <1>2, <1>3 DEF HandlerKept

\* A request begins.
LEMMA HttpStartKept ==
    ASSUME TypeInv, StoreInv, NEW h \in Handlers, NEW kind \in HttpKinds, NEW k \in Keys,
           HttpStart(h, kind, k)
    PROVE  HandlerKept(h)
<1> DEFINE y == [Free EXCEPT !.pc = "load", !.kind = kind, !.key = k]
<1>1. y \in HandlerState /\ y.wp = 0 /\ y.pc = "load" /\ y.key = k
  BY FreeType, AggregatorAssumption DEF HandlerState
<1>2. handler' = [handler EXCEPT ![h] = y]
  BY DEF HttpStart
<1>3. StoreTypes' /\ StoreInv' /\ Grows
  BY StoreSame DEF HttpStart, TypeInv, StoreTypes, ghosts
<1> HIDE DEF y
<1> QED
  BY <1>1, <1>2, <1>3, HandlerIdle

\* The Load half of GetOrCreate, in a request.
LEMMA HttpLoadKept ==
    ASSUME TypeInv, StoreInv, NEW h \in Handlers, HandlerInv(handler[h]), HttpLoad(h)
    PROVE  HandlerKept(h)
<1> DEFINE k == handler[h].key
           found == profiles[k]
           y == [handler[h] EXCEPT !.pc = IF found # Nil THEN "apply" ELSE "create",
                                   !.wp = found]
<1>1. handler[h] \in HandlerState /\ k \in Keys
  BY DEF TypeInv, HttpLoad, HandlerInv
<1>2. found \in Nat /\ found \in 0 .. Len(objects) /\ (found # Nil => Holds(found, k))
  <2>1. found \in Nat /\ Len(objects) \in Nat
    BY <1>1 DEF TypeInv
  <2> QED
    BY <1>1, <2>1 DEF StoreInv, Holds, Nil
<1>3. /\ y \in HandlerState /\ y.wp = found /\ y.key = k
      /\ y.pc = (IF found # Nil THEN "apply" ELSE "create")
  BY <1>1, <1>2 DEF HandlerState
<1>4. handler' = [handler EXCEPT ![h] = y]
  BY <1>1 DEF HttpLoad, TypeInv
<1> HIDE DEF y
<1>5. /\ handler' \in [Handlers -> HandlerState] /\ handler'[h] = y
      /\ \A g \in Handlers : g # h => handler'[g] = handler[g]
  BY <1>3, <1>4, HandlerSet
<1>6. StoreTypes' /\ StoreInv' /\ Grows /\ UNCHANGED <<profiles, objects, deleted>>
  BY StoreSame DEF HttpLoad, TypeInv, StoreTypes, ghosts
<1>7. HandlerInv(handler[h])'
  BY <1>1, <1>2, <1>3, <1>5, <1>6 DEF HandlerInv, Holds
<1> QED
  BY <1>5, <1>6, <1>7 DEF HandlerKept

\* The LoadOrStore half of GetOrCreate, in a request.
LEMMA HttpCreateKept ==
    ASSUME TypeInv, StoreInv, NEW h \in Handlers, HandlerInv(handler[h]), HttpCreate(h)
    PROVE  HandlerKept(h)
<1>1. handler[h] \in HandlerState /\ handler[h].key \in Keys
  BY DEF TypeInv, HttpCreate, HandlerInv
<1> PICK k \in Keys : k = handler[h].key
  BY <1>1
<1> DEFINE y == [handler[h] EXCEPT !.pc = "apply", !.wp = profiles'[k]]
<1>2. StoreTypes' /\ StoreInv' /\ Grows /\ Holds(profiles[k], k)'
  BY <1>1, LoadOrStoreStep DEF HttpCreate, TypeInv, StoreTypes, ghosts
<1>3. profiles'[k] \in Nat
  BY <1>2 DEF StoreTypes
<1>4. y \in HandlerState /\ y.wp = profiles'[k] /\ y.pc = "apply" /\ y.key = k
  BY <1>1, <1>3 DEF HandlerState
<1>5. handler' = [handler EXCEPT ![h] = y]
  BY <1>1 DEF HttpCreate, TypeInv
<1> HIDE DEF y
<1>6. /\ handler' \in [Handlers -> HandlerState] /\ handler'[h] = y
      /\ \A g \in Handlers : g # h => handler'[g] = handler[g]
  BY <1>4, <1>5, HandlerSet
<1>7. profiles'[k] \in 1 .. Len(objects') /\ objects'[profiles'[k]].key = k
  BY <1>2 DEF Holds
<1>8. HandlerInv(handler[h])'
  <2>1. Len(objects') \in Nat
    BY <1>2 DEF StoreTypes
  <2>2. y.wp \in 0 .. Len(objects')
    BY <1>4, <1>7, <2>1
  <2> QED
    BY <1>4, <1>6, <1>7, <2>2 DEF HandlerInv, Holds
<1> QED
  BY <1>2, <1>6, <1>8 DEF HandlerKept

\* What /api/simulate-events records is an event with an unused number.
LEMMA SimulatedType ==
    ASSUME TypeInv, NEW h \in Handlers, handler[h].key \in Keys
    PROVE  Simulated(h) \in Event
<1>1. ingested + 1 \in Nat
  BY AggregatorAssumption DEF TypeInv
<1> QED
  BY <1>1 DEF Simulated, Event

\* /api/simulate-events records in the profile that the request holds.
LEMMA SimulateKept ==
    ASSUME TypeInv, StoreInv, NEW h \in Handlers, HandlerInv(handler[h]), NEW node \in Nodes,
           Simulate(h, node)
    PROVE  HandlerKept(h)
<1> DEFINE w == handler[h].wp
           e == Simulated(h)
           o == [objects[w] EXCEPT !.events = @ \cup {e}, !.nodeLocations = @ \cup {node}]
<1>1. /\ StoreTypes /\ w \in 1 .. Len(objects) /\ objects[w].key = handler[h].key
      /\ handler[h].key \in Keys
  BY DEF TypeInv, StoreTypes, Simulate, HandlerInv, Holds
<1>2. objects[w] \in Object
  BY <1>1 DEF StoreTypes
<1>3. e \in Event /\ e.key = objects[w].key
  BY <1>1, SimulatedType DEF Simulated
<1> HIDE DEF e
<1>4. /\ o \in Object /\ o.key = objects[w].key /\ o.events = objects[w].events \cup {e}
      /\ objects[w].nodeLocations \subseteq o.nodeLocations
  BY <1>2, <1>3 DEF Object
<1>5. \A d \in o.events : d.key = o.key
  BY <1>1, <1>3, <1>4 DEF StoreInv
<1>6. objects' = [objects EXCEPT ![w] = o]
  BY <1>1 DEF Simulate, TypeInv, e
<1>7. UNCHANGED <<profiles, deleted, erased>> /\ erased \subseteq Keys
  BY DEF Simulate, TypeInv
<1> HIDE DEF o, w
<1>8. StoreTypes' /\ StoreInv' /\ Grows
  BY <1>1, <1>4, <1>5, <1>6, <1>7, ObjectStep
<1>9. handler' = [handler EXCEPT ![h] = Free]
  BY DEF Simulate
<1> QED
  BY <1>8, <1>9, FreeType, HandlerIdle

\* /api/reset-profile empties the profile that the request holds.
LEMMA ResetProfileKept ==
    ASSUME TypeInv, StoreInv, NEW h \in Handlers, HandlerInv(handler[h]), ResetProfile(h)
    PROVE  HandlerKept(h)
<1> DEFINE w == handler[h].wp
           k == handler[h].key
           o == [objects[w] EXCEPT !.events = {}]
<1>1. StoreTypes /\ w \in 1 .. Len(objects) /\ objects[w].key = k /\ k \in Keys
  BY DEF TypeInv, StoreTypes, ResetProfile, HandlerInv, Holds
<1>2. objects[w] \in Object
  BY <1>1 DEF StoreTypes
<1>3. /\ o \in Object /\ o.key = k /\ o.events = {}
      /\ o.nodeLocations = objects[w].nodeLocations
  BY <1>1, <1>2 DEF Object
<1>4. objects' = [objects EXCEPT ![w] = o]
  BY <1>1 DEF ResetProfile, TypeInv
<1>5. /\ UNCHANGED <<profiles, deleted>> /\ erased' = erased \cup {k}
      /\ erased \subseteq Keys
  BY DEF ResetProfile, TypeInv
<1> HIDE DEF o, w, k
<1>6. StoreTypes' /\ StoreInv' /\ Grows
  BY <1>1, <1>3, <1>4, <1>5, ObjectStep
<1>7. handler' = [handler EXCEPT ![h] = Free]
  BY DEF ResetProfile
<1> QED
  BY <1>6, <1>7, FreeType, HandlerIdle

\* The query's steps read the store.
LEMMA QueryStep ==
    ASSUME TypeInv, StoreInv, NEW h \in Handlers, NEW y \in HandlerState,
           handler' = [handler EXCEPT ![h] = y],
           UNCHANGED <<profiles, objects, erased, deleted>>,
           y.pc \in {"range", "compute", "replied"}, y.wp \in 0 .. Len(objects), QueryInv(y)
    PROVE  HandlerKept(h)
<1>1. /\ handler' \in [Handlers -> HandlerState] /\ handler'[h] = y
      /\ \A g \in Handlers : g # h => handler'[g] = handler[g]
  BY HandlerSet
<1>2. StoreTypes' /\ StoreInv' /\ Grows
  BY StoreSame DEF TypeInv, StoreTypes
<1>3. HandlerInv(handler[h])'
  BY <1>1 DEF HandlerInv, QueryInv, OnNode
<1> QED
  BY <1>1, <1>2, <1>3 DEF HandlerKept

\* A node query begins, with all keys yet to be visited.
LEMMA QueryStartKept ==
    ASSUME TypeInv, StoreInv, NEW h \in Handlers, NEW node \in Nodes, QueryStart(h, node)
    PROVE  HandlerKept(h)
<1> DEFINE y == [Free EXCEPT !.pc = "range", !.kind = "query", !.node = node, !.todo = Keys,
                             !.owed = {k \in Keys : OnNode(k, node)}]
<1>1. /\ y \in HandlerState /\ y.pc = "range" /\ y.node = node /\ y.todo = Keys
      /\ y.owed = {k \in Keys : OnNode(k, node)} /\ y.wp = 0 /\ y.result = {}
  <2>1. Free.result = {}
    BY DEF Free
  <2> QED
    BY <2>1, FreeType DEF HandlerState
<1>2. handler' = [handler EXCEPT ![h] = y] /\ UNCHANGED <<profiles, objects, erased, deleted>>
  BY DEF QueryStart, ghosts
<1>3. Len(objects) \in Nat
  BY DEF TypeInv
<1> HIDE DEF y
<1>4. QueryInv(y)
  BY <1>1 DEF QueryInv
<1>5. y.wp \in 0 .. Len(objects) /\ y.pc \in {"range", "compute", "replied"}
  BY <1>1, <1>3
<1>6. y \in HandlerState
  BY <1>1
<1> QED
  BY <1>2, <1>4, <1>5, <1>6, QueryStep

\* Range visits a key that is in the map.
LEMMA QueryVisitKept ==
    ASSUME TypeInv, StoreInv, NEW h \in Handlers, HandlerInv(handler[h]), NEW k \in Keys,
           QueryVisit(h, k)
    PROVE  HandlerKept(h)
<1> DEFINE x == handler[h]
           y == [x EXCEPT !.todo = @ \ {k},
                          !.pc = IF OnNode(k, x.node) THEN "compute" ELSE "range",
                          !.key = k, !.wp = profiles[k]]
<1>1. x \in HandlerState /\ x.pc = "range" /\ k \in x.todo /\ QueryInv(x)
  BY DEF TypeInv, QueryVisit, HandlerInv
<1>2. /\ profiles[k] \in Nat /\ profiles[k] \in 0 .. Len(objects)
      /\ profiles[k] # Nil => profiles[k] \in 1 .. Len(objects) /\ objects[profiles[k]].key = k
  <2>1. profiles[k] \in Nat /\ Len(objects) \in Nat
    BY DEF TypeInv
  <2> QED
    BY <2>1 DEF StoreInv, Nil
<1>3. /\ y \in HandlerState /\ y.todo = x.todo \ {k} /\ y.key = k /\ y.wp = profiles[k]
      /\ y.pc = (IF OnNode(k, x.node) THEN "compute" ELSE "range")
      /\ y.owed = x.owed /\ y.node = x.node /\ y.result = x.result
  BY <1>1, <1>2 DEF HandlerState
<1>4. handler' = [handler EXCEPT ![h] = y] /\ UNCHANGED <<profiles, objects, erased, deleted>>
  BY <1>1 DEF QueryVisit, TypeInv, ghosts
<1>5. y.pc = "compute" => profiles[k] # Nil
  BY <1>3 DEF OnNode
<1> HIDE DEF y, x
<1>6. QueryInv(y)
  BY <1>1, <1>2, <1>3, <1>5 DEF QueryInv
<1> QED
  BY <1>2, <1>3, <1>4, <1>6, QueryStep

\* The query reads the node locations of the profile it visits.
LEMMA QueryComputeKept ==
    ASSUME TypeInv, StoreInv, NEW h \in Handlers, HandlerInv(handler[h]), QueryCompute(h)
    PROVE  HandlerKept(h)
<1> DEFINE x == handler[h]
           a == [key |-> x.key, events |-> objects[x.wp].events]
           y == [x EXCEPT !.pc = "range", !.result = @ \cup {a}]
<1>1. /\ x \in HandlerState /\ x.pc = "compute" /\ QueryInv(x)
      /\ x.wp \in 0 .. Len(objects)
  BY DEF TypeInv, QueryCompute, HandlerInv
<1>2. x.key \in Keys /\ x.wp \in 1 .. Len(objects) /\ objects[x.wp].key = x.key
  BY <1>1 DEF QueryInv
<1>3. objects[x.wp] \in Object
  BY <1>2 DEF TypeInv
<1>4. a \in Answer /\ a.key = x.key /\ a.events = objects[x.wp].events
  BY <1>2, <1>3 DEF Answer, Object
<1>5. \A e \in a.events : e.key = a.key
  BY <1>2, <1>4 DEF StoreInv
<1> HIDE DEF a
<1>6. /\ y \in HandlerState /\ y.pc = "range" /\ y.result = x.result \cup {a}
      /\ y.todo = x.todo /\ y.key = x.key /\ y.wp = x.wp /\ y.owed = x.owed /\ y.node = x.node
  BY <1>1, <1>4 DEF HandlerState
<1>7. handler' = [handler EXCEPT ![h] = y] /\ UNCHANGED <<profiles, objects, erased, deleted>>
  BY <1>1 DEF QueryCompute, TypeInv, ghosts, a
<1> HIDE DEF y, x
<1>8. QueryInv(y)
  <2>1. \A k \in y.owed \ deleted :
           OnNode(k, y.node) /\ (k \in y.todo \/ \E r \in y.result : r.key = k)
    BY <1>1, <1>4, <1>6 DEF QueryInv
  <2>2. \A r \in y.result : r.key \notin y.todo /\ \A e \in r.events : e.key = r.key
    BY <1>1, <1>4, <1>5, <1>6 DEF QueryInv
  <2>3. \A r, q \in y.result : r.key = q.key => r = q
    BY <1>1, <1>4, <1>6 DEF QueryInv
  <2> QED
    BY <1>6, <2>1, <2>2, <2>3 DEF QueryInv
<1> QED
  BY <1>1, <1>6, <1>7, <1>8, QueryStep

\* The query answers when its Range has no key left.
LEMMA QueryReturnKept ==
    ASSUME TypeInv, StoreInv, NEW h \in Handlers, HandlerInv(handler[h]), QueryReturn(h)
    PROVE  HandlerKept(h)
<1> DEFINE x == handler[h]
           y == [x EXCEPT !.pc = "replied"]
<1>1. /\ x \in HandlerState /\ x.pc = "range" /\ x.todo = {} /\ QueryInv(x)
      /\ x.wp \in 0 .. Len(objects)
  BY DEF TypeInv, QueryReturn, HandlerInv
<1>2. /\ y \in HandlerState /\ y.pc = "replied" /\ y.result = x.result
      /\ y.todo = x.todo /\ y.wp = x.wp /\ y.owed = x.owed /\ y.node = x.node
  BY <1>1 DEF HandlerState
<1>3. handler' = [handler EXCEPT ![h] = y] /\ UNCHANGED <<profiles, objects, erased, deleted>>
  BY <1>1 DEF QueryReturn, TypeInv, ghosts
<1> HIDE DEF y, x
<1>4. QueryInv(y)
  BY <1>1, <1>2 DEF QueryInv
<1> QED
  BY <1>1, <1>2, <1>3, <1>4, QueryStep

\* The goroutine of an answered query is free again.
LEMMA QueryDoneKept ==
    ASSUME TypeInv, StoreInv, NEW h \in Handlers, QueryDone(h)
    PROVE  HandlerKept(h)
<1>1. handler' = [handler EXCEPT ![h] = Free] /\ UNCHANGED <<profiles, objects, erased, deleted>>
  BY DEF QueryDone, ghosts
<1>2. StoreTypes' /\ StoreInv' /\ Grows
  BY <1>1, StoreSame DEF TypeInv, StoreTypes
<1> QED
  BY <1>1, <1>2, FreeType, HandlerIdle

\* Every step of a handler keeps what is invariant about handlers.
LEMMA HandlerStepKept ==
    ASSUME TypeInv, StoreInv, NEW h \in Handlers, HandlerInv(handler[h]),
           \/ \E kind \in HttpKinds : \E k \in Keys : HttpStart(h, kind, k)
           \/ \E n \in Nodes : QueryStart(h, n)
           \/ HandlerStep(h)
    PROVE  HandlerKept(h)
BY HttpStartKept, HttpLoadKept, HttpCreateKept, SimulateKept, ResetProfileKept, QueryStartKept,
   QueryVisitKept, QueryComputeKept, QueryReturnKept, QueryDoneKept DEF HandlerStep

-----------------------------------------------------------------------------
(* All goroutines together. *)

\* The ghosts and the counters.
OtherTypes ==
    /\ ingested \in 0 .. MaxEvents
    /\ requests \in Nat
    /\ acked \subseteq Event
    /\ recorded \in [1 .. MaxEvents -> Nat]

\* The types of the state that is not a stream's or a handler's.
LEMMA OtherTypesNext == TypeInv /\ [Next]_vars => OtherTypes'
<1> SUFFICES ASSUME TypeInv, [Next]_vars
             PROVE  OtherTypes'
  OBVIOUS
<1>1. OtherTypes
  BY DEF TypeInv, OtherTypes
<1>2. ASSUME NEW s \in Streams, NEW n \in Nodes, NEW b \in BatchKinds, Recv(s, n, b)
      PROVE  OtherTypes'
  <2>1. Len(b) \in Nat
    <3> DEFINE R == [key : Keys \cup {NoKey}, counted : BOOLEAN]
    <3>1. b \in Seq(R)
      BY AggregatorAssumption
    <3> HIDE DEF R
    <3> QED
      BY <3>1
  <2>2. ingested' \in 0 .. MaxEvents
    BY <1>1, <1>2, <2>1, AggregatorAssumption DEF Recv, OtherTypes
  <2> QED
    BY <1>1, <1>2, <2>2 DEF Recv, OtherTypes, ghosts
<1>3. ASSUME NEW s \in Streams, StreamRecord(s)
      PROVE  OtherTypes'
  <2>1. recorded' \in [1 .. MaxEvents -> Nat]
    BY <1>1, <1>3 DEF StreamRecord, OtherTypes
  <2> QED
    BY <1>1, <1>3, <2>1 DEF StreamRecord, OtherTypes
<1>4. ASSUME NEW s \in Streams, SendAck(s)
      PROVE  OtherTypes'
  <2>1. stream[s] \in StreamState
    BY DEF TypeInv
  <2>2. stream[s].events \in Seq(Event)
    BY <2>1 DEF StreamState
  <2>3. \A i \in DOMAIN stream[s].events : stream[s].events[i] \in Event
    BY <2>2
  <2>4. acked' \subseteq Event
    BY <1>1, <1>4, <2>3 DEF SendAck, OtherTypes
  <2> QED
    BY <1>1, <1>4, <2>4 DEF SendAck, OtherTypes
<1>5. ASSUME NEW s \in Streams, SkipEvent(s) \/ StreamLoad(s) \/ StreamCreate(s)
      PROVE  OtherTypes'
  BY <1>1, <1>5 DEF SkipEvent, StreamLoad, StreamCreate, OtherTypes, ghosts
<1>6. ASSUME NEW h \in Handlers,
             \/ \E kind \in HttpKinds : \E k \in Keys : HttpStart(h, kind, k)
             \/ \E n \in Nodes : QueryStart(h, n)
      PROVE  OtherTypes'
  <2>1. UNCHANGED <<ingested, acked, recorded>> /\ requests' = requests + 1
    BY <1>6 DEF HttpStart, QueryStart, ghosts
  <2> QED
    BY <1>1, <2>1 DEF OtherTypes
<1>7. ASSUME NEW h \in Handlers, HandlerStep(h)
      PROVE  OtherTypes'
  <2>1. ASSUME NEW n \in Nodes, Simulate(h, n)
        PROVE  OtherTypes'
    <3>1. ingested' \in 0 .. MaxEvents /\ recorded' \in [1 .. MaxEvents -> Nat]
      BY <1>1, <2>1, AggregatorAssumption DEF Simulate, OtherTypes
    <3> QED
      BY <1>1, <2>1, <3>1 DEF Simulate, OtherTypes
  <2>2. CASE ~\E n \in Nodes : Simulate(h, n)
    <3>1. UNCHANGED <<ingested, requests, acked, recorded>>
      BY <1>7, <2>2 DEF HandlerStep, HttpLoad, HttpCreate, ResetProfile, QueryVisit,
                  QueryCompute, QueryReturn, QueryDone, ghosts
    <3> QED
      BY <1>1, <3>1 DEF OtherTypes
  <2> QED
    BY <2>1, <2>2
<1>8. ASSUME NEW k \in Keys, Delete(k)
      PROVE  OtherTypes'
  BY <1>1, <1>8 DEF Delete, OtherTypes
<1>9. CASE UNCHANGED vars
  BY <1>1, <1>9 DEF vars, OtherTypes
<1> QED
  BY <1>2, <1>3, <1>4, <1>5, <1>6, <1>7, <1>8, <1>9 DEF Next, StreamStep

\* The invariants of the store, the streams and the handlers.
LocalInv ==
    /\ StoreInv
    /\ \A s \in Streams : StreamInv(stream[s])
    /\ \A h \in Handlers : HandlerInv(handler[h])

\* Every step keeps what is invariant about each stream and each handler.
LEMMA LocalInvNext == TypeInv /\ LocalInv /\ [Next]_vars => TypeInv' /\ LocalInv' /\ Grows
<1> SUFFICES ASSUME TypeInv, LocalInv, [Next]_vars
             PROVE  TypeInv' /\ LocalInv' /\ Grows
  OBVIOUS
<1> USE DEF LocalInv
<1>1. OtherTypes' /\ StoreTypes
  BY OtherTypesNext DEF TypeInv, StoreTypes
<1>2. ASSUME StoreTypes', StoreInv', Grows,
             stream' \in [Streams -> StreamState],
             handler' \in [Handlers -> HandlerState],
             \A s \in Streams : stream'[s] = stream[s] \/ StreamInv(stream[s])',
             \A h \in Handlers : handler'[h] = handler[h] \/ HandlerInv(handler[h])'
      PROVE  TypeInv' /\ LocalInv' /\ Grows
  <2>1. \A s \in Streams : StreamInv(stream[s])'
    BY <1>1, <1>2, StreamFrame
  <2>2. \A h \in Handlers : HandlerInv(handler[h])'
    BY <1>2, HandlerFrame
  <2>3. TypeInv'
    BY <1>1, <1>2 DEF TypeInv, StoreTypes, OtherTypes
  <2> QED
    BY <1>2, <2>1, <2>2, <2>3
<1>3. stream \in [Streams -> StreamState] /\ handler \in [Handlers -> HandlerState]
  BY DEF TypeInv
<1>4. ASSUME NEW s \in Streams,
             \/ \E n \in Nodes : \E b \in BatchKinds : Recv(s, n, b)
             \/ StreamStep(s)
      PROVE  TypeInv' /\ LocalInv' /\ Grows
  <2>1. StreamKept(s)
    BY <1>4, StreamStepKept
  <2>2. handler' = handler
    BY <1>4 DEF StreamStep, Recv, SkipEvent, StreamLoad, StreamCreate, StreamRecord, SendAck
  <2> QED
    BY <1>2, <1>3, <2>1, <2>2 DEF StreamKept
<1>5. ASSUME NEW h \in Handlers,
             \/ \E kind \in HttpKinds : \E k \in Keys : HttpStart(h, kind, k)
             \/ \E n \in Nodes : QueryStart(h, n)
             \/ HandlerStep(h)
      PROVE  TypeInv' /\ LocalInv' /\ Grows
  <2>1. HandlerKept(h)
    BY <1>5, HandlerStepKept
  <2>2. stream' = stream
    BY <1>5 DEF HandlerStep, HttpStart, HttpLoad, HttpCreate, Simulate, ResetProfile, QueryStart,
                QueryVisit, QueryCompute, QueryReturn, QueryDone
  <2> QED
    BY <1>2, <1>3, <2>1, <2>2 DEF HandlerKept
<1>6. ASSUME NEW k \in Keys, Delete(k)
      PROVE  TypeInv' /\ LocalInv' /\ Grows
  <2>1. StoreTypes' /\ StoreInv' /\ Grows
    BY <1>1, <1>6, DeleteStep
  <2>2. stream' = stream /\ handler' = handler
    BY <1>6 DEF Delete
  <2> QED
    BY <1>2, <1>3, <2>1, <2>2
<1>7. CASE UNCHANGED vars
  <2>1. UNCHANGED <<profiles, objects, erased, deleted, stream, handler>>
    BY <1>7 DEF vars
  <2>2. StoreTypes' /\ StoreInv' /\ Grows
    BY <1>1, <2>1, StoreSame
  <2> QED
    BY <1>2, <1>3, <2>1, <2>2
<1> QED
  BY <1>4, <1>5, <1>6, <1>7 DEF Next

-----------------------------------------------------------------------------
(* The events. *)

\* What is kept stays kept, unless its workload is erased.
LEMMA KeptLater ==
    ASSUME StoreInv', Grows, NEW e \in Event, Kept(e),
           e.counted /\ e.key # NoKey => recorded'[e.id] = recorded[e.id]
    PROVE  KeptIn(e, recorded', erased', profiles', objects')
<1> SUFFICES ASSUME e.counted, e.key # NoKey, e.key \notin erased'
             PROVE  profiles'[e.key] # Nil /\ e \in objects'[profiles'[e.key]].events
  BY DEF Kept, KeptIn
<1>1. e.key \in Keys /\ e.key \notin erased /\ e.key \notin deleted'
  BY DEF Event, Grows, StoreInv
<1>2. profiles[e.key] # Nil /\ e \in objects[profiles[e.key]].events
  BY <1>1 DEF Kept, KeptIn
<1> QED
  BY <1>1, <1>2 DEF Grows

\* The types of the batch that a stream holds.
LEMMA StreamEvents ==
    ASSUME TypeInv, NEW s \in Streams
    PROVE  /\ stream[s].events \in Seq(Event) /\ Len(stream[s].events) \in Nat
           /\ stream[s].next \in Nat \ {0}
           /\ \A i \in 1 .. Len(stream[s].events) :
                stream[s].events[i] \in Event /\ stream[s].events[i].id \in Nat
<1>1. stream[s] \in StreamState
  BY DEF TypeInv
<1>2. stream[s].events \in Seq(Event) /\ stream[s].next \in Nat \ {0}
  BY <1>1 DEF StreamState
<1>3. \A i \in 1 .. Len(stream[s].events) : stream[s].events[i] \in Event
  BY <1>2
<1> QED
  BY <1>2, <1>3 DEF Event

\* A batch of which no event is recorded in the step.
LEMMA BatchLater ==
    ASSUME TypeInv, StoreInv', Grows, NEW t \in Streams, BatchInv(stream[t]),
           stream'[t].events = stream[t].events, stream'[t].next = stream[t].next,
           ingested' \in Nat, ingested <= ingested',
           \A i \in 1 .. Len(stream[t].events) :
             recorded'[stream[t].events[i].id] = recorded[stream[t].events[i].id]
    PROVE  BatchInv(stream[t])'
<1> DEFINE es == stream[t].events
           n == stream[t].next
<1>1. ingested \in Nat /\ ingested' \in Nat
  BY AggregatorAssumption DEF TypeInv
<1>2. ASSUME NEW i \in 1 .. Len(es)
      PROVE  /\ es[i].id \in 1 .. ingested'
             /\ i < n => KeptIn(es[i], recorded', erased', profiles', objects')
             /\ i >= n => recorded'[es[i].id] = 0
  <2>1. es[i] \in Event /\ es[i].id \in 1 .. ingested
    BY StreamEvents DEF BatchInv
  <2>2. i < n => KeptIn(es[i], recorded', erased', profiles', objects')
    BY <2>1, KeptLater DEF BatchInv
  <2> QED
    BY <1>1, <2>1, <2>2 DEF BatchInv
<1> QED
  BY <1>2 DEF BatchInv, Kept

\* Events stay distinct as long as no stream takes a new batch.
LEMMA UniqueSame ==
    ASSUME UniqueInv, \A t \in Streams : stream'[t].events = stream[t].events
    PROVE  UniqueInv'
<1> SUFFICES ASSUME NEW t \in Streams, NEW u \in Streams,
                    NEW i \in 1 .. Len(stream'[t].events), NEW j \in 1 .. Len(stream'[u].events),
                    stream'[t].events[i].id = stream'[u].events[j].id
             PROVE  t = u /\ i = j
  BY DEF UniqueInv
<1>1. stream'[t].events = stream[t].events /\ stream'[u].events = stream[u].events
  OBVIOUS
<1>2. i \in 1 .. Len(stream[t].events) /\ j \in 1 .. Len(stream[u].events)
  BY <1>1, Zenon
<1>3. stream[t].events[i].id = stream[u].events[j].id
  BY <1>1, Zenon
<1>4. \A x, y \in Streams :
         \A m \in 1 .. Len(stream[x].events), n \in 1 .. Len(stream[y].events) :
           stream[x].events[m].id = stream[y].events[n].id => x = y /\ m = n
  BY Zenon DEF UniqueInv
<1> QED
  BY <1>2, <1>3, <1>4

\* The batches are as they were, and nothing is recorded.
LEMMA EventsFrame ==
    ASSUME TypeInv, StoreInv', Grows, EventsInv,
           \A t \in Streams : stream'[t].events = stream[t].events
                              /\ stream'[t].next = stream[t].next,
           UNCHANGED <<ingested, recorded, acked>>
    PROVE  EventsInv'
<1>1. ingested' \in Nat /\ ingested <= ingested'
  BY AggregatorAssumption DEF TypeInv
<1>2. \A t \in Streams : BatchInv(stream[t])'
  BY <1>1, BatchLater DEF EventsInv
<1>3. UniqueInv'
  BY UniqueSame DEF EventsInv
<1>4. \A e \in acked' : e.id \in 1 .. ingested'
                         /\ KeptIn(e, recorded', erased', profiles', objects')
  BY KeptLater DEF EventsInv, TypeInv
<1> QED
  BY <1>2, <1>3, <1>4 DEF EventsInv, Kept

\* A batch arrives: its identifiers are new.
LEMMA EventsRecv ==
    ASSUME TypeInv, TypeInv', StoreInv', Grows, EventsInv, NEW s \in Streams, NEW node \in Nodes,
           NEW kind \in BatchKinds, Recv(s, node, kind)
    PROVE  EventsInv'
<1> DEFINE R == [key : Keys \cup {NoKey}, counted : BOOLEAN]
           es == [i \in 1 .. Len(kind) |-> [id |-> ingested + i, key |-> kind[i].key,
                                            counted |-> kind[i].counted]]
           y == [pc |-> "load", node |-> node, next |-> 1, wp |-> Nil, events |-> es]
<1>1. kind \in Seq(R)
  BY AggregatorAssumption
<1> HIDE DEF R
<1>2. Len(kind) \in Nat /\ DOMAIN kind = 1 .. Len(kind)
  BY <1>1
<1>3. stream' = [stream EXCEPT ![s] = y]
  BY <1>2 DEF Recv
<1>4. Len(es) = Len(kind) /\ \A i \in 1 .. Len(kind) : es[i].id = ingested + i
  BY <1>2
<1> HIDE DEF es
<1>5. y.events = es /\ y.next = 1
  OBVIOUS
<1> HIDE DEF y
<1>6. stream'[s] = y /\ \A t \in Streams : t # s => stream'[t] = stream[t]
  BY <1>3 DEF TypeInv
<1>7. /\ ingested \in Nat /\ ingested' = ingested + Len(kind) /\ ingested' <= MaxEvents
      /\ MaxEvents \in Nat /\ UNCHANGED <<recorded, acked>>
  BY AggregatorAssumption DEF TypeInv, Recv, ghosts
<1>8. \A n \in 1 .. MaxEvents : n > ingested => recorded'[n] = 0
  BY <1>7 DEF EventsInv
<1>9. BatchInv(stream[s])'
  <2>1. ASSUME NEW i \in 1 .. Len(kind)
        PROVE  es[i].id \in 1 .. ingested' /\ recorded'[es[i].id] = 0
    BY <1>2, <1>4, <1>7, <1>8
  <2> QED
    BY <1>2, <1>4, <1>5, <1>6, <2>1 DEF BatchInv
<1>10. \A t \in Streams : BatchInv(stream[t])'
  <2> TAKE t \in Streams
  <2>1. CASE t # s
    <3>1. ingested' \in Nat /\ ingested <= ingested'
      BY <1>2, <1>7
    <3>2. stream'[t] = stream[t]
      BY <1>6, <2>1
    <3> QED
      BY <1>7, <3>1, <3>2, BatchLater DEF EventsInv
  <2> QED
    BY <1>9, <2>1
<1>11. UniqueInv'
  <2>1. \A t \in Streams : t # s => \A j \in 1 .. Len(stream[t].events) :
                                       stream[t].events[j].id \in 1 .. ingested
    BY DEF EventsInv, BatchInv
  <2>2. \A t \in Streams : t # s =>
           \A i \in 1 .. Len(es), j \in 1 .. Len(stream[t].events) :
             es[i].id # stream[t].events[j].id
    BY <1>2, <1>4, <1>7, <2>1
  <2>3. \A i, j \in 1 .. Len(es) : es[i].id = es[j].id => i = j
    BY <1>2, <1>4, <1>7
  <2> SUFFICES ASSUME NEW t \in Streams, NEW u \in Streams,
                      NEW i \in 1 .. Len(stream'[t].events), NEW j \in 1 .. Len(stream'[u].events),
                      stream'[t].events[i].id = stream'[u].events[j].id
               PROVE  t = u /\ i = j
    BY DEF UniqueInv
  <2>4. CASE t = s /\ u = s
    BY <1>5, <1>6, <2>3, <2>4
  <2>5. CASE t = s /\ u # s
    <3>1. stream'[u] = stream[u] /\ stream'[t].events = es
      BY <1>5, <1>6, <2>5
    <3>2. i \in 1 .. Len(es) /\ j \in 1 .. Len(stream[u].events)
      BY <3>1
    <3>3. es[i].id # stream[u].events[j].id
      BY <2>2, <2>5, <3>2
    <3> QED
      BY <3>1, <3>3
  <2>6. CASE t # s /\ u = s
    <3>1. stream'[t] = stream[t] /\ stream'[u].events = es
      BY <1>5, <1>6, <2>6
    <3>2. j \in 1 .. Len(es) /\ i \in 1 .. Len(stream[t].events)
      BY <3>1
    <3>3. es[j].id # stream[t].events[i].id
      BY <2>2, <2>6, <3>2
    <3> QED
      BY <3>1, <3>3
  <2>7. CASE t # s /\ u # s
    <3>1. stream'[t] = stream[t] /\ stream'[u] = stream[u]
      BY <1>6, <2>7
    <3>2. UniqueInv
      BY DEF EventsInv
    <3> QED
      BY <3>1, <3>2 DEF UniqueInv
  <2> QED
    BY <2>4, <2>5, <2>6, <2>7
<1>12. \A e \in acked' : e.id \in 1 .. ingested'
                          /\ KeptIn(e, recorded', erased', profiles', objects')
  <2> TAKE e \in acked'
  <2>1. e.id \in 1 .. ingested /\ Kept(e) /\ e \in Event
    BY <1>7 DEF EventsInv, TypeInv
  <2> QED
    BY <1>2, <1>7, <2>1, KeptLater
<1>13. \A n \in 1 .. MaxEvents : n > ingested' => recorded'[n] = 0
  BY <1>2, <1>7, <1>8
<1> QED
  BY <1>10, <1>11, <1>12, <1>13 DEF EventsInv, Kept

\* The next event needs no recording, or is recorded in this step.
LEMMA EventsAdvance ==
    ASSUME TypeInv, TypeInv', StoreInv', Grows, EventsInv, NEW s \in Streams, InBatch(s),
           stream'[s].events = stream[s].events, stream'[s].next = stream[s].next + 1,
           \A t \in Streams : t # s => stream'[t] = stream[t],
           UNCHANGED <<ingested, acked>>,
           \A n \in 1 .. MaxEvents : n # EventOf(s).id => recorded'[n] = recorded[n],
           KeptIn(EventOf(s), recorded', erased', profiles', objects')
    PROVE  EventsInv'
<1> DEFINE es == stream[s].events
           n == stream[s].next
           id == es[n].id
<1>1. /\ ingested \in 0 .. MaxEvents /\ MaxEvents \in Nat
      /\ n \in 1 .. Len(es) /\ EventOf(s) = es[n] /\ Len(es) \in Nat
  BY StreamEvents, EventOfType, AggregatorAssumption DEF TypeInv, EventOf
<1>2. id \in 1 .. ingested /\ recorded[id] = 0
  <2>1. BatchInv(stream[s]) /\ n >= n
    BY <1>1 DEF EventsInv
  <2> QED
    BY <1>1, <2>1 DEF BatchInv
<1>3. ASSUME NEW t \in Streams, NEW i \in 1 .. Len(stream[t].events), t # s \/ i # n
      PROVE  recorded'[stream[t].events[i].id] = recorded[stream[t].events[i].id]
  <2>1. stream[t].events[i].id # id
    BY <1>1, <1>3 DEF EventsInv, UniqueInv
  <2>2. stream[t].events[i].id \in 1 .. MaxEvents
    BY <1>1 DEF EventsInv, BatchInv
  <2> QED
    BY <1>1, <2>1, <2>2
<1>4. BatchInv(stream[s])'
  <2>1. ASSUME NEW i \in 1 .. Len(es)
        PROVE  /\ es[i].id \in 1 .. ingested
               /\ i < n + 1 => KeptIn(es[i], recorded', erased', profiles', objects')
               /\ i >= n + 1 => recorded'[es[i].id] = 0
    <3>1. es[i] \in Event /\ es[i].id \in 1 .. ingested
      BY StreamEvents DEF EventsInv, BatchInv
    <3>2. CASE i = n
      BY <1>1, <3>1, <3>2
    <3>3. CASE i < n
      <4>1. Kept(es[i]) /\ recorded'[es[i].id] = recorded[es[i].id]
        BY <1>1, <1>3, <3>3 DEF EventsInv, BatchInv
      <4>2. KeptIn(es[i], recorded', erased', profiles', objects')
        BY <3>1, <4>1, KeptLater
      <4> QED
        BY <1>1, <3>1, <3>3, <4>2
    <3>4. CASE i > n
      <4>1. recorded[es[i].id] = 0 /\ recorded'[es[i].id] = recorded[es[i].id]
        BY <1>1, <1>3, <3>4 DEF EventsInv, BatchInv
      <4> QED
        BY <1>1, <3>1, <3>4, <4>1
    <3> QED
      BY <1>1, <3>2, <3>3, <3>4
  <2> QED
    BY <2>1 DEF BatchInv, Kept
<1>5. \A t \in Streams : BatchInv(stream[t])'
  <2> TAKE t \in Streams
  <2>1. CASE t # s
    <3>1. stream'[t] = stream[t] /\ ingested' \in Nat /\ ingested <= ingested'
      BY <1>1, <2>1
    <3>2. \A i \in 1 .. Len(stream[t].events) :
             recorded'[stream[t].events[i].id] = recorded[stream[t].events[i].id]
      BY <1>3, <2>1
    <3> QED
      BY <3>1, <3>2, BatchLater DEF EventsInv
  <2> QED
    BY <1>4, <2>1
<1>6. UniqueInv'
  <2>1. \A t \in Streams : stream'[t].events = stream[t].events
    OBVIOUS
  <2>2. UniqueInv
    BY DEF EventsInv
  <2> QED
    BY <2>1, <2>2, UniqueSame
<1>7. \A e \in acked' : e.id \in 1 .. ingested'
                         /\ KeptIn(e, recorded', erased', profiles', objects')
  <2> TAKE e \in acked'
  <2>1. e \in Event /\ Kept(e)
    BY DEF EventsInv, TypeInv
  <2>2. e.counted /\ e.key # NoKey => recorded'[e.id] = recorded[e.id]
    <3>1. e.id \in 1 .. MaxEvents
      BY <1>1 DEF EventsInv
    <3>2. e.counted /\ e.key # NoKey => e.id # id
      BY <1>2, <2>1 DEF Kept, KeptIn
    <3> QED
      BY <1>1, <3>1, <3>2
  <2>3. e.id \in 1 .. ingested'
    BY DEF EventsInv
  <2> QED
    BY <2>1, <2>2, <2>3, KeptLater
<1>8. \A m \in 1 .. MaxEvents : m > ingested' => recorded'[m] = 0
  <2> TAKE m \in 1 .. MaxEvents
  <2>1. m > ingested => m # id /\ recorded[m] = 0
    BY <1>1, <1>2 DEF EventsInv
  <2> QED
    BY <1>1, <2>1
<1> QED
  BY <1>5, <1>6, <1>7, <1>8 DEF EventsInv, Kept

\* Skipping an event keeps the account of recorded events.
LEMMA EventsSkip ==
    ASSUME TypeInv, TypeInv', StoreInv', Grows, EventsInv, NEW s \in Streams, SkipEvent(s)
    PROVE  EventsInv'
<1>1. stream[s] \in StreamState /\ InBatch(s)
  BY DEF TypeInv, SkipEvent
<1>2. /\ stream'[s].events = stream[s].events /\ stream'[s].next = stream[s].next + 1
      /\ \A t \in Streams : t # s => stream'[t] = stream[t]
  BY <1>1 DEF SkipEvent, TypeInv, StreamState
<1>3. UNCHANGED <<ingested, acked, recorded>>
  BY DEF SkipEvent, ghosts
<1>4. KeptIn(EventOf(s), recorded', erased', profiles', objects')
  BY DEF SkipEvent, KeptIn
<1> QED
  BY <1>1, <1>2, <1>3, <1>4, EventsAdvance

\* Recording an event keeps the account of recorded events.
LEMMA EventsRecord ==
    ASSUME TypeInv, TypeInv', StoreInv, StoreInv', Grows, EventsInv, NEW s \in Streams,
           StreamInv(stream[s]), StreamRecord(s)
    PROVE  EventsInv'
<1> DEFINE e == EventOf(s)
           w == stream[s].wp
<1>1. /\ stream[s] \in StreamState /\ InBatch(s) /\ Holds(w, e.key) /\ e.key \in Keys
  BY DEF TypeInv, StreamRecord, StreamInv, InBatch, EventOf
<1>2. e \in Event /\ stream[s].next \in 1 .. Len(stream[s].events)
  BY <1>1, EventOfType
<1>3. /\ stream'[s].events = stream[s].events /\ stream'[s].next = stream[s].next + 1
      /\ \A t \in Streams : t # s => stream'[t] = stream[t]
  BY <1>1 DEF StreamRecord, TypeInv, StreamState
<1>4. UNCHANGED <<ingested, acked, erased, deleted, profiles>>
  BY DEF StreamRecord
<1>5. \A n \in 1 .. MaxEvents : n # e.id => recorded'[n] = recorded[n]
  BY DEF StreamRecord, TypeInv
<1>6. KeptIn(e, recorded', erased', profiles', objects')
  <2>1. CASE e.counted
    <3>1. e.id \in 1 .. ingested /\ recorded[e.id] = 0 /\ e.id \in 1 .. MaxEvents
      <4>1. BatchInv(stream[s]) /\ stream[s].next >= stream[s].next /\ ingested \in 0 .. MaxEvents
        BY <1>2, StreamEvents DEF EventsInv, TypeInv
      <4>2. e.id \in 1 .. ingested /\ recorded[e.id] = 0
        BY <1>2, <4>1 DEF BatchInv, EventOf
      <4> QED
        BY <4>1, <4>2, AggregatorAssumption
    <3>2. recorded'[e.id] = 1
      BY <2>1, <3>1 DEF StreamRecord, TypeInv
    <3>3. objects[w] \in Object /\ w \in 1 .. Len(objects)
      BY <1>1 DEF TypeInv, Holds
    <3>4. e \in objects'[w].events
      BY <2>1, <3>3 DEF StreamRecord, TypeInv, Object
    <3>5. e.key \notin erased => profiles[e.key] = w /\ w # Nil
      BY <1>1, <3>3 DEF StoreInv, Holds, Nil
    <3> QED
      BY <1>4, <3>2, <3>4, <3>5 DEF KeptIn
  <2>2. CASE ~e.counted
    BY <2>2 DEF KeptIn
  <2> QED
    BY <2>1, <2>2
<1> QED
  BY <1>1, <1>3, <1>4, <1>5, <1>6, EventsAdvance

\* The batch is done: all its events are kept, and are now acknowledged.
LEMMA EventsAck ==
    ASSUME TypeInv, TypeInv', StoreInv', Grows, EventsInv, NEW s \in Streams, SendAck(s)
    PROVE  EventsInv'
<1> DEFINE es == stream[s].events
<1>1. /\ es \in Seq(Event) /\ Len(es) \in Nat /\ DOMAIN es = 1 .. Len(es)
      /\ stream[s].next \in Nat /\ ~(stream[s].next <= Len(es))
  BY StreamEvents DEF SendAck, InBatch
<1>2. /\ stream'[s].events = <<>> /\ Len(stream'[s].events) = 0
      /\ \A t \in Streams : t # s => stream'[t] = stream[t]
  BY ReceivingType DEF SendAck, TypeInv
<1>3. /\ acked' = acked \cup {es[i] : i \in DOMAIN es} /\ UNCHANGED <<ingested, recorded>>
      /\ ingested \in Nat
  BY AggregatorAssumption DEF SendAck, TypeInv
<1>4. \A t \in Streams : BatchInv(stream[t])'
  <2> TAKE t \in Streams
  <2>1. CASE t = s
    BY <1>2, <2>1 DEF BatchInv
  <2>2. CASE t # s
    <3>1. stream'[t] = stream[t] /\ ingested' \in Nat /\ ingested <= ingested'
      BY <1>2, <1>3, <2>2
    <3> QED
      BY <1>3, <3>1, BatchLater DEF EventsInv
  <2> QED
    BY <2>1, <2>2
<1>5. UniqueInv'
  <2> SUFFICES ASSUME NEW t \in Streams, NEW u \in Streams,
                      NEW i \in 1 .. Len(stream'[t].events), NEW j \in 1 .. Len(stream'[u].events),
                      stream'[t].events[i].id = stream'[u].events[j].id
               PROVE  t = u /\ i = j
    BY DEF UniqueInv
  <2>1. stream'[t] = stream[t] /\ stream'[u] = stream[u]
    BY <1>2
  <2>2. UniqueInv
    BY DEF EventsInv
  <2> QED
    BY <2>1, <2>2 DEF UniqueInv
<1>6. \A e \in acked' : e.id \in 1 .. ingested'
                         /\ KeptIn(e, recorded', erased', profiles', objects')
  <2> TAKE e \in acked'
  <2>1. e \in Event /\ e.id \in 1 .. ingested /\ Kept(e)
    <3>1. CASE e \in acked
      BY <3>1 DEF EventsInv, TypeInv
    <3>2. CASE e \notin acked
      <4>1. PICK i \in 1 .. Len(es) : e = es[i]
        BY <1>1, <1>3, <3>2
      <4>2. i < stream[s].next /\ BatchInv(stream[s]) /\ es[i] \in Event
        BY <1>1, StreamEvents DEF EventsInv
      <4> QED
        BY <4>1, <4>2 DEF BatchInv
    <3> QED
      BY <3>1, <3>2
  <2> QED
    BY <1>3, <2>1, KeptLater
<1>7. \A n \in 1 .. MaxEvents : n > ingested' => recorded'[n] = 0
  BY <1>3 DEF EventsInv
<1> QED
  BY <1>4, <1>5, <1>6, <1>7 DEF EventsInv, Kept

\* A simulated event has a number that no batch and no ack has.
LEMMA EventsSimulate ==
    ASSUME TypeInv, StoreInv', Grows, EventsInv, NEW h \in Handlers, NEW node \in Nodes,
           Simulate(h, node)
    PROVE  EventsInv'
<1>1. /\ ingested \in Nat /\ MaxEvents \in Nat /\ ingested' = ingested + 1
      /\ UNCHANGED <<stream, acked>>
  BY AggregatorAssumption DEF TypeInv, Simulate
<1>2. \A n \in 1 .. MaxEvents : n # ingested + 1 => recorded'[n] = recorded[n]
  BY DEF Simulate, TypeInv
<1>3. \A n \in 1 .. ingested : recorded'[n] = recorded[n]
  <2>1. \A n \in 1 .. ingested : n \in 1 .. MaxEvents /\ n # ingested + 1
    BY <1>1 DEF TypeInv
  <2> QED
    BY <1>2, <2>1
<1>4. \A t \in Streams : BatchInv(stream[t])'
  <2> TAKE t \in Streams
  <2>1. BatchInv(stream[t]) /\ ingested' \in Nat /\ ingested <= ingested'
    BY <1>1 DEF EventsInv
  <2>2. \A i \in 1 .. Len(stream[t].events) :
          recorded'[stream[t].events[i].id] = recorded[stream[t].events[i].id]
    BY <1>3, <2>1 DEF BatchInv
  <2>3. stream'[t].events = stream[t].events /\ stream'[t].next = stream[t].next
    BY <1>1
  <2> QED
    BY <2>1, <2>2, <2>3, BatchLater
<1>5. UniqueInv'
  BY <1>1, UniqueSame DEF EventsInv
<1>6. \A e \in acked' : e.id \in 1 .. ingested'
                         /\ KeptIn(e, recorded', erased', profiles', objects')
  <2> TAKE e \in acked'
  <2>1. e \in Event /\ e.id \in 1 .. ingested /\ Kept(e)
    BY <1>1 DEF EventsInv, TypeInv
  <2>2. e.id \in 1 .. ingested' /\ recorded'[e.id] = recorded[e.id]
    BY <1>1, <1>3, <2>1
  <2> QED
    BY <2>1, <2>2, KeptLater
<1>7. \A n \in 1 .. MaxEvents : n > ingested' => recorded'[n] = 0
  <2> TAKE n \in 1 .. MaxEvents
  <2>1. n > ingested' => n > ingested /\ n # ingested + 1
    BY <1>1
  <2> QED
    BY <1>2, <2>1 DEF EventsInv
<1> QED
  BY <1>4, <1>5, <1>6, <1>7 DEF EventsInv, Kept

\* Every step keeps the account of which event is in which profile.
LEMMA EventsNext ==
    ASSUME TypeInv, TypeInv', LocalInv, LocalInv', Grows, EventsInv, [Next]_vars
    PROVE  EventsInv'
<1> USE DEF LocalInv
<1>1. stream \in [Streams -> StreamState]
  BY DEF TypeInv
<1>2. ASSUME stream' = stream, UNCHANGED <<ingested, recorded, acked>>
      PROVE  EventsInv'
  BY <1>2, EventsFrame
<1>3. ASSUME NEW s \in Streams, NEW n \in Nodes, NEW b \in BatchKinds, Recv(s, n, b)
      PROVE  EventsInv'
  BY <1>3, EventsRecv
<1>4. ASSUME NEW s \in Streams, StreamLoad(s) \/ StreamCreate(s)
      PROVE  EventsInv'
  <2>1. \A t \in Streams : /\ stream'[t].events = stream[t].events
                           /\ stream'[t].next = stream[t].next
    <3> TAKE t \in Streams
    <3>1. stream[t] \in StreamState
      BY <1>1
    <3>2. CASE t = s
      BY <1>1, <1>4, <3>1, <3>2 DEF StreamLoad, StreamCreate, StreamState
    <3>3. CASE t # s
      BY <1>1, <1>4, <3>3 DEF StreamLoad, StreamCreate
    <3> QED
      BY <3>2, <3>3
  <2>2. UNCHANGED <<ingested, recorded, acked>>
    BY <1>4 DEF StreamLoad, StreamCreate, ghosts
  <2> QED
    BY <2>1, <2>2, EventsFrame
<1>5. ASSUME NEW s \in Streams, SkipEvent(s) \/ StreamRecord(s) \/ SendAck(s)
      PROVE  EventsInv'
  BY <1>5, EventsSkip, EventsRecord, EventsAck
<1>6. ASSUME NEW h \in Handlers,
             \/ \E kind \in HttpKinds : \E k \in Keys : HttpStart(h, kind, k)
             \/ \E n \in Nodes : QueryStart(h, n)
             \/ HandlerStep(h)
      PROVE  EventsInv'
  <2>1. CASE \E n \in Nodes : Simulate(h, n)
    BY <2>1, EventsSimulate
  <2>2. CASE ~\E n \in Nodes : Simulate(h, n)
    <3>1. stream' = stream /\ UNCHANGED <<ingested, recorded, acked>>
      BY <1>6, <2>2 DEF HandlerStep, HttpStart, HttpLoad, HttpCreate, ResetProfile, QueryStart,
                  QueryVisit, QueryCompute, QueryReturn, QueryDone, ghosts
    <3> QED
      BY <1>2, <3>1
  <2> QED
    BY <2>1, <2>2
<1>7. CASE (\E k \in Keys : Delete(k)) \/ UNCHANGED vars
  BY <1>2, <1>7 DEF Delete, vars
<1> QED
  BY <1>3, <1>4, <1>5, <1>6, <1>7 DEF Next, StreamStep

\* The whole invariant.
THEOREM IndInvHolds == Spec => []IndInv
<1>1. Init => IndInv
  <2> SUFFICES ASSUME Init
               PROVE  IndInv
    OBVIOUS
  <2>1. TypeInv
    <3>1. <<>> \in Seq(Object)
      OBVIOUS
    <3> QED
      BY <3>1, ReceivingType, FreeType, AggregatorAssumption DEF Init, TypeInv, Nil
  <2>2. StoreInv
    BY DEF Init, StoreInv
  <2>3. \A s \in Streams : StreamInv(stream[s])
    BY ReceivingType DEF Init, StreamInv
  <2>4. \A h \in Handlers : HandlerInv(handler[h])
    BY FreeType DEF Init, HandlerInv
  <2>5. EventsInv
    <3>1. \A s \in Streams : Len(stream[s].events) = 0
      BY ReceivingType DEF Init
    <3> QED
      BY <3>1 DEF Init, EventsInv, BatchInv, UniqueInv
  <2> QED
    BY <2>1, <2>2, <2>3, <2>4, <2>5 DEF IndInv
<1>2. IndInv /\ [Next]_vars => IndInv'
  <2> SUFFICES ASSUME IndInv, [Next]_vars
               PROVE  IndInv'
    OBVIOUS
  <2>1. TypeInv' /\ LocalInv' /\ Grows
    BY LocalInvNext DEF IndInv, LocalInv
  <2>2. EventsInv'
    BY <2>1, EventsNext DEF IndInv, LocalInv
  <2> QED
    BY <2>1, <2>2 DEF IndInv, LocalInv
<1> QED
  BY <1>1, <1>2, PTL DEF Spec

-----------------------------------------------------------------------------
(* What it shows. *)

\* No goroutine ever uses a profile that does not exist, and what profiles and
\* acknowledgements hold are events and nodes.
THEOREM TypeCorrect == Spec => []TypeOK
<1>1. IndInv => TypeOK
  <2> SUFFICES ASSUME IndInv
               PROVE  TypeOK
    OBVIOUS
  <2>1. TypeInv /\ StoreInv /\ Len(objects) \in Nat
    BY DEF IndInv, TypeInv
  <2>2. \A k \in Keys : profiles[k] \in ObjectIds
    BY <2>1 DEF TypeInv, StoreInv, ObjectIds, Nil
  <2>3. profiles \in [Keys -> ObjectIds]
    BY <2>1, <2>2 DEF TypeInv
  <2>4. \A i \in 1 .. Len(objects) : objects[i] \in Object
    BY <2>1 DEF TypeInv
  <2> QED
    BY <2>1, <2>3, <2>4 DEF IndInv, TypeInv, TypeOK, StreamInv, HandlerInv, ObjectIds, Object
<1> QED
  BY <1>1, IndInvHolds, PTL

\* Goroutines that miss the same key at the same time end up with one profile:
\* a key that is not deleted has one object, and whoever holds one holds that.
THEOREM OneProfile == Spec => []OneProfilePerKey
<1>1. IndInv => OneProfilePerKey
  BY DEF IndInv, StoreInv, StreamInv, HandlerInv, Holds, EventOf, OneProfilePerKey
<1> QED
  BY <1>1, IndInvHolds, PTL

\* An acknowledged event was recorded exactly once and is in the profile that
\* queries see, unless its workload was reset or deleted.
THEOREM AcksAreTrue == Spec => []AckedMeansRecorded
<1>1. IndInv => AckedMeansRecorded
  BY DEF IndInv, EventsInv, Kept, KeptIn, AckedMeansRecorded
<1> QED
  BY <1>1, IndInvHolds, PTL

\* A node query, however its visits interleave with ingestion, resets and
\* deletions, misses no workload that was there when it began, and mixes none.
THEOREM NodeQueriesComplete == Spec => []NodeQueryComplete
<1>1. IndInv => NodeQueryComplete
  <2> SUFFICES ASSUME IndInv, NEW h \in Handlers, handler[h].pc = "replied"
               PROVE  /\ \A k \in handler[h].owed \ deleted :
                            \E r \in handler[h].result : r.key = k
                      /\ \A r \in handler[h].result : \A e \in r.events : e.key = r.key
                      /\ \A r, q \in handler[h].result : r.key = q.key => r = q
    BY DEF NodeQueryComplete
  <2>1. QueryInv(handler[h])
    BY DEF IndInv, HandlerInv
  <2> QED
    BY <2>1 DEF QueryInv
<1> QED
  BY <1>1, IndInvHolds, PTL

-----------------------------------------------------------------------------
(* The store implements EventStore. *)

\* What queries see changes for the one workload whose stored object changes; an object
\* that is no longer in the store is seen by no query.
LEMMA ContentStep ==
    ASSUME StoreTypes, StoreInv, NEW k \in Keys, NEW w, Holds(w, k), NEW X,
           profiles' = profiles, objects'[w].events = X,
           \A i \in 1 .. Len(objects) : i # w => objects'[i] = objects[i]
    PROVE  \/ Content[k] = objects[w].events /\ Content' = [Content EXCEPT ![k] = X]
           \/ k \in deleted /\ Content' = Content
<1>1. w \in 1 .. Len(objects) /\ objects[w].key = k /\ Len(objects) \in Nat
  BY DEF Holds, StoreTypes
<1>2. ASSUME NEW j \in Keys, j # k
      PROVE  Content'[j] = Content[j]
  <2>1. profiles[j] # Nil => profiles[j] \in 1 .. Len(objects) /\ profiles[j] # w
    BY <1>1, <1>2 DEF StoreInv
  <2> QED
    BY <2>1 DEF Content
<1>3. CASE profiles[k] = w
  <2>1. Content[k] = objects[w].events /\ Content'[k] = X
    BY <1>1, <1>3 DEF Content, Nil
  <2> QED
    BY <1>2, <2>1 DEF Content
<1>4. CASE profiles[k] # w
  <2>1. profiles[k] # Nil => profiles[k] \in 1 .. Len(objects)
    BY DEF StoreInv
  <2>2. k \in deleted /\ Content'[k] = Content[k]
    BY <1>4, <2>1 DEF Holds, Content
  <2> QED
    BY <1>2, <2>2 DEF Content
<1> QED
  BY <1>3, <1>4

\* A profile that LoadOrStore adds is empty: queries see what they saw before.
LEMMA ContentCreate ==
    ASSUME StoreTypes, StoreInv, NEW k \in Keys, LoadOrStore(k)
    PROVE  Content' = Content
<1>1. CASE profiles[k] # Nil
  BY <1>1 DEF LoadOrStore, Content
<1>2. CASE profiles[k] = Nil
  <2> DEFINE o == NewObject(k)
             m == Len(objects) + 1
  <2>1. o.events = {} /\ objects \in Seq(Object) /\ Len(objects) \in Nat /\ o \in Object
    BY DEF NewObject, StoreTypes, Object
  <2>2. objects' = Append(objects, o) /\ profiles' = [profiles EXCEPT ![k] = m]
    BY <1>2 DEF LoadOrStore
  <2> HIDE DEF o
  <2>3. /\ objects'[m] = o /\ \A i \in 1 .. Len(objects) : objects'[i] = objects[i]
    BY <2>1, <2>2
  <2>4. profiles'[k] = m /\ \A j \in Keys : j # k => profiles'[j] = profiles[j]
    BY <2>2 DEF StoreTypes
  <2>5. \A j \in Keys : Content'[j] = Content[j]
    <3> TAKE j \in Keys
    <3>1. CASE j = k
      BY <1>2, <2>1, <2>3, <2>4, <3>1 DEF Content, Nil
    <3>2. CASE j # k
      <4>1. profiles[j] # Nil => profiles[j] \in 1 .. Len(objects)
        BY DEF StoreInv
      <4> QED
        BY <2>3, <2>4, <3>2, <4>1 DEF Content
    <3> QED
      BY <3>1, <3>2
  <2> QED
    BY <2>5 DEF Content
<1> QED
  BY <1>1, <1>2

\* Recording an event of a stream is a Record of the store, or nothing.
LEMMA RecordImplements ==
    ASSUME IndInv, NEW s \in Streams, StreamRecord(s)
    PROVE  (\E e \in Contract!Countable : Contract!Record(e)) \/ UNCHANGED Contract!vars
<1> DEFINE e == EventOf(s)
           w == stream[s].wp
<1>1. /\ TypeInv /\ StoreInv /\ StoreTypes /\ InBatch(s) /\ Holds(w, e.key) /\ e.key \in Keys
  BY DEF IndInv, TypeInv, StoreTypes, StreamRecord, StreamInv, InBatch, EventOf
<1>2. e \in Event /\ stream[s].next \in 1 .. Len(stream[s].events)
  BY <1>1, EventOfType
<1>3. UNCHANGED <<acked, erased, deleted, profiles>>
  BY DEF StreamRecord
<1>4. CASE e.counted
  <2>1. e.id \in 1 .. MaxEvents /\ recorded[e.id] = 0
    <3>1. BatchInv(stream[s]) /\ stream[s].next >= stream[s].next /\ ingested \in 0 .. MaxEvents
      BY <1>2, StreamEvents DEF IndInv, EventsInv, TypeInv
    <3>2. e.id \in 1 .. ingested /\ recorded[e.id] = 0
      BY <1>2, <3>1 DEF BatchInv, EventOf
    <3> QED
      BY <3>1, <3>2, AggregatorAssumption
  <2>2. e \in Contract!Countable
    BY <1>1, <1>2, <1>4, <2>1 DEF Event, Contract!Countable
  <2>3. recorded' = [recorded EXCEPT ![e.id] = 1]
    <3>1. recorded' = [recorded EXCEPT ![e.id] = recorded[e.id] + 1]
      BY <1>4 DEF StreamRecord
    <3> QED
      BY <2>1, <3>1
  <2>4. objects[w] \in Object /\ w \in 1 .. Len(objects) /\ objects \in Seq(Object)
    BY <1>1 DEF TypeInv, Holds
  <2>5. /\ objects'[w].events = objects[w].events \cup {e}
        /\ \A i \in 1 .. Len(objects) : i # w => objects'[i] = objects[i]
    BY <1>4, <2>4 DEF StreamRecord, Object
  <2> HIDE DEF e, w
  <2>6. \/ Content' = [Content EXCEPT ![e.key] = Content[e.key] \cup {e}]
        \/ e.key \in deleted /\ Content' = Content
    BY <1>1, <1>3, <2>5, ContentStep
  <2>7. Contract!Record(e)
    BY <1>3, <2>1, <2>3, <2>6 DEF Contract!Record
  <2> QED
    BY <2>2, <2>7
<1>5. CASE ~e.counted
  BY <1>3, <1>5 DEF StreamRecord, Content, Contract!vars
<1> QED
  BY <1>4, <1>5

\* A request that resets a profile is a Reset of the store.
LEMMA ResetImplements ==
    ASSUME IndInv, NEW h \in Handlers, ResetProfile(h)
    PROVE  \E k \in Keys : Contract!Reset(k)
<1> DEFINE k == handler[h].key
           w == handler[h].wp
<1>1. TypeInv /\ StoreInv /\ StoreTypes /\ Holds(w, k) /\ k \in Keys
  BY DEF IndInv, TypeInv, StoreTypes, ResetProfile, HandlerInv
<1>2. UNCHANGED <<acked, recorded, deleted, profiles>> /\ erased' = erased \cup {k}
  BY DEF ResetProfile
<1>3. objects[w] \in Object /\ w \in 1 .. Len(objects) /\ objects \in Seq(Object)
  BY <1>1 DEF TypeInv, Holds
<1>4. /\ objects'[w].events = {}
      /\ \A i \in 1 .. Len(objects) : i # w => objects'[i] = objects[i]
  BY <1>3 DEF ResetProfile, Object
<1> HIDE DEF k, w
<1>5. \/ Content' = [Content EXCEPT ![k] = {}]
      \/ k \in deleted /\ Content' = Content
  BY <1>1, <1>2, <1>4, ContentStep
<1> QED
  BY <1>1, <1>2, <1>5 DEF Contract!Reset

\* A simulated event is recorded in the store like one of a stream.
LEMMA SimulateImplements ==
    ASSUME IndInv, NEW h \in Handlers, NEW n \in Nodes, Simulate(h, n)
    PROVE  \E e \in Contract!Countable : Contract!Record(e)
<1> DEFINE e == Simulated(h)
           w == handler[h].wp
<1>1. /\ TypeInv /\ StoreInv /\ StoreTypes /\ Holds(w, e.key) /\ e.key \in Keys
      /\ e.id = ingested + 1 /\ e.counted = TRUE
      /\ e = [id |-> e.id, key |-> e.key, counted |-> TRUE]
  BY DEF IndInv, TypeInv, StoreTypes, Simulate, HandlerInv, Simulated
<1>2. UNCHANGED <<acked, erased, deleted, profiles>>
  BY DEF Simulate
<1>3. e.id \in 1 .. MaxEvents /\ recorded[e.id] = 0
  <2>1. ingested \in 0 .. MaxEvents /\ ingested < MaxEvents
    BY <1>1 DEF Simulate, TypeInv
  <2>2. e.id \in 1 .. MaxEvents /\ e.id > ingested
    BY <1>1, <2>1, AggregatorAssumption
  <2> QED
    BY <2>2 DEF IndInv, EventsInv
<1>4. e \in Contract!Countable
  BY <1>1, <1>3 DEF Contract!Countable
<1>5. recorded' = [recorded EXCEPT ![e.id] = 1]
  <2>1. recorded' = [recorded EXCEPT ![e.id] = recorded[e.id] + 1]
    BY <1>1 DEF Simulate
  <2> QED
    BY <1>3, <2>1
<1>6. objects[w] \in Object /\ w \in 1 .. Len(objects) /\ objects \in Seq(Object)
  BY <1>1 DEF TypeInv, Holds
<1>7. /\ objects'[w].events = objects[w].events \cup {e}
      /\ \A i \in 1 .. Len(objects) : i # w => objects'[i] = objects[i]
  BY <1>6 DEF Simulate, Object
<1> HIDE DEF e, w
<1>8. \/ Content' = [Content EXCEPT ![e.key] = Content[e.key] \cup {e}]
      \/ e.key \in deleted /\ Content' = Content
  BY <1>1, <1>2, <1>7, ContentStep
<1>9. Contract!Record(e)
  BY <1>2, <1>3, <1>5, <1>8 DEF Contract!Record
<1> QED
  BY <1>4, <1>9

\* Store.Delete is a Delete of the store.
LEMMA DeleteImplements ==
    ASSUME IndInv, NEW k \in Keys, Delete(k)
    PROVE  Contract!Delete(k)
<1>1. profiles \in [Keys -> Nat]
  BY DEF IndInv, TypeInv
<1>2. objects' = objects /\ profiles' = [profiles EXCEPT ![k] = Nil]
  BY DEF Delete
<1>3. Content' = [Content EXCEPT ![k] = {}]
  BY <1>1, <1>2 DEF Content
<1> QED
  BY <1>3 DEF Delete, Contract!Delete

\* The ack of a batch acknowledges events that the store keeps.
LEMMA AckImplements ==
    ASSUME IndInv, NEW s \in Streams, SendAck(s)
    PROVE  Contract!Ack
<1> DEFINE es == stream[s].events
<1>1. /\ es \in Seq(Event) /\ Len(es) \in Nat /\ DOMAIN es = 1 .. Len(es)
      /\ stream[s].next \in Nat /\ ~(stream[s].next <= Len(es))
  BY StreamEvents DEF IndInv, SendAck, InBatch
<1>2. acked' = acked \cup {es[i] : i \in DOMAIN es}
  BY DEF SendAck
<1>3. UNCHANGED <<profiles, objects, recorded, erased, deleted>>
  BY DEF SendAck
<1>4. ASSUME NEW e \in acked' \ acked
      PROVE  Contract!Kept(e)
  <2>1. PICK i \in 1 .. Len(es) : e = es[i]
    BY <1>1, <1>2
  <2>2. i < stream[s].next /\ BatchInv(stream[s])
    BY <1>1 DEF IndInv, EventsInv
  <2>3. Kept(e)
    BY <2>1, <2>2 DEF BatchInv
  <2> QED
    BY <2>3, AggregatorAssumption DEF Kept, KeptIn, Contract!Kept, Content
<1>5. Content' = Content
  BY <1>3 DEF Content
<1> QED
  BY <1>2, <1>3, <1>4, <1>5 DEF Contract!Ack

\* Every step of the goroutines is a step of the atomic store, or none.
LEMMA StepImplements ==
    ASSUME IndInv, [Next]_vars
    PROVE  Contract!Next \/ UNCHANGED Contract!vars
<1>1. StoreTypes /\ StoreInv
  BY DEF IndInv, TypeInv, StoreTypes
<1>2. ASSUME UNCHANGED <<profiles, objects, acked, recorded, erased, deleted>>
      PROVE  UNCHANGED Contract!vars
  BY <1>2 DEF Contract!vars, Content
<1>3. ASSUME NEW s \in Streams, \/ \E n \in Nodes : \E b \in BatchKinds : Recv(s, n, b)
                                \/ SkipEvent(s) \/ StreamLoad(s)
      PROVE  UNCHANGED Contract!vars
  BY <1>2, <1>3 DEF Recv, SkipEvent, StreamLoad, ghosts
<1>4. ASSUME NEW s \in Streams, StreamCreate(s)
      PROVE  UNCHANGED Contract!vars
  <2>1. EventOf(s).key \in Keys /\ LoadOrStore(EventOf(s).key) /\ UNCHANGED ghosts
    BY <1>4 DEF StreamCreate, IndInv, StreamInv, EventOf
  <2> QED
    BY <1>1, <2>1, ContentCreate DEF Contract!vars, ghosts
<1>5. ASSUME NEW s \in Streams, StreamRecord(s)
      PROVE  Contract!Next \/ UNCHANGED Contract!vars
  BY <1>5, RecordImplements DEF Contract!Next
<1>6. ASSUME NEW s \in Streams, SendAck(s)
      PROVE  Contract!Next
  BY <1>6, AckImplements DEF Contract!Next
<1>7. ASSUME NEW h \in Handlers,
             \/ \E kind \in HttpKinds : \E k \in Keys : HttpStart(h, kind, k)
             \/ \E n \in Nodes : QueryStart(h, n)
             \/ HttpLoad(h)
             \/ \E k \in Keys : QueryVisit(h, k)
             \/ QueryCompute(h) \/ QueryReturn(h) \/ QueryDone(h)
      PROVE  UNCHANGED Contract!vars
  <2>1. UNCHANGED <<profiles, objects, acked, recorded, erased, deleted>>
    BY <1>7 DEF HttpStart, QueryStart, HttpLoad, QueryVisit, QueryCompute, QueryReturn,
                QueryDone, ghosts
  <2> QED
    BY <1>2, <2>1
<1>8. ASSUME NEW h \in Handlers, HttpCreate(h)
      PROVE  UNCHANGED Contract!vars
  <2>1. handler[h].key \in Keys /\ LoadOrStore(handler[h].key) /\ UNCHANGED ghosts
    BY <1>8 DEF HttpCreate, IndInv, HandlerInv
  <2> QED
    BY <1>1, <2>1, ContentCreate DEF Contract!vars, ghosts
<1>9. ASSUME NEW h \in Handlers, (\E n \in Nodes : Simulate(h, n)) \/ ResetProfile(h)
      PROVE  Contract!Next \/ UNCHANGED Contract!vars
  BY <1>9, SimulateImplements, ResetImplements DEF Contract!Next
<1>10. ASSUME NEW k \in Keys, Delete(k)
       PROVE  Contract!Next
  BY <1>10, DeleteImplements DEF Contract!Next
<1>11. CASE UNCHANGED vars
  BY <1>2, <1>11 DEF vars
<1> QED
  BY <1>3, <1>4, <1>5, <1>6, <1>7, <1>8, <1>9, <1>10, <1>11 DEF Next, StreamStep, HandlerStep

\* The store implements EventStore for any number of goroutines: with lookups that miss
\* at the same time and profiles used after their key was reset or deleted, each
\* workload's events are those of an atomic map.
THEOREM Implements == Spec => ImplementsStore
<1>1. Init => Contract!Init
  BY DEF Init, Contract!Init, Content
<1>2. IndInv /\ [Next]_vars => [Contract!Next]_(Contract!vars)
  BY StepImplements
<1> QED
  BY <1>1, <1>2, IndInvHolds, PTL DEF Spec, ImplementsStore, Contract!Spec
=============================================================================
