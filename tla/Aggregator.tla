----------------------------- MODULE Aggregator -----------------------------
(***************************************************************************)
(* The profile store (src/pkg/profile/store.go) under the concurrent       *)
(* handlers of the aggregator (src/cmd/aggregator/main.go): one goroutine  *)
(* per collector stream, one per HTTP request, one per gRPC query.         *)
(*                                                                         *)
(* The store is a sync.Map from workload keys to profiles; a profile is an *)
(* object with its own lock.  GetOrCreate is a Load and, on a miss, a      *)
(* LoadOrStore; what it returns is used later, so handlers interleave      *)
(* between looking a profile up and recording into it, and a query between *)
(* asking for a profile's nodes and computing it.                          *)
(*                                                                         *)
(* A profile is abstracted to the set of events recorded since it was      *)
(* created or reset and the nodes they came from; how the window ages them *)
(* is the subject of WorkloadProfile.                                      *)
(***************************************************************************)
EXTENDS Integers, Sequences, FiniteSets

CONSTANTS
    Keys,        \* workload keys; NoKey is the empty string
    NoKey,
    Nodes,       \* node names
    Streams,     \* goroutines serving StreamTelemetry
    Handlers,    \* goroutines serving an HTTP request or a query
    HttpKinds,   \* HTTP endpoints in use, among "simulate" and "reset"
    BatchKinds,  \* batches a collector sends: sequences of [key, counted]
    MaxObjects,  \* bound: profile objects ever created
    MaxEvents,   \* bound: events ever ingested
    MaxRequests  \* bound: HTTP requests and queries

ASSUME AggregatorAssumption ==
    /\ NoKey \notin Keys
    /\ Nodes # {}
    /\ HttpKinds \subseteq {"simulate", "reset"}
    /\ \A b \in BatchKinds : b \in Seq([key : Keys \cup {NoKey}, counted : BOOLEAN])
    /\ MaxObjects \in Nat /\ MaxEvents \in Nat /\ MaxRequests \in Nat

VARIABLES
    profiles,   \* Store.profiles: key -> object, or Nil
    objects,    \* the WorkloadProfile objects created so far
    stream,     \* each stream goroutine: pc and locals
    handler,    \* each request goroutine: pc and locals
    ingested,   \* number of events received or simulated: their identifiers
    requests,   \* number of HTTP requests and queries so far
    acked,      \* ghost: events of acknowledged batches
    recorded,   \* ghost: per event, how many times it was recorded
    erased,     \* ghost: keys that were reset or deleted
    deleted     \* ghost: keys that were deleted

vars == <<profiles, objects, stream, handler, ingested, requests,
          acked, recorded, erased, deleted>>

ghosts == <<acked, recorded, erased, deleted>>

Nil == 0
Event == [id : Nat, key : Keys \cup {NoKey}, counted : BOOLEAN]

NewObject(key) == [key |-> key, events |-> {}, nodeLocations |-> {}]

Receiving == [pc |-> "recv", node |-> CHOOSE n \in Nodes : TRUE, events |-> <<>>,
              next |-> 1, wp |-> Nil]
Free == [pc |-> "idle", kind |-> "none", key |-> NoKey, node |-> CHOOSE n \in Nodes : TRUE,
         wp |-> Nil, todo |-> {}, result |-> {}, owed |-> {}]

\* Fault: Store instead of LoadOrStore, so the last profile wins.
StoreAlways(key) ==
    /\ Len(objects) < MaxObjects
    /\ objects' = Append(objects, NewObject(key))
    /\ profiles' = [profiles EXCEPT ![key] = Len(objects) + 1]

\* Fault: a key is stored without a profile.
StoreKeyOnly(key) ==
    IF profiles[key] # Nil
    THEN UNCHANGED <<profiles, objects>>
    ELSE /\ Len(objects) < MaxObjects
         /\ profiles' = [profiles EXCEPT ![key] = Len(objects) + 1]
         /\ UNCHANGED objects

\* LoadOrStore with a new profile: the stored one wins.
LoadOrStore(key) ==
    IF profiles[key] # Nil
    THEN UNCHANGED <<profiles, objects>>
    ELSE /\ Len(objects) < MaxObjects
         /\ objects' = Append(objects, NewObject(key))
         /\ profiles' = [profiles EXCEPT ![key] = Len(objects) + 1]

-----------------------------------------------------------------------------
(* StreamTelemetry. *)

\* Recv returns a batch of a node's collector.  It may be a late one: the pods
\* it is about may have left the node.
Recv(s, node, kind) ==
    /\ stream[s].pc = "recv"
    /\ ingested + Len(kind) <= MaxEvents
    /\ stream' = [stream EXCEPT ![s] =
         [pc |-> "load", node |-> node, next |-> 1, wp |-> Nil,
          events |-> [i \in DOMAIN kind |->
                        [id |-> ingested + i, key |-> kind[i].key,
                         counted |-> kind[i].counted]]]]
    /\ ingested' = ingested + Len(kind)
    /\ UNCHANGED <<profiles, objects, handler, requests, ghosts>>

EventOf(s) == stream[s].events[stream[s].next]
InBatch(s) == stream[s].next <= Len(stream[s].events)

\* An event without a workload key is skipped.
SkipEvent(s) ==
    /\ stream[s].pc = "load"
    /\ InBatch(s)
    /\ EventOf(s).key = NoKey
    /\ stream' = [stream EXCEPT ![s].next = @ + 1]
    /\ UNCHANGED <<profiles, objects, handler, ingested, requests, ghosts>>

\* GetOrCreate, Load: a hit is used, a miss goes on to LoadOrStore.
StreamLoad(s) ==
    /\ stream[s].pc = "load"
    /\ InBatch(s)
    /\ EventOf(s).key # NoKey
    /\ LET found == profiles[EventOf(s).key]
       IN  stream' = [stream EXCEPT ![s].pc = IF found # Nil THEN "record" ELSE "create",
                                    ![s].wp = found]
    /\ UNCHANGED <<profiles, objects, handler, ingested, requests, ghosts>>

StreamCreate(s) ==
    /\ stream[s].pc = "create"
    /\ LoadOrStore(EventOf(s).key)
    /\ stream' = [stream EXCEPT ![s].pc = "record", ![s].wp = profiles'[EventOf(s).key]]
    /\ UNCHANGED <<handler, ingested, requests, ghosts>>

\* The Record* method of the event's type.  A cache-miss or lock event without
\* payload, or an event of unknown type, is not counted.
StreamRecord(s) ==
    /\ stream[s].pc = "record"
    /\ LET e == EventOf(s)
           w == stream[s].wp
       IN  IF e.counted
           THEN /\ objects' = [objects EXCEPT ![w].events = @ \cup {e},
                                              ![w].nodeLocations = @ \cup {stream[s].node}]
                /\ recorded' = [recorded EXCEPT ![e.id] = @ + 1]
           ELSE UNCHANGED <<objects, recorded>>
    /\ stream' = [stream EXCEPT ![s].pc = "load", ![s].next = @ + 1, ![s].wp = Nil]
    /\ UNCHANGED <<profiles, handler, ingested, requests, acked, erased, deleted>>

\* Fault: the ack is sent as soon as the batch is received.
SendAckEarly(s) ==
    /\ stream[s].pc = "load"
    /\ acked' = acked \cup {stream[s].events[i] : i \in DOMAIN stream[s].events}
    /\ stream' = [stream EXCEPT ![s] = Receiving]
    /\ UNCHANGED <<profiles, objects, handler, ingested, requests,
                   recorded, erased, deleted>>

\* The whole batch is processed: Send the ack, whose error is ignored.
SendAck(s) ==
    /\ stream[s].pc = "load"
    /\ ~InBatch(s)
    /\ acked' = acked \cup {stream[s].events[i] : i \in DOMAIN stream[s].events}
    /\ stream' = [stream EXCEPT ![s] = Receiving]
    /\ UNCHANGED <<profiles, objects, handler, ingested, requests,
                   recorded, erased, deleted>>

-----------------------------------------------------------------------------
(* /api/simulate-events and /api/reset-profile: GetOrCreate, then one method. *)

HttpStart(h, kind, key) ==
    /\ handler[h].pc = "idle"
    /\ requests < MaxRequests
    /\ requests' = requests + 1
    /\ handler' = [handler EXCEPT ![h] = [Free EXCEPT !.pc = "load", !.kind = kind, !.key = key]]
    /\ UNCHANGED <<profiles, objects, stream, ingested, ghosts>>

HttpLoad(h) ==
    /\ handler[h].pc = "load"
    /\ LET found == profiles[handler[h].key]
       IN  handler' = [handler EXCEPT ![h].pc = IF found # Nil THEN "apply" ELSE "create",
                                      ![h].wp = found]
    /\ UNCHANGED <<profiles, objects, stream, ingested, requests, ghosts>>

HttpCreate(h) ==
    /\ handler[h].pc = "create"
    /\ LoadOrStore(handler[h].key)
    /\ handler' = [handler EXCEPT ![h].pc = "apply", ![h].wp = profiles'[handler[h].key]]
    /\ UNCHANGED <<stream, ingested, requests, ghosts>>

\* The counts of a request, as one event.
Simulated(h) == [id |-> ingested + 1, key |-> handler[h].key, counted |-> TRUE]

\* RecordBulk: the counts are added, and the node name of the request.
Simulate(h, node) ==
    /\ handler[h].pc = "apply"
    /\ handler[h].kind = "simulate"
    /\ ingested < MaxEvents
    /\ ingested' = ingested + 1
    /\ objects' = [objects EXCEPT ![handler[h].wp].events = @ \cup {Simulated(h)},
                                  ![handler[h].wp].nodeLocations = @ \cup {node}]
    /\ recorded' = [recorded EXCEPT ![ingested + 1] = @ + 1]
    /\ handler' = [handler EXCEPT ![h] = Free]
    /\ UNCHANGED <<profiles, stream, requests, acked, erased, deleted>>

\* ResetData: the events go, the node locations stay.
ResetProfile(h) ==
    /\ handler[h].pc = "apply"
    /\ handler[h].kind = "reset"
    /\ objects' = [objects EXCEPT ![handler[h].wp].events = {}]
    /\ erased' = erased \cup {handler[h].key}
    /\ handler' = [handler EXCEPT ![h] = Free]
    /\ UNCHANGED <<profiles, stream, ingested, requests, acked, recorded, deleted>>

\* Store.Delete.
Delete(key) ==
    /\ requests < MaxRequests
    /\ requests' = requests + 1
    /\ profiles' = [profiles EXCEPT ![key] = Nil]
    /\ erased' = erased \cup {key}
    /\ deleted' = deleted \cup {key}
    /\ UNCHANGED <<objects, stream, handler, ingested, acked, recorded>>

-----------------------------------------------------------------------------
(* QueryNodeProfiles. *)

OnNode(key, node) ==
    profiles[key] # Nil /\ node \in objects[profiles[key]].nodeLocations

\* Ghost: owed, the workloads the store has on the node when the query begins.
QueryStart(h, node) ==
    /\ handler[h].pc = "idle"
    /\ requests < MaxRequests
    /\ requests' = requests + 1
    /\ handler' = [handler EXCEPT ![h] =
         [Free EXCEPT !.pc = "range", !.kind = "query", !.node = node, !.todo = Keys,
                      !.owed = {k \in Keys : OnNode(k, node)}]]
    /\ UNCHANGED <<profiles, objects, stream, ingested, ghosts>>

\* Fault: the function given to Range returns false after the first match.
QueryVisitStops(h, key) ==
    /\ handler[h].pc = "range"
    /\ key \in handler[h].todo
    /\ handler' = [handler EXCEPT
         ![h].todo = IF OnNode(key, handler[h].node) THEN {} ELSE @ \ {key},
         ![h].pc = IF OnNode(key, handler[h].node) THEN "compute" ELSE "range",
         ![h].key = key,
         ![h].wp = profiles[key]]
    /\ UNCHANGED <<profiles, objects, stream, ingested, requests, ghosts>>

\* Range visits a key once, with the value it has then, in no given order; a
\* key stored or deleted meanwhile is visited or not.  NodeLocations takes and
\* releases the profile's lock.
QueryVisit(h, key) ==
    /\ handler[h].pc = "range"
    /\ key \in handler[h].todo
    /\ handler' = [handler EXCEPT
         ![h].todo = @ \ {key},
         ![h].pc = IF OnNode(key, handler[h].node) THEN "compute" ELSE "range",
         ![h].key = key,
         ![h].wp = profiles[key]]
    /\ UNCHANGED <<profiles, objects, stream, ingested, requests, ghosts>>

\* ComputeProfile takes it again.
QueryCompute(h) ==
    /\ handler[h].pc = "compute"
    /\ handler' = [handler EXCEPT
         ![h].pc = "range",
         ![h].result = @ \cup {[key |-> handler[h].key,
                                events |-> objects[handler[h].wp].events]}]
    /\ UNCHANGED <<profiles, objects, stream, ingested, requests, ghosts>>

\* The response has been built; the caller has it until the next request.
QueryReturn(h) ==
    /\ handler[h].pc = "range"
    /\ handler[h].todo = {}
    /\ handler' = [handler EXCEPT ![h].pc = "replied"]
    /\ UNCHANGED <<profiles, objects, stream, ingested, requests, ghosts>>

QueryDone(h) ==
    /\ handler[h].pc = "replied"
    /\ handler' = [handler EXCEPT ![h] = Free]
    /\ UNCHANGED <<profiles, objects, stream, ingested, requests, ghosts>>

-----------------------------------------------------------------------------

Init ==
    /\ profiles = [k \in Keys |-> Nil]
    /\ objects = <<>>
    /\ stream = [s \in Streams |-> Receiving]
    /\ handler = [h \in Handlers |-> Free]
    /\ ingested = 0
    /\ requests = 0
    /\ acked = {}
    /\ recorded = [i \in 1 .. MaxEvents |-> 0]
    /\ erased = {}
    /\ deleted = {}

StreamStep(s) ==
    SkipEvent(s) \/ StreamLoad(s) \/ StreamCreate(s) \/ StreamRecord(s) \/ SendAck(s)

HandlerStep(h) ==
    \/ HttpLoad(h) \/ HttpCreate(h) \/ (\E n \in Nodes : Simulate(h, n)) \/ ResetProfile(h)
    \/ (\E k \in Keys : QueryVisit(h, k)) \/ QueryCompute(h) \/ QueryReturn(h) \/ QueryDone(h)

Next ==
    \/ \E s \in Streams :
         \/ \E n \in Nodes : \E b \in BatchKinds : Recv(s, n, b)
         \/ StreamStep(s)
    \/ \E h \in Handlers :
         \/ \E kind \in HttpKinds : \E k \in Keys : HttpStart(h, kind, k)
         \/ \E n \in Nodes : QueryStart(h, n)
         \/ HandlerStep(h)
    \/ \E k \in Keys : Delete(k)

Spec == Init /\ [][Next]_vars

-----------------------------------------------------------------------------
(* Properties. *)

ObjectIds == 0 .. Len(objects)

TypeOK ==
    /\ profiles \in [Keys -> ObjectIds]
    /\ \A i \in 1 .. Len(objects) :
         /\ objects[i].key \in Keys
         /\ objects[i].events \subseteq Event
         /\ objects[i].nodeLocations \subseteq Nodes
    /\ \A s \in Streams : stream[s].wp \in ObjectIds
    /\ \A h \in Handlers : handler[h].wp \in ObjectIds
    /\ acked \subseteq Event

\* Two goroutines that miss the same key at the same time end up with one
\* profile: as long as a key is not deleted, every goroutine that holds a
\* profile for it holds the one in the store, and no other object has events.
OneProfilePerKey ==
    \A k \in Keys \ deleted :
      /\ \A s \in Streams : stream[s].pc = "record" /\ EventOf(s).key = k
                              => stream[s].wp = profiles[k]
      /\ \A h \in Handlers : handler[h].pc = "apply" /\ handler[h].key = k
                              => handler[h].wp = profiles[k]
      /\ \A i \in 1 .. Len(objects) : objects[i].key = k => profiles[k] = i

\* An acknowledgement means something: every countable event of the batch was
\* recorded exactly once and, unless its workload was reset or deleted, is in
\* the profile that queries see.
AckedMeansRecorded ==
    \A e \in acked :
      (e.counted /\ e.key # NoKey) =>
        /\ recorded[e.id] = 1
        /\ e.key \in erased \/ (profiles[e.key] # Nil /\ e \in objects[profiles[e.key]].events)

\* What a query of each workload sees.
Content == [k \in Keys |-> IF profiles[k] = Nil THEN {} ELSE objects[profiles[k]].events]

Contract == INSTANCE EventStore WITH content <- Content, Ids <- 1 .. MaxEvents

\* The store, with lookups that miss at the same time and profiles held across resets
\* and deletions, does to each workload's events what an atomic map would: an event is
\* recorded once and seen at once, only a request drops events, and an event is
\* acknowledged when it is recorded and, unless its workload was erased, seen.
ImplementsStore == Contract!Spec

\* A query concurrent with ingestion is complete and does not mix workloads: it
\* returns each workload that was on the node when it began and was never
\* deleted, once, with only events of that workload.
NodeQueryComplete ==
    \A h \in Handlers : handler[h].pc = "replied" =>
      /\ \A k \in handler[h].owed \ deleted : \E r \in handler[h].result : r.key = k
      /\ \A r \in handler[h].result : \A e \in r.events : e.key = r.key
      /\ \A r, q \in handler[h].result : r.key = q.key => r = q
=============================================================================
