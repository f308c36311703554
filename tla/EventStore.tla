----------------------------- MODULE EventStore -----------------------------
(***************************************************************************)
(* What the profile store promises to collectors and to queries, as if     *)
(* every request were one atomic operation on a map from workloads to the  *)
(* events recorded for them.  The specification that Aggregator            *)
(* implements: no profile objects, no lookups, no goroutines.              *)
(***************************************************************************)
EXTENDS Naturals

CONSTANTS
    Keys,      \* workload keys
    Ids        \* numbers of events

VARIABLES
    content,   \* per workload, the events that a query of it sees
    recorded,  \* per event, how many times it was recorded
    acked,     \* acknowledged events
    erased,    \* workloads that were reset or deleted
    deleted    \* workloads that were deleted

vars == <<content, recorded, acked, erased, deleted>>

Countable == [id : Ids, key : Keys, counted : {TRUE}]

Init ==
    /\ content = [k \in Keys |-> {}]
    /\ recorded = [i \in Ids |-> 0]
    /\ acked = {} /\ erased = {} /\ deleted = {}

\* An event is recorded, once, and is visible at once.  Whoever looked its workload up
\* before the deletion may record in the deleted profile.
Record(e) ==
    /\ recorded[e.id] = 0
    /\ recorded' = [recorded EXCEPT ![e.id] = 1]
    /\ \/ content' = [content EXCEPT ![e.key] = @ \cup {e}]
       \/ e.key \in deleted /\ UNCHANGED content
    /\ UNCHANGED <<acked, erased, deleted>>

\* The events recorded for a workload are dropped on request, never otherwise.
Reset(k) ==
    /\ erased' = erased \cup {k}
    /\ \/ content' = [content EXCEPT ![k] = {}]
       \/ k \in deleted /\ UNCHANGED content
    /\ UNCHANGED <<recorded, acked, deleted>>

Delete(k) ==
    /\ erased' = erased \cup {k}
    /\ deleted' = deleted \cup {k}
    /\ content' = [content EXCEPT ![k] = {}]
    /\ UNCHANGED <<recorded, acked>>

\* An event is taken care of: nothing to count, or counted once and still there.
Kept(e) ==
    e.counted /\ e.key \in Keys =>
      recorded[e.id] = 1 /\ (e.key \in erased \/ e \in content[e.key])

\* Events are acknowledged once they are taken care of.
Ack ==
    /\ acked \subseteq acked'
    /\ \A e \in acked' \ acked : Kept(e)
    /\ UNCHANGED <<content, recorded, erased, deleted>>

Next ==
    \/ \E e \in Countable : Record(e)
    \/ \E k \in Keys : Reset(k) \/ Delete(k)
    \/ Ack

Spec == Init /\ [][Next]_vars
=============================================================================
