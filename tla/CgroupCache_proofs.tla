-------------------------- MODULE CgroupCache_proofs --------------------------
(***************************************************************************)
(* Proofs about CgroupCache, for every number of resolvers, ids and        *)
(* containers, every lifetime and every latency.                           *)
(***************************************************************************)
EXTENDS CgroupCache, TLAPS

\* What a stored identity, and the copy of it that a hit returns, are worth.
EntryFresh(id, e) == e # None => LastHeld(id, e.identity) >= e.expiry - CacheTTL - Latency

CallFresh(r) ==
    /\ call[r].pc = "check" => EntryFresh(call[r].id, call[r].cached)
    /\ Resolving(r) => /\ LastHeld(call[r].id, call[r].found) >= call[r].since
                       /\ clock - call[r].since <= Latency

\* The inductive invariant.
IndInv ==
    /\ TypeOK
    /\ \A id \in Ids : EntryFresh(id, cache[id])
    /\ \A r \in Resolvers : CallFresh(r)
    /\ BoundedStaleness

-----------------------------------------------------------------------------

\* The fields of a call of Resolve, by where it is.
LEMMA CallFields ==
    ASSUME TypeOK, NEW r \in Resolvers
    PROVE  /\ call[r].pc \in {"idle", "check", "query", "store"}
           /\ call[r].pc = "check" => /\ call[r].id \in Ids
                                      /\ call[r].cached \in Entry \cup {None}
           /\ call[r].pc \in {"query", "store"} => /\ call[r].id \in Ids
                                                   /\ call[r].found \in Containers
                                                   /\ call[r].since \in Int
<1>1. call[r] \in Call
  BY DEF TypeOK
<1> QED
  BY <1>1 DEF Call

\* The last moment at which a container had an id never goes back.
LEMMA LastHeldMonotone ==
    ASSUME TypeOK, [Next]_vars, NEW id \in Ids, NEW c \in Containers
    PROVE  /\ LastHeld(id, c) \in Int
           /\ LastHeld(id, c)' \in Int
           /\ LastHeld(id, c)' >= LastHeld(id, c)
<1> USE CacheAssumption
<1>1. LastHeld(id, c) \in Int /\ left[id][c] \in Int /\ clock \in Nat
  BY DEF LastHeld, TypeOK
<1>2. CASE UNCHANGED <<clock, owner, left>>
  BY <1>1, <1>2 DEF LastHeld
<1>3. CASE Tick
  BY <1>1, <1>3 DEF Tick, LastHeld
<1>4. ASSUME NEW i \in Ids, NEW o \in Containers \cup {None}, OwnerChanges(i, o)
      PROVE  LastHeld(id, c)' \in Int /\ LastHeld(id, c)' >= LastHeld(id, c)
  <2>1. /\ clock' = clock
        /\ owner' = [owner EXCEPT ![i] = o]
        /\ left' = IF owner[i] = None THEN left
                                      ELSE [left EXCEPT ![i][owner[i]] = clock]
        /\ o # None => left[i][o] = Never
    BY <1>4 DEF OwnerChanges
  <2>2. CASE i # id
    BY <1>1, <2>1, <2>2 DEF LastHeld, TypeOK
  <2>3. CASE i = id /\ c = o
    <3>1. LastHeld(id, c)' = clock
      BY <2>1, <2>3 DEF LastHeld, TypeOK
    <3>2. LastHeld(id, c) \in {clock, Never}
      BY <2>1, <2>3 DEF LastHeld
    <3> QED
      BY <1>1, <3>1, <3>2 DEF Never
  <2>4. CASE i = id /\ c # o
    <3>1. owner'[id] # c
      BY <2>1, <2>4 DEF TypeOK
    <3>2. CASE owner[id] = c
      <4>1. left'[id][c] = clock
        BY <2>1, <2>4, <3>2 DEF TypeOK
      <4> QED
        BY <1>1, <3>1, <3>2, <4>1 DEF LastHeld
    <3>3. CASE owner[id] # c
      <4>1. left'[id][c] = left[id][c]
        BY <2>1, <2>4, <3>3 DEF TypeOK
      <4> QED
        BY <1>1, <3>1, <3>3, <4>1 DEF LastHeld
    <3> QED
      BY <3>2, <3>3
  <2> QED
    BY <2>2, <2>3, <2>4
<1>5. ASSUME NEW r \in Resolvers, Step(r) \/ \E i \in Ids : Lookup(r, i)
      PROVE  UNCHANGED <<clock, owner, left>>
  BY <1>5 DEF Step, Lookup, Hit, FindCgroup, FindFails, QueryKubelet, QueryFails, Store
<1>6. CASE EvictStart \/ EvictExpired \/ KubeletChanges
  BY <1>2, <1>6 DEF EvictStart, EvictExpired, KubeletChanges
<1>7. CASE UNCHANGED vars
  BY <1>2, <1>7 DEF vars
<1> QED
  BY <1>1, <1>2, <1>3, <1>4, <1>5, <1>6, <1>7 DEF Next

-----------------------------------------------------------------------------
(* Type correctness. *)

\* The initial states have their types.
LEMMA TypeOKInit == Init => TypeOK
BY CacheAssumption DEF Init, TypeOK, Call, Idle, Never

\* Every step keeps the types.
LEMMA TypeOKNext == TypeOK /\ [Next]_vars => TypeOK'
<1> SUFFICES ASSUME TypeOK, [Next]_vars
             PROVE  TypeOK'
  OBVIOUS
<1> USE CacheAssumption
<1> USE DEF TypeOK
<1>1. ASSUME NEW r \in Resolvers, NEW id \in Ids, Lookup(r, id)
      PROVE  TypeOK'
  BY <1>1 DEF Lookup, Call
<1>2. ASSUME NEW r \in Resolvers, Step(r)
      PROVE  TypeOK'
  <2>0. Idle \in Call
    BY DEF Idle, Call
  <2>1. ASSUME NEW c \in Containers, call[r].id \in Ids, Return(r, c)
        PROVE  call' \in [Resolvers -> Call] /\ age' \in [Resolvers -> Int]
    <3>1. LastHeld(call[r].id, c) \in Int
      BY <2>1 DEF LastHeld
    <3> QED
      BY <2>0, <2>1, <3>1 DEF Return
  <2>2. CASE Hit(r)
    <3>1. call[r].cached.identity \in Containers /\ call[r].id \in Ids
      BY <2>2, CallFields DEF Hit, Valid, Entry
    <3> QED
      BY <2>1, <2>2, <3>1 DEF Hit
  <2>3. CASE FindCgroup(r)
    <3>1. [pc |-> "query", id |-> call[r].id, found |-> owner[call[r].id], since |-> clock]
            \in Call
      BY <2>3, CallFields DEF FindCgroup, Call
    <3> QED
      BY <2>3, <3>1 DEF FindCgroup
  <2>4. CASE FindFails(r) \/ QueryFails(r)
    BY <2>0, <2>4 DEF FindFails, QueryFails, ReturnError
  <2>5. CASE QueryKubelet(r)
    <3>1. call[r] \in Call /\ call[r].pc = "query"
      BY <2>5 DEF QueryKubelet
    <3>2. [call[r] EXCEPT !.pc = "store"] \in Call
      BY <3>1 DEF Call
    <3> QED
      BY <2>5, <3>2 DEF QueryKubelet
  <2>6. CASE Store(r)
    <3>1. call[r].found \in Containers /\ call[r].id \in Ids
      BY <2>6, CallFields DEF Store
    <3>2. [identity |-> call[r].found, expiry |-> clock + CacheTTL] \in Entry
      BY <3>1 DEF Entry
    <3> QED
      BY <2>1, <2>6, <3>1, <3>2 DEF Store
  <2> QED
    BY <1>2, <2>2, <2>3, <2>4, <2>5, <2>6 DEF Step
<1>3. CASE EvictStart
  BY <1>3 DEF EvictStart
<1>4. CASE EvictExpired
  BY <1>4 DEF EvictExpired
<1>5. ASSUME NEW id \in Ids, NEW c \in Containers \cup {None}, OwnerChanges(id, c)
      PROVE  TypeOK'
  <2>1. left' \in [Ids -> [Containers -> Int]]
    BY <1>5 DEF OwnerChanges
  <2> QED
    BY <1>5, <2>1 DEF OwnerChanges
<1>6. CASE KubeletChanges
  BY <1>6 DEF KubeletChanges
<1>7. CASE Tick
  BY <1>7 DEF Tick
<1>8. CASE UNCHANGED vars
  BY <1>8 DEF vars
<1> QED
  BY <1>1, <1>2, <1>3, <1>4, <1>5, <1>6, <1>7, <1>8 DEF Next

\* The resolver's state keeps its type: only identities of containers are ever
\* cached, errors never.
THEOREM TypeCorrect == Spec => []TypeOK
<1>1. Init => TypeOK
  BY TypeOKInit
<1>2. TypeOK /\ [Next]_vars => TypeOK'
  BY TypeOKNext
<1> QED
  BY <1>1, <1>2, PTL DEF Spec

-----------------------------------------------------------------------------
(* Staleness. *)

\* What an entry is worth does not get worse.
LEMMA EntryStaysFresh ==
    ASSUME TypeOK, [Next]_vars, NEW id \in Ids, NEW e \in Entry \cup {None},
           EntryFresh(id, e)
    PROVE  e # None => (IF owner'[id] = e.identity THEN clock' ELSE left'[id][e.identity])
                          >= e.expiry - CacheTTL - Latency
<1> SUFFICES ASSUME e # None
             PROVE  (IF owner'[id] = e.identity THEN clock' ELSE left'[id][e.identity])
                       >= e.expiry - CacheTTL - Latency
  OBVIOUS
<1> DEFINE c == e.identity
<1>1. c \in Containers /\ e.expiry \in Int
  BY DEF Entry
<1> HIDE DEF c
<1>2. /\ LastHeld(id, c) \in Int
      /\ (IF owner'[id] = c THEN clock' ELSE left'[id][c]) \in Int
      /\ (IF owner'[id] = c THEN clock' ELSE left'[id][c]) >= LastHeld(id, c)
  <2>1. /\ LastHeld(id, c) \in Int
        /\ \A x \in Containers :
              /\ (IF owner'[id] = x THEN clock' ELSE left'[id][x]) \in Int
              /\ (IF owner'[id] = x THEN clock' ELSE left'[id][x]) >= LastHeld(id, x)
    BY <1>1, LastHeldMonotone DEF LastHeld
  <2> QED
    BY <1>1, <2>1
<1>3. LastHeld(id, c) >= e.expiry - CacheTTL - Latency
  BY DEF EntryFresh, c
<1>4. (IF owner'[id] = c THEN clock' ELSE left'[id][c]) >= e.expiry - CacheTTL - Latency
  BY <1>1, <1>2, <1>3, CacheAssumption
<1> QED
  BY <1>4 DEF c

\* Nor does what a resolver has in hand while others move.
LEMMA CallStaysFresh ==
    ASSUME TypeOK, [Next]_vars, NEW r \in Resolvers, CallFresh(r),
           call'[r] = call[r], clock' = clock \/ Tick
    PROVE  CallFresh(r)'
<1>1. ASSUME call[r].pc = "check"
      PROVE  EntryFresh(call[r].id, call[r].cached)'
  <2>1. call[r].id \in Ids /\ call[r].cached \in Entry \cup {None}
    BY <1>1, CallFields
  <2>2. EntryFresh(call[r].id, call[r].cached)
    BY <1>1 DEF CallFresh
  <2> QED
    BY <2>1, <2>2, EntryStaysFresh DEF EntryFresh, LastHeld
<1>2. ASSUME Resolving(r)
      PROVE  /\ LastHeld(call[r].id, call[r].found)' >= call[r].since
             /\ clock' - call[r].since <= Latency
  <2>1. call[r].id \in Ids /\ call[r].found \in Containers /\ call[r].since \in Int
    BY <1>2, CallFields DEF Resolving
  <2>2. /\ LastHeld(call[r].id, call[r].found) >= call[r].since
        /\ clock - call[r].since <= Latency
    BY <1>2 DEF CallFresh
  <2>3. \A i \in Ids, c \in Containers :
          /\ LastHeld(i, c) \in Int
          /\ (IF owner'[i] = c THEN clock' ELSE left'[i][c]) \in Int
          /\ (IF owner'[i] = c THEN clock' ELSE left'[i][c]) >= LastHeld(i, c)
    BY LastHeldMonotone DEF LastHeld
  <2>4. LastHeld(call[r].id, call[r].found)' >= call[r].since
    BY <2>1, <2>2, <2>3 DEF LastHeld
  <2>5. clock' - call[r].since <= Latency
    BY <1>2, <2>1, <2>2, CacheAssumption DEF Tick, TypeOK
  <2> QED
    BY <2>4, <2>5
<1> QED
  BY <1>1, <1>2 DEF CallFresh, Resolving

\* Nothing is cached or in progress at first.
LEMMA IndInvInit == Init => IndInv
<1> SUFFICES ASSUME Init
             PROVE  IndInv
  OBVIOUS
<1>1. TypeOK
  BY TypeOKInit
<1>2. \A r \in Resolvers : call[r].pc = "idle"
  BY DEF Init, Idle
<1> QED
  BY <1>1, <1>2, CacheAssumption
     DEF Init, IndInv, EntryFresh, CallFresh, Resolving, BoundedStaleness

\* Every step keeps the inductive invariant.
LEMMA IndInvNext == IndInv /\ [Next]_vars => IndInv'
<1> SUFFICES ASSUME IndInv, [Next]_vars
             PROVE  IndInv'
  OBVIOUS
<1> USE CacheAssumption
<1>1. TypeOK /\ TypeOK'
  BY TypeOKNext DEF IndInv
<1>2. ASSUME NEW id \in Ids, cache'[id] = cache[id] \/ cache'[id] = None
      PROVE  EntryFresh(id, cache[id])'
  <2>1. cache[id] \in Entry \cup {None} /\ EntryFresh(id, cache[id])
    BY <1>1 DEF TypeOK, IndInv
  <2> QED
    BY <1>1, <1>2, <2>1, EntryStaysFresh DEF EntryFresh, LastHeld
<1>3. ASSUME NEW r \in Resolvers, call'[r] = call[r], clock' = clock \/ Tick
      PROVE  CallFresh(r)'
  BY <1>1, <1>3, CallStaysFresh DEF IndInv
<1>4. ASSUME NEW r \in Resolvers, call'[r] = Idle
      PROVE  CallFresh(r)'
  BY <1>4 DEF CallFresh, Idle, Resolving
<1>5. \A r \in Resolvers : age[r] < CacheTTL + Latency
  BY DEF IndInv, BoundedStaleness
<1>6. ASSUME NEW r \in Resolvers, NEW id \in Ids, Lookup(r, id)
      PROVE  IndInv'
  <2>1. /\ UNCHANGED <<clock, owner, left, cache>>
        /\ call' = [call EXCEPT ![r] = [pc |-> "check", id |-> id, cached |-> cache[id]]]
        /\ age' = [age EXCEPT ![r] = 0]
    BY <1>6 DEF Lookup
  <2>2. \A i \in Ids : EntryFresh(i, cache[i])'
    BY <1>2, <2>1
  <2>3. \A q \in Resolvers : CallFresh(q)'
    <3> TAKE q \in Resolvers
    <3>1. CASE q = r
      <4>1. call'[r] = [pc |-> "check", id |-> id, cached |-> cache[id]]
        BY <1>1, <2>1 DEF TypeOK
      <4>2. EntryFresh(id, cache[id])
        BY DEF IndInv
      <4> QED
        BY <2>1, <3>1, <4>1, <4>2 DEF CallFresh, Resolving, EntryFresh, LastHeld
    <3>2. CASE q # r
      BY <1>1, <1>3, <2>1, <3>2 DEF TypeOK
    <3> QED
      BY <3>1, <3>2
  <2>4. BoundedStaleness'
    BY <1>1, <1>5, <2>1 DEF BoundedStaleness, TypeOK
  <2> QED
    BY <1>1, <2>2, <2>3, <2>4 DEF IndInv
\* An answer is as fresh as what the resolver had in hand.
<1>7. ASSUME NEW r \in Resolvers, NEW c \in Containers, call[r].id \in Ids, Return(r, c),
             UNCHANGED clock,
             LastHeld(call[r].id, c) > clock - CacheTTL - Latency
      PROVE  BoundedStaleness' /\ \A q \in Resolvers : CallFresh(q)'
  <2>1. LastHeld(call[r].id, c) \in Int
    BY <1>1, <1>7 DEF LastHeld, TypeOK
  <2>2. clock - LastHeld(call[r].id, c) < CacheTTL + Latency
    BY <1>1, <1>7, <2>1 DEF TypeOK
  <2>3. BoundedStaleness'
    BY <1>1, <1>5, <1>7, <2>2 DEF BoundedStaleness, Return, TypeOK
  <2>4. \A q \in Resolvers : call'[q] = IF q = r THEN Idle ELSE call[q]
    BY <1>1, <1>7 DEF Return, TypeOK
  <2> QED
    BY <1>3, <1>4, <1>7, <2>3, <2>4
<1>8. ASSUME NEW r \in Resolvers, Step(r)
      PROVE  IndInv'
  <2>0. UNCHANGED clock
    BY <1>8 DEF Step, Hit, FindCgroup, FindFails, QueryKubelet, QueryFails, Store
  <2>1. CASE Hit(r)
    <3>1. /\ call[r].id \in Ids
          /\ call[r].cached \in Entry
          /\ call[r].cached.identity \in Containers /\ call[r].cached.expiry \in Int
          /\ clock < call[r].cached.expiry
      BY <1>1, <2>1, CallFields DEF Hit, Valid, Entry
    <3>2. LastHeld(call[r].id, call[r].cached.identity)
             >= call[r].cached.expiry - CacheTTL - Latency
      BY <1>1, <2>1 DEF IndInv, CallFresh, EntryFresh, Hit, Valid
    <3>3. LastHeld(call[r].id, call[r].cached.identity) > clock - CacheTTL - Latency
      <4>1. LastHeld(call[r].id, call[r].cached.identity) \in Int
        BY <1>1, <3>1 DEF LastHeld, TypeOK
      <4> QED
        BY <1>1, <3>1, <3>2, <4>1 DEF TypeOK
    <3>4. BoundedStaleness' /\ \A q \in Resolvers : CallFresh(q)'
      BY <1>7, <2>0, <2>1, <3>1, <3>3 DEF Hit
    <3>5. \A i \in Ids : EntryFresh(i, cache[i])'
      BY <1>2, <2>1 DEF Hit
    <3> QED
      BY <1>1, <3>4, <3>5 DEF IndInv
  <2>2. CASE FindCgroup(r)
    <3>1. /\ UNCHANGED <<owner, left, cache, age>>
          /\ call[r].id \in Ids
          /\ call'[r] = [pc |-> "query", id |-> call[r].id,
                         found |-> owner[call[r].id], since |-> clock]
          /\ \A q \in Resolvers : q # r => call'[q] = call[q]
      BY <1>1, <2>2, CallFields DEF FindCgroup, TypeOK
    <3>2. CallFresh(r)'
      BY <1>1, <2>0, <3>1 DEF CallFresh, Resolving, LastHeld, TypeOK
    <3>3. \A q \in Resolvers : CallFresh(q)'
      BY <1>3, <2>0, <3>1, <3>2
    <3>4. \A i \in Ids : EntryFresh(i, cache[i])'
      BY <1>2, <3>1
    <3> QED
      BY <1>1, <1>5, <3>1, <3>3, <3>4 DEF IndInv, BoundedStaleness
  <2>3. CASE FindFails(r) \/ QueryFails(r)
    <3>1. /\ UNCHANGED <<cache, age>>
          /\ \A q \in Resolvers : call'[q] = IF q = r THEN Idle ELSE call[q]
      BY <1>1, <2>3 DEF FindFails, QueryFails, ReturnError, TypeOK
    <3>2. \A q \in Resolvers : CallFresh(q)'
      BY <1>3, <1>4, <2>0, <3>1
    <3>3. \A i \in Ids : EntryFresh(i, cache[i])'
      BY <1>2, <3>1
    <3> QED
      BY <1>1, <1>5, <3>1, <3>2, <3>3 DEF IndInv, BoundedStaleness
  <2>4. CASE QueryKubelet(r)
    <3>1. /\ UNCHANGED <<owner, left, cache, age>>
          /\ call[r].pc = "query"
          /\ call'[r] = [call[r] EXCEPT !.pc = "store"]
          /\ \A q \in Resolvers : q # r => call'[q] = call[q]
      BY <1>1, <2>4 DEF QueryKubelet, TypeOK
    <3>2. /\ call'[r].pc = "store" /\ call'[r].id = call[r].id
          /\ call'[r].found = call[r].found /\ call'[r].since = call[r].since
      <4>1. call[r] \in [pc : {"query", "store"}, id : Ids, found : Containers, since : Int]
        BY <1>1, <3>1 DEF TypeOK, Call
      <4> QED
        BY <3>1, <4>1
    <3>3. CallFresh(r)'
      BY <2>0, <3>1, <3>2 DEF IndInv, CallFresh, Resolving, LastHeld
    <3>4. \A q \in Resolvers : CallFresh(q)'
      BY <1>3, <2>0, <3>1, <3>3
    <3>5. \A i \in Ids : EntryFresh(i, cache[i])'
      BY <1>2, <3>1
    <3> QED
      BY <1>1, <1>5, <3>1, <3>4, <3>5 DEF IndInv, BoundedStaleness
  <2>5. CASE Store(r)
    <3>1. call[r].id \in Ids /\ call[r].found \in Containers /\ call[r].since \in Int
      BY <1>1, <2>5, CallFields DEF Store
    <3>2. /\ LastHeld(call[r].id, call[r].found) >= call[r].since
          /\ clock - call[r].since <= Latency
      BY <2>5 DEF IndInv, CallFresh, Resolving, Store
    <3>3. LastHeld(call[r].id, call[r].found) \in Int
      BY <1>1, <3>1 DEF LastHeld, TypeOK
    <3>4. /\ LastHeld(call[r].id, call[r].found) > clock - CacheTTL - Latency
          /\ LastHeld(call[r].id, call[r].found) >= (clock + CacheTTL) - CacheTTL - Latency
      BY <1>1, <3>1, <3>2, <3>3 DEF TypeOK
    <3>5. BoundedStaleness' /\ \A q \in Resolvers : CallFresh(q)'
      BY <1>7, <2>0, <2>5, <3>1, <3>4 DEF Store
    <3>6. \A i \in Ids : EntryFresh(i, cache[i])'
      <4> TAKE i \in Ids
      <4>1. CASE i = call[r].id
        <5>1. cache'[i] = [identity |-> call[r].found, expiry |-> clock + CacheTTL]
          BY <1>1, <2>5, <4>1 DEF Store, TypeOK
        <5>2. owner' = owner /\ left' = left
          BY <2>5 DEF Store
        <5> QED
          BY <2>0, <3>4, <4>1, <5>1, <5>2 DEF EntryFresh, LastHeld
      <4>2. CASE i # call[r].id
        BY <1>1, <1>2, <2>5, <4>2 DEF Store, TypeOK
      <4> QED
        BY <4>1, <4>2
    <3> QED
      BY <1>1, <3>5, <3>6 DEF IndInv
  <2> QED
    BY <1>8, <2>1, <2>2, <2>3, <2>4, <2>5 DEF Step
\* Everything else leaves the calls alone, and the cache or less of it.
<1>9. ASSUME UNCHANGED <<call, age>>, clock' = clock \/ Tick,
             \A id \in Ids : cache'[id] = cache[id] \/ cache'[id] = None
      PROVE  IndInv'
  <2>1. \A q \in Resolvers : CallFresh(q)'
    BY <1>3, <1>9
  <2>2. \A i \in Ids : EntryFresh(i, cache[i])'
    BY <1>2, <1>9
  <2> QED
    BY <1>1, <1>5, <1>9, <2>1, <2>2 DEF IndInv, BoundedStaleness
<1>10. CASE EvictExpired
  BY <1>9, <1>10 DEF EvictExpired
<1>11. CASE EvictStart \/ KubeletChanges
  BY <1>9, <1>11 DEF EvictStart, KubeletChanges
<1>12. ASSUME NEW id \in Ids, NEW c \in Containers \cup {None}, OwnerChanges(id, c)
       PROVE  IndInv'
  BY <1>9, <1>12 DEF OwnerChanges
<1>13. CASE Tick
  BY <1>9, <1>13 DEF Tick
<1>14. CASE UNCHANGED vars
  BY <1>9, <1>14 DEF vars
<1> QED
  BY <1>6, <1>8, <1>10, <1>11, <1>12, <1>13, <1>14 DEF Next

\* For any number of overlapping resolutions, evictions and reuses of an id, an
\* identity that Resolve returns was true less than CacheTTL + Latency ago.
THEOREM StalenessTheorem == Spec => []BoundedStaleness
<1>1. Init => IndInv
  BY IndInvInit
<1>2. IndInv /\ [Next]_vars => IndInv'
  BY IndInvNext
<1>3. IndInv => BoundedStaleness
  BY DEF IndInv
<1> QED
  BY <1>1, <1>2, <1>3, PTL DEF Spec
=============================================================================
