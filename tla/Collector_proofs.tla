-------------------------- MODULE Collector_proofs --------------------------
(***************************************************************************)
(* Proofs about Collector, for any sizes of the ring buffer, the batch and *)
(* the windows: its type invariant, and that it implements Delivery.       *)
(***************************************************************************)
EXTENDS Collector, FiniteSetTheorems, TLAPS

\* The tracer is in the sequence s, and at most once; the same for the batches n.
Within(s) == \E i \in DOMAIN s : s[i] = "tracer"
Once(s) == \A i, j \in DOMAIN s : s[i] = "tracer" /\ s[j] = "tracer" => i = j

NetWithin(n) == \E i \in DOMAIN n : Within(n[i])
NetOnce(n) ==
    /\ \A i \in DOMAIN n : Once(n[i])
    /\ \A i, j \in DOMAIN n : Within(n[i]) /\ Within(n[j]) => i = j

\* The places an event of the pipeline can be in, and its status there.
Pending == {"ring", "batch", "net", "work", "orphan"}
Locations == Pending \cup {"none", "done"}

Abs(loc, isBorn) ==
    IF ~isBorn THEN "unborn"
    ELSE IF loc = "none" THEN "lost" ELSE IF loc = "done" THEN "recorded" ELSE "pending"

\* The tracer is at loc and nowhere else.
At(loc, r, b, n, w, o, rec, isBorn) ==
    /\ Once(r) /\ (Within(r) <=> loc = "ring")
    /\ Once(b) /\ (Within(b) <=> loc = "batch")
    /\ NetOnce(n) /\ (NetWithin(n) <=> loc = "net")
    /\ Once(w) /\ (Within(w) <=> loc = "work")
    /\ Once(o) /\ (Within(o) <=> loc = "orphan")
    /\ rec = IF loc = "done" THEN 1 ELSE 0
    /\ ~isBorn => loc = "none"

TypeInv ==
    /\ ring \in Seq(Events) /\ Len(ring) <= RingSize
    /\ batch \in Seq(Events) /\ Len(batch) <= BatchSize
    /\ pc = "read" => Len(batch) < BatchSize
    /\ pc = "exited" => batch = <<>>
    /\ net \in Seq(Seq(Events)) /\ Len(net) <= SendWindow
    /\ acks \in 0 .. AckWindow
    /\ pc \in {"read", "send", "reopen", "exited"}
    /\ serving \in [pc : {"recv", "work", "ack", "gone"}, work : Seq(Events)]
    /\ serving.pc # "work" => serving.work = <<>>
    /\ orphan \in Seq(Events)
    /\ stream \in {"open", "dead"}
    /\ born \in BOOLEAN
    /\ faulted \in BOOLEAN
    /\ stopping \in BOOLEAN

\* A stream is dead, and a batch is dropped, only after a failure.
FaultInv == stream = "dead" \/ stopping \/ pc \in {"reopen", "exited"} => faulted

Where(loc) == At(loc, ring, batch, net, serving.work, orphan, recorded, born)

IndInv == TypeInv /\ FaultInv /\ \E loc \in Locations : Where(loc)

-----------------------------------------------------------------------------
(* Where the tracer is in sequences. *)

\* A new sequence has no tracer.
LEMMA EmptyHasNone == Once(<<>>) /\ ~Within(<<>>) /\ NetOnce(<<>>) /\ ~NetWithin(<<>>)
BY DEF Once, Within, NetOnce, NetWithin

\* Appending an event.
LEMMA OnceAppend ==
    ASSUME NEW s \in Seq(Events), Once(s), NEW e \in Events, e = "tracer" => ~Within(s)
    PROVE  Once(Append(s, e)) /\ (Within(Append(s, e)) <=> Within(s) \/ e = "tracer")
<1> DEFINE t == Append(s, e)
<1>1. /\ DOMAIN s = 1 .. Len(s) /\ DOMAIN t = 1 .. (Len(s) + 1) /\ Len(s) \in Nat
      /\ \A i \in 1 .. Len(s) : t[i] = s[i]
      /\ t[Len(s) + 1] = e
  OBVIOUS
<1> HIDE DEF t
<1>2. \A i \in DOMAIN t : t[i] = "tracer" =>
          IF e = "tracer" THEN i = Len(s) + 1 ELSE i \in DOMAIN s /\ s[i] = "tracer"
  BY <1>1 DEF Within
<1>3. Within(t) <=> Within(s) \/ e = "tracer"
  <2>1. CASE e = "tracer"
    BY <2>1, <1>1 DEF Within
  <2>2. CASE e # "tracer"
    BY <2>2, <1>1, <1>2 DEF Within
  <2> QED
    BY <2>1, <2>2
<1>4. Once(t)
  BY <1>2 DEF Once
<1> QED
  BY <1>3, <1>4 DEF t

\* Removing the first event.
LEMMA OnceTail ==
    ASSUME NEW s \in Seq(Events), Once(s), s # <<>>
    PROVE  /\ Head(s) \in Events
           /\ Head(s) = "tracer" => Within(s)
           /\ Once(Tail(s))
           /\ Within(Tail(s)) <=> Within(s) /\ Head(s) # "tracer"
<1> DEFINE t == Tail(s)
<1>1. /\ DOMAIN s = 1 .. Len(s) /\ DOMAIN t = 1 .. (Len(s) - 1) /\ Len(s) \in Nat \ {0}
      /\ \A i \in 1 .. (Len(s) - 1) : t[i] = s[i + 1]
      /\ Head(s) = s[1] /\ Head(s) \in Events
  OBVIOUS
<1> HIDE DEF t
<1>2. Head(s) = "tracer" => Within(s)
  BY <1>1 DEF Within
<1>3. \A i \in DOMAIN t : i + 1 \in DOMAIN s /\ t[i] = s[i + 1]
  BY <1>1
<1>4. Once(t)
  <2> SUFFICES ASSUME NEW i \in DOMAIN t, NEW j \in DOMAIN t, t[i] = "tracer", t[j] = "tracer"
               PROVE  i = j
    BY DEF Once
  <2>1. i + 1 = j + 1 /\ i \in Nat /\ j \in Nat
    BY <1>1, <1>3 DEF Once
  <2> QED
    BY <2>1
<1>5. ASSUME Within(s), Head(s) # "tracer"
      PROVE  Within(t)
  <2>1. PICK k \in DOMAIN s : s[k] = "tracer"
    BY <1>5 DEF Within
  <2>2. k # 1 /\ k \in 1 .. Len(s)
    BY <2>1, <1>5, <1>1
  <2>3. k - 1 \in DOMAIN t /\ t[k - 1] = s[(k - 1) + 1] /\ (k - 1) + 1 = k
    BY <2>2, <1>1
  <2> QED
    BY <2>1, <2>3 DEF Within
<1>6. ASSUME NEW i \in DOMAIN t, t[i] = "tracer"
      PROVE  Within(s) /\ Head(s) # "tracer"
  <2>1. i + 1 \in DOMAIN s /\ s[i + 1] = "tracer" /\ i + 1 # 1 /\ 1 \in DOMAIN s
    BY <1>1, <1>3, <1>6
  <2> QED
    BY <2>1, <1>1 DEF Once, Within
<1>7. Within(t) <=> Within(s) /\ Head(s) # "tracer"
  BY <1>5, <1>6 DEF Within
<1> QED
  BY <1>1, <1>2, <1>4, <1>7 DEF t

\* Sending a batch.
LEMMA NetAppend ==
    ASSUME NEW n \in Seq(Seq(Events)), NetOnce(n),
           NEW s \in Seq(Events), Once(s), ~(NetWithin(n) /\ Within(s))
    PROVE  NetOnce(Append(n, s)) /\ (NetWithin(Append(n, s)) <=> NetWithin(n) \/ Within(s))
<1> DEFINE t == Append(n, s)
<1>1. /\ DOMAIN n = 1 .. Len(n) /\ DOMAIN t = 1 .. (Len(n) + 1) /\ Len(n) \in Nat
      /\ \A i \in 1 .. Len(n) : t[i] = n[i]
      /\ t[Len(n) + 1] = s
  OBVIOUS
<1> HIDE DEF t
<1>2. \A i \in DOMAIN t : IF i = Len(n) + 1 THEN t[i] = s ELSE i \in DOMAIN n /\ t[i] = n[i]
  BY <1>1
<1>3. NetOnce(t)
  BY <1>2 DEF NetOnce, NetWithin
<1>4. NetWithin(n) \/ Within(s) => NetWithin(t)
  <2>1. \A i \in DOMAIN n : i \in DOMAIN t /\ t[i] = n[i]
    BY <1>1
  <2>2. Len(n) + 1 \in DOMAIN t /\ t[Len(n) + 1] = s
    BY <1>1
  <2> QED
    BY <2>1, <2>2 DEF NetWithin
<1>5. NetWithin(t) => NetWithin(n) \/ Within(s)
  BY <1>2 DEF NetWithin
<1> QED
  BY <1>3, <1>4, <1>5 DEF t

\* Receiving a batch.
LEMMA NetTail ==
    ASSUME NEW n \in Seq(Seq(Events)), NetOnce(n), n # <<>>
    PROVE  /\ Head(n) \in Seq(Events)
           /\ Within(Head(n)) => NetWithin(n)
           /\ Once(Head(n))
           /\ NetOnce(Tail(n))
           /\ NetWithin(Tail(n)) <=> NetWithin(n) /\ ~Within(Head(n))
<1> DEFINE t == Tail(n)
<1>1. /\ DOMAIN n = 1 .. Len(n) /\ DOMAIN t = 1 .. (Len(n) - 1) /\ Len(n) \in Nat \ {0}
      /\ \A i \in 1 .. (Len(n) - 1) : t[i] = n[i + 1]
      /\ Head(n) = n[1] /\ Head(n) \in Seq(Events)
  OBVIOUS
<1> HIDE DEF t
<1>2. 1 \in DOMAIN n /\ (Within(Head(n)) => NetWithin(n)) /\ Once(Head(n))
  <2>1. 1 \in DOMAIN n
    BY <1>1
  <2> QED
    BY <1>1, <2>1 DEF NetOnce, NetWithin
<1>3. \A i \in DOMAIN t : i + 1 \in DOMAIN n /\ t[i] = n[i + 1] /\ i \in Nat /\ i + 1 # 1
  BY <1>1
<1>4. \A i \in DOMAIN t : Once(t[i])
  BY <1>3 DEF NetOnce
<1>5. \A i, j \in DOMAIN t : Within(t[i]) /\ Within(t[j]) => i = j
  <2> SUFFICES ASSUME NEW i \in DOMAIN t, NEW j \in DOMAIN t, Within(t[i]), Within(t[j])
               PROVE  i = j
    OBVIOUS
  <2>1. i + 1 = j + 1 /\ i \in Nat /\ j \in Nat
    BY <1>3 DEF NetOnce
  <2> QED
    BY <2>1
<1>6. ASSUME NetWithin(n), ~Within(Head(n))
      PROVE  NetWithin(t)
  <2>1. PICK k \in DOMAIN n : Within(n[k])
    BY <1>6 DEF NetWithin
  <2>2. k # 1 /\ k \in 1 .. Len(n)
    BY <2>1, <1>6, <1>1
  <2>3. k - 1 \in DOMAIN t /\ t[k - 1] = n[(k - 1) + 1] /\ (k - 1) + 1 = k
    BY <2>2, <1>1
  <2> QED
    BY <2>1, <2>3 DEF NetWithin
<1>7. ASSUME NEW i \in DOMAIN t, Within(t[i])
      PROVE  NetWithin(n) /\ ~Within(Head(n))
  <2>1. i + 1 \in DOMAIN n /\ Within(n[i + 1]) /\ i + 1 # 1
    BY <1>3, <1>7
  <2> QED
    BY <2>1, <1>1, <1>2 DEF NetOnce, NetWithin
<1>8. NetWithin(t) <=> NetWithin(n) /\ ~Within(Head(n))
  BY <1>6, <1>7 DEF NetWithin
<1>9. NetOnce(t)
  BY <1>4, <1>5 DEF NetOnce
<1> QED
  BY <1>1, <1>2, <1>8, <1>9 DEF t

-----------------------------------------------------------------------------
(* Counting the tracer. *)

\* A sequence.
LEMMA CountOnce ==
    ASSUME NEW s, Once(s)
    PROVE  Count(s) = IF Within(s) THEN 1 ELSE 0
<1>1. CASE Within(s)
  <2>1. PICK i \in DOMAIN s : s[i] = "tracer"
    BY <1>1 DEF Within
  <2>2. Positions(s) = {i}
    BY <2>1 DEF Once, Positions
  <2> QED
    BY <1>1, <2>2, FS_Singleton DEF Count
<1>2. CASE ~Within(s)
  <2>1. Positions(s) = {}
    BY <1>2 DEF Within, Positions
  <2> QED
    BY <1>2, <2>1, FS_EmptySet DEF Count
<1> QED
  BY <1>1, <1>2

\* The batches in flight: InFlight, for any n.
Flying(n) == UNION {{i} \X Positions(n[i]) : i \in DOMAIN n}

\* The count of tracers on the network is one or none.
LEMMA CountFlying ==
    ASSUME NEW n, NetOnce(n)
    PROVE  Cardinality(Flying(n)) = IF NetWithin(n) THEN 1 ELSE 0
<1>0. \A x : x \in Flying(n) <=> \E i \in DOMAIN n : \E k \in Positions(n[i]) : x = <<i, k>>
  BY DEF Flying
<1>1. CASE NetWithin(n)
  <2>1. PICK i \in DOMAIN n : Within(n[i])
    BY <1>1 DEF NetWithin
  <2>2. PICK k \in DOMAIN n[i] : n[i][k] = "tracer"
    BY <2>1 DEF Within
  <2>3. k \in Positions(n[i])
    BY <2>2 DEF Positions
  <2>4. ASSUME NEW j \in DOMAIN n, NEW l \in Positions(n[j])
        PROVE  j = i /\ l = k
    <3>1. Within(n[j])
      BY DEF Within, Positions
    <3>2. j = i
      BY <3>1, <2>1 DEF NetOnce
    <3>3. Once(n[i])
      BY DEF NetOnce
    <3> QED
      BY <3>2, <3>3, <2>2 DEF Once, Positions
  <2>5. Flying(n) = {<<i, k>>}
    BY <1>0, <2>3, <2>4
  <2> QED
    BY <1>1, <2>5, FS_Singleton
<1>2. CASE ~NetWithin(n)
  <2>1. \A i \in DOMAIN n : Positions(n[i]) = {}
    BY <1>2 DEF NetWithin, Within, Positions
  <2>2. Flying(n) = {}
    BY <1>0, <2>1
  <2> QED
    BY <1>2, <2>2, FS_EmptySet
<1> QED
  BY <1>1, <1>2

\* The number of tracers and the status, as functions of the state.
TracersIn(r, b, n, w, o) == Count(r) + Count(b) + Cardinality(Flying(n)) + Count(w) + Count(o)

\* A tracer in one place is counted once.
LEMMA OneTracer ==
    ASSUME NEW loc \in Locations, NEW r, NEW b, NEW n, NEW w, NEW o, NEW rec,
           NEW isBorn \in BOOLEAN, At(loc, r, b, n, w, o, rec, isBorn)
    PROVE  /\ TracersIn(r, b, n, w, o) = IF loc \in Pending THEN 1 ELSE 0
           /\ rec = IF loc = "done" THEN 1 ELSE 0
           /\ ~isBorn => loc = "none"
<1>1. /\ Count(r) = IF loc = "ring" THEN 1 ELSE 0
      /\ Count(b) = IF loc = "batch" THEN 1 ELSE 0
      /\ Count(w) = IF loc = "work" THEN 1 ELSE 0
      /\ Count(o) = IF loc = "orphan" THEN 1 ELSE 0
  BY CountOnce DEF At
<1>2. Cardinality(Flying(n)) = IF loc = "net" THEN 1 ELSE 0
  BY CountFlying DEF At
<1>3. /\ rec = IF loc = "done" THEN 1 ELSE 0
      /\ ~isBorn => loc = "none"
  BY DEF At
<1> QED
  BY <1>1, <1>2, <1>3 DEF TracersIn, Locations, Pending

\* A tracer's place decides its status in Delivery.
LEMMA StatusIs ==
    ASSUME NEW loc \in Locations, born \in BOOLEAN, Where(loc)
    PROVE  Status = Abs(loc, born)
<1>1. Tracers = TracersIn(ring, batch, net, serving.work, orphan)
  BY DEF Tracers, TracersIn, InFlight, Flying
<1>2. /\ Tracers = IF loc \in Pending THEN 1 ELSE 0
      /\ recorded = IF loc = "done" THEN 1 ELSE 0
      /\ ~born => loc = "none"
  BY <1>1, OneTracer DEF Where
<1> QED
  BY <1>2 DEF Status, Abs, Locations, Pending

\* The same in the next state.
LEMMA NextStatusIs ==
    ASSUME NEW loc \in Locations, born' \in BOOLEAN, Where(loc)'
    PROVE  Status' = Abs(loc, born')
<1>1. Tracers' = TracersIn(ring', batch', net', serving'.work, orphan')
  BY DEF Tracers, TracersIn, InFlight, Flying
<1>2. /\ Tracers' = IF loc \in Pending THEN 1 ELSE 0
      /\ recorded' = IF loc = "done" THEN 1 ELSE 0
      /\ ~born' => loc = "none"
  BY <1>1, OneTracer DEF Where
<1> QED
  BY <1>2 DEF Status, Abs, Locations, Pending

-----------------------------------------------------------------------------
(* The type invariant. *)

\* The handler's states.
LEMMA ServingType ==
    ASSUME NEW p \in {"recv", "work", "ack", "gone"}, NEW w \in Seq(Events)
    PROVE  /\ Serving(p, w) \in [pc : {"recv", "work", "ack", "gone"}, work : Seq(Events)]
           /\ Serving(p, w).pc = p /\ Serving(p, w).work = w
BY DEF Serving

\* What sequences of events do.
LEMMA EventSeqs ==
    /\ <<>> \in Seq(Events) /\ Len(<<>>) = 0
    /\ \A s \in Seq(Events), e \in Events :
           Append(s, e) \in Seq(Events) /\ Len(Append(s, e)) = Len(s) + 1
    /\ \A s \in Seq(Events) :
           /\ Len(s) \in Nat
           /\ s # <<>> => /\ Head(s) \in Events
                          /\ Tail(s) \in Seq(Events)
                          /\ Len(Tail(s)) = Len(s) - 1
OBVIOUS

\* The network, a sequence of batches, under sending and receiving.
LEMMA BatchSeqs ==
    /\ <<>> \in Seq(Seq(Events)) /\ Len(<<>>) = 0
    /\ \A n \in Seq(Seq(Events)), s \in Seq(Events) :
           Append(n, s) \in Seq(Seq(Events)) /\ Len(Append(n, s)) = Len(n) + 1
    /\ \A n \in Seq(Seq(Events)) :
           /\ Len(n) \in Nat
           /\ n # <<>> => /\ Head(n) \in Seq(Events)
                          /\ Tail(n) \in Seq(Seq(Events))
                          /\ Len(Tail(n)) = Len(n) - 1
<1> DEFINE S == Seq(Events)
<1> HIDE DEF S
<1>1. /\ <<>> \in Seq(S) /\ Len(<<>>) = 0
      /\ \A n \in Seq(S), s \in S : Append(n, s) \in Seq(S) /\ Len(Append(n, s)) = Len(n) + 1
      /\ \A n \in Seq(S) :
           /\ Len(n) \in Nat
           /\ n # <<>> => /\ Head(n) \in S /\ Tail(n) \in Seq(S) /\ Len(Tail(n)) = Len(n) - 1
  OBVIOUS
<1> QED
  BY <1>1 DEF S

\* The initial states have their types.
LEMMA TypeInvInit == Init => TypeInv
<1> SUFFICES ASSUME Init PROVE TypeInv
  OBVIOUS
<1>1. /\ serving \in [pc : {"recv", "work", "ack", "gone"}, work : Seq(Events)]
      /\ serving.pc # "work" => serving.work = <<>>
  BY ServingType, EventSeqs DEF Init
<1>2. /\ ring \in Seq(Events) /\ Len(ring) = 0 /\ batch \in Seq(Events) /\ Len(batch) = 0
      /\ net \in Seq(Seq(Events)) /\ Len(net) = 0 /\ orphan \in Seq(Events)
  BY EventSeqs, BatchSeqs DEF Init
<1>3. /\ pc = "read" /\ acks = 0 /\ stream = "open" /\ born = FALSE /\ faulted = FALSE
      /\ stopping = FALSE
  BY DEF Init
<1>4. /\ Len(ring) <= RingSize /\ Len(batch) <= BatchSize /\ Len(batch) < BatchSize
      /\ Len(net) <= SendWindow /\ acks \in 0 .. AckWindow
  BY <1>2, <1>3, CollectorAssumption
<1> QED
  BY <1>1, <1>2, <1>3, <1>4, Zenon DEF TypeInv

\* What a step does to the sequences and to the loop: the disjuncts of Next,
\* sorted by variable.
LEMMA Effects ==
    ASSUME [Next]_vars
    PROVE  /\ \/ ring' = ring \/ ring' = <<>>
              \/ ring # <<>> /\ ring' = Tail(ring)
              \/ \E e \in Events : Len(ring) < RingSize /\ ring' = Append(ring, e)
           /\ \/ batch' = batch /\ pc' = pc
              \/ batch' = batch /\ pc = "send" /\ pc' = "reopen"
              \/ batch' = batch /\ pc = "exited" /\ pc' = "read"
              \/ batch' = <<>> /\ pc' \in {"read", "exited"}
              \/ /\ ring # <<>> /\ pc = "read" /\ batch' = Append(batch, Head(ring))
                 /\ pc' = IF Len(batch) + 1 >= BatchSize \/ overdue THEN "send" ELSE "read"
           /\ \/ net' = net \/ net' = <<>>
              \/ net # <<>> /\ net' = Tail(net)
              \/ Len(net) < SendWindow /\ net' = Append(net, batch)
           /\ \/ acks' = acks \/ acks' = 0
              \/ acks > 0 /\ acks' = acks - 1
              \/ acks < AckWindow /\ acks' = acks + 1
           /\ stream' = stream \/ stream' \in {"open", "dead"}
           /\ \/ serving' = serving
              \/ \E p \in {"recv", "ack", "gone"} : serving' = Serving(p, <<>>)
              \/ net # <<>> /\ serving' = Serving("work", Head(net))
           /\ orphan' = orphan \/ orphan' = <<>> \/ orphan' = serving.work
           /\ born' = born \/ \E e \in Events : born' = (born \/ e = "tracer")
           /\ faulted' = faulted \/ faulted' = TRUE
           /\ stopping' = stopping \/ stopping' \in BOOLEAN
BY DEF kernel, resolver, collector, transport, server, ghosts, Next, Loop, Handler, Fault,
    vars, Sync, PodChanges, ReadUnknown, ReadEvent, Flushed, Send, SendFails, Reopen, ReopenFails,
    DrainAck, SecondPasses, Terminate, Exit, Restart, Recv, Process, SendAck, ProcessOrphan,
    BreakStream, Crash, Shutdown, GracefulStop, HttpDone, ShutdownDone, AggregatorRestart,
    Settle, Produce, aggregator

\* Every step keeps the types.
LEMMA TypeInvNext == TypeInv /\ [Next]_vars => TypeInv'
<1> SUFFICES ASSUME TypeInv, [Next]_vars
             PROVE  TypeInv'
  OBVIOUS
<1> DEFINE S == Seq(Events)
           B == Seq(S)
           H == [pc : {"recv", "work", "ack", "gone"}, work : S]
<1>e. /\ <<>> \in S /\ Len(<<>>) = 0
      /\ \A s \in S, e \in Events : Append(s, e) \in S /\ Len(Append(s, e)) = Len(s) + 1
      /\ \A s \in S : /\ Len(s) \in Nat
                      /\ s # <<>> => Head(s) \in Events /\ Tail(s) \in S /\ Len(Tail(s)) = Len(s) - 1
  BY EventSeqs
<1>b. /\ <<>> \in B
      /\ \A n \in B, s \in S : Append(n, s) \in B /\ Len(Append(n, s)) = Len(n) + 1
      /\ \A n \in B : /\ Len(n) \in Nat
                      /\ n # <<>> => Head(n) \in S /\ Tail(n) \in B /\ Len(Tail(n)) = Len(n) - 1
  BY BatchSeqs
<1>h. \A p \in {"recv", "work", "ack", "gone"}, w \in S :
          Serving(p, w) \in H /\ Serving(p, w).pc = p /\ Serving(p, w).work = w
  BY ServingType
<1>w. serving \in H /\ serving.work \in S /\ serving.pc \in {"recv", "work", "ack", "gone"}
      /\ (serving.pc # "work" => serving.work = <<>>)
  BY DEF TypeInv
<1>c. /\ RingSize \in Nat \ {0} /\ BatchSize \in Nat \ {0}
      /\ SendWindow \in Nat \ {0} /\ AckWindow \in Nat \ {0}
  BY CollectorAssumption
<1>r. ring \in S /\ Len(ring) <= RingSize
  BY DEF TypeInv
<1>q. /\ batch \in S /\ Len(batch) <= BatchSize
      /\ pc = "read" => Len(batch) < BatchSize
      /\ pc = "exited" => batch = <<>>
      /\ pc \in {"read", "send", "reopen", "exited"}
  BY DEF TypeInv
<1>n. net \in B /\ Len(net) <= SendWindow /\ acks \in 0 .. AckWindow
      /\ stream \in {"open", "dead"}
  BY DEF TypeInv
<1>o. orphan \in S
  BY DEF TypeInv
<1> HIDE DEF S, B, H
<1>1. ring' \in S /\ Len(ring') <= RingSize
  <2>1. \/ ring' = ring \/ ring' = <<>>
        \/ ring # <<>> /\ ring' = Tail(ring)
        \/ \E e \in Events : Len(ring) < RingSize /\ ring' = Append(ring, e)
    BY Effects
  <2>2. CASE ring' = ring \/ ring' = <<>>
    BY <2>2, <1>e, <1>r, <1>c
  <2>3. CASE ring # <<>> /\ ring' = Tail(ring)
    <3>1. ring' \in S /\ Len(ring') = Len(ring) - 1 /\ Len(ring) \in Nat
      BY <2>3, <1>e, <1>r
    <3> QED
      BY <3>1, <1>r, <1>c
  <2>4. ASSUME NEW e \in Events, Len(ring) < RingSize, ring' = Append(ring, e)
        PROVE  ring' \in S /\ Len(ring') <= RingSize
    <3>1. ring' \in S /\ Len(ring') = Len(ring) + 1 /\ Len(ring) \in Nat
      BY <2>4, <1>e, <1>r
    <3> QED
      BY <3>1, <2>4, <1>c
  <2> QED
    BY <2>1, <2>2, <2>3, <2>4
<1>2. /\ batch' \in S /\ Len(batch') <= BatchSize
      /\ pc' = "read" => Len(batch') < BatchSize
      /\ pc' = "exited" => batch' = <<>>
      /\ pc' \in {"read", "send", "reopen", "exited"}
  <2>1. CASE batch' = batch /\ pc' = pc
    BY <2>1, <1>q
  <2>2. CASE batch' = batch /\ pc = "send" /\ pc' = "reopen"
    BY <2>2, <1>q
  <2>3. CASE batch' = batch /\ pc = "exited" /\ pc' = "read"
    BY <2>3, <1>q, <1>e, <1>c
  <2>4. CASE batch' = <<>> /\ pc' \in {"read", "exited"}
    BY <2>4, <1>e, <1>c
  <2>5. CASE /\ ring # <<>> /\ pc = "read" /\ batch' = Append(batch, Head(ring))
             /\ pc' = IF Len(batch) + 1 >= BatchSize \/ overdue THEN "send" ELSE "read"
    <3>1. batch' \in S /\ Len(batch') = Len(batch) + 1 /\ Len(batch) \in Nat
      BY <2>5, <1>q, <1>r, <1>e
    <3> QED
      BY <2>5, <3>1, <1>q, <1>c
  <2> QED
    BY <2>1, <2>2, <2>3, <2>4, <2>5, Effects
<1>3. net' \in B /\ Len(net') <= SendWindow
  <2>1. \/ net' = net \/ net' = <<>>
        \/ net # <<>> /\ net' = Tail(net)
        \/ Len(net) < SendWindow /\ net' = Append(net, batch)
    BY Effects
  <2>2. CASE net' = net \/ net' = <<>>
    BY <2>2, <1>e, <1>b, <1>n, <1>c
  <2>3. CASE net # <<>> /\ net' = Tail(net)
    <3>1. net' \in B /\ Len(net') = Len(net) - 1 /\ Len(net) \in Nat
      BY <2>3, <1>b, <1>n
    <3> QED
      BY <3>1, <1>n, <1>c
  <2>4. CASE Len(net) < SendWindow /\ net' = Append(net, batch)
    <3>1. net' \in B /\ Len(net') = Len(net) + 1 /\ Len(net) \in Nat
      BY <2>4, <1>b, <1>n, <1>q
    <3> QED
      BY <3>1, <2>4, <1>c
  <2> QED
    BY <2>1, <2>2, <2>3, <2>4
<1>4. acks' \in 0 .. AckWindow /\ stream' \in {"open", "dead"}
  <2>1. /\ \/ acks' = acks \/ acks' = 0
           \/ acks > 0 /\ acks' = acks - 1
           \/ acks < AckWindow /\ acks' = acks + 1
        /\ stream' = stream \/ stream' \in {"open", "dead"}
    BY Effects
  <2> QED
    BY <2>1, <1>n, <1>c
<1>5. serving' \in H /\ (serving'.pc # "work" => serving'.work = <<>>)
  <2>1. \/ serving' = serving
        \/ \E p \in {"recv", "ack", "gone"} : serving' = Serving(p, <<>>)
        \/ net # <<>> /\ serving' = Serving("work", Head(net))
    BY Effects
  <2> QED
    BY <2>1, <1>e, <1>b, <1>h, <1>n, <1>w
<1>6. orphan' \in S
  BY <1>e, <1>w, <1>o, Effects
<1>7. born' \in BOOLEAN /\ faulted' \in BOOLEAN /\ stopping' \in BOOLEAN
  BY Effects DEF TypeInv
<1> QED
  BY <1>1, <1>2, <1>3, <1>4, <1>5, <1>6, <1>7 DEF TypeInv, S, B, H

\* Every step that kills a stream or drops a batch follows a failure.
LEMMA FaultInvNext == TypeInv /\ FaultInv /\ [Next]_vars => FaultInv'
<1> SUFFICES ASSUME TypeInv, FaultInv, [Next]_vars
             PROVE  FaultInv'
  OBVIOUS
<1> USE DEF kernel, resolver, collector, transport, server, ghosts, Next, Loop, Handler, Fault,
    vars, Sync, PodChanges, ReadUnknown, ReadEvent, Flushed, Send, SendFails, Reopen, ReopenFails,
    DrainAck, SecondPasses, Terminate, Exit, Restart, Recv, Process, SendAck, ProcessOrphan,
    BreakStream, Crash, Shutdown, GracefulStop, HttpDone, ShutdownDone, AggregatorRestart,
    Settle, Produce, aggregator
<1>1. faulted' = faulted \/ faulted' = TRUE
  OBVIOUS
<1>2. stream' = stream \/ stream' = "open" \/ faulted' = TRUE \/ (stopping /\ stream' = "dead")
  OBVIOUS
<1>3. stopping' = stopping \/ stopping' = FALSE \/ faulted' = TRUE
  OBVIOUS
<1>4. \/ pc' = pc \/ pc' \in {"read", "send"}
      \/ pc' = "reopen" /\ (stream = "dead" \/ stopping)
      \/ pc' = "exited" /\ stopping
  OBVIOUS
<1>5. faulted \in BOOLEAN /\ stopping \in BOOLEAN
  BY DEF TypeInv
<1> QED
  BY ONLY <1>1, <1>2, <1>3, <1>4, <1>5, FaultInv DEF FaultInv


-----------------------------------------------------------------------------
(* Where a step moves the tracer. *)

\* A step that moves the tracer from loc to "to": it stays, is born, is recorded,
\* moves on, or is lost in a step that follows a failure or is one.
Moved(loc, to) ==
    /\ faulted' = faulted \/ faulted' = TRUE
    /\ \/ to = loc /\ born' = born
       \/ ~born /\ born' /\ to = "ring" /\ faulted' = faulted
       \/ ~born /\ born' /\ to = "none" /\ faulted'
       \/ born' = born /\ loc \in Pending /\ to \in Pending
       \/ born' = born /\ loc \in Pending /\ to = "done" /\ faulted' = faulted
       \/ born' = born /\ loc \in Pending /\ to = "none" /\ faulted'

\* The kernel's step.
LEMMA ProduceMoves ==
    ASSUME TypeInv, NEW loc \in Locations, Where(loc), NEW e \in Events, Produce(e)
    PROVE  \E to \in Locations : Where(to)' /\ Moved(loc, to)
<1>1. /\ batch' = batch /\ net' = net /\ serving' = serving /\ orphan' = orphan
      /\ recorded' = recorded
  BY DEF Produce, collector, transport, server
<1>2. ring \in Seq(Events) /\ born \in BOOLEAN /\ Once(ring)
  BY DEF TypeInv, Where, At
<1>3. CASE e = "plain"
  <2>1. born' = born /\ (faulted' = faulted \/ faulted' = TRUE)
    BY <1>2, <1>3 DEF Produce
  <2>2. ring' = ring \/ ring' = Append(ring, e)
    BY DEF Produce
  <2>3. Once(ring') /\ (Within(ring') <=> Within(ring))
    <3>1. Once(Append(ring, e)) /\ (Within(Append(ring, e)) <=> Within(ring) \/ e = "tracer")
      BY <1>2, <1>3, OnceAppend
    <3> QED
      BY <1>2, <1>3, <2>2, <3>1, Zenon
  <2> QED
    BY <1>1, <2>1, <2>3 DEF Where, At, Moved
<1>4. CASE e = "tracer"
  <2>1. ~born /\ born' = TRUE /\ loc = "none"
    BY <1>4 DEF Produce, Where, At
  <2>2. CASE Len(ring) < RingSize
    <3>1. ring' = Append(ring, e) /\ faulted' = faulted
      BY <2>2 DEF Produce
    <3>2. ~Within(ring)
      BY <2>1 DEF Where, At
    <3>3. Once(ring') /\ Within(ring')
      BY <1>2, <1>4, <3>1, <3>2, OnceAppend
    <3>4. Where("ring")' /\ Moved(loc, "ring")
      BY <1>1, <2>1, <3>1, <3>3 DEF Where, At, Moved
    <3> QED
      BY <3>4 DEF Locations, Pending
  <2>3. CASE ~(Len(ring) < RingSize)
    <3>1. ring' = ring /\ faulted' = TRUE
      BY <2>3 DEF Produce
    <3>2. Where("none")' /\ Moved(loc, "none")
      BY <1>1, <2>1, <3>1 DEF Where, At, Moved
    <3> QED
      BY <3>2 DEF Locations, Pending
  <2> QED
    BY <2>2, <2>3
<1> QED
  BY <1>3, <1>4 DEF Events

\* The steps of the collector's loop.
LEMMA LoopMoves ==
    ASSUME TypeInv, FaultInv, NEW loc \in Locations, Where(loc), Loop
    PROVE  \E to \in Locations : Where(to)' /\ Moved(loc, to)
<1>t. /\ ring \in Seq(Events) /\ batch \in Seq(Events) /\ net \in Seq(Seq(Events))
      /\ born \in BOOLEAN /\ faulted \in BOOLEAN
      /\ serving.pc # "work" => serving.work = <<>>
  BY DEF TypeInv
<1>w. /\ Once(ring) /\ (Within(ring) <=> loc = "ring")
      /\ Once(batch) /\ (Within(batch) <=> loc = "batch")
      /\ NetOnce(net) /\ (NetWithin(net) <=> loc = "net")
      /\ Once(serving.work) /\ (Within(serving.work) <=> loc = "work")
      /\ Once(orphan) /\ (Within(orphan) <=> loc = "orphan")
      /\ recorded = IF loc = "done" THEN 1 ELSE 0
      /\ ~born => loc = "none"
  BY DEF Where, At
<1>1. CASE ReadUnknown
  <2>0. PICK to \in Locations : to = IF Head(ring) = "tracer" THEN "none" ELSE loc
    BY DEF Locations, Pending
  <2>1. /\ batch' = batch /\ net' = net /\ serving' = serving /\ orphan' = orphan
        /\ recorded' = recorded /\ born' = born /\ faulted' = TRUE
        /\ ring # <<>> /\ ring' = Tail(ring)
    BY <1>1 DEF ReadUnknown, collector, transport, server
  <2>2. /\ Once(ring') /\ (Within(ring') <=> Within(ring) /\ Head(ring) # "tracer")
        /\ Head(ring) = "tracer" => Within(ring)
    BY <2>1, <1>t, <1>w, OnceTail
  <2>3. Where(to)'
    BY <2>0, <2>1, <2>2, <1>w DEF Where, At
  <2>4. Moved(loc, to)
    BY <2>0, <2>1, <2>2, <1>w DEF Moved, Pending
  <2> QED
    BY <2>3, <2>4
<1>2. CASE ReadEvent
  <2>0. PICK to \in Locations : to = IF Head(ring) = "tracer" THEN "batch" ELSE loc
    BY DEF Locations, Pending
  <2>1. /\ net' = net /\ serving' = serving /\ orphan' = orphan
        /\ recorded' = recorded /\ born' = born /\ faulted' = faulted
        /\ ring # <<>> /\ ring' = Tail(ring) /\ batch' = Append(batch, Head(ring))
    BY <1>2 DEF ReadEvent, transport, server, ghosts
  <2>2. /\ Once(ring') /\ (Within(ring') <=> Within(ring) /\ Head(ring) # "tracer")
        /\ Head(ring) = "tracer" => Within(ring)
        /\ Head(ring) \in Events
    BY <2>1, <1>t, <1>w, OnceTail
  <2>3. Head(ring) = "tracer" => ~Within(batch)
    BY <2>2, <1>w
  <2>4. Once(batch') /\ (Within(batch') <=> Within(batch) \/ Head(ring) = "tracer")
    BY <2>1, <2>2, <2>3, <1>t, <1>w, OnceAppend
  <2>5. Where(to)'
    BY <2>0, <2>1, <2>2, <2>4, <1>w DEF Where, At
  <2>6. Moved(loc, to)
    BY <2>0, <2>1, <2>2, <1>w DEF Moved, Pending
  <2> QED
    BY <2>5, <2>6
<1>3. CASE Send
  <2> DEFINE to == IF loc = "batch" THEN "net" ELSE loc
  <2>1. /\ ring' = ring /\ serving' = serving /\ orphan' = orphan
        /\ recorded' = recorded /\ born' = born /\ faulted' = faulted
        /\ batch' = <<>> /\ net' = Append(net, batch)
    BY <1>3 DEF Send, Flushed, kernel, server, ghosts
  <2>2. NetOnce(net') /\ (NetWithin(net') <=> NetWithin(net) \/ Within(batch))
    BY <2>1, <1>t, <1>w, NetAppend
  <2>3. Once(batch') /\ ~Within(batch')
    BY <2>1, EmptyHasNone
  <2>4. to \in Locations /\ Where(to)'
    BY <2>1, <2>2, <2>3, <1>w DEF Where, At, Locations, Pending
  <2>5. Moved(loc, to)
    BY <2>1 DEF Moved, Pending
  <2> QED
    BY <2>4, <2>5
<1>4. CASE SendFails
  <2>1. /\ ring' = ring /\ batch' = batch /\ net' = net /\ serving' = serving /\ orphan' = orphan
        /\ recorded' = recorded /\ born' = born /\ faulted' = faulted
    BY <1>4 DEF SendFails, kernel, transport, server, ghosts
  <2> QED
    BY <2>1, <1>w DEF Where, At, Moved
<1>5. CASE Reopen
  <2> DEFINE to == IF loc \in {"batch", "net", "work"} THEN "none" ELSE loc
  <2>1. /\ ring' = ring /\ serving'.work = <<>> /\ orphan' = orphan
        /\ recorded' = recorded /\ born' = born /\ faulted' = faulted
        /\ batch' = <<>> /\ net' = <<>> /\ pc = "reopen"
    BY <1>5 DEF Reopen, Flushed, kernel, ghosts, Serving
  <2>2. faulted = TRUE
    BY <2>1, <1>t DEF FaultInv
  <2>3. /\ Once(batch') /\ ~Within(batch') /\ NetOnce(net') /\ ~NetWithin(net')
        /\ Once(serving'.work) /\ ~Within(serving'.work)
    BY <2>1, EmptyHasNone
  <2>4. to \in Locations /\ Where(to)'
    BY <2>1, <2>3, <1>w DEF Where, At, Locations, Pending
  <2>5. Moved(loc, to)
    BY <2>1, <2>2 DEF Moved, Pending
  <2> QED
    BY <2>4, <2>5
<1>6. CASE ReopenFails
  <2> DEFINE to == IF loc = "batch" THEN "none" ELSE loc
  <2>1. /\ ring' = ring /\ serving' = serving /\ orphan' = orphan /\ net' = net
        /\ recorded' = recorded /\ born' = born /\ faulted' = faulted
        /\ batch' = <<>> /\ pc = "reopen"
    BY <1>6 DEF ReopenFails, Flushed, kernel, transport, server, ghosts
  <2>2. faulted = TRUE
    BY <2>1, <1>t DEF FaultInv
  <2>3. Once(batch') /\ ~Within(batch')
    BY <2>1, EmptyHasNone
  <2>4. to \in Locations /\ Where(to)'
    BY <2>1, <2>3, <1>w DEF Where, At, Locations, Pending
  <2>5. Moved(loc, to)
    BY <2>1, <2>2 DEF Moved, Pending
  <2> QED
    BY <2>4, <2>5
<1>7. CASE Exit
  <2> DEFINE to == IF loc \in {"ring", "batch", "net"} THEN "none"
                   ELSE IF loc = "work" THEN "orphan" ELSE loc
  <2>1. /\ ring' = <<>> /\ batch' = <<>> /\ net' = <<>> /\ serving'.work = <<>>
        /\ recorded' = recorded /\ born' = born /\ faulted' = faulted /\ stopping
        /\ IF serving.pc = "work" THEN orphan = <<>> /\ orphan' = serving.work
                                  ELSE orphan' = orphan
    BY <1>7 DEF Exit, ghosts, Serving
  <2>2. faulted = TRUE
    BY <2>1, <1>t DEF FaultInv
  <2>3. /\ Once(ring') /\ ~Within(ring') /\ Once(batch') /\ ~Within(batch')
        /\ NetOnce(net') /\ ~NetWithin(net')
        /\ Once(serving'.work) /\ ~Within(serving'.work)
    BY <2>1, EmptyHasNone
  <2>4. Once(orphan') /\ (Within(orphan') <=> loc \in {"work", "orphan"})
    BY <2>1, <1>t, <1>w, EmptyHasNone
  <2>5. to \in Locations /\ Where(to)'
    BY <2>1, <2>3, <2>4, <1>w DEF Where, At, Locations, Pending
  <2>6. Moved(loc, to)
    BY <2>1, <2>2 DEF Moved, Pending
  <2> QED
    BY <2>5, <2>6
<1> QED
  BY <1>1, <1>2, <1>3, <1>4, <1>5, <1>6, <1>7 DEF Loop


\* The steps of the aggregator's handlers, and the failures that end them.
LEMMA HandlerMoves ==
    ASSUME TypeInv, NEW loc \in Locations, Where(loc),
           Handler \/ ProcessOrphan \/ BreakStream \/ Crash
    PROVE  \E to \in Locations : Where(to)' /\ Moved(loc, to)
<1>t. /\ net \in Seq(Seq(Events)) /\ born \in BOOLEAN
      /\ serving.pc # "work" => serving.work = <<>>
  BY DEF TypeInv
<1>w. /\ Once(ring) /\ (Within(ring) <=> loc = "ring")
      /\ Once(batch) /\ (Within(batch) <=> loc = "batch")
      /\ NetOnce(net) /\ (NetWithin(net) <=> loc = "net")
      /\ Once(serving.work) /\ (Within(serving.work) <=> loc = "work")
      /\ Once(orphan) /\ (Within(orphan) <=> loc = "orphan")
      /\ recorded = IF loc = "done" THEN 1 ELSE 0
      /\ ~born => loc = "none"
  BY DEF Where, At
<1>1. CASE Recv
  <2>0. PICK to \in Locations : to = IF Within(Head(net)) THEN "work" ELSE loc
    BY DEF Locations, Pending
  <2>1. /\ ring' = ring /\ batch' = batch /\ orphan' = orphan
        /\ recorded' = recorded /\ born' = born /\ faulted' = faulted
        /\ net # <<>> /\ net' = Tail(net) /\ serving'.work = Head(net) /\ serving.pc = "recv"
    BY <1>1 DEF Recv, Serving, kernel, collector, ghosts
  <2>2. /\ Within(Head(net)) => NetWithin(net)
        /\ Once(serving'.work) /\ (Within(serving'.work) <=> Within(Head(net)))
        /\ NetOnce(net') /\ (NetWithin(net') <=> NetWithin(net) /\ ~Within(Head(net)))
    BY <2>1, <1>t, <1>w, NetTail
  <2>3. loc # "work"
    BY <2>1, <1>t, <1>w, EmptyHasNone
  <2>4. Where(to)'
    BY <2>0, <2>1, <2>2, <2>3, <1>w DEF Where, At
  <2>5. Moved(loc, to)
    BY <2>0, <2>1, <2>2, <1>w DEF Moved, Pending
  <2> QED
    BY <2>4, <2>5
<1>2. CASE Process
  <2> DEFINE to == IF loc = "work" THEN "done" ELSE loc
  <2>1. /\ ring' = ring /\ batch' = batch /\ net' = net /\ orphan' = orphan
        /\ born' = born /\ faulted' = faulted
        /\ recorded' = recorded + Count(serving.work) /\ serving'.work = <<>>
    BY <1>2 DEF Process, Serving, kernel, collector, transport, ghosts
  <2>2. Count(serving.work) = IF Within(serving.work) THEN 1 ELSE 0
    BY <1>w, CountOnce
  <2>3. recorded' = IF loc \in {"work", "done"} THEN 1 ELSE 0
    BY <2>1, <2>2, <1>w
  <2>4. Once(serving'.work) /\ ~Within(serving'.work)
    BY <2>1, EmptyHasNone
  <2>5. to \in Locations /\ Where(to)'
    BY <2>1, <2>3, <2>4, <1>w DEF Where, At, Locations, Pending
  <2>6. Moved(loc, to)
    BY <2>1 DEF Moved, Pending
  <2> QED
    BY <2>5, <2>6
<1>3. CASE SendAck
  <2>1. /\ ring' = ring /\ batch' = batch /\ net' = net /\ orphan' = orphan
        /\ recorded' = recorded /\ born' = born /\ faulted' = faulted
        /\ serving.pc = "ack" /\ serving'.work = <<>>
    BY <1>3 DEF SendAck, Serving, kernel, collector, ghosts
  <2>2. serving'.work = serving.work
    BY <2>1, <1>t
  <2> QED
    BY <2>1, <2>2, <1>w DEF Where, At, Moved
<1>4. CASE ProcessOrphan
  <2> DEFINE to == IF loc = "orphan" THEN "done" ELSE loc
  <2>1. /\ ring' = ring /\ batch' = batch /\ net' = net /\ serving' = serving
        /\ born' = born /\ faulted' = faulted
        /\ recorded' = recorded + Count(orphan) /\ orphan' = <<>>
    BY <1>4 DEF ProcessOrphan, kernel, collector, transport, ghosts
  <2>2. Count(orphan) = IF Within(orphan) THEN 1 ELSE 0
    BY <1>w, CountOnce
  <2>3. recorded' = IF loc \in {"orphan", "done"} THEN 1 ELSE 0
    BY <2>1, <2>2, <1>w
  <2>4. Once(orphan') /\ ~Within(orphan')
    BY <2>1, EmptyHasNone
  <2>5. to \in Locations /\ Where(to)'
    BY <2>1, <2>3, <2>4, <1>w DEF Where, At, Locations, Pending
  <2>6. Moved(loc, to)
    BY <2>1 DEF Moved, Pending
  <2> QED
    BY <2>5, <2>6
<1>5. CASE BreakStream
  <2> DEFINE to == IF loc = "net" THEN "none" ELSE IF loc = "work" THEN "orphan" ELSE loc
  <2>1. /\ ring' = ring /\ batch' = batch /\ net' = <<>> /\ serving'.work = <<>>
        /\ recorded' = recorded /\ born' = born /\ faulted' = TRUE
        /\ IF serving.pc = "work" THEN orphan = <<>> /\ orphan' = serving.work
                                  ELSE orphan' = orphan
    BY <1>5 DEF BreakStream, Serving, kernel, collector
  <2>2. /\ NetOnce(net') /\ ~NetWithin(net')
        /\ Once(serving'.work) /\ ~Within(serving'.work)
    BY <2>1, EmptyHasNone
  <2>3. Once(orphan') /\ (Within(orphan') <=> loc \in {"work", "orphan"})
    BY <2>1, <1>t, <1>w, EmptyHasNone
  <2>4. to \in Locations /\ Where(to)'
    BY <2>1, <2>2, <2>3, <1>w DEF Where, At, Locations, Pending
  <2>5. Moved(loc, to)
    BY <2>1 DEF Moved, Pending
  <2> QED
    BY <2>4, <2>5
<1>6. CASE Crash
  <2> DEFINE to == IF loc \in {"net", "work", "orphan"} THEN "none" ELSE loc
  <2>1. /\ ring' = ring /\ batch' = batch /\ net' = <<>> /\ serving'.work = <<>>
        /\ orphan' = <<>> /\ recorded' = recorded /\ born' = born /\ faulted' = TRUE
    BY <1>6 DEF Crash, Serving, kernel, collector
  <2>2. /\ NetOnce(net') /\ ~NetWithin(net')
        /\ Once(serving'.work) /\ ~Within(serving'.work)
        /\ Once(orphan') /\ ~Within(orphan')
    BY <2>1, EmptyHasNone
  <2>3. to \in Locations /\ Where(to)'
    BY <2>1, <2>2, <1>w DEF Where, At, Locations, Pending
  <2>4. Moved(loc, to)
    BY <2>1 DEF Moved, Pending
  <2> QED
    BY <2>3, <2>4
<1> QED
  BY <1>1, <1>2, <1>3, <1>4, <1>5, <1>6 DEF Handler

\* A collector that starts again: a batch its handler still had, if any, was
\* received before the failure that ended the last collector.
LEMMA RestartMoves ==
    ASSUME TypeInv, FaultInv, NEW loc \in Locations, Where(loc), Restart
    PROVE  \E to \in Locations : Where(to)' /\ Moved(loc, to)
<1> DEFINE to == IF loc = "work" THEN "none" ELSE loc
<1>1. /\ ring' = ring /\ batch' = batch /\ net' = net /\ serving'.work = <<>> /\ orphan' = orphan
      /\ recorded' = recorded /\ born' = born /\ faulted' = faulted /\ pc = "exited"
  BY DEF Restart, Serving, kernel, ghosts
<1>2. faulted = TRUE
  BY <1>1 DEF FaultInv, TypeInv
<1>3. Once(serving'.work) /\ ~Within(serving'.work)
  BY <1>1, EmptyHasNone
<1>4. to \in Locations /\ Where(to)'
  BY <1>1, <1>3 DEF Where, At, Locations, Pending
<1>5. Moved(loc, to)
  BY <1>1, <1>2 DEF Moved, Pending
<1> QED
  BY <1>4, <1>5

\* Every step.
LEMMA StepMoves ==
    ASSUME TypeInv, FaultInv, NEW loc \in Locations, Where(loc), [Next]_vars
    PROVE  \E to \in Locations : Where(to)' /\ Moved(loc, to)
<1>1. CASE \E e \in Events : Produce(e)
  BY <1>1, ProduceMoves
<1>2. CASE Loop
  BY <1>2, LoopMoves
<1>3. CASE Handler \/ ProcessOrphan \/ BreakStream \/ Crash
  BY <1>3, HandlerMoves
<1>4. CASE Restart
  BY <1>4, RestartMoves
<1>5. CASE \/ DrainAck \/ SecondPasses \/ Sync \/ GracefulStop \/ HttpDone \/ ShutdownDone
           \/ AggregatorRestart \/ Shutdown \/ Terminate \/ PodChanges \/ Settle \/ UNCHANGED vars
  <2>1. /\ ring' = ring /\ batch' = batch /\ net' = net /\ serving' = serving /\ orphan' = orphan
        /\ recorded' = recorded /\ born' = born /\ (faulted' = faulted \/ faulted' = TRUE)
    BY <1>5 DEF DrainAck, SecondPasses, Sync, GracefulStop, HttpDone, ShutdownDone, AggregatorRestart,
       Shutdown, Terminate, PodChanges, Settle, vars, kernel, collector, transport, server, ghosts
  <2> QED
    BY <2>1 DEF Where, At, Moved
<1> QED
  BY <1>1, <1>2, <1>3, <1>4, <1>5 DEF Next, Fault

-----------------------------------------------------------------------------

\* At first the tracer is nowhere.
LEMMA WhereInit == Init => Where("none")
<1> SUFFICES ASSUME Init PROVE Where("none")
  OBVIOUS
<1>1. /\ ring = <<>> /\ batch = <<>> /\ net = <<>> /\ serving.work = <<>> /\ orphan = <<>>
      /\ recorded = 0
  BY DEF Init, Serving
<1> QED
  BY <1>1, EmptyHasNone DEF Where, At

\* IndInv is an inductive invariant: at any time the tracer is in exactly one place,
\* or it was recorded exactly once, or it is nowhere, and before it was produced it
\* is nowhere.
THEOREM IndInvHolds == Spec => []IndInv
<1>1. Init => IndInv
  <2> SUFFICES ASSUME Init PROVE IndInv
    OBVIOUS
  <2>1. FaultInv
    BY DEF Init, FaultInv
  <2> QED
    BY <2>1, WhereInit, TypeInvInit DEF IndInv, Locations
<1>2. IndInv /\ [Next]_vars => IndInv'
  <2> SUFFICES ASSUME IndInv, [Next]_vars PROVE IndInv'
    OBVIOUS
  <2>1. PICK loc \in Locations : Where(loc)
    BY DEF IndInv
  <2>2. \E to \in Locations : Where(to)'
    BY <2>1, StepMoves DEF IndInv
  <2> QED
    BY <2>2, TypeInvNext, FaultInvNext DEF IndInv
<1> QED
  BY <1>1, <1>2, PTL DEF Spec

\* The ring buffer, the batch and the windows keep their bounds, and the batch never
\* grows past the size at which it is flushed.
THEOREM TypeCorrect == Spec => []TypeOK
<1>1. IndInv => TypeOK
  BY DEF IndInv, TypeInv, TypeOK
<1> QED
  BY <1>1, IndInvHolds, PTL

\* A step of the pipeline is a step of Delivery, or leaves its variables alone.
LEMMA StepImplements ==
    ASSUME IndInv, IndInv', [Next]_vars
    PROVE  Promise!Next \/ UNCHANGED Promise!vars
<1>1. PICK loc \in Locations : Where(loc)
  BY DEF IndInv
<1>2. PICK to \in Locations : Where(to)' /\ Moved(loc, to)
  BY <1>1, StepMoves DEF IndInv
<1>3. born \in BOOLEAN /\ born' \in BOOLEAN /\ faulted \in BOOLEAN /\ faulted' \in BOOLEAN
  BY DEF IndInv, TypeInv
<1>4. Status = Abs(loc, born) /\ Status' = Abs(to, born')
  BY <1>1, <1>2, <1>3, StatusIs, NextStatusIs
<1>5. (~born => loc = "none") /\ (~born' => to = "none")
  BY <1>1, <1>2 DEF Where, At
<1>6. /\ faulted' = faulted \/ faulted' = TRUE
      /\ \/ Status' = Status
         \/ Status = "unborn" /\ Status' = "pending" /\ faulted' = faulted
         \/ Status = "pending" /\ Status' = "recorded" /\ faulted' = faulted
         \/ Status \in {"unborn", "pending"} /\ Status' = "lost" /\ faulted' = TRUE
  BY <1>2, <1>3, <1>4, <1>5 DEF Moved, Abs, Pending, Locations
<1> QED
  BY <1>6 DEF Promise!Next, Promise!Create, Promise!Record, Promise!Lose, Promise!Fail,
     Promise!vars

\* The pipeline implements Delivery, whatever the sizes of its queues: an event is
\* never recorded twice, nor after it was lost, and it is lost only when the ring
\* buffer overflowed, its cgroup was unknown, or a process or connection failed.
THEOREM Implements == Spec => ImplementsDelivery
<1>1. Init => Promise!Init
  <2> SUFFICES ASSUME Init PROVE Promise!Init
    OBVIOUS
  <2>1. born = FALSE /\ faulted = FALSE
    BY DEF Init
  <2>2. Status = Abs("none", born)
    BY <2>1, WhereInit, StatusIs DEF Locations
  <2> QED
    BY <2>1, <2>2 DEF Promise!Init, Abs
<1>2. IndInv /\ IndInv' /\ [Next]_vars => [Promise!Next]_(Promise!vars)
  BY StepImplements
<1> QED
  BY <1>1, <1>2, IndInvHolds, PTL DEF Spec, ImplementsDelivery, Promise!Spec
=============================================================================
