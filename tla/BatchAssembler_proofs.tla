------------------------ MODULE BatchAssembler_proofs ------------------------
(***************************************************************************)
(* For any number of adding goroutines and any limits: the types, the true *)
(* bound on the size of a batch, the contract of Stop, and that every      *)
(* event is in exactly one place, in its order.                            *)
(***************************************************************************)
EXTENDS BatchAssembler, FiniteSetTheorems, TLAPS

Routine(pcs) == [pc : pcs, hand : Batch]

\* The type of the state, before anything is said of empty batches.
TypeInv ==
    /\ current \in Batch
    /\ output \in Seq(Batch)
    /\ closed \in BOOLEAN /\ done \in BOOLEAN /\ panicked \in BOOLEAN /\ late \in BOOLEAN
    /\ adder \in [Adders -> Routine({"idle", "flush", "send"})]
    /\ flusher \in Routine({"select", "send", "finalSend", "close", "exit"})
    /\ added \in Nat
    /\ departed \subseteq Batch

\* Only goroutines about to send have a batch, and no batch is empty.
HandInv ==
    /\ \A a \in Adders : adder[a].pc = "send" <=> adder[a].hand # <<>>
    /\ flusher.pc \in {"send", "finalSend"} <=> flusher.hand # <<>>
    /\ \A i \in 1 .. Len(output) : output[i] # <<>>
    /\ <<>> \notin departed

Flushing == {a \in Adders : adder[a].pc = "flush"}

Limit == MaxEvents + Cardinality(Adders) - 1

\* A batch outgrows MaxEvents only by what the other adding goroutines append
\* between one Add's decision to flush and its flush: one event each.
BatchBound == \A b \in Batches \cup {current} : Len(b) <= Limit

\* The current batch is below MaxEvents, but for one event per goroutine that
\* has decided to flush and has not done it yet.
SizeInv ==
    /\ Len(current) <= MaxEvents - 1 + Cardinality(Flushing)
    /\ \A a \in Adders : Len(adder[a].hand) <= Limit
    /\ Len(flusher.hand) <= Limit
    /\ \A i \in 1 .. Len(output) : Len(output[i]) <= Limit
    /\ \A b \in departed : Len(b) <= Limit

\* How far the ticker goroutine is with stopping, and what that says of the
\* others when no Add is late.
StopInv ==
    /\ closed <=> flusher.pc = "exit"
    /\ flusher.pc \in {"finalSend", "close", "exit"} => done
    /\ panicked => late
    /\ \A a \in Adders : adder[a].pc # "send" => adder[a].hand = <<>>
    /\ done /\ ~late => \A a \in Adders : adder[a].pc = "idle"
    /\ flusher.pc \in {"finalSend", "close", "exit"} /\ ~late => current = <<>>

-----------------------------------------------------------------------------
(* Type correctness. *)

\* A send keeps the channel's contents batches.
LEMMA SendType ==
    ASSUME TypeInv, NEW batch \in Batch, Send(batch)
    PROVE  /\ output' \in Seq(Batch)
           /\ departed' \subseteq Batch
           /\ panicked' \in BOOLEAN
  BY DEF TypeInv, Send

\* Taking the current batch leaves the goroutine well typed.
LEMMA TakeType ==
    ASSUME TypeInv, NEW P, NEW s \in P, NEW r \in P
    PROVE  Take(s, r) \in Routine(P)
  BY DEF TypeInv, Take, At, Routine, Batch

\* NewBatchAssembler returns a well-typed assembler.
LEMMA TypeInit == Init => TypeInv
  <1>1. /\ At("idle") \in Routine({"idle", "flush", "send"})
        /\ At("select") \in Routine({"select", "send", "finalSend", "close", "exit"})
        /\ <<>> \in Batch
        /\ <<>> \in Seq(Batch)
    BY DEF At, Routine, Batch
  <1> SUFFICES ASSUME Init PROVE TypeInv
    OBVIOUS
  <1>2. adder \in [Adders -> Routine({"idle", "flush", "send"})]
    BY <1>1 DEF Init
  <1>3. closed \in BOOLEAN /\ done \in BOOLEAN /\ panicked \in BOOLEAN /\ late \in BOOLEAN
    BY DEF Init
  <1>4. added \in Nat /\ departed \subseteq Batch
    BY DEF Init
  <1>5. /\ current \in Batch /\ output \in Seq(Batch)
        /\ flusher \in Routine({"select", "send", "finalSend", "close", "exit"})
    BY <1>1 DEF Init
  <1>6. QED
    BY <1>2, <1>3, <1>4, <1>5 DEF TypeInv

\* No step of any goroutine breaks the types.
LEMMA TypeStep == TypeInv /\ [Next]_vars => TypeInv'
  <1> SUFFICES ASSUME TypeInv, [Next]_vars PROVE TypeInv'
    OBVIOUS
  <1> DEFINE A == {"idle", "flush", "send"}
             F == {"select", "send", "finalSend", "close", "exit"}
  <1>0. /\ \A p \in A : At(p) \in Routine(A)
        /\ \A p \in F : At(p) \in Routine(F)
        /\ <<>> \in Batch
        /\ \A a \in Adders : adder[a].hand \in Batch
        /\ flusher.hand \in Batch
    BY DEF At, Routine, Batch, TypeInv
  <1>1. ASSUME NEW a \in Adders, Add(a) PROVE TypeInv'
    <2>1. current' \in Batch /\ added' \in Nat
      BY <1>1 DEF Add, TypeInv, Batch
    <2>2. At(IF Len(current) + 1 >= MaxEvents THEN "flush" ELSE "idle") \in Routine(A)
      BY <1>0
    <2>3. adder' \in [Adders -> Routine(A)]
      BY <1>1, <2>2 DEF Add, TypeInv
    <2>4. late' \in BOOLEAN
      BY <1>1 DEF Add, TypeInv
    <2>5. QED
      BY <1>1, <2>1, <2>3, <2>4 DEF Add, TypeInv
  <1>2. ASSUME NEW a \in Adders, AddTake(a) PROVE TypeInv'
    <2>1. Take("send", "idle") \in Routine(A)
      BY TakeType
    <2>2. QED
      BY <1>0, <1>2, <2>1 DEF AddTake, TypeInv
  <1>3. ASSUME NEW a \in Adders, AddSend(a) PROVE TypeInv'
    <2>1. /\ output' \in Seq(Batch)
          /\ departed' \subseteq Batch
          /\ panicked' \in BOOLEAN
      BY <1>0, <1>3, SendType DEF AddSend
    <2>2. QED
      BY <1>0, <1>3, <2>1 DEF AddSend, TypeInv
  <1>4. CASE TickTake
    <2>1. Take("send", "select") \in Routine(F)
      BY TakeType
    <2>2. QED
      BY <1>0, <1>4, <2>1 DEF TickTake, TypeInv
  <1>5. CASE TickSend
    <2>1. /\ output' \in Seq(Batch)
          /\ departed' \subseteq Batch
          /\ panicked' \in BOOLEAN
      BY <1>0, <1>5, SendType DEF TickSend
    <2>2. QED
      BY <1>0, <1>5, <2>1 DEF TickSend, TypeInv
  <1>6. CASE FinalTake
    <2>1. Take("finalSend", "close") \in Routine(F)
      BY TakeType
    <2>2. QED
      BY <1>0, <1>6, <2>1 DEF FinalTake, TypeInv
  <1>7. CASE FinalSend
    <2>1. /\ output' \in Seq(Batch)
          /\ departed' \subseteq Batch
          /\ panicked' \in BOOLEAN
      BY <1>0, <1>7, SendType DEF FinalSend
    <2>2. QED
      BY <1>0, <1>7, <2>1 DEF FinalSend, TypeInv
  <1>8. CASE CloseOutput
    BY <1>0, <1>8 DEF CloseOutput, TypeInv
  <1>9. CASE Stop
    <2>1. late' \in BOOLEAN
      BY <1>9 DEF Stop, TypeInv
    <2>2. QED
      BY <1>9, <2>1 DEF Stop, TypeInv
  <1>10. CASE Receive
    <2>1. Head(output) \in Batch /\ Tail(output) \in Seq(Batch)
      BY <1>10 DEF Receive, TypeInv
    <2>2. QED
      BY <1>10, <2>1 DEF Receive, TypeInv
  <1>11. CASE UNCHANGED vars
    BY <1>11 DEF vars, TypeInv
  <1>12. QED
    BY <1>1, <1>2, <1>3, <1>4, <1>5, <1>6, <1>7, <1>8, <1>9, <1>10, <1>11
       DEF Next, AdderStep, FlusherStep

\* A send puts no empty batch anywhere.
LEMMA SendHand ==
    ASSUME TypeInv, HandInv, NEW batch \in Batch, batch # <<>>, Send(batch)
    PROVE  /\ \A i \in 1 .. Len(output') : output'[i] # <<>>
           /\ <<>> \notin departed'
  <1>1. CASE output' = Append(output, batch) /\ departed' = departed
    <2>1. \A i \in 1 .. Len(output') :
            output'[i] = batch \/ (i \in 1 .. Len(output) /\ output'[i] = output[i])
      BY <1>1 DEF TypeInv
    <2>2. QED
      BY <1>1, <2>1 DEF HandInv
  <1>2. CASE output' = output /\ departed' \in {departed, departed \cup {batch}}
    BY <1>2 DEF HandInv
  <1>3. QED
    BY <1>1, <1>2 DEF Send

\* No step sends, or leaves with, an empty batch.
LEMMA HandStep == TypeInv /\ HandInv /\ [Next]_vars => HandInv'
  <1> SUFFICES ASSUME TypeInv, HandInv, [Next]_vars PROVE HandInv'
    OBVIOUS
  <1>0. /\ \A p : At(p).hand = <<>> /\ At(p).pc = p
        /\ \A a \in Adders : adder[a].hand \in Batch
        /\ flusher.hand \in Batch
    BY DEF At, TypeInv, Routine
  <1>1. ASSUME NEW a \in Adders, Add(a) PROVE HandInv'
    BY <1>0, <1>1 DEF Add, TypeInv, HandInv
  <1>2. ASSUME NEW a \in Adders, AddTake(a) PROVE HandInv'
    BY <1>0, <1>2 DEF AddTake, Take, TypeInv, HandInv
  <1>3. ASSUME NEW a \in Adders, AddSend(a) PROVE HandInv'
    <2>1. (\A i \in 1 .. Len(output') : output'[i] # <<>>) /\ <<>> \notin departed'
      BY <1>0, <1>3, SendHand DEF AddSend, HandInv
    <2>2. QED
      BY <1>0, <1>3, <2>1 DEF AddSend, TypeInv, HandInv
  <1>4. CASE TickTake \/ FinalTake
    BY <1>0, <1>4 DEF TickTake, FinalTake, Take, HandInv
  <1>5. CASE TickSend \/ FinalSend
    <2>1. (\A i \in 1 .. Len(output') : output'[i] # <<>>) /\ <<>> \notin departed'
      BY <1>0, <1>5, SendHand DEF TickSend, FinalSend, HandInv
    <2>2. QED
      BY <1>0, <1>5, <2>1 DEF TickSend, FinalSend, HandInv
  <1>6. CASE CloseOutput
    BY <1>0, <1>6 DEF CloseOutput, HandInv
  <1>7. CASE Receive
    <2>1. /\ Head(output) = output[1] /\ 1 \in 1 .. Len(output)
          /\ \A i \in 1 .. Len(Tail(output)) :
               i + 1 \in 1 .. Len(output) /\ Tail(output)[i] = output[i + 1]
      BY <1>7 DEF Receive, TypeInv
    <2>2. QED
      BY <1>7, <2>1 DEF Receive, HandInv
  <1>8. CASE Stop \/ UNCHANGED vars
    BY <1>8 DEF Stop, vars, HandInv
  <1>9. QED
    BY <1>1, <1>2, <1>3, <1>4, <1>5, <1>6, <1>7, <1>8 DEF Next, AdderStep, FlusherStep

\* The assembler's fields keep their types in every interleaving; in particular
\* no goroutine ever holds, sends or drops an empty batch.
THEOREM TypeCorrect == Spec => []TypeOK
  <1>1. TypeInv /\ HandInv => TypeOK
    <2> SUFFICES ASSUME TypeInv, HandInv PROVE TypeOK
      OBVIOUS
    <2>1. output \in Seq(Batch \ {<<>>})
      BY DEF TypeInv, HandInv
    <2>2. ASSUME NEW a \in Adders
          PROVE  adder[a] \in Goroutine({"idle", "flush"}, {"send"})
      <3>1. adder[a] \in Routine({"idle", "flush", "send"})
        BY DEF TypeInv
      <3>2. QED
        BY <3>1 DEF HandInv, Routine, Goroutine
    <2>3. adder \in [Adders -> Goroutine({"idle", "flush"}, {"send"})]
      BY <2>2 DEF TypeInv
    <2>4. flusher \in Goroutine({"select", "close", "exit"}, {"send", "finalSend"})
      BY DEF TypeInv, HandInv, Routine, Goroutine
    <2>5. QED
      BY <2>1, <2>3, <2>4 DEF TypeInv, HandInv, TypeOK
  <1>2. Init => TypeInv /\ HandInv
    <2>1. Init => HandInv
      BY DEF Init, HandInv, At
    <2>2. QED
      BY <2>1, TypeInit
  <1>3. TypeInv /\ HandInv /\ [Next]_vars => (TypeInv /\ HandInv)'
    BY TypeStep, HandStep
  <1>4. QED
    BY <1>1, <1>2, <1>3, PTL DEF Spec

-----------------------------------------------------------------------------
(* The size of a batch. *)

\* Counting the goroutines that are about to flush.
LEMMA FlushingBound ==
    /\ IsFiniteSet(Flushing)
    /\ Cardinality(Adders) \in Nat
    /\ Cardinality(Flushing) \in 0 .. Cardinality(Adders)
  <1>1. Flushing \subseteq Adders
    BY DEF Flushing
  <1>2. QED
    BY <1>1, FS_Subset, FS_CardinalityType, BatchAssumption

\* One more goroutine about to flush.
LEMMA FlushingGrows ==
    ASSUME NEW S, NEW a, IsFiniteSet(S), a \notin S
    PROVE  Cardinality(S \cup {a}) = Cardinality(S) + 1
  BY FS_AddElement

\* What a goroutine leaves with is within the limit.
LEMMA TakeSize ==
    ASSUME TypeInv, SizeInv, NEW s, NEW r
    PROVE  Len(Take(s, r).hand) <= Limit
  <1>1. Len(current) \in Nat /\ Len(current) <= Limit
    BY FlushingBound, BatchAssumption DEF TypeInv, Batch, SizeInv, Limit
  <1>2. Limit \in Nat
    BY FlushingBound, BatchAssumption DEF Limit
  <1>3. Len(<<>>) = 0
    OBVIOUS
  <1>4. QED
    BY <1>1, <1>2, <1>3 DEF Take, At

\* A send puts nothing larger than what was taken anywhere.
LEMMA SendSize ==
    ASSUME TypeInv, SizeInv, NEW batch \in Batch, Len(batch) <= Limit, Send(batch)
    PROVE  /\ \A i \in 1 .. Len(output') : Len(output'[i]) <= Limit
           /\ \A b \in departed' : Len(b) <= Limit
  <1>1. CASE output' = Append(output, batch) /\ departed' = departed
    <2>1. /\ Len(output') = Len(output) + 1
          /\ Len(output) \in Nat
          /\ \A i \in 1 .. Len(output) : output'[i] = output[i]
          /\ output'[Len(output) + 1] = batch
      BY <1>1 DEF TypeInv
    <2>2. \A i \in 1 .. Len(output') : i \in 1 .. Len(output) \/ i = Len(output) + 1
      BY <2>1
    <2>3. QED
      BY <1>1, <2>1, <2>2 DEF SizeInv
  <1>2. CASE output' = output /\ departed' = departed \cup {batch}
    BY <1>2 DEF SizeInv
  <1>3. CASE output' = output /\ departed' = departed
    BY <1>3 DEF SizeInv
  <1>4. QED
    BY <1>1, <1>2, <1>3 DEF Send

\* An empty assembler is within the limit.
LEMMA SizeInit == Init => SizeInv
  <1> SUFFICES ASSUME Init PROVE SizeInv
    OBVIOUS
  <1>1. Limit \in Nat
    BY FlushingBound, BatchAssumption DEF Limit
  <1>2. /\ Len(<<>>) = 0
        /\ At("idle").hand = <<>>
        /\ At("select").hand = <<>>
    BY DEF At
  <1>3. QED
    BY <1>1, <1>2, FlushingBound, BatchAssumption DEF Init, SizeInv

\* No step of any goroutine makes a batch too long.
LEMMA SizeStep == TypeInv /\ SizeInv /\ [Next]_vars => SizeInv'
  <1> SUFFICES ASSUME TypeInv, SizeInv, [Next]_vars PROVE SizeInv'
    OBVIOUS
  <1>0. /\ Limit \in Nat
        /\ MaxEvents \in Nat \ {0}
        /\ Len(<<>>) = 0
        /\ \A p : At(p).hand = <<>> /\ At(p).pc = p
        /\ \A a \in Adders : adder[a].hand \in Batch
        /\ flusher.hand \in Batch
    BY FlushingBound, BatchAssumption DEF Limit, At, TypeInv, Routine
  <1>c. Cardinality(Flushing') \in Nat
    <2>1. Flushing' \subseteq Adders
      BY DEF Flushing
    <2>2. QED
      BY <2>1, FS_Subset, FS_CardinalityType, BatchAssumption
  <1>1. ASSUME NEW a \in Adders, Add(a) PROVE SizeInv'
    <2>1. Len(current') = Len(current) + 1 /\ Len(current) \in Nat
      BY <1>1 DEF Add, TypeInv, Batch
    <2>2. Len(current') <= MaxEvents - 1 + Cardinality(Flushing')
      <3>1. CASE Len(current) + 1 >= MaxEvents
        <4>1. adder'[a].pc = "flush" /\ adder[a].pc = "idle"
          BY <1>0, <1>1, <3>1 DEF Add, TypeInv
        <4>2. a \notin Flushing
          BY <4>1 DEF Flushing
        <4>3. Flushing' = Flushing \cup {a}
          BY <1>1, <4>1 DEF Add, TypeInv, Flushing
        <4>4. Cardinality(Flushing') = Cardinality(Flushing) + 1
          BY <4>2, <4>3, FlushingBound, FlushingGrows
        <4>5. QED
          BY <2>1, <4>4, <1>0, FlushingBound DEF SizeInv
      <3>2. CASE ~(Len(current) + 1 >= MaxEvents)
        BY <2>1, <3>2, <1>0, <1>c
      <3>3. QED
        BY <3>1, <3>2
    <2>3. \A d \in Adders : Len(adder'[d].hand) <= Limit
      BY <1>0, <1>1 DEF Add, TypeInv, SizeInv
    <2>4. QED
      BY <1>1, <2>2, <2>3 DEF Add, SizeInv, Limit
  <1>2. ASSUME NEW a \in Adders, AddTake(a) PROVE SizeInv'
    <2>1. Len(current') <= MaxEvents - 1 + Cardinality(Flushing')
      BY <1>0, <1>2, <1>c DEF AddTake
    <2>2. \A d \in Adders : Len(adder'[d].hand) <= Limit
      BY <1>2, TakeSize DEF AddTake, TypeInv, SizeInv
    <2>3. QED
      BY <1>2, <2>1, <2>2 DEF AddTake, SizeInv, Limit
  <1>3. ASSUME NEW a \in Adders, AddSend(a) PROVE SizeInv'
    <2>1. /\ \A i \in 1 .. Len(output') : Len(output'[i]) <= Limit
          /\ \A b \in departed' : Len(b) <= Limit
      BY <1>0, <1>3, SendSize DEF AddSend, SizeInv
    <2>2. Flushing' = Flushing
      BY <1>0, <1>3 DEF AddSend, TypeInv, Flushing
    <2>3. \A d \in Adders : Len(adder'[d].hand) <= Limit
      BY <1>0, <1>3 DEF AddSend, TypeInv, SizeInv
    <2>4. QED
      BY <1>3, <2>1, <2>2, <2>3 DEF AddSend, SizeInv, Limit
  <1>4. CASE TickTake \/ FinalTake
    <2>1. Len(current') <= MaxEvents - 1 + Cardinality(Flushing')
      BY <1>0, <1>4, <1>c DEF TickTake, FinalTake
    <2>2. Len(flusher'.hand) <= Limit
      BY <1>4, TakeSize DEF TickTake, FinalTake
    <2>3. QED
      BY <1>4, <2>1, <2>2 DEF TickTake, FinalTake, SizeInv, Limit
  <1>5. CASE TickSend \/ FinalSend
    <2>1. /\ \A i \in 1 .. Len(output') : Len(output'[i]) <= Limit
          /\ \A b \in departed' : Len(b) <= Limit
      BY <1>0, <1>5, SendSize DEF TickSend, FinalSend, SizeInv
    <2>2. Len(flusher'.hand) <= Limit
      BY <1>0, <1>5 DEF TickSend, FinalSend
    <2>3. QED
      BY <1>5, <2>1, <2>2 DEF TickSend, FinalSend, SizeInv, Limit, Flushing
  <1>6. CASE CloseOutput
    <2>1. Len(flusher'.hand) <= Limit
      BY <1>0, <1>6 DEF CloseOutput
    <2>2. QED
      BY <1>6, <2>1 DEF CloseOutput, SizeInv, Limit, Flushing
  <1>7. CASE Stop
    BY <1>7 DEF Stop, SizeInv, Limit, Flushing
  <1>8. CASE Receive
    <2>1. /\ Len(Tail(output)) = Len(output) - 1
          /\ Len(output) \in Nat \ {0}
          /\ Head(output) = output[1]
          /\ \A i \in 1 .. Len(Tail(output)) : Tail(output)[i] = output[i + 1]
      BY <1>8 DEF Receive, TypeInv
    <2>2. \A i \in 1 .. Len(output') : Len(output'[i]) <= Limit
      BY <1>8, <2>1 DEF Receive, SizeInv
    <2>3. \A b \in departed' : Len(b) <= Limit
      BY <1>8, <2>1 DEF Receive, SizeInv
    <2>4. QED
      BY <1>8, <2>2, <2>3 DEF Receive, SizeInv, Limit, Flushing
  <1>9. CASE UNCHANGED vars
    BY <1>9 DEF vars, SizeInv, Limit, Flushing
  <1>10. QED
    BY <1>1, <1>2, <1>3, <1>4, <1>5, <1>6, <1>7, <1>8, <1>9
       DEF Next, AdderStep, FlusherStep

\* No batch exceeds MaxEvents by more than the number of other adding
\* goroutines, whatever their number; a single one never exceeds it.
THEOREM BatchBoundTheorem == Spec => []BatchBound
  <1>1. TypeInv /\ SizeInv => BatchBound
    <2> SUFFICES ASSUME TypeInv, SizeInv, NEW b \in Batches \cup {current}
                 PROVE  Len(b) <= Limit
      BY DEF BatchBound
    <2>1. Len(current) <= Limit
      BY FlushingBound, BatchAssumption DEF TypeInv, Batch, SizeInv, Limit
    <2>2. CASE b \in Elements(output)
      <3>1. DOMAIN output = 1 .. Len(output)
        BY DEF TypeInv
      <3>2. QED
        BY <2>2, <3>1 DEF Elements, SizeInv
    <2>3. QED
      BY <2>1, <2>2 DEF Batches, SizeInv
  <1>2. Init => TypeInv /\ SizeInv
    BY TypeInit, SizeInit
  <1>3. TypeInv /\ SizeInv /\ [Next]_vars => (TypeInv /\ SizeInv)'
    BY TypeStep, SizeStep
  <1>4. QED
    BY <1>1, <1>2, <1>3, PTL DEF Spec

\* Whatever the number of adding goroutines, a full batch always has one that is
\* about to flush it.
THEOREM FullTheorem == Spec => []FullIsFlushed
  <1>1. TypeInv /\ SizeInv => FullIsFlushed
    <2> SUFFICES ASSUME TypeInv, SizeInv, Len(current) >= MaxEvents, Flushing = {}
                 PROVE  FALSE
      BY DEF FullIsFlushed, Flushing
    <2>1. Cardinality(Flushing) = 0
      BY FS_EmptySet
    <2>2. QED
      BY <2>1, BatchAssumption DEF TypeInv, Batch, SizeInv
  <1>2. Init => TypeInv /\ SizeInv
    BY TypeInit, SizeInit
  <1>3. TypeInv /\ SizeInv /\ [Next]_vars => (TypeInv /\ SizeInv)'
    BY TypeStep, SizeStep
  <1>4. QED
    BY <1>1, <1>2, <1>3, PTL DEF Spec

-----------------------------------------------------------------------------
(* Stopping. *)

\* Before Stop nothing is closed.
LEMMA StopInit == Init => StopInv
  BY DEF Init, StopInv, At

\* Every step respects the order of stopping.
LEMMA StopStep == TypeInv /\ StopInv /\ [Next]_vars => StopInv'
  <1> SUFFICES ASSUME TypeInv, StopInv, [Next]_vars PROVE StopInv'
    OBVIOUS
  <1>0. \A p : At(p).hand = <<>> /\ At(p).pc = p
    BY DEF At
  <1>1. ASSUME NEW a \in Adders, Add(a) PROVE StopInv'
    BY <1>0, <1>1 DEF Add, TypeInv, StopInv
  <1>2. ASSUME NEW a \in Adders, AddTake(a) PROVE StopInv'
    BY <1>0, <1>2 DEF AddTake, Take, TypeInv, StopInv
  <1>3. ASSUME NEW a \in Adders, AddSend(a) PROVE StopInv'
    BY <1>0, <1>3 DEF AddSend, Send, TypeInv, StopInv
  <1>4. CASE TickTake
    BY <1>0, <1>4 DEF TickTake, Take, TypeInv, StopInv
  <1>5. CASE TickSend
    BY <1>0, <1>5 DEF TickSend, Send, TypeInv, StopInv
  <1>6. CASE FinalTake
    BY <1>0, <1>6 DEF FinalTake, Take, TypeInv, StopInv
  <1>7. CASE FinalSend
    BY <1>0, <1>7 DEF FinalSend, Send, TypeInv, StopInv
  <1>8. CASE CloseOutput
    BY <1>0, <1>8 DEF CloseOutput, TypeInv, StopInv
  <1>9. CASE Stop
    BY <1>9 DEF Stop, TypeInv, StopInv
  <1>10. CASE Receive
    BY <1>10 DEF Receive, StopInv
  <1>11. CASE UNCHANGED vars
    BY <1>11 DEF vars, StopInv
  <1>12. QED
    BY <1>1, <1>2, <1>3, <1>4, <1>5, <1>6, <1>7, <1>8, <1>9, <1>10, <1>11
       DEF Next, AdderStep, FlusherStep

\* The order of stopping holds in every interleaving.
LEMMA StopHolds == Spec => [](TypeInv /\ StopInv)
  <1>1. Init => TypeInv /\ StopInv
    BY TypeInit, StopInit
  <1>2. TypeInv /\ StopInv /\ [Next]_vars => (TypeInv /\ StopInv)'
    BY TypeStep, StopStep
  <1>3. QED
    BY <1>1, <1>2, PTL DEF Spec

\* Callers that finish adding before they call Stop never send on the closed
\* channel.
THEOREM PanicTheorem == Spec => []PanicOnlyIfLate
  <1>1. StopInv => PanicOnlyIfLate
    BY DEF StopInv, PanicOnlyIfLate
  <1>2. QED
    BY <1>1, StopHolds, PTL

\* The contract of Stop: if every Add was over when Stop was called and none
\* follows, no event is left behind once the channel is closed.
THEOREM StopTheorem == Spec => []StopLeavesNothing
  <1>1. StopInv => StopLeavesNothing
    BY DEF StopInv, StopLeavesNothing
  <1>2. QED
    BY <1>1, StopHolds, PTL

-----------------------------------------------------------------------------
(* Each event is in one place. *)

\* A run of consecutive numbers.
Run(b) == \A i \in 1 .. Len(b) - 1 : b[i + 1] = b[i] + 1

\* No number is in two places, none is lost before a panic, the events are those
\* that were added, and the batches are runs, the current one up to the last Add.
OnceInv ==
    /\ flusher.pc \notin {"send", "finalSend"} => flusher.hand = <<>>
    /\ \A e : \A p, q \in Places(e) : p = q
    /\ \A e : Places(e) # {} => e \in 1 .. added
    /\ ~panicked => \A e \in 1 .. added : Places(e) # {}
    /\ \A b \in Batches \cup {current} : Run(b)
    /\ current # <<>> => current[Len(current)] = added

\* The elements of the sequences that the steps make.
LEMMA ElementsOf ==
    /\ Elements(<<>>) = {}
    /\ \A S : \A s \in Seq(S), x \in S : Elements(Append(s, x)) = Elements(s) \cup {x}
  <1>1. Elements(<<>>) = {}
    BY DEF Elements
  <1>2. ASSUME NEW S, NEW s \in Seq(S), NEW x \in S
        PROVE  Elements(Append(s, x)) = Elements(s) \cup {x}
    <2> DEFINE t == Append(s, x)
    <2>1. /\ DOMAIN s = 1 .. Len(s) /\ DOMAIN t = 1 .. (Len(s) + 1) /\ Len(s) \in Nat
          /\ \A i \in 1 .. Len(s) : t[i] = s[i]
          /\ t[Len(s) + 1] = x
      OBVIOUS
    <2> HIDE DEF t
    <2>2. \A i \in DOMAIN t : i = Len(s) + 1 \/ i \in DOMAIN s
      BY <2>1
    <2>3. \A i \in DOMAIN s : i \in DOMAIN t /\ t[i] = s[i]
      BY <2>1
    <2>4. Len(s) + 1 \in DOMAIN t
      BY <2>1
    <2>5. Elements(t) = Elements(s) \cup {x}
      BY <2>1, <2>2, <2>3, <2>4 DEF Elements
    <2>6. QED
      BY <2>5 DEF t
  <1>3. QED
    BY <1>1, <1>2

\* The places that a batch reaches by being sent.
Sent(e, out, dep) ==
    {<<"output", i>> : i \in {j \in DOMAIN out : e \in Elements(out[j])}}
      \cup {<<"departed", b>> : b \in {c \in dep : e \in Elements(c)}}

\* What is in Places, now and in the next state.
LEMMA PlacesAre ==
    ASSUME NEW e
    PROVE  /\ \A p : p \in Places(e) <=>
                \/ \E d \in Adders : p = <<"adder", d>> /\ e \in Elements(adder[d].hand)
                \/ p \in Sent(e, output, departed)
                \/ p = <<"flusher">> /\ e \in Elements(flusher.hand)
                \/ p = <<"current">> /\ e \in Elements(current)
           /\ \A p : p \in Places(e)' <=>
                \/ \E d \in Adders : p = <<"adder", d>> /\ e \in Elements(adder'[d].hand)
                \/ p \in Sent(e, output', departed')
                \/ p = <<"flusher">> /\ e \in Elements(flusher'.hand)
                \/ p = <<"current">> /\ e \in Elements(current')
  BY DEF Places, Sent

\* What is in Sent, and that these places differ from all others.
LEMMA SentAre ==
    ASSUME NEW e, NEW out, NEW dep, NEW p
    PROVE  /\ p \in Sent(e, out, dep) <=>
                \/ \E i \in DOMAIN out : p = <<"output", i>> /\ e \in Elements(out[i])
                \/ \E b \in dep : p = <<"departed", b>> /\ e \in Elements(b)
           /\ p \in Sent(e, out, dep) =>
                p # <<"flusher">> /\ p # <<"current">> /\ \A d : p # <<"adder", d>>
  BY DEF Sent

\* flush, first half: the goroutine leaves with what is in current.
LEMMA TakeHand == \A s, r : Take(s, r).hand = current
  BY DEF Take, At

\* Add puts a new event into current and leaves the others where they are.
LEMMA AddPlaces ==
    ASSUME TypeInv, StopInv, OnceInv, NEW a \in Adders, Add(a), NEW e
    PROVE  Places(e)' = IF e = added + 1 THEN {<<"current">>} ELSE Places(e)
  <1>1. /\ output' = output /\ departed' = departed /\ flusher' = flusher
        /\ current' = Append(current, added + 1)
    BY DEF Add
  <1>2. \A d \in Adders : adder'[d].hand = adder[d].hand
    BY DEF Add, TypeInv, StopInv, At
  <1>3. Elements(current') = Elements(current) \cup {added + 1}
    <2>1. current \in Seq(Nat) /\ added + 1 \in Nat
      BY DEF TypeInv, Batch
    <2>2. QED
      BY <1>1, <2>1, ElementsOf
  <1>4. \A p : p \in Places(e)' <=> p \in Places(e) \/ (p = <<"current">> /\ e = added + 1)
    BY <1>1, <1>2, <1>3, PlacesAre
  <1>5. e = added + 1 => Places(e) = {}
    BY DEF OnceInv, TypeInv
  <1>6. QED
    BY <1>4, <1>5

\* An adding goroutine takes the current batch.
LEMMA AddTakePlaces ==
    ASSUME TypeInv, StopInv, OnceInv, NEW a \in Adders, AddTake(a), NEW e
    PROVE  /\ \A q \in Places(e)' : \/ q \in Places(e) /\ q # <<"current">>
                                    \/ q = <<"adder", a>> /\ <<"current">> \in Places(e)
           /\ Places(e) # {} => Places(e)' # {}
  <1>1. /\ output' = output /\ departed' = departed /\ flusher' = flusher
        /\ Elements(current') = {}
    BY ElementsOf DEF AddTake
  <1>2. /\ adder[a].hand = <<>> /\ adder'[a].hand = current
        /\ \A d \in Adders : d # a => adder'[d].hand = adder[d].hand
    BY TakeHand DEF AddTake, TypeInv, StopInv
  <1>3. \A d \in Adders : e \in Elements(adder[d].hand) =>
                            d # a /\ e \in Elements(adder'[d].hand)
    BY <1>2, ElementsOf
  <1>4. \A d \in Adders : e \in Elements(adder'[d].hand) =>
          e \in Elements(adder[d].hand) \/ (d = a /\ e \in Elements(current))
    BY <1>2
  <1>5. \A q \in Places(e)' : \/ q \in Places(e) /\ q # <<"current">>
                              \/ q = <<"adder", a>> /\ <<"current">> \in Places(e)
    <2> SUFFICES ASSUME NEW q \in Places(e)'
                 PROVE  \/ q \in Places(e) /\ q # <<"current">>
                        \/ q = <<"adder", a>> /\ <<"current">> \in Places(e)
      OBVIOUS
    <2>1. QED
      BY <1>1, <1>4, PlacesAre, SentAre
  <1>6. ASSUME NEW p \in Places(e) PROVE Places(e)' # {}
    <2>1. CASE p = <<"current">>
      <3>1. <<"adder", a>> \in Places(e)'
        BY <2>1, <1>2, PlacesAre, SentAre
      <3>2. QED
        BY <3>1
    <2>2. CASE p # <<"current">>
      <3>1. p \in Places(e)'
        BY <2>2, <1>1, <1>3, PlacesAre
      <3>2. QED
        BY <3>1
    <2>3. QED
      BY <2>1, <2>2
  <1>7. QED
    BY <1>5, <1>6

\* The ticker goroutine takes the current batch.
LEMMA FlusherTakePlaces ==
    ASSUME TypeInv, OnceInv, TickTake \/ FinalTake, NEW e
    PROVE  /\ \A q \in Places(e)' : \/ q \in Places(e) /\ q # <<"current">>
                                    \/ q = <<"flusher">> /\ <<"current">> \in Places(e)
           /\ Places(e) # {} => Places(e)' # {}
  <1>1. /\ output' = output /\ departed' = departed /\ adder' = adder
        /\ Elements(current') = {}
    BY ElementsOf DEF TickTake, FinalTake
  <1>2. flusher'.hand = current /\ Elements(flusher.hand) = {}
    BY TakeHand, ElementsOf DEF TickTake, FinalTake, OnceInv
  <1>3. \A q \in Places(e)' : \/ q \in Places(e) /\ q # <<"current">>
                              \/ q = <<"flusher">> /\ <<"current">> \in Places(e)
    BY <1>1, <1>2, PlacesAre, SentAre
  <1>4. ASSUME NEW p \in Places(e) PROVE Places(e)' # {}
    <2>1. CASE p = <<"current">>
      <3>1. <<"flusher">> \in Places(e)'
        BY <2>1, <1>2, PlacesAre, SentAre
      <3>2. QED
        BY <3>1
    <2>2. CASE p # <<"current">>
      <3>1. p \in Places(e)'
        BY <2>2, <1>1, <1>2, PlacesAre
      <3>2. QED
        BY <3>1
    <2>3. QED
      BY <2>1, <2>2
  <1>5. QED
    BY <1>3, <1>4

\* The outcome of a send: the batch is in the channel or among the departed, or
\* the process has panicked.
LEMMA SendPlaces ==
    ASSUME TypeInv, NEW batch \in Batch, Send(batch), NEW e
    PROVE  \E dst :
             /\ dst # <<"flusher">> /\ dst # <<"current">> /\ \A d : dst # <<"adder", d>>
             /\ \A q : q \in Sent(e, output', departed') =>
                         q \in Sent(e, output, departed) \/ (q = dst /\ e \in Elements(batch))
             /\ \A q : q \in Sent(e, output, departed) => q \in Sent(e, output', departed')
             /\ ~panicked' /\ e \in Elements(batch) => dst \in Sent(e, output', departed')
  <1>1. CASE ~closed /\ Len(output) < OutputSize
    <2> DEFINE dst == <<"output", Len(output) + 1>>
    <2>1. output' = Append(output, batch) /\ departed' = departed
      BY <1>1, BatchAssumption DEF Send, TypeInv
    <2>2. /\ DOMAIN output = 1 .. Len(output) /\ Len(output) \in Nat
          /\ DOMAIN output' = 1 .. (Len(output) + 1)
          /\ \A i \in 1 .. Len(output) : output'[i] = output[i]
          /\ output'[Len(output) + 1] = batch
      BY <2>1 DEF TypeInv
    <2>3. /\ \A i \in DOMAIN output' : i = Len(output) + 1 \/ i \in DOMAIN output
          /\ \A i \in DOMAIN output : i \in DOMAIN output' /\ output'[i] = output[i]
          /\ Len(output) + 1 \in DOMAIN output'
      BY <2>2
    <2>4. \A q : q \in Sent(e, output', departed') =>
                   q \in Sent(e, output, departed) \/ (q = dst /\ e \in Elements(batch))
      <3> SUFFICES ASSUME NEW q, q \in Sent(e, output', departed')
                   PROVE  q \in Sent(e, output, departed) \/ (q = dst /\ e \in Elements(batch))
        OBVIOUS
      <3>1. CASE \E b \in departed' : q = <<"departed", b>> /\ e \in Elements(b)
        BY <3>1, <2>1, SentAre
      <3>2. ASSUME NEW i \in DOMAIN output', q = <<"output", i>>, e \in Elements(output'[i])
            PROVE  q \in Sent(e, output, departed) \/ (q = dst /\ e \in Elements(batch))
        <4>1. CASE i = Len(output) + 1
          BY <4>1, <3>2, <2>2
        <4>2. CASE i \in DOMAIN output
          <5>1. e \in Elements(output[i])
            BY <4>2, <3>2, <2>3
          <5>2. QED
            BY <5>1, <4>2, <3>2, SentAre
        <4>3. QED
          BY <4>1, <4>2, <2>3
      <3>3. QED
        BY <3>1, <3>2, SentAre
    <2>5. \A q : q \in Sent(e, output, departed) => q \in Sent(e, output', departed')
      <3> SUFFICES ASSUME NEW q, q \in Sent(e, output, departed)
                   PROVE  q \in Sent(e, output', departed')
        OBVIOUS
      <3>1. CASE \E b \in departed : q = <<"departed", b>> /\ e \in Elements(b)
        BY <3>1, <2>1, SentAre
      <3>2. ASSUME NEW i \in DOMAIN output, q = <<"output", i>>, e \in Elements(output[i])
            PROVE  q \in Sent(e, output', departed')
        <4>1. i \in DOMAIN output' /\ e \in Elements(output'[i])
          BY <3>2, <2>3
        <4>2. QED
          BY <4>1, <3>2, SentAre
      <3>3. QED
        BY <3>1, <3>2, SentAre
    <2>6. e \in Elements(batch) => dst \in Sent(e, output', departed')
      BY <2>2, <2>3, SentAre
    <2>7. dst # <<"flusher">> /\ dst # <<"current">> /\ \A d : dst # <<"adder", d>>
      OBVIOUS
    <2> HIDE DEF dst
    <2>8. QED
      BY <2>4, <2>5, <2>6, <2>7
  <1>2. CASE ~closed /\ Len(output) >= OutputSize
    <2> DEFINE dst == <<"departed", batch>>
    <2>1. output' = output /\ departed' = departed \cup {batch}
      BY <1>2, BatchAssumption DEF Send, TypeInv
    <2>2. \A q : q \in Sent(e, output', departed') =>
                   q \in Sent(e, output, departed) \/ (q = dst /\ e \in Elements(batch))
      BY <2>1, SentAre
    <2>3. \A q : q \in Sent(e, output, departed) => q \in Sent(e, output', departed')
      BY <2>1, SentAre
    <2>4. e \in Elements(batch) => dst \in Sent(e, output', departed')
      BY <2>1, SentAre
    <2>5. dst # <<"flusher">> /\ dst # <<"current">> /\ \A d : dst # <<"adder", d>>
      OBVIOUS
    <2> HIDE DEF dst
    <2>6. QED
      BY <2>2, <2>3, <2>4, <2>5
  <1>3. CASE closed
    <2> DEFINE dst == <<"gone">>
    <2>1. output' = output /\ departed' = departed /\ panicked' = TRUE
      BY <1>3 DEF Send, TypeInv
    <2>2. dst # <<"flusher">> /\ dst # <<"current">> /\ \A d : dst # <<"adder", d>>
      OBVIOUS
    <2> HIDE DEF dst
    <2>3. QED
      BY <2>1, <2>2
  <1>4. QED
    BY <1>1, <1>2, <1>3, BatchAssumption DEF TypeInv

\* An adding goroutine sends its batch.
LEMMA AddSendPlaces ==
    ASSUME TypeInv, NEW a \in Adders, AddSend(a), NEW e
    PROVE  /\ \E dst : \A q \in Places(e)' : \/ q \in Places(e) /\ q # <<"adder", a>>
                                             \/ q = dst /\ <<"adder", a>> \in Places(e)
           /\ ~panicked' /\ Places(e) # {} => Places(e)' # {}
  <1>1. current' = current /\ flusher' = flusher
    BY DEF AddSend
  <1>2. /\ Elements(adder'[a].hand) = {}
        /\ \A d \in Adders : d # a => adder'[d].hand = adder[d].hand
    BY ElementsOf DEF AddSend, At, TypeInv
  <1>3. adder[a].hand \in Batch /\ Send(adder[a].hand)
    BY DEF AddSend, TypeInv, Routine
  <1>4. PICK dst :
             /\ dst # <<"flusher">> /\ dst # <<"current">> /\ \A d : dst # <<"adder", d>>
             /\ \A q : q \in Sent(e, output', departed') =>
                         \/ q \in Sent(e, output, departed)
                         \/ q = dst /\ e \in Elements(adder[a].hand)
             /\ \A q : q \in Sent(e, output, departed) => q \in Sent(e, output', departed')
             /\ ~panicked' /\ e \in Elements(adder[a].hand) => dst \in Sent(e, output', departed')
    BY <1>3, SendPlaces
  <1>5. \A q \in Places(e)' : \/ q \in Places(e) /\ q # <<"adder", a>>
                              \/ q = dst /\ <<"adder", a>> \in Places(e)
    <2> SUFFICES ASSUME NEW q \in Places(e)'
                 PROVE  \/ q \in Places(e) /\ q # <<"adder", a>>
                        \/ q = dst /\ <<"adder", a>> \in Places(e)
      OBVIOUS
    <2>1. CASE q \in Sent(e, output', departed')
      BY <2>1, <1>4, PlacesAre, SentAre
    <2>2. CASE \E d \in Adders : q = <<"adder", d>> /\ e \in Elements(adder'[d].hand)
      BY <2>2, <1>2, PlacesAre
    <2>3. CASE \/ q = <<"flusher">> /\ e \in Elements(flusher'.hand)
               \/ q = <<"current">> /\ e \in Elements(current')
      BY <2>3, <1>1, PlacesAre
    <2>4. QED
      BY <2>1, <2>2, <2>3, PlacesAre
  <1>6. ASSUME ~panicked', NEW p \in Places(e) PROVE Places(e)' # {}
    <2>1. CASE p = <<"adder", a>>
      <3>1. e \in Elements(adder[a].hand)
        BY <2>1, PlacesAre, SentAre
      <3>2. dst \in Places(e)'
        BY <3>1, <1>4, <1>6, PlacesAre
      <3>3. QED
        BY <3>2
    <2>2. CASE p # <<"adder", a>>
      <3>1. p \in Places(e)'
        BY <2>2, <1>1, <1>2, <1>4, PlacesAre
      <3>2. QED
        BY <3>1
    <2>3. QED
      BY <2>1, <2>2
  <1>7. QED
    BY <1>5, <1>6

\* The ticker goroutine sends its batch.
LEMMA FlusherSendPlaces ==
    ASSUME TypeInv, TickSend \/ FinalSend, NEW e
    PROVE  /\ \E dst : \A q \in Places(e)' : \/ q \in Places(e) /\ q # <<"flusher">>
                                             \/ q = dst /\ <<"flusher">> \in Places(e)
           /\ ~panicked' /\ Places(e) # {} => Places(e)' # {}
  <1>1. current' = current /\ adder' = adder /\ Elements(flusher'.hand) = {}
    BY ElementsOf DEF TickSend, FinalSend, At
  <1>2. flusher.hand \in Batch /\ Send(flusher.hand)
    BY DEF TickSend, FinalSend, TypeInv, Routine
  <1>3. PICK dst :
             /\ dst # <<"flusher">> /\ dst # <<"current">> /\ \A d : dst # <<"adder", d>>
             /\ \A q : q \in Sent(e, output', departed') =>
                         \/ q \in Sent(e, output, departed)
                         \/ q = dst /\ e \in Elements(flusher.hand)
             /\ \A q : q \in Sent(e, output, departed) => q \in Sent(e, output', departed')
             /\ ~panicked' /\ e \in Elements(flusher.hand) => dst \in Sent(e, output', departed')
    BY <1>2, SendPlaces
  <1>4. \A q \in Places(e)' : \/ q \in Places(e) /\ q # <<"flusher">>
                              \/ q = dst /\ <<"flusher">> \in Places(e)
    BY <1>1, <1>3, PlacesAre, SentAre
  <1>5. ASSUME ~panicked', NEW p \in Places(e) PROVE Places(e)' # {}
    <2>1. CASE p = <<"flusher">>
      <3>1. e \in Elements(flusher.hand)
        BY <2>1, PlacesAre, SentAre
      <3>2. dst \in Places(e)'
        BY <3>1, <1>3, <1>5, PlacesAre
      <3>3. QED
        BY <3>2
    <2>2. CASE p # <<"flusher">>
      <3>1. p \in Places(e)'
        BY <2>2, <1>1, <1>3, PlacesAre
      <3>2. QED
        BY <3>1
    <2>3. QED
      BY <2>1, <2>2
  <1>6. QED
    BY <1>4, <1>5

\* The consumer receives: the first batch of the channel leaves it, the others
\* move up by one.
LEMMA ReceivePlaces ==
    ASSUME TypeInv, OnceInv, Receive, NEW e
    PROVE  /\ \A p, q \in Places(e)' : p = q
           /\ Places(e)' # {} <=> Places(e) # {}
  <1>1. current' = current /\ adder' = adder /\ flusher' = flusher
    BY DEF Receive
  <1>2. departed' = departed \cup {output[1]}
    BY DEF Receive, TypeInv
  <1>3. /\ DOMAIN output = 1 .. Len(output) /\ Len(output) \in Nat \ {0}
        /\ DOMAIN output' = 1 .. (Len(output) - 1)
        /\ \A i \in 1 .. (Len(output) - 1) : output'[i] = output[i + 1]
    BY DEF Receive, TypeInv
  <1> DEFINE To(i) == IF i = 1 THEN <<"departed", output[1]>> ELSE <<"output", i - 1>>
  <1>4. ASSUME NEW q \in Places(e)'
        PROVE  \/ q \in Places(e) /\ \A i : q # <<"output", i>>
               \/ \E i \in DOMAIN output : <<"output", i>> \in Places(e) /\ q = To(i)
    <2>1. CASE \E i \in DOMAIN output' : q = <<"output", i>> /\ e \in Elements(output'[i])
      <3>1. PICK i \in DOMAIN output' : q = <<"output", i>> /\ e \in Elements(output'[i])
        BY <2>1
      <3>2. /\ i + 1 \in DOMAIN output /\ i + 1 # 1 /\ (i + 1) - 1 = i
            /\ e \in Elements(output[i + 1])
        BY <3>1, <1>3
      <3>3. <<"output", i + 1>> \in Places(e) /\ q = To(i + 1)
        BY <3>1, <3>2, PlacesAre, SentAre
      <3>4. QED
        BY <3>2, <3>3
    <2>2. CASE \E b \in departed' : q = <<"departed", b>> /\ e \in Elements(b)
      <3>1. PICK b \in departed' : q = <<"departed", b>> /\ e \in Elements(b)
        BY <2>2
      <3>2. CASE b \in departed
        <4>1. q \in Places(e)
          BY <3>1, <3>2, PlacesAre, SentAre
        <4>2. \A i : q # <<"output", i>>
          BY <3>1
        <4>3. QED
          BY <4>1, <4>2
      <3>3. CASE b = output[1]
        <4>1. 1 \in DOMAIN output /\ q = To(1) /\ e \in Elements(output[1])
          BY <3>1, <3>3, <1>3
        <4>2. <<"output", 1>> \in Places(e)
          BY <4>1, PlacesAre, SentAre
        <4>3. QED
          BY <4>1, <4>2
      <3>4. QED
        BY <3>2, <3>3, <1>2
    <2>3. CASE q \notin Sent(e, output', departed')
      <3>1. q \in Places(e)
        BY <2>3, <1>1, PlacesAre
      <3>2. \A i : q # <<"output", i>>
        BY <2>3, PlacesAre
      <3>3. QED
        BY <3>1, <3>2
    <2>4. q \in Sent(e, output', departed') =>
            \/ \E i \in DOMAIN output' : q = <<"output", i>> /\ e \in Elements(output'[i])
            \/ \E b \in departed' : q = <<"departed", b>> /\ e \in Elements(b)
      BY SentAre
    <2> HIDE DEF To
    <2>5. QED
      BY <2>1, <2>2, <2>3, <2>4
  <1>5. ASSUME NEW p \in Places(e) PROVE Places(e)' # {}
    <2>1. CASE \E i \in DOMAIN output : p = <<"output", i>> /\ e \in Elements(output[i])
      <3>1. PICK i \in DOMAIN output : p = <<"output", i>> /\ e \in Elements(output[i])
        BY <2>1
      <3>2. CASE i = 1
        <4>1. <<"departed", output[1]>> \in Places(e)'
          BY <3>1, <3>2, <1>2, PlacesAre, SentAre
        <4>2. QED
          BY <4>1
      <3>3. CASE i # 1
        <4>1. i - 1 \in DOMAIN output' /\ output'[i - 1] = output[(i - 1) + 1] /\ (i - 1) + 1 = i
          BY <3>3, <1>3
        <4>2. <<"output", i - 1>> \in Places(e)'
          BY <3>1, <4>1, PlacesAre, SentAre
        <4>3. QED
          BY <4>2
      <3>4. QED
        BY <3>2, <3>3
    <2>2. CASE \E b \in departed : p = <<"departed", b>> /\ e \in Elements(b)
      <3>1. p \in Places(e)'
        BY <2>2, <1>2, PlacesAre, SentAre
      <3>2. QED
        BY <3>1
    <2>3. CASE p \notin Sent(e, output, departed)
      <3>1. p \in Places(e)'
        BY <2>3, <1>1, PlacesAre
      <3>2. QED
        BY <3>1
    <2>4. QED
      BY <2>1, <2>2, <2>3, SentAre
  <1>6. \A p, q \in Places(e) : p = q
    BY DEF OnceInv
  <1>7. \A p, q \in Places(e)' : p = q
    <2> SUFFICES ASSUME NEW p \in Places(e)', NEW q \in Places(e)'
                 PROVE  p = q
      OBVIOUS
    <2>1. CASE p \in Places(e) /\ \A i : p # <<"output", i>>
      BY <2>1, <1>4, <1>6
    <2>2. CASE \E i \in DOMAIN output : <<"output", i>> \in Places(e) /\ p = To(i)
      <3>1. PICK i \in DOMAIN output : <<"output", i>> \in Places(e) /\ p = To(i)
        BY <2>2
      <3>2. PICK j \in DOMAIN output : <<"output", j>> \in Places(e) /\ q = To(j)
        BY <3>1, <1>4, <1>6
      <3>3. i = j
        BY <3>1, <3>2, <1>6
      <3>4. QED
        BY <3>1, <3>2, <3>3
    <2>3. QED
      BY <2>1, <2>2, <1>4
  <1>8. QED
    BY <1>4, <1>5, <1>7

\* At any time an event that was added is in one place, and others in none.
LEMMA OncePlaces ==
    ASSUME TypeInv, StopInv, OnceInv, [Next]_vars, NEW e
    PROVE  /\ \A p, q \in Places(e)' : p = q
           /\ Places(e)' # {} => e \in 1 .. added'
           /\ ~panicked' /\ e \in 1 .. added' => Places(e)' # {}
  <1>1. /\ \A p, q \in Places(e) : p = q
        /\ Places(e) # {} => e \in 1 .. added
        /\ ~panicked /\ e \in 1 .. added => Places(e) # {}
    BY DEF OnceInv
  <1>2. ASSUME NEW a \in Adders, Add(a)
        PROVE  /\ \A p, q \in Places(e)' : p = q
               /\ Places(e)' # {} => e \in 1 .. added'
               /\ ~panicked' /\ e \in 1 .. added' => Places(e)' # {}
    <2>1. Places(e)' = IF e = added + 1 THEN {<<"current">>} ELSE Places(e)
      BY <1>2, AddPlaces
    <2>2. panicked' = panicked /\ added' = added + 1 /\ added \in Nat
      BY <1>2 DEF Add, TypeInv
    <2>3. CASE e = added + 1
      BY <2>1, <2>2, <2>3
    <2>4. CASE e # added + 1
      <3>1. e \in 1 .. added' <=> e \in 1 .. added
        BY <2>2, <2>4
      <3>2. QED
        BY <3>1, <2>1, <2>2, <2>4, <1>1
    <2>5. QED
      BY <2>3, <2>4
  <1>3. ASSUME NEW src, NEW dst, added' = added, panicked => panicked',
               \A q \in Places(e)' : (q \in Places(e) /\ q # src) \/ (q = dst /\ src \in Places(e)),
               ~panicked' /\ Places(e) # {} => Places(e)' # {}
        PROVE  /\ \A p, q \in Places(e)' : p = q
               /\ Places(e)' # {} => e \in 1 .. added'
               /\ ~panicked' /\ e \in 1 .. added' => Places(e)' # {}
    BY <1>1, <1>3
  <1>4. ASSUME NEW a \in Adders, AddTake(a)
        PROVE  /\ \A p, q \in Places(e)' : p = q
               /\ Places(e)' # {} => e \in 1 .. added'
               /\ ~panicked' /\ e \in 1 .. added' => Places(e)' # {}
    <2>1. added' = added /\ (panicked => panicked')
      BY <1>4 DEF AddTake
    <2>2. PICK src, dst : /\ \A q \in Places(e)' : \/ q \in Places(e) /\ q # src
                                                   \/ q = dst /\ src \in Places(e)
                          /\ Places(e) # {} => Places(e)' # {}
      BY <1>4, AddTakePlaces
    <2>3. QED
      BY <2>1, <2>2, <1>3, SMTT(30)
  <1>5. ASSUME NEW a \in Adders, AddSend(a)
        PROVE  /\ \A p, q \in Places(e)' : p = q
               /\ Places(e)' # {} => e \in 1 .. added'
               /\ ~panicked' /\ e \in 1 .. added' => Places(e)' # {}
    <2>1. added' = added /\ (panicked => panicked')
      BY <1>5 DEF AddSend
    <2>2. PICK dst : \A q \in Places(e)' : \/ q \in Places(e) /\ q # <<"adder", a>>
                                           \/ q = dst /\ <<"adder", a>> \in Places(e)
      BY <1>5, AddSendPlaces
    <2>3. ~panicked' /\ Places(e) # {} => Places(e)' # {}
      BY <1>5, AddSendPlaces
    <2>4. QED
      BY <2>1, <2>2, <2>3, <1>3
  <1>6. CASE TickTake \/ FinalTake
    <2>1. added' = added /\ (panicked => panicked')
      BY <1>6 DEF TickTake, FinalTake
    <2>2. PICK src, dst : /\ \A q \in Places(e)' : \/ q \in Places(e) /\ q # src
                                                   \/ q = dst /\ src \in Places(e)
                          /\ Places(e) # {} => Places(e)' # {}
      BY <1>6, FlusherTakePlaces
    <2>3. QED
      BY <2>1, <2>2, <1>3, SMTT(30)
  <1>7. CASE TickSend \/ FinalSend
    <2>1. added' = added /\ (panicked => panicked')
      BY <1>7 DEF TickSend, FinalSend
    <2>2. PICK dst : \A q \in Places(e)' : \/ q \in Places(e) /\ q # <<"flusher">>
                                           \/ q = dst /\ <<"flusher">> \in Places(e)
      BY <1>7, FlusherSendPlaces
    <2>3. ~panicked' /\ Places(e) # {} => Places(e)' # {}
      BY <1>7, FlusherSendPlaces
    <2>4. QED
      BY <2>1, <2>2, <2>3, <1>3
  <1>8. CASE Receive
    <2>1. added' = added /\ panicked' = panicked
      BY <1>8 DEF Receive
    <2>2. QED
      BY <2>1, <1>1, <1>8, ReceivePlaces
  <1>9. CASE CloseOutput \/ Stop \/ UNCHANGED vars
    <2>1. /\ added' = added /\ panicked' = panicked /\ adder' = adder /\ output' = output
          /\ departed' = departed /\ current' = current
      BY <1>9 DEF CloseOutput, Stop, vars
    <2>2. flusher'.hand = flusher.hand
      BY <1>9 DEF CloseOutput, Stop, vars, At, OnceInv
    <2>3. Places(e)' = Places(e)
      BY <2>1, <2>2 DEF Places
    <2>4. QED
      BY <2>1, <2>3, <1>1
  <1>10. QED
    BY <1>2, <1>4, <1>5, <1>6, <1>7, <1>8, <1>9 DEF Next, AdderStep, FlusherStep

\* Every batch after a step is a batch that was there before it, or current, or
\* empty; current itself is kept, emptied, or extended by one Add.
LEMMA BatchesStep ==
    ASSUME TypeInv, StopInv, OnceInv, [Next]_vars
    PROVE  /\ Batches' \subseteq Batches \cup {current, <<>>}
           /\ \/ current' = current /\ added' = added
              \/ current' = <<>>
              \/ current' = Append(current, added + 1) /\ added' = added + 1
  <1>0. \A b : b \in Batches <=> \/ \E a \in Adders : b = adder[a].hand
                                 \/ b = flusher.hand
                                 \/ \E i \in DOMAIN output : b = output[i]
                                 \/ b \in departed
    BY DEF Batches, Elements
  <1>1. \A b : b \in Batches' <=> \/ \E a \in Adders : b = adder'[a].hand
                                  \/ b = flusher'.hand
                                  \/ \E i \in DOMAIN output' : b = output'[i]
                                  \/ b \in departed'
    BY DEF Batches, Elements
  <1>2. \A a \in Adders : adder'[a].hand \in {adder[a].hand, current, <<>>}
    BY TakeHand DEF Next, AdderStep, FlusherStep, Add, AddTake, AddSend, TickTake, TickSend,
                FinalTake, FinalSend, CloseOutput, Stop, Receive, vars, At, TypeInv
  <1>3. flusher'.hand \in {flusher.hand, current, <<>>}
    BY TakeHand DEF Next, AdderStep, FlusherStep, Add, AddTake, AddSend, TickTake, TickSend,
                FinalTake, FinalSend, CloseOutput, Stop, Receive, vars, At
  <1>4. \/ output' = output /\ departed' = departed
        \/ output # <<>> /\ output' = Tail(output) /\ departed' = departed \cup {Head(output)}
        \/ \E b \in Batches \cap Batch : Send(b)
    <2>1. /\ \A a \in Adders : adder[a].hand \in Batches \cap Batch
          /\ flusher.hand \in Batches \cap Batch
      BY <1>0 DEF TypeInv, Routine
    <2>2. QED
      BY <2>1 DEF Next, AdderStep, FlusherStep, Add, AddTake, AddSend, TickTake, TickSend,
                FinalTake, FinalSend, CloseOutput, Stop, Receive, vars
  <1>5. /\ \A i \in DOMAIN output' : output'[i] \in Batches
        /\ departed' \subseteq Batches
    <2>1. CASE output' = output /\ departed' = departed
      BY <2>1, <1>0
    <2>2. CASE output # <<>> /\ output' = Tail(output) /\ departed' = departed \cup {Head(output)}
      <3>1. /\ 1 \in DOMAIN output /\ Head(output) = output[1]
            /\ \A i \in DOMAIN output' : i + 1 \in DOMAIN output /\ output'[i] = output[i + 1]
        BY <2>2 DEF TypeInv
      <3>2. QED
        BY <3>1, <2>2, <1>0
    <2>3. ASSUME NEW b \in Batches \cap Batch, Send(b)
          PROVE  /\ \A i \in DOMAIN output' : output'[i] \in Batches
                 /\ departed' \subseteq Batches
      <3>1. /\ output' = output \/ output' = Append(output, b)
            /\ departed' = departed \/ departed' = departed \cup {b}
        BY <2>3 DEF Send
      <3>2. \A i \in DOMAIN output' : output'[i] = b \/ (i \in DOMAIN output /\ output'[i] = output[i])
        BY <3>1 DEF TypeInv
      <3>3. QED
        BY <3>1, <3>2, <1>0
    <2>4. QED
      BY <2>1, <2>2, <2>3, <1>4
  <1>6. Batches' \subseteq Batches \cup {current, <<>>}
    BY <1>0, <1>1, <1>2, <1>3, <1>5
  <1>7. \/ current' = current /\ added' = added
        \/ current' = <<>>
        \/ current' = Append(current, added + 1) /\ added' = added + 1
    BY DEF Next, AdderStep, FlusherStep, Add, AddTake, AddSend, TickTake, TickSend,
           FinalTake, FinalSend, CloseOutput, Stop, Receive, vars
  <1>8. QED
    BY <1>6, <1>7

\* A new assembler holds no event.
LEMMA OnceInit == Init => OnceInv
  <1> SUFFICES ASSUME Init PROVE OnceInv
    OBVIOUS
  <1>1. /\ current = <<>> /\ output = <<>> /\ departed = {} /\ flusher.hand = <<>> /\ added = 0
        /\ \A a \in Adders : adder[a].hand = <<>>
    BY DEF Init, At
  <1>2. \A e : Places(e) = {}
    BY <1>1, ElementsOf DEF Places
  <1>3. \A b \in Batches \cup {current} : b = <<>>
    BY <1>1, ElementsOf DEF Batches
  <1>4. Run(<<>>)
    BY DEF Run
  <1>5. QED
    BY <1>1, <1>2, <1>3, <1>4 DEF OnceInv

\* Every step keeps each event in one place, and each batch a run.
LEMMA OnceStep == TypeInv /\ StopInv /\ OnceInv /\ [Next]_vars => OnceInv'
  <1> SUFFICES ASSUME TypeInv, StopInv, OnceInv, [Next]_vars PROVE OnceInv'
    OBVIOUS
  <1>1. flusher'.pc \notin {"send", "finalSend"} => flusher'.hand = <<>>
    BY DEF OnceInv, Next, AdderStep, FlusherStep, Add, AddTake, AddSend, TickTake, TickSend,
           FinalTake, FinalSend, CloseOutput, Stop, Receive, vars, At, Take
  <1>2. /\ \A e : \A p, q \in Places(e)' : p = q
        /\ \A e : Places(e)' # {} => e \in 1 .. added'
        /\ ~panicked' => \A e \in 1 .. added' : Places(e)' # {}
    BY OncePlaces
  <1>3. /\ current \in Seq(Nat) /\ added \in Nat /\ Run(current)
        /\ current # <<>> => current[Len(current)] = added
    BY DEF TypeInv, OnceInv, Batch
  <1>4. Run(<<>>)
    BY DEF Run
  <1>5. /\ Run(current')
        /\ current' # <<>> => current'[Len(current')] = added'
    <2>1. CASE \/ current' = current /\ added' = added
               \/ current' = <<>>
      BY <2>1, <1>3, <1>4
    <2>2. CASE current' = Append(current, added + 1) /\ added' = added + 1
      <3>1. /\ Len(current) \in Nat /\ Len(current') = Len(current) + 1
            /\ \A i \in 1 .. Len(current) : current'[i] = current[i]
            /\ current'[Len(current) + 1] = added + 1
        BY <2>2, <1>3
      <3>2. ASSUME NEW i \in 1 .. Len(current') - 1
            PROVE  current'[i + 1] = current'[i] + 1
        <4>1. CASE i = Len(current)
          <5>1. current # <<>> /\ current'[i] = current[Len(current)]
            BY <4>1, <3>1, <3>2
          <5>2. QED
            BY <5>1, <4>1, <3>1, <1>3
        <4>2. CASE i # Len(current)
          <5>1. i \in 1 .. Len(current) - 1 /\ i + 1 \in 1 .. Len(current) /\ i \in 1 .. Len(current)
            BY <4>2, <3>1, <3>2
          <5>2. current[i + 1] = current[i] + 1
            BY <5>1, <1>3 DEF Run
          <5>3. QED
            BY <5>1, <5>2, <3>1
        <4>3. QED
          BY <4>1, <4>2
      <3>3. QED
        BY <3>1, <3>2, <2>2 DEF Run
    <2>3. QED
      BY <2>1, <2>2, BatchesStep
  <1>6. \A b \in Batches' \cup {current'} : Run(b)
    BY <1>3, <1>4, <1>5, BatchesStep DEF OnceInv
  <1>7. QED
    BY <1>1, <1>2, <1>5, <1>6 DEF OnceInv

\* However the flushes of several goroutines, the ticker and Stop race, no event is
\* duplicated, none is lost short of a panic, and none is out of order in its batch.
THEOREM OnceTheorem == Spec => []EachEventOnce
  <1>1. TypeInv /\ OnceInv => EachEventOnce
    <2> SUFFICES ASSUME TypeInv, OnceInv PROVE EachEventOnce
      OBVIOUS
    <2>1. ASSUME NEW e \in 1 .. added
          PROVE  /\ Places(e) = {} => Cardinality(Places(e)) = 0
                 /\ Places(e) # {} => Cardinality(Places(e)) = 1
      <3>1. CASE Places(e) = {}
        BY <3>1, FS_EmptySet
      <3>2. CASE Places(e) # {}
        <4>1. PICK p : p \in Places(e)
          BY <3>2
        <4>2. Places(e) = {p}
          BY <4>1 DEF OnceInv
        <4>3. Cardinality({p}) = 1
          BY FS_Singleton
        <4>4. QED
          BY <4>2, <4>3
      <3>3. QED
        BY <3>1, <3>2
    <2>2. panicked \in BOOLEAN
      BY DEF TypeInv
    <2>3. \A e \in 1 .. added : IF panicked THEN Cardinality(Places(e)) <= 1
                                ELSE Cardinality(Places(e)) = 1
      BY <2>1, <2>2 DEF OnceInv
    <2>4. \A b \in Batches \cup {current} : \A i \in 1 .. Len(b) - 1 : b[i + 1] = b[i] + 1
      BY DEF OnceInv, Run
    <2>5. QED
      BY <2>3, <2>4 DEF EachEventOnce
  <1>2. Init => OnceInv
    BY OnceInit
  <1>3. (TypeInv /\ StopInv) /\ OnceInv /\ [Next]_vars => OnceInv'
    BY OnceStep
  <1>4. QED
    BY <1>1, <1>2, <1>3, StopHolds, PTL DEF Spec
=============================================================================
