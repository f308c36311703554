--------------------------- MODULE BatchAssembler ---------------------------
(***************************************************************************)
(* The batch assembler (src/pkg/telemetry/batch.go): goroutines Add events *)
(* to a current batch that is flushed to an output channel when it is full *)
(* or a ticker fires, until Stop.                                          *)
(*                                                                         *)
(* The mutex covers less than a method: Add appends and decides to flush   *)
(* in one critical section, flush takes the batch away in another, and the *)
(* send happens outside both.  Each is an action, so the Adds, the ticker  *)
(* goroutine and Stop interleave between them.                             *)
(***************************************************************************)
EXTENDS Integers, Sequences, FiniteSets

CONSTANTS
    Adders,      \* goroutines that call Add
    MaxEvents,   \* cfg.MaxEvents
    OutputSize,  \* cfg.OutputBufferSize
    MaxAdds      \* bound: number of Add calls

ASSUME BatchAssumption ==
    /\ IsFiniteSet(Adders)
    /\ MaxEvents \in Nat \ {0}
    /\ OutputSize \in Nat \ {0}
    /\ MaxAdds \in Nat

VARIABLES
    current,   \* b.current: the events, as their numbers in order of Add
    output,    \* the channel's buffer: a sequence of batches
    closed,    \* close(b.output) happened
    done,      \* close(b.done) happened
    adder,     \* each adding goroutine: its pc, and the batch it took to send
    flusher,   \* the goroutine in Start, likewise
    panicked,  \* a send on the closed channel took the process down
    added,     \* number of events added so far
    departed,  \* ghost: batches that the consumer received or flush dropped
    late       \* ghost: an Add was in progress when Stop was called, or began later

vars == <<current, output, closed, done, adder, flusher, panicked, added, departed, late>>

At(pc) == [pc |-> pc, hand |-> <<>>]

\* Fault: an empty batch is taken and sent like any other.
TakeEmpty(sending, returned) == [pc |-> sending, hand |-> current]

\* flush, first half, under the lock: the goroutine leaves with the whole
\* batch, or returns at once if there is none.
Take(sending, returned) ==
    IF current = <<>> THEN At(returned) ELSE [pc |-> sending, hand |-> current]

\* flush, second half, outside the lock: a non-blocking send.  The batch is
\* dropped when the buffer is full; a send on a closed channel panics.
Send(batch) ==
    /\ panicked' = closed
    /\ \/ /\ ~closed
          /\ Len(output) < OutputSize
          /\ output' = Append(output, batch)
          /\ UNCHANGED departed
       \/ /\ ~closed
          /\ Len(output) >= OutputSize
          /\ departed' = departed \cup {batch}
          /\ UNCHANGED output
       \/ /\ closed
          /\ UNCHANGED <<output, departed>>

-----------------------------------------------------------------------------
(* Add. *)

\* Fault: the limit is compared with > instead of >=.
AddOverLimit(a) ==
    /\ ~panicked
    /\ adder[a].pc = "idle"
    /\ added < MaxAdds
    /\ added' = added + 1
    /\ current' = Append(current, added + 1)
    /\ adder' = [adder EXCEPT ![a] =
                   At(IF Len(current) + 1 > MaxEvents THEN "flush" ELSE "idle")]
    /\ late' = (late \/ done)
    /\ UNCHANGED <<output, closed, done, flusher, panicked, departed>>

\* Append, and decide under the same lock whether this call must flush.
Add(a) ==
    /\ ~panicked
    /\ adder[a].pc = "idle"
    /\ added < MaxAdds
    /\ added' = added + 1
    /\ current' = Append(current, added + 1)
    /\ adder' = [adder EXCEPT ![a] =
                   At(IF Len(current) + 1 >= MaxEvents THEN "flush" ELSE "idle")]
    /\ late' = (late \/ done)
    /\ UNCHANGED <<output, closed, done, flusher, panicked, departed>>

\* Fault: the batch is taken but current is not emptied.
AddTakeCopies(a) ==
    /\ ~panicked
    /\ adder[a].pc = "flush"
    /\ adder' = [adder EXCEPT ![a] = Take("send", "idle")]
    /\ UNCHANGED <<current, output, closed, done, flusher, panicked, added, departed, late>>

AddTake(a) ==
    /\ ~panicked
    /\ adder[a].pc = "flush"
    /\ adder' = [adder EXCEPT ![a] = Take("send", "idle")]
    /\ current' = <<>>
    /\ UNCHANGED <<output, closed, done, flusher, panicked, added, departed, late>>

AddSend(a) ==
    /\ ~panicked
    /\ adder[a].pc = "send"
    /\ Send(adder[a].hand)
    /\ adder' = [adder EXCEPT ![a] = At("idle")]
    /\ UNCHANGED <<current, closed, done, flusher, added, late>>

-----------------------------------------------------------------------------
(* Start: the ticker goroutine. *)

\* Fault: the ticker flushes full batches only.
TickTakeFull ==
    /\ ~panicked
    /\ flusher.pc = "select"
    /\ Len(current) >= MaxEvents
    /\ flusher' = Take("send", "select")
    /\ current' = <<>>
    /\ UNCHANGED <<output, closed, done, adder, panicked, added, departed, late>>

\* The ticker fires; when done is closed too, select may pick either.
TickTake ==
    /\ ~panicked
    /\ flusher.pc = "select"
    /\ flusher' = Take("send", "select")
    /\ current' = <<>>
    /\ UNCHANGED <<output, closed, done, adder, panicked, added, departed, late>>

TickSend ==
    /\ ~panicked
    /\ flusher.pc = "send"
    /\ Send(flusher.hand)
    /\ flusher' = At("select")
    /\ UNCHANGED <<current, closed, done, adder, added, late>>

\* Fault: no final flush.
FinalTakeNothing ==
    /\ ~panicked
    /\ flusher.pc = "select"
    /\ done
    /\ flusher' = At("close")
    /\ UNCHANGED <<current, output, closed, done, adder, panicked, added, departed, late>>

\* Fault: with nothing to flush the goroutine goes back to select.
FinalTakeContinues ==
    /\ ~panicked
    /\ flusher.pc = "select"
    /\ done
    /\ flusher' = Take("finalSend", "select")
    /\ current' = <<>>
    /\ UNCHANGED <<output, closed, done, adder, panicked, added, departed, late>>

\* done is closed: the final flush, then close(b.output).
FinalTake ==
    /\ ~panicked
    /\ flusher.pc = "select"
    /\ done
    /\ flusher' = Take("finalSend", "close")
    /\ current' = <<>>
    /\ UNCHANGED <<output, closed, done, adder, panicked, added, departed, late>>

FinalSend ==
    /\ ~panicked
    /\ flusher.pc = "finalSend"
    /\ Send(flusher.hand)
    /\ flusher' = At("close")
    /\ UNCHANGED <<current, closed, done, adder, added, late>>

CloseOutput ==
    /\ ~panicked
    /\ flusher.pc = "close"
    /\ closed' = TRUE
    /\ flusher' = At("exit")
    /\ UNCHANGED <<current, output, done, adder, panicked, added, departed, late>>

-----------------------------------------------------------------------------

\* Fault: Stop closes the output itself, under the ticker goroutine's feet.
StopClosesOutput ==
    /\ ~panicked
    /\ ~done
    /\ done' = TRUE
    /\ closed' = TRUE
    /\ late' = (late \/ \E a \in Adders : adder[a].pc # "idle")
    /\ UNCHANGED <<current, output, adder, flusher, panicked, added, departed>>

\* Stop, called once.
Stop ==
    /\ ~panicked
    /\ ~done
    /\ done' = TRUE
    /\ late' = (late \/ \E a \in Adders : adder[a].pc # "idle")
    /\ UNCHANGED <<current, output, closed, adder, flusher, panicked, added, departed>>

\* The reader of Batches() receives; it may also stop reading for good.
Receive ==
    /\ ~panicked
    /\ output # <<>>
    /\ departed' = departed \cup {Head(output)}
    /\ output' = Tail(output)
    /\ UNCHANGED <<current, closed, done, adder, flusher, panicked, added, late>>

Init ==
    /\ current = <<>>
    /\ output = <<>>
    /\ closed = FALSE
    /\ done = FALSE
    /\ adder = [a \in Adders |-> At("idle")]
    /\ flusher = At("select")
    /\ panicked = FALSE
    /\ added = 0
    /\ departed = {}
    /\ late = FALSE

AdderStep(a) == Add(a) \/ AddTake(a) \/ AddSend(a)
FlusherStep == TickTake \/ TickSend \/ FinalTake \/ FinalSend \/ CloseOutput

Next == (\E a \in Adders : AdderStep(a)) \/ FlusherStep \/ Stop \/ Receive

\* The ticker goroutine keeps running, and an Add that began goes on.  When
\* done is closed, select does not ignore it for ever.
Fairness ==
    /\ WF_vars(FlusherStep)
    /\ SF_vars(FinalTake)
    /\ \A a \in Adders : WF_vars(AddTake(a) \/ AddSend(a))

Spec == Init /\ [][Next]_vars /\ Fairness

-----------------------------------------------------------------------------
(* Properties. *)

Batch == Seq(Nat)

\* A goroutine has a batch in hand, never an empty one, when it is about to send.
Goroutine(resting, sending) ==
    [pc : resting, hand : {<<>>}] \cup [pc : sending, hand : Batch \ {<<>>}]

TypeOK ==
    /\ current \in Batch
    /\ output \in Seq(Batch \ {<<>>})
    /\ closed \in BOOLEAN /\ done \in BOOLEAN /\ panicked \in BOOLEAN /\ late \in BOOLEAN
    /\ adder \in [Adders -> Goroutine({"idle", "flush"}, {"send"})]
    /\ flusher \in Goroutine({"select", "close", "exit"}, {"send", "finalSend"})
    /\ added \in Nat
    /\ departed \subseteq Batch \ {<<>>}

Elements(s) == {s[i] : i \in DOMAIN s}

\* Batches that left current: held by a goroutine, in the channel, or gone.
Batches ==
    {adder[a].hand : a \in Adders} \cup {flusher.hand} \cup Elements(output) \cup departed

\* Where event e is.
Places(e) ==
    {<<"adder", a>> : a \in {d \in Adders : e \in Elements(adder[d].hand)}}
      \cup {<<"output", i>> : i \in {j \in DOMAIN output : e \in Elements(output[j])}}
      \cup {<<"departed", b>> : b \in {c \in departed : e \in Elements(c)}}
      \cup (IF e \in Elements(flusher.hand) THEN {<<"flusher">>} ELSE {})
      \cup (IF e \in Elements(current) THEN {<<"current">>} ELSE {})

\* Every added event is in exactly one place, and every batch is an unbroken
\* run of consecutive Adds, however the flushes of several goroutines race.
\* (A panic loses the batch being sent.)
EachEventOnce ==
    /\ \A e \in 1 .. added : IF panicked THEN Cardinality(Places(e)) <= 1
                             ELSE Cardinality(Places(e)) = 1
    /\ \A b \in Batches \cup {current} :
         \A i \in 1 .. Len(b) - 1 : b[i + 1] = b[i] + 1

\* A full batch does not wait for the ticker: as long as the current batch has
\* MaxEvents events or more, some Add that saw it full has yet to flush it,
\* whoever else has appended to it or taken it away in the meantime.
FullIsFlushed ==
    Len(current) >= MaxEvents => \E a \in Adders : adder[a].pc = "flush"

\* A send on the closed channel needs an Add that overlaps or follows Stop:
\* callers that finish adding first never panic.
PanicOnlyIfLate == panicked => late

\* If all Adds were over when Stop was called, nothing is left behind once the
\* goroutine has closed the channel: no event in the current batch or in hand.
StopLeavesNothing ==
    closed /\ ~late => /\ current = <<>>
                       /\ \A a \in Adders : adder[a].hand = <<>>

\* The flush interval works: an event does not stay in the current batch for
\* ever, whatever the load, unless Stop came before the Add was over.
EventuallyTaken ==
    \A e \in 1 .. MaxAdds : e \in Elements(current) ~> (e \notin Elements(current) \/ late)

\* Stop is heeded: the channel is closed (or the process died in a late Add).
StopCloses == done ~> (closed \/ panicked)
=============================================================================
