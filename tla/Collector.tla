------------------------------ MODULE Collector ------------------------------
(***************************************************************************)
(* The path of an event from the kernel to a profile: the eBPF ring buffer *)
(* (src/pkg/ebpf/akil.c), the collector's read loop and its stream to the  *)
(* aggregator (src/cmd/collector/main.go), the cgroup resolver it asks     *)
(* (src/pkg/cgroup/resolver.go), and the aggregator's stream handler       *)
(* (src/cmd/aggregator/main.go).                                           *)
(*                                                                         *)
(* Both directions of a gRPC stream have a flow-control window: Send waits *)
(* while SendWindow batches, or AckWindow acks, are not received yet.  The *)
(* aggregator acks every batch before it receives the next, so a goroutine *)
(* of the collector reads the acks.  Connections break and the aggregator  *)
(* crashes at any time until the environment has calmed down (calm, a      *)
(* device to state what happens after the last fault).                     *)
(*                                                                         *)
(* Events are alike but for one, the tracer: what happens to it happens to *)
(* every event, and no counter is needed.  Batches are sequences of        *)
(* events.  Time appears as overdue: more than a second since lastFlush.   *)
(***************************************************************************)
EXTENDS Integers, Sequences, FiniteSets

CONSTANTS
    RingSize,     \* events the ring buffer holds, 16 MB in the code
    BatchSize,    \* events that make a full batch, 100 in the code
    SendWindow,   \* batches in flight to the aggregator
    AckWindow     \* acks in flight to the collector

ASSUME CollectorAssumption ==
    /\ RingSize \in Nat \ {0} /\ BatchSize \in Nat \ {0}
    /\ SendWindow \in Nat \ {0} /\ AckWindow \in Nat \ {0}

VARIABLES
    ring,      \* the ring buffer
    pod,       \* the API server lists the pod and its cgroup exists
    known,     \* resolver.cgroupMap has its cgroup
    pc,        \* the collector's loop: "read", "send", "reopen", or "exited"
    batch,     \* batch.Events
    overdue,   \* time.Since(lastFlush) > time.Second
    stopping,  \* ctx is cancelled: SIGINT or SIGTERM
    stream,    \* the collector's stream: "open" or "dead"
    net,       \* batches sent on it and not received yet
    acks,      \* acks sent back and not received yet
    up,        \* the aggregator is running
    shutdown,  \* what its main waits for once told to stop: "grpc", "http", or "no"
    request,   \* httpServer.Shutdown found an HTTP request that is still in progress
    serving,   \* the handler of the open stream: "recv", "ack", or its batch
    orphan,    \* the batch a handler of an earlier stream still processes
    calm,      \* ghost: no fault happens any more
    born,      \* ghost: the tracer was produced
    recorded,  \* ghost: number of times the tracer was recorded in a profile
    faulted    \* ghost: something happened that may lose events

vars == <<ring, pod, known, pc, batch, overdue, stopping, stream, net, acks, up,
          shutdown, request, serving, orphan, calm, born, recorded, faulted>>

kernel     == <<ring, born>>
resolver   == <<pod, known>>
collector  == <<pc, batch, overdue, stopping>>
transport  == <<stream, net, acks>>
aggregator == <<up, shutdown, request>>
server     == <<aggregator, serving, orphan, recorded>>
ghosts     == <<calm, faulted>>

Events == {"plain", "tracer"}
Positions(s) == {i \in DOMAIN s : s[i] = "tracer"}
Count(s) == Cardinality(Positions(s))

Serving(what, work) == [pc |-> what, work |-> work]

-----------------------------------------------------------------------------
(* Kernel: bpf_ringbuf_reserve and submit. *)

Produce(e) ==
    /\ pc # "exited"                                \* the probes are attached
    /\ e = "tracer" => ~born
    /\ born' = (born \/ e = "tracer")
    /\ IF Len(ring) < RingSize
       THEN ring' = Append(ring, e) /\ UNCHANGED faulted
       ELSE faulted' = TRUE /\ UNCHANGED ring       \* reserve failed: dropped
    /\ UNCHANGED <<resolver, collector, transport, server, calm>>

-----------------------------------------------------------------------------
(* Resolver. *)

\* sync replaces the whole map by what the API server and cgroupfs show now.
\* Skipping it models a failed List, which keeps the old map.
Sync ==
    /\ known' = pod
    /\ UNCHANGED <<kernel, pod, collector, transport, server, ghosts>>

PodChanges ==
    /\ ~calm
    /\ pod' = ~pod
    /\ faulted' = TRUE
    /\ UNCHANGED <<kernel, known, collector, transport, server, calm>>

-----------------------------------------------------------------------------
(* The collector's loop. *)

\* Read an event whose cgroup is not in the map: it is ignored, and the flush
\* condition is not looked at.
ReadUnknown ==
    /\ pc = "read"
    /\ ring # <<>>
    /\ ~known
    /\ ring' = Tail(ring)
    /\ faulted' = TRUE
    /\ UNCHANGED <<born, resolver, collector, transport, server, calm>>

\* Fault: the batch size is compared with > instead of >=.
ReadEventOverfull ==
    /\ pc = "read"
    /\ ring # <<>>
    /\ known
    /\ ring' = Tail(ring)
    /\ batch' = Append(batch, Head(ring))
    /\ pc' = IF Len(batch) + 1 > BatchSize \/ overdue THEN "send" ELSE "read"
    /\ UNCHANGED <<born, resolver, overdue, stopping, transport, server, ghosts>>

\* Read, append, and flush when the batch is full or a second has passed.
ReadEvent ==
    /\ pc = "read"
    /\ ring # <<>>
    /\ known
    /\ ring' = Tail(ring)
    /\ batch' = Append(batch, Head(ring))
    /\ pc' = IF Len(batch) + 1 >= BatchSize \/ overdue THEN "send" ELSE "read"
    /\ UNCHANGED <<born, resolver, overdue, stopping, transport, server, ghosts>>

\* Fault: the batch is not emptied after it was sent.
FlushedKept ==
    /\ overdue' = FALSE
    /\ pc' = "read"
    /\ UNCHANGED batch

\* After the flush: an empty batch, and lastFlush is now.
Flushed ==
    /\ batch' = <<>>
    /\ overdue' = FALSE
    /\ pc' = "read"

\* Send waits for the window of an open stream.
Send ==
    /\ pc = "send"
    /\ stream = "open"
    /\ Len(net) < SendWindow
    /\ net' = Append(net, batch)
    /\ Flushed
    /\ UNCHANGED <<kernel, resolver, stopping, stream, acks, server, ghosts>>

\* Send on a dead stream, or under a cancelled context, returns an error.
SendFails ==
    /\ pc = "send"
    /\ stream = "dead" \/ stopping
    /\ pc' = "reopen"
    /\ UNCHANGED <<kernel, resolver, batch, overdue, stopping, transport, server>>
    /\ UNCHANGED ghosts

\* Fault: the new stream is assigned to a variable that shadows the old one.
ReopenShadowed ==
    /\ pc = "reopen"
    /\ up /\ shutdown = "no"
    /\ ~stopping
    /\ Flushed
    /\ UNCHANGED <<kernel, resolver, stopping, transport, server, ghosts>>

\* Fault: the aggregator accepts new streams while it shuts down.
ReopenDraining ==
    /\ pc = "reopen"
    /\ up
    /\ ~stopping
    /\ stream' = "open"
    /\ net' = <<>>
    /\ acks' = 0
    /\ serving' = Serving("recv", <<>>)
    /\ Flushed
    /\ UNCHANGED <<kernel, resolver, stopping, aggregator>>
    /\ UNCHANGED <<orphan, recorded, ghosts>>

\* openStream succeeds: a new stream and handler.  The batch is dropped.
Reopen ==
    /\ pc = "reopen"
    /\ up /\ shutdown = "no"
    /\ ~stopping
    /\ stream' = "open"
    /\ net' = <<>>
    /\ acks' = 0
    /\ serving' = Serving("recv", <<>>)
    /\ Flushed
    /\ UNCHANGED <<kernel, resolver, stopping, aggregator>>
    /\ UNCHANGED <<orphan, recorded, ghosts>>

\* openStream fails: the dead stream is kept.  The batch is dropped all the same.
ReopenFails ==
    /\ pc = "reopen"
    /\ Flushed
    /\ UNCHANGED <<kernel, resolver, stopping, transport, server, ghosts>>

\* Fault: nobody reads the acks until more than a window of them has come.
DrainAckLate ==
    /\ stream = "open"
    /\ acks > AckWindow
    /\ acks' = acks - 1
    /\ UNCHANGED <<kernel, resolver, collector, stream, net, server, ghosts>>

\* The goroutine of openStream that drains the acks.
DrainAck ==
    /\ stream = "open"
    /\ acks > 0
    /\ acks' = acks - 1
    /\ UNCHANGED <<kernel, resolver, collector, stream, net, server, ghosts>>

SecondPasses ==
    /\ ~overdue
    /\ pc # "exited"
    /\ overdue' = TRUE
    /\ UNCHANGED <<kernel, resolver, pc, batch, stopping, transport, server, ghosts>>

\* SIGTERM: the context is cancelled, which ends the stream and closes the reader.
Terminate ==
    /\ ~calm
    /\ ~stopping
    /\ pc # "exited"
    /\ stopping' = TRUE
    /\ faulted' = TRUE
    /\ UNCHANGED <<kernel, resolver, pc, batch, overdue, transport, server, calm>>

\* The reader is closed at last, Read fails and ctx.Err() # nil: the loop ends.
\* What is in the batch and in the ring buffer, which dies with the process, is
\* lost.
Exit ==
    /\ pc = "read"
    /\ stopping
    /\ serving.pc = "work" => orphan = <<>>
    /\ pc' = "exited"
    /\ batch' = <<>>
    /\ ring' = <<>>
    /\ stream' = "dead"
    /\ net' = <<>>
    /\ acks' = 0
    /\ serving' = Serving("gone", <<>>)
    /\ orphan' = IF serving.pc = "work" THEN serving.work ELSE orphan
    /\ UNCHANGED <<born, resolver, overdue, stopping, aggregator, recorded, ghosts>>

\* The DaemonSet starts the collector again; it exits at once if openStream fails.
Restart ==
    /\ pc = "exited"
    /\ up /\ shutdown = "no"
    /\ pc' = "read"
    /\ overdue' = FALSE
    /\ stopping' = FALSE
    /\ stream' = "open"
    /\ serving' = Serving("recv", <<>>)
    /\ known' = FALSE
    /\ UNCHANGED <<kernel, pod, batch, net, acks, aggregator>>
    /\ UNCHANGED <<orphan, recorded, ghosts>>

-----------------------------------------------------------------------------
(* The aggregator's handler, and the faults. *)

Recv ==
    /\ serving.pc = "recv"
    /\ net # <<>>
    /\ serving' = Serving("work", Head(net))
    /\ net' = Tail(net)
    /\ UNCHANGED <<kernel, resolver, collector, stream, acks, aggregator>>
    /\ UNCHANGED <<orphan, recorded, ghosts>>

\* Fault: the loop over the batch starts at its second event.
ProcessSkipsFirst ==
    /\ serving.pc = "work"
    /\ recorded' = recorded + Count(Tail(serving.work))
    /\ serving' = Serving("ack", <<>>)
    /\ UNCHANGED <<kernel, resolver, collector, transport, aggregator, orphan, ghosts>>

\* Record every event of the batch.
Process ==
    /\ serving.pc = "work"
    /\ recorded' = recorded + Count(serving.work)
    /\ serving' = Serving("ack", <<>>)
    /\ UNCHANGED <<kernel, resolver, collector, transport, aggregator, orphan, ghosts>>

\* stream.Send of the ack waits while the ack window is full.
SendAck ==
    /\ serving.pc = "ack"
    /\ acks < AckWindow
    /\ acks' = acks + 1
    /\ serving' = Serving("recv", <<>>)
    /\ UNCHANGED <<kernel, resolver, collector, stream, net, aggregator>>
    /\ UNCHANGED <<orphan, recorded, ghosts>>

\* A handler whose stream is gone still finishes the batch it received; then
\* its Send and its Recv fail and it returns.
ProcessOrphan ==
    /\ orphan # <<>>
    /\ recorded' = recorded + Count(orphan)
    /\ orphan' = <<>>
    /\ UNCHANGED <<kernel, resolver, collector, transport, aggregator, serving, ghosts>>

\* The connection breaks: what is in flight is lost.  (At most one handler of a
\* lost stream is still at work: a bound of the model.)
BreakStream ==
    /\ ~calm
    /\ stream = "open"
    /\ serving.pc = "work" => orphan = <<>>
    /\ stream' = "dead"
    /\ net' = <<>>
    /\ acks' = 0
    /\ serving' = Serving("gone", <<>>)
    /\ orphan' = IF serving.pc = "work" THEN serving.work ELSE orphan
    /\ faulted' = TRUE
    /\ UNCHANGED <<kernel, resolver, collector, aggregator, recorded, calm>>

\* The aggregator dies with its handlers, and with the profiles in memory.
Crash ==
    /\ ~calm
    /\ up
    /\ up' = FALSE
    /\ shutdown' = "no"
    /\ request' = FALSE
    /\ stream' = "dead"
    /\ net' = <<>>
    /\ acks' = 0
    /\ serving' = Serving("gone", <<>>)
    /\ orphan' = <<>>
    /\ faulted' = TRUE
    /\ UNCHANGED <<kernel, resolver, collector, recorded, calm>>

\* SIGTERM to the aggregator: GracefulStop accepts no new stream and waits for
\* the handlers of the open ones, which go on as before.  The kill that follows
\* when this takes too long is a crash.
Shutdown ==
    /\ ~calm
    /\ up /\ shutdown = "no"
    /\ shutdown' = "grpc"
    /\ faulted' = TRUE
    /\ UNCHANGED <<kernel, resolver, collector, transport, up, request, serving>>
    /\ UNCHANGED <<orphan, recorded, calm>>

\* GracefulStop returns: no handler is left.  httpServer.Shutdown closes the
\* HTTP listener, open until now, and finds a request in progress or none.
GracefulStop ==
    /\ shutdown = "grpc"
    /\ serving.pc = "gone"
    /\ orphan = <<>>
    /\ shutdown' = "http"
    /\ request' \in BOOLEAN
    /\ UNCHANGED <<kernel, resolver, collector, transport, up, serving>>
    /\ UNCHANGED <<orphan, recorded, ghosts>>

\* The request ends.  Shutdown's context has no deadline and the server no
\* timeout: nothing makes this happen.
HttpDone ==
    /\ request
    /\ request' = FALSE
    /\ UNCHANGED <<kernel, resolver, collector, transport, up, shutdown, serving>>
    /\ UNCHANGED <<orphan, recorded, ghosts>>

\* httpServer.Shutdown returns, and main with it.
ShutdownDone ==
    /\ shutdown = "http"
    /\ ~request
    /\ up' = FALSE
    /\ shutdown' = "no"
    /\ UNCHANGED <<kernel, resolver, collector, transport, request, serving>>
    /\ UNCHANGED <<orphan, recorded, ghosts>>

AggregatorRestart ==
    /\ ~up
    /\ up' = TRUE
    /\ UNCHANGED <<kernel, resolver, collector, transport, shutdown, request, serving>>
    /\ UNCHANGED <<orphan, recorded, ghosts>>

\* From now on no fault happens and the pod is there.
Settle ==
    /\ ~calm
    /\ pod
    /\ calm' = TRUE
    /\ UNCHANGED <<kernel, resolver, collector, transport, server, faulted>>

-----------------------------------------------------------------------------

Init ==
    /\ ring = <<>>
    /\ pod = TRUE
    /\ known = FALSE
    /\ pc = "read"
    /\ batch = <<>>
    /\ overdue = FALSE
    /\ stopping = FALSE
    /\ stream = "open"
    /\ net = <<>>
    /\ acks = 0
    /\ up = TRUE
    /\ shutdown = "no"
    /\ request = FALSE
    /\ serving = Serving("recv", <<>>)
    /\ orphan = <<>>
    /\ calm = FALSE
    /\ born = FALSE
    /\ recorded = 0
    /\ faulted = FALSE

Loop == ReadUnknown \/ ReadEvent \/ Send \/ SendFails \/ Reopen \/ ReopenFails \/ Exit
Handler == Recv \/ Process \/ SendAck
Fault == BreakStream \/ Crash \/ Shutdown \/ Terminate \/ PodChanges

Next ==
    \/ \E e \in Events : Produce(e)
    \/ Loop \/ DrainAck \/ SecondPasses \/ Restart \/ Sync
    \/ Handler \/ ProcessOrphan \/ GracefulStop \/ HttpDone
    \/ ShutdownDone \/ AggregatorRestart
    \/ Fault \/ Settle

\* Goroutines that can run do run; the ticker of the resolver fires; a crashed
\* process is restarted by Kubernetes; a cancelled context closes the reader; a
\* gRPC dial to a running aggregator does not fail for ever.  Nothing makes the
\* kernel produce another event, or an HTTP request end.
Fairness ==
    /\ WF_vars(Loop)
    /\ WF_vars(Handler)
    /\ WF_vars(ProcessOrphan)
    /\ WF_vars(DrainAck)
    /\ WF_vars(SecondPasses)
    /\ WF_vars(Sync)
    /\ WF_vars(Restart)
    /\ WF_vars(GracefulStop)
    /\ WF_vars(ShutdownDone)
    /\ WF_vars(AggregatorRestart)
    /\ SF_vars(Reopen)
    /\ SF_vars(Exit)

Spec == Init /\ [][Next]_vars /\ Fairness

-----------------------------------------------------------------------------
(* Properties. *)

\* Where the tracer is in the batches in flight, and how often it is anywhere.
InFlight == UNION {{i} \X Positions(net[i]) : i \in DOMAIN net}

Tracers ==
    Count(ring) + Count(batch) + Cardinality(InFlight)
        + Count(serving.work) + Count(orphan)

TypeOK ==
    /\ ring \in Seq(Events) /\ Len(ring) <= RingSize
    /\ batch \in Seq(Events) /\ Len(batch) <= BatchSize
    /\ net \in Seq(Seq(Events)) /\ Len(net) <= SendWindow
    /\ acks \in 0 .. AckWindow
    /\ pc \in {"read", "send", "reopen", "exited"}
    /\ serving.pc \in {"recv", "work", "ack", "gone"}
    /\ stream \in {"open", "dead"}

\* The tracer's fate, read off where it is.
Status ==
    CASE ~born                             -> "unborn"
      [] born /\ recorded + Tracers = 0    -> "lost"
      [] recorded = 0 /\ Tracers = 1       -> "pending"
      [] recorded = 1 /\ Tracers = 0       -> "recorded"
      [] OTHER                             -> "duplicated"

Promise == INSTANCE Delivery WITH status <- Status, faulted <- faulted

\* Whatever breaks, restarts, drains and is reopened, an event is in one place
\* or recorded once, never twice, never recorded after it was lost; and it is
\* lost only when the ring buffer overflowed, its cgroup was unknown, or a
\* process or connection failed: every step of the pipeline is a step of Delivery.
ImplementsDelivery == Promise!Spec

\* The acks cannot stop the pipeline: a Send in progress always ends, although
\* the aggregator waits for the collector to take its acks.
SendEnds == (pc = "send") ~> (pc # "send")

\* What httpServer.Shutdown waits for comes: the request in progress ends.
RequestEnds == []<>(shutdown = "http" => ~request)

\* After the last fault, as long as events of known cgroups arrive, the
\* collector gets through to the aggregator again: batches go on being
\* recorded, even if the stream was dead and could not be reopened at first.
\* (Only an HTTP request without end keeps an aggregator that shuts down alive
\* and closed to streams.)
Recovers ==
    (<>calm /\ RequestEnds /\ []<><<ReadEvent>>_vars) => []<><<Process>>_vars

\* GracefulStop and httpServer.Shutdown have no deadline.  The aggregator told
\* to stop still stops, unless a collector keeps the stream it had for ever or
\* an HTTP request in progress never ends: a handler still recording is waited
\* for, and no later stream holds the shutdown up.
ShutdownEnds ==
    ([]<>(shutdown = "grpc" => stream = "dead") /\ RequestEnds)
        => (shutdown # "no" ~> ~up)

\* Without faults and with events arriving, every event is recorded.
Delivered ==
    ([]~faulted /\ []<><<ReadEvent>>_vars) => (born ~> recorded = 1)

\* The README: "A batch is flushed when either 1000 events accumulate or 1
\* second elapses (whichever comes first)".  Without faults an event does not
\* stay in the batch for ever.
FlushedInTime ==
    []~faulted => (batch # <<>> ~> batch = <<>>)
=============================================================================
