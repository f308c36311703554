----------------------------- MODULE Autoscaler -----------------------------
(***************************************************************************)
(* The aggregator's demo autoscaler (src/cmd/aggregator/autoscaler.go) and *)
(* the HTTP handlers that share its state (src/cmd/aggregator/main.go).    *)
(*                                                                         *)
(* Two actors run concurrently: the autoscaler loop, which reads, decides  *)
(* and writes in separate critical sections (or separate calls to the      *)
(* Kubernetes API), and the handlers of /api/scale and /api/autoscale/*.   *)
(* Every access to the shared variables under autoMu is one action.        *)
(*                                                                         *)
(* The profile store appears as heat: the class of rates that QueryProfile *)
(* returns for a workload, which changes at any time.  Kubernetes appears  *)
(* as one deployment's scale, whose update is refused when it changed      *)
(* since it was read (resourceVersion), and whose calls may fail.          *)
(***************************************************************************)
EXTENDS Integers, Sequences, SequencesExt

CONSTANTS
    Workloads,     \* workload keys
    MaxReplicas,   \* maxReplicas, 6 in the code
    MaxManual,     \* largest value /api/scale accepts, 10 in the code
    InitReplicas,  \* replicas at the start, 2 in the code
    LogCap,        \* entries kept by logScaling, 50 in the code
    MaxPosts,      \* bound: number of POST /api/scale requests
    MaxToggles     \* bound: number of enable and disable requests

ASSUME AutoscalerAssumption ==
    /\ MaxReplicas \in Nat /\ MaxManual \in Nat /\ InitReplicas \in Nat
    /\ 1 <= InitReplicas /\ InitReplicas <= MaxReplicas
    /\ MaxReplicas <= MaxManual
    /\ LogCap \in Nat \ {0}
    /\ MaxPosts \in Nat /\ MaxToggles \in Nat

VARIABLES
    inCluster,          \* clientset # nil, decided when the aggregator starts
    autoscalingEnabled,
    replicas,           \* simulatedReplicas, or the deployment's Spec.Replicas
    scalingLogs,
    heat,               \* class of each workload's rates
    keys,               \* the workloads decide looks at: the keys of the store or,
                        \* in a cluster, simulatedKeys
    labelled,           \* the deployment carries akil.io/autoscale=true
    loop,               \* the autoscaler goroutine: pc and locals
    post,               \* the handler of POST /api/scale: pc and locals
    posts, toggles,     \* bounds
    writes,             \* ghost: the loop's latest replica writes, oldest first
    lateWrites          \* ghost: loop writes since autoscaling was last disabled

shared == <<autoscalingEnabled, replicas, scalingLogs>>
env    == <<heat, keys, labelled>>
ghosts == <<writes, lateWrites>>
vars   == <<inCluster, shared, env, loop, post, posts, toggles, ghosts>>

Heats == {"nominal", "warm", "hot"}

ScaleEntry(old, n) ==
    [Action |-> IF n > old THEN "SCALE UP" ELSE "SCALE DOWN", Replicas |-> n]
InfoEntry == [Action |-> "INFO", Replicas |-> -1]

LogEntry == [Action : {"SCALE UP", "SCALE DOWN"}, Replicas : 1 .. MaxManual]

\* The loop between two ticks.
Waiting == [pc |-> "wait", cur |-> InitReplicas, n |-> InitReplicas, todo |-> {},
            allNominal |-> TRUE, fresh |-> FALSE, hot |-> FALSE]

NoPost == [pc |-> "idle", target |-> 1, fresh |-> FALSE]

AtMost(a, b) == IF a < b THEN a ELSE b

LastN(s, n) == IF Len(s) > n THEN SubSeq(s, Len(s) - n + 1, Len(s)) ELSE s

-----------------------------------------------------------------------------
(* The autoscaler loop. *)

\* Fault: the tick does not look at autoscalingEnabled.
TickAlways ==
    /\ loop.pc = "wait"
    /\ loop' = [Waiting EXCEPT !.pc = IF inCluster THEN "keys" ELSE "getReplicas"]
    /\ UNCHANGED <<inCluster, shared, env, post, posts, toggles, ghosts>>

\* A tick of the 3 s ticker: nothing happens unless autoscaling is enabled.
Tick ==
    /\ loop.pc = "wait"
    /\ autoscalingEnabled
    /\ loop' = [Waiting EXCEPT !.pc = IF inCluster THEN "keys" ELSE "getReplicas"]
    /\ UNCHANGED <<inCluster, shared, env, post, posts, toggles, ghosts>>

\* Without a cluster the count is read first.
GetReplicas ==
    /\ loop.pc = "getReplicas"
    /\ loop' = [loop EXCEPT !.pc = "keys", !.cur = replicas]
    /\ UNCHANGED <<inCluster, shared, env, post, posts, toggles, ghosts>>

\* Then the keys: all of the store or, in a cluster, those fed by the demo UI.
\* Without any the tick is over.
ListKeys ==
    /\ loop.pc = "keys"
    /\ loop' = IF keys = {} THEN Waiting
               ELSE [loop EXCEPT !.pc = IF inCluster THEN "getDeployment" ELSE "decide",
                                 !.todo = keys]
    /\ UNCHANGED <<inCluster, shared, env, post, posts, toggles, ghosts>>

\* In a cluster, only a deployment that opted in is scaled.  Get may fail.
GetDeployment ==
    /\ loop.pc = "getDeployment"
    /\ \/ labelled /\ loop' = [loop EXCEPT !.pc = "getScale"]
       \/ loop' = Waiting
    /\ UNCHANGED <<inCluster, shared, env, post, posts, toggles, ghosts>>

\* GetScale may fail too.
GetScale ==
    /\ loop.pc = "getScale"
    /\ \/ loop' = [loop EXCEPT !.pc = "decide", !.cur = replicas, !.fresh = TRUE]
       \/ loop' = Waiting
    /\ UNCHANGED <<inCluster, shared, env, post, posts, toggles, ghosts>>

\* Fault: the cap is off by one.
DecideBelowMax(k) ==
    /\ loop.pc = "decide"
    /\ k \in loop.todo
    /\ loop' = IF heat[k] = "hot"
               THEN [loop EXCEPT !.pc = "write", !.todo = {}, !.hot = TRUE,
                                 !.n = AtMost(loop.cur + 1, MaxReplicas - 1)]
               ELSE [loop EXCEPT !.todo = @ \ {k},
                                 !.allNominal = @ /\ heat[k] = "nominal"]
    /\ UNCHANGED <<inCluster, shared, env, post, posts, toggles, ghosts>>

\* One iteration of decide: QueryProfile of one key, in any order.  A hot
\* workload decides at once.
Decide(k) ==
    /\ loop.pc = "decide"
    /\ k \in loop.todo
    /\ loop' = IF heat[k] = "hot"
               THEN [loop EXCEPT !.pc = "write", !.todo = {}, !.hot = TRUE,
                                 !.n = AtMost(loop.cur + 1, MaxReplicas)]
               ELSE [loop EXCEPT !.todo = @ \ {k},
                                 !.allNominal = @ /\ heat[k] = "nominal"]
    /\ UNCHANGED <<inCluster, shared, env, post, posts, toggles, ghosts>>

\* Fault: scaling down has no lower limit.
ConcludeBelowOne ==
    /\ loop.pc = "decide"
    /\ loop.todo = {}
    /\ loop' = [loop EXCEPT !.pc = "write",
                            !.n = IF loop.allNominal THEN loop.cur - 1 ELSE loop.cur]
    /\ UNCHANGED <<inCluster, shared, env, post, posts, toggles, ghosts>>

\* Fault: the lower limit is off by one.
ConcludeAboveOne ==
    /\ loop.pc = "decide"
    /\ loop.todo = {}
    /\ loop' = [loop EXCEPT !.pc = "write",
                            !.n = IF loop.allNominal /\ loop.cur > 2
                                  THEN loop.cur - 1 ELSE loop.cur]
    /\ UNCHANGED <<inCluster, shared, env, post, posts, toggles, ghosts>>

\* The end of decide: scale down by one once every workload is nominal.
Conclude ==
    /\ loop.pc = "decide"
    /\ loop.todo = {}
    /\ loop' = [loop EXCEPT !.pc = "write",
                            !.n = IF loop.allNominal /\ loop.cur > 1
                                  THEN loop.cur - 1 ELSE loop.cur]
    /\ UNCHANGED <<inCluster, shared, env, post, posts, toggles, ghosts>>

\* Ghost bookkeeping of a replica write by the loop.
LoopWrote ==
    /\ writes' = LastN(Append(writes, ScaleEntry(loop.cur, loop.n)), LogCap + MaxToggles + 1)
    /\ lateWrites' = IF autoscalingEnabled THEN 0 ELSE lateWrites + 1

\* n = cur: nothing to do.
KeepReplicas ==
    /\ loop.pc = "write"
    /\ loop.n = loop.cur
    /\ loop' = Waiting
    /\ UNCHANGED <<inCluster, shared, env, post, posts, toggles, ghosts>>

\* Without a cluster setReplicas overwrites whatever is there now.
SetReplicas ==
    /\ loop.pc = "write"
    /\ ~inCluster
    /\ loop.n # loop.cur
    /\ replicas' = loop.n
    /\ loop' = [loop EXCEPT !.pc = "log"]
    /\ LoopWrote
    /\ UNCHANGED <<inCluster, autoscalingEnabled, scalingLogs, env, post, posts, toggles>>

\* Fault: the update is sent without the version that was read.
UpdateScaleUnversioned ==
    /\ loop.pc = "write"
    /\ inCluster
    /\ loop.n # loop.cur
    /\ replicas' = loop.n
    /\ loop' = [loop EXCEPT !.pc = "log"]
    /\ post' = [post EXCEPT !.fresh = FALSE]
    /\ LoopWrote
    /\ UNCHANGED <<inCluster, autoscalingEnabled, scalingLogs, env, posts, toggles>>

\* UpdateScale succeeds only on the version GetScale returned.
UpdateScale ==
    /\ loop.pc = "write"
    /\ inCluster
    /\ loop.n # loop.cur
    /\ loop.fresh
    /\ replicas' = loop.n
    /\ loop' = [loop EXCEPT !.pc = "log"]
    /\ post' = [post EXCEPT !.fresh = FALSE]
    /\ LoopWrote
    /\ UNCHANGED <<inCluster, autoscalingEnabled, scalingLogs, env, posts, toggles>>

\* Fault: the error of UpdateScale is not looked at before logging.
UpdateScaleFailsLogged ==
    /\ loop.pc = "write"
    /\ inCluster
    /\ loop.n # loop.cur
    /\ loop' = [loop EXCEPT !.pc = "log"]
    /\ UNCHANGED <<inCluster, shared, env, post, posts, toggles, ghosts>>

\* A conflict, or any other error: the tick is given up, nothing is logged.
UpdateScaleFails ==
    /\ loop.pc = "write"
    /\ inCluster
    /\ loop.n # loop.cur
    /\ loop' = Waiting
    /\ UNCHANGED <<inCluster, shared, env, post, posts, toggles, ghosts>>

\* logScaling: append, then drop one entry when the log is over its cap.
LogScaling ==
    /\ loop.pc = "log"
    /\ LET logs == Append(scalingLogs, ScaleEntry(loop.cur, loop.n))
       IN  scalingLogs' = IF Len(logs) > LogCap THEN Tail(logs) ELSE logs
    /\ loop' = Waiting
    /\ UNCHANGED <<inCluster, autoscalingEnabled, replicas, env, post, posts, toggles, ghosts>>

-----------------------------------------------------------------------------
(* The HTTP handlers. *)

\* /api/autoscale/enable and /disable: setAutoscaling appends to the log and
\* does not trim it.
SetAutoscaling(enabled) ==
    /\ toggles < MaxToggles
    /\ toggles' = toggles + 1
    /\ autoscalingEnabled' = enabled
    /\ scalingLogs' = Append(scalingLogs, InfoEntry)
    /\ lateWrites' = IF enabled \/ autoscalingEnabled THEN 0 ELSE lateWrites
    /\ UNCHANGED <<inCluster, replicas, env, loop, post, posts, writes>>

\* POST /api/scale without a cluster: setReplicas.
PostScale(n) ==
    /\ ~inCluster
    /\ posts < MaxPosts
    /\ posts' = posts + 1
    /\ replicas' = n
    /\ UNCHANGED <<inCluster, autoscalingEnabled, scalingLogs, env, loop, post, toggles, ghosts>>

\* POST /api/scale in a cluster, first call: GetScale.
PostGetScale(n) ==
    /\ inCluster
    /\ post.pc = "idle"
    /\ posts < MaxPosts
    /\ posts' = posts + 1
    /\ post' = [pc |-> "update", target |-> n, fresh |-> TRUE]
    /\ UNCHANGED <<inCluster, shared, env, loop, toggles, ghosts>>

\* Second call: UpdateScale, refused if the scale changed in between.
PostUpdateScale ==
    /\ post.pc = "update"
    /\ post.fresh
    /\ replicas' = post.target
    /\ loop' = [loop EXCEPT !.fresh = FALSE]
    /\ post' = NoPost
    /\ UNCHANGED <<inCluster, autoscalingEnabled, scalingLogs, env, posts, toggles, ghosts>>

PostUpdateFails ==
    /\ post.pc = "update"
    /\ post' = NoPost
    /\ UNCHANGED <<inCluster, shared, env, loop, posts, toggles, ghosts>>

-----------------------------------------------------------------------------
(* The environment: telemetry and the cluster's operator. *)

\* A profile's rates change class: events arrive, or the window drains.
HeatChanges(k, h) ==
    /\ k \in keys
    /\ heat' = [heat EXCEPT ![k] = h]
    /\ UNCHANGED <<inCluster, shared, keys, labelled, loop, post, posts, toggles, ghosts>>

\* A workload becomes known: GetOrCreate, or markSimulated, which
\* /api/simulate-events calls first.  Its profile is still empty.
KeyAppears(k) ==
    /\ keys' = keys \cup {k}
    /\ UNCHANGED <<inCluster, shared, heat, labelled, loop, post, posts, toggles, ghosts>>

Relabel ==
    /\ inCluster
    /\ labelled' = ~labelled
    /\ UNCHANGED <<inCluster, shared, heat, keys, loop, post, posts, toggles, ghosts>>

Init ==
    /\ inCluster \in BOOLEAN
    /\ autoscalingEnabled \in BOOLEAN   \* AKIL_AUTOSCALE=1
    /\ replicas = InitReplicas
    /\ scalingLogs = <<>>
    /\ heat = [k \in Workloads |-> "nominal"]
    /\ keys = {}
    /\ labelled = TRUE
    /\ loop = Waiting
    /\ post = NoPost
    /\ posts = 0
    /\ toggles = 0
    /\ writes = <<>>
    /\ lateWrites = 0

LoopStep ==
    \/ Tick \/ GetReplicas \/ ListKeys \/ GetDeployment \/ GetScale
    \/ (\E k \in Workloads : Decide(k)) \/ Conclude
    \/ KeepReplicas \/ SetReplicas \/ UpdateScale \/ UpdateScaleFails
    \/ LogScaling

PostStep ==
    \/ \E n \in 1 .. MaxManual : PostScale(n) \/ PostGetScale(n)
    \/ PostUpdateScale \/ PostUpdateFails

EnvStep ==
    \/ \E k \in Workloads :
         \/ \E h \in Heats : HeatChanges(k, h)
         \/ KeyAppears(k)
    \/ Relabel

Next == LoopStep \/ PostStep \/ (\E e \in BOOLEAN : SetAutoscaling(e)) \/ EnvStep

\* The goroutine runs as long as the process: its ticker fires again and again
\* and none of its steps waits for another actor.
Spec == Init /\ [][Next]_vars /\ WF_vars(LoopStep)

-----------------------------------------------------------------------------
(* Properties. *)

TypeOK ==
    /\ replicas \in 1 .. MaxManual
    /\ loop.pc \in {"wait", "getReplicas", "keys", "getDeployment", "getScale",
                   "decide", "write", "log"}
    /\ loop.cur \in 1 .. MaxManual
    /\ loop.n \in 1 .. MaxManual
    /\ loop.todo \subseteq Workloads
    /\ post.pc \in {"idle", "update"}
    /\ post.target \in 1 .. MaxManual
    /\ keys \subseteq Workloads
    /\ writes \in Seq(LogEntry)

\* After autoscaling is disabled at most one more write of the replica count
\* follows: the one of the tick that had already passed getAutoscaling.
DisableTakesEffect == lateWrites <= 1

\* In a cluster the loop never overwrites a count it has not seen: the value it
\* replaces is the one it decided on, whatever /api/scale did in the meantime.
ClusterNoLostUpdate ==
    [][UpdateScale => replicas = loop.cur]_vars

\* Every toggle raises the log's length for good, by no more than one: setAutoscaling
\* appends without trimming, logScaling drops no more than it appends.
LogBounded == Len(scalingLogs) <= LogCap + toggles

\* The entries of a log that say what the loop did, in order.
Scalings(logs) ==
    LET F[i \in 0 .. Len(logs)] ==
          IF i = 0 THEN <<>>
          ELSE IF logs[i].Action = "INFO" THEN F[i - 1] ELSE Append(F[i - 1], logs[i])
    IN  F[Len(logs)]

\* The scaling log tells the truth: its scaling entries are the loop's last
\* replica writes, in order, the one being logged excepted; a write that failed
\* or was not made is never logged.
LogIsHistory ==
    LET logged == Scalings(scalingLogs)
        made   == IF loop.pc = "log" THEN Front(writes) ELSE writes
    IN  /\ Len(logged) <= Len(made)
        /\ logged = LastN(made, Len(logged))
        /\ LogBounded

\* Without a cluster, if autoscaling stays on and every profile has drained for
\* good, the count comes down to one replica.
DrainsToOne ==
    (~inCluster /\ <>[](/\ autoscalingEnabled
                        /\ keys # {}
                        /\ \A k \in keys : heat[k] = "nominal"))
      => <>[](replicas = 1)

\* Without a cluster, while some workload stays hot, the count reaches
\* maxReplicas and stays there.
HotReachesMax ==
    (~inCluster /\ \E k \in Workloads :
        <>[](autoscalingEnabled /\ k \in keys /\ heat[k] = "hot"))
      => <>[](replicas = MaxReplicas)

\* The comment of decide: "add a replica while any workload is hot".  A
\* decision taken because of a hot workload does not remove replicas.
HotNeverScalesDown ==
    [][(SetReplicas \/ UpdateScale) /\ loop.hot => replicas' >= loop.cur]_vars
=============================================================================
