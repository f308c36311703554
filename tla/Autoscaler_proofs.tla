-------------------------- MODULE Autoscaler_proofs --------------------------
(***************************************************************************)
(* Proofs about Autoscaler, for any workloads, replica limits, capacity of *)
(* the log and number of requests.                                         *)
(*                                                                         *)
(* That the log tells the history needs what Scalings makes of a log that  *)
(* grows at one end and shrinks at the other: ScalingsAppend, ScalingsTail.*)
(***************************************************************************)
EXTENDS Autoscaler, WellFoundedInduction, TLAPS

Counts == 1 .. MaxManual

LoopState ==
    [pc : {"wait", "getReplicas", "keys", "getDeployment", "getScale", "decide", "write", "log"},
     cur : Counts, n : Counts, todo : SUBSET Workloads,
     allNominal : BOOLEAN, fresh : BOOLEAN, hot : BOOLEAN]

PostState == [pc : {"idle", "update"}, target : Counts, fresh : BOOLEAN]

Entry == LogEntry \cup {InfoEntry}

TypeInv ==
    /\ inCluster \in BOOLEAN
    /\ autoscalingEnabled \in BOOLEAN
    /\ replicas \in Counts
    /\ scalingLogs \in Seq(Entry)
    /\ heat \in [Workloads -> Heats]
    /\ keys \in SUBSET Workloads
    /\ loop \in LoopState
    /\ post \in PostState
    /\ posts \in Nat
    /\ toggles \in 0 .. MaxToggles
    /\ writes \in Seq(LogEntry)

\* The write that was late is the one of the tick that was under way: it has been
\* made, and no other tick begins.
LateInv ==
    /\ lateWrites \in 0 .. 1
    /\ autoscalingEnabled => lateWrites = 0
    /\ lateWrites = 1 => loop.pc \in {"wait", "log"}

\* As long as the version that GetScale returned is current, so is the count.
FreshInv ==
    inCluster /\ loop.fresh /\ loop.pc \in {"decide", "write"} => replicas = loop.cur

\* f is the end of m.
Suffix(f, m) ==
    /\ Len(f) <= Len(m)
    /\ \A i \in 1 .. Len(f) : f[i] = m[Len(m) - Len(f) + i]

\* The loop's writes, without the one that is still to be logged.
Made == IF loop.pc = "log" THEN Front(writes) ELSE writes

\* The log's scaling entries are the loop's last writes.  The ghost keeps one more than
\* the log can hold, and the write being logged is the last one.
HistoryInv ==
    /\ Suffix(Scalings(scalingLogs), Made)
    /\ Len(writes) <= LogCap + MaxToggles + 1
    /\ loop.pc = "log" =>
         writes # <<>> /\ writes[Len(writes)] = ScaleEntry(loop.cur, loop.n)

IndInv == TypeInv /\ LateInv /\ FreshInv /\ LogBounded /\ HistoryInv

-----------------------------------------------------------------------------

\* What the loop computes from a replica count is a replica count.
LEMMA CountsOK ==
    /\ InitReplicas \in Counts /\ MaxReplicas \in Counts
    /\ \A c \in Counts : AtMost(c + 1, MaxReplicas) \in Counts
    /\ \A c \in Counts : c > 1 => c - 1 \in Counts
    /\ \A c, n \in Counts : ScaleEntry(c, n) \in LogEntry
BY AutoscalerAssumption DEF Counts, AtMost, ScaleEntry, LogEntry

\* The loop between two ticks is a loop of the model.
LEMMA WaitingType == Waiting \in LoopState /\ Waiting.pc = "wait" /\ Waiting.fresh = FALSE
BY CountsOK DEF Waiting, LoopState

\* No POST in progress is a state of the handler.
LEMMA NoPostType == NoPost \in PostState
BY CountsOK, AutoscalerAssumption DEF NoPost, PostState, Counts

\* The last entries of a sequence.
LEMMA LastNType ==
    ASSUME NEW S, NEW s \in Seq(S), NEW n \in Nat
    PROVE  LastN(s, n) \in Seq(S)
<1>1. CASE Len(s) > n
  <2>1. Len(s) - n + 1 \in 1 .. Len(s) + 1 /\ Len(s) \in Nat
    BY <1>1
  <2>2. SubSeq(s, Len(s) - n + 1, Len(s)) \in Seq(S)
    BY <2>1
  <2> QED
    BY <1>1, <2>2 DEF LastN
<1> QED
  BY <1>1 DEF LastN

\* logScaling, and what it does to the length.
Logged(logs, e) == LET l == Append(logs, e) IN IF Len(l) > LogCap THEN Tail(l) ELSE l

\* Appending to the log, with its cap, gives a log that is no longer than the cap or than before.
LEMMA LoggedType ==
    ASSUME NEW logs \in Seq(Entry), NEW e \in Entry
    PROVE  /\ Logged(logs, e) \in Seq(Entry)
           /\ Len(Logged(logs, e)) <= LogCap \/ Len(Logged(logs, e)) <= Len(logs)
<1> DEFINE l == Append(logs, e)
<1>1. l \in Seq(Entry) /\ Len(l) = Len(logs) + 1 /\ l # <<>> /\ Len(logs) \in Nat
  OBVIOUS
<1> HIDE DEF l
<1>2. Tail(l) \in Seq(Entry) /\ Len(Tail(l)) = Len(logs)
  BY <1>1
<1>3. Logged(logs, e) = IF Len(l) > LogCap THEN Tail(l) ELSE l
  BY DEF Logged, l
<1> QED
  BY <1>1, <1>2, <1>3, AutoscalerAssumption

\* The ghost that keeps the writes.
LEMMA LoopWriteType ==
    ASSUME TypeInv, LoopWrote
    PROVE  writes' \in Seq(LogEntry)
<1>1. loop.cur \in Counts /\ loop.n \in Counts
  BY DEF TypeInv, LoopState
<1>2. Append(writes, ScaleEntry(loop.cur, loop.n)) \in Seq(LogEntry)
  BY <1>1, CountsOK DEF TypeInv
<1>3. LogCap + MaxToggles + 1 \in Nat
  BY AutoscalerAssumption
<1> QED
  BY <1>2, <1>3, LastNType DEF LoopWrote

\* The initial states have their types.
LEMMA TypeInvInit == Init => TypeInv
<1> SUFFICES ASSUME Init
             PROVE  TypeInv
  OBVIOUS
<1>1. <<>> \in Seq(Entry) /\ <<>> \in Seq(LogEntry)
  OBVIOUS
<1> QED
  BY <1>1, CountsOK, WaitingType, NoPostType, AutoscalerAssumption DEF Init, TypeInv, Heats

\* Every step keeps the types.
LEMMA TypeInvNext == TypeInv /\ [Next]_vars => TypeInv'
<1> SUFFICES ASSUME TypeInv, [Next]_vars
             PROVE  TypeInv'
  OBVIOUS
<1> USE CountsOK, AutoscalerAssumption
<1>a. loop \in LoopState /\ post \in PostState
  BY DEF TypeInv
<1>1. CASE Tick
  <2>1. [Waiting EXCEPT !.pc = IF inCluster THEN "keys" ELSE "getReplicas"] \in LoopState
    BY WaitingType DEF LoopState
  <2> QED
    BY <1>1, <2>1 DEF Tick, TypeInv, shared, env, ghosts
<1>2. CASE GetReplicas
  <2>1. loop' \in LoopState
    BY <1>a, <1>2 DEF GetReplicas, TypeInv, LoopState
  <2> QED
    BY <1>2, <2>1 DEF GetReplicas, TypeInv, shared, env, ghosts
<1>3. CASE ListKeys
  <2>1. loop' \in LoopState
    BY <1>a, <1>3, WaitingType DEF ListKeys, TypeInv, LoopState
  <2> QED
    BY <1>3, <2>1 DEF ListKeys, TypeInv, shared, env, ghosts
<1>4. CASE GetDeployment
  <2>1. loop' \in LoopState
    BY <1>a, <1>4, WaitingType DEF GetDeployment, LoopState
  <2> QED
    BY <1>4, <2>1 DEF GetDeployment, TypeInv, shared, env, ghosts
<1>5. CASE GetScale
  <2>1. loop' \in LoopState
    BY <1>a, <1>5, WaitingType DEF GetScale, TypeInv, LoopState
  <2> QED
    BY <1>5, <2>1 DEF GetScale, TypeInv, shared, env, ghosts
<1>6. ASSUME NEW k \in Workloads, Decide(k)
      PROVE  TypeInv'
  <2>1. loop.cur \in Counts
    BY <1>a DEF LoopState
  <2>2. AtMost(loop.cur + 1, MaxReplicas) \in Counts
    BY <2>1
  <2>3. [loop EXCEPT !.pc = "write", !.todo = {}, !.hot = TRUE,
                     !.n = AtMost(loop.cur + 1, MaxReplicas)] \in LoopState
    BY <1>a, <2>2 DEF LoopState
  <2>4. [loop EXCEPT !.todo = @ \ {k}, !.allNominal = @ /\ heat[k] = "nominal"] \in LoopState
    BY <1>a DEF LoopState
  <2>5. loop' \in LoopState
    BY <1>6, <2>3, <2>4 DEF Decide
  <2> QED
    BY <1>6, <2>5 DEF Decide, TypeInv, shared, env, ghosts
<1>7. CASE Conclude
  <2>1. loop.cur \in Counts
    BY <1>a DEF LoopState
  <2>2. (IF loop.allNominal /\ loop.cur > 1 THEN loop.cur - 1 ELSE loop.cur) \in Counts
    BY <2>1
  <2>3. loop' \in LoopState
    BY <1>a, <1>7, <2>2 DEF Conclude, LoopState
  <2> QED
    BY <1>7, <2>3 DEF Conclude, TypeInv, shared, env, ghosts
<1>8. CASE KeepReplicas \/ UpdateScaleFails
  BY <1>8, WaitingType DEF KeepReplicas, UpdateScaleFails, TypeInv, shared, env, ghosts
<1>9. CASE SetReplicas \/ UpdateScale
  <2>1. loop' \in LoopState /\ replicas' \in Counts
    BY <1>a, <1>9 DEF SetReplicas, UpdateScale, LoopState
  <2>2. post' \in PostState
    BY <1>a, <1>9 DEF SetReplicas, UpdateScale, PostState
  <2>3. writes' \in Seq(LogEntry)
    BY <1>9, LoopWriteType DEF SetReplicas, UpdateScale
  <2> QED
    BY <1>9, <2>1, <2>2, <2>3 DEF SetReplicas, UpdateScale, TypeInv, env
<1>10. CASE LogScaling
  <2>1. ScaleEntry(loop.cur, loop.n) \in Entry
    BY <1>a DEF LoopState, Entry
  <2>2. scalingLogs' \in Seq(Entry)
    BY <1>10, <2>1, LoggedType DEF LogScaling, Logged, TypeInv
  <2> QED
    BY <1>10, <2>2, WaitingType DEF LogScaling, TypeInv, env, ghosts
<1>11. ASSUME NEW e \in BOOLEAN, SetAutoscaling(e)
       PROVE  TypeInv'
  <2>1. scalingLogs' \in Seq(Entry)
    BY <1>11 DEF SetAutoscaling, TypeInv, Entry
  <2> QED
    BY <1>11, <2>1 DEF SetAutoscaling, TypeInv, env
<1>12. ASSUME NEW n \in 1 .. MaxManual, PostScale(n) \/ PostGetScale(n)
       PROVE  TypeInv'
  <2>1. [pc |-> "update", target |-> n, fresh |-> TRUE] \in PostState
    BY DEF PostState, Counts
  <2>2. CASE PostScale(n)
    BY <2>2 DEF PostScale, TypeInv, Counts, env, ghosts
  <2>3. CASE PostGetScale(n)
    BY <2>1, <2>3 DEF PostGetScale, TypeInv, shared, env, ghosts
  <2> QED
    BY <1>12, <2>2, <2>3
<1>13. CASE PostUpdateScale \/ PostUpdateFails
  <2>1. loop' \in LoopState
    BY <1>a, <1>13 DEF PostUpdateScale, PostUpdateFails, LoopState
  <2>2. replicas' \in Counts
    BY <1>a, <1>13 DEF PostUpdateScale, PostUpdateFails, PostState, TypeInv, shared
  <2> QED
    BY <1>13, <2>1, <2>2, NoPostType
       DEF PostUpdateScale, PostUpdateFails, TypeInv, shared, env, ghosts
<1>14. ASSUME NEW k \in Workloads, (\E h \in Heats : HeatChanges(k, h)) \/ KeyAppears(k)
       PROVE  TypeInv'
  BY <1>14 DEF HeatChanges, KeyAppears, TypeInv, shared, ghosts
<1>15. CASE Relabel
  BY <1>15 DEF Relabel, TypeInv, shared, ghosts
<1>16. CASE UNCHANGED vars
  BY <1>16 DEF vars, TypeInv, shared, env, ghosts
<1> QED
  BY <1>1, <1>2, <1>3, <1>4, <1>5, <1>6, <1>7, <1>8, <1>9, <1>10, <1>11, <1>12, <1>13, <1>14,
     <1>15, <1>16 DEF Next, LoopStep, PostStep, EnvStep

\* One late write at most: the loop's position tells whether it is still to come.
LEMMA LateInvNext == TypeInv /\ LateInv /\ [Next]_vars => LateInv'
<1> SUFFICES ASSUME TypeInv, LateInv, [Next]_vars
             PROVE  LateInv'
  OBVIOUS
<1>a. loop \in LoopState
  BY DEF TypeInv
<1> USE DEF LateInv
<1>1. CASE Tick
  BY <1>1 DEF Tick, shared, ghosts
<1>2. ASSUME loop.pc \notin {"wait", "log"}, UNCHANGED <<autoscalingEnabled, lateWrites>>
      PROVE  LateInv'
  BY <1>2
<1>3. CASE GetReplicas \/ ListKeys \/ GetDeployment \/ GetScale \/ Conclude \/ KeepReplicas
           \/ UpdateScaleFails \/ (\E k \in Workloads : Decide(k))
  BY <1>2, <1>3 DEF GetReplicas, ListKeys, GetDeployment, GetScale, Conclude, KeepReplicas,
                    UpdateScaleFails, Decide, shared, ghosts
<1>4. CASE SetReplicas \/ UpdateScale
  <2>1. loop.pc = "write" /\ LoopWrote /\ autoscalingEnabled' = autoscalingEnabled
    BY <1>4 DEF SetReplicas, UpdateScale
  <2>2. loop'.pc = "log"
    BY <1>a, <1>4 DEF SetReplicas, UpdateScale, LoopState
  <2> QED
    BY <2>1, <2>2 DEF LoopWrote
<1>5. CASE LogScaling
  BY <1>5, WaitingType DEF LogScaling, ghosts
<1>6. ASSUME NEW e \in BOOLEAN, SetAutoscaling(e)
      PROVE  LateInv'
  BY <1>6 DEF SetAutoscaling
<1>7. ASSUME loop'.pc = loop.pc, UNCHANGED <<autoscalingEnabled, lateWrites>>
      PROVE  LateInv'
  BY <1>7
<1>8. CASE PostStep
  BY <1>a, <1>7, <1>8 DEF PostStep, PostScale, PostGetScale, PostUpdateScale, PostUpdateFails,
                          LoopState, shared, ghosts
<1>9. CASE EnvStep \/ UNCHANGED vars
  BY <1>7, <1>9 DEF EnvStep, HeatChanges, KeyAppears, Relabel, vars, shared, ghosts
<1> QED
  BY <1>1, <1>3, <1>4, <1>5, <1>6, <1>8, <1>9 DEF Next, LoopStep

\* Whoever else changes the count makes the version that was read stale.
LEMMA FreshInvNext == TypeInv /\ FreshInv /\ [Next]_vars => FreshInv'
<1> SUFFICES ASSUME TypeInv, FreshInv, [Next]_vars
             PROVE  FreshInv'
  OBVIOUS
<1>a. loop \in LoopState
  BY DEF TypeInv
<1> USE DEF FreshInv
<1>1. loop'.pc \notin {"decide", "write"} => FreshInv'
  OBVIOUS
<1>2. CASE Tick
  BY <1>1, <1>2, WaitingType DEF Tick, LoopState
<1>3. CASE GetReplicas \/ GetDeployment \/ KeepReplicas \/ SetReplicas \/ UpdateScale
           \/ UpdateScaleFails \/ LogScaling
  <2>1. CASE loop' = Waiting
    BY <1>1, <2>1, WaitingType
  <2>2. CASE loop' # Waiting
    <3>1. loop'.pc \in {"keys", "getScale", "log"}
      BY <1>a, <1>3, <2>2 DEF GetReplicas, GetDeployment, KeepReplicas, SetReplicas,
                              UpdateScale, UpdateScaleFails, LogScaling, LoopState
    <3> QED
      BY <1>1, <3>1
  <2> QED
    BY <2>1, <2>2
<1>4. CASE ListKeys
  <2>1. CASE inCluster
    <3>1. loop'.pc \in {"wait", "getDeployment"}
      BY <1>a, <1>4, <2>1, WaitingType DEF ListKeys, LoopState
    <3> QED
      BY <1>1, <3>1
  <2>2. CASE ~inCluster
    BY <1>4, <2>2 DEF ListKeys
  <2> QED
    BY <2>1, <2>2
<1>5. CASE GetScale
  <2>1. CASE loop' = [loop EXCEPT !.pc = "decide", !.cur = replicas, !.fresh = TRUE]
    <3>1. loop'.cur = replicas /\ replicas' = replicas
      BY <1>a, <1>5, <2>1 DEF GetScale, LoopState, shared
    <3> QED
      BY <3>1
  <2>2. CASE loop' = Waiting
    BY <1>1, <2>2, WaitingType
  <2> QED
    BY <1>5, <2>1, <2>2 DEF GetScale
<1>6. ASSUME NEW k \in Workloads, Decide(k)
      PROVE  FreshInv'
  <2>1. loop.pc = "decide" /\ UNCHANGED <<inCluster, replicas>>
    BY <1>6 DEF Decide, shared
  <2>2. loop'.cur = loop.cur /\ loop'.fresh = loop.fresh
    BY <1>a, <1>6 DEF Decide, LoopState
  <2> QED
    BY <2>1, <2>2
<1>7. CASE Conclude
  BY <1>a, <1>7 DEF Conclude, LoopState, shared
<1>8. ASSUME NEW e \in BOOLEAN, SetAutoscaling(e)
      PROVE  FreshInv'
  BY <1>8 DEF SetAutoscaling
<1>9. CASE PostStep
  <2>1. CASE \E n \in 1 .. MaxManual : PostScale(n)
    BY <2>1 DEF PostScale
  <2>2. CASE (\E n \in 1 .. MaxManual : PostGetScale(n)) \/ PostUpdateFails
    BY <2>2 DEF PostGetScale, PostUpdateFails, shared
  <2>3. CASE PostUpdateScale
    <3>1. ~loop'.fresh
      BY <1>a, <2>3 DEF PostUpdateScale, LoopState
    <3> QED
      BY <3>1
  <2> QED
    BY <1>9, <2>1, <2>2, <2>3 DEF PostStep
<1>10. CASE EnvStep \/ UNCHANGED vars
  BY <1>10 DEF EnvStep, HeatChanges, KeyAppears, Relabel, vars, shared
<1> QED
  BY <1>2, <1>3, <1>4, <1>5, <1>6, <1>7, <1>8, <1>9, <1>10 DEF Next, LoopStep

\* Every step keeps the log's bound: an entry of the loop is capped, one of a toggle is counted.
LEMMA LogBoundedNext == TypeInv /\ LogBounded /\ [Next]_vars => LogBounded'
<1> SUFFICES ASSUME TypeInv, LogBounded, [Next]_vars
             PROVE  LogBounded'
  OBVIOUS
<1>a. /\ scalingLogs \in Seq(Entry) /\ Len(scalingLogs) \in Nat /\ loop \in LoopState
      /\ toggles \in Nat /\ LogCap \in Nat
  BY AutoscalerAssumption DEF TypeInv
<1> USE DEF LogBounded
<1>1. CASE LogScaling
  <2>1. ScaleEntry(loop.cur, loop.n) \in Entry
    BY <1>a, CountsOK DEF LoopState, Entry
  <2>2. scalingLogs' = Logged(scalingLogs, ScaleEntry(loop.cur, loop.n)) /\ toggles' = toggles
    BY <1>1 DEF LogScaling, Logged
  <2>3. scalingLogs' \in Seq(Entry)
    BY <1>a, <2>1, <2>2, LoggedType
  <2>4. Len(scalingLogs') <= LogCap \/ Len(scalingLogs') <= Len(scalingLogs)
    BY <1>a, <2>1, <2>2, LoggedType
  <2> QED
    BY <1>a, <2>2, <2>3, <2>4
<1>2. ASSUME NEW e \in BOOLEAN, SetAutoscaling(e)
      PROVE  LogBounded'
  BY <1>a, <1>2 DEF SetAutoscaling
<1>3. UNCHANGED <<scalingLogs, toggles>> => LogBounded'
  OBVIOUS
<1>4. CASE LoopStep /\ ~LogScaling
  BY <1>3, <1>4 DEF LoopStep, Tick, GetReplicas, ListKeys, GetDeployment, GetScale, Decide,
                    Conclude, KeepReplicas, SetReplicas, UpdateScale, UpdateScaleFails, shared
<1>5. CASE PostStep \/ EnvStep \/ UNCHANGED vars
  BY <1>3, <1>5 DEF PostStep, PostScale, PostGetScale, PostUpdateScale, PostUpdateFails, EnvStep,
                    HeatChanges, KeyAppears, Relabel, vars, shared
<1> QED
  BY <1>1, <1>2, <1>4, <1>5 DEF Next

-----------------------------------------------------------------------------
(* The scaling entries of a log. *)

\* A set of naturals has a least element.
LEMMA NatMin ==
    ASSUME NEW T, T \subseteq Nat, T # {}
    PROVE  \E n \in T : \A m \in T : n <= m
<1> DEFINE R == OpToRel(<, Nat)
<1>1. IsWellFoundedOn(R, Nat)
  BY NatLessThanWellFounded
<1> HIDE DEF R
<1>2. PICK n \in T : \A m \in T : <<m, n>> \notin R
  BY <1>1, WFMin
<1>3. \A m \in T : ~(m < n)
  BY <1>2 DEF OpToRel, R
<1> QED
  BY <1>3

\* Induction over the naturals, with the set of those that have the property in the
\* place of the property.
LEMMA SetInduction ==
    ASSUME NEW G, 0 \in G, \A n \in Nat : n \in G => n + 1 \in G
    PROVE  \A n \in Nat : n \in G
<1> SUFFICES ASSUME NEW b \in Nat, b \notin G
             PROVE  FALSE
  OBVIOUS
<1> DEFINE Bad == {n \in Nat : n \notin G}
<1>1. Bad \subseteq Nat /\ Bad # {}
  OBVIOUS
<1>2. PICK n \in Bad : \A m \in Bad : n <= m
  <2> HIDE DEF Bad
  <2> QED
    BY <1>1, NatMin
<1>3. n # 0 /\ n \in Nat /\ n \notin G
  BY <1>2
<1>4. n - 1 \in Nat /\ n - 1 \notin G /\ (n - 1) + 1 = n
  <2>1. n - 1 \in Nat /\ (n - 1) + 1 = n
    BY <1>3
  <2> QED
    BY <1>3, <2>1
<1>5. n <= n - 1
  BY <1>2, <1>4
<1> QED
  BY <1>3, <1>5

\* g collects the scaling entries of the first n entries of s.
IsScalings(g, s, n) ==
    g = [i \in 0 .. n |->
           IF i = 0 THEN <<>>
           ELSE IF s[i].Action = "INFO" THEN g[i - 1] ELSE Append(g[i - 1], s[i])]

\* One entry more.
Step(f, e) == IF e.Action = "INFO" THEN f ELSE Append(f, e)

\* What g says at each position.
LEMMA ScalingsAt ==
    ASSUME NEW g, NEW s, NEW n \in Nat, IsScalings(g, s, n)
    PROVE  g[0] = <<>> /\ \A i \in 0 .. n : i + 1 <= n => g[i + 1] = Step(g[i], s[i + 1])
<1>1. g[0] = <<>>
  <2>1. 0 \in 0 .. n
    OBVIOUS
  <2> QED
    BY <2>1 DEF IsScalings
<1>2. ASSUME NEW i \in 0 .. n, i + 1 <= n
      PROVE  g[i + 1] = Step(g[i], s[i + 1])
  <2> DEFINE k == i + 1
  <2>1. k \in 0 .. n /\ k # 0 /\ k - 1 = i
    BY <1>2
  <2> HIDE DEF k
  <2>2. g[k] = IF s[k].Action = "INFO" THEN g[k - 1] ELSE Append(g[k - 1], s[k])
    BY <2>1 DEF IsScalings
  <2> QED
    BY <2>1, <2>2 DEF k, Step
<1> QED
  BY <1>1, <1>2

\* Such a function exists for every length.
LEMMA ScalingsExist ==
    ASSUME NEW s
    PROVE  \A n \in Nat : \E g : IsScalings(g, s, n)
<1> DEFINE G == {n \in Nat : \E g : IsScalings(g, s, n)}
<1>1. 0 \in G
  <2> DEFINE g == [i \in 0 .. 0 |-> <<>>]
  <2>1. IsScalings(g, s, 0)
    BY DEF IsScalings
  <2> QED
    BY <2>1
<1>2. ASSUME NEW n \in Nat, n \in G
      PROVE  n + 1 \in G
  <2>1. PICK g : IsScalings(g, s, n)
    BY <1>2
  <2> DEFINE At(f, i) == IF i = 0 THEN <<>>
                         ELSE IF s[i].Action = "INFO" THEN f[i - 1] ELSE Append(f[i - 1], s[i])
             h == [i \in 0 .. n + 1 |-> IF i = n + 1 THEN At(g, i) ELSE g[i]]
  <2>2. \A i \in 0 .. n : h[i] = g[i] /\ i \in 0 .. n + 1 /\ i # n + 1
    OBVIOUS
  <2>3. \A i \in 0 .. n : g[i] = At(g, i)
    BY <2>1 DEF IsScalings
  <2>4. ASSUME NEW i \in 0 .. n + 1
        PROVE  h[i] = At(h, i)
    <3>1. CASE i = n + 1
      <4>1. n \in 0 .. n /\ i # 0 /\ i - 1 = n
        BY <3>1
      <4>2. h[i] = At(g, i) /\ h[n] = g[n]
        BY <2>2, <3>1, <4>1
      <4> HIDE DEF h
      <4> QED
        BY <4>1, <4>2
    <3>2. CASE i # n + 1
      <4>1. i \in 0 .. n /\ (i # 0 => i - 1 \in 0 .. n)
        BY <3>2
      <4>2. h[i] = g[i] /\ (i # 0 => h[i - 1] = g[i - 1])
        BY <2>2, <4>1
      <4> HIDE DEF h
      <4> QED
        BY <2>3, <4>1, <4>2
    <3> QED
      BY <3>1, <3>2
  <2>5. IsScalings(h, s, n + 1)
    <3>1. h = [i \in 0 .. n + 1 |-> h[i]]
      OBVIOUS
    <3> HIDE DEF h
    <3> QED
      BY <2>4, <3>1 DEF IsScalings
  <2> QED
    BY <2>5
<1>3. \A n \in Nat : n \in G
  <2> HIDE DEF G
  <2> QED
    BY <1>1, <1>2, SetInduction
<1> QED
  BY <1>3

\* The function of a log, and its value on all entries.
LEMMA ScalingsValue ==
    ASSUME NEW S, NEW s \in Seq(S)
    PROVE  \E g : IsScalings(g, s, Len(s)) /\ Scalings(s) = g[Len(s)]
<1> DEFINE g == CHOOSE f : IsScalings(f, s, Len(s))
<1>1. Len(s) \in Nat
  OBVIOUS
<1>2. IsScalings(g, s, Len(s))
  BY <1>1, ScalingsExist
<1>3. Scalings(s) = g[Len(s)]
  BY DEF Scalings, IsScalings
<1> QED
  BY <1>2, <1>3

\* The scaling entries of a prefix are scaling entries, no more than the prefix has.
LEMMA ScalingsPrefixType ==
    ASSUME NEW s \in Seq(Entry), NEW n \in Nat, n <= Len(s), NEW g, IsScalings(g, s, n)
    PROVE  \A i \in 0 .. n : g[i] \in Seq(Entry) /\ Len(g[i]) <= i
<1> DEFINE G == {i \in Nat : i <= n => g[i] \in Seq(Entry) /\ Len(g[i]) <= i}
<1>1. 0 \in G
  <2>1. g[0] = <<>> /\ <<>> \in Seq(Entry) /\ Len(<<>>) <= 0
    BY ScalingsAt
  <2> QED
    BY <2>1
<1>2. ASSUME NEW i \in Nat, i \in G
      PROVE  i + 1 \in G
  <2> SUFFICES ASSUME i + 1 <= n
               PROVE  g[i + 1] \in Seq(Entry) /\ Len(g[i + 1]) <= i + 1
    OBVIOUS
  <2>1. i \in 0 .. n /\ i + 1 \in 1 .. Len(s)
    OBVIOUS
  <2>2. g[i] \in Seq(Entry) /\ Len(g[i]) <= i
    BY <1>2, <2>1
  <2>3. g[i + 1] = Step(g[i], s[i + 1])
    BY <2>1, ScalingsAt
  <2> DEFINE f == g[i]
             e == s[i + 1]
             k == g[i + 1]
  <2>4. e \in Entry
    BY <2>1
  <2>5. f \in Seq(Entry) /\ Len(f) <= i /\ (k = f \/ k = Append(f, e))
    BY <2>2, <2>3 DEF Step
  <2> HIDE DEF f, e, k
  <2>6. k \in Seq(Entry) /\ Len(k) <= i + 1
    BY <2>4, <2>5
  <2> QED
    BY <2>6 DEF k
<1>3. \A i \in Nat : i \in G
  <2> HIDE DEF G
  <2> QED
    BY <1>1, <1>2, SetInduction
<1> QED
  BY <1>3

\* The scaling entries of a log.
LEMMA ScalingsType ==
    ASSUME NEW s \in Seq(Entry)
    PROVE  Scalings(s) \in Seq(Entry) /\ Len(Scalings(s)) <= Len(s)
<1>1. PICK g : IsScalings(g, s, Len(s)) /\ Scalings(s) = g[Len(s)]
  BY ScalingsValue
<1>2. Len(s) \in Nat /\ Len(s) <= Len(s) /\ Len(s) \in 0 .. Len(s)
  OBVIOUS
<1>3. \A i \in 0 .. Len(s) : g[i] \in Seq(Entry) /\ Len(g[i]) <= i
  BY <1>1, <1>2, ScalingsPrefixType
<1> QED
  BY <1>1, <1>2, <1>3

\* An entry more in the log.
LEMMA ScalingsAppend ==
    ASSUME NEW s \in Seq(Entry), NEW e \in Entry
    PROVE  Scalings(Append(s, e)) = Step(Scalings(s), e)
<1> DEFINE t == Append(s, e)
           n == Len(s)
<1>1. /\ t \in Seq(Entry) /\ n \in Nat /\ Len(t) = n + 1 /\ t[n + 1] = e
      /\ \A i \in 1 .. n : t[i] = s[i]
  OBVIOUS
<1> HIDE DEF t
<1>2. PICK g : IsScalings(g, s, n) /\ Scalings(s) = g[n]
  BY ScalingsValue
<1>3. PICK h : IsScalings(h, t, n + 1) /\ Scalings(t) = h[n + 1]
  BY <1>1, ScalingsValue
<1> HIDE DEF n
<1> DEFINE G == {i \in Nat : i <= n => h[i] = g[i]}
<1>4. 0 \in G
  BY <1>1, <1>2, <1>3, ScalingsAt
<1>5. ASSUME NEW i \in Nat, i \in G
      PROVE  i + 1 \in G
  <2> SUFFICES ASSUME i + 1 <= n
               PROVE  h[i + 1] = g[i + 1]
    OBVIOUS
  <2>1. i \in 0 .. n /\ i \in 0 .. n + 1 /\ i + 1 <= n + 1 /\ i + 1 \in 1 .. n /\ n + 1 \in Nat
    BY <1>1
  <2>2. g[i + 1] = Step(g[i], s[i + 1])
    BY <1>1, <1>2, <2>1, ScalingsAt
  <2>3. h[i + 1] = Step(h[i], t[i + 1])
    BY <1>3, <2>1, ScalingsAt
  <2>4. h[i] = g[i] /\ t[i + 1] = s[i + 1]
    BY <1>1, <1>5, <2>1
  <2> QED
    BY <2>2, <2>3, <2>4
<1>6. n \in G
  <2> HIDE DEF G
  <2> QED
    BY <1>1, <1>4, <1>5, SetInduction
<1>7. h[n] = g[n]
  BY <1>1, <1>6
<1>8. h[n + 1] = Step(h[n], t[n + 1])
  <2>1. n \in 0 .. n + 1 /\ n + 1 <= n + 1 /\ n + 1 \in Nat
    BY <1>1
  <2> QED
    BY <1>3, <2>1, ScalingsAt
<1> QED
  BY <1>1, <1>2, <1>3, <1>7, <1>8 DEF t

\* The oldest entry dropped from the log.
LEMMA ScalingsTail ==
    ASSUME NEW s \in Seq(Entry), s # <<>>
    PROVE  /\ s[1].Action = "INFO" => Scalings(Tail(s)) = Scalings(s)
           /\ s[1].Action # "INFO" => /\ Scalings(Tail(s)) = Tail(Scalings(s))
                                      /\ Scalings(s) # <<>>
<1> DEFINE t == Tail(s)
           n == Len(t)
           x == s[1]
           Info == x.Action = "INFO"
<1>1. /\ t \in Seq(Entry) /\ n \in Nat /\ Len(s) = n + 1 /\ x \in Entry
      /\ \A i \in 1 .. n : t[i] = s[i + 1]
  OBVIOUS
<1> HIDE DEF t, x
<1>2. PICK g : IsScalings(g, s, n + 1) /\ Scalings(s) = g[n + 1]
  BY <1>1, ScalingsValue
<1>3. PICK h : IsScalings(h, t, n) /\ Scalings(t) = h[n]
  BY <1>1, ScalingsValue
<1>4. \A i \in 0 .. n : h[i] \in Seq(Entry)
  <2>1. n <= Len(t)
    BY <1>1
  <2> QED
    BY <1>1, <1>3, <2>1, ScalingsPrefixType
<1> HIDE DEF n
<1> DEFINE Front1(f) == IF Info THEN f ELSE <<x>> \o f
           G == {i \in Nat : i <= n => g[i + 1] = Front1(h[i])}
<1>5. 0 \in G
  <2>1. g[0] = <<>> /\ h[0] = <<>>
    BY <1>1, <1>2, <1>3, ScalingsAt
  <2>2. g[1] = Step(g[0], s[1])
    <3>1. 0 \in 0 .. n + 1 /\ 0 + 1 <= n + 1 /\ n + 1 \in Nat /\ 0 + 1 = 1
      BY <1>1
    <3>2. g[0 + 1] = Step(g[0], s[0 + 1])
      BY <1>2, <3>1, ScalingsAt
    <3> QED
      BY <3>1, <3>2
  <2>3. Append(<<>>, x) = <<x>> \o <<>>
    OBVIOUS
  <2>4. g[1] = Front1(h[0])
    BY <2>1, <2>2, <2>3 DEF Step, x
  <2>5. 0 + 1 = 1
    OBVIOUS
  <2> HIDE DEF Front1
  <2> QED
    BY <2>4, <2>5
<1>6. ASSUME NEW i \in Nat, i \in G
      PROVE  i + 1 \in G
  <2> SUFFICES ASSUME i + 1 <= n
               PROVE  g[(i + 1) + 1] = Front1(h[i + 1])
    OBVIOUS
  <2>1. /\ i \in 0 .. n /\ i + 1 \in 0 .. n + 1 /\ (i + 1) + 1 <= n + 1 /\ i + 1 \in 1 .. n
        /\ n + 1 \in Nat
    BY <1>1
  <2>2. g[(i + 1) + 1] = Step(g[i + 1], s[(i + 1) + 1])
    BY <1>2, <2>1, ScalingsAt
  <2>3. h[i + 1] = Step(h[i], t[i + 1])
    BY <1>1, <1>3, <2>1, ScalingsAt
  <2>4. g[i + 1] = Front1(h[i]) /\ t[i + 1] = s[(i + 1) + 1]
    BY <1>1, <1>6, <2>1
  <2> DEFINE f == h[i]
             e == t[i + 1]
  <2>5. f \in Seq(Entry) /\ e \in Entry
    BY <1>1, <1>4, <2>1 DEF n
  <2> HIDE DEF f, e
  <2>6. Append(<<x>> \o f, e) = <<x>> \o Append(f, e)
    BY <1>1, <2>5
  <2>7. Step(Front1(f), e) = Front1(Step(f, e))
    BY <2>6 DEF Step
  <2> QED
    BY <2>2, <2>3, <2>4, <2>7 DEF f, e
<1>7. n \in G
  <2> HIDE DEF G
  <2> QED
    BY <1>1, <1>5, <1>6, SetInduction
<1>8. g[n + 1] = Front1(h[n])
  BY <1>1, <1>7
<1>9. h[n] \in Seq(Entry)
  <2>1. n \in 0 .. n
    BY <1>1
  <2> QED
    BY <1>4, <2>1
<1>10. Tail(<<x>> \o h[n]) = h[n] /\ <<x>> \o h[n] # <<>>
  <2> DEFINE f == h[n]
  <2> HIDE DEF f
  <2>1. f \in Seq(Entry)
    BY <1>9 DEF f
  <2>2. Tail(<<x>> \o f) = f /\ <<x>> \o f # <<>>
    BY <1>1, <2>1
  <2> QED
    BY <2>2 DEF f
<1> QED
  BY <1>2, <1>3, <1>8, <1>10 DEF t, x

-----------------------------------------------------------------------------
(* The end of a sequence. *)

\* LastN gives the end of a sequence.
LEMMA SuffixIsLastN ==
    ASSUME NEW S, NEW f \in Seq(S), NEW m \in Seq(S), Suffix(f, m)
    PROVE  f = LastN(m, Len(f))
<1> DEFINE k == Len(f)
           n == Len(m)
           r == LastN(m, k)
<1>1. k \in Nat /\ n \in Nat /\ k <= n
  BY DEF Suffix
<1>2. r \in Seq(S) /\ Len(r) = k /\ \A i \in 1 .. k : r[i] = m[n - k + i]
  <2>1. CASE n > k
    <3>1. r = SubSeq(m, n - k + 1, n)
      BY <2>1 DEF LastN
    <3>2. n - k + 1 \in 1 .. n + 1 /\ n \in 0 .. n
      BY <1>1, <2>1
    <3> HIDE DEF r
    <3>3. r \in Seq(S) /\ Len(r) = k
      BY <1>1, <2>1, <3>1, <3>2
    <3>4. \A i \in 1 .. k : r[i] = m[n - k + i]
      BY <1>1, <2>1, <3>1, <3>2
    <3> QED
      BY <3>3, <3>4
  <2>2. CASE n = k
    BY <1>1, <2>2 DEF LastN
  <2> QED
    BY <1>1, <2>1, <2>2
<1>3. \A i \in 1 .. k : f[i] = m[n - k + i]
  BY DEF Suffix
<1> HIDE DEF r
<1>4. Len(f) = Len(r) /\ \A i \in 1 .. Len(f) : f[i] = r[i]
  BY <1>2, <1>3
<1>5. f = r
  BY <1>2, <1>4
<1> QED
  BY <1>5 DEF r

\* The same entry appended to both.
LEMMA SuffixAppend ==
    ASSUME NEW S, NEW f \in Seq(S), NEW m \in Seq(S), NEW e \in S, Suffix(f, m)
    PROVE  Suffix(Append(f, e), Append(m, e))
BY DEF Suffix

\* Without its first entry it is still an end.
LEMMA SuffixTail ==
    ASSUME NEW S, NEW f \in Seq(S), NEW m \in Seq(S), f # <<>>, Suffix(f, m)
    PROVE  Suffix(Tail(f), m)
BY DEF Suffix

\* An end that is not the whole is an end of the rest.
LEMMA SuffixOfTail ==
    ASSUME NEW S, NEW f \in Seq(S), NEW m \in Seq(S), Len(f) < Len(m), Suffix(f, m)
    PROVE  Suffix(f, Tail(m))
BY DEF Suffix

-----------------------------------------------------------------------------
(* The log is the history. *)

\* An entry about the loop is not one about the switch.
LEMMA EntryKinds ==
    InfoEntry.Action = "INFO" /\ \A e \in LogEntry : e.Action # "INFO"
BY DEF InfoEntry, LogEntry

\* A write by the loop: all but the new entry is what there was, or what there was
\* without its oldest entry.
LEMMA LoopWroteKeeps ==
    ASSUME NEW w \in Seq(LogEntry), NEW e \in LogEntry, NEW cap \in Nat \ {0}, Len(w) <= cap,
           NEW v, v = LastN(Append(w, e), cap)
    PROVE  /\ v \in Seq(LogEntry) /\ v # <<>> /\ v[Len(v)] = e /\ Len(v) <= cap
           /\ Len(w) < cap => Front(v) = w
           /\ Len(w) = cap => Front(v) = Tail(w)
<1> DEFINE a == Append(w, e)
           n == Len(w)
<1>1. /\ a \in Seq(LogEntry) /\ n \in Nat /\ Len(a) = n + 1 /\ a[n + 1] = e
      /\ \A i \in 1 .. n : a[i] = w[i]
  OBVIOUS
<1> HIDE DEF a
<1>2. CASE n < cap
  <2>1. v = a
    BY <1>1, <1>2 DEF LastN, a
  <2>2. v \in Seq(LogEntry) /\ v # <<>> /\ v[Len(v)] = e /\ Len(v) <= cap
    BY <1>1, <1>2, <2>1
  <2>3. Front(v) = SubSeq(a, 1, n)
    BY <1>1, <2>1 DEF Front
  <2>4. SubSeq(a, 1, n) = w
    BY <1>1
  <2>5. Front(v) = w
    BY <2>3, <2>4
  <2>6. n # cap
    BY <1>1, <1>2
  <2> HIDE DEF n
  <2> QED
    BY <2>2, <2>5, <2>6 DEF n
<1>3. CASE n = cap
  <2>1. v = SubSeq(a, 2, n + 1)
    <3>1. n + 1 > cap /\ (n + 1) - cap + 1 = 2
      BY <1>1, <1>3
    <3> QED
      BY <1>1, <3>1 DEF LastN, a
  <2>2. v \in Seq(LogEntry) /\ Len(v) = n /\ \A i \in 1 .. n : v[i] = a[i + 1]
    BY <1>1, <2>1
  <2>3. v # <<>> /\ v[Len(v)] = e /\ Len(v) <= cap
    BY <1>1, <1>3, <2>2
  <2>4. Front(v) = SubSeq(v, 1, n - 1)
    BY <2>2 DEF Front
  <2> DEFINE f == SubSeq(v, 1, n - 1)
             t == Tail(w)
  <2>5. f \in Seq(LogEntry) /\ Len(f) = n - 1 /\ \A i \in 1 .. n - 1 : f[i] = v[i]
    BY <1>1, <1>3, <2>2
  <2>6. t \in Seq(LogEntry) /\ Len(t) = n - 1 /\ \A i \in 1 .. n - 1 : t[i] = w[i + 1]
    BY <1>1, <1>3
  <2>7. \A i \in 1 .. n - 1 : v[i] = w[i + 1]
    BY <1>1, <1>3, <2>2
  <2> HIDE DEF f, t
  <2>8. f = t
    BY <1>1, <1>3, <2>5, <2>6, <2>7
  <2> QED
    BY <1>1, <1>3, <2>2, <2>3, <2>4, <2>8 DEF f, t
<1> QED
  BY <1>1, <1>2, <1>3

\* Every step keeps the log true.
LEMMA HistoryInvNext ==
    TypeInv /\ TypeInv' /\ LogBounded /\ HistoryInv /\ [Next]_vars => HistoryInv'
<1> SUFFICES ASSUME TypeInv, TypeInv', LogBounded, HistoryInv, [Next]_vars
             PROVE  HistoryInv'
  OBVIOUS
<1> DEFINE cap == LogCap + MaxToggles + 1
           e == ScaleEntry(loop.cur, loop.n)
           f == Scalings(scalingLogs)
<1>a. /\ scalingLogs \in Seq(Entry) /\ writes \in Seq(LogEntry) /\ loop \in LoopState
      /\ toggles \in 0 .. MaxToggles /\ LogCap \in Nat /\ MaxToggles \in Nat
      /\ cap \in Nat \ {0} /\ cap = LogCap + MaxToggles + 1 /\ Len(writes) <= cap
  BY AutoscalerAssumption DEF TypeInv, HistoryInv
<1>b. e \in LogEntry /\ e \in Entry /\ InfoEntry \in Entry
  BY <1>a, CountsOK DEF LoopState, Entry
<1>c. f \in Seq(Entry) /\ Len(f) <= Len(scalingLogs) /\ Suffix(f, Made)
  BY <1>a, ScalingsType DEF HistoryInv
<1>d. writes \in Seq(Entry)
  BY <1>a DEF Entry
<1>e. Len(f) < cap
  <2> HIDE DEF f
  <2>1. Len(scalingLogs) <= LogCap + toggles /\ Len(f) \in Nat /\ Len(scalingLogs) \in Nat
    BY <1>a, <1>c DEF LogBounded
  <2> QED
    BY <1>a, <1>c, <2>1
<1>1. ASSUME UNCHANGED <<scalingLogs, writes>>, loop'.pc = "log" <=> loop.pc = "log",
             loop.pc = "log" => loop'.cur = loop.cur /\ loop'.n = loop.n
      PROVE  HistoryInv'
  <2>1. Made' = Made /\ Scalings(scalingLogs)' = Scalings(scalingLogs)
    BY <1>1 DEF Made, Scalings
  <2> QED
    BY <1>1, <2>1 DEF HistoryInv, Suffix, ScaleEntry
<1>2. CASE SetReplicas \/ UpdateScale
  <2>1. /\ loop.pc = "write" /\ scalingLogs' = scalingLogs
        /\ writes' = LastN(Append(writes, e), cap)
    BY <1>2 DEF SetReplicas, UpdateScale, LoopWrote
  <2>2. loop'.pc = "log" /\ loop'.cur = loop.cur /\ loop'.n = loop.n
    BY <1>a, <1>2 DEF SetReplicas, UpdateScale, LoopState
  <2> HIDE DEF e, cap
  <2>3. /\ writes' # <<>> /\ writes'[Len(writes')] = e /\ Len(writes') <= cap
        /\ Len(writes) < cap => Front(writes') = writes
        /\ Len(writes) = cap => Front(writes') = Tail(writes)
    <3>1. PICK v : v = writes'
      OBVIOUS
    <3>2. PICK w : w = writes
      OBVIOUS
    <3>3. v = LastN(Append(w, e), cap) /\ w \in Seq(LogEntry) /\ Len(w) <= cap
      BY <1>a, <2>1, <3>1, <3>2
    <3>4. /\ v # <<>> /\ v[Len(v)] = e /\ Len(v) <= cap
          /\ Len(w) < cap => Front(v) = w
          /\ Len(w) = cap => Front(v) = Tail(w)
      <4>1. e \in LogEntry /\ cap \in Nat \ {0}
        BY <1>a, <1>b
      <4> QED
        BY <3>3, <4>1, LoopWroteKeeps
    <3> QED
      BY <3>1, <3>2, <3>4
  <2>4. Made = writes /\ Made' = Front(writes')
    BY <2>1, <2>2 DEF Made, Front
  <2>5. Scalings(scalingLogs)' = f
    BY <2>1 DEF Scalings
  <2>6. Suffix(f, Front(writes'))
    <3>1. CASE Len(writes) < cap
      BY <1>c, <2>3, <2>4, <3>1
    <3>2. CASE Len(writes) = cap
      <4> HIDE DEF f
      <4>1. Suffix(f, Tail(writes))
        BY <1>c, <1>d, <1>e, <2>4, <3>2, SuffixOfTail
      <4> QED
        BY <2>3, <3>2, <4>1
    <3> QED
      BY <1>a, <3>1, <3>2
  <2>7. e = ScaleEntry(loop'.cur, loop'.n)
    BY <2>2 DEF e
  <2>8. Suffix(Scalings(scalingLogs), Made)'
    BY <2>4, <2>5, <2>6 DEF Suffix
  <2> QED
    BY <2>3, <2>7, <2>8 DEF HistoryInv, cap, ScaleEntry
<1>3. CASE LogScaling
  <2>1. /\ loop.pc = "log" /\ writes' = writes /\ loop'.pc = "wait"
        /\ scalingLogs' = Logged(scalingLogs, e)
    BY <1>3, WaitingType DEF LogScaling, Logged, ghosts
  <2>2. writes # <<>> /\ writes[Len(writes)] = e /\ Made = Front(writes) /\ Made' = writes
    BY <2>1 DEF HistoryInv, Made
  <2> DEFINE m == Front(writes)
             l == Append(scalingLogs, e)
  <2>3. m \in Seq(Entry) /\ Append(m, e) = writes
    <3>1. m = SubSeq(writes, 1, Len(writes) - 1)
      BY DEF Front
    <3> HIDE DEF e, m
    <3> QED
      BY <1>b, <1>d, <2>2, <3>1
  <2>4. l \in Seq(Entry) /\ l # <<>>
    <3> HIDE DEF e
    <3> QED
      BY <1>a, <1>b
  <2>5. Scalings(l) = Append(f, e)
    <3>1. e.Action # "INFO"
      BY <1>b, EntryKinds
    <3> HIDE DEF e
    <3> QED
      BY <1>a, <1>b, <3>1, ScalingsAppend DEF Step
  <2>6. Suffix(Append(f, e), writes)
    <3> HIDE DEF e, m, f
    <3>1. Suffix(Append(f, e), Append(m, e))
      BY <1>b, <1>c, <2>2, <2>3, SuffixAppend DEF m
    <3> QED
      BY <2>3, <3>1
  <2> DEFINE q == Scalings(l)
  <2>7. q \in Seq(Entry) /\ Suffix(q, writes)
    <3> HIDE DEF l
    <3> QED
      BY <2>4, <2>5, <2>6, ScalingsType
  <2>8. scalingLogs' = l \/ scalingLogs' = Tail(l)
    BY <2>1 DEF Logged
  <2> HIDE DEF l, e
  <2>9. CASE scalingLogs' = l
    BY <2>1, <2>2, <2>7, <2>9, <1>a DEF HistoryInv
  <2>10. CASE scalingLogs' = Tail(l)
    <3>1. \/ Scalings(Tail(l)) = q
          \/ Scalings(Tail(l)) = Tail(q) /\ q # <<>>
      BY <2>4, ScalingsTail
    <3> HIDE DEF q
    <3>2. Suffix(Tail(q), writes) \/ q = <<>>
      BY <1>d, <2>7, SuffixTail
    <3>3. Suffix(Scalings(Tail(l)), writes)
      BY <2>7, <3>1, <3>2
    <3> QED
      BY <2>1, <2>2, <2>10, <3>3, <1>a DEF HistoryInv
  <2> QED
    BY <2>8, <2>9, <2>10
<1>4. ASSUME NEW on \in BOOLEAN, SetAutoscaling(on)
      PROVE  HistoryInv'
  <2>1. scalingLogs' = Append(scalingLogs, InfoEntry) /\ UNCHANGED <<loop, writes>>
    BY <1>4 DEF SetAutoscaling
  <2>2. Scalings(Append(scalingLogs, InfoEntry)) = f
    BY <1>a, <1>b, ScalingsAppend, EntryKinds DEF Step
  <2>3. Made' = Made
    BY <2>1 DEF Made
  <2>4. Suffix(Scalings(scalingLogs), Made)'
    BY <1>c, <2>1, <2>2, <2>3 DEF Suffix
  <2> QED
    BY <2>1, <2>4 DEF HistoryInv, ScaleEntry
<1>5. CASE Tick
  BY <1>1, <1>5, WaitingType DEF Tick, LoopState, shared, ghosts
<1>6. CASE GetReplicas \/ ListKeys \/ GetDeployment \/ GetScale \/ Conclude \/ KeepReplicas
           \/ UpdateScaleFails \/ (\E k \in Workloads : Decide(k))
  <2>1. loop.pc # "log" /\ UNCHANGED <<scalingLogs, writes>>
    BY <1>6 DEF GetReplicas, ListKeys, GetDeployment, GetScale, Conclude, KeepReplicas,
                UpdateScaleFails, Decide, shared, ghosts
  <2>2. loop'.pc # "log"
    BY <1>a, <1>6, WaitingType DEF GetReplicas, ListKeys, GetDeployment, GetScale, Conclude,
                                   KeepReplicas, UpdateScaleFails, Decide, LoopState
  <2> QED
    BY <1>1, <2>1, <2>2
<1>7. CASE PostStep
  <2>1. UNCHANGED <<scalingLogs, writes>>
    BY <1>7 DEF PostStep, PostScale, PostGetScale, PostUpdateScale, PostUpdateFails, shared, ghosts
  <2>2. loop'.pc = loop.pc /\ loop'.cur = loop.cur /\ loop'.n = loop.n
    BY <1>a, <1>7 DEF PostStep, PostScale, PostGetScale, PostUpdateScale, PostUpdateFails,
                      LoopState
  <2> QED
    BY <1>1, <2>1, <2>2
<1>8. CASE EnvStep \/ UNCHANGED vars
  BY <1>1, <1>8 DEF EnvStep, HeatChanges, KeyAppears, Relabel, vars, shared, ghosts
<1> QED
  BY <1>2, <1>3, <1>4, <1>5, <1>6, <1>7, <1>8 DEF Next, LoopStep

\* The whole invariant.
THEOREM IndInvHolds == Spec => []IndInv
<1>1. Init => IndInv
  <2> SUFFICES ASSUME Init
               PROVE  IndInv
    OBVIOUS
  <2>1. TypeInv
    BY TypeInvInit
  <2>2. LateInv /\ FreshInv
    BY WaitingType DEF Init, LateInv, FreshInv
  <2>3. LogBounded
    BY AutoscalerAssumption DEF Init, LogBounded
  <2>4. HistoryInv
    <3>1. Made = <<>> /\ scalingLogs = <<>> /\ writes = <<>> /\ loop.pc # "log"
      BY WaitingType DEF Init, Made
    <3>2. <<>> \in Seq(Entry) /\ Len(<<>>) = 0
      OBVIOUS
    <3>3. Scalings(<<>>) \in Seq(Entry) /\ Len(Scalings(<<>>)) <= 0
      BY <3>2, ScalingsType
    <3>4. Suffix(Scalings(<<>>), <<>>)
      BY <3>2, <3>3 DEF Suffix
    <3> QED
      BY <3>1, <3>2, <3>4, AutoscalerAssumption DEF HistoryInv
  <2> QED
    BY <2>1, <2>2, <2>3, <2>4 DEF IndInv
<1>2. IndInv /\ [Next]_vars => IndInv'
  BY TypeInvNext, LateInvNext, FreshInvNext, LogBoundedNext, HistoryInvNext DEF IndInv
<1> QED
  BY <1>1, <1>2, PTL DEF Spec

-----------------------------------------------------------------------------
(* What it shows. *)

\* The count stays between 1 and what /api/scale accepts, whatever the loop and
\* the handlers do to each other, and so do the locals of both.
THEOREM TypeCorrect == Spec => []TypeOK
<1>1. IndInv => TypeOK
  BY DEF IndInv, TypeInv, TypeOK, LoopState, PostState, Counts
<1> QED
  BY <1>1, IndInvHolds, PTL

\* Once autoscaling is disabled the loop writes the count once more at most.
THEOREM DisablingTakesEffect == Spec => []DisableTakesEffect
<1>1. IndInv => DisableTakesEffect
  BY DEF IndInv, LateInv, DisableTakesEffect
<1> QED
  BY <1>1, IndInvHolds, PTL

\* In a cluster the loop replaces only the count it decided on.
THEOREM NoUpdateIsLost == Spec => ClusterNoLostUpdate
<1>1. IndInv /\ [Next]_vars => [UpdateScale => replicas = loop.cur]_vars
  BY DEF IndInv, FreshInv, UpdateScale
<1> QED
  BY <1>1, IndInvHolds, PTL DEF Spec, ClusterNoLostUpdate

\* The log never grows by more than the INFO entries of the toggles.
THEOREM LogIsBounded == Spec => []LogBounded
<1>1. IndInv => LogBounded
  BY DEF IndInv
<1> QED
  BY <1>1, IndInvHolds, PTL

\* The scaling log is the loop's last writes, whatever was trimmed, toggled or refused.
THEOREM LogTellsHistory == Spec => []LogIsHistory
<1>1. ASSUME IndInv
      PROVE  LogIsHistory
  <2> DEFINE f == Scalings(scalingLogs)
             m == IF loop.pc = "log" THEN Front(writes) ELSE writes
  <2>1. LogBounded /\ Suffix(f, m)
    BY <1>1 DEF IndInv, HistoryInv, Made
  <2>2. scalingLogs \in Seq(Entry) /\ writes \in Seq(Entry)
    BY <1>1 DEF IndInv, TypeInv, Entry
  <2>3. f \in Seq(Entry)
    BY <2>2, ScalingsType
  <2>4. m \in Seq(Entry)
    <3>1. CASE loop.pc = "log"
      <4>1. writes # <<>>
        BY <1>1, <3>1 DEF IndInv, HistoryInv
      <4>2. SubSeq(writes, 1, Len(writes) - 1) \in Seq(Entry)
        BY <2>2, <4>1
      <4> QED
        BY <3>1, <4>2 DEF Front
    <3> QED
      BY <2>2, <3>1
  <2> HIDE DEF f, m
  <2>5. f = LastN(m, Len(f)) /\ Len(f) <= Len(m)
    BY <2>1, <2>3, <2>4, SuffixIsLastN DEF Suffix
  <2> QED
    BY <2>1, <2>5 DEF LogIsHistory, f, m
<1> QED
  BY <1>1, IndInvHolds, PTL
=============================================================================
