-------------------------- MODULE Profiler_proofs --------------------------
(***************************************************************************)
(* Theorems about Profiler: for any pods, gangs and times, and whatever    *)
(* the informer repeats, delays or skips, the tracker's timelines are in   *)
(* order, what is reported complete was ready, the counts partition the    *)
(* log, the log of a loadgen that has ended is joined whole, the quantiles *)
(* are nearest ranks, and the times of a gang cover its members'.          *)
(***************************************************************************)
EXTENDS Profiler, FoldTheorems, FiniteSetTheorems, TLAPS

-----------------------------------------------------------------------------
\* The inductive invariant.

\* A timeline of pod p: ordered, never ahead of the clock, and no more than p deserves.
TimelineOK(p, tl) ==
  /\ tl.ScheduledTs = tl.BoundTs
  /\ tl.ReadyTs # 0 => tl.BoundTs # 0 /\ tl.BoundTs <= tl.ReadyTs
  /\ tl.BoundTs <= now /\ tl.ReadyTs <= now
  /\ tl.ReadyTs # 0 => server[p] = Ready
  /\ ~tl.seen => tl.BoundTs = 0

\* The observation on its way is of a version the server has had, and no older than what
\* its pod's timeline holds: there is one handler.
HandlerOK ==
  handler # NoEvent =>
    /\ handler.version <= server[handler.pod]
    /\ handler.at \in 1 .. now
    /\ timelines[handler.pod].BoundTs <= handler.at

Recorded == {p \in Pods : submitTs[p] # 0}

\* The rows are the recorded pods, a flushed log has them all, main has only them, and
\* has them all when it read the log after the flush.
LogOK ==
  /\ {rows[i] : i \in 1 .. Len(rows)} = Recorded
  /\ gen = "ended" => onDisk = Len(rows)
  /\ logEnded => gen = "ended"
  /\ submits \subseteq Recorded
  /\ pc \in {"join", "done"} /\ logEnded => submits = Recorded

IInv ==
  /\ TypeOK
  /\ \A p \in Pods : TimelineOK(p, timelines[p]) /\ TimelineOK(p, snapshot[p])
  /\ HandlerOK
  /\ LogOK

-----------------------------------------------------------------------------
\* An observation extends a good timeline to a good one.
LEMMA FoldedOK ==
  ASSUME NEW tl \in PodTimeline, NEW p \in Pods, NEW e \in Event, TypeOK,
         TimelineOK(p, tl), e.version <= server[p], e.at \in 1 .. now, tl.BoundTs <= e.at
  PROVE  Folded(tl, e) \in PodTimeline /\ TimelineOK(p, Folded(tl, e))
<1>1. /\ e.version \in Version /\ e.at \in Time /\ server[p] \in Version /\ now \in Time
      /\ now \in Nat
  BY ProfilerAssumption DEF TypeOK, Event, NoEvent, Version, Time, Absent, Pending, Ready
<1>2. Folded(tl, e) \in PodTimeline
  BY <1>1 DEF Folded, PodTimeline
<1>3. TimelineOK(p, Folded(tl, e))
  BY <1>1, ProfilerAssumption DEF Folded, TimelineOK, PodTimeline, Version, Time, Absent, Pending, Bound, Ready
<1> QED BY <1>2, <1>3

LEMMA InitOK == Init => IInv
<1> SUFFICES ASSUME Init PROVE IInv OBVIOUS
<1> USE ProfilerAssumption
<1>1. TypeOK
  <2>1. rows \in Seq(Pods) /\ onDisk \in 0 .. Len(rows) BY DEF Init
  <2>2. NoTimeline \in PodTimeline BY DEF NoTimeline, PodTimeline, Time
  <2>3. now \in Time \ {0} /\ cutoff \in Time /\ 0 \in Time BY DEF Init, Time
  <2>4. server \in [Pods -> Version] BY DEF Init, Version, Absent, Ready
  <2>5. /\ submitTs \in [Pods -> Time] /\ handler \in Event
        /\ timelines \in [Pods -> PodTimeline] /\ snapshot \in [Pods -> PodTimeline]
    BY <2>2, <2>3 DEF Init, Event
  <2> QED BY <2>1, <2>3, <2>4, <2>5 DEF Init, TypeOK
<1>2. \A p \in Pods : TimelineOK(p, timelines[p]) /\ TimelineOK(p, snapshot[p])
  BY DEF Init, TimelineOK, NoTimeline
<1>3. HandlerOK BY DEF Init, HandlerOK
<1>4. LogOK
  <2>1. rows = <<>> /\ Len(rows) = 0 /\ 1 .. Len(rows) = {} BY DEF Init
  <2> QED BY <2>1 DEF Init, LogOK, Recorded
<1> QED BY <1>1, <1>2, <1>3, <1>4 DEF IInv

\* Every step keeps the types.
LEMMA TypeStep ==
  ASSUME TypeOK, \A p \in Pods : TimelineOK(p, timelines[p]), HandlerOK, [Next]_vars
  PROVE  TypeOK'
<1> USE ProfilerAssumption
<1>1. CASE Tick
  BY <1>1 DEF Tick, TypeOK, Time, Event, NoEvent, genVars, watchVars, mainVars
<1>2. CASE LogStep
  <2>1. CASE OpensLog
    BY <2>1 DEF OpensLog, TypeOK, worldVars, watchVars, mainVars
  <2>4. CASE CloseLog
    <3>1. Len(rows) \in 0 .. Len(rows) BY DEF TypeOK
    <3> QED BY <2>4, <3>1 DEF CloseLog, TypeOK, worldVars, watchVars, mainVars
  <2>2. CASE \E upTo \in onDisk .. Len(rows), part \in BOOLEAN : Killed(upTo, part)
    BY <2>2 DEF Killed, TypeOK, worldVars, watchVars, mainVars
  <2>3. ASSUME NEW p \in Pods, NEW spills \in BOOLEAN, NEW part \in BOOLEAN,
               Record(p, spills, part)
        PROVE  TypeOK'
    <3>1. rows' \in Seq(Pods) /\ Len(rows') = Len(rows) + 1
      BY <2>3 DEF Record, TypeOK
    <3>2. onDisk' \in 0 .. Len(rows') BY <2>3, <3>1 DEF Record, TypeOK
    <3>3. submitTs' \in [Pods -> Time] /\ cut' \in BOOLEAN BY <2>3 DEF Record, TypeOK
    <3> QED BY <2>3, <3>1, <3>2, <3>3 DEF Record, TypeOK, worldVars, watchVars, mainVars
  <2> QED BY <1>2, <2>1, <2>2, <2>3, <2>4 DEF LogStep
<1>3. ASSUME NEW p \in Pods, Create(p) \/ PodAdvances(p) PROVE TypeOK'
  BY <1>3 DEF Create, PodAdvances, TypeOK, Version, Absent, Pending, Bound, Ready,
              genVars, watchVars, mainVars
<1>4. CASE Lists
  BY <1>4 DEF Lists, TypeOK, worldVars, genVars, mainVars
<1>5. ASSUME NEW p \in Pods, Extract(p) PROVE TypeOK'
  <2>1. PICK v \in Pending .. server[p] : handler' = [pod |-> p, version |-> v, at |-> now]
    BY <1>5 DEF Extract
  <2>2. v \in Pending .. Ready BY <2>1 DEF TypeOK, Version, Pending, Ready, Absent
  <2>3. handler' \in Event BY <2>1, <2>2 DEF Event, TypeOK
  <2> QED BY <1>5, <2>3 DEF Extract, TypeOK, worldVars, genVars, mainVars
<1>6. CASE Observe
  <2>1. handler.pod \in Pods /\ handler \in Event BY <1>6 DEF Observe, TypeOK, Event
  <2>2. Folded(timelines[handler.pod], handler) \in PodTimeline
    BY <1>6, <2>1, FoldedOK DEF Observe, HandlerOK, TypeOK
  <2>3. timelines' \in [Pods -> PodTimeline] BY <1>6, <2>1, <2>2 DEF Observe, TypeOK
  <2>4. handler' \in Event BY <1>6 DEF Observe, Event
  <2> QED BY <1>6, <2>3, <2>4 DEF Observe, TypeOK, worldVars, genVars, mainVars
<1>7. CASE StartsWatch \/ WatchReturns
  BY <1>7 DEF StartsWatch, WatchReturns, Goes, TypeOK, worldVars, genVars, watchVars
<1>8. CASE LoadsLog
  <2>1. {rows[i] : i \in 1 .. onDisk} \subseteq Pods BY DEF TypeOK
  <2> QED BY <1>8, <2>1 DEF LoadsLog, Goes, TypeOK, worldVars, genVars, watchVars
<1>9. CASE \E ok \in BOOLEAN : Reports(ok)
  BY <1>9 DEF Reports, Goes, TypeOK, worldVars, genVars, watchVars
<1>10. CASE \E signal \in BOOLEAN : ContextEnds(signal)
  BY <1>10 DEF ContextEnds, TypeOK, worldVars, genVars, watchVars
<1>11. CASE UNCHANGED vars
  BY <1>11 DEF vars, TypeOK
<1> QED
  BY <1>1, <1>2, <1>3, <1>4, <1>5, <1>6, <1>7, <1>8, <1>9, <1>10, <1>11
  DEF Next, WatchStep, MainStep

\* Every step keeps the timelines in order; so does the copy that main takes.
LEMMA TimelinesStep ==
  ASSUME IInv, [Next]_vars, TypeOK'
  PROVE  \A p \in Pods : TimelineOK(p, timelines[p])' /\ TimelineOK(p, snapshot[p])'
<1> USE ProfilerAssumption DEF IInv
<1>1. CASE Tick
  <2>1. now' = now + 1 /\ now \in Nat /\ UNCHANGED <<server, timelines, snapshot>>
    BY <1>1 DEF Tick, TypeOK, Time, watchVars, mainVars
  <2>2. \A p \in Pods : timelines[p] \in PodTimeline /\ snapshot[p] \in PodTimeline
    BY DEF TypeOK
  <2>3. \A p \in Pods : /\ timelines[p].BoundTs \in Nat /\ timelines[p].ReadyTs \in Nat
                        /\ snapshot[p].BoundTs \in Nat /\ snapshot[p].ReadyTs \in Nat
    BY <2>2 DEF PodTimeline, Time
  <2> QED BY <2>1, <2>3 DEF TimelineOK
<1>2. ASSUME NEW p \in Pods, Create(p) \/ PodAdvances(p)
      PROVE  \A q \in Pods : TimelineOK(q, timelines[q])' /\ TimelineOK(q, snapshot[q])'
  BY <1>2 DEF Create, PodAdvances, TimelineOK, TypeOK, Absent, Pending, Bound, Ready,
              watchVars, mainVars
<1>3. CASE Observe
  <2>1. handler.pod \in Pods /\ handler \in Event BY <1>3 DEF Observe, TypeOK, Event
  <2>2. TimelineOK(handler.pod, Folded(timelines[handler.pod], handler))
    BY <1>3, <2>1, FoldedOK DEF Observe, HandlerOK, TypeOK
  <2>3. \A p \in Pods : TimelineOK(p, timelines'[p]) /\ TimelineOK(p, snapshot'[p])
    BY <1>3, <2>1, <2>2 DEF Observe, TypeOK, mainVars
  <2> QED BY <1>3, <2>3 DEF Observe, TimelineOK, worldVars
<1>4. CASE \E ok \in BOOLEAN : Reports(ok)
  BY <1>4 DEF Reports, Goes, TimelineOK, worldVars, watchVars
<1>5. CASE UNCHANGED <<now, server, timelines, snapshot>>
  BY <1>5 DEF TimelineOK
<1> QED
  BY <1>1, <1>2, <1>3, <1>4, <1>5
  DEF Next, LogStep, WatchStep, MainStep, OpensLog, CloseLog, Killed, Record, Lists, Extract,
      StartsWatch, WatchReturns, LoadsLog, ContextEnds, Goes, worldVars, watchVars, mainVars, vars

\* Every step keeps the observation on its way in order with its pod's timeline.
LEMMA HandlerStep ==
  ASSUME IInv, [Next]_vars, TypeOK'
  PROVE  HandlerOK'
<1> USE ProfilerAssumption DEF IInv
<1>1. CASE Tick
  BY <1>1 DEF Tick, HandlerOK, TypeOK, Time, watchVars
<1>2. ASSUME NEW p \in Pods, Create(p) \/ PodAdvances(p) PROVE HandlerOK'
  <2>1. handler # NoEvent => handler.pod \in Pods /\ handler.version \in Nat
    BY DEF TypeOK, Event, Pending, Ready
  <2>2. \A q \in Pods : server[q] \in Nat /\ server'[q] \in Nat /\ server'[q] >= server[q]
    <3>1. \A q \in Pods : server[q] \in Version /\ server[q] \in Nat
      BY DEF TypeOK, Version, Absent
    <3>2. \A q \in Pods : server'[q] = IF q # p THEN server[q] ELSE
                           IF server[p] = Absent THEN Pending ELSE server[p] + 1
      BY <1>2 DEF Create, PodAdvances, TypeOK, Absent, Pending, Bound
    <3> QED BY <3>1, <3>2 DEF Absent, Pending
  <2>3. UNCHANGED <<now, handler, timelines>> BY <1>2 DEF Create, PodAdvances, watchVars
  <2>4. handler # NoEvent => handler.version <= server'[handler.pod]
    <3> SUFFICES ASSUME handler # NoEvent PROVE handler.version <= server'[handler.pod]
      OBVIOUS
    <3>1. handler.version <= server[handler.pod] BY DEF HandlerOK
    <3>2. server'[handler.pod] >= server[handler.pod] BY <2>1, <2>2
    <3>3. server[handler.pod] \in Nat /\ server'[handler.pod] \in Nat BY <2>1, <2>2
    <3> QED BY <2>1, <3>1, <3>2, <3>3
  <2> QED BY <2>3, <2>4 DEF HandlerOK
<1>3. ASSUME NEW p \in Pods, Extract(p) PROVE HandlerOK'
  <2>1. PICK v \in Pending .. server[p] : handler' = [pod |-> p, version |-> v, at |-> now]
    BY <1>3 DEF Extract
  <2>2. server[p] \in Nat /\ v <= server[p] BY <2>1 DEF TypeOK, Version, Pending, Absent
  <2>3. timelines[p].BoundTs <= now /\ now \in 1 .. now BY DEF TimelineOK, TypeOK, Time
  <2> QED BY <1>3, <2>1, <2>2, <2>3 DEF Extract, HandlerOK, worldVars
<1>4. CASE Observe
  BY <1>4 DEF Observe, HandlerOK
<1>5. CASE UNCHANGED <<now, server, handler, timelines>>
  BY <1>5 DEF HandlerOK
<1> QED
  BY <1>1, <1>2, <1>3, <1>4, <1>5
  DEF Next, LogStep, WatchStep, MainStep, OpensLog, CloseLog, Killed, Record, Lists,
      StartsWatch, WatchReturns, LoadsLog, Reports, ContextEnds, Goes,
      worldVars, watchVars, mainVars, vars

\* Every step keeps the rows, the recorded pods and what main has read together.
LEMMA LogStepOK ==
  ASSUME IInv, [Next]_vars
  PROVE  LogOK'
<1> USE ProfilerAssumption DEF IInv
<1>1. CASE Reading /\ OpensLog
  BY <1>1 DEF Reading, OpensLog, LogOK, Recorded, mainVars
<1>2. CASE Reading /\ CloseLog
  BY <1>2 DEF Reading, CloseLog, LogOK, Recorded, mainVars
<1>3. ASSUME Reading, NEW upTo, NEW part, Killed(upTo, part) PROVE LogOK'
  BY <1>3 DEF Reading, Killed, LogOK, Recorded, mainVars
<1>4. ASSUME Reading, NEW p \in Pods, NEW spills, NEW part, Record(p, spills, part)
      PROVE  LogOK'
  <2>1. now # 0 BY DEF TypeOK, Time
  <2>2. Recorded' = Recorded \cup {p}
    BY <1>4, <2>1 DEF Record, Recorded, TypeOK
  <2>3. {rows'[i] : i \in 1 .. Len(rows')} = {rows[i] : i \in 1 .. Len(rows)} \cup {p}
    <3>1. /\ Len(rows') = Len(rows) + 1 /\ Len(rows) \in Nat
          /\ rows'[Len(rows) + 1] = p
          /\ \A i \in 1 .. Len(rows) : rows'[i] = rows[i]
      BY <1>4 DEF Record, TypeOK
    <3>2. 1 .. Len(rows') = 1 .. Len(rows) \cup {Len(rows) + 1}
      BY <3>1
    <3> QED BY <3>1, <3>2
  <2> QED BY <1>4, <2>2, <2>3 DEF Record, Reading, LogOK, mainVars
<1>5. CASE LoadsLog
  <2>1. CASE gen = "none" \/ cut
    BY <1>5, <2>1 DEF LoadsLog, Goes, LogOK, Recorded, genVars, worldVars
  <2>2. CASE ~(gen = "none" \/ cut)
    <3>1. logEnded' => onDisk = Len(rows) /\ gen = "ended" /\ submits' = Recorded
      BY <1>5, <2>2 DEF LoadsLog, LogOK
    <3>2. submits' \subseteq Recorded
      <4>1. onDisk \in 0 .. Len(rows) /\ Len(rows) \in Nat BY DEF TypeOK
      <4>2. \A i \in 1 .. onDisk : i \in 1 .. Len(rows) BY <4>1
      <4>3. submits' = {rows[i] : i \in 1 .. onDisk} BY <1>5, <2>2 DEF LoadsLog
      <4> QED BY <4>2, <4>3 DEF LogOK
    <3> QED BY <1>5, <2>2, <3>1, <3>2 DEF LoadsLog, Goes, LogOK, Recorded, genVars, worldVars
  <2> QED BY <2>1, <2>2
<1>6. CASE StartsWatch \/ WatchReturns
  BY <1>6 DEF StartsWatch, WatchReturns, Goes, LogOK, Recorded, genVars
<1>7. CASE \E ok \in BOOLEAN : Reports(ok)
  BY <1>7 DEF Reports, Goes, LogOK, Recorded, genVars
<1>8. CASE UNCHANGED <<genVars, pc, submits, logEnded>>
  BY <1>8 DEF LogOK, Recorded, genVars
<1> QED
  BY <1>1, <1>2, <1>3, <1>4, <1>5, <1>6, <1>7, <1>8
  DEF Next, LogStep, WatchStep, MainStep, Tick, Create, PodAdvances, Lists, Extract, Observe,
      ContextEnds, genVars, mainVars, vars

THEOREM Invariance == Spec => []IInv
<1>1. ASSUME IInv, [Next]_vars PROVE IInv'
  <2>1. TypeOK' BY <1>1, TypeStep DEF IInv
  <2>2. \A p \in Pods : TimelineOK(p, timelines[p])' /\ TimelineOK(p, snapshot[p])'
    BY <1>1, <2>1, TimelinesStep
  <2>3. HandlerOK' BY <1>1, <2>1, HandlerStep
  <2>4. LogOK' BY <1>1, LogStepOK
  <2> QED BY <2>1, <2>2, <2>3, <2>4 DEF IInv
<1> QED BY <1>1, InitOK, PTL DEF Spec

-----------------------------------------------------------------------------
\* Theorems.

\* Types (Profiler.TypeOK).
THEOREM TypeCorrect == Spec => []TypeOK
<1> QED BY Invariance, PTL DEF IInv

\* The tracker's moments are in order: every phase that it times alone is nonnegative
\* (timeline.go Observe).
THEOREM TimelinesInOrder == Spec => []MomentsInOrder
<1>1. IInv => MomentsInOrder BY DEF IInv, TimelineOK, MomentsInOrder
<1> QED BY <1>1, Invariance, PTL

\* What the informer repeats moves no moment that has been observed (timeline.go Observe).
THEOREM FirstObservationStays == Spec => FirstWriteWins
<1> DEFINE A == \A p \in Pods, m \in {"ScheduledTs", "BoundTs", "ReadyTs"} :
                  timelines[p][m] # 0 => timelines'[p][m] = timelines[p][m]
<1>1. ASSUME IInv, Next PROVE A
  <2>1. CASE Observe
    <3>1. handler.pod \in Pods BY <1>1, <2>1 DEF Observe, IInv, TypeOK, Event
    <3>2. \A p \in Pods : timelines'[p] = IF p = handler.pod THEN Folded(timelines[p], handler)
                                          ELSE timelines[p]
      BY <1>1, <2>1, <3>1 DEF Observe, IInv, TypeOK
    <3>3. \A tl \in PodTimeline : /\ tl.ScheduledTs # 0 => Folded(tl, handler).ScheduledTs = tl.ScheduledTs
                                  /\ tl.BoundTs # 0 => Folded(tl, handler).BoundTs = tl.BoundTs
                                  /\ tl.ReadyTs # 0 => Folded(tl, handler).ReadyTs = tl.ReadyTs
      BY DEF Folded
    <3>4. \A p \in Pods : timelines[p] \in PodTimeline BY <1>1 DEF IInv, TypeOK
    <3> SUFFICES ASSUME NEW p \in Pods, NEW m \in {"ScheduledTs", "BoundTs", "ReadyTs"},
                        timelines[p][m] # 0
                 PROVE  timelines'[p][m] = timelines[p][m]
      OBVIOUS
    <3>5. CASE m = "ScheduledTs" BY <3>2, <3>3, <3>4, <3>5
    <3>6. CASE m = "BoundTs" BY <3>2, <3>3, <3>4, <3>6
    <3>7. CASE m = "ReadyTs" BY <3>2, <3>3, <3>4, <3>7
    <3> QED BY <3>5, <3>6, <3>7
  <2>2. CASE UNCHANGED timelines BY <2>2
  <2> QED
    BY <1>1, <2>1, <2>2
    DEF Next, LogStep, WatchStep, MainStep, Tick, Create, PodAdvances, OpensLog, CloseLog, Killed,
        Record, Lists, Extract, StartsWatch, WatchReturns, LoadsLog, Reports, ContextEnds, Goes,
        worldVars, watchVars, mainVars
<1>2. IInv /\ [Next]_vars => [A]_vars BY <1>1
<1> HIDE DEF A
<1>3. Spec => [][A]_vars BY <1>2, Invariance, PTL DEF Spec
<1> QED BY <1>3 DEF A, FirstWriteWins

\* What the report calls complete was ready at the server, and seen, by the cutoff
\* (join.go Join).
THEOREM CompleteWasReady == Spec => []CompleteWasReadyByCutoff
<1>1. IInv => CompleteWasReadyByCutoff
  <2> SUFFICES ASSUME IInv, NEW p \in submits, ~Joined[p].Censored
               PROVE  server[p] = Ready /\ Joined[p].BoundTs # 0 /\ Joined[p].ReadyTs <= cutoff
    BY DEF CompleteWasReadyByCutoff
  <2>1. p \in Pods /\ snapshot[p] \in PodTimeline /\ cutoff \in Nat
    BY ProfilerAssumption DEF IInv, TypeOK, Time
  <2>2. snapshot[p].ReadyTs # 0 /\ ~(snapshot[p].ReadyTs > cutoff)
    BY DEF Joined, CensoredPod
  <2>3. snapshot[p].ReadyTs \in Nat BY <2>1 DEF PodTimeline, Time
  <2>4. TimelineOK(p, snapshot[p]) BY <2>1 DEF IInv
  <2> QED BY <2>1, <2>2, <2>3, <2>4 DEF TimelineOK, Joined
<1> QED BY <1>1, Invariance, PTL

\* The log of a loadgen that has ended is joined whole (recorder.go Close, join.go
\* LoadSubmitLog).
THEOREM LogJoinedWhole == Spec => []EndedLogIsWhole
<1>1. IInv => EndedLogIsWhole BY DEF IInv, LogOK, Recorded, EndedLogIsWhole, Reported
<1> QED BY <1>1, Invariance, PTL

\* Two disjoint finite sets.
LEMMA DisjointCount ==
  ASSUME NEW S, NEW A, NEW B, IsFiniteSet(S), S = A \cup B, A \cap B = {}
  PROVE  Cardinality(S) = Cardinality(A) + Cardinality(B)
<1>1. IsFiniteSet(A) /\ IsFiniteSet(B) BY FS_Subset
<1>2. Cardinality(A \cap B) = 0 BY FS_EmptySet
<1>3. Cardinality(A) \in Nat /\ Cardinality(B) \in Nat BY <1>1, FS_CardinalityType
<1>4. Cardinality(S) = Cardinality(A) + Cardinality(B) - Cardinality(A \cap B)
  BY <1>1, FS_Union
<1> QED BY <1>2, <1>3, <1>4

\* Every pod is counted once, and the summary agrees with the join (join.go Join, report.go
\* Summarize).
THEOREM ReportedOnce == Spec => []EveryPodReportedOnce
<1>1. IInv => EveryPodReportedOnce
  <2> SUFFICES ASSUME IInv PROVE EveryPodReportedOnce OBVIOUS
  <2> DEFINE Censored == {p \in submits \cap Observed : Joined[p].Censored}
             Complete == {p \in submits \cap Observed : ~Joined[p].Censored}
             AllCensored == {p \in submits : Joined[p].Censored}
             Slept == DOMAIN Sample("BoundTs", "ReadyTs")
             Waited == DOMAIN Sample("ScheduledTs", "BoundTs")
  <2>1. submits \subseteq Pods /\ IsFiniteSet(Pods) BY ProfilerAssumption DEF IInv, TypeOK
  <2>2. IsFiniteSet(submits) /\ IsFiniteSet(Observed) BY <2>1, FS_Subset DEF Observed
  <2>3. \A p \in submits : /\ snapshot[p] \in PodTimeline /\ TimelineOK(p, snapshot[p])
                           /\ Joined[p].Censored \in BOOLEAN
                           /\ Joined[p].BoundTs = snapshot[p].BoundTs
                           /\ Joined[p].ScheduledTs = snapshot[p].ScheduledTs
                           /\ Joined[p].ReadyTs = snapshot[p].ReadyTs
                           /\ Joined[p].Censored = CensoredPod(p)
    BY <2>1 DEF IInv, TypeOK, Joined, CensoredPod
  <2>4. \A p \in submits : p \notin Observed => Joined[p].Censored
    BY <2>1, <2>3 DEF TimelineOK, CensoredPod, Observed
  <2>5. Cardinality(submits) = Cardinality(submits \ Observed) + Cardinality(Censored)
                                 + Cardinality(Complete)
    <3>1. Cardinality(submits) = Cardinality(submits \ Observed) + Cardinality(submits \cap Observed)
      BY <2>2, DisjointCount
    <3>2. IsFiniteSet(submits \cap Observed) BY <2>2, FS_Subset
    <3>3. Cardinality(submits \cap Observed) = Cardinality(Censored) + Cardinality(Complete)
      BY <3>2, DisjointCount
    <3>4. IsFiniteSet(submits \ Observed) /\ IsFiniteSet(Censored) /\ IsFiniteSet(Complete)
      BY <2>2, FS_Subset
    <3>5. /\ Cardinality(submits \ Observed) \in Nat /\ Cardinality(Censored) \in Nat
          /\ Cardinality(Complete) \in Nat
      BY <3>4, FS_CardinalityType
    <3> QED BY <3>1, <3>3, <3>5
  <2>6. Cardinality(Observed) = Cardinality(submits \cap Observed) + Cardinality(Observed \ submits)
    BY <2>2, DisjointCount
  <2>7. Cardinality(AllCensored) = Cardinality(Censored) + Cardinality(submits \ Observed)
    <3>1. IsFiniteSet(AllCensored) BY <2>2, FS_Subset
    <3>2. AllCensored = Censored \cup (submits \ Observed) BY <2>4
    <3> QED BY <3>1, <3>2, DisjointCount
  <2>8. Cardinality(submits) - Cardinality(AllCensored) = Cardinality(Complete)
    <3>1. IsFiniteSet(submits \ Observed) /\ IsFiniteSet(Censored) /\ IsFiniteSet(Complete)
      BY <2>2, FS_Subset
    <3>2. /\ Cardinality(submits \ Observed) \in Nat /\ Cardinality(Censored) \in Nat
          /\ Cardinality(Complete) \in Nat
      BY <3>1, FS_CardinalityType
    <3> QED BY <2>5, <2>7, <3>2
  <2>9. Complete \subseteq Slept
    <3> SUFFICES ASSUME NEW p \in submits, ~Joined[p].Censored PROVE p \in Slept OBVIOUS
    <3>1. snapshot[p].ReadyTs # 0 BY <2>3 DEF CensoredPod
    <3>2. /\ snapshot[p].BoundTs \in Nat /\ snapshot[p].ReadyTs \in Nat
      BY <2>3 DEF PodTimeline, Time
    <3>3. snapshot[p].BoundTs # 0 /\ snapshot[p].ReadyTs >= snapshot[p].BoundTs
      BY <2>3, <3>1, <3>2 DEF TimelineOK
    <3> QED BY <2>3, <3>1, <3>3 DEF Sample
  <2>10. Slept \subseteq Waited
    <3> SUFFICES ASSUME NEW p \in Slept PROVE p \in Waited OBVIOUS
    <3>1. p \in submits /\ Joined[p].BoundTs # 0 BY DEF Sample
    <3>2. snapshot[p].BoundTs \in Nat BY <2>3, <3>1 DEF PodTimeline, Time
    <3>3. snapshot[p].ScheduledTs = snapshot[p].BoundTs BY <2>3, <3>1 DEF TimelineOK
    <3>4. snapshot[p].BoundTs >= snapshot[p].ScheduledTs BY <3>2, <3>3
    <3> QED BY <2>3, <3>1, <3>3, <3>4 DEF Sample
  <2>11. Cardinality(Complete) <= Cardinality(Slept) /\ Cardinality(Slept) <= Cardinality(Waited)
    <3>1. Slept \subseteq submits /\ Waited \subseteq submits BY DEF Sample
    <3>2. IsFiniteSet(Slept) /\ IsFiniteSet(Waited) BY <2>2, <3>1, FS_Subset
    <3> QED BY <2>9, <2>10, <3>2, FS_Subset
  <2> HIDE DEF Censored, Complete, AllCensored, Slept, Waited
  <2>12. /\ JoinStats.Censored = Cardinality(Censored) /\ JoinStats.Complete = Cardinality(Complete)
         /\ JoinStats.Submitted = Cardinality(submits)
         /\ JoinStats.Matched = Cardinality(submits \cap Observed)
         /\ JoinStats.Unobserved = Cardinality(submits \ Observed)
         /\ JoinStats.Unsubmitted = Cardinality(Observed \ submits)
    BY DEF JoinStats, Censored, Complete
  <2>13. /\ ReportCensored = Cardinality(AllCensored)
         /\ ReportComplete = Cardinality(submits) - Cardinality(AllCensored)
         /\ Count("BoundTs", "ReadyTs") = Cardinality(Slept)
         /\ Count("ScheduledTs", "BoundTs") = Cardinality(Waited)
    BY DEF ReportCensored, ReportComplete, Count, AllCensored, Slept, Waited
  <2> QED BY <2>5, <2>6, <2>7, <2>8, <2>11, <2>12, <2>13 DEF EveryPodReportedOnce
<1> QED BY <1>1, Invariance, PTL

\* The rank that Quantiles takes of n sorted durations exists, and is the nearest one: no
\* rank below it reaches the share of percent (quantile.go Quantiles).
THEOREM RankIsNearest ==
  ASSUME NEW n \in Nat \ {0}, NEW percent \in 1 .. 100
  PROVE  /\ Rank(n, percent) \in 1 .. n
         /\ 100 * Rank(n, percent) >= n * percent
         /\ 100 * (Rank(n, percent) - 1) < n * percent
<1> DEFINE share == n * percent
<1>1. share \in Nat /\ share >= 1 /\ share <= 100 * n
  <2>1. PICK less \in Nat : percent = 1 + less BY percent - 1 \in Nat
  <2>2. PICK more \in Nat : percent = 100 - more BY 100 - percent \in Nat
  <2>3. n * less \in Nat /\ n * more \in Nat BY <2>1, <2>2
  <2>4. share = n + n * less BY <2>1
  <2>5. share = 100 * n - n * more BY <2>2
  <2> QED BY <2>3, <2>4, <2>5
<1> HIDE DEF share
<1>2. Rank(n, percent) = (share + 99) \div 100 BY DEF Rank, share
<1>3. /\ (share + 99) \div 100 \in 1 .. n
      /\ 100 * ((share + 99) \div 100) >= share
      /\ 100 * ((share + 99) \div 100 - 1) < share
  BY <1>1
<1> QED BY <1>2, <1>3 DEF share
-----------------------------------------------------------------------------
(***************************************************************************)
(* Quantiles: the sorted sample exists, and the nearest rank cuts it.      *)
(***************************************************************************)
InOrder(order, durs, A) ==
  /\ order \in [1 .. Cardinality(A) -> A] /\ IsInjective(order)
  /\ \A i, j \in 1 .. Cardinality(A) : i < j => durs[order[i]] <= durs[order[j]]

\* Any finite sample can be sorted: the least duration goes in front of the rest.
LEMMA OrderExists ==
  ASSUME NEW durs, NEW S, IsFiniteSet(S), \A p \in S : durs[p] \in Nat
  PROVE  \E order : InOrder(order, durs, S)
<1> DEFINE F == {A \in SUBSET S : \E order : InOrder(order, durs, A)}
<1>1. ASSUME NEW A \in SUBSET S, \A p \in A : A \ {p} \in F PROVE A \in F
  <2>1. CASE A = {}
    <3>1. Cardinality(A) = 0 BY <2>1, FS_EmptySet
    <3>2. InOrder(<<>>, durs, A)
      <4>1. 1 .. 0 = {} /\ <<>> \in [1 .. 0 -> {}] OBVIOUS
      <4> QED BY <2>1, <3>1, <4>1 DEF InOrder, IsInjective
    <3> QED BY <3>2
  <2>2. CASE A # {}
    <3> DEFINE T == {durs[p] : p \in A}
    <3>1. PICK least \in T : \A t \in T : least <= t
      <4>1. T \subseteq Nat /\ T # {} BY <2>2
      <4> HIDE DEF T
      <4> QED BY <4>1, LeastNumber
    <3>2. PICK first \in A : durs[first] = least BY <3>1
    <3>3. PICK rest : InOrder(rest, durs, A \ {first}) BY <1>1, <3>2
    <3>4. PICK n \in Nat : n = Cardinality(A \ {first}) /\ n + 1 = Cardinality(A)
      BY <3>2, FS_Subset, FS_CardinalityType, FS_RemoveElement
    <3> DEFINE order == [i \in 1 .. n + 1 |-> IF i = 1 THEN first ELSE rest[i - 1]]
    <3>5. /\ rest \in [1 .. n -> A \ {first}] /\ IsInjective(rest)
          /\ \A i, j \in 1 .. n : i < j => durs[rest[i]] <= durs[rest[j]]
      BY <3>3, <3>4 DEF InOrder
    <3>6. \A i \in 1 .. n + 1 : i # 1 => i - 1 \in 1 .. n BY <3>4
    <3>7. \A i \in 1 .. n + 1 : order[i] = IF i = 1 THEN first ELSE rest[i - 1] OBVIOUS
    <3>8. order \in [1 .. n + 1 -> A] BY <3>2, <3>5, <3>6
    <3> HIDE DEF order
    <3>9. IsInjective(order)
      <4> SUFFICES ASSUME NEW i \in 1 .. n + 1, NEW j \in 1 .. n + 1, order[i] = order[j]
                   PROVE  i = j
        BY <3>8 DEF IsInjective
      <4>1. CASE i = 1 /\ j # 1 BY <4>1, <3>5, <3>6, <3>7
      <4>2. CASE i # 1 /\ j = 1 BY <4>2, <3>5, <3>6, <3>7
      <4>3. CASE i # 1 /\ j # 1
        <5>1. i - 1 \in 1 .. n /\ j - 1 \in 1 .. n /\ rest[i - 1] = rest[j - 1]
          BY <4>3, <3>6, <3>7
        <5>2. i - 1 = j - 1 BY <5>1, <3>5 DEF IsInjective
        <5> QED BY <5>2, <3>4
      <4> QED BY <4>1, <4>2, <4>3
    <3>10. ASSUME NEW i \in 1 .. n + 1, NEW j \in 1 .. n + 1, i < j
           PROVE  durs[order[i]] <= durs[order[j]]
      <4>1. j # 1 /\ j - 1 \in 1 .. n BY <3>4, <3>6, <3>10
      <4>2. CASE i = 1
        <5>1. order[j] \in A /\ order[i] = first BY <4>2, <3>7, <3>8
        <5> QED BY <5>1, <3>1, <3>2
      <4>3. CASE i # 1
        <5>1. i - 1 \in 1 .. n /\ i - 1 < j - 1 BY <4>1, <4>3, <3>4, <3>6, <3>10
        <5> QED BY <5>1, <4>1, <4>3, <3>5, <3>7
      <4> QED BY <4>2, <4>3
    <3>11. InOrder(order, durs, A) BY <3>4, <3>8, <3>9, <3>10 DEF InOrder
    <3> QED BY <3>11
  <2> QED BY <2>1, <2>2
<1>2. SUBSET S \subseteq F
  <2> HIDE DEF F
  <2> QED BY <1>1, SubsetInduction
<1> QED BY <1>2

LEMMA AscendingInOrder ==
  ASSUME NEW durs, IsFiniteSet(DOMAIN durs), \A p \in DOMAIN durs : durs[p] \in Nat
  PROVE  InOrder(Ascending(durs), durs, DOMAIN durs)
<1> DEFINE Sorts(order) ==
             /\ IsInjective(order)
             /\ \A i, j \in DOMAIN order : i < j => durs[order[i]] <= durs[order[j]]
           Orders == [1 .. Cardinality(DOMAIN durs) -> DOMAIN durs]
<1>1. PICK order : InOrder(order, durs, DOMAIN durs) BY OrderExists
<1>2. order \in Orders /\ Sorts(order) BY <1>1 DEF InOrder
<1>3. Ascending(durs) \in Orders /\ Sorts(Ascending(durs))
  <2>1. Ascending(durs) = CHOOSE o \in Orders : Sorts(o) BY DEF Ascending
  <2> HIDE DEF Orders, Sorts
  <2> QED BY <1>2, <2>1
<1> QED BY <1>3 DEF InOrder

\* The quantile that Quantiles reports of any sample: enough of the sample is at or below
\* it, and not more than that is below.
LEMMA QuantileIsNearest ==
  ASSUME NEW durs, IsFiniteSet(DOMAIN durs), \A p \in DOMAIN durs : durs[p] \in Nat,
         DOMAIN durs # {}, NEW percent \in 1 .. 100
  PROVE  LET n == Cardinality(DOMAIN durs)
             v == Quantile(durs, percent)
         IN  /\ 100 * Cardinality({p \in DOMAIN durs : durs[p] <= v}) >= percent * n
             /\ 100 * Cardinality({p \in DOMAIN durs : durs[p] < v}) < percent * n
<1>1. PICK n \in Nat \ {0} : n = Cardinality(DOMAIN durs)
  BY FS_CardinalityType, FS_EmptySet
<1>2. PICK r \in 1 .. n : /\ r = Rank(n, percent) /\ 100 * r >= n * percent
                          /\ 100 * (r - 1) < n * percent
  BY RankIsNearest
<1>3. PICK order : InOrder(order, durs, DOMAIN durs) /\ order = Ascending(durs)
  BY AscendingInOrder
<1>4. /\ order \in [1 .. n -> DOMAIN durs] /\ IsInjective(order)
      /\ \A i, j \in 1 .. n : i < j => durs[order[i]] <= durs[order[j]]
  BY <1>1, <1>3 DEF InOrder
<1>5. PICK v \in Nat : v = durs[order[r]] BY <1>2, <1>4
<1> DEFINE upTo == {p \in DOMAIN durs : durs[p] <= v}
           below == {p \in DOMAIN durs : durs[p] < v}
<1>6. r <= Cardinality(upTo) /\ Cardinality(upTo) \in Nat
  <2> DEFINE f == [i \in 1 .. r |-> order[i]]
  <2>1. \A i \in 1 .. r : i \in 1 .. n /\ durs[order[i]] <= v
    <3> SUFFICES ASSUME NEW i \in 1 .. r PROVE i \in 1 .. n /\ durs[order[i]] <= v OBVIOUS
    <3>1. i \in 1 .. n BY <1>2
    <3>2. CASE i = r BY <3>1, <3>2, <1>5
    <3>3. CASE i # r
      <4>1. i < r BY <3>3, <1>2
      <4> QED BY <4>1, <3>1, <1>2, <1>4, <1>5
    <3> QED BY <3>1, <3>2, <3>3
  <2>2. f \in [1 .. r -> upTo] BY <2>1, <1>4
  <2>3. IsInjective(f) BY <2>1, <1>4 DEF IsInjective
  <2>4. f \in Injection(1 .. r, upTo) BY <2>2, <2>3 DEF Injection
  <2>5. IsFiniteSet(upTo) BY FS_Subset
  <2>6. Cardinality(1 .. r) = r
    <3>1. r \in Int /\ ~(1 > r) /\ r - 1 + 1 = r BY <1>2
    <3> QED BY <3>1, FS_Interval
  <2> HIDE DEF f, upTo
  <2> QED BY <2>4, <2>5, <2>6, FS_Injection, FS_CardinalityType
<1>7. Cardinality(below) <= r - 1 /\ Cardinality(below) \in Nat
  <2> DEFINE place == [p \in below |-> CHOOSE i \in 1 .. n : order[i] = p]
  <2>1. \A p \in DOMAIN durs : \E i \in 1 .. n : order[i] = p
    <3>1. order \in Injection(1 .. n, DOMAIN durs) BY <1>4 DEF Injection
    <3>2. Cardinality(1 .. n) = n
      <4>1. n \in Int /\ ~(1 > n) /\ n - 1 + 1 = n BY <1>1
      <4> QED BY <4>1, FS_Interval
    <3>3. order \in Surjection(1 .. n, DOMAIN durs) BY <1>1, <3>1, <3>2, FS_Injection
    <3> QED BY <3>3 DEF Surjection
  <2>2. ASSUME NEW p \in below PROVE place[p] \in 1 .. r - 1 /\ order[place[p]] = p
    <3>1. place[p] \in 1 .. n /\ order[place[p]] = p BY <2>1
    <3>2. ~(r <= place[p])
      <4> SUFFICES ASSUME r <= place[p] PROVE FALSE OBVIOUS
      <4>1. durs[p] \in Nat /\ durs[p] < v OBVIOUS
      <4> HIDE DEF place
      <4>2. CASE r = place[p] BY <4>1, <4>2, <3>1, <1>5
      <4>3. CASE r # place[p]
        <5>1. r < place[p] BY <4>3, <3>1, <1>2
        <5>2. durs[order[r]] <= durs[p] BY <5>1, <3>1, <1>2, <1>4
        <5> QED BY <5>2, <4>1, <1>5
      <4> QED BY <4>2, <4>3
    <3> HIDE DEF place
    <3> QED BY <3>1, <3>2, <1>2
  <2>3. place \in Injection(below, 1 .. r - 1)
    <3>1. place \in [below -> 1 .. r - 1] BY <2>2
    <3>2. DOMAIN place = below OBVIOUS
    <3> HIDE DEF place
    <3>3. IsInjective(place) BY <2>2, <3>2 DEF IsInjective
    <3> QED BY <3>1, <3>3 DEF Injection
  <2>4. IsFiniteSet(1 .. r - 1) /\ Cardinality(1 .. r - 1) = r - 1
    <3>1. CASE r = 1
      <4>1. 1 .. r - 1 = {} BY <3>1
      <4> QED BY <3>1, <4>1, FS_EmptySet
    <3>2. CASE r # 1
      <4>1. r - 1 \in Int /\ ~(1 > r - 1) /\ (r - 1) - 1 + 1 = r - 1 BY <3>2, <1>2
      <4> QED BY <4>1, FS_Interval
    <3> QED BY <3>1, <3>2
  <2>5. IsFiniteSet(below) BY FS_Subset
  <2> HIDE DEF place, below
  <2> QED BY <2>3, <2>4, <2>5, FS_Injection, FS_CardinalityType
<1>8. v = Quantile(durs, percent) BY <1>1, <1>2, <1>3, <1>5 DEF Quantile
<1>9. n * percent = percent * n BY <1>1
<1> HIDE DEF upTo, below
<1>10. 100 * Cardinality(upTo) >= percent * n /\ 100 * Cardinality(below) < percent * n
  <2> DEFINE share == percent * n
             c == Cardinality(upTo)
             d == Cardinality(below)
  <2>1. share \in Int BY <1>1
  <2>2. 100 * r >= share /\ 100 * (r - 1) < share BY <1>2, <1>9
  <2>3. r <= c /\ c \in Nat /\ d <= r - 1 /\ d \in Nat /\ r \in Int BY <1>2, <1>6, <1>7
  <2> HIDE DEF share, c, d
  <2>4. 100 * c >= share /\ 100 * d < share BY <2>1, <2>2, <2>3
  <2> QED BY <2>4 DEF share, c, d
<1> QED BY <1>1, <1>8, <1>10 DEF upTo, below
-----------------------------------------------------------------------------
(***************************************************************************)
(* AggregateGroups: the first and the last of a gang's moments.            *)
(***************************************************************************)
SolvesMax(g, T) ==
  \A s \in SUBSET T : g[s] = IF s = {} THEN 0 ELSE maxTime(Pick(s), g[s \ {Pick(s)}])

SolvesMin(g, T) ==
  \A s \in SUBSET T : g[s] = IF s = {} THEN 0 ELSE minTime(Pick(s), g[s \ {Pick(s)}])

LEMMA MaxIsFold ==
  ASSUME NEW T, IsFiniteSet(T), T \subseteq Nat
  PROVE  \E g : SolvesMax(g, T) /\ FoldSet(maxTime, 0, T) = g[T]
<1> DEFINE it == CHOOSE g : g = [s \in SUBSET T |->
                                   IF s = {} THEN 0 ELSE maxTime(Pick(s), g[s \ {Pick(s)}])]
<1>1. FoldSet(maxTime, 0, T) = it[T] BY DEF FoldSet, MapThenFoldSet, Pick
<1>2. PICK h : \A s \in SUBSET T, v \in Nat :
                 h[s][v] = maxTime(Pick(s), v) /\ (s # {} => h[s][v] \in Nat)
  <2> DEFINE h == [s \in SUBSET T |-> [v \in Nat |-> maxTime(Pick(s), v)]]
  <2>1. \A s \in SUBSET T, v \in Nat :
          h[s][v] = maxTime(Pick(s), v) /\ (s # {} => h[s][v] \in Nat)
    BY PickIn DEF maxTime
  <2> HIDE DEF h
  <2> QED BY <2>1
<1>3. PICK g \in [SUBSET T -> Nat] : \A s \in SUBSET T : g[s] = Unrolled(0, h, g, s)
  <2>1. 0 \in Nat /\ \A s \in SUBSET T, v \in Nat : s # {} => h[s][v] \in Nat BY <1>2
  <2>2. PICK g : Recursion(g, T, Nat, 0, h)
    <3> HIDE DEF it
    <3> QED BY <2>1, FoldExists
  <2> QED BY <2>2 DEF Recursion
<1>4. g = [s \in SUBSET T |-> IF s = {} THEN 0 ELSE maxTime(Pick(s), g[s \ {Pick(s)}])]
  <2>1. ASSUME NEW s \in SUBSET T
        PROVE  g[s] = IF s = {} THEN 0 ELSE maxTime(Pick(s), g[s \ {Pick(s)}])
    <3>1. g[s \ {Pick(s)}] \in Nat OBVIOUS
    <3> QED BY <3>1, <1>2, <1>3 DEF Unrolled
  <2> QED BY <2>1
<1>5. it = [s \in SUBSET T |-> IF s = {} THEN 0 ELSE maxTime(Pick(s), it[s \ {Pick(s)}])]
  BY <1>4
<1>6. SolvesMax(it, T)
  <2> HIDE DEF it
  <2> QED BY <1>5 DEF SolvesMax
<1> QED BY <1>1, <1>6

LEMMA MinIsFold ==
  ASSUME NEW T, IsFiniteSet(T), T \subseteq Nat
  PROVE  \E g : SolvesMin(g, T) /\ FoldSet(minTime, 0, T) = g[T]
<1> DEFINE it == CHOOSE g : g = [s \in SUBSET T |->
                                   IF s = {} THEN 0 ELSE minTime(Pick(s), g[s \ {Pick(s)}])]
<1>1. FoldSet(minTime, 0, T) = it[T] BY DEF FoldSet, MapThenFoldSet, Pick
<1>2. PICK h : \A s \in SUBSET T, v \in Nat :
                 h[s][v] = minTime(Pick(s), v) /\ (s # {} => h[s][v] \in Nat)
  <2> DEFINE h == [s \in SUBSET T |-> [v \in Nat |-> minTime(Pick(s), v)]]
  <2>1. \A s \in SUBSET T, v \in Nat :
          h[s][v] = minTime(Pick(s), v) /\ (s # {} => h[s][v] \in Nat)
    BY PickIn DEF minTime
  <2> HIDE DEF h
  <2> QED BY <2>1
<1>3. PICK g \in [SUBSET T -> Nat] : \A s \in SUBSET T : g[s] = Unrolled(0, h, g, s)
  <2>1. 0 \in Nat /\ \A s \in SUBSET T, v \in Nat : s # {} => h[s][v] \in Nat BY <1>2
  <2>2. PICK g : Recursion(g, T, Nat, 0, h)
    <3> HIDE DEF it
    <3> QED BY <2>1, FoldExists
  <2> QED BY <2>2 DEF Recursion
<1>4. g = [s \in SUBSET T |-> IF s = {} THEN 0 ELSE minTime(Pick(s), g[s \ {Pick(s)}])]
  <2>1. ASSUME NEW s \in SUBSET T
        PROVE  g[s] = IF s = {} THEN 0 ELSE minTime(Pick(s), g[s \ {Pick(s)}])
    <3>1. g[s \ {Pick(s)}] \in Nat OBVIOUS
    <3> QED BY <3>1, <1>2, <1>3 DEF Unrolled
  <2> QED BY <2>1
<1>5. it = [s \in SUBSET T |-> IF s = {} THEN 0 ELSE minTime(Pick(s), it[s \ {Pick(s)}])]
  BY <1>4
<1>6. SolvesMin(it, T)
  <2> HIDE DEF it
  <2> QED BY <1>5 DEF SolvesMin
<1> QED BY <1>1, <1>6

\* The last moment is one of them, and none is later.
LEMMA LatestOfAll ==
  ASSUME NEW T, IsFiniteSet(T), T \subseteq Nat
  PROVE  /\ FoldSet(maxTime, 0, T) \in T \cup {0}
         /\ \A x \in T : x <= FoldSet(maxTime, 0, T)
<1>1. PICK g : SolvesMax(g, T) /\ FoldSet(maxTime, 0, T) = g[T] BY MaxIsFold
<1> DEFINE F == {s \in SUBSET T : g[s] \in s \cup {0} /\ \A x \in s : x <= g[s]}
<1>2. ASSUME NEW s \in SUBSET T, \A x \in s : s \ {x} \in F PROVE s \in F
  <2>1. g[s] = IF s = {} THEN 0 ELSE maxTime(Pick(s), g[s \ {Pick(s)}])
    BY <1>1 DEF SolvesMax
  <2>2. CASE s = {} BY <2>1, <2>2
  <2>3. CASE s # {}
    <3>1. PICK p \in s : p = Pick(s) BY <2>3, PickIn
    <3>2. s \ {p} \in F BY <1>2
    <3>3. PICK m \in Nat : m = g[s \ {p}] /\ m \in s \cup {0} /\ \A x \in s \ {p} : x <= m
      BY <3>2
    <3>4. g[s] = maxTime(p, m) BY <2>1, <2>3, <3>1, <3>3
    <3>5. p \in Nat /\ \A x \in s : x \in Nat OBVIOUS
    <3> QED BY <3>3, <3>4, <3>5 DEF maxTime
  <2> QED BY <2>2, <2>3
<1>3. SUBSET T \subseteq F
  <2> HIDE DEF F
  <2> QED BY <1>2, SubsetInduction
<1> QED BY <1>1, <1>3

\* The first moment is one of them, and none that is known is earlier.
LEMMA EarliestOfAll ==
  ASSUME NEW T, IsFiniteSet(T), T \subseteq Nat
  PROVE  /\ FoldSet(minTime, 0, T) \in T \cup {0}
         /\ \A x \in T : x # 0 => FoldSet(minTime, 0, T) \in 1 .. x
<1>1. PICK g : SolvesMin(g, T) /\ FoldSet(minTime, 0, T) = g[T] BY MinIsFold
<1> DEFINE F == {s \in SUBSET T : g[s] \in s \cup {0} /\ \A x \in s : x # 0 => g[s] \in 1 .. x}
<1>2. ASSUME NEW s \in SUBSET T, \A x \in s : s \ {x} \in F PROVE s \in F
  <2>1. g[s] = IF s = {} THEN 0 ELSE minTime(Pick(s), g[s \ {Pick(s)}])
    BY <1>1 DEF SolvesMin
  <2>2. CASE s = {} BY <2>1, <2>2
  <2>3. CASE s # {}
    <3>1. PICK p \in s : p = Pick(s) BY <2>3, PickIn
    <3>2. s \ {p} \in F BY <1>2
    <3>3. PICK m \in Nat : /\ m = g[s \ {p}] /\ m \in s \cup {0}
                           /\ \A x \in s \ {p} : x # 0 => m \in 1 .. x
      BY <3>2
    <3>4. g[s] = minTime(p, m) BY <2>1, <2>3, <3>1, <3>3
    <3>5. p \in Nat /\ \A x \in s : x \in Nat OBVIOUS
    <3>6. g[s] \in s \cup {0} BY <3>3, <3>4 DEF minTime
    <3>7. ASSUME NEW x \in s, x # 0 PROVE g[s] \in 1 .. x
      <4>1. CASE x = p BY <4>1, <3>3, <3>4, <3>5, <3>7 DEF minTime
      <4>2. CASE x # p
        <5>1. m \in 1 .. x /\ m # 0 BY <4>2, <3>3, <3>5, <3>7
        <5> QED BY <5>1, <3>3, <3>4, <3>5 DEF minTime
      <4> QED BY <4>1, <4>2
    <3> QED BY <3>6, <3>7
  <2> QED BY <2>2, <2>3
<1>3. SUBSET T \subseteq F
  <2> HIDE DEF F
  <2> QED BY <1>2, SubsetInduction
<1> QED BY <1>1, <1>3

-----------------------------------------------------------------------------
Moments == {"SubmitTs", "ScheduledTs", "BoundTs", "ReadyTs"}

\* The joined moments are times, and a row's submit time is known.
LEMMA JoinedMoments ==
  ASSUME IInv, NEW p \in submits
  PROVE  /\ p \in Pods
         /\ \A m \in Moments : Joined[p][m] \in Nat
         /\ Joined[p].SubmitTs # 0
         /\ Joined[p].ReadyTs = snapshot[p].ReadyTs
<1>1. p \in Pods /\ submitTs[p] # 0 BY DEF IInv, LogOK, Recorded
<1>2. submitTs[p] \in Nat /\ snapshot[p] \in PodTimeline BY <1>1 DEF IInv, TypeOK, Time
<1>3. /\ Joined[p].SubmitTs = submitTs[p] /\ Joined[p].ScheduledTs = snapshot[p].ScheduledTs
      /\ Joined[p].BoundTs = snapshot[p].BoundTs /\ Joined[p].ReadyTs = snapshot[p].ReadyTs
  BY DEF Joined
<1>4. /\ snapshot[p].ScheduledTs \in Nat /\ snapshot[p].BoundTs \in Nat
      /\ snapshot[p].ReadyTs \in Nat
  BY <1>2 DEF PodTimeline, Time
<1> QED BY <1>1, <1>2, <1>3, <1>4 DEF Moments

\* What Earliest and Latest are of a gang's members.
LEMMA GangMoments ==
  ASSUME IInv, NEW g, NEW m \in Moments
  PROVE  /\ Earliest(g, m) \in Nat /\ Latest(g, m) \in Nat
         /\ \A p \in Members(g) : /\ Joined[p][m] \in Nat /\ Joined[p][m] <= Latest(g, m)
                                  /\ Joined[p][m] # 0 => Earliest(g, m) \in 1 .. Joined[p][m]
         /\ Latest(g, m) = 0 \/ \E p \in Members(g) : Latest(g, m) = Joined[p][m]
<1> DEFINE T == {Joined[p][m] : p \in Members(g)}
<1>1. IsFiniteSet(Members(g)) /\ Members(g) \subseteq submits
  BY FS_Subset, ProfilerAssumption DEF Members, IInv, TypeOK
<1>2. \A p \in Members(g) : Joined[p][m] \in Nat BY <1>1, JoinedMoments
<1>3. IsFiniteSet(T)
  <2> DEFINE f == [p \in Members(g) |-> Joined[p][m]]
  <2>1. f \in Surjection(Members(g), T) BY DEF Surjection
  <2> HIDE DEF f, T
  <2> QED BY <2>1, <1>1, FS_Surjection
<1>4. T \subseteq Nat BY <1>2
<1>5. /\ \A p \in Members(g) : Joined[p][m] \in T
      /\ \A t \in T : \E p \in Members(g) : t = Joined[p][m]
  OBVIOUS
<1>6. Earliest(g, m) = FoldSet(minTime, 0, T) /\ Latest(g, m) = FoldSet(maxTime, 0, T)
  BY DEF Earliest, Latest
<1> HIDE DEF T
<1>7. /\ Latest(g, m) \in T \cup {0} /\ Earliest(g, m) \in T \cup {0}
      /\ \A x \in T : x <= Latest(g, m)
      /\ \A x \in T : x # 0 => Earliest(g, m) \in 1 .. x
  BY <1>3, <1>4, <1>6, LatestOfAll, EarliestOfAll
<1>8. Earliest(g, m) \in Nat /\ Latest(g, m) \in Nat
  <2>1. T \cup {0} \subseteq Nat BY <1>4
  <2> QED BY <2>1, <1>7
<1>9. ASSUME NEW p \in Members(g)
      PROVE  /\ Joined[p][m] \in Nat /\ Joined[p][m] <= Latest(g, m)
             /\ Joined[p][m] # 0 => Earliest(g, m) \in 1 .. Joined[p][m]
  BY <1>2, <1>5, <1>7
<1>10. Latest(g, m) = 0 \/ \E p \in Members(g) : Latest(g, m) = Joined[p][m]
  BY <1>5, <1>7
<1> QED BY <1>8, <1>9, <1>10

\* A complete gang has all its members, each ready in time, and so is its own ready time
\* (group.go AggregateGroups).
THEOREM CompleteGangs == Spec => []CompleteGangIsWhole
<1>1. ASSUME IInv, CompleteWasReadyByCutoff, Reported, NEW g \in CompleteGroups
      PROVE  /\ Cardinality(Members(g)) >= GangSize
             /\ \A p \in Members(g) : server[p] = Ready /\ ~Joined[p].Censored
             /\ GroupTimeline(g).GroupReadyTs <= cutoff
  <2>1. ~CensoredGroup(g) BY DEF CompleteGroups
  <2>2. Members(g) \subseteq submits /\ IsFiniteSet(Members(g))
    BY <1>1, FS_Subset, ProfilerAssumption DEF Members, IInv, TypeOK
  <2>3. Cardinality(Members(g)) \in Nat /\ GangSize \in Nat
    BY <2>2, FS_CardinalityType, ProfilerAssumption
  <2>4. Cardinality(Members(g)) >= GangSize BY <2>1, <2>3 DEF CensoredGroup
  <2>5. \A p \in Members(g) : ~Joined[p].Censored BY <2>1 DEF CensoredGroup
  <2>6. \A p \in Members(g) : server[p] = Ready /\ Joined[p].ReadyTs <= cutoff
    BY <1>1, <2>2, <2>5 DEF CompleteWasReadyByCutoff
  <2>7. GroupTimeline(g).GroupReadyTs <= cutoff
    <3>1. Latest(g, "ReadyTs") = 0 \/ \E p \in Members(g) : Latest(g, "ReadyTs") = Joined[p].ReadyTs
      BY <1>1, GangMoments DEF Moments
    <3>2. cutoff \in Nat /\ 0 <= cutoff BY <1>1 DEF IInv, TypeOK, Time
    <3> QED BY <2>6, <3>1, <3>2 DEF GroupTimeline
  <2> QED BY <2>4, <2>5, <2>6, <2>7
<1>2. IInv /\ CompleteWasReadyByCutoff => CompleteGangIsWhole
  BY <1>1 DEF CompleteGangIsWhole
<1> QED BY <1>2, Invariance, CompleteWasReady, PTL

\* The times of a gang cover those of its members, known or not (group.go
\* AggregateGroups, SummarizeGroups).
THEOREM GangTimesCoverMembers == Spec => []GangSpansCoverMembers
<1>1. ASSUME IInv, NEW g \in AggregatedGroups, NEW p \in Members(g)
      PROVE  /\ GroupTimeline(g).FirstSubmitTs \in 1 .. Joined[p].SubmitTs
             /\ SubmitSpread(g) >= Joined[p].SubmitTs - GroupTimeline(g).FirstSubmitTs
             /\ Joined[p].ScheduledTs # 0 =>
                  /\ GroupTimeline(g).FirstScheduledTs \in 1 .. Joined[p].ScheduledTs
                  /\ GroupTimeline(g).LastScheduledTs >= Joined[p].ScheduledTs
             /\ TimeToReady(g) >= Joined[p].ReadyTs - Joined[p].SubmitTs
  <2>1. Joined[p].SubmitTs # 0 BY <1>1, JoinedMoments DEF Members
  <2>2. /\ Latest(g, "SubmitTs") \in Nat /\ Joined[p].SubmitTs \in Nat
        /\ Joined[p].SubmitTs <= Latest(g, "SubmitTs")
        /\ Earliest(g, "SubmitTs") \in 1 .. Joined[p].SubmitTs
    BY <1>1, <2>1, GangMoments DEF Moments
  <2>3. /\ Latest(g, "ScheduledTs") \in Nat /\ Joined[p].ScheduledTs \in Nat
        /\ Joined[p].ScheduledTs <= Latest(g, "ScheduledTs")
        /\ Joined[p].ScheduledTs # 0 => Earliest(g, "ScheduledTs") \in 1 .. Joined[p].ScheduledTs
    BY <1>1, GangMoments DEF Moments
  <2>4. /\ Latest(g, "ReadyTs") \in Nat /\ Joined[p].ReadyTs \in Nat
        /\ Joined[p].ReadyTs <= Latest(g, "ReadyTs")
    BY <1>1, GangMoments DEF Moments
  <2>5. /\ GroupTimeline(g).FirstSubmitTs = Earliest(g, "SubmitTs")
        /\ GroupTimeline(g).LastSubmitTs = Latest(g, "SubmitTs")
        /\ GroupTimeline(g).FirstScheduledTs = Earliest(g, "ScheduledTs")
        /\ GroupTimeline(g).LastScheduledTs = Latest(g, "ScheduledTs")
        /\ GroupTimeline(g).GroupReadyTs = Latest(g, "ReadyTs")
    BY DEF GroupTimeline
  <2>6. Latest(g, "ReadyTs") - Earliest(g, "SubmitTs") >= Joined[p].ReadyTs - Joined[p].SubmitTs
    BY <2>2, <2>4
  <2>7. Latest(g, "SubmitTs") - Earliest(g, "SubmitTs") >= Joined[p].SubmitTs - Earliest(g, "SubmitTs")
    BY <2>2
  <2> QED BY <2>2, <2>3, <2>5, <2>6, <2>7 DEF SubmitSpread, TimeToReady
<1>2. IInv => GangSpansCoverMembers BY <1>1 DEF GangSpansCoverMembers
<1> QED BY <1>2, Invariance, PTL

\* Every quantile that Summarize reports is the nearest rank (quantile.go Quantiles,
\* report.go Summarize).
THEOREM ReportedQuantiles == Spec => []QuantilesAreNearestRank
<1>1. ASSUME IInv, NEW phase \in Phases, NEW q \in DefaultQuantiles,
             DOMAIN Sample(phase[1], phase[2]) # {}
      PROVE  LET durs == Sample(phase[1], phase[2])
                 n == Cardinality(DOMAIN durs)
                 v == Quantile(durs, q)
             IN  /\ 100 * Cardinality({p \in DOMAIN durs : durs[p] <= v}) >= q * n
                 /\ 100 * Cardinality({p \in DOMAIN durs : durs[p] < v}) < q * n
  <2>1. phase[1] \in Moments /\ phase[2] \in Moments BY DEF Phases, Moments
  <2>2. PICK durs : durs = Sample(phase[1], phase[2]) OBVIOUS
  <2>3. IsFiniteSet(DOMAIN durs) /\ DOMAIN durs \subseteq submits
    BY <1>1, <2>2, FS_Subset, ProfilerAssumption DEF Sample, IInv, TypeOK
  <2>4. ASSUME NEW p \in DOMAIN durs PROVE durs[p] \in Nat
    <3>1. Joined[p][phase[1]] \in Nat /\ Joined[p][phase[2]] \in Nat
      BY <1>1, <2>1, <2>3, JoinedMoments
    <3>2. /\ Joined[p][phase[2]] >= Joined[p][phase[1]]
          /\ durs[p] = Joined[p][phase[2]] - Joined[p][phase[1]]
      BY <2>2 DEF Sample
    <3> QED BY <3>1, <3>2
  <2>5. q \in 1 .. 100 BY DEF DefaultQuantiles
  <2>6. DOMAIN durs # {} BY <1>1, <2>2
  <2>7. LET n == Cardinality(DOMAIN durs)
            v == Quantile(durs, q)
        IN  /\ 100 * Cardinality({p \in DOMAIN durs : durs[p] <= v}) >= q * n
            /\ 100 * Cardinality({p \in DOMAIN durs : durs[p] < v}) < q * n
    BY <2>3, <2>4, <2>5, <2>6, QuantileIsNearest
  <2> QED BY <2>2, <2>7
<1>2. ASSUME NEW durs, Cardinality(DOMAIN durs) > 0 PROVE DOMAIN durs # {}
  BY <1>2, FS_EmptySet
<1>3. IInv => QuantilesAreNearestRank BY <1>1, <1>2 DEF QuantilesAreNearestRank
<1> QED BY <1>3, Invariance, PTL
=============================================================================
