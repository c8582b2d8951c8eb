------------------------------ MODULE Profiler ------------------------------
(***************************************************************************)
(* The profiler (pkg/profiler, cmd/profiler) beside what it measures: pods *)
(* of one loadgen run move from created to bound to ready at the API       *)
(* server, the informer delivers their versions late, repeated or with     *)
(* gaps to one handler goroutine, loadgen appends a row per answered       *)
(* Create to its buffered log, and the profiler's main stops the watch,    *)
(* reads the log, joins it with a snapshot of the tracker and writes four  *)
(* files.                                                                  *)
(*                                                                         *)
(* A pod stands for its UID.  Times are ticks of the host's clock, which   *)
(* the two programs share; 0 is the zero time.Time, "unknown".             *)
(***************************************************************************)
EXTENDS Integers, Sequences, FiniteSetsExt

CONSTANTS
  Pods,
  Groups, GroupOf,   \* the gang of each pod, or NoGroup
  GangSize,          \* min_member of every row
  NoGroup, NoPod,
  Timeout,           \* duration + drain
  MaxTime

ASSUME ProfilerAssumption ==
  /\ IsFiniteSet(Pods) /\ IsFiniteSet(Groups)
  /\ NoGroup \notin Groups /\ NoPod \notin Pods
  /\ GroupOf \in [Pods -> Groups \cup {NoGroup}]
  /\ GangSize \in Nat \ {0} /\ Timeout \in Nat /\ MaxTime \in Nat \ {0}

VARIABLES
  now,
  server,    \* the version of each pod at the API server
  gen,       \* loadgen: "none" until its log exists, then "running", "ended" or "killed"
  rows,      \* the pods it has recorded, in the order of their rows
  submitTs,  \* the submit_ts of each recorded pod
  onDisk,    \* how many rows have left the Recorder's buffer whole
  cut,       \* and whether a part of the next one has
  informer,  \* "off", "listing" or "running"
  handler,   \* the observation between ExtractState and Observe
  timelines, \* Tracker.timelines
  done,      \* ctx is done
  pc,        \* where main is
  cutoff, submits, snapshot,   \* its locals
  logEnded   \* auxiliary: loadgen had ended when main read its log

worldVars == <<now, server>>
genVars == <<gen, rows, submitTs, onDisk, cut>>
watchVars == <<informer, handler, timelines>>
mainVars == <<done, pc, cutoff, submits, snapshot, logEnded>>
vars == <<now, server, gen, rows, submitTs, onDisk, cut, informer, handler, timelines,
          done, pc, cutoff, submits, snapshot, logEnded>>

\* Versions of a pod, in their order.
Absent == 0
Pending == 1
Bound == 2    \* spec.nodeName is set
Ready == 3    \* and so is the Ready condition
Version == Absent .. Ready

Time == 0 .. MaxTime

\* A PodTimeline before the join: none, or its moments.
NoTimeline == [seen |-> FALSE, ScheduledTs |-> 0, BoundTs |-> 0, ReadyTs |-> 0]
PodTimeline == [seen : BOOLEAN, ScheduledTs : Time, BoundTs : Time, ReadyTs : Time]

NoEvent == [pod |-> NoPod, version |-> Absent, at |-> 0]

-----------------------------------------------------------------------------
Init ==
  /\ now = 1
  /\ server = [p \in Pods |-> Absent]
  /\ gen = "none" /\ rows = <<>> /\ submitTs = [p \in Pods |-> 0]
  /\ onDisk = 0 /\ cut = FALSE
  /\ informer = "off" /\ handler = NoEvent
  /\ timelines = [p \in Pods |-> NoTimeline]
  /\ done = FALSE /\ pc = "start" /\ cutoff = 0 /\ submits = {}
  /\ snapshot = [p \in Pods |-> NoTimeline]
  /\ logEnded = FALSE

\* External: the clock.
Tick ==
  /\ now < MaxTime
  /\ now' = now + 1
  /\ UNCHANGED <<server, genVars, watchVars, mainVars>>

-----------------------------------------------------------------------------
\* loadgen (its workers and retries are in LoadGen).

OpensLog ==
  /\ gen = "none"
  /\ gen' = "running"
  /\ UNCHANGED <<worldVars, rows, submitTs, onDisk, cut, watchVars, mainVars>>

\* External: the API server creates the pod.  Its answer may get lost: then no row
\* follows.
Create(p) ==
  /\ gen = "running" /\ server[p] = Absent
  /\ server' = [server EXCEPT ![p] = Pending]
  /\ UNCHANGED <<now, genVars, watchVars, mainVars>>

\* Create has returned: the clock is read and the row goes into the buffer.  When the
\* row does not fit, the buffer goes to the file first, with a part of the row.
Record(p, spills, part) ==
  /\ gen = "running" /\ server[p] # Absent /\ submitTs[p] = 0
  /\ spills => Len(rows) > onDisk
  /\ submitTs' = [submitTs EXCEPT ![p] = now]
  /\ rows' = Append(rows, p)
  /\ onDisk' = IF spills THEN Len(rows) ELSE onDisk
  /\ cut' = IF spills THEN part ELSE cut
  /\ UNCHANGED <<worldVars, gen, watchVars, mainVars>>

\* Mutant: the file is closed, the buffer is not flushed.
CloseLogUnflushed ==
  /\ gen = "running"
  /\ gen' = "ended"
  /\ UNCHANGED <<worldVars, rows, submitTs, onDisk, cut, watchVars, mainVars>>

\* Run has returned: Recorder.Close flushes, then the file is closed.
CloseLog ==
  /\ gen = "running"
  /\ gen' = "ended"
  /\ onDisk' = Len(rows) /\ cut' = FALSE
  /\ UNCHANGED <<worldVars, rows, submitTs, watchVars, mainVars>>

\* External: loadgen is killed, or a write to its log fails and it ends with that error:
\* what was in the buffer is lost, except for what the failing write still took.
Killed(upTo, part) ==
  /\ gen = "running"
  /\ upTo \in onDisk .. Len(rows) /\ (part => upTo < Len(rows))
  /\ gen' = "killed"
  /\ onDisk' = upTo
  /\ cut' = (part \/ (cut /\ upTo = onDisk))
  /\ UNCHANGED <<worldVars, rows, submitTs, watchVars, mainVars>>

\* External: the scheduler binds a pod, the kubelet (KWOK) makes it ready.
PodAdvances(p) ==
  /\ server[p] \in {Pending, Bound}
  /\ server' = [server EXCEPT ![p] = @ + 1]
  /\ UNCHANGED <<now, genVars, watchVars, mainVars>>

-----------------------------------------------------------------------------
\* The watch.

\* External: the informer's first list succeeds.
Lists ==
  /\ informer = "listing"
  /\ informer' = "running"
  /\ UNCHANGED <<worldVars, genVars, handler, timelines, mainVars>>

\* Mutant: the tombstone of a deleted pod is extracted like a pod.
ExtractTombstone(p) ==
  /\ informer = "running" /\ handler = NoEvent
  /\ \E v \in Version : handler' = [pod |-> p, version |-> v, at |-> now]
  /\ UNCHANGED <<worldVars, genVars, informer, timelines, mainVars>>

\* The informer hands a version of a pod to the handler: late, again, with gaps, or, after
\* a list that a lagging server answered, an older one; ExtractState and now() build the
\* observation.  It stops some time after the context is done, maybe not before main ends.
Extract(p) ==
  /\ informer = "running" /\ handler = NoEvent
  /\ \E v \in Pending .. server[p] : handler' = [pod |-> p, version |-> v, at |-> now]
  /\ UNCHANGED <<worldVars, genVars, informer, timelines, mainVars>>

\* Mutant: the last observation wins.
FoldedLast(tl, e) ==
  [seen |-> TRUE,
   ScheduledTs |-> IF e.version >= Bound THEN e.at ELSE tl.ScheduledTs,
   BoundTs |-> IF e.version >= Bound THEN e.at ELSE tl.BoundTs,
   ReadyTs |-> IF e.version = Ready /\ tl.ReadyTs = 0 THEN e.at ELSE tl.ReadyTs]

\* The first observation of each moment wins.
Folded(tl, e) ==
  [seen |-> TRUE,
   ScheduledTs |-> IF e.version >= Bound /\ tl.ScheduledTs = 0 THEN e.at ELSE tl.ScheduledTs,
   BoundTs |-> IF e.version >= Bound /\ tl.BoundTs = 0 THEN e.at ELSE tl.BoundTs,
   ReadyTs |-> IF e.version = Ready /\ tl.ReadyTs = 0 THEN e.at ELSE tl.ReadyTs]

\* Observe folds it into the pod's timeline under the tracker's lock.
Observe ==
  /\ handler # NoEvent
  /\ timelines' = [timelines EXCEPT ![handler.pod] = Folded(@, handler)]
  /\ handler' = NoEvent
  /\ UNCHANGED <<worldVars, genVars, informer, mainVars>>

-----------------------------------------------------------------------------
\* main.

Goes(to) ==
  /\ pc' = to
  /\ UNCHANGED <<worldVars, genVars>>

\* The client is built and the informer started, or main gives up.
StartsWatch ==
  /\ pc = "start"
  /\ \/ Goes("watching") /\ informer' = "listing"
     \/ Goes("fatal") /\ UNCHANGED informer
  /\ UNCHANGED <<handler, timelines, done, cutoff, submits, snapshot, logEnded>>

\* A signal, or the timeout passes.
ContextEnds(signal) ==
  /\ pc = "watching" /\ ~done
  /\ signal \/ (Timeout > 0 /\ now > Timeout)
  /\ done' = TRUE
  /\ UNCHANGED <<worldVars, genVars, watchVars, pc, cutoff, submits, snapshot, logEnded>>

\* Watch returns with the context, synced or not, and waits for no handler; the cutoff
\* is taken next.
WatchReturns ==
  /\ pc = "watching" /\ done
  /\ Goes("load") /\ cutoff' = now
  /\ UNCHANGED <<watchVars, done, submits, snapshot, logEnded>>

\* LoadSubmitLog: a missing file or a row that is cut ends main, otherwise all rows the
\* file holds by now are read.
LoadsLog ==
  /\ pc = "load"
  /\ IF gen = "none" \/ cut
     THEN Goes("fatal") /\ UNCHANGED <<submits, logEnded>>
     ELSE /\ Goes("join")
          /\ submits' = {rows[i] : i \in 1 .. onDisk}
          /\ logEnded' = (gen = "ended")
  /\ UNCHANGED <<watchVars, done, cutoff, snapshot>>

\* Snapshot under the tracker's lock; the join and the summaries are computed from it and
\* go through writeCSV to the four files, or main ends with the first file that fails.
\* From the snapshot on main looks at nothing else.
Reports(ok) ==
  /\ pc = "join"
  /\ Goes(IF ok THEN "done" ELSE "fatal")
  /\ snapshot' = IF ok THEN timelines ELSE snapshot
  /\ UNCHANGED <<watchVars, done, cutoff, submits, logEnded>>

-----------------------------------------------------------------------------
\* The report: what main computes from the log, the snapshot and the cutoff.

\* Mutant: a pod that was ever seen ready is complete.
CensoredAtAll(p) == snapshot[p].ReadyTs = 0

\* Join: is a submitted pod censored?
CensoredPod(p) == snapshot[p].ReadyTs = 0 \/ snapshot[p].ReadyTs > cutoff

\* Join: one timeline per row of the log; an unobserved pod has no moments.
Joined ==
  [p \in submits |->
     [SubmitTs |-> submitTs[p], ScheduledTs |-> snapshot[p].ScheduledTs,
      BoundTs |-> snapshot[p].BoundTs, ReadyTs |-> snapshot[p].ReadyTs,
      Censored |-> CensoredPod(p)]]

\* Join's counts.
Observed == {p \in Pods : snapshot[p].seen}

\* Mutant: the counts are taken from the snapshot, the cutoff is forgotten.
JoinStatsOfSnapshot ==
  [Submitted |-> Cardinality(submits),
   Matched |-> Cardinality(submits \cap Observed),
   Unobserved |-> Cardinality(submits \ Observed),
   Unsubmitted |-> Cardinality(Observed \ submits),
   Censored |-> Cardinality({p \in submits : snapshot[p].seen /\ snapshot[p].ReadyTs = 0}),
   Complete |-> Cardinality({p \in submits : snapshot[p].ReadyTs # 0})]

JoinStats ==
  [Submitted |-> Cardinality(submits),
   Matched |-> Cardinality(submits \cap Observed),
   Unobserved |-> Cardinality(submits \ Observed),
   Unsubmitted |-> Cardinality(Observed \ submits),
   Censored |-> Cardinality({p \in submits \cap Observed : Joined[p].Censored}),
   Complete |-> Cardinality({p \in submits \cap Observed : ~Joined[p].Censored})]

\* Summarize: the durations of one phase; a pod without both ends, or with a negative
\* duration, has none.
Sample(from, to) ==
  [p \in {p \in submits : /\ Joined[p][from] # 0 /\ Joined[p][to] # 0
                          /\ Joined[p][to] >= Joined[p][from]} |->
     Joined[p][to] - Joined[p][from]]

Phases == {<<"SubmitTs", "ScheduledTs">>, <<"ScheduledTs", "BoundTs">>,
           <<"BoundTs", "ReadyTs">>, <<"SubmitTs", "ReadyTs">>}

Count(from, to) == Cardinality(DOMAIN Sample(from, to))
ReportCensored == Cardinality({p \in submits : Joined[p].Censored})
ReportComplete == Cardinality(submits) - ReportCensored

\* Mutant: the rank is rounded down.
RankDown(n, percent) == Max({1, (n * percent) \div 100})

\* Quantiles: the nearest rank, for q = percent/100 between 0 and 1.
Rank(n, percent) == (n * percent + 99) \div 100

\* sort.Slice: the pods of a sample in the order of their durations.
Ascending(durs) ==
  CHOOSE order \in [1 .. Cardinality(DOMAIN durs) -> DOMAIN durs] :
    /\ IsInjective(order)
    /\ \A i, j \in DOMAIN order : i < j => durs[order[i]] <= durs[order[j]]

Quantile(durs, percent) ==
  durs[Ascending(durs)[Rank(Cardinality(DOMAIN durs), percent)]]

DefaultQuantiles == {50, 95, 99}

\* Mutant: an unknown time is the earliest.
minTimeZero(a, b) == IF a = 0 \/ b < a THEN b ELSE a

minTime(a, b) == IF b = 0 THEN a ELSE IF a = 0 \/ b < a THEN b ELSE a
maxTime(a, b) == IF b > a THEN b ELSE a

Members(g) == {p \in submits : GroupOf[p] = g}

Earliest(g, moment) == FoldSet(minTime, 0, {Joined[p][moment] : p \in Members(g)})
Latest(g, moment) == FoldSet(maxTime, 0, {Joined[p][moment] : p \in Members(g)})

\* Mutant: the members that have no row are forgotten.
CensoredGroupOfSome(g) ==
  \E p \in Members(g) : Joined[p].Censored \/ Joined[p].ReadyTs = 0

CensoredGroup(g) ==
  \/ \E p \in Members(g) : Joined[p].Censored \/ Joined[p].ReadyTs = 0
  \/ Cardinality(Members(g)) < GangSize

\* AggregateGroups: the groups that have a member in the log.
AggregatedGroups == {g \in Groups : Members(g) # {}}

GroupTimeline(g) ==
  [MemberCount |-> Cardinality(Members(g)),
   FirstSubmitTs |-> Earliest(g, "SubmitTs"), LastSubmitTs |-> Latest(g, "SubmitTs"),
   FirstScheduledTs |-> Earliest(g, "ScheduledTs"), LastScheduledTs |-> Latest(g, "ScheduledTs"),
   LastBoundTs |-> Latest(g, "BoundTs"), GroupReadyTs |-> Latest(g, "ReadyTs"),
   Censored |-> CensoredGroup(g)]

\* SummarizeGroups: its two samples, of the groups that are complete.
CompleteGroups == {g \in AggregatedGroups : ~CensoredGroup(g)}
SubmitSpread(g) == GroupTimeline(g).LastSubmitTs - GroupTimeline(g).FirstSubmitTs
TimeToReady(g) == GroupTimeline(g).GroupReadyTs - GroupTimeline(g).FirstSubmitTs

-----------------------------------------------------------------------------
LogStep ==
  \/ OpensLog \/ CloseLog
  \/ \E upTo \in onDisk .. Len(rows), part \in BOOLEAN : Killed(upTo, part)
  \/ \E p \in Pods, spills, part \in BOOLEAN : Record(p, spills, part)

WatchStep == Lists \/ (\E p \in Pods : Extract(p)) \/ Observe

MainStep ==
  \/ StartsWatch \/ WatchReturns \/ LoadsLog
  \/ \E ok \in BOOLEAN : Reports(ok)

\* Bounds: main never looks again at the log that it has read, nor at anything after its
\* snapshot, so that what happens there is not followed.
Reading == pc \notin {"join", "done", "fatal"}
Looking == pc \notin {"done", "fatal"}

Next ==
  \/ Looking /\ Tick
  \/ Reading /\ LogStep
  \/ Looking /\ \E p \in Pods : Create(p) \/ PodAdvances(p)
  \/ Looking /\ WatchStep
  \/ MainStep
  \/ \E signal \in BOOLEAN : ContextEnds(signal)

Spec == Init /\ [][Next]_vars
-----------------------------------------------------------------------------
\* Properties.

\* The report has been written.
Reported == pc = "done"

Event == [pod : Pods, version : Pending .. Ready, at : Time] \cup {NoEvent}

TypeOK ==
  /\ now \in Time \ {0}
  /\ server \in [Pods -> Version]
  /\ gen \in {"none", "running", "ended", "killed"}
  /\ rows \in Seq(Pods) /\ submitTs \in [Pods -> Time]
  /\ onDisk \in 0 .. Len(rows) /\ cut \in BOOLEAN
  /\ informer \in {"off", "listing", "running"}
  /\ handler \in Event
  /\ timelines \in [Pods -> PodTimeline] /\ snapshot \in [Pods -> PodTimeline]
  /\ done \in BOOLEAN /\ logEnded \in BOOLEAN
  /\ pc \in {"start", "watching", "load", "join", "done", "fatal"}
  /\ cutoff \in Time /\ submits \subseteq Pods

\* The first observation of a moment stays, however often and late the informer
\* delivers the pod again.
FirstWriteWins ==
  [][\A p \in Pods, m \in {"ScheduledTs", "BoundTs", "ReadyTs"} :
       timelines[p][m] # 0 => timelines'[p][m] = timelines[p][m]]_vars

\* No phase of the profiler's own clock is negative, also when a pod is first seen
\* bound or ready: ready implies bound, no later, and neither lies in the future.
MomentsInOrder ==
  \A p \in Pods :
    LET tl == timelines[p]
    IN  /\ tl.ScheduledTs = tl.BoundTs
        /\ tl.ReadyTs # 0 => tl.BoundTs # 0 /\ tl.BoundTs <= tl.ReadyTs
        /\ tl.BoundTs <= now /\ tl.ReadyTs <= now

\* A pod is reported complete only if it was ready at the server and in sight of the
\* watch by the cutoff; one that was first seen ready after the cutoff, while main had
\* not yet taken its snapshot, is censored.
CompleteWasReadyByCutoff ==
  Reported =>
    \A p \in submits : ~Joined[p].Censored =>
      /\ server[p] = Ready
      /\ Joined[p].BoundTs # 0 /\ Joined[p].ReadyTs <= cutoff

\* Every pod is in the report once, whatever was lost: a row of the log is unobserved,
\* censored or complete, an observed pod without a row is unsubmitted, and the summary's
\* counts agree with the join's.  A complete pod is in the cold-start sample, and what has a
\* cold start was bound.
EveryPodReportedOnce ==
  Reported =>
    /\ JoinStats.Submitted = JoinStats.Unobserved + JoinStats.Censored + JoinStats.Complete
    /\ Cardinality(Observed) = JoinStats.Matched + JoinStats.Unsubmitted
    /\ ReportCensored = JoinStats.Censored + JoinStats.Unobserved
    /\ ReportComplete = JoinStats.Complete
    /\ ReportComplete <= Count("BoundTs", "ReadyTs")
    /\ Count("BoundTs", "ReadyTs") <= Count("ScheduledTs", "BoundTs")

\* The log of a loadgen that has ended is joined whole: every Create that was answered
\* has its row, and a pod without one is a pod whose answer was lost.
EndedLogIsWhole ==
  Reported /\ logEnded => submits = {p \in Pods : submitTs[p] # 0}

\* A gang is complete only when every one of its members has a row and is complete;
\* a member whose Create was not answered, or that was seen too late, censors it.
CompleteGangIsWhole ==
  Reported =>
    \A g \in CompleteGroups :
      /\ Cardinality(Members(g)) >= GangSize
      /\ \A p \in Members(g) : server[p] = Ready /\ ~Joined[p].Censored
      /\ GroupTimeline(g).GroupReadyTs <= cutoff

\* The times of a gang, complete or not, cover its members': unknown moments count
\* neither as the first nor as the last, and no gang is faster than its slowest member.
GangSpansCoverMembers ==
  Reported =>
    \A g \in AggregatedGroups : \A p \in Members(g) :
      LET gt == GroupTimeline(g)
          tl == Joined[p]
      IN  /\ gt.FirstSubmitTs \in 1 .. tl.SubmitTs
          /\ SubmitSpread(g) >= tl.SubmitTs - gt.FirstSubmitTs
          /\ tl.ScheduledTs # 0 =>
               gt.FirstScheduledTs \in 1 .. tl.ScheduledTs /\ gt.LastScheduledTs >= tl.ScheduledTs
          /\ g \in CompleteGroups => TimeToReady(g) >= tl.ReadyTs - tl.SubmitTs

\* Every reported quantile is the nearest rank: no fewer than q of the sample are at or
\* below it, and fewer than q strictly below.
QuantilesAreNearestRank ==
  Reported =>
    \A phase \in Phases, q \in DefaultQuantiles :
      LET durs == Sample(phase[1], phase[2])
          n == Cardinality(DOMAIN durs)
          v == Quantile(durs, q)
      IN  n > 0 =>
            /\ 100 * Cardinality({p \in DOMAIN durs : durs[p] <= v}) >= q * n
            /\ 100 * Cardinality({p \in DOMAIN durs : durs[p] < v}) < q * n
=============================================================================
