# Formal models of GPU Fleet Scale Lab

TLA+ models of this repository's Go programs, the TLC runs that check them on small
instances, and theorems about them that TLAPS checks for every value of their constants.
`PROJECT.json` maps every definition to the lines it models, lists the runs, the mutants
(a plausible bug for each checked property, which its run detects), the findings and the
hazards.

## 1. The system and its parts

The repository loads a real Kubernetes control plane with simulated nodes (KWOK).
`loadgen` creates pods, the `scheduler` (kube-scheduler with two plugins of this
repository) places them, the `profiler` watches them and joins what it saw with
`loadgen`'s log, and `telemetry` samples the host and Prometheus meanwhile. Scripts start
these processes; they share only the API server and files.

| Component | State | Operations | Interacts with |
|---|---|---|---|
| TopoGang registry (`topogang/podgroup.go`) | map of groups: minMember, reservations per pod, placements per domain, deadline, state, attempt number, timer flag; one mutex | Ensure, Assign, Release, DecidePermit, RejectIfCollecting | called by the plugin from scheduling cycle, binding goroutines and timer callbacks |
| TopoGang plugin (`topogang/plugin.go`) | the registry; timers it started | PreFilter, Filter, Score, Reserve, Unreserve, Permit, the timer callback | the scheduling framework: scheduler cache and snapshot, waiting pods (each with a signal channel and a timer) |
| CoalescedBind batcher (`coalescedbind/batcher.go`) | `input` and `work` channels, the collector's batch and timer, the admission gate, `closeOnce` | Submit, collector loop, workers, Close | the binding goroutines call Submit; the workers call the API |
| CoalescedBind plugin (`coalescedbind/plugin.go`) | the batcher | Bind, bindOne | framework, API |
| Load generator (`pkg/loadgen`, `cmd/loadgen`) | the producer's sequence and arrival model, the work channel, workers, token bucket, `Stats`, submit log | Run, TokenBucket.Wait, submitWithRetry, Recorder.Record | API (Create, 429), signals, deadline |
| Profiler (`pkg/profiler`, `cmd/profiler`) | timeline per pod UID under a mutex; main's cutoff and log rows | Watch with its handler, Observe, Snapshot, LoadSubmitLog, Join, Summarize, Quantiles, AggregateGroups, the four files | informer callbacks; `loadgen`'s log; the clock both share |
| Telemetry (`pkg/telemetry`, `cmd/telemetry`) | metadata file, CSV files, the collector goroutine | announce, sample, stop, query, export, finish | `ps`, Prometheus, signals; other invocations with the same prefix |
| Scripts, `config/`, `analysis/` | none of their own | process orchestration, manifests, plots | the above |

What is hard in it, and what makes each part correct:

- **Registry and plugin.** Three kinds of threads act on a gang: the scheduling cycle (one
  pod at a time), a binding goroutine per pod, and timers (one per attempt of a group, one
  of the framework per parked pod). Decisions are made under the registry's mutex and acted
  on after it is released. A gang must not be let through early, a parked member must
  neither be forgotten nor left, reservations must mirror what the framework holds on every
  failure path, GPUs must not be over-committed, and gangs must not hold the cluster in a
  circle.
- **Batcher.** Submitters, a collector, workers and several closers meet on two bounded
  channels and a timer. Every accepted request must be bound at most once and answered
  exactly once, through cancellation and shutdown, and Close must return.
- **Load generator.** Producer and workers end for four reasons (limit, deadline, signal,
  failed record) while they may be blocked on the channel, asleep for a token or backing
  off. The rate must be kept however many workers share the bucket, no request may
  disappear from the accounts, and Run must return.
- **Profiler.** The informer's handler may still run when Watch returns, when the cutoff is
  taken and when the tracker is copied; it delivers pods again, late or with versions
  missing; `loadgen` may still be writing its log, or have died within a row. An observed
  moment must stay, what is reported complete must have been ready by the cutoff, every pod
  must be counted once, and a gang with a member missing is not complete.
- **Telemetry.** A run announces itself, samples until it is told to stop, exports and then
  replaces its metadata; any step may fail or be the last, and another invocation may use the
  same prefix. The metadata must never be torn or claim more than was written, a CSV file
  must stay with the run that created it, a run that starts later must not touch the metadata
  of an earlier one, and every run must end. Runs that start together do replace each other's
  metadata (§4).

`PROJECT.json` lists each hazard at its line, with the properties that watch it.

## 2. Modules

| Module | Models | Extends / instantiates |
|---|---|---|
| `PodGroupRegistry` | `podgroup.go`, each method one atomic action, callers arbitrary: the *abstract specification* of gang bookkeeping | – |
| `TopoGang` | `plugin.go` inside the framework | extends `PodGroupRegistry`; implements `RegistrySpec` |
| `BindService` | what the batcher promises: the abstract specification | – |
| `Batcher` | `batcher.go` channel by channel, `bindOne` | `INSTANCE BindService` under a refinement mapping |
| `TokenBucket` | `token_bucket.go`, with its clock: the abstract specification of admission | – |
| `LoadGen` | `run.go`, `retry.go`, `arrival.go` | extends `TokenBucket`; implements `BucketSpec` |
| `Profiler` | `timeline.go`, `watch.go`, `join.go`, `report.go`, `quantile.go`, `group.go`, the profiler's main, and the log `loadgen` writes (`recorder.go`, its main) | – |
| `Telemetry` | `cmd/telemetry`, `meta.go`, `host.go`, `prometheus.go`: any number of invocations with one prefix | – |
| `MC*` | constants of the TLC instances | the module they check |
| `FoldTheorems` | no code: folds and sums over finite sets, and induction as the proofs need it | the library's theorems |
| `*_proofs` | theorems | the module they are about, `FoldTheorems` where it folds, TLAPS |

Definitions keep the names of the code where they can. Three conventions:

- *External* actions (the framework's part, the API, the clock) are marked so in comments
  and in `PROJECT.json`.
- A definition preceded by "Mutant" is not part of the model. It stands beside the
  definition it is a plausible wrong version of.
- *Auxiliary* variables are read by properties only, never by guards. (Two bounds of
  `LoadGen`, `MaxLimits` and `MaxErrors`, count what the environment has done so far.)

### From code to model

**PodGroupRegistry.** `groups[g]` is the map entry or `NoGroup`; `placed` is
`PlacedByDomain`; `attempt` is `AttemptID`, drawn from `nextAttempt`. The deadline of an
attempt is the flag `expired`, raised once by `DeadlinePasses`. `DecidePermit` may be called
with a `now` read before the deadline passed, so it takes `past` as an argument; for a
callback of the group's own timer the deadline has passed. A group is rejected in no other
way, so no attempt is rejected early by the timer of an older one (`RejectedAfterDeadline`,
a conjunct of `RegistryConsistent`);
of the two checks that ensure this, of the attempt and of the deadline, each is enough.
`Bound` is declared in the code
(podgroup.go:24,35) and assigned nowhere, so it is not a state here. `Get` is called by
tests only and creates a group as Ensure does, so it is left out.

**TopoGang.** `stage[p]` is where the framework holds a pod, `assumed` the scheduler's cache,
`snapshot` the copy the running cycle works on, `signal[p]` the one-slot channel of a waiting
pod. `current` and `step` are the scheduling cycle's program counter. Permit is the registry
decision followed by one step per sibling it allows or rejects (`targets`), since other
threads run between those calls. `armed` holds the group timers; a fired callback that
rejected its group is in `firing` until it has collected the waiting pods by name
(`CollectParked`) and then rejects them one by one (`rejecting`). Parking takes effect after
Permit has returned, as in the framework. The framework's timer of a parked pod is set once,
to what was left until its attempt's deadline; the pod's reservation keeps that attempt in the
registry while the pod waits, so the timer is due when the attempt is `expired`.

**Batcher.** `call[r]` is where a Submit is: the gate (`Register`, under `admissions`), the
non-blocking send, the decrement, the wait for the result or its context. The collector's
`select`, drain and exit are separate steps, and each channel operation is one action. The
timer is three flags: running (`timerOn`), expired but tick not yet sent (`tickSent`), tick
buffered in the channel (`tick`); that is what a timer of a module declaring `go 1.22.0` does,
whose channel is buffered and not drained by Stop. Close is `closeOnce.Do` with its joiners.
`binds` and `answers` count, per request, the calls of bindOne and the sends of a result; they
are mapped to the counts of the same names in `BindService`, which allows one of each, so a
second call or answer is a step `BindService` does not have, not a stutter.

**TokenBucket, LoadGen.** Tokens are integers in units of which `Token` make one token and
`Rate` arrive per tick, so fractions of a token are exact; float rounding is not modelled. A
pass of Wait's loop is check the context, then under the lock take a token (`GetsToken`) or
learn how long to sleep (`SleepsForToken`). A request is its sequence number; the send, the
receive, each Create call, its answer, the backoff and the record are steps of their own.
Counters that are added atomically and read only after `workers.Wait` are added in one step
per worker. The span's time is taken (`Created`) before the span is updated (`Records`). A
producer that is cancelled while sending drops the number it was about to send.

**Profiler.** `server[p]` is the newest version of a pod at the API server (pending, bound,
ready). The informer hands any version up to it to the handler, so events may repeat, skip and
lag; ExtractState with its clock (`Extract`) and the tracker's lock (`Observe`) are two steps,
and the context, the cutoff and the snapshot fall anywhere between them. `rows` are the rows
loadgen has recorded, `onDisk` and `cut` what of them is in the file: `Record` may spill the
buffer within a row, `CloseLog` flushes, `Killed` loses the rest. `LoadsLog` reads what is
there, and a row that is cut ends main. The join, the phases, the quantiles and the gangs are
functions of the log, the snapshot and the cutoff, so they are operators; `Ascending` stands for
`sort.Slice`, by what it promises. A pod is its UID (names and
columns are left out); time 0 is Go's zero time. `Quantiles` computes its ceiling by adding
0.9999999 to a float product; the model computes it with integers for percentages. The clamps
of the rank are not modelled, since the rank is always within 1 .. n (`RankIsNearest`).

**Telemetry.** `pc[p]` is where `run` is in invocation p, `status[p]` what it tells its
metadata, `tmp[p]` its temporary file; `WriteMetadata` is create, encode, rename, each of which
may fail. `tmp[p]` is that of its last WriteMetadata: a failed os.Remove, whose error is
ignored (meta.go:128), leaves it behind. `coll[p]` is its collector goroutine; when host.csv
cannot be closed, that is the collector's error, also after a clean stop. `meta` and `file` are the directory, which the
invocations share: O_EXCL makes `Creates` a test and a set, while the Stats of `Checks` come
much earlier. `Killed` stands for SIGKILL, a crash, and a TERM before signals are handled. The
CSV writers return `cw.Error()` before their deferred Flush, so that an error of the last flush
is lost: `Fills` may leave a file that is cut without an error. Prometheus' answer is a
sequence of numbers or NaN for the two pressure queries; the other rows are only written.

## 3. Runs

Sizes are distinct states. All finish without an error except those that are
expected to show a violation.

| Run | Bounds | Asks | States |
|---|---|---|---|
| `gang_spare` | gang of 2 with a third member, nodes of 2 and 1 GPUs, 2 attempts; thread fairness only | does the barrier open only for a full gang and wake all members without any clock? | 116,917 |
| `gang_mixed` | gang of 2, a member with another minMember, a plain pod of 2 GPUs, a malformed pod; nodes of 2 and 1 GPUs; all fairness | symmetry of Reserve/Unreserve, over-commitment, agreement within the registry, `TopoGang` implements `RegistrySpec`, Rejected is final and comes only after the attempt's own deadline, parked members leave | 112,526 |
| `two_gangs` | two gangs of 2, two nodes of one GPU | does the whole-group check prevent circular waiting? | 430,632 |
| `split_gang` | gang of 2 | *violation:* a completed gang may be split | – |
| `stale_callback` | gang of 2, 3 attempts | *violation:* an old callback rejects the next attempt's members | – |
| `wedged_attempt` | gang of 3, 1 attempt; all fairness | *violation:* a rejected attempt with a bound member never ends | – |
| `batcher` | 3 requests, 2 workers, 2 closers, batches of 2, channels of 2 | nothing lost, repeated, reordered; the wait is timed, a flush into a full `work` has its workers; `Batcher` implements `BindService` | 784,216 (up to symmetry) |
| `batcher_live` | 2 requests, 1 worker, 2 closers | every accepted request is answered; every Close returns | 67,115 |
| `batcher_window` | 3 requests, 1 worker, 1 closer | *violation:* a late tick flushes the next batch early | – |
| `loadgen` | 2 workers, 4 pods, channel of 1, spike of 3, burst 2, 1 retry, 2 ticks; two 429s, one other error | rate, accounts, log, span, and Run returns | 348,750 |
| `profiler` | 2 pods that form a gang of 2, the clock at 1 .. 3, timeout 2 | order of moments, complete by the cutoff, every pod once, the log of a finished loadgen is whole, gangs, quantiles | 3,222,568 (up to symmetry) |
| `telemetry` | 2 invocations, both sample, one queries Prometheus and waits for a signal, one has a duration; 5 counter and 2 gauge series | metadata and exit code, CSV files and earlier metadata kept, files complete, the pressure row, every run ends | 526,427 |

**Why the bounds suffice.** Three members are the least for which one may be spare or missing
while two wait; two attempts are the least for an old timer to meet a new attempt, and three
let the callback of the first meet members of the second after another release. Two gangs of
two on two single-GPU nodes is the smallest circular wait. In the batcher, three requests with
batches of two give a full batch, a partial batch and a batch after a stopped timer; channels
of two can be full: `work` after the flush of a full batch, so that the flush of the third
request waits for a worker, and `input`, so that Submit refuses the third. `batcher_live` has
two requests only and never fills them: that a flush into a full `work` is always served is the
safety part, `BatchMovesOn`. In `loadgen` four pods exceed what two workers hold and the channel takes,
so the producer blocks; two tokens serve the first two of them, two workers then sleep for the
same tick, which brings one and a half tokens, so that they wake together and contend for one; MaxRetries 1 with two 429s exhausts one submission's retries; two
ticks allow a refill beyond the capacity and a full run that nothing cancels. In `gang_mixed`
the nodes have two and one GPUs, so the plain pod and the gang exclude each other and a gang
may wait for a member that never comes. In `profiler` two pods are the least for a gang with a
member missing, for a row in the buffer beside one in the file, and for a sample with two
ranks; three clock values tell before, at and after the cutoff apart. In `telemetry` two
invocations are the least for a race for an artifact and for a restart after a crash; the
counters are steady, reset below and above the first value, empty and without a number.
`MaxAttempts`, `MaxTime`, `MaxLimits` and `MaxErrors` are the bounds the code does not have;
each appears as a guard with its name. `MaxPods` bounds also the code's "0 = unlimited".

Deadlock checking is off because every one of these systems may rest: all pods bound, all
callers served, Run returned, the report written, the invocations over. What must not rest is
stated as liveness.

**Fairness.** `TopoGang`: goroutines that can run do (`ThreadFairness`); deadlines pass and
timers fire (`TimeFairness`); no fairness for pods ending, nor for any outcome of a bind.
`gang_spare` uses thread fairness alone, so no timer helps its members. `Batcher`: each
goroutine, the timer and the API's answer; callers need not call, cancel or close. `LoadGen`:
the producer, each worker (the API answers, success or not), the clock and the context's
deadline; nobody has to send a signal. `Telemetry`: main and the collector run, `ps` and
Prometheus answer or time out (the query context has two minutes), and a duration passes;
nobody has to start an invocation or send a signal. `Profiler` states no liveness. All of it
is weak fairness: it is what the Go runtime's scheduler and timers and client timeouts
provide.

## 4. Findings

1. **A gang can be split** (`split_gang`, plugin.go:417). Permit makes the group Ready under
   the lock and allows the siblings afterwards; each sibling also has a framework timer with
   the group's deadline. If it fires in between, the sibling is rejected while the member
   that completed the gang is bound, although plugin.go:118 says Permit "is what actually
   enforces all-or-nothing".
2. **An old callback rejects a new attempt** (`stale_callback`, plugin.go:432). The attempt is
   compared under the lock, the waiting pods are collected by group name after it.
   podgroup.go:363 says this case is safe.
3. **A rejected attempt may never end** (`wedged_attempt`, podgroup.go:281). A bound member
   keeps its reservation, so the group is never deleted and refuses every retry; podgroup.go:27
   says Rejected is terminal for this attempt only.
4. **A batch may be flushed before its window** (`batcher_window`, batcher.go:181). Draining a
   stopped timer without blocking misses a tick that is still on its way; the next batch
   receives it. Day06.md:256 states the rule.

Smaller differences between the code and its comments met while modelling, which no run of their
own shows. The models do what the code does.

- watch.go:40 says that Watch returns once the informer has stopped; it waits for its context
  only. A pod first seen ready after the cutoff, but before the snapshot, is censored by Join
  (`CompleteWasReadyByCutoff`), yet its cold start and end-to-end latency enter the samples
  (report.go:68-76), although report.go:18-20 says that censored pods are excluded.
- report.go:43 says a negative scheduling latency means a wrong join. A pod may be bound and
  seen bound before `loadgen` has read its clock, so a correct join can have one.
- join.go:35 says a cut last line is tolerated; LoadSubmitLog returns an error for it. Conversely
  the log of a `loadgen` that has not ended may be short without a trace when the cut falls
  between two rows: `EndedLogIsWhole` speaks of a log read after its end.
- The CSV writers lose an error of their last flush (prometheus.go:170, 192, 240; report.go and
  group.go likewise), so a file of a complete run may be short.
- main.go:130 refuses to overwrite existing artifacts, the metadata among them (main.go:255),
  but the Stats are made once, at main.go:129, and the rename that puts the metadata in place
  (meta.go:143) replaces whatever is there. Two runs that both pass the Stats replace each
  other's metadata, also one that says "complete": the loser may leave "failed" beside the
  winner's whole files. The model has these steps; `EarlierRunsAreKept` states what does hold.
- A TERM before `NotifyContext` or after the deferred `stopSignals` leaves "running" behind. A
  TERM during the first `ps` leaves an empty host.csv and "complete" (host.go:95), which is why
  `CompleteMeansAllWritten` asks for contents of the exported files only.

## 5. Theorems

Every theorem holds for all values of the constants that satisfy the assumptions named in the
modules: `RegistryAssumption` (finite pods, positive minMembers, distinct markers),
`TopoGangAssumption` (finite nodes, labels and requests of the right type),
`BatcherAssumption` (workers and bounds are not empty: args.go validates them),
`BucketAssumption` (positive rate and burst: `Validate`), `ProfilerAssumption` (finite pods
and gangs, a clock that can show a time), `TelemetryAssumption` (invocations with or without a
collector, queries and duration), `LoadGenAssumption` (finite workers, a channel with room, at
least one pod). One theorem has a hypothesis of its own, `GangsNeverWedge`, which is explained
there.

- **Registry.** The inductive invariant is typing, exact placements, state against count, and
  attempts both distinct and below `nextAttempt`. The last is what keeps
  `AttemptsAreUnique` inductive: without it a new attempt might reuse a number. Exact
  placements follow by cardinality of the reservations of one domain, which changes by the
  one pod a method handles; the code's "count <= 1" branch of Release needs exactly that.
  `RejectedIsTerminal` is an action property proved from the actions. `DeadlineRespected`: a
  rejected attempt is past its own deadline. `RegistryAgrees` puts the four together.
- **TopoGang implements the registry** (`ImplementsRegistry`): each step is a registry action
  or leaves the registry alone. Hence the registry's theorems hold for the plugin.
- **TopoGang's own invariant** (`GangInvariance`) is `RegistryInv` with five links between
  the threads: `FrameworkInv` (which stages go with which step of the cycle; only a parked pod
  has a signal; the targets of a Permit and what a callback has collected are parked),
  `ReservationMirror` (inductive by itself, given the others), `BarrierInv` (a ready group has
  had its quorum, and so has the group whose Permit is waking siblings), `WakeupInv` (a member
  about to park belongs to a group that is not ready), and `TimerInv` (a started timer is armed
  or its deadline has passed, and a parked member's group has started one). `TypeCorrect`,
  `MirrorHolds`, `BarrierHolds`, `NoWakeupLost` and `CollectingTimed` follow. The barrier needs
  the mirror: the quorum is forgotten only when a group is created anew, and the reservation of
  an admitted member is what keeps its group from being deleted.
- **Nodes** (`NeverOvercommitted`). `NodeInv` is `NoOvercommit` with one fact about the snapshot:
  while a cycle runs and its pod is not yet placed, every pod that is on a node was on it in the
  snapshot (`Unplaced`). The binding goroutines, timers and ended pods can only take pods off
  nodes, so the free GPUs that Filter saw are still there when the cycle assumes the pod. The
  rest is what a sum over the pods of a node gains by one pod (`OnNodeSum`, `FreePlaced`).
- **Gangs do not wait in a circle** (`GangsNeverWedge`). `WaitInv` says that the gangs that hold
  GPUs can be ranked such that each can be filled from what is free and what gangs of a higher
  rank hold (`SafeOrder`), and that what PreFilter found is still true when the node is selected
  (`Checked`): in between the cache only loses pods. A gang that is given a pod gets the highest
  rank, since PreFilter has just counted room for the whole of it; a pod that leaves makes room
  and orders nothing anew. The gang with the highest rank can be completed, which is
  `NoCircularWait`. The hypothesis `UniformGangs` (every pod is a gang member, all ask for one
  number of GPUs, members agree on minMember) is the scope of the check in the code, which
  counts slots of the pod's own size: plain pods, or gangs of another size, may take what a gang
  was counted to have. The run `two_gangs` is an instance that satisfies it.
- **Batcher.** `IInv` adds to typing and `Pipeline`: no request is enqueued twice
  (`EnqueuedOnce`), the counts of calls and answers agree with where a request is (`Counted`), a
  taken request has its answer or exactly one worker (`OneHolder`), the
  order of the shutdown (`Shutdown`: gate, admissions, last drain and flush, workers), and when
  a batch has a timer (`Timed`). `BatcherImplementsService` maps every step to a step of
  `BindService` or a stutter; with it comes that no request is bound or answered a second time
  (a step of `BindService` changes a count from 0 to 1 only), and that none is accepted
  after Close. Its hard case is `CloseDone`: the service may be drained only
  because admissions are over, `input`, `batch` and `work` are empty and every worker has
  exited, so that by `Pipeline` and `OneHolder` every accepted request has its answer.
- **Token bucket.** `RateBound` is not inductive: it must also know what the bucket still holds.
  `Credit` says that for each tick t up to the last refill, grants since t *plus the tokens
  left* are within capacity + rate * (last - t), and that no token was granted after a tick the
  bucket has not refilled in. `LoadGenUsesBucket` shows that every step of the load generator is
  a bucket step or none, so `SubmissionsKeepRate` follows.
- **Load generator.** `IInv` says where each number is (`Numbers`: the queue holds the latest, no
  two workers hold the same, none that was dropped or logged is still held), how a submission's
  counts go with its worker (`Counts`), that nothing ends for want of work before all of it is
  given out (`Endings`), and four accounts: numbers sent (`Accounts`), calls and 429s, counting
  what the workers have not added to `Stats` yet (`Sums`), calls against tokens (`Budget`), and
  the successes against the span (`SpanSoFar`: a success is within the span or its worker has
  still to report it). `PodsAreAccounted`, `ReportsAreComplete`, `AttemptsAreCounted` and
  `SpansAreExact` follow. `Budget` is the only way to `creates <= (MaxRetries + 1) * granted`:
  it also counts the calls that the tokens granted so far may still pay for.
- **Profiler.** `IInv` says of each timeline, the tracker's and the copy main takes, that its
  moments are in order and not ahead of the clock, that a ready one belongs to a pod that is
  ready, and that an unseen one is empty (`TimelineOK`); of the observation on its way that its
  time is not before what its pod's timeline holds (`HandlerOK`: there is one handler, which is
  what makes first-write-wins agree with the order of time); and of the log that the rows are
  the recorded pods and, after Close, all in the file, and that main joins no other
  (`LogOK`). `TimelinesInOrder`,
  `CompleteWasReady` and `LogJoinedWhole` follow at once. `ReportedOnce` is by cardinality of
  disjoint unions: an unseen pod has no moments, hence is censored, hence the summary's two
  counts are the join's. `RankIsNearest` is arithmetic and holds for every sample size.
  `ReportedQuantiles` adds that a sorted order exists (`OrderExists`, by induction over the sample) and that cutting it
  at the rank leaves so many at or below and so many strictly below. `CompleteGangs` and
  `GangTimesCoverMembers` rest on what the fold of `minTime` and `maxTime` over a gang returns:
  one of its members' moments, and none earlier or later, unknown ones aside.
- **Telemetry.** `IInv` is stated per invocation: how its program counter, status, temporary file
  and collector go together (`ProgressOK`), which files it owns by where it is (`FilesOK`), what
  the metadata says if it wrote it last, and that a late run found something (`MetaOK`). A step
  of one invocation keeps the invariant of another because no step changes the owner of a file
  or removes one (`Keeps`, `OthersOK`); this is where O_EXCL is needed. `CompleteIsWritten`,
  `ExitIsInMetadata` and `EarlierKept` follow. The last one says that a CSV file stays with its
  creator and is not touched once that run has ended, and that a run which started after another
  had written metadata writes none; of the metadata of runs that start together it says nothing,
  for there it would be false (§4). `PressureJustified` needs no invariant but typing:
  it is a fact about `WritePressureCSV` for answers of any length. The loop that skips what is
  not a number returns a sequence of numbers (`NumbersAreNumbers`), the difference of last and
  first is at most what the counter rose, by induction over the samples (`RisesUpTo`), and the
  peak is the greatest of them (`PeakBounds`).

**Induction.** The library states induction for operators, which the installed provers cannot
instantiate. `FoldTheorems` states it for sets instead (`NatSetInduction`, `SubsetInduction`): F
is the set of the arguments that satisfy the claim, and by well-foundedness (`WFMin`) there is
no least one outside it. `FoldExists` uses that to show that the recursive function behind the
folds of the community modules exists, and the lemmas on sums follow from its equation.

**Checked by TLC only:** liveness (`ReadyGroupLeavesBarrier`, `BarrierIsLeft`,
`AcceptedIsAnswered`, `CloseTerminates`, `RunReturns`, `EveryRunEnds`), since the prover does
not handle fairness and ENABLED. Every invariant, action property and refinement of a passing
run is stated by a theorem.

## 6. Not modelled

- *Unreachable in this program:* Permit's "group not found" error and its `remaining <= 0`
  branch; Submit's nil checks.
- *Left out:* Score's value (any surviving node may be chosen), NormalizeScore, argument
  decoding, metrics, deletion of a pod while it waits, pod manifests and flags. A Create whose
  answer is lost counts as an error in model and code. Of the profiler: the CSV columns and the
  optional Prometheus cross-check at the end, which changes nothing. Of telemetry: parsing of the
  answers of `ps` and Prometheus (an answer that cannot be parsed is a failure), git information,
  and the values of the host, Prometheus and API server rows.
- *Scripts, configuration, analysis:* input and output without a state of their own.

## 7. Plan

Order: what decides correctness of scheduling first, then what feeds it, then what measures it.

1. Done: `PodGroupRegistry`, `TopoGang`, `BindService`, `Batcher`, `TokenBucket`, `LoadGen`,
   `Profiler`, `Telemetry`, each with its run, and the proofs of all their safety properties and
   refinements.
2. Theorems to add: `NoCircularWait` when plain pods use only nodes that no gang can use.
3. Pure algorithms against reference definitions: `gangFitsGPU`, `gpuRequestForPod`,
   NormalizeScore.
4. Runs to add when others can be combined (`batcher` with `batcher_live`): the spike without
   preload (arrival.go:65), the late sample (report.go:75), the cut last line (join.go:35).
