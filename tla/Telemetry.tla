----------------------------- MODULE Telemetry -----------------------------
(***************************************************************************)
(* Invocations of cmd/telemetry that share an output prefix: one after the *)
(* other, restarted after a crash, or at the same time.  Each announces    *)
(* itself in the metadata file, lets a collector goroutine sample the host *)
(* until its context ends, exports Prometheus, and replaces the metadata   *)
(* by its final status.  The files are all that the invocations share.     *)
(***************************************************************************)
EXTENDS Integers, Sequences, FiniteSetsExt, SequencesExt

CONSTANTS
  Procs,               \* the invocations
  Hosted, Queried,     \* those with a host interval, with a Prometheus URL
  Timed,               \* those with a duration; the others wait for a signal
  Counters, Gauges,    \* what the 429 counter and the APF gauge may have been
  NaN, NoProc

ASSUME TelemetryAssumption ==
  /\ Hosted \subseteq Procs /\ Queried \subseteq Procs /\ Timed \subseteq Procs
  /\ Counters \subseteq Seq(Nat \cup {NaN}) /\ Gauges \subseteq Seq(Nat \cup {NaN})
  /\ <<>> \in Counters /\ <<>> \in Gauges
  /\ NaN \notin Nat /\ NoProc \notin Procs

VARIABLES
  meta,     \* <prefix>-meta.json: whose, and its status
  file,     \* the CSV files: whose, and how much of what was written is there
  pc,       \* where run is
  status,   \* what it writes or has written last into its metadata
  tmp,      \* the temporary file of its last WriteMetadata: "none", "torn" or "whole"
  ctx,      \* collectCtx is done
  coll,     \* its collector: "none", "sampling", "idle", "ended" or "failed"
  out,      \* the file it exports
  samples,  \* what Prometheus has told it
  late      \* auxiliary: the invocations that found a run's artifact as they began

vars == <<meta, file, pc, status, tmp, ctx, coll, out, samples, late>>

Data == {"host", "prometheus", "apiserver", "pressure"}
NoMeta == [by |-> NoProc, status |-> "none"]
NoFile == [by |-> NoProc, content |-> "none"]

\* The artifacts of run p beside its metadata.
required(p) ==
  (IF p \in Hosted THEN {"host"} ELSE {}) \cup
  (IF p \in Queried THEN {"prometheus", "apiserver", "pressure"} ELSE {})

\* The prefix holds an artifact that p would write.
Taken(p) == meta # NoMeta \/ \E a \in required(p) : file[a] # NoFile

NoSamples == [http429 |-> <<>>, apf |-> <<>>]

-----------------------------------------------------------------------------
Init ==
  /\ meta = NoMeta /\ file = [a \in Data |-> NoFile]
  /\ pc = [p \in Procs |-> "off"] /\ status = [p \in Procs |-> "none"]
  /\ tmp = [p \in Procs |-> "none"] /\ ctx = [p \in Procs |-> FALSE]
  /\ coll = [p \in Procs |-> "none"] /\ out = [p \in Procs |-> "prometheus"]
  /\ samples = [p \in Procs |-> NoSamples]
  /\ late = {}

Goes(p, to) == pc' = [pc EXCEPT ![p] = to]

\* WriteMetadata is called with a status.
Writes(p, s) == Goes(p, "create") /\ status' = [status EXCEPT ![p] = s]

\* run returns an error after the metadata says "running": stopSignals, and the deferred
\* WriteMetadata.
Fails(p) == Writes(p, "failed")

-----------------------------------------------------------------------------
\* Flags and controls are parsed, the metadata is built, or run returns their error.
Starts(p, valid) ==
  /\ pc[p] = "off"
  /\ Goes(p, IF valid THEN "check" ELSE "exit1")
  /\ late' = IF Taken(p) THEN late \cup {p} ELSE late
  /\ UNCHANGED <<meta, file, status, tmp, ctx, coll, out, samples>>

\* One Stat per required artifact.  They appear in the same order and stay, so that this
\* is as good as looking at all of them at once.
Checks(p) ==
  /\ pc[p] = "check"
  /\ \/ Taken(p) /\ Goes(p, "exit1") /\ UNCHANGED status
     \/ ~Taken(p) /\ Writes(p, "running")
     \/ Goes(p, "exit1") /\ UNCHANGED status   \* Stat or MkdirAll fails
  /\ UNCHANGED <<meta, file, tmp, ctx, coll, out, samples, late>>

\* Mutant: the metadata file is written in place.
CreatesInPlace(p) ==
  /\ pc[p] = "create"
  /\ meta' = [by |-> p, status |-> "torn"]
  /\ tmp' = [tmp EXCEPT ![p] = "torn"]
  /\ Goes(p, "encode")
  /\ UNCHANGED <<file, status, ctx, coll, out, samples, late>>

\* WriteMetadata: CreateTemp.
CreatesTemp(p) ==
  /\ pc[p] = "create"
  /\ tmp' = [tmp EXCEPT ![p] = "torn"]
  /\ Goes(p, "encode")
  /\ UNCHANGED <<meta, file, status, ctx, coll, out, samples, late>>

\* Encode, Sync, Close.
EncodesMeta(p) ==
  /\ pc[p] = "encode"
  /\ tmp' = [tmp EXCEPT ![p] = "whole"]
  /\ Goes(p, "rename")
  /\ UNCHANGED <<meta, file, status, ctx, coll, out, samples, late>>

\* Where run is after WriteMetadata has succeeded.
AfterMeta(s) == CASE s = "running" -> "signals" [] s = "complete" -> "exit0" [] OTHER -> "exit1"

\* Rename.
RenamesMeta(p) ==
  /\ pc[p] = "rename"
  /\ meta' = [by |-> p, status |-> status[p]]
  /\ tmp' = [tmp EXCEPT ![p] = "none"]
  /\ Goes(p, AfterMeta(status[p]))
  /\ UNCHANGED <<file, status, ctx, coll, out, samples, late>>

\* Mutant: run has finished before its last WriteMetadata has.
MetaFailsFinished(p) ==
  /\ pc[p] \in {"create", "encode", "rename"}
  /\ \/ pc[p] # "create" /\ tmp' = [tmp EXCEPT ![p] = "none"]
     \/ UNCHANGED tmp
  /\ Goes(p, IF status[p] = "complete" THEN "exit0" ELSE "exit1") /\ UNCHANGED status
  /\ UNCHANGED <<meta, file, ctx, coll, out, samples, late>>

\* Any step of WriteMetadata fails: the temporary file is removed, unless that fails too,
\* which nobody sees; and run returns the error, which the deferred call turns into
\* "failed" unless it is itself that call or not yet registered.
MetaFails(p) ==
  /\ pc[p] \in {"create", "encode", "rename"}
  /\ \/ pc[p] # "create" /\ tmp' = [tmp EXCEPT ![p] = "none"]
     \/ UNCHANGED tmp
  /\ IF status[p] = "complete" THEN Fails(p) ELSE Goes(p, "exit1") /\ UNCHANGED status
  /\ UNCHANGED <<meta, file, ctx, coll, out, samples, late>>

-----------------------------------------------------------------------------
\* Collection.

\* signal.NotifyContext; from here on a TERM ends the context.
HandlesSignals(p) ==
  /\ pc[p] = "signals"
  /\ Goes(p, IF p \in Hosted THEN "host" ELSE "wait")
  /\ coll' = [coll EXCEPT ![p] = IF p \in Hosted THEN @ ELSE "ended"]
  /\ UNCHANGED <<meta, file, status, tmp, ctx, out, samples, late>>

\* Mutant: an existing file is truncated.
CreatesAnew(p, a) == file' = [file EXCEPT ![a] = [by |-> p, content |-> "empty"]]

\* Creates file a with O_EXCL, or finds it.
Creates(p, a) == file[a] = NoFile /\ file' = [file EXCEPT ![a] = [by |-> p, content |-> "empty"]]

OpensHost(p) ==
  /\ pc[p] = "host"
  /\ \/ /\ Creates(p, "host")
        /\ Goes(p, "wait") /\ coll' = [coll EXCEPT ![p] = "sampling"]
        /\ UNCHANGED status
     \/ Fails(p) /\ UNCHANGED <<file, coll>>
  /\ UNCHANGED <<meta, tmp, ctx, out, samples, late>>

\* A TERM or an interrupt while signals are handled, or the duration passes.
ContextEnds(p, signal) ==
  /\ pc[p] \in {"host", "wait"} /\ ~ctx[p]
  /\ signal \/ p \in Timed
  /\ ctx' = [ctx EXCEPT ![p] = TRUE]
  /\ UNCHANGED <<meta, file, pc, status, tmp, coll, out, samples, late>>

\* CollectHost: ps answers, its row leaves the writer's buffer, the first time together
\* with the header.
Samples(p) ==
  /\ coll[p] = "sampling"
  /\ coll' = [coll EXCEPT ![p] = "idle"]
  /\ file' = [file EXCEPT !["host"].content = "whole"]
  /\ UNCHANGED <<meta, pc, status, tmp, ctx, out, samples, late>>

\* ps fails or the row does not reach the file: an error, unless the context is done and
\* the file can be closed.
SampleFails(p) ==
  /\ coll[p] = "sampling"
  /\ \E end \in (IF ctx[p] THEN {"ended", "failed"} ELSE {"failed"}) :
       coll' = [coll EXCEPT ![p] = end]
  /\ \/ file' = [file EXCEPT !["host"].content = "cut"]
     \/ UNCHANGED file
  /\ UNCHANGED <<meta, pc, status, tmp, ctx, out, samples, late>>

\* The ticker; with a context that is done, ps would not even start.
Ticks(p) ==
  /\ coll[p] = "idle" /\ ~ctx[p]
  /\ coll' = [coll EXCEPT ![p] = "sampling"]
  /\ UNCHANGED <<meta, file, pc, status, tmp, ctx, out, samples, late>>

\* Mutant: the collector only stops after a failure.
CollectorStopsFailing(p) ==
  /\ coll[p] = "failed" /\ ctx[p]
  /\ coll' = [coll EXCEPT ![p] = "ended"]
  /\ UNCHANGED <<meta, file, pc, status, tmp, ctx, out, samples, late>>

\* CollectHost returns; an error of the file's Close becomes the collector's.
CollectorStops(p) ==
  /\ coll[p] = "idle" /\ ctx[p]
  /\ \E end \in {"ended", "failed"} : coll' = [coll EXCEPT ![p] = end]
  /\ UNCHANGED <<meta, file, pc, status, tmp, ctx, out, samples, late>>

\* Mutant: run does not wait for its collector.
WaitedForContext(p) ==
  /\ pc[p] = "wait" /\ ctx[p]
  /\ IF p \in Queried THEN Goes(p, "queries") /\ UNCHANGED status ELSE Writes(p, "complete")
  /\ UNCHANGED <<meta, file, tmp, ctx, coll, out, samples, late>>

\* run waits for the context, then for the collector, and only now sees its error.
Waited(p) ==
  /\ pc[p] = "wait" /\ ctx[p] /\ coll[p] \in {"ended", "failed"}
  /\ IF coll[p] = "failed" THEN Fails(p)
     ELSE IF p \in Queried THEN Goes(p, "queries") /\ UNCHANGED status
     ELSE Writes(p, "complete")
  /\ UNCHANGED <<meta, file, tmp, ctx, coll, out, samples, late>>

-----------------------------------------------------------------------------
\* Export.

\* RangeQuery for each query: an error ends run; a query may have no samples.
Queries(p) ==
  /\ pc[p] = "queries"
  /\ \/ /\ Goes(p, "open") /\ UNCHANGED status
        /\ \E c \in Counters, g \in Gauges :
             samples' = [samples EXCEPT ![p] = [http429 |-> c, apf |-> g]]
     \/ Fails(p) /\ UNCHANGED samples
  /\ UNCHANGED <<meta, file, tmp, ctx, coll, out, late>>

\* writeExclusive opens its file.
Opens(p) ==
  /\ pc[p] = "open"
  /\ \/ Creates(p, out[p]) /\ Goes(p, "fill") /\ UNCHANGED status
     \/ Fails(p) /\ UNCHANGED file
  /\ UNCHANGED <<meta, tmp, ctx, coll, out, samples, late>>

After == [prometheus |-> "apiserver", apiserver |-> "pressure", pressure |-> "pressure"]

\* The rows are written and the file closed.  An error of the last, deferred Flush is not
\* reported: then the file is cut.
Fills(p) ==
  /\ pc[p] = "fill"
  /\ \E content \in {"whole", "cut"} : file' = [file EXCEPT ![out[p]].content = content]
  /\ IF out[p] = "pressure" THEN Writes(p, "complete")
     ELSE Goes(p, "open") /\ UNCHANGED status
  /\ out' = [out EXCEPT ![p] = After[@]]
  /\ UNCHANGED <<meta, tmp, ctx, coll, samples, late>>

\* An error that is reported.
FillFails(p) ==
  /\ pc[p] = "fill"
  /\ file' = [file EXCEPT ![out[p]].content = "cut"]
  /\ Fails(p)
  /\ UNCHANGED <<meta, tmp, ctx, coll, out, samples, late>>

\* External: the process is killed, by SIGKILL, by a crash, or by a TERM while it does not
\* handle signals.
Killed(p) ==
  /\ pc[p] \notin {"off", "exit0", "exit1", "killed"}
  /\ Goes(p, "killed") /\ coll' = [coll EXCEPT ![p] = "none"]
  /\ UNCHANGED <<meta, file, status, tmp, ctx, out, samples, late>>

-----------------------------------------------------------------------------
\* WritePressureCSV.

\* The values that are numbers, in their order.
Numbers(s) ==
  LET upTo[n \in 0 .. Len(s)] ==
        IF n = 0 THEN <<>>
        ELSE IF s[n] = NaN THEN upTo[n - 1] ELSE Append(upTo[n - 1], s[n])
  IN  upTo[Len(s)]

\* Mutant: a counter that was reset gives a negative total.
Delta429Plain(s) == IF Len(s) < 2 THEN 0 ELSE s[Len(s)] - s[1]

\* The last value less the first; only the last when the counter was reset in between.
Delta429(s) ==
  IF Len(s) < 2 THEN 0
  ELSE IF s[Len(s)] < s[1] THEN s[Len(s)]
  ELSE s[Len(s)] - s[1]

Peak(s) == FoldSeq(LAMBDA v, peak : IF v > peak THEN v ELSE peak, 0, s)

WritePressureCSV(told) ==
  LET counter == Numbers(told.http429)
      gauge == Numbers(told.apf)
  IN  [http_429_total |-> [value |-> Delta429(counter), available |-> counter # <<>>],
       apf_inqueue_peak |-> [value |-> Peak(gauge), available |-> gauge # <<>>]]

\* The queries that main reports as missing.
missingQueries(p) == {q \in {"http429", "apf"} : samples[p][q] = <<>>}

-----------------------------------------------------------------------------
Main(p) ==
  \/ Checks(p) \/ CreatesTemp(p) \/ EncodesMeta(p) \/ RenamesMeta(p) \/ MetaFails(p)
  \/ HandlesSignals(p) \/ OpensHost(p) \/ Waited(p)
  \/ Queries(p) \/ Opens(p) \/ Fills(p) \/ FillFails(p)

\* A sample is taken, or ends.
Sampling(p) == Samples(p) \/ SampleFails(p)

Next ==
  \E p \in Procs :
    \/ \E valid \in BOOLEAN : Starts(p, valid)
    \/ Main(p) \/ Sampling(p) \/ Ticks(p) \/ CollectorStops(p)
    \/ \E signal \in BOOLEAN : ContextEnds(p, signal)
    \/ Killed(p)

Spec == Init /\ [][Next]_vars

\* Both goroutines run, ps and Prometheus answer or time out, and a duration passes.
\* Nobody has to send a signal or start an invocation.
FairSpec ==
  /\ Spec
  /\ \A p \in Procs :
       /\ WF_vars(Main(p)) /\ WF_vars(Sampling(p)) /\ WF_vars(CollectorStops(p))
       /\ WF_vars(ContextEnds(p, FALSE))
-----------------------------------------------------------------------------
\* Properties.

Statuses == {"running", "complete", "failed"}
WritingMeta == {"create", "encode", "rename"}
Ended == {"exit0", "exit1", "killed"}

\* Types.  The metadata file is absent or holds a status, never a torn document, whatever
\* crashes (meta.go:117).
TypeOK ==
  /\ meta \in [by : Procs, status : Statuses] \cup {NoMeta}
  /\ file \in [Data -> [by : Procs, content : {"empty", "whole", "cut"}] \cup {NoFile}]
  /\ pc \in [Procs -> {"off", "check", "signals", "host", "wait", "queries", "open", "fill"}
                        \cup WritingMeta \cup Ended]
  /\ status \in [Procs -> Statuses \cup {"none"}]
  /\ tmp \in [Procs -> {"none", "torn", "whole"}]
  /\ ctx \in [Procs -> BOOLEAN]
  /\ coll \in [Procs -> {"none", "sampling", "idle", "ended", "failed"}]
  /\ out \in [Procs -> {"prometheus", "apiserver", "pressure"}]
  /\ samples \in [Procs -> [http429 : Counters, apf : Gauges]]
  /\ late \subseteq Procs

\* A run that is complete has written every artifact it is required to write: it created
\* each itself, filled what it exports, and its collector neither failed nor still runs.
\* Of runs that race for an artifact at most one ends well.
CompleteMeansAllWritten ==
  /\ meta.status = "complete" =>
       /\ \A a \in required(meta.by) :
            /\ file[a].by = meta.by
            /\ a # "host" => file[a].content # "empty"
       /\ coll[meta.by] \in {"ended", "none"}
  /\ \A p, q \in Procs :
       p # q /\ pc[p] = "exit0" /\ pc[q] = "exit0" => required(p) \cap required(q) = {}

\* A run that finds an artifact of an earlier one as it begins writes no metadata.  A CSV
\* file stays with the run that created it, also among runs that started together, and
\* once that run is over nobody writes to it.  The metadata is not protected among runs that
\* started together: a rename replaces what another of them has put there.
EarlierRunsAreKept ==
  [][ /\ meta' # meta => meta'.by \notin late
      /\ \A a \in Data : file[a] # NoFile =>
           /\ file'[a].by = file[a].by
           /\ pc[file[a].by] \in Ended => file'[a] = file[a] ]_vars

\* The exit code and the metadata tell the same story: a run that exits with 0 has left
\* "complete" unless another has replaced it, a run that left "complete" or "failed" is
\* over and does not change its mind, and a run that exits with 0 leaves no temporary file.
ExitMatchesMetadata ==
  \A p \in Procs :
    /\ pc[p] = "exit0" /\ meta.by = p => meta.status = "complete"
    /\ meta = [by |-> p, status |-> "complete"] => pc[p] \in {"exit0", "killed"}
    /\ meta = [by |-> p, status |-> "failed"] => pc[p] \in {"exit1", "killed"}
    /\ pc[p] = "exit0" => tmp[p] = "none"

\* A run whose context ends is over in the end, and so is one with a duration, whatever
\* fails and wherever its collector is then.
EveryRunEnds ==
  \A p \in Procs :
    /\ ctx[p] ~> pc[p] \in Ended
    /\ p \in Timed => (pc[p] # "off" ~> pc[p] \in Ended)

\* What the counter has counted between the samples, resets considered.
Rises(s) ==
  FoldFunction(+, 0, [i \in 1 .. Len(s) - 1 |-> IF s[i + 1] < s[i] THEN s[i + 1] ELSE s[i + 1] - s[i]])

\* The pressure file claims no more than was seen: a missing series is unavailable, the 429
\* total is never negative nor more than the counter rose, and exact without a reset; the
\* queue's peak bounds every sample.
PressureIsJustified ==
  \A p \in Procs :
    file["pressure"] = [by |-> p, content |-> "whole"] =>
      LET row == WritePressureCSV(samples[p])
          counter == Numbers(samples[p].http429)
          gauge == Numbers(samples[p].apf)
          total == row.http_429_total.value
      IN  /\ "http429" \in missingQueries(p) => ~row.http_429_total.available
          /\ "apf" \in missingQueries(p) => ~row.apf_inqueue_peak.available
          /\ total \in 0 .. Rises(counter)
          /\ (\A i \in 1 .. Len(counter) - 1 : counter[i] <= counter[i + 1]) => total = Rises(counter)
          /\ \A i \in DOMAIN gauge : gauge[i] <= row.apf_inqueue_peak.value
=============================================================================
