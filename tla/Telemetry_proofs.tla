-------------------------- MODULE Telemetry_proofs --------------------------
(***************************************************************************)
(* Theorems about Telemetry: for any number of invocations, whatever they  *)
(* are to collect, whatever fails and wherever they are killed, "complete" *)
(* means that every artifact is written, the exit code and the metadata    *)
(* agree, a CSV file stays with the run that created it, and the pressure  *)
(* file claims no more than Prometheus has told.                           *)
(***************************************************************************)
EXTENDS Telemetry, FoldTheorems, TLAPS

-----------------------------------------------------------------------------
\* The inductive invariant.

\* p has written artifact a.
Written(p, a) == file[a].by = p /\ (a # "host" => file[a].content # "empty")

\* The exports before the one that p is about to write, and its host file.
Before == [prometheus |-> {}, apiserver |-> {"prometheus"},
           pressure |-> {"prometheus", "apiserver"}]

Collecting == {"signals", "host", "wait", "queries", "open", "fill"}

\* What p's own variables say about one another.
ProgressOK(p) ==
  /\ pc[p] \in {"off", "check"} => status[p] = "none"
  /\ pc[p] \in WritingMeta => status[p] # "none"
  /\ pc[p] \in Collecting => status[p] = "running"
  /\ pc[p] = "exit0" => status[p] = "complete"
  /\ status[p] = "complete" => pc[p] \in WritingMeta \cup {"exit0", "killed"}
  /\ tmp[p] # "none" => pc[p] \in WritingMeta \cup {"exit1", "killed"}
  /\ coll[p] \in {"sampling", "idle"} => pc[p] = "wait"
  /\ coll[p] \in {"sampling", "idle"} \/ pc[p] = "host" => p \in Hosted
  /\ pc[p] \in {"off", "check", "signals", "host"} => coll[p] = "none"
  /\ status[p] = "running" /\ pc[p] \in WritingMeta => coll[p] = "none"
  /\ coll[p] = "failed" =>
       pc[p] \in {"wait", "exit1"} \/ (pc[p] \in WritingMeta /\ status[p] = "failed")
  /\ pc[p] \in {"queries", "open", "fill"} => p \in Queried /\ coll[p] = "ended"
  /\ status[p] = "complete" => coll[p] \in {"ended", "none"}
  /\ pc[p] \in {"off", "check", "signals", "host", "wait", "queries"} => out[p] = "prometheus"
  /\ status[p] = "running" /\ pc[p] \in WritingMeta => out[p] = "prometheus"

\* What p has created is still its own.
FilesOK(p) ==
  /\ pc[p] \in {"wait", "queries", "open", "fill"} /\ p \in Hosted => file["host"].by = p
  /\ pc[p] \in {"open", "fill"} => \A a \in Before[out[p]] : Written(p, a)
  /\ pc[p] = "fill" => file[out[p]].by = p
  /\ status[p] = "complete" => \A a \in required(p) : Written(p, a)

\* The metadata that p left last, and a run that came late.
MetaOK(p) ==
  /\ meta.by = p /\ meta.status = "complete" => pc[p] = "exit0"
  /\ meta.by = p /\ meta.status = "failed" => pc[p] = "exit1"
  /\ meta.by = p /\ pc[p] = "exit0" => meta.status = "complete"
  /\ p \in late => pc[p] \in {"check", "exit1", "killed"} /\ Taken(p)

LocalOK(p) == ProgressOK(p) /\ FilesOK(p) /\ MetaOK(p)

IInv == TypeOK /\ \A p \in Procs : LocalOK(p)

-----------------------------------------------------------------------------
\* Steps of one invocation.

\* A step of p leaves the others' variables alone, and no file changes its owner.
Keeps(p) ==
  /\ \A q \in Procs \ {p} :
       /\ pc'[q] = pc[q] /\ status'[q] = status[q] /\ tmp'[q] = tmp[q]
       /\ coll'[q] = coll[q] /\ out'[q] = out[q] /\ (q \in late' <=> q \in late)
  /\ meta' = meta \/ (meta'.by = p /\ meta' # NoMeta)
  /\ \A a \in Data :
       file[a] # NoFile => /\ file'[a] # NoFile /\ file'[a].by = file[a].by
                           /\ file[a].content # "empty" => file'[a].content # "empty"

\* The rest of the invariant holds of the others, too, after such a step.
LEMMA OthersOK ==
  ASSUME IInv, TypeOK', NEW p \in Procs, Keeps(p), NEW q \in Procs \ {p}
  PROVE  LocalOK(q)'
<1> USE TelemetryAssumption
<1>1. /\ LocalOK(q) /\ (q \in late' <=> q \in late)
      /\ pc'[q] = pc[q] /\ status'[q] = status[q] /\ tmp'[q] = tmp[q]
      /\ coll'[q] = coll[q] /\ out'[q] = out[q]
  BY DEF IInv, Keeps
<1>2. ProgressOK(q)' BY <1>1 DEF LocalOK, ProgressOK
<1>3. \A a \in Data : file[a].by = q => file'[a].by = q /\ (Written(q, a) => Written(q, a)')
  BY DEF Keeps, Written, NoFile
<1>4. /\ out[q] \in {"prometheus", "apiserver", "pressure"}
      /\ Before[out[q]] \subseteq Data /\ required(q) \subseteq Data
      /\ "host" \in Data /\ out[q] \in Data
  BY DEF IInv, TypeOK, Before, Data, required
<1>5. FilesOK(q)'
  <2>1. (pc[q] \in {"wait", "queries", "open", "fill"} /\ q \in Hosted => file["host"].by = q)'
    BY <1>1, <1>3, <1>4 DEF LocalOK, FilesOK
  <2>2. (pc[q] \in {"open", "fill"} => \A a \in Before[out[q]] : Written(q, a))'
    BY <1>1, <1>3, <1>4 DEF LocalOK, FilesOK, Written
  <2>3. (pc[q] = "fill" => file[out[q]].by = q)'
    BY <1>1, <1>3, <1>4 DEF LocalOK, FilesOK
  <2>4. (status[q] = "complete" => \A a \in required(q) : Written(q, a))'
    BY <1>1, <1>3, <1>4 DEF LocalOK, FilesOK, Written
  <2> QED BY <2>1, <2>2, <2>3, <2>4 DEF FilesOK
<1>6. Taken(q) => Taken(q)'
  BY <1>4 DEF Taken, Keeps
<1>7. MetaOK(q)' BY <1>1, <1>6 DEF LocalOK, MetaOK, Keeps, required
<1> QED BY <1>2, <1>5, <1>7 DEF LocalOK

\* The steps that change no file, nor the metadata.
QuietStep(p) ==
  \/ Checks(p) \/ CreatesTemp(p) \/ EncodesMeta(p) \/ MetaFails(p) \/ HandlesSignals(p)
  \/ \E signal \in BOOLEAN : ContextEnds(p, signal)
  \/ Ticks(p) \/ CollectorStops(p) \/ Waited(p) \/ Queries(p) \/ Killed(p)

LEMMA QuietStepOK ==
  ASSUME IInv, NEW p \in Procs, QuietStep(p)
  PROVE  TypeOK' /\ Keeps(p) /\ LocalOK(p)'
<1> USE TelemetryAssumption
<1>1. /\ TypeOK /\ LocalOK(p) /\ UNCHANGED <<meta, file, late>>
  BY DEF IInv, QuietStep, Checks, CreatesTemp, EncodesMeta, MetaFails, HandlesSignals, ContextEnds,
         Ticks, CollectorStops, Waited, Queries, Killed
<1>2. CASE CreatesTemp(p)
  <2>1. TypeOK' /\ Keeps(p)
    BY <1>1, <1>2 DEF CreatesTemp, Goes, TypeOK, Keeps, Statuses, WritingMeta, Ended
  <2>2. ProgressOK(p)'
    BY <1>1, <1>2 DEF CreatesTemp, Goes, TypeOK, LocalOK, ProgressOK, WritingMeta, Collecting
  <2>3. FilesOK(p)'
    BY <1>1, <1>2 DEF CreatesTemp, Goes, TypeOK, LocalOK, ProgressOK, FilesOK, Written, WritingMeta, Collecting
  <2>4. MetaOK(p)'
    BY <1>1, <1>2 DEF CreatesTemp, Goes, TypeOK, LocalOK, ProgressOK, MetaOK, Taken, WritingMeta, Collecting
  <2> QED BY <2>1, <2>2, <2>3, <2>4 DEF LocalOK
<1>3. CASE EncodesMeta(p)
  <2>1. TypeOK' /\ Keeps(p)
    BY <1>1, <1>3 DEF EncodesMeta, Goes, TypeOK, Keeps, Statuses, WritingMeta, Ended
  <2>2. ProgressOK(p)'
    BY <1>1, <1>3 DEF EncodesMeta, Goes, TypeOK, LocalOK, ProgressOK, WritingMeta, Collecting
  <2>3. FilesOK(p)'
    BY <1>1, <1>3 DEF EncodesMeta, Goes, TypeOK, LocalOK, ProgressOK, FilesOK, Written, WritingMeta, Collecting
  <2>4. MetaOK(p)'
    BY <1>1, <1>3 DEF EncodesMeta, Goes, TypeOK, LocalOK, ProgressOK, MetaOK, Taken, WritingMeta, Collecting
  <2> QED BY <2>1, <2>2, <2>3, <2>4 DEF LocalOK
<1>4. CASE MetaFails(p)
  <2>1. TypeOK' /\ Keeps(p)
    <3>1. \/ pc' = [pc EXCEPT ![p] = "exit1"] /\ status' = status
          \/ pc' = [pc EXCEPT ![p] = "create"] /\ status' = [status EXCEPT ![p] = "failed"]
      BY <1>4, Zenon DEF MetaFails, Fails, Writes, Goes
    <3>2. /\ tmp' = [tmp EXCEPT ![p] = "none"] \/ tmp' = tmp
          /\ UNCHANGED <<ctx, coll, out, samples>>
      BY <1>4 DEF MetaFails
    <3>3. /\ pc' \in [Procs -> {"off", "check", "signals", "host", "wait", "queries", "open", "fill"}
                                \cup WritingMeta \cup Ended]
          /\ status' \in [Procs -> Statuses \cup {"none"}]
      BY <1>1, <3>1 DEF TypeOK, Statuses, WritingMeta, Ended
    <3>4. \A q \in Procs \ {p} : pc'[q] = pc[q] /\ status'[q] = status[q] /\ tmp'[q] = tmp[q]
      BY <1>1, <3>1, <3>2 DEF TypeOK
    <3>5. TypeOK' BY <1>1, <3>2, <3>3 DEF TypeOK
    <3> QED BY <1>1, <3>2, <3>4, <3>5 DEF Keeps
  <2>2. ProgressOK(p)'
    BY <1>1, <1>4 DEF MetaFails, Goes, Fails, Writes, TypeOK, LocalOK, ProgressOK, WritingMeta, Collecting
  <2>3. FilesOK(p)'
    BY <1>1, <1>4 DEF MetaFails, Goes, Fails, Writes, TypeOK, LocalOK, ProgressOK, FilesOK, Written, WritingMeta, Collecting
  <2>4. MetaOK(p)'
    BY <1>1, <1>4 DEF MetaFails, Goes, Fails, Writes, TypeOK, LocalOK, ProgressOK, MetaOK, Taken, WritingMeta, Collecting
  <2> QED BY <2>1, <2>2, <2>3, <2>4 DEF LocalOK
<1>5. CASE HandlesSignals(p)
  <2>1. TypeOK' /\ Keeps(p)
    BY <1>1, <1>5 DEF HandlesSignals, Goes, TypeOK, Keeps, Statuses, WritingMeta, Ended
  <2>2. ProgressOK(p)'
    BY <1>1, <1>5 DEF HandlesSignals, Goes, TypeOK, LocalOK, ProgressOK, WritingMeta, Collecting
  <2>3. FilesOK(p)'
    BY <1>1, <1>5 DEF HandlesSignals, Goes, TypeOK, LocalOK, ProgressOK, FilesOK, Written, WritingMeta, Collecting
  <2>4. MetaOK(p)'
    BY <1>1, <1>5 DEF HandlesSignals, Goes, TypeOK, LocalOK, ProgressOK, MetaOK, Taken, WritingMeta, Collecting
  <2> QED BY <2>1, <2>2, <2>3, <2>4 DEF LocalOK
<1>6. CASE \E signal \in BOOLEAN : ContextEnds(p, signal)
  <2>1. TypeOK' /\ Keeps(p)
    BY <1>1, <1>6 DEF ContextEnds, TypeOK, Keeps, Statuses, WritingMeta, Ended
  <2>2. ProgressOK(p)'
    BY <1>1, <1>6 DEF ContextEnds, TypeOK, LocalOK, ProgressOK, WritingMeta, Collecting
  <2>3. FilesOK(p)'
    BY <1>1, <1>6 DEF ContextEnds, TypeOK, LocalOK, ProgressOK, FilesOK, Written, WritingMeta, Collecting
  <2>4. MetaOK(p)'
    BY <1>1, <1>6 DEF ContextEnds, TypeOK, LocalOK, ProgressOK, MetaOK, Taken, WritingMeta, Collecting
  <2> QED BY <2>1, <2>2, <2>3, <2>4 DEF LocalOK
<1>7. CASE Ticks(p)
  <2>1. TypeOK' /\ Keeps(p)
    BY <1>1, <1>7 DEF Ticks, TypeOK, Keeps, Statuses, WritingMeta, Ended
  <2>2. ProgressOK(p)'
    BY <1>1, <1>7 DEF Ticks, TypeOK, LocalOK, ProgressOK, WritingMeta, Collecting
  <2>3. FilesOK(p)'
    BY <1>1, <1>7 DEF Ticks, TypeOK, LocalOK, ProgressOK, FilesOK, Written, WritingMeta, Collecting
  <2>4. MetaOK(p)'
    BY <1>1, <1>7 DEF Ticks, TypeOK, LocalOK, ProgressOK, MetaOK, Taken, WritingMeta, Collecting
  <2> QED BY <2>1, <2>2, <2>3, <2>4 DEF LocalOK
<1>8. CASE CollectorStops(p)
  <2>1. TypeOK' /\ Keeps(p)
    BY <1>1, <1>8 DEF CollectorStops, TypeOK, Keeps, Statuses, WritingMeta, Ended
  <2>2. ProgressOK(p)'
    BY <1>1, <1>8 DEF CollectorStops, TypeOK, LocalOK, ProgressOK, WritingMeta, Collecting
  <2>3. FilesOK(p)'
    BY <1>1, <1>8 DEF CollectorStops, TypeOK, LocalOK, ProgressOK, FilesOK, Written, WritingMeta, Collecting
  <2>4. MetaOK(p)'
    BY <1>1, <1>8 DEF CollectorStops, TypeOK, LocalOK, ProgressOK, MetaOK, Taken, WritingMeta, Collecting
  <2> QED BY <2>1, <2>2, <2>3, <2>4 DEF LocalOK
<1>9. CASE Waited(p)
  <2>1. TypeOK' /\ Keeps(p)
    <3>1. \/ pc' = [pc EXCEPT ![p] = "create"] /\ status' = [status EXCEPT ![p] = "failed"]
          \/ pc' = [pc EXCEPT ![p] = "queries"] /\ status' = status
          \/ pc' = [pc EXCEPT ![p] = "create"] /\ status' = [status EXCEPT ![p] = "complete"]
      BY <1>9, Zenon DEF Waited, Fails, Writes, Goes
    <3>2. UNCHANGED <<tmp, ctx, coll, out, samples>> BY <1>9 DEF Waited
    <3>3. /\ pc' \in [Procs -> {"off", "check", "signals", "host", "wait", "queries", "open", "fill"}
                                \cup WritingMeta \cup Ended]
          /\ status' \in [Procs -> Statuses \cup {"none"}]
      BY <1>1, <3>1 DEF TypeOK, Statuses, WritingMeta, Ended
    <3>4. \A q \in Procs \ {p} : pc'[q] = pc[q] /\ status'[q] = status[q] /\ tmp'[q] = tmp[q]
      BY <1>1, <3>1, <3>2 DEF TypeOK
    <3>5. TypeOK' BY <1>1, <3>2, <3>3 DEF TypeOK
    <3> QED BY <1>1, <3>2, <3>4, <3>5 DEF Keeps
  <2>2. ProgressOK(p)'
    BY <1>1, <1>9 DEF Waited, Goes, Fails, Writes, TypeOK, LocalOK, ProgressOK, WritingMeta, Collecting
  <2>3. FilesOK(p)'
    BY <1>1, <1>9 DEF Waited, Goes, Fails, Writes, TypeOK, LocalOK, ProgressOK, FilesOK, Written,
                     required, WritingMeta, Collecting
  <2>4. MetaOK(p)'
    BY <1>1, <1>9 DEF Waited, Goes, Fails, Writes, TypeOK, LocalOK, ProgressOK, MetaOK, Taken, WritingMeta, Collecting
  <2> QED BY <2>1, <2>2, <2>3, <2>4 DEF LocalOK
<1>10. CASE Queries(p)
  <2>1. samples' \in [Procs -> [http429 : Counters, apf : Gauges]]
    <3>1. CASE \E c \in Counters, g \in Gauges :
                 samples' = [samples EXCEPT ![p] = [http429 |-> c, apf |-> g]]
      BY <1>1, <3>1 DEF TypeOK
    <3> QED BY <1>1, <1>10, <3>1 DEF Queries, TypeOK
  <2>2. \/ pc' = [pc EXCEPT ![p] = "open"] /\ status' = status
        \/ pc' = [pc EXCEPT ![p] = "create"] /\ status' = [status EXCEPT ![p] = "failed"]
    BY <1>10, Zenon DEF Queries, Fails, Writes, Goes
  <2>3. pc[p] = "queries" /\ UNCHANGED <<tmp, ctx, coll, out>> BY <1>10 DEF Queries
  <2>4. TypeOK' /\ Keeps(p)
    <3>1. /\ pc' \in [Procs -> {"off", "check", "signals", "host", "wait", "queries", "open", "fill"}
                                \cup WritingMeta \cup Ended]
          /\ status' \in [Procs -> Statuses \cup {"none"}]
      BY <1>1, <2>2 DEF TypeOK, Statuses, WritingMeta, Ended
    <3>2. \A q \in Procs \ {p} : pc'[q] = pc[q] /\ status'[q] = status[q]
      BY <1>1, <2>2 DEF TypeOK
    <3>3. TypeOK' BY <1>1, <2>1, <2>3, <3>1 DEF TypeOK
    <3> QED BY <1>1, <2>3, <3>2, <3>3 DEF Keeps
  <2>5. ProgressOK(p)'
    BY <1>1, <2>2, <2>3 DEF TypeOK, LocalOK, ProgressOK, WritingMeta, Collecting
  <2>6. FilesOK(p)'
    BY <1>1, <2>2, <2>3 DEF TypeOK, LocalOK, ProgressOK, FilesOK, Written, Before, WritingMeta,
                            Collecting
  <2>7. MetaOK(p)'
    BY <1>1, <2>2, <2>3 DEF TypeOK, LocalOK, ProgressOK, MetaOK, Taken, WritingMeta, Collecting
  <2> QED BY <2>4, <2>5, <2>6, <2>7 DEF LocalOK
<1>11. CASE Killed(p)
  <2>1. TypeOK' /\ Keeps(p)
    BY <1>1, <1>11 DEF Killed, Goes, TypeOK, Keeps, Statuses, WritingMeta, Ended
  <2>2. ProgressOK(p)'
    BY <1>1, <1>11 DEF Killed, Goes, TypeOK, LocalOK, ProgressOK, WritingMeta, Collecting
  <2>3. FilesOK(p)'
    BY <1>1, <1>11 DEF Killed, Goes, TypeOK, LocalOK, ProgressOK, FilesOK, Written, WritingMeta, Collecting
  <2>4. MetaOK(p)'
    BY <1>1, <1>11 DEF Killed, Goes, TypeOK, LocalOK, ProgressOK, MetaOK, Taken, WritingMeta, Collecting
  <2> QED BY <2>1, <2>2, <2>3, <2>4 DEF LocalOK
<1>12. CASE Checks(p)
  <2>1. TypeOK' /\ Keeps(p)
    <3>1. \/ pc' = [pc EXCEPT ![p] = "exit1"] /\ status' = status
          \/ pc' = [pc EXCEPT ![p] = "create"] /\ status' = [status EXCEPT ![p] = "running"]
      BY <1>12, Zenon DEF Checks, Writes, Goes
    <3>2. UNCHANGED <<tmp, ctx, coll, out, samples>> BY <1>12 DEF Checks
    <3>3. /\ pc' \in [Procs -> {"off", "check", "signals", "host", "wait", "queries", "open", "fill"}
                                \cup WritingMeta \cup Ended]
          /\ status' \in [Procs -> Statuses \cup {"none"}]
      BY <1>1, <3>1 DEF TypeOK, Statuses, WritingMeta, Ended
    <3>4. \A q \in Procs \ {p} : pc'[q] = pc[q] /\ status'[q] = status[q]
      BY <1>1, <3>1 DEF TypeOK
    <3>5. TypeOK' BY <1>1, <3>2, <3>3 DEF TypeOK
    <3> QED BY <1>1, <3>2, <3>4, <3>5 DEF Keeps
  <2>2. ProgressOK(p)'
    BY <1>1, <1>12 DEF Checks, Goes, Writes, TypeOK, LocalOK, ProgressOK, WritingMeta, Collecting
  <2>3. FilesOK(p)'
    BY <1>1, <1>12 DEF Checks, Goes, Writes, TypeOK, LocalOK, ProgressOK, FilesOK, Written, WritingMeta, Collecting
  <2>4. MetaOK(p)'
    BY <1>1, <1>12 DEF Checks, Goes, Writes, TypeOK, LocalOK, ProgressOK, MetaOK, Taken, WritingMeta, Collecting
  <2> QED BY <2>1, <2>2, <2>3, <2>4 DEF LocalOK
<1> QED BY <1>2, <1>3, <1>4, <1>5, <1>6, <1>7, <1>8, <1>9, <1>10, <1>11, <1>12 DEF QuietStep

FileType == [Data -> [by : Procs, content : {"empty", "whole", "cut"}] \cup {NoFile}]

\* What a step leaves of the files.
FilesKept ==
  \A a \in Data :
    file[a] # NoFile => /\ file'[a] # NoFile /\ file'[a].by = file[a].by
                        /\ file[a].content # "empty" => file'[a].content # "empty"

\* A file that p creates.
LEMMA CreatesOK ==
  ASSUME TypeOK, NEW p \in Procs, NEW a \in Data, Creates(p, a)
  PROVE  /\ file' \in FileType /\ FilesKept /\ file'[a].by = p
         /\ \A b \in Data \ {a} : file'[b] = file[b]
<1>1. file[a] = NoFile /\ file' = [file EXCEPT ![a] = [by |-> p, content |-> "empty"]]
  BY DEF Creates
<1> QED BY <1>1, TelemetryAssumption DEF TypeOK, FileType, FilesKept, NoFile

\* What p writes into a file of its own.
Puts(a, c) == file' = [file EXCEPT ![a].content = c]

LEMMA FillsOK ==
  ASSUME TypeOK, NEW p \in Procs, NEW a \in Data, NEW c \in {"whole", "cut"}, file[a].by = p,
         Puts(a, c)
  PROVE  /\ file' \in FileType /\ FilesKept /\ file'[a] = [by |-> p, content |-> c]
         /\ \A b \in Data \ {a} : file'[b] = file[b]
<1>1. file[a] \in [by : Procs, content : {"empty", "whole", "cut"}]
  BY TelemetryAssumption DEF TypeOK, NoFile
<1>2. file'[a] = [by |-> p, content |-> c] BY <1>1 DEF TypeOK, Puts
<1>3. \A b \in Data \ {a} : file'[b] = file[b] BY DEF TypeOK, Puts
<1>4. file' \in FileType BY <1>2, <1>3 DEF TypeOK, FileType, Puts
<1>5. FilesKept BY <1>2, <1>3, TelemetryAssumption DEF FilesKept, NoFile
<1> QED BY <1>2, <1>3, <1>4, <1>5

\* Starts: the run is late exactly when it found something.
LEMMA StartsOK ==
  ASSUME IInv, NEW p \in Procs, NEW valid \in BOOLEAN, Starts(p, valid)
  PROVE  TypeOK' /\ Keeps(p) /\ LocalOK(p)'
<1> USE TelemetryAssumption
<1>1. TypeOK /\ LocalOK(p) BY DEF IInv
<1>2. TypeOK' BY <1>1 DEF Starts, Goes, TypeOK, Ended
<1>3. Keeps(p) BY <1>1 DEF Starts, Goes, TypeOK, Keeps
<1>4. ProgressOK(p)' BY <1>1 DEF Starts, Goes, TypeOK, LocalOK, ProgressOK, WritingMeta, Collecting
<1>5. FilesOK(p)'
  BY <1>1 DEF Starts, Goes, TypeOK, LocalOK, ProgressOK, FilesOK, Written, WritingMeta, Collecting
<1>6. MetaOK(p)' BY <1>1 DEF Starts, Goes, TypeOK, LocalOK, ProgressOK, MetaOK, Taken
<1> QED BY <1>2, <1>3, <1>4, <1>5, <1>6 DEF LocalOK

\* RenamesMeta: the only step that shows in the metadata.
LEMMA RenamesMetaOK ==
  ASSUME IInv, NEW p \in Procs, RenamesMeta(p)
  PROVE  TypeOK' /\ Keeps(p) /\ LocalOK(p)'
<1> USE TelemetryAssumption
<1>1. TypeOK /\ LocalOK(p) BY DEF IInv
<1>2. status[p] \in Statuses BY <1>1 DEF RenamesMeta, TypeOK, LocalOK, ProgressOK, WritingMeta
<1>3. TypeOK' BY <1>1, <1>2 DEF RenamesMeta, Goes, AfterMeta, TypeOK, Statuses, Ended
<1>4. Keeps(p) BY <1>1 DEF RenamesMeta, Goes, TypeOK, Keeps, NoMeta
<1>5. ProgressOK(p)'
  BY <1>1, <1>2 DEF RenamesMeta, Goes, AfterMeta, TypeOK, LocalOK, ProgressOK, Statuses, WritingMeta,
                    Collecting
<1>6. FilesOK(p)'
  BY <1>1, <1>2 DEF RenamesMeta, Goes, AfterMeta, TypeOK, LocalOK, FilesOK, Written, Statuses
<1>7. MetaOK(p)'
  BY <1>1, <1>2 DEF RenamesMeta, Goes, AfterMeta, TypeOK, LocalOK, MetaOK, Statuses
<1> QED BY <1>3, <1>4, <1>5, <1>6, <1>7 DEF LocalOK

\* The host file.
HostStep(p) == OpensHost(p) \/ Samples(p) \/ SampleFails(p)

LEMMA HostStepOK ==
  ASSUME IInv, NEW p \in Procs, HostStep(p)
  PROVE  TypeOK' /\ Keeps(p) /\ LocalOK(p)'
<1> USE TelemetryAssumption
<1>1. /\ TypeOK /\ LocalOK(p) /\ UNCHANGED <<meta, tmp, ctx, out, samples, late>> /\ "host" \in Data
  BY DEF IInv, HostStep, OpensHost, Samples, SampleFails, Data
<1>2. /\ file' \in FileType /\ FilesKept /\ \A b \in Data \ {"host"} : file'[b] = file[b]
      /\ pc'[p] = "wait" \/ coll[p] = "sampling" => file'["host"].by = p
  <2>1. ASSUME UNCHANGED file, coll[p] = "sampling" \/ (OpensHost(p) /\ Fails(p)) PROVE <1>2
    <3>1. file' \in FileType /\ FilesKept BY <1>1, <2>1 DEF TypeOK, FileType, FilesKept
    <3>2. CASE coll[p] = "sampling"
      BY <2>1, <3>1, <3>2, <1>1 DEF LocalOK, ProgressOK, FilesOK
    <3>3. CASE OpensHost(p) /\ Fails(p)
      <4>1. pc'[p] = "create" /\ coll[p] # "sampling"
        BY <1>1, <3>3 DEF OpensHost, Fails, Writes, Goes, TypeOK, LocalOK, ProgressOK
      <4> QED BY <2>1, <3>1, <4>1
    <3> QED BY <2>1, <3>2, <3>3
  <2>2. CASE Creates(p, "host")
    BY <1>1, <2>2, CreatesOK
  <2>3. ASSUME NEW c \in {"whole", "cut"}, Puts("host", c), coll[p] = "sampling"
        PROVE  <1>2
    <3>1. file["host"].by = p BY <1>1, <2>3 DEF LocalOK, ProgressOK, FilesOK
    <3>2. /\ file' \in FileType /\ FilesKept /\ file'["host"] = [by |-> p, content |-> c]
          /\ \A b \in Data \ {"host"} : file'[b] = file[b]
      BY <1>1, <2>3, <3>1, FillsOK
    <3> QED BY <3>2
  <2> QED BY <2>1, <2>2, <2>3 DEF HostStep, OpensHost, Samples, SampleFails, Puts
<1>3. \/ OpensHost(p)
      \/ coll[p] = "sampling" /\ UNCHANGED <<pc, status>>
           /\ \E c \in {"idle", "ended", "failed"} : coll' = [coll EXCEPT ![p] = c]
  BY DEF HostStep, Samples, SampleFails
<1>4. TypeOK'
  <2>1. /\ pc' \in [Procs -> {"off", "check", "signals", "host", "wait", "queries", "open", "fill"}
                              \cup WritingMeta \cup Ended]
        /\ status' \in [Procs -> Statuses \cup {"none"}]
        /\ coll' \in [Procs -> {"none", "sampling", "idle", "ended", "failed"}]
    <3>1. CASE coll[p] = "sampling" /\ UNCHANGED <<pc, status>>
                 /\ \E c \in {"idle", "ended", "failed"} : coll' = [coll EXCEPT ![p] = c]
      BY <1>1, <3>1 DEF TypeOK
    <3>2. CASE Goes(p, "wait") /\ coll' = [coll EXCEPT ![p] = "sampling"] /\ UNCHANGED status
      BY <1>1, <3>2 DEF Goes, TypeOK
    <3>3. CASE Fails(p) /\ UNCHANGED <<file, coll>>
      BY <1>1, <3>3 DEF Fails, Writes, Goes, TypeOK, Statuses, WritingMeta
    <3> QED BY <1>3, <3>1, <3>2, <3>3 DEF OpensHost
  <2> QED BY <1>1, <1>2, <2>1 DEF TypeOK, FileType
<1>5. Keeps(p)
  BY <1>1, <1>2, <1>3 DEF OpensHost, Fails, Writes, Goes, TypeOK, FilesKept, Keeps
<1>6. ProgressOK(p)'
  BY <1>1 DEF HostStep, OpensHost, Samples, SampleFails, Fails, Writes, Goes, TypeOK, LocalOK, ProgressOK, WritingMeta, Collecting
<1>7. FilesOK(p)'
  BY <1>1, <1>2, <1>3 DEF OpensHost, Fails, Writes, Goes, TypeOK, LocalOK, ProgressOK, FilesOK, WritingMeta, Collecting
<1>8. MetaOK(p)'
  BY <1>1, <1>2, <1>3 DEF OpensHost, Fails, Writes, Goes, TypeOK, LocalOK, ProgressOK, MetaOK, Taken, WritingMeta, Collecting
<1> QED BY <1>4, <1>5, <1>6, <1>7, <1>8 DEF LocalOK

\* The exports.
ExportStep(p) == Opens(p) \/ Fills(p) \/ FillFails(p)

LEMMA ExportStepOK ==
  ASSUME IInv, NEW p \in Procs, ExportStep(p)
  PROVE  TypeOK' /\ Keeps(p) /\ LocalOK(p)'
<1> USE TelemetryAssumption
<1>1. /\ TypeOK /\ LocalOK(p) /\ UNCHANGED <<meta, tmp, ctx, coll, samples, late>>
      /\ out[p] \in {"prometheus", "apiserver", "pressure"}
  BY DEF IInv, ExportStep, Opens, Fills, FillFails, TypeOK
<1>1a. /\ out[p] \in Data /\ Before[out[p]] \subseteq Data /\ out[p] \notin Before[out[p]]
       /\ out[p] # "host" /\ "host" \in Data
  BY <1>1 DEF Data, Before
<1>2. /\ file' \in FileType /\ FilesKept /\ \A b \in Data \ {out[p]} : file'[b] = file[b]
      /\ pc'[p] = "fill" => file'[out[p]].by = p
      /\ Fills(p) => file'[out[p]].by = p /\ file'[out[p]].content # "empty"
  <2>1. CASE Opens(p)
    <3>1. CASE Creates(p, out[p]) /\ Goes(p, "fill")
      <4>1. ~Fills(p) BY <2>1 DEF Opens, Fills
      <4> QED BY <1>1, <1>1a, <3>1, <4>1, CreatesOK
    <3>2. CASE Fails(p) /\ UNCHANGED file
      <4>1. ~Fills(p) BY <2>1 DEF Opens, Fills
      <4>2. pc'[p] = "create" BY <1>1, <3>2 DEF Fails, Writes, Goes, TypeOK
      <4>3. file' \in FileType /\ FilesKept BY <1>1, <3>2 DEF TypeOK, FileType, FilesKept
      <4> QED BY <3>2, <4>1, <4>2, <4>3
    <3> QED BY <2>1, <3>1, <3>2 DEF Opens
  <2>2. CASE Fills(p) \/ FillFails(p)
    <3>1. PICK c \in {"whole", "cut"} : Puts(out[p], c)
      BY <2>2 DEF Fills, FillFails, Puts
    <3>2. file[out[p]].by = p BY <1>1, <2>2 DEF Fills, FillFails, LocalOK, FilesOK
    <3>3. /\ file' \in FileType /\ FilesKept /\ file'[out[p]] = [by |-> p, content |-> c]
          /\ \A b \in Data \ {out[p]} : file'[b] = file[b]
      BY <1>1, <1>1a, <3>1, <3>2, FillsOK
    <3> QED BY <3>3
  <2> QED BY <2>1, <2>2 DEF ExportStep
<1>3. \/ Goes(p, "fill") /\ UNCHANGED <<status, out>> /\ pc[p] = "open"
      \/ Fails(p) /\ UNCHANGED out /\ pc[p] \in {"open", "fill"}
      \/ /\ pc[p] = "fill" /\ Fills(p) /\ out' = [out EXCEPT ![p] = After[@]]
         /\ \/ out[p] = "pressure" /\ Writes(p, "complete")
            \/ out[p] # "pressure" /\ Goes(p, "open") /\ UNCHANGED status
  BY DEF ExportStep, Opens, Fills, FillFails
<1>4. /\ pc' \in [Procs -> {"off", "check", "signals", "host", "wait", "queries", "open", "fill"}
                            \cup WritingMeta \cup Ended]
      /\ status' \in [Procs -> Statuses \cup {"none"}]
      /\ \A q \in Procs \ {p} : pc'[q] = pc[q] /\ status'[q] = status[q]
  <2>1. CASE Goes(p, "fill") /\ UNCHANGED <<status, out>>
    BY <1>1, <2>1 DEF Goes, TypeOK
  <2>2. CASE Fails(p)
    BY <1>1, <2>2 DEF Fails, Writes, Goes, TypeOK, WritingMeta, Statuses
  <2>3. CASE Writes(p, "complete")
    BY <1>1, <2>3 DEF Writes, Goes, TypeOK, WritingMeta, Statuses
  <2>4. CASE Goes(p, "open") /\ UNCHANGED status
    BY <1>1, <2>4 DEF Goes, TypeOK
  <2> QED BY <1>3, <2>1, <2>2, <2>3, <2>4
<1>5. /\ out' \in [Procs -> {"prometheus", "apiserver", "pressure"}]
      /\ \A q \in Procs \ {p} : out'[q] = out[q]
  <2>1. \A x \in {"prometheus", "apiserver", "pressure"} :
          After[x] \in {"prometheus", "apiserver", "pressure"}
    BY DEF After
  <2>2. UNCHANGED out \/ out' = [out EXCEPT ![p] = After[out[p]]] BY <1>3
  <2>3. out \in [Procs -> {"prometheus", "apiserver", "pressure"}] BY <1>1 DEF TypeOK
  <2>4. After[out[p]] \in {"prometheus", "apiserver", "pressure"} BY <1>1, <2>1
  <2> QED BY <2>2, <2>3, <2>4
<1>6. TypeOK' BY <1>1, <1>2, <1>4, <1>5 DEF TypeOK, FileType
<1>7. Keeps(p) BY <1>1, <1>2, <1>4, <1>5 DEF Keeps, FilesKept
<1>8. ProgressOK(p)' /\ MetaOK(p)'
  <2>1. pc[p] \in {"open", "fill"} BY <1>3
  <2>2. \/ pc'[p] \in {"open", "fill"} /\ status'[p] = "running"
        \/ pc'[p] = "create" /\ status'[p] = "failed"
        \/ pc'[p] = "create" /\ status'[p] = "complete"
    BY <1>1, <1>3 DEF Fails, Writes, Goes, TypeOK, LocalOK, ProgressOK, Collecting
  <2> QED BY <1>1, <2>1, <2>2 DEF LocalOK, ProgressOK, MetaOK, WritingMeta, Collecting
<1>9. \A a \in Data : file[a].by = p => /\ file'[a].by = p
                                        /\ file[a].content # "empty" => file'[a].content # "empty"
  BY <1>2 DEF FilesKept, NoFile
<1>10. p \in Hosted => file'["host"].by = p
  BY <1>1, <1>1a, <1>3, <1>9 DEF LocalOK, FilesOK
<1>11. \A a \in Before[out[p]] : file'[a].by = p /\ (a # "host" => file'[a].content # "empty")
  <2>1. pc[p] \in {"open", "fill"} BY <1>3
  <2> QED BY <1>1, <1>1a, <1>9, <2>1 DEF LocalOK, FilesOK, Written
<1>12. FilesOK(p)'
  <2>1. CASE Goes(p, "fill") /\ UNCHANGED <<status, out>> /\ pc[p] = "open"
    <3>1. pc'[p] = "fill" /\ status'[p] = "running" /\ out'[p] = out[p]
      BY <1>1, <2>1 DEF Goes, TypeOK, LocalOK, ProgressOK, Collecting
    <3> QED BY <1>2, <1>10, <1>11, <3>1 DEF FilesOK, Written
  <2>2. CASE Fails(p) /\ UNCHANGED out /\ pc[p] \in {"open", "fill"}
    BY <1>1, <2>2 DEF Fails, Writes, Goes, TypeOK, FilesOK
  <2>3. CASE /\ pc[p] = "fill" /\ Fills(p) /\ out' = [out EXCEPT ![p] = After[@]]
             /\ out[p] = "pressure" /\ Writes(p, "complete")
    <3>1. pc'[p] = "create" /\ status'[p] = "complete"
      BY <1>1, <2>3 DEF Writes, Goes, TypeOK
    <3>2. required(p) \subseteq {"host"} \cup Before[out[p]] \cup {out[p]}
      BY <2>3 DEF required, Before
    <3>3. "host" \in required(p) => p \in Hosted BY DEF required
    <3>4. \A a \in required(p) : file'[a].by = p /\ (a # "host" => file'[a].content # "empty")
      BY <1>2, <1>10, <1>11, <2>3, <3>2, <3>3
    <3> QED BY <3>1, <3>4 DEF FilesOK, Written
  <2>4. CASE /\ pc[p] = "fill" /\ Fills(p) /\ out' = [out EXCEPT ![p] = After[@]]
             /\ out[p] # "pressure" /\ Goes(p, "open") /\ UNCHANGED status
    <3>1. pc'[p] = "open" /\ status'[p] = "running" /\ out'[p] = After[out[p]]
      BY <1>1, <2>4 DEF Goes, TypeOK, LocalOK, ProgressOK, Collecting
    <3>2. Before[After[out[p]]] = Before[out[p]] \cup {out[p]}
      BY <1>1, <2>4 DEF Before, After
    <3>3. \A a \in Before[out'[p]] : file'[a].by = p /\ (a # "host" => file'[a].content # "empty")
      BY <1>2, <1>11, <2>4, <3>1, <3>2
    <3> QED BY <1>10, <3>1, <3>3 DEF FilesOK, Written
  <2> QED BY <1>3, <2>1, <2>2, <2>3, <2>4
<1> QED BY <1>6, <1>7, <1>8, <1>12 DEF LocalOK

-----------------------------------------------------------------------------
LEMMA InitOK == Init => IInv
<1> SUFFICES ASSUME Init PROVE IInv OBVIOUS
<1> USE TelemetryAssumption
<1>1. TypeOK
  <2>1. samples \in [Procs -> [http429 : Counters, apf : Gauges]] BY DEF Init, NoSamples
  <2> QED BY <2>1 DEF Init, TypeOK
<1>2. ASSUME NEW p \in Procs PROVE LocalOK(p)
  <2>1. /\ pc[p] = "off" /\ status[p] = "none" /\ tmp[p] = "none" /\ coll[p] = "none"
        /\ out[p] = "prometheus" /\ meta.by = NoProc /\ late = {}
    BY DEF Init, NoMeta
  <2> QED BY <2>1 DEF LocalOK, ProgressOK, FilesOK, MetaOK, WritingMeta, Collecting
<1> QED BY <1>1, <1>2 DEF IInv

\* A step of p, for short.
Step(p) ==
  (\E valid \in BOOLEAN : Starts(p, valid)) \/ QuietStep(p) \/ RenamesMeta(p) \/ HostStep(p)
  \/ ExportStep(p)

LEMMA StepOK ==
  ASSUME IInv, NEW p \in Procs, Step(p)
  PROVE  TypeOK' /\ Keeps(p) /\ LocalOK(p)'
<1> QED BY StartsOK, QuietStepOK, RenamesMetaOK, HostStepOK, ExportStepOK DEF Step

LEMMA NextSteps ==
  ASSUME Next PROVE \E p \in Procs : Step(p)
<1> QED BY DEF Next, Main, Sampling, Step, QuietStep, HostStep, ExportStep

THEOREM Invariance == Spec => []IInv
<1>1. ASSUME IInv, Next PROVE IInv'
  <2>1. PICK p \in Procs : Step(p) BY <1>1, NextSteps
  <2>2. TypeOK' /\ Keeps(p) /\ LocalOK(p)' BY <1>1, <2>1, StepOK
  <2>3. \A q \in Procs \ {p} : LocalOK(q)' BY <1>1, <2>2, OthersOK
  <2> QED BY <2>2, <2>3 DEF IInv
<1>2. ASSUME IInv, UNCHANGED vars PROVE IInv'
  <2>1. TypeOK' BY <1>2 DEF IInv, TypeOK, vars
  <2>2. ASSUME NEW p \in Procs PROVE LocalOK(p)'
    BY <1>2 DEF IInv, LocalOK, ProgressOK, FilesOK, MetaOK, Written, Taken, vars
  <2> QED BY <2>1, <2>2 DEF IInv
<1> QED BY <1>1, <1>2, InitOK, PTL DEF Spec

-----------------------------------------------------------------------------
\* Theorems.

\* Types, and a metadata file that is never torn (meta.go WriteMetadata).
THEOREM TypeCorrect == Spec => []TypeOK
<1> QED BY Invariance, PTL DEF IInv

\* "complete" in the metadata means that the run has written all it had to (main.go run).
THEOREM CompleteIsWritten == Spec => []CompleteMeansAllWritten
<1>1. IInv => CompleteMeansAllWritten
  <2> SUFFICES ASSUME IInv PROVE CompleteMeansAllWritten OBVIOUS
  <2>1. ASSUME NEW p \in Procs, pc[p] = "exit0"
        PROVE  /\ \A a \in required(p) : Written(p, a)
               /\ coll[p] \in {"ended", "none"}
    BY <2>1 DEF IInv, LocalOK, ProgressOK, FilesOK
  <2>2. ASSUME meta.status = "complete" PROVE meta.by \in Procs /\ pc[meta.by] = "exit0"
    <3>1. meta.by \in Procs BY <2>2 DEF IInv, TypeOK, NoMeta
    <3> QED BY <2>2, <3>1 DEF IInv, LocalOK, MetaOK
  <2>3. ASSUME NEW p \in Procs, NEW q \in Procs, p # q, pc[p] = "exit0", pc[q] = "exit0"
        PROVE  required(p) \cap required(q) = {}
    BY <2>1, <2>3 DEF Written
  <2> QED BY <2>1, <2>2, <2>3 DEF CompleteMeansAllWritten, Written
<1> QED BY <1>1, Invariance, PTL

\* The exit code and the metadata agree (main.go run, its deferred WriteMetadata).
THEOREM ExitIsInMetadata == Spec => []ExitMatchesMetadata
<1>1. IInv => ExitMatchesMetadata
  <2> SUFFICES ASSUME IInv, NEW p \in Procs
               PROVE  /\ pc[p] = "exit0" /\ meta.by = p => meta.status = "complete"
                      /\ meta = [by |-> p, status |-> "complete"] => pc[p] \in {"exit0", "killed"}
                      /\ meta = [by |-> p, status |-> "failed"] => pc[p] \in {"exit1", "killed"}
                      /\ pc[p] = "exit0" => tmp[p] = "none"
    BY DEF ExitMatchesMetadata
  <2>1. ProgressOK(p) /\ MetaOK(p) BY DEF IInv, LocalOK
  <2> QED BY <2>1 DEF ProgressOK, MetaOK, WritingMeta
<1> QED BY <1>1, Invariance, PTL

\* A run that begins after another has left an artifact writes no metadata (main.go:128);
\* and a CSV file stays with the run that created it, also among runs that started
\* together, and is not touched once that run is over (main.go:163, writeExclusive).  It
\* says nothing of the metadata of runs that started together.
THEOREM EarlierKept == Spec => EarlierRunsAreKept
<1> DEFINE A == /\ meta' # meta => meta'.by \notin late
                /\ \A a \in Data : file[a] # NoFile =>
                     /\ file'[a].by = file[a].by
                     /\ pc[file[a].by] \in Ended => file'[a] = file[a]
<1>1. ASSUME IInv, Next PROVE A
  <2>1. PICK p \in Procs : Step(p) BY <1>1, NextSteps
  <2>2. Keeps(p) BY <1>1, <2>1, StepOK
  <2>3. ASSUME meta' # meta PROVE meta'.by = p /\ RenamesMeta(p)
    BY <2>1, <2>2, <2>3
    DEF Keeps, Step, Starts, QuietStep, HostStep, ExportStep, Checks, CreatesTemp, EncodesMeta,
        MetaFails, HandlesSignals, ContextEnds, Ticks, CollectorStops, Waited, Queries, Killed,
        OpensHost, Samples, SampleFails, Opens, Fills, FillFails
  <2>4. RenamesMeta(p) => p \notin late BY <1>1 DEF RenamesMeta, IInv, LocalOK, MetaOK
  <2>5. ASSUME NEW a \in Data, file[a] # NoFile, pc[file[a].by] \in Ended
        PROVE  file'[a] = file[a]
    <3>1. file \in [Data -> [by : Procs, content : {"empty", "whole", "cut"}] \cup {NoFile}]
      BY <1>1 DEF IInv, TypeOK
    <3>2. ProgressOK(p) /\ FilesOK(p) BY <1>1 DEF IInv, LocalOK
    <3>3. CASE Starts(p, TRUE) \/ Starts(p, FALSE) \/ QuietStep(p) \/ RenamesMeta(p)
      BY <3>3 DEF Starts, QuietStep, Checks, CreatesTemp, EncodesMeta, RenamesMeta, MetaFails,
         HandlesSignals, ContextEnds, Ticks, CollectorStops, Waited, Queries, Killed
    <3>4. CASE HostStep(p)
      <4>1. CASE OpensHost(p)
        BY <4>1, <3>1, <2>5 DEF OpensHost, Creates
      <4>2. CASE Samples(p) \/ SampleFails(p)
        <5>1. coll[p] = "sampling" BY <4>2 DEF Samples, SampleFails
        <5>2. file["host"].by = p /\ pc[p] \notin Ended
          BY <5>1, <3>2 DEF ProgressOK, FilesOK, Ended
        <5>3. a # "host" BY <5>2, <2>5
        <5> QED BY <4>2, <5>3, <3>1 DEF Samples, SampleFails
      <4> QED BY <3>4, <4>1, <4>2 DEF HostStep
    <3>5. CASE ExportStep(p)
      <4>1. CASE Opens(p)
        BY <4>1, <3>1, <2>5 DEF Opens, Creates
      <4>2. CASE Fills(p) \/ FillFails(p)
        <5>1. pc[p] = "fill" BY <4>2 DEF Fills, FillFails
        <5>2. file[out[p]].by = p /\ pc[p] \notin Ended
          BY <5>1, <3>2 DEF FilesOK, Ended
        <5>3. a # out[p] BY <5>2, <2>5
        <5> QED BY <4>2, <5>3, <3>1 DEF Fills, FillFails
      <4> QED BY <3>5, <4>1, <4>2 DEF ExportStep
    <3> QED BY <2>1, <3>3, <3>4, <3>5 DEF Step
  <2> QED BY <2>2, <2>3, <2>4, <2>5 DEF Keeps
<1>2. IInv /\ [Next]_vars => [A]_vars BY <1>1
<1> HIDE DEF A
<1>3. Spec => [][A]_vars BY <1>2, Invariance, PTL DEF Spec
<1> QED BY <1>3 DEF A, EarlierRunsAreKept
-----------------------------------------------------------------------------
(***************************************************************************)
(* WritePressureCSV: what its numbers come to.                             *)
(***************************************************************************)
ReadUpTo(g, s) ==
  \A n \in 0 .. Len(s) :
    g[n] = IF n = 0 THEN <<>> ELSE IF s[n] = NaN THEN g[n - 1] ELSE Append(g[n - 1], s[n])

\* The loop over the samples can be run to any point.
LEMMA LoopExists ==
  ASSUME NEW s \in Seq(Nat \cup {NaN})
  PROVE  \E g : ReadUpTo(g, s) /\ g = [n \in 0 .. Len(s) |-> g[n]]
<1> DEFINE Right(n, g) ==
             \A i \in 0 .. n :
               g[i] = IF i = 0 THEN <<>>
                      ELSE IF s[i] = NaN THEN g[i - 1] ELSE Append(g[i - 1], s[i])
           F == {n \in Nat : n <= Len(s) => \E g : g = [i \in 0 .. n |-> g[i]] /\ Right(n, g)}
<1>0. 0 \in F
  <2> DEFINE g == [i \in 0 .. 0 |-> <<>>]
  <2>1. g = [i \in 0 .. 0 |-> g[i]] /\ Right(0, g) OBVIOUS
  <2> HIDE DEF g, Right
  <2> QED BY <2>1
<1>1. ASSUME NEW n \in Nat, n \in F PROVE n + 1 \in F
  <2> SUFFICES ASSUME n + 1 <= Len(s)
               PROVE  \E g : g = [i \in 0 .. n + 1 |-> g[i]] /\ Right(n + 1, g)
    OBVIOUS
  <2>1. n <= Len(s) OBVIOUS
  <2>2. PICK g : g = [i \in 0 .. n |-> g[i]] /\ Right(n, g) BY <1>1, <2>1
  <2> DEFINE next == IF s[n + 1] = NaN THEN g[n] ELSE Append(g[n], s[n + 1])
             k == [i \in 0 .. n + 1 |-> IF i = n + 1 THEN next ELSE g[i]]
  <2>4. /\ \A i \in 0 .. n : k[i] = g[i] /\ i \in 0 .. n + 1 /\ i # n + 1
        /\ k[n + 1] = next
    OBVIOUS
  <2>5. k = [i \in 0 .. n + 1 |-> k[i]] OBVIOUS
  <2> HIDE DEF k
  <2>6. Right(n + 1, k)
    <3> SUFFICES ASSUME NEW i \in 0 .. n + 1
                 PROVE  k[i] = IF i = 0 THEN <<>>
                               ELSE IF s[i] = NaN THEN k[i - 1] ELSE Append(k[i - 1], s[i])
      OBVIOUS
    <3>1. CASE i = n + 1
      <4>1. i # 0 /\ i - 1 = n /\ k[i - 1] = g[n] BY <3>1, <2>4
      <4> QED BY <3>1, <4>1, <2>4
    <3>2. CASE i # n + 1
      <4>1. i \in 0 .. n /\ (i # 0 => i - 1 \in 0 .. n) BY <3>2
      <4>2. k[i] = g[i] /\ (i # 0 => k[i - 1] = g[i - 1]) BY <4>1, <2>4
      <4> QED BY <4>1, <4>2, <2>2
    <3> QED BY <3>1, <3>2
  <2> HIDE DEF Right
  <2> QED BY <2>5, <2>6
<1>2. Len(s) \in F
  <2> HIDE DEF F
  <2>1. Nat \subseteq F BY <1>0, <1>1, NatSetInduction
  <2> QED BY <2>1
<1>3. PICK g : g = [i \in 0 .. Len(s) |-> g[i]] /\ Right(Len(s), g) BY <1>2
<1>4. ReadUpTo(g, s) BY <1>3 DEF ReadUpTo
<1> QED BY <1>3, <1>4

LEMMA NumbersAreNumbers ==
  ASSUME NEW s \in Seq(Nat \cup {NaN})
  PROVE  Numbers(s) \in Seq(Nat) /\ (s = <<>> => Numbers(s) = <<>>)
<1> DEFINE it == CHOOSE g : g = [n \in 0 .. Len(s) |->
                                   IF n = 0 THEN <<>>
                                   ELSE IF s[n] = NaN THEN g[n - 1] ELSE Append(g[n - 1], s[n])]
<1>1. Numbers(s) = it[Len(s)] BY DEF Numbers
<1>2. PICK g : ReadUpTo(g, s) /\ g = [n \in 0 .. Len(s) |-> g[n]] BY LoopExists
<1>3. g = [n \in 0 .. Len(s) |->
             IF n = 0 THEN <<>>
             ELSE IF s[n] = NaN THEN g[n - 1] ELSE Append(g[n - 1], s[n])]
  BY <1>2 DEF ReadUpTo
<1>4. it = [n \in 0 .. Len(s) |->
              IF n = 0 THEN <<>>
              ELSE IF s[n] = NaN THEN it[n - 1] ELSE Append(it[n - 1], s[n])]
  BY <1>3
<1> HIDE DEF it
<1> DEFINE F == {n \in Nat : n <= Len(s) => it[n] \in Seq(Nat)}
<1>5. ASSUME NEW n \in 0 .. Len(s)
      PROVE  it[n] = IF n = 0 THEN <<>>
                     ELSE IF s[n] = NaN THEN it[n - 1] ELSE Append(it[n - 1], s[n])
  BY <1>4
<1>6. 0 \in F
  <2>1. 0 \in 0 .. Len(s) /\ <<>> \in Seq(Nat) OBVIOUS
  <2>2. it[0] = <<>> BY <2>1, <1>5
  <2> QED BY <2>1, <2>2
<1>7. ASSUME NEW n \in Nat, n \in F PROVE n + 1 \in F
  <2> SUFFICES ASSUME n + 1 <= Len(s) PROVE it[n + 1] \in Seq(Nat) OBVIOUS
  <2>1. n + 1 \in 1 .. Len(s) /\ s[n + 1] \in Nat \cup {NaN} /\ it[n] \in Seq(Nat) BY <1>7
  <2>2. it[n + 1] = IF s[n + 1] = NaN THEN it[n] ELSE Append(it[n], s[n + 1])
    <3>1. n + 1 \in 0 .. Len(s) /\ n + 1 # 0 /\ (n + 1) - 1 = n BY <2>1
    <3> QED BY <3>1, <1>5
  <2> QED BY <2>1, <2>2
<1>8. Len(s) \in F
  <2> HIDE DEF F
  <2>1. Nat \subseteq F BY <1>6, <1>7, NatSetInduction
  <2> QED BY <2>1
<1>9. s = <<>> => it[Len(s)] = <<>> BY <1>5
<1> QED BY <1>1, <1>8, <1>9

\* The largest of the gauge's values is a bound of each.
SolvesPeak(g, s) ==
  \A T \in SUBSET DOMAIN s :
    g[T] = IF T = {} THEN 0
           ELSE IF s[Pick(T)] > g[T \ {Pick(T)}] THEN s[Pick(T)] ELSE g[T \ {Pick(T)}]

LEMMA PeakIsFold ==
  ASSUME NEW s \in Seq(Nat)
  PROVE  \E g : SolvesPeak(g, s) /\ Peak(s) = g[DOMAIN s]
<1> DEFINE D == DOMAIN s
           it == CHOOSE g : g = [T \in SUBSET D |->
                   IF T = {} THEN 0
                   ELSE IF s[Pick(T)] > g[T \ {Pick(T)}] THEN s[Pick(T)] ELSE g[T \ {Pick(T)}]]
<1>1. Peak(s) = it[D]
  BY DEF Peak, FoldSeq, FoldFunction, FoldFunctionOnSet, MapThenFoldSet, Pick
<1>2. PICK h : \A T \in SUBSET D, v \in Nat :
                 h[T][v] = (IF s[Pick(T)] > v THEN s[Pick(T)] ELSE v)
                 /\ (T # {} => h[T][v] \in Nat)
  <2> DEFINE h == [T \in SUBSET D |-> [v \in Nat |-> IF s[Pick(T)] > v THEN s[Pick(T)] ELSE v]]
  <2>1. \A T \in SUBSET D, v \in Nat :
          h[T][v] = (IF s[Pick(T)] > v THEN s[Pick(T)] ELSE v) /\ (T # {} => h[T][v] \in Nat)
    BY PickIn
  <2> HIDE DEF h
  <2> QED BY <2>1
<1>3. PICK g \in [SUBSET D -> Nat] : \A T \in SUBSET D : g[T] = Unrolled(0, h, g, T)
  <2>1. 0 \in Nat /\ \A T \in SUBSET D, v \in Nat : T # {} => h[T][v] \in Nat BY <1>2
  <2>2. IsFiniteSet(D)
    <3>1. D = 1 .. Len(s) /\ 1 \in Int /\ Len(s) \in Int OBVIOUS
    <3> QED BY <3>1, FS_Interval
  <2>3. PICK g : Recursion(g, D, Nat, 0, h)
    <3> HIDE DEF it, D
    <3> QED BY <2>1, <2>2, FoldExists
  <2> QED BY <2>3 DEF Recursion
<1>4. g = [T \in SUBSET D |->
             IF T = {} THEN 0
             ELSE IF s[Pick(T)] > g[T \ {Pick(T)}] THEN s[Pick(T)] ELSE g[T \ {Pick(T)}]]
  <2>1. ASSUME NEW T \in SUBSET D
        PROVE  g[T] = IF T = {} THEN 0
                      ELSE IF s[Pick(T)] > g[T \ {Pick(T)}] THEN s[Pick(T)] ELSE g[T \ {Pick(T)}]
    <3>1. g[T \ {Pick(T)}] \in Nat OBVIOUS
    <3> QED BY <3>1, <1>2, <1>3 DEF Unrolled
  <2> QED BY <2>1
<1>5. it = [T \in SUBSET D |->
              IF T = {} THEN 0
              ELSE IF s[Pick(T)] > it[T \ {Pick(T)}] THEN s[Pick(T)] ELSE it[T \ {Pick(T)}]]
  BY <1>4
<1>6. SolvesPeak(it, s)
  <2> HIDE DEF it
  <2> QED BY <1>5 DEF SolvesPeak
<1> QED BY <1>1, <1>6

LEMMA PeakBounds ==
  ASSUME NEW s \in Seq(Nat)
  PROVE  \A i \in DOMAIN s : s[i] <= Peak(s)
<1> DEFINE D == DOMAIN s
<1>1. PICK g : SolvesPeak(g, s) /\ Peak(s) = g[D] BY PeakIsFold
<1> DEFINE F == {T \in SUBSET D : g[T] \in Nat /\ \A i \in T : s[i] <= g[T]}
<1>2. IsFiniteSet(D)
  <2>1. D = 1 .. Len(s) /\ 1 \in Int /\ Len(s) \in Int OBVIOUS
  <2> QED BY <2>1, FS_Interval
<1>3. ASSUME NEW T \in SUBSET D, \A i \in T : T \ {i} \in F PROVE T \in F
  <2>1. g[T] = IF T = {} THEN 0
               ELSE IF s[Pick(T)] > g[T \ {Pick(T)}] THEN s[Pick(T)] ELSE g[T \ {Pick(T)}]
    BY <1>1 DEF SolvesPeak
  <2>2. CASE T = {} BY <2>1, <2>2
  <2>3. CASE T # {}
    <3>1. PICK p \in T : p = Pick(T) BY <2>3, PickIn
    <3>2. PICK m \in Nat : m = g[T \ {p}] /\ \A i \in T \ {p} : s[i] <= m BY <1>3
    <3>3. g[T] = IF s[p] > m THEN s[p] ELSE m BY <2>1, <2>3, <3>1, <3>2
    <3>4. s[p] \in Nat /\ \A i \in T : s[i] \in Nat OBVIOUS
    <3>5. g[T] \in Nat /\ m <= g[T] /\ s[p] <= g[T] BY <3>2, <3>3, <3>4
    <3>6. ASSUME NEW i \in T PROVE s[i] <= g[T]
      <4>1. CASE i = p BY <4>1, <3>5
      <4>2. CASE i # p
        <5>1. s[i] <= m /\ s[i] \in Nat BY <4>2, <3>2, <3>4
        <5> QED BY <5>1, <3>5, <3>2
      <4> QED BY <4>1, <4>2
    <3> QED BY <3>5, <3>6
  <2> QED BY <2>2, <2>3
<1>4. SUBSET D \subseteq F
  <2> HIDE DEF F, D
  <2> QED BY <1>2, <1>3, SubsetInduction
<1> QED BY <1>1, <1>4

-----------------------------------------------------------------------------
\* The 429 total.

Rise(s, i) == IF s[i + 1] < s[i] THEN s[i + 1] ELSE s[i + 1] - s[i]

\* What the counter rose to sample n + 1: no less than from the first value to this one,
\* and exactly that without a reset.
LEMMA RisesUpTo ==
  ASSUME NEW s \in Seq(Nat), Len(s) >= 1, NEW f, \A i \in 1 .. Len(s) - 1 : f[i] = Rise(s, i),
         NEW m \in 0 .. Len(s) - 1
  PROVE  /\ SumFunctionOnSet(f, 1 .. m) \in Nat
         /\ SumFunctionOnSet(f, 1 .. m) >= s[m + 1] - s[1]
         /\ (\E i \in 1 .. m : s[i + 1] < s[i]) => SumFunctionOnSet(f, 1 .. m) >= s[m + 1]
         /\ (\A i \in 1 .. m : s[i] <= s[i + 1]) => SumFunctionOnSet(f, 1 .. m) = s[m + 1] - s[1]
<1> DEFINE Risen(n) == SumFunctionOnSet(f, 1 .. n)
           Claim(n) == /\ Risen(n) \in Nat
                       /\ Risen(n) >= s[n + 1] - s[1]
                       /\ (\E i \in 1 .. n : s[i + 1] < s[i]) => Risen(n) >= s[n + 1]
                       /\ (\A i \in 1 .. n : s[i] <= s[i + 1]) => Risen(n) = s[n + 1] - s[1]
           F == {n \in Nat : n <= Len(s) - 1 => Claim(n)}
<1>1. 0 \in F
  <2>1. 1 .. 0 = {} OBVIOUS
  <2>2. Risen(0) = 0 BY <2>1, SumEmpty
  <2>3. s[1] \in Nat /\ 0 + 1 = 1 OBVIOUS
  <2> HIDE DEF Risen
  <2> QED BY <2>1, <2>2, <2>3
<1>2. ASSUME NEW n \in Nat, n \in F PROVE n + 1 \in F
  <2> SUFFICES ASSUME n + 1 <= Len(s) - 1 PROVE Claim(n + 1) OBVIOUS
  <2>1. Claim(n) BY <1>2
  <2>2. n + 1 \in 1 .. Len(s) - 1 /\ n + 1 \in 1 .. Len(s) /\ n + 2 \in 1 .. Len(s) /\ 1 \in 1 .. Len(s)
        /\ (n + 1) + 1 = n + 2
    OBVIOUS
  <2>3. \A i \in 1 .. Len(s) - 1 : f[i] \in Int
    <3> SUFFICES ASSUME NEW i \in 1 .. Len(s) - 1 PROVE f[i] \in Int OBVIOUS
    <3>1. i \in 1 .. Len(s) /\ i + 1 \in 1 .. Len(s) OBVIOUS
    <3>2. s[i] \in Nat /\ s[i + 1] \in Nat BY <3>1
    <3> QED BY <3>2 DEF Rise
  <2>4. Risen(n + 1) = f[n + 1] + Risen(n)
    <3>1. IsFiniteSet(1 .. n) BY FS_Interval
    <3>2. 1 .. n + 1 = 1 .. n \cup {n + 1} /\ n + 1 \notin 1 .. n OBVIOUS
    <3>3. \A i \in 1 .. n : f[i] \in Int BY <2>3
    <3>4. f[n + 1] \in Int BY <2>2, <2>3
    <3> QED BY <3>1, <3>2, <3>3, <3>4, SumAdd
  <2>5. f[n + 1] = IF s[n + 2] < s[n + 1] THEN s[n + 2] ELSE s[n + 2] - s[n + 1]
    BY <2>2 DEF Rise
  <2>6. s[n + 1] \in Nat /\ s[n + 2] \in Nat /\ s[1] \in Nat BY <2>2
  <2>7. \A i \in 1 .. n + 1 : i \in 1 .. n \/ i = n + 1 OBVIOUS
  <2>8. \A i \in 1 .. n : i \in 1 .. n + 1 OBVIOUS
  <2>9. n + 1 \in 1 .. n + 1 OBVIOUS
  <2> DEFINE r == Risen(n)
             q == Risen(n + 1)
             a == s[1]
             b == s[n + 1]
             c == s[n + 2]
  <2>10. r \in Nat /\ a \in Nat /\ b \in Nat /\ c \in Nat /\ r >= b - a BY <2>1, <2>6
  <2>11. q = (IF c < b THEN c ELSE c - b) + r BY <2>4, <2>5
  <2>12. (\E i \in 1 .. n : s[i + 1] < s[i]) => r >= b BY <2>1
  <2>13. (\A i \in 1 .. n : s[i] <= s[i + 1]) => r = b - a BY <2>1
  <2> HIDE DEF Risen, r, q, a, b, c
  <2>14. q \in Nat /\ q >= c - a BY <2>10, <2>11
  <2>15. (\E i \in 1 .. n + 1 : s[i + 1] < s[i]) => q >= c
    <3>1. CASE c < b BY <3>1, <2>10, <2>11
    <3>2. CASE ~(c < b)
      <4> SUFFICES ASSUME NEW i \in 1 .. n + 1, s[i + 1] < s[i] PROVE q >= c OBVIOUS
      <4>1. i # n + 1 BY <3>2, <2>2 DEF b, c
      <4>2. r >= b BY <4>1, <2>7, <2>12
      <4> QED BY <4>2, <3>2, <2>10, <2>11
    <3> QED BY <3>1, <3>2
  <2>16. (\A i \in 1 .. n + 1 : s[i] <= s[i + 1]) => q = c - a
    <3> SUFFICES ASSUME \A i \in 1 .. n + 1 : s[i] <= s[i + 1] PROVE q = c - a OBVIOUS
    <3>1. b <= c BY <2>2, <2>9 DEF b, c
    <3>2. r = b - a BY <2>8, <2>13
    <3> QED BY <3>1, <3>2, <2>10, <2>11
  <2> QED BY <2>2, <2>14, <2>15, <2>16 DEF q, a, c
<1>3. m \in F
  <2> HIDE DEF F
  <2>1. Nat \subseteq F BY <1>1, <1>2, NatSetInduction
  <2> QED BY <2>1
<1>4. m \in Nat /\ m <= Len(s) - 1 OBVIOUS
<1> QED BY <1>3, <1>4

\* The total is between 0 and what the counter rose by, and exact without a reset.
LEMMA DeltaIsJustified ==
  ASSUME NEW s \in Seq(Nat)
  PROVE  /\ Delta429(s) \in 0 .. Rises(s)
         /\ (\A i \in 1 .. Len(s) - 1 : s[i] <= s[i + 1]) => Delta429(s) = Rises(s)
<1> DEFINE f == [i \in 1 .. Len(s) - 1 |-> IF s[i + 1] < s[i] THEN s[i + 1] ELSE s[i + 1] - s[i]]
           n == Len(s)
<1>1. Rises(s) = SumFunctionOnSet(f, 1 .. n - 1)
  BY DEF Rises, FoldFunction, SumFunctionOnSet
<1>2. CASE n < 2
  <2>1. 1 .. n - 1 = {} BY <1>2
  <2>2. Rises(s) = 0
    <3> HIDE DEF f
    <3> QED BY <1>1, <2>1, SumEmpty
  <2>3. Delta429(s) = 0 BY <1>2 DEF Delta429
  <2> QED BY <2>2, <2>3
<1>3. CASE ~(n < 2)
  <2>1. n \in Nat /\ n >= 1 /\ n - 1 \in 0 .. n - 1 /\ (n - 1) + 1 = n BY <1>3
  <2>2. \A i \in 1 .. n - 1 : f[i] = Rise(s, i) BY DEF Rise
  <2>3. s[1] \in Nat /\ s[n] \in Nat BY <1>3
  <2> DEFINE r == Rises(s)
  <2>4. /\ r \in Nat /\ r >= s[n] - s[1]
        /\ (\E i \in 1 .. n - 1 : s[i + 1] < s[i]) => r >= s[n]
        /\ (\A i \in 1 .. n - 1 : s[i] <= s[i + 1]) => r = s[n] - s[1]
    <3> HIDE DEF f
    <3> QED BY <1>1, <2>1, <2>2, RisesUpTo
  <2> HIDE DEF r, f
  <2>5. \A i \in 1 .. n - 1 : s[i] \in Nat /\ s[i + 1] \in Nat
    <3> SUFFICES ASSUME NEW i \in 1 .. n - 1 PROVE s[i] \in Nat /\ s[i + 1] \in Nat OBVIOUS
    <3>1. i \in 1 .. n /\ i + 1 \in 1 .. n BY <2>1
    <3> QED BY <3>1
  <2>6. Delta429(s) = IF s[n] < s[1] THEN s[n] ELSE s[n] - s[1] BY <1>3 DEF Delta429
  <2>7. CASE s[n] < s[1]
    <3>1. ~(\A i \in 1 .. n - 1 : s[i] <= s[i + 1]) BY <2>3, <2>4, <2>7
    <3>2. \E i \in 1 .. n - 1 : s[i + 1] < s[i] BY <3>1, <2>5
    <3>3. r >= s[n] /\ Delta429(s) = s[n] BY <3>2, <2>4, <2>6, <2>7
    <3> QED BY <3>1, <3>3, <2>3, <2>4 DEF r
  <2>8. CASE ~(s[n] < s[1])
    <3>1. Delta429(s) = s[n] - s[1] BY <2>6, <2>8
    <3> QED BY <3>1, <2>3, <2>4, <2>8 DEF r
  <2> QED BY <2>7, <2>8
<1> QED BY <1>2, <1>3

\* The pressure file claims no more than was sampled (prometheus.go WritePressureCSV).
THEOREM PressureJustified == Spec => []PressureIsJustified
<1>1. ASSUME TypeOK, NEW p \in Procs
      PROVE  LET row == WritePressureCSV(samples[p])
                 counter == Numbers(samples[p].http429)
                 gauge == Numbers(samples[p].apf)
                 total == row.http_429_total.value
             IN  /\ "http429" \in missingQueries(p) => ~row.http_429_total.available
                 /\ "apf" \in missingQueries(p) => ~row.apf_inqueue_peak.available
                 /\ total \in 0 .. Rises(counter)
                 /\ (\A i \in 1 .. Len(counter) - 1 : counter[i] <= counter[i + 1]) => total = Rises(counter)
                 /\ \A i \in DOMAIN gauge : gauge[i] <= row.apf_inqueue_peak.value
  <2>1. samples[p].http429 \in Seq(Nat \cup {NaN}) /\ samples[p].apf \in Seq(Nat \cup {NaN})
    BY <1>1, TelemetryAssumption DEF TypeOK
  <2>2. PICK counter \in Seq(Nat) : /\ counter = Numbers(samples[p].http429)
                                    /\ samples[p].http429 = <<>> => counter = <<>>
    BY <2>1, NumbersAreNumbers
  <2>3. PICK gauge \in Seq(Nat) : /\ gauge = Numbers(samples[p].apf)
                                  /\ samples[p].apf = <<>> => gauge = <<>>
    BY <2>1, NumbersAreNumbers
  <2>4. PICK row : row = WritePressureCSV(samples[p]) OBVIOUS
  <2>5. /\ row.http_429_total.value = Delta429(counter)
        /\ row.http_429_total.available <=> counter # <<>>
        /\ row.apf_inqueue_peak.value = Peak(gauge)
        /\ row.apf_inqueue_peak.available <=> gauge # <<>>
    BY <2>2, <2>3, <2>4 DEF WritePressureCSV
  <2>6. /\ "http429" \in missingQueries(p) => samples[p].http429 = <<>>
        /\ "apf" \in missingQueries(p) => samples[p].apf = <<>>
    BY DEF missingQueries
  <2>7. /\ Delta429(counter) \in 0 .. Rises(counter)
        /\ (\A i \in 1 .. Len(counter) - 1 : counter[i] <= counter[i + 1]) =>
             Delta429(counter) = Rises(counter)
    BY DeltaIsJustified
  <2>8. \A i \in DOMAIN gauge : gauge[i] <= Peak(gauge) BY PeakBounds
  <2> QED BY <2>2, <2>3, <2>4, <2>5, <2>6, <2>7, <2>8
<1>2. TypeOK => PressureIsJustified BY <1>1 DEF PressureIsJustified
<1> QED BY <1>2, TypeCorrect, PTL
=============================================================================
