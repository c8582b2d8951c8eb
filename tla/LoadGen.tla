------------------------------ MODULE LoadGen ------------------------------
(***************************************************************************)
(* Run of the load generator (pkg/loadgen/run.go): one producer turns      *)
(* arrivals into numbered requests on a bounded channel, workers take      *)
(* them, wait for a token, submit with retries on 429 and record each      *)
(* success; a deadline, a signal or a failed record cancels the run.       *)
(*                                                                         *)
(* A request is its sequence number.  What nobody reads before             *)
(* workers.Wait has returned (the counters, the success span) is updated   *)
(* in one step per worker.                                                 *)
(***************************************************************************)
EXTENDS TokenBucket, FiniteSets, Sequences, FiniteSetsExt

CONSTANTS
  Workers,
  QueueCapacity,   \* Workers*2 in the code
  MaxPods,         \* maxPods: the code's 0 (no limit) is bounded by this, too
  Duration,        \* the run's timeout
  Intervals,       \* delays between steady arrivals: one (Constant, Burst), several
                   \* (Poisson) or none (Burst without preload)
  SpikeAt, SpikeCount,   \* Burst; SpikeAt > MaxTime in the other models
  MaxRetries,
  MaxLimits, MaxErrors,  \* bounds on the API's 429s and on its other errors
  None

ASSUME LoadGenAssumption ==
  /\ Workers # {} /\ IsFiniteSet(Workers)
  /\ QueueCapacity \in Nat \ {0}
  /\ MaxPods \in Nat \ {0} /\ MaxRetries \in Nat /\ MaxLimits \in Nat /\ MaxErrors \in Nat
  /\ Duration \in Nat \ {0} /\ Intervals \subseteq Nat /\ SpikeAt \in Nat /\ SpikeCount \in Nat
  /\ None \notin Nat

VARIABLES
  runDone,      \* runCtx is done
  producer,     \* where the producer is; workCh is closed when it is "done"
  sequence,
  toSend,       \* what is left of the current arrival's count
  producerWake, \* when the producer's timer fires
  spikeFired,
  workCh,
  worker,       \* where each worker is
  req,          \* its request
  attempts, rateLimited, \* of its submission
  wake,         \* when its token timer fires
  succeededAt,
  stats,        \* Stats
  firstErr,     \* a record failed
  submitLog,    \* the recorded requests
  creates, limits, \* auxiliary: Create calls made and 429s answered
  successes,    \* auxiliary: when each success was
  dropped       \* auxiliary: requests of workers that stopped without a token

producerVars == <<producer, sequence, toSend, producerWake, spikeFired>>
workerVars == <<worker, req, attempts, rateLimited, wake, succeededAt>>
resultVars == <<stats, firstErr, submitLog, creates, limits, successes, dropped>>
genVars == <<runDone, producerVars, workCh, workerVars, resultVars>>
vars == <<now, tokens, last, granted, before, runDone, producer, sequence, toSend,
          producerWake, spikeFired, workCh, worker, req, attempts, rateLimited, wake,
          succeededAt, stats, firstErr, submitLog, creates, limits, successes, dropped>>

Init ==
  /\ BucketInit
  /\ runDone = FALSE
  /\ producer = "next" /\ sequence = 0 /\ toSend = 0 /\ producerWake = 0
  /\ spikeFired = FALSE
  /\ workCh = <<>>
  /\ worker = [w \in Workers |-> "range"]
  /\ req = [w \in Workers |-> None]
  /\ attempts = [w \in Workers |-> 0] /\ rateLimited = [w \in Workers |-> 0]
  /\ wake = [w \in Workers |-> 0] /\ succeededAt = [w \in Workers |-> 0]
  /\ stats = [Attempted |-> 0, Succeeded |-> 0, Failed |-> 0, RateLimited |-> 0,
              FirstSuccess |-> None, LastSuccess |-> None]
  /\ firstErr = FALSE
  /\ submitLog = {} /\ creates = 0 /\ limits = 0 /\ successes = {} /\ dropped = {}

-----------------------------------------------------------------------------
\* The context.

\* External: the duration passes, or a signal cancels the parent context.
Timeout ==
  /\ ~runDone /\ now >= Duration
  /\ runDone' = TRUE
  /\ UNCHANGED <<now, bucketVars, producerVars, workCh, workerVars, resultVars>>

Interrupt ==
  /\ ~runDone
  /\ runDone' = TRUE
  /\ UNCHANGED <<now, bucketVars, producerVars, workCh, workerVars, resultVars>>

-----------------------------------------------------------------------------
\* The producer.

Limited == sequence >= MaxPods

\* Burst.Next: the spike, once its time has come ...
SpikeDue == ~spikeFired /\ now >= SpikeAt

\* ... or the delay to the next steady arrival.  Without steady arrivals the spike
\* is waited for, and after it nothing (in the code, an hour).
SteadyDelays ==
  IF Intervals # {} THEN Intervals
  ELSE IF ~spikeFired THEN {SpikeAt - now} ELSE {MaxTime + 1}

\* The top of the loop: stop at the limit, or ask the arrival model.
NextArrival ==
  /\ producer = "next"
  /\ IF Limited
     THEN producer' = "done" /\ UNCHANGED <<toSend, producerWake, spikeFired>>
     ELSE /\ producer' = "waiting"
          /\ spikeFired' = (spikeFired \/ SpikeDue)
          /\ toSend' = IF SpikeDue THEN SpikeCount ELSE 1
          /\ \E delay \in IF SpikeDue THEN {0} ELSE SteadyDelays : producerWake' = now + delay
  /\ UNCHANGED <<now, bucketVars, runDone, sequence, workCh, workerVars, resultVars>>

Arrives ==
  /\ producer = "waiting" /\ now >= producerWake
  /\ producer' = "sending" /\ producerWake' = 0
  /\ UNCHANGED <<now, bucketVars, runDone, sequence, toSend, spikeFired, workCh, workerVars,
                 resultVars>>

\* Mutant: the number is taken only once the request has been sent.
SendTwice ==
  /\ producer = "sending" /\ toSend > 0 /\ ~Limited
  /\ Len(workCh) < QueueCapacity
  /\ workCh' = Append(workCh, sequence)
  /\ toSend' = toSend - 1
  /\ sequence' = IF toSend > 1 THEN sequence ELSE sequence + 1
  /\ UNCHANGED <<now, bucketVars, runDone, producer, producerWake, spikeFired, workerVars,
                 resultVars>>

\* One request is sent; the send blocks while workCh is full.
Send ==
  /\ producer = "sending" /\ toSend > 0 /\ ~Limited
  /\ Len(workCh) < QueueCapacity
  /\ workCh' = Append(workCh, sequence)
  /\ sequence' = sequence + 1 /\ toSend' = toSend - 1
  /\ UNCHANGED <<now, bucketVars, runDone, producer, producerWake, spikeFired, workerVars,
                 resultVars>>

\* The arrival is done, or the limit is reached within it.
ArrivalSent ==
  /\ producer = "sending"
  /\ toSend = 0 \/ Limited
  /\ producer' = IF toSend = 0 THEN "next" ELSE "done"
  /\ toSend' = 0
  /\ UNCHANGED <<now, bucketVars, runDone, sequence, producerWake, spikeFired, workCh,
                 workerVars, resultVars>>

\* Mutant: the send does not select on the context.
ProducerStopsWaiting ==
  /\ runDone
  /\ producer = "waiting"
  /\ producer' = "done" /\ toSend' = 0 /\ producerWake' = 0
  /\ UNCHANGED <<now, bucketVars, runDone, sequence, spikeFired, workCh, workerVars,
                 resultVars>>

\* runCtx is done while the producer waits or sends.
ProducerStops ==
  /\ runDone
  /\ producer = "waiting" \/ (producer = "sending" /\ toSend > 0 /\ ~Limited)
  /\ producer' = "done" /\ toSend' = 0 /\ producerWake' = 0
  /\ UNCHANGED <<now, bucketVars, runDone, sequence, spikeFired, workCh, workerVars,
                 resultVars>>

-----------------------------------------------------------------------------
\* The workers.

ToStage(w, at) == worker' = [worker EXCEPT ![w] = at]

Receive(w) ==
  /\ worker[w] = "range" /\ workCh # <<>>
  /\ workCh' = Tail(workCh)
  /\ req' = [req EXCEPT ![w] = Head(workCh)]
  /\ ToStage(w, "token")
  /\ UNCHANGED <<now, bucketVars, runDone, producerVars, attempts, rateLimited, wake,
                 succeededAt, resultVars>>

\* Mutant: the worker ends with its producer.
WorkerDoneEarly(w) ==
  /\ worker[w] = "range" /\ producer = "done"
  /\ ToStage(w, "exited")
  /\ UNCHANGED <<now, bucketVars, runDone, producerVars, workCh, req, attempts, rateLimited,
                 wake, succeededAt, resultVars>>

\* The range over workCh ends when it is closed and empty.
WorkerDone(w) ==
  /\ worker[w] = "range" /\ workCh = <<>> /\ producer = "done"
  /\ ToStage(w, "exited")
  /\ UNCHANGED <<now, bucketVars, runDone, producerVars, workCh, req, attempts, rateLimited,
                 wake, succeededAt, resultVars>>

\* Wait looks at the context before it takes the bucket's lock ...
ChecksContext(w) ==
  /\ worker[w] = "token" /\ ~runDone
  /\ ToStage(w, "bucket")
  /\ UNCHANGED <<now, bucketVars, runDone, producerVars, workCh, req, attempts, rateLimited,
                 wake, succeededAt, resultVars>>

\* ... and no more under it: a token may be granted after the run was cancelled.
GetsToken(w) ==
  /\ worker[w] = "bucket"
  /\ TakeToken
  /\ ToStage(w, "submit")
  /\ UNCHANGED <<runDone, producerVars, workCh, req, attempts, rateLimited, wake, succeededAt,
                 resultVars>>

SleepsForToken(w) ==
  /\ worker[w] = "bucket"
  /\ MissToken
  /\ ToStage(w, "sleep")
  /\ wake' = [wake EXCEPT ![w] = MissingUntil]
  /\ UNCHANGED <<runDone, producerVars, workCh, req, attempts, rateLimited, succeededAt,
                 resultVars>>

\* Mutant: the worker that slept does not look again, its token must be there.
TokenTimerTakes(w) ==
  /\ worker[w] = "sleep" /\ now >= wake[w]
  /\ ToStage(w, "submit")
  /\ tokens' = 0 /\ last' = now
  /\ wake' = [wake EXCEPT ![w] = 0]
  /\ UNCHANGED <<now, granted, before, runDone, producerVars, workCh, req, attempts,
                 rateLimited, succeededAt, resultVars>>

TokenTimer(w) ==
  /\ worker[w] = "sleep" /\ now >= wake[w]
  /\ ToStage(w, "token")
  /\ wake' = [wake EXCEPT ![w] = 0]
  /\ UNCHANGED <<now, bucketVars, runDone, producerVars, workCh, req, attempts, rateLimited,
                 succeededAt, resultVars>>

\* Wait returns the context's error: the worker ends, its request is not submitted.
StopsWithoutToken(w) ==
  /\ worker[w] \in {"token", "sleep"} /\ runDone
  /\ ToStage(w, "exited")
  /\ wake' = [wake EXCEPT ![w] = 0]
  /\ req' = [req EXCEPT ![w] = None]
  /\ dropped' = dropped \cup {req[w]}
  /\ UNCHANGED <<now, bucketVars, runDone, producerVars, workCh, attempts, rateLimited,
                 succeededAt, stats, firstErr, submitLog, creates, limits, successes>>

\* submitWithRetry returns: its counts go into the statistics.
Submitted(w, limited, field, next) ==
  /\ stats' = [stats EXCEPT !.Attempted = @ + attempts[w],
                            !.RateLimited = @ + limited,
                            ![field] = @ + 1]
  /\ attempts' = [attempts EXCEPT ![w] = 0]
  /\ rateLimited' = [rateLimited EXCEPT ![w] = 0]
  /\ ToStage(w, next)

Fails(w, limited) ==
  /\ Submitted(w, limited, "Failed", "range")
  /\ req' = [req EXCEPT ![w] = None]
  /\ UNCHANGED <<now, bucketVars, runDone, producerVars, workCh, wake, succeededAt, firstErr,
                 submitLog, creates, successes, dropped>>

\* The top of the retry loop.
CallCreate(w) ==
  /\ worker[w] = "submit" /\ ~runDone
  /\ attempts' = [attempts EXCEPT ![w] = @ + 1]
  /\ creates' = creates + 1
  /\ ToStage(w, "creating")
  /\ UNCHANGED <<now, bucketVars, runDone, producerVars, workCh, req, rateLimited, wake,
                 succeededAt, stats, firstErr, submitLog, limits, successes, dropped>>

\* The context is done at the top of the loop or during a backoff.
GivesUp(w) ==
  /\ worker[w] \in {"submit", "backoff"} /\ runDone
  /\ Fails(w, rateLimited[w])
  /\ UNCHANGED limits

\* External: the apiserver creates the pod; its time is taken next.
Created(w) ==
  /\ worker[w] = "creating"
  /\ Submitted(w, rateLimited[w], "Succeeded", "record")
  /\ succeededAt' = [succeededAt EXCEPT ![w] = now]
  /\ successes' = successes \cup {now}
  /\ UNCHANGED <<now, bucketVars, runDone, producerVars, workCh, req, wake, firstErr,
                 submitLog, creates, limits, dropped>>

\* External: any error but 429.
CreateFails(w) ==
  /\ worker[w] = "creating" /\ stats.Failed < MaxErrors
  /\ Fails(w, rateLimited[w])
  /\ UNCHANGED limits

\* Mutants: the last 429 is not counted; one retry too many.
TooManyUncounted(w) ==
  /\ worker[w] = "creating" /\ limits < MaxLimits
  /\ limits' = limits + 1
  /\ IF attempts[w] > MaxRetries
     THEN Fails(w, rateLimited[w])
     ELSE /\ ToStage(w, "backoff")
          /\ rateLimited' = [rateLimited EXCEPT ![w] = @ + 1]
          /\ UNCHANGED <<now, bucketVars, runDone, producerVars, workCh, req, attempts, wake,
                         succeededAt, stats, firstErr, submitLog, creates, successes, dropped>>

TooManyOneMore(w) ==
  /\ worker[w] = "creating" /\ limits < MaxLimits
  /\ limits' = limits + 1
  /\ IF attempts[w] > MaxRetries + 1
     THEN Fails(w, rateLimited[w] + 1)
     ELSE /\ ToStage(w, "backoff")
          /\ rateLimited' = [rateLimited EXCEPT ![w] = @ + 1]
          /\ UNCHANGED <<now, bucketVars, runDone, producerVars, workCh, req, attempts, wake,
                         succeededAt, stats, firstErr, submitLog, creates, successes, dropped>>

\* External: 429; the worker backs off or has no retry left.
TooMany(w) ==
  /\ worker[w] = "creating" /\ limits < MaxLimits
  /\ limits' = limits + 1
  /\ IF attempts[w] > MaxRetries
     THEN Fails(w, rateLimited[w] + 1)
     ELSE /\ ToStage(w, "backoff")
          /\ rateLimited' = [rateLimited EXCEPT ![w] = @ + 1]
          /\ UNCHANGED <<now, bucketVars, runDone, producerVars, workCh, req, attempts, wake,
                         succeededAt, stats, firstErr, submitLog, creates, successes, dropped>>

BackoffEnds(w) ==
  /\ worker[w] = "backoff"
  /\ ToStage(w, "submit")
  /\ UNCHANGED <<now, bucketVars, runDone, producerVars, workCh, req, attempts, rateLimited,
                 wake, succeededAt, resultVars>>

\* Mutant: the last writer sets the end of the span.
SpanLastWriter(t) ==
  [stats EXCEPT !.FirstSuccess = IF @ = None THEN t ELSE @, !.LastSuccess = t]

\* The span under statsTimeMu.
Span(t) ==
  [stats EXCEPT !.FirstSuccess = IF @ = None \/ t < @ THEN t ELSE @,
                !.LastSuccess = IF @ = None \/ t > @ THEN t ELSE @]

\* The record is written, or the first failure cancels the run and the worker ends.
Records(w, ok) ==
  /\ worker[w] = "record"
  /\ stats' = Span(succeededAt[w])
  /\ submitLog' = IF ok THEN submitLog \cup {req[w]} ELSE submitLog
  /\ firstErr' = (firstErr \/ ~ok)
  /\ runDone' = (runDone \/ ~ok)
  /\ ToStage(w, IF ok THEN "range" ELSE "exited")
  /\ req' = [req EXCEPT ![w] = None]
  /\ succeededAt' = [succeededAt EXCEPT ![w] = 0]
  /\ UNCHANGED <<now, bucketVars, producerVars, workCh, attempts, rateLimited, wake, creates,
                 limits, successes, dropped>>

-----------------------------------------------------------------------------
ProducerStep == NextArrival \/ Arrives \/ Send \/ ArrivalSent \/ ProducerStops

WorkerStep(w) ==
  \/ Receive(w) \/ WorkerDone(w)
  \/ ChecksContext(w) \/ GetsToken(w) \/ SleepsForToken(w) \/ TokenTimer(w)
  \/ StopsWithoutToken(w)
  \/ CallCreate(w) \/ GivesUp(w) \/ Created(w) \/ CreateFails(w) \/ TooMany(w)
  \/ BackoffEnds(w)
  \/ \E ok \in BOOLEAN : Records(w, ok)

Next ==
  \/ ProducerStep
  \/ \E w \in Workers : WorkerStep(w)
  \/ Timeout \/ Interrupt
  \/ Tick /\ UNCHANGED genVars

Spec == Init /\ [][Next]_vars

\* Goroutines run, the clock advances, the deadline of the context is kept, and the
\* API and the log answer.
Fairness ==
  /\ WF_vars(ProducerStep)
  /\ \A w \in Workers : WF_vars(WorkerStep(w))
  /\ WF_vars(Tick /\ UNCHANGED genVars) /\ WF_vars(Timeout)

FairSpec == Spec /\ Fairness

-----------------------------------------------------------------------------
\* Properties.

\* workers.Wait has returned.
Returned == \A w \in Workers : worker[w] = "exited"

InHand == {w \in Workers : req[w] # None /\ worker[w] # "record"}
Recording == {w \in Workers : worker[w] = "record"}

TypeOK ==
  /\ BucketTypeOK
  /\ producer \in {"next", "waiting", "sending", "done"}
  /\ runDone \in BOOLEAN /\ spikeFired \in BOOLEAN /\ firstErr \in BOOLEAN
  /\ sequence \in 0 .. MaxPods
  /\ toSend \in Nat /\ producerWake \in Nat
  /\ workCh \in Seq(0 .. MaxPods) /\ Len(workCh) <= QueueCapacity
  /\ worker \in [Workers -> {"range", "token", "bucket", "sleep", "submit", "creating", "backoff",
                             "record", "exited"}]
  /\ req \in [Workers -> 0 .. MaxPods \cup {None}]
  /\ attempts \in [Workers -> 0 .. MaxRetries + 1]
  /\ rateLimited \in [Workers -> 0 .. MaxRetries + 1]
  /\ wake \in [Workers -> Nat] /\ succeededAt \in [Workers -> Nat]
  /\ stats \in [Attempted : Nat, Succeeded : Nat, Failed : Nat, RateLimited : Nat,
                FirstSuccess : Nat \cup {None}, LastSuccess : Nat \cup {None}]
  /\ submitLog \subseteq 0 .. MaxPods /\ dropped \subseteq 0 .. MaxPods
  /\ creates \in Nat /\ limits \in Nat /\ successes \subseteq Nat

\* No request disappears: each number the producer has given out is queued, in a
\* worker's hand, counted as a success or a failure, or was dropped because the run
\* was cancelled.
EveryPodAccounted ==
  /\ sequence = Len(workCh) + Cardinality(InHand) + stats.Succeeded + stats.Failed
                + Cardinality(dropped)
  /\ dropped # {} => runDone

\* A run that nothing cancelled submits exactly the pods it was asked for, and the
\* log holds one row for every success that Run reports.
ReportIsComplete ==
  /\ ~firstErr => Cardinality(submitLog) + Cardinality(Recording) = stats.Succeeded
  /\ Returned /\ ~runDone =>
       /\ stats.Succeeded + stats.Failed = MaxPods
       /\ workCh = <<>>

\* Attempted and RateLimited are the Create calls and the 429s of the finished
\* submissions, none lost between workers; what is neither a success nor a 429 is
\* the last call of a failure.  Retries take no token of their own: the calls stay within
\* MaxRetries + 1 for each token granted.
AttemptsAddUp ==
  /\ creates <= (MaxRetries + 1) * granted
  /\ stats.Attempted + SumFunctionOnSet(attempts, Workers) = creates
  /\ stats.RateLimited + SumFunctionOnSet(rateLimited, Workers) = limits
  /\ stats.Attempted >= stats.Succeeded + stats.RateLimited
  /\ stats.Attempted <= stats.Succeeded + stats.RateLimited + stats.Failed

\* The success span that Run returns covers exactly the successes, in whatever order
\* the workers report them.
SpanIsExact ==
  Returned /\ successes # {} =>
    /\ stats.FirstSuccess = Min(successes)
    /\ stats.LastSuccess = Max(successes)

\* Run returns and the producer ends, whatever blocks, sleeps or fails.
RunReturns == <>(Returned /\ producer = "done")
=============================================================================
