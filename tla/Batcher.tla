------------------------------ MODULE Batcher ------------------------------
(***************************************************************************)
(* The batcher of the CoalescedBind plugin (coalescedbind/batcher.go): a   *)
(* bind request travels                                                    *)
(*   Submit --input--> collector's batch --work--> worker --result--> Submit *)
(* with any number of Submit and Close calls, one collector goroutine that *)
(* owns the batch and its timer, and MaxInFlight workers.  Go's select is  *)
(* a free choice among its ready cases, its default only when none is.     *)
(*                                                                         *)
(* The timer is a Go timer of a module with "go 1.22" in go.mod: Stop may  *)
(* return false before the expired timer has put its tick into the         *)
(* one-slot channel, and Reset does not empty that channel.                *)
(***************************************************************************)
EXTENDS Naturals, FiniteSets, Sequences

CONSTANTS
  Requests,       \* calls of Submit (one per Bind of the scheduler)
  Workers,        \* the worker goroutines: maxInFlight of them
  Closers,        \* calls of Close
  MaxBatch, QueueCapacity,
  NoRequest

ASSUME BatcherAssumption ==
  /\ MaxBatch \in Nat \ {0}
  /\ QueueCapacity \in Nat /\ QueueCapacity >= MaxBatch
  /\ Workers # {}
  /\ NoRequest \notin Requests

VARIABLES
  call,        \* where each Submit is
  ctxDone,     \* the caller's context is done
  result,      \* what has been sent on each request's one-slot result channel
  input, work, \* the two bounded channels
  batch,       \* the collector's batch; in a flush, what is left to send
  flushing,    \* the collector is sending the batch
  collector,   \* the collector's loop
  timerC,      \* the collector listens to the timer
  timerOn,     \* the runtime timer is running
  tickSent,    \* an expired timer is about to send its tick
  tick,        \* a tick is in the timer's channel
  worker,      \* where each worker is
  item,        \* the request each worker has taken
  accepting, closing,
  closer,      \* where each Close is
  enqueued, taken, \* auxiliary: requests in the order they entered and left the queues
  binds, answers,  \* auxiliary: how often each request was bound, and answered
  due          \* auxiliary: the window of the current batch has passed

submitVars == <<call, ctxDone>>
batchVars == <<batch, flushing>>
timerVars == <<timerC, timerOn, tickSent, tick, due>>
workerVars == <<worker, item, taken, binds, answers>>
closeVars == <<accepting, closing, closer>>
vars == <<call, ctxDone, result, input, work, batch, flushing, collector, timerC, timerOn,
          tickSent, tick, worker, item, accepting, closing, closer, enqueued, taken, binds,
          answers, due>>

Call == {"idle", "admitted", "enqueued", "waiting", "returned"}
Result == {"none", "bound", "failed", "cancelled"}

Init ==
  /\ call = [r \in Requests |-> "idle"]
  /\ ctxDone = [r \in Requests |-> FALSE]
  /\ result = [r \in Requests |-> "none"]
  /\ input = <<>> /\ work = <<>> /\ batch = <<>> /\ flushing = FALSE
  /\ collector = "select"
  /\ timerC = FALSE /\ timerOn = FALSE /\ tickSent = FALSE /\ tick = FALSE /\ due = FALSE
  /\ worker = [w \in Workers |-> "idle"]
  /\ item = [w \in Workers |-> NoRequest]
  /\ accepting = TRUE /\ closing = FALSE
  /\ closer = [c \in Closers |-> "idle"]
  /\ enqueued = <<>> /\ taken = <<>>
  /\ binds = [r \in Requests |-> 0] /\ answers = [r \in Requests |-> 0]

-----------------------------------------------------------------------------
\* Submit.

\* External: the caller's context ends, by a deadline or a cancellation.  (Before the
\* gate and after the answer nothing looks at it.)
Cancel(r) ==
  /\ ~ctxDone[r] /\ result[r] = "none"
  /\ call[r] \in {"admitted", "enqueued", "waiting"}
  /\ ctxDone' = [ctxDone EXCEPT ![r] = TRUE]
  /\ UNCHANGED <<call, result, input, work, batchVars, collector, timerVars, workerVars,
                 closeVars, enqueued>>

\* The admission gate, under admissionMu: ErrBatcherClosed, or one more admission.
Register(r) ==
  /\ call[r] = "idle"
  /\ call' = [call EXCEPT ![r] = IF accepting THEN "admitted" ELSE "returned"]
  /\ UNCHANGED <<ctxDone, result, input, work, batchVars, collector, timerVars, workerVars,
                 closeVars, enqueued>>

Enqueue(r) ==
  /\ call[r] = "admitted" /\ Len(input) < QueueCapacity
  /\ input' = Append(input, r)
  /\ enqueued' = Append(enqueued, r)
  /\ call' = [call EXCEPT ![r] = "enqueued"]
  /\ UNCHANGED <<ctxDone, result, work, batchVars, collector, timerVars, workerVars, closeVars>>

\* The context's error, or ErrBatcherQueueFull when neither case is ready.
NotEnqueued(r) ==
  /\ call[r] = "admitted"
  /\ ctxDone[r] \/ Len(input) = QueueCapacity
  /\ call' = [call EXCEPT ![r] = "returned"]
  /\ UNCHANGED <<ctxDone, result, input, work, batchVars, collector, timerVars, workerVars,
                 closeVars, enqueued>>

\* admissions.Done after a successful send.
AdmissionDone(r) ==
  /\ call[r] = "enqueued"
  /\ call' = [call EXCEPT ![r] = "waiting"]
  /\ UNCHANGED <<ctxDone, result, input, work, batchVars, collector, timerVars, workerVars,
                 closeVars, enqueued>>

\* Submit returns its own result, or its context's error.
SubmitReturns(r) ==
  /\ call[r] = "waiting"
  /\ result[r] # "none" \/ ctxDone[r]
  /\ call' = [call EXCEPT ![r] = "returned"]
  /\ UNCHANGED <<ctxDone, result, input, work, batchVars, collector, timerVars, workerVars,
                 closeVars, enqueued>>

Admissions == {r \in Requests : call[r] \in {"admitted", "enqueued"}}

-----------------------------------------------------------------------------
\* The timer.

\* External: the window passes.
Expire ==
  /\ timerOn
  /\ timerOn' = FALSE /\ tickSent' = TRUE /\ due' = TRUE
  /\ UNCHANGED <<submitVars, result, input, work, batchVars, collector, timerC, tick,
                 workerVars, closeVars, enqueued>>

\* External: the runtime sends the tick; a full channel keeps the old one.
Tick ==
  /\ tickSent
  /\ tickSent' = FALSE /\ tick' = TRUE
  /\ UNCHANGED <<submitVars, result, input, work, batchVars, collector, timerC, timerOn, due,
                 workerVars, closeVars, enqueued>>

\* stopTimer.
StopTimer ==
  /\ timerC' = FALSE
  /\ timerOn' = (timerOn /\ ~timerC)
  /\ tick' = (tick /\ (~timerC \/ timerOn))
  /\ UNCHANGED <<tickSent, due>>

\* The first request of a batch resets the timer.
StartTimer ==
  /\ timerC' = TRUE /\ timerOn' = TRUE /\ due' = FALSE
  /\ UNCHANGED <<tickSent, tick>>

-----------------------------------------------------------------------------
\* The collector.

\* Mutant: off by one, a batch is full when it is too long.
AddOffByOne(r) ==
  LET grown == Append(batch, r)
      full  == Len(grown) > MaxBatch
  IN  /\ batch' = grown
      /\ flushing' = full
      /\ IF full THEN StopTimer
         ELSE IF Len(grown) = 1 THEN StartTimer
         ELSE UNCHANGED timerVars

\* add: the first request of a batch starts its timer (for a batch of one, only to
\* stop it again); the last one starts a flush.
Add(r) ==
  LET grown == Append(batch, r)
      full  == Len(grown) = MaxBatch
  IN  /\ batch' = grown
      /\ flushing' = full
      /\ IF full THEN StopTimer
         ELSE IF Len(grown) = 1 THEN StartTimer
         ELSE UNCHANGED timerVars

\* The input case of the select, or of the drain loop once closing is seen.
Receive ==
  /\ collector \in {"select", "drain"} /\ ~flushing /\ input # <<>>
  /\ input' = Tail(input)
  /\ Add(Head(input))
  /\ UNCHANGED <<submitVars, result, work, collector, workerVars, closeVars, enqueued>>

\* Mutant: timerC is not set to nil.
ReceiveTickListening ==
  /\ collector = "select" /\ ~flushing /\ timerC /\ tick
  /\ tick' = FALSE
  /\ flushing' = (batch # <<>>)
  /\ UNCHANGED <<submitVars, result, input, work, batch, collector, timerC, timerOn,
                 tickSent, due, workerVars, closeVars, enqueued>>

\* The timer case: timerC becomes nil, the timer itself is left as it is.
ReceiveTick ==
  /\ collector = "select" /\ ~flushing /\ timerC /\ tick
  /\ timerC' = FALSE /\ tick' = FALSE
  /\ flushing' = (batch # <<>>)
  /\ UNCHANGED <<submitVars, result, input, work, batch, collector, timerOn, tickSent, due,
                 workerVars, closeVars, enqueued>>

\* Mutant: the batch is not emptied, its last request is sent again.
SendWorkKeepsLast ==
  /\ flushing /\ Len(work) < QueueCapacity
  /\ work' = Append(work, Head(batch))
  /\ batch' = IF Len(batch) = 1 THEN batch ELSE Tail(batch)
  /\ flushing' = (Len(batch) > 1)
  /\ UNCHANGED <<submitVars, result, input, collector, timerVars, workerVars, closeVars,
                 enqueued>>

\* One send of a flush; it blocks while work is full.
SendWork ==
  /\ flushing /\ Len(work) < QueueCapacity
  /\ work' = Append(work, Head(batch))
  /\ batch' = Tail(batch)
  /\ flushing' = (Len(batch) > 1)
  /\ UNCHANGED <<submitVars, result, input, collector, timerVars, workerVars, closeVars,
                 enqueued>>

\* The closing case.
SeeClosing ==
  /\ collector = "select" /\ ~flushing /\ closing
  /\ collector' = "drain"
  /\ UNCHANGED <<submitVars, result, input, work, batchVars, timerVars, workerVars,
                 closeVars, enqueued>>

\* The drain loop's default: the last flush.
LastFlush ==
  /\ collector = "drain" /\ ~flushing /\ input = <<>>
  /\ collector' = "exit"
  /\ StopTimer
  /\ flushing' = (batch # <<>>)
  /\ UNCHANGED <<submitVars, result, input, work, batch, workerVars, closeVars, enqueued>>

\* Mutant: the deferred function waits for the workers before it closes work.
CloseWorkAfterWorkers ==
  /\ collector = "exit" /\ ~flushing
  /\ \A w \in Workers : worker[w] = "exited"
  /\ collector' = "closed"
  /\ UNCHANGED <<submitVars, result, input, work, batchVars, timerVars, workerVars,
                 closeVars, enqueued>>

\* The deferred function: close(work), then workers.Wait, then close(done).
CloseWork ==
  /\ collector = "exit" /\ ~flushing
  /\ collector' = "closed"
  /\ UNCHANGED <<submitVars, result, input, work, batchVars, timerVars, workerVars,
                 closeVars, enqueued>>

CloseDone ==
  /\ collector = "closed"
  /\ \A w \in Workers : worker[w] = "exited"
  /\ collector' = "done"
  /\ UNCHANGED <<submitVars, result, input, work, batchVars, timerVars, workerVars,
                 closeVars, enqueued>>

-----------------------------------------------------------------------------
\* The workers.

Take(w) ==
  /\ worker[w] = "idle" /\ work # <<>>
  /\ work' = Tail(work)
  /\ taken' = Append(taken, Head(work))
  /\ item' = [item EXCEPT ![w] = Head(work)]
  /\ worker' = [worker EXCEPT ![w] = "checking"]
  /\ UNCHANGED <<submitVars, result, input, batchVars, collector, timerVars, closeVars,
                 enqueued, binds, answers>>

\* Mutant: an unbuffered result channel, a send needs its receiver.
PublishUnbuffered(w, answer) ==
  /\ call[item[w]] = "waiting"
  /\ result' = [result EXCEPT ![item[w]] = answer]
  /\ answers' = [answers EXCEPT ![item[w]] = @ + 1]
  /\ item' = [item EXCEPT ![w] = NoRequest]
  /\ worker' = [worker EXCEPT ![w] = "idle"]

\* A worker sends on the request's result channel.  It is never blocked: the one slot is
\* free, since this is the only answer (ImplementsService).
Publish(w, answer) ==
  /\ result' = [result EXCEPT ![item[w]] = answer]
  /\ answers' = [answers EXCEPT ![item[w]] = @ + 1]
  /\ item' = [item EXCEPT ![w] = NoRequest]
  /\ worker' = [worker EXCEPT ![w] = "idle"]

\* A cancelled request is not bound.
SkipCancelled(w) ==
  /\ worker[w] = "checking" /\ ctxDone[item[w]]
  /\ Publish(w, "cancelled")
  /\ UNCHANGED <<submitVars, input, work, batchVars, collector, timerVars, taken, binds,
                 closeVars, enqueued>>

CallBind(w) ==
  /\ worker[w] = "checking" /\ ~ctxDone[item[w]]
  /\ worker' = [worker EXCEPT ![w] = "binding"]
  /\ binds' = [binds EXCEPT ![item[w]] = @ + 1]
  /\ UNCHANGED <<submitVars, result, input, work, batchVars, collector, timerVars, item,
                 taken, answers, closeVars, enqueued>>

\* Mutant: a failed call is answered, and then made once more.
BindReturnsAgain(w) ==
  /\ worker[w] = "binding"
  /\ \/ Publish(w, "bound")
     \/ /\ result' = [result EXCEPT ![item[w]] = "failed"]
        /\ answers' = [answers EXCEPT ![item[w]] = @ + 1]
        /\ worker' = [worker EXCEPT ![w] = "checking"]
        /\ UNCHANGED item
  /\ UNCHANGED <<submitVars, input, work, batchVars, collector, timerVars, taken, binds,
                 closeVars, enqueued>>

\* External: the API call, given the request's context, succeeds or fails.
BindReturns(w) ==
  /\ worker[w] = "binding"
  /\ \E answer \in {"bound", "failed"} : Publish(w, answer)
  /\ UNCHANGED <<submitVars, input, work, batchVars, collector, timerVars, taken, binds,
                 closeVars, enqueued>>

\* Mutant: a worker also ends with closing, when it finds nothing to do.
WorkerExitsOnClosing(w) ==
  /\ worker[w] = "idle" /\ work = <<>> /\ closing
  /\ worker' = [worker EXCEPT ![w] = "exited"]
  /\ UNCHANGED <<submitVars, result, input, work, batchVars, collector, timerVars, item,
                 taken, binds, answers, closeVars, enqueued>>

\* The range over work ends when it is closed and empty.
WorkerExits(w) ==
  /\ worker[w] = "idle" /\ work = <<>> /\ collector \in {"closed", "done"}
  /\ worker' = [worker EXCEPT ![w] = "exited"]
  /\ UNCHANGED <<submitVars, result, input, work, batchVars, collector, timerVars, item,
                 taken, binds, answers, closeVars, enqueued>>

-----------------------------------------------------------------------------
\* Close.

\* closeOnce.Do runs its function in the first call.
CloseBegins(c) ==
  /\ closer[c] = "idle" /\ accepting
  /\ accepting' = FALSE
  /\ closer' = [closer EXCEPT ![c] = "once"]
  /\ UNCHANGED <<submitVars, result, input, work, batchVars, collector, timerVars,
                 workerVars, closing, enqueued>>

\* Mutant: no admissions.Wait.
CloseSignalsAtOnce(c) ==
  /\ closer[c] = "once"
  /\ closing' = TRUE
  /\ closer' = [closer EXCEPT ![c] = "wait"]
  /\ UNCHANGED <<submitVars, result, input, work, batchVars, collector, timerVars,
                 workerVars, accepting, enqueued>>

\* admissions.Wait, then close(closing).
CloseSignals(c) ==
  /\ closer[c] = "once" /\ Admissions = {}
  /\ closing' = TRUE
  /\ closer' = [closer EXCEPT ![c] = "wait"]
  /\ UNCHANGED <<submitVars, result, input, work, batchVars, collector, timerVars,
                 workerVars, accepting, enqueued>>

\* The other calls pass closeOnce.Do when the first one has finished it.
CloseJoins(c) ==
  /\ closer[c] = "idle" /\ closing
  /\ closer' = [closer EXCEPT ![c] = "wait"]
  /\ UNCHANGED <<submitVars, result, input, work, batchVars, collector, timerVars,
                 workerVars, accepting, closing, enqueued>>

CloseReturns(c) ==
  /\ closer[c] = "wait" /\ collector = "done"
  /\ closer' = [closer EXCEPT ![c] = "returned"]
  /\ UNCHANGED <<submitVars, result, input, work, batchVars, collector, timerVars,
                 workerVars, accepting, closing, enqueued>>

-----------------------------------------------------------------------------
SubmitStep(r) ==
  \/ Enqueue(r) \/ NotEnqueued(r) \/ AdmissionDone(r) \/ SubmitReturns(r)

CollectorStep ==
  \/ Receive \/ ReceiveTick \/ SendWork \/ SeeClosing \/ LastFlush
  \/ CloseWork \/ CloseDone

WorkerStep(w) ==
  \/ Take(w) \/ SkipCancelled(w) \/ CallBind(w) \/ BindReturns(w) \/ WorkerExits(w)

CloseStep(c) == CloseSignals(c) \/ CloseJoins(c) \/ CloseReturns(c)

Next ==
  \/ \E r \in Requests : Cancel(r) \/ Register(r) \/ SubmitStep(r)
  \/ Expire \/ Tick
  \/ CollectorStep
  \/ \E w \in Workers : WorkerStep(w)
  \/ \E c \in Closers : CloseBegins(c) \/ CloseStep(c)

Spec == Init /\ [][Next]_vars

\* Every goroutine that can run does, timers fire and the API answers.  Nobody has
\* to call Submit or Close, or to cancel.
Fairness ==
  /\ \A r \in Requests : WF_vars(SubmitStep(r))
  /\ WF_vars(Expire) /\ WF_vars(Tick)
  /\ WF_vars(CollectorStep)
  /\ \A w \in Workers : WF_vars(WorkerStep(w))
  /\ \A c \in Closers : WF_vars(CloseStep(c))

FairSpec == Spec /\ Fairness

-----------------------------------------------------------------------------
\* Properties.

Requested(s) == {s[i] : i \in DOMAIN s}

TypeOK ==
  /\ call \in [Requests -> Call]
  /\ ctxDone \in [Requests -> BOOLEAN]
  /\ result \in [Requests -> Result]
  /\ input \in Seq(Requests) /\ Len(input) <= QueueCapacity
  /\ work \in Seq(Requests) /\ Len(work) <= QueueCapacity
  /\ batch \in Seq(Requests) /\ Len(batch) <= MaxBatch
  /\ collector \in {"select", "drain", "exit", "closed", "done"}
  /\ flushing \in BOOLEAN /\ timerC \in BOOLEAN /\ timerOn \in BOOLEAN
  /\ tickSent \in BOOLEAN /\ tick \in BOOLEAN /\ due \in BOOLEAN
  /\ worker \in [Workers -> {"idle", "checking", "binding", "exited"}]
  /\ item \in [Workers -> Requests \cup {NoRequest}]
  /\ accepting \in BOOLEAN /\ closing \in BOOLEAN
  /\ closer \in [Closers -> {"idle", "once", "wait", "returned"}]
  /\ enqueued \in Seq(Requests) /\ taken \in Seq(Requests)
  /\ binds \in [Requests -> Nat] /\ answers \in [Requests -> Nat]

\* What was accepted is, in the order of acceptance, what workers have taken, what
\* is queued as work, what is left of the batch and what is still in input: no
\* flush, tick, cancellation or shutdown loses, repeats or reorders a request.
Pipeline == enqueued = taken \o work \o batch \o input

\* A batch that waits for more requests always has its timer to end the wait, and an
\* empty batch listens to none.  A flush, which blocks while work is full, always has
\* workers that make room, also when Close has begun.
BatchMovesOn ==
  /\ collector = "select" /\ ~flushing =>
       /\ timerC <=> batch # <<>>
       /\ timerC => timerOn \/ tickSent \/ tick
  /\ flushing => \A w \in Workers : worker[w] # "exited"

\* The batcher keeps the promise of BindService: every bind call and every answer is a
\* step of the service, hence the only one of its request; an answer that claims a bind
\* has one behind it; and Close returns only when every accepted request has its answer
\* and nothing more can be accepted.
Service == INSTANCE BindService WITH
  accepted  <- Requested(enqueued),
  cancelled <- {r \in Requests : ctxDone[r]},
  drained   <- collector = "done"

ImplementsService == Service!ServiceSpec

\* Every accepted request is answered, also when its caller has left and when no
\* other request ever fills its batch.
AcceptedIsAnswered ==
  \A r \in Requests : call[r] = "enqueued" ~> result[r] # "none"

\* Every Close returns, whatever was queued, batched or being bound when it began.
CloseTerminates ==
  \A c \in Closers : closer[c] # "idle" ~> closer[c] = "returned"

-----------------------------------------------------------------------------
\* Day06.md:256: "A batch flushes when maxBatch is reached or window expires,
\* whichever comes first": before shutdown a flush starts with a full batch or when
\* the batch's own window has passed.
FlushOnlyWhenDue ==
  [][collector = "select" /\ ~flushing /\ flushing' => Len(batch') = MaxBatch \/ due]_vars
=============================================================================
