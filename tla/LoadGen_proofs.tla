--------------------------- MODULE LoadGen_proofs ---------------------------
(***************************************************************************)
(* Proofs about LoadGen for any number of workers, pods and retries.       *)
(*                                                                         *)
(* The load generator uses its token bucket only through one pass of Wait  *)
(* at a time, so what is proved of the bucket holds of every run.  The     *)
(* inductive invariant IInv adds to the bucket's:                          *)
(*   Numbers   a pod's number is in one place at a time;                   *)
(*   Counts    a submission's own counts against where its worker is;      *)
(*   Endings   what may have stopped a producer or a worker;               *)
(*   Accounts  where the numbers given out have gone;                      *)
(*   Sums      the counters of Stats and of the submissions under way      *)
(*             together are the calls made and the 429s received;          *)
(*   Budget    a token pays for the calls made and those still allowed;    *)
(*   SpanSoFar a success is within the span or still to be recorded.       *)
(***************************************************************************)
EXTENDS LoadGen, TokenBucket_proofs, FoldTheorems, SequenceTheorems

LEMMA WorkerStepIsBucketStep ==
  ASSUME NEW w \in Workers, WorkerStep(w)
  PROVE  [BucketNext]_<<now, bucketVars>>
<1>1. CASE Receive(w) \/ WorkerDone(w) \/ ChecksContext(w)
  BY <1>1 DEF Receive, WorkerDone, ChecksContext
<1>2. CASE GetsToken(w) BY <1>2 DEF GetsToken, BucketNext
<1>3. CASE SleepsForToken(w) BY <1>3 DEF SleepsForToken, BucketNext
<1>4. CASE TokenTimer(w) \/ StopsWithoutToken(w)
  BY <1>4 DEF TokenTimer, StopsWithoutToken
<1>5. CASE CallCreate(w) \/ BackoffEnds(w)
  BY <1>5 DEF CallCreate, BackoffEnds
<1>6. CASE GivesUp(w) \/ CreateFails(w) \/ TooMany(w)
  <2>1. ASSUME NEW limited, Fails(w, limited) PROVE UNCHANGED <<now, bucketVars>>
    BY <2>1 DEF Fails
  <2> QED BY <1>6, <2>1 DEF GivesUp, CreateFails, TooMany
<1>7. CASE Created(w) BY <1>7 DEF Created
<1>8. CASE \E ok \in BOOLEAN : Records(w, ok) BY <1>8 DEF Records
<1> QED BY <1>1, <1>2, <1>3, <1>4, <1>5, <1>6, <1>7, <1>8 DEF WorkerStep

LEMMA StepIsBucketStep == [Next]_vars => [BucketNext]_<<now, bucketVars>>
<1> SUFFICES ASSUME [Next]_vars PROVE [BucketNext]_<<now, bucketVars>> OBVIOUS
<1>1. CASE ProducerStep
  BY <1>1 DEF ProducerStep, NextArrival, Arrives, Send, ArrivalSent, ProducerStops
<1>2. CASE \E w \in Workers : WorkerStep(w) BY <1>2, WorkerStepIsBucketStep
<1>3. CASE Timeout \/ Interrupt BY <1>3 DEF Timeout, Interrupt
<1>4. CASE Tick /\ UNCHANGED genVars BY <1>4 DEF BucketNext
<1>5. CASE UNCHANGED vars BY <1>5 DEF vars, bucketVars
<1> QED BY <1>1, <1>2, <1>3, <1>4, <1>5 DEF Next

\* The workers of run.go, in any number and any order, use the bucket as
\* token_bucket.go means it to be used: one pass of Wait at a time.
THEOREM LoadGenUsesBucket == Spec => BucketSpec
<1>1. Init => BucketInit BY DEF Init
<1> QED BY <1>1, StepIsBucketStep, PTL DEF Spec, BucketSpec

\* In any run, whatever fails or is retried, no window of time sees more submissions
\* admitted than MaxQPS and Burst allow.
THEOREM SubmissionsKeepRate == Spec => []RateBound
BY LoadGenUsesBucket, BucketKeepsRate, PTL

-----------------------------------------------------------------------------
\* The inductive invariant of the run.

Submitting == {w \in Workers : worker[w] \in {"submit", "creating", "backoff"}}

\* What the worker has received so far: the numbers the queue has let go.
Received == 0 .. (sequence - Len(workCh) - 1)

\* A number is in one place: the queue holds the latest ones in order, no two workers
\* hold the same, and none that was dropped or logged is still held.
Numbers ==
  /\ Len(workCh) <= sequence
  /\ \A i \in 1 .. Len(workCh) : workCh[i] = sequence - Len(workCh) + i - 1
  /\ \A w \in Workers : req[w] = None <=> worker[w] \in {"range", "exited"}
  /\ \A w \in Workers : req[w] # None => req[w] \in Received
  /\ \A v, w \in Workers : v # w /\ req[v] = req[w] => req[w] = None
  /\ dropped \subseteq Received /\ submitLog \subseteq Received
  /\ \A w \in Workers : req[w] \notin dropped \cup submitLog

\* How the counts of a submission go with where its worker is.
Counts ==
  \A w \in Workers :
    /\ w \notin Submitting => attempts[w] = 0 /\ rateLimited[w] = 0
    /\ worker[w] \in {"submit", "backoff"} => attempts[w] = rateLimited[w] /\ attempts[w] <= MaxRetries
    /\ worker[w] = "creating" => attempts[w] = rateLimited[w] + 1 /\ attempts[w] <= MaxRetries + 1

\* Nothing ends for want of work unless all of it has been given out.
Endings ==
  /\ firstErr => runDone
  /\ dropped # {} => runDone
  /\ producer = "done" /\ ~runDone => sequence = MaxPods
  /\ \A w \in Workers : worker[w] = "exited" /\ ~runDone => producer = "done" /\ workCh = <<>>

\* Where each number has gone, and which rows have been written.
Accounts ==
  /\ sequence = Len(workCh) + Cardinality(InHand) + stats.Succeeded + stats.Failed
                + Cardinality(dropped)
  /\ ~firstErr => Cardinality(submitLog) + Cardinality(Recording) = stats.Succeeded

\* The counters against the calls; a submission's calls enter them when it ends.
Sums ==
  /\ stats.Attempted + SumFunctionOnSet(attempts, Workers) = creates
  /\ stats.RateLimited + SumFunctionOnSet(rateLimited, Workers) = limits
  /\ stats.Attempted >= stats.Succeeded + stats.RateLimited
  /\ stats.Attempted <= stats.Succeeded + stats.RateLimited + stats.Failed

\* The calls a worker may still make with the token it was granted.
CallsLeft ==
  [w \in Workers |-> IF w \in Submitting THEN MaxRetries + 1 - attempts[w] ELSE 0]

\* Every call made or still allowed has been paid for with a token.
Budget == creates + SumFunctionOnSet(CallsLeft, Workers) <= (MaxRetries + 1) * granted

\* A success is within the span or its worker has yet to report it.
SpanSoFar ==
  /\ \A w \in Recording : succeededAt[w] \in successes
  /\ stats.FirstSuccess = None <=> stats.LastSuccess = None
  /\ stats.FirstSuccess # None => /\ stats.FirstSuccess \in successes
                                  /\ stats.LastSuccess \in successes
  /\ \A t \in successes :
       \/ /\ stats.FirstSuccess # None
          /\ stats.FirstSuccess <= t /\ t <= stats.LastSuccess
       \/ \E w \in Recording : succeededAt[w] = t

IInv ==
  /\ BucketInv /\ TypeOK
  /\ Numbers /\ Counts /\ Endings
  /\ Accounts /\ Sums /\ Budget /\ SpanSoFar

LEMMA InitIInv == Init => IInv
<1> SUFFICES ASSUME Init PROVE IInv OBVIOUS
<1> USE LoadGenAssumption
<1>fin. IsFiniteSet(Workers) OBVIOUS
<1>1. BucketInv BY InitInv DEF Init
<1>2. TypeOK
  <2>1. BucketTypeOK BY <1>1 DEF BucketInv
  <2>2. <<>> \in Seq(0 .. MaxPods) /\ Len(<<>>) = 0 BY EmptySeq
  <2>3. stats \in [Attempted : Nat, Succeeded : Nat, Failed : Nat, RateLimited : Nat,
                   FirstSuccess : Nat \cup {None}, LastSuccess : Nat \cup {None}]
    BY DEF Init
  <2>4. workCh \in Seq(0 .. MaxPods) /\ Len(workCh) <= QueueCapacity BY <2>2 DEF Init
  <2>5. /\ worker \in [Workers -> {"range", "token", "bucket", "sleep", "submit", "creating",
                                   "backoff", "record", "exited"}]
        /\ req \in [Workers -> 0 .. MaxPods \cup {None}]
        /\ attempts \in [Workers -> 0 .. MaxRetries + 1]
        /\ rateLimited \in [Workers -> 0 .. MaxRetries + 1]
        /\ wake \in [Workers -> Nat] /\ succeededAt \in [Workers -> Nat]
    BY DEF Init
  <2>6. /\ producer \in {"next", "waiting", "sending", "done"}
        /\ sequence \in 0 .. MaxPods /\ toSend \in Nat /\ producerWake \in Nat
    BY DEF Init
  <2>8. runDone \in BOOLEAN /\ spikeFired \in BOOLEAN /\ firstErr \in BOOLEAN
    BY DEF Init
  <2>7. /\ submitLog \subseteq 0 .. MaxPods /\ dropped \subseteq 0 .. MaxPods
        /\ creates \in Nat /\ limits \in Nat /\ successes \subseteq Nat
    BY DEF Init
  <2> QED BY <2>1, <2>3, <2>4, <2>5, <2>6, <2>7, <2>8 DEF TypeOK
<1>3. Numbers BY DEF Init, Numbers
<1>4. Counts BY DEF Init, Counts
<1>5. Endings BY DEF Init, Endings
<1>6. Accounts
  <2>1. InHand = {} /\ Recording = {} BY DEF Init, InHand, Recording
  <2>2. Len(<<>>) = 0 /\ Cardinality({}) = 0 BY FS_EmptySet
  <2> QED BY <2>1, <2>2 DEF Init, Accounts
<1>zero. \A w \in Workers : attempts[w] = 0 /\ rateLimited[w] = 0 /\ CallsLeft[w] = 0
  BY DEF Init, CallsLeft, Submitting
<1>7. Sums
  <2>1. SumFunctionOnSet(attempts, Workers) = 0 /\ SumFunctionOnSet(rateLimited, Workers) = 0
    BY <1>zero, <1>fin, SumZero
  <2> QED BY <2>1 DEF Init, Sums
<1>8. Budget
  <2>1. SumFunctionOnSet(CallsLeft, Workers) = 0 BY <1>zero, <1>fin, SumZero
  <2> QED BY <2>1 DEF Init, BucketInit, Budget
<1>9. SpanSoFar BY DEF Init, SpanSoFar, Recording
<1> QED BY <1>1, <1>2, <1>3, <1>4, <1>5, <1>6, <1>7, <1>8, <1>9 DEF IInv

-----------------------------------------------------------------------------
\* Types.

LEMMA ProducerKeepsType ==
  ASSUME IInv, BucketTypeOK', ProducerStep
  PROVE  TypeOK'
<1> USE LoadGenAssumption, BucketAssumption
<1>ty. TypeOK BY DEF IInv
<1>1. CASE NextArrival
  <2>1. spikeFired' \in BOOLEAN /\ toSend' \in Nat /\ producerWake' \in Nat
        /\ producer' \in {"next", "waiting", "sending", "done"}
    <3>1. CASE Limited BY <1>1, <3>1, <1>ty DEF NextArrival, TypeOK
    <3>2. CASE ~Limited
      <4>1. PICK delay \in IF SpikeDue THEN {0} ELSE SteadyDelays : producerWake' = now + delay
        BY <1>1, <3>2 DEF NextArrival
      <4>2. now \in Nat BY <1>ty DEF TypeOK, BucketTypeOK
      <4>3. delay \in Nat BY <4>1, <4>2 DEF SteadyDelays, SpikeDue
      <4>4. producerWake' \in Nat BY <4>1, <4>2, <4>3
      <4> QED BY <1>1, <3>2, <4>4, <1>ty, SMTT(40) DEF NextArrival, TypeOK, SpikeDue
    <3> QED BY <3>1, <3>2
  <2> QED BY <1>1, <2>1, <1>ty DEF NextArrival, TypeOK, workerVars, resultVars
<1>2. CASE Arrives BY <1>2, <1>ty DEF Arrives, TypeOK, workerVars, resultVars
<1>3. CASE Send
  <2>1. sequence < MaxPods /\ sequence \in 0 .. MaxPods
    BY <1>3, <1>ty DEF Send, Limited, TypeOK
  <2>2. workCh' \in Seq(0 .. MaxPods) /\ Len(workCh') = Len(workCh) + 1
    BY <1>3, <2>1, <1>ty DEF Send, TypeOK
  <2>3. Len(workCh) \in Nat BY <1>ty DEF TypeOK
  <2>4. sequence' \in 0 .. MaxPods /\ toSend' \in Nat /\ Len(workCh') <= QueueCapacity
    BY <1>3, <2>1, <2>2, <2>3, <1>ty DEF Send, TypeOK
  <2> QED BY <1>3, <2>2, <2>4, <1>ty DEF Send, TypeOK, workerVars, resultVars
<1>4. CASE ArrivalSent BY <1>4, <1>ty DEF ArrivalSent, TypeOK, workerVars, resultVars
<1>5. CASE ProducerStops BY <1>5, <1>ty DEF ProducerStops, TypeOK, workerVars, resultVars
<1> QED BY <1>1, <1>2, <1>3, <1>4, <1>5 DEF ProducerStep

\* The statistics after a submission has ended.
LEMMA SubmittedType ==
  ASSUME TypeOK, NEW w \in Workers, NEW limited \in 0 .. MaxRetries + 1,
         NEW field \in {"Succeeded", "Failed"}, NEW next, Submitted(w, limited, field, next)
  PROVE  /\ stats' \in [Attempted : Nat, Succeeded : Nat, Failed : Nat, RateLimited : Nat,
                        FirstSuccess : Nat \cup {None}, LastSuccess : Nat \cup {None}]
         /\ stats'.Attempted = stats.Attempted + attempts[w]
         /\ stats'.RateLimited = stats.RateLimited + limited
         /\ field = "Succeeded" => /\ stats'.Succeeded = stats.Succeeded + 1
                                   /\ stats'.Failed = stats.Failed
         /\ field = "Failed" => /\ stats'.Failed = stats.Failed + 1
                                /\ stats'.Succeeded = stats.Succeeded
         /\ stats'.FirstSuccess = stats.FirstSuccess /\ stats'.LastSuccess = stats.LastSuccess
<1>1. attempts[w] \in Nat /\ limited \in Nat BY LoadGenAssumption DEF TypeOK
<1>2. stats \in [Attempted : Nat, Succeeded : Nat, Failed : Nat, RateLimited : Nat,
                 FirstSuccess : Nat \cup {None}, LastSuccess : Nat \cup {None}]
  BY DEF TypeOK
<1>3. CASE field = "Succeeded"
  <2>1. stats' = [stats EXCEPT !.Attempted = stats.Attempted + attempts[w],
                               !.RateLimited = stats.RateLimited + limited,
                               !.Succeeded = stats.Succeeded + 1]
    BY <1>2, <1>3 DEF Submitted
  <2>2. /\ stats'.Attempted = stats.Attempted + attempts[w]
        /\ stats'.RateLimited = stats.RateLimited + limited
        /\ stats'.Succeeded = stats.Succeeded + 1 /\ stats'.Failed = stats.Failed
        /\ stats'.FirstSuccess = stats.FirstSuccess /\ stats'.LastSuccess = stats.LastSuccess
    BY <2>1, <1>2
  <2>3. /\ stats.Attempted + attempts[w] \in Nat /\ stats.RateLimited + limited \in Nat
        /\ stats.Succeeded + 1 \in Nat
    BY <1>1, <1>2
  <2>4. stats' \in [Attempted : Nat, Succeeded : Nat, Failed : Nat, RateLimited : Nat,
                    FirstSuccess : Nat \cup {None}, LastSuccess : Nat \cup {None}]
    BY <2>1, <2>3, <1>2
  <2> QED BY <2>2, <2>4, <1>3
<1>4. CASE field = "Failed"
  <2>1. stats' = [stats EXCEPT !.Attempted = stats.Attempted + attempts[w],
                               !.RateLimited = stats.RateLimited + limited,
                               !.Failed = stats.Failed + 1]
    BY <1>2, <1>4 DEF Submitted
  <2>2. /\ stats'.Attempted = stats.Attempted + attempts[w]
        /\ stats'.RateLimited = stats.RateLimited + limited
        /\ stats'.Failed = stats.Failed + 1 /\ stats'.Succeeded = stats.Succeeded
        /\ stats'.FirstSuccess = stats.FirstSuccess /\ stats'.LastSuccess = stats.LastSuccess
    BY <2>1, <1>2
  <2>3. /\ stats.Attempted + attempts[w] \in Nat /\ stats.RateLimited + limited \in Nat
        /\ stats.Failed + 1 \in Nat
    BY <1>1, <1>2
  <2>4. stats' \in [Attempted : Nat, Succeeded : Nat, Failed : Nat, RateLimited : Nat,
                    FirstSuccess : Nat \cup {None}, LastSuccess : Nat \cup {None}]
    BY <2>1, <2>3, <1>2
  <2> QED BY <2>2, <2>4, <1>4
<1> QED BY <1>3, <1>4

\* How a failed submission ends, in one of three ways.
LEMMA FailureCases ==
  ASSUME IInv, NEW w \in Workers,
         GivesUp(w) \/ CreateFails(w) \/ (TooMany(w) /\ attempts[w] > MaxRetries)
  PROVE  /\ w \in Submitting
         /\ \E limited \in 0 .. MaxRetries + 1 :
              /\ Fails(w, limited)
              /\ limits' = limits + (limited - rateLimited[w])
              /\ attempts[w] \in {limited, limited + 1}
<1> USE LoadGenAssumption
<1>ty. TypeOK /\ Counts BY DEF IInv
<1>1. rateLimited[w] \in 0 .. MaxRetries + 1 /\ attempts[w] \in 0 .. MaxRetries + 1 /\ limits \in Nat
  BY <1>ty DEF TypeOK
<1>2. CASE GivesUp(w)
  <2>1. worker[w] \in {"submit", "backoff"} BY <1>2 DEF GivesUp
  <2>2. attempts[w] = rateLimited[w] BY <2>1, <1>ty DEF Counts
  <2>3. Fails(w, rateLimited[w]) /\ limits' = limits BY <1>2 DEF GivesUp
  <2> QED BY <2>1, <2>2, <2>3, <1>1 DEF Submitting
<1>3. CASE CreateFails(w)
  <2>1. worker[w] = "creating" BY <1>3 DEF CreateFails
  <2>2. attempts[w] = rateLimited[w] + 1 BY <2>1, <1>ty DEF Counts
  <2>3. Fails(w, rateLimited[w]) /\ limits' = limits BY <1>3 DEF CreateFails
  <2> QED BY <2>1, <2>2, <2>3, <1>1 DEF Submitting
<1>4. CASE TooMany(w) /\ attempts[w] > MaxRetries
  <2>1. worker[w] = "creating" BY <1>4 DEF TooMany
  <2>2. attempts[w] = rateLimited[w] + 1 BY <2>1, <1>ty DEF Counts
  <2>3. Fails(w, rateLimited[w] + 1) /\ limits' = limits + 1 BY <1>4 DEF TooMany
  <2> QED BY <2>1, <2>2, <2>3, <1>1 DEF Submitting
<1> QED BY <1>2, <1>3, <1>4

\* The effect of the steps that end a submission or begin a backoff.
LEMMA FailsEffect ==
  ASSUME NEW w \in Workers, NEW limited, Fails(w, limited)
  PROVE  /\ attempts' = [attempts EXCEPT ![w] = 0]
         /\ rateLimited' = [rateLimited EXCEPT ![w] = 0]
         /\ worker' = [worker EXCEPT ![w] = "range"]
         /\ req' = [req EXCEPT ![w] = None]
         /\ UNCHANGED <<runDone, producer, sequence, toSend, producerWake, spikeFired, workCh, wake,
                        succeededAt, firstErr, submitLog, creates, successes, dropped, granted>>
BY DEF Fails, Submitted, ToStage, producerVars, bucketVars

LEMMA CreatedEffect ==
  ASSUME NEW w \in Workers, Created(w)
  PROVE  /\ worker[w] = "creating"
         /\ attempts' = [attempts EXCEPT ![w] = 0]
         /\ rateLimited' = [rateLimited EXCEPT ![w] = 0]
         /\ worker' = [worker EXCEPT ![w] = "record"]
         /\ succeededAt' = [succeededAt EXCEPT ![w] = now]
         /\ successes' = successes \cup {now}
         /\ UNCHANGED <<runDone, producer, sequence, toSend, producerWake, spikeFired, workCh, req,
                        wake, firstErr, submitLog, creates, limits, dropped, granted>>
BY DEF Created, Submitted, ToStage, producerVars, bucketVars

LEMMA BackoffEffect ==
  ASSUME NEW w \in Workers, TooMany(w), ~(attempts[w] > MaxRetries)
  PROVE  /\ worker[w] = "creating" /\ limits' = limits + 1
         /\ rateLimited' = [rateLimited EXCEPT ![w] = rateLimited[w] + 1]
         /\ worker' = [worker EXCEPT ![w] = "backoff"]
         /\ UNCHANGED <<runDone, producer, sequence, toSend, producerWake, spikeFired, workCh, req,
                        attempts, wake, succeededAt, stats, firstErr, submitLog, creates, successes,
                        dropped, granted>>
BY DEF TooMany, ToStage, producerVars, bucketVars

LEMMA WorkerKeepsType ==
  ASSUME IInv, BucketTypeOK', NEW w \in Workers, WorkerStep(w)
  PROVE  TypeOK'
<1> USE LoadGenAssumption, BucketAssumption
<1>ty. TypeOK /\ Counts /\ Numbers BY DEF IInv
<1>nat. creates \in Nat /\ limits \in Nat /\ now \in Nat BY <1>ty DEF TypeOK, BucketTypeOK
<1>at. attempts[w] \in 0 .. MaxRetries + 1 /\ rateLimited[w] \in 0 .. MaxRetries + 1
  BY <1>ty DEF TypeOK
<1>fn. /\ worker \in [Workers -> {"range", "token", "bucket", "sleep", "submit", "creating",
                                  "backoff", "record", "exited"}]
       /\ attempts \in [Workers -> 0 .. MaxRetries + 1]
       /\ rateLimited \in [Workers -> 0 .. MaxRetries + 1]
       /\ succeededAt \in [Workers -> Nat] /\ successes \subseteq Nat
  BY <1>ty DEF TypeOK
<1>1. CASE Receive(w)
  <2>1. workCh \in Seq(0 .. MaxPods) /\ Len(workCh) <= QueueCapacity /\ workCh # <<>>
    BY <1>1, <1>ty DEF Receive, TypeOK
  <2>2. /\ Head(workCh) \in 0 .. MaxPods /\ Tail(workCh) \in Seq(0 .. MaxPods)
        /\ Len(Tail(workCh)) = Len(workCh) - 1 /\ Len(workCh) \in Nat
    BY <2>1, EmptySeq, HeadTailProperties
  <2>3. Len(workCh') <= QueueCapacity BY <1>1, <2>1, <2>2 DEF Receive
  <2> QED BY <1>1, <2>2, <2>3, <1>ty DEF Receive, ToStage, TypeOK, producerVars, resultVars
<1>2. CASE WorkerDone(w) \/ ChecksContext(w)
  BY <1>2, <1>ty, ZenonT(60) DEF WorkerDone, ChecksContext, ToStage, TypeOK, producerVars, resultVars
<1>3. CASE GetsToken(w)
  BY <1>3, <1>ty DEF GetsToken, ToStage, TypeOK, producerVars, resultVars
<1>4. CASE SleepsForToken(w)
  <2>1. BucketTypeOK BY <1>ty DEF TypeOK
  <2>2. MissingUntil \in Nat
    <3>1. Refilled \in Nat /\ Refilled < Token
      BY <1>4, <2>1, RefilledBounds, CapacityNat DEF SleepsForToken, MissToken
    <3> DEFINE numerator == (Token - Refilled) + (Rate - 1)
    <3>2. numerator \in Nat BY <3>1
    <3> HIDE DEF numerator
    <3>3. numerator \div Rate \in Nat BY <3>2
    <3>4. now \in Nat BY <2>1 DEF BucketTypeOK
    <3> QED BY <3>3, <3>4 DEF MissingUntil, numerator
  <2> QED BY <1>4, <2>2, <1>ty DEF SleepsForToken, ToStage, TypeOK, producerVars, resultVars
<1>5. CASE TokenTimer(w)
  BY <1>5, <1>ty DEF TokenTimer, ToStage, TypeOK, producerVars, resultVars
<1>6. CASE StopsWithoutToken(w)
  <2>1. req[w] \in 0 .. MaxPods
    BY <1>6, <1>ty DEF StopsWithoutToken, Numbers, TypeOK
  <2> QED BY <1>6, <2>1, <1>ty DEF StopsWithoutToken, ToStage, TypeOK, producerVars
<1>7. CASE CallCreate(w)
  <2>1. attempts[w] + 1 \in 0 .. MaxRetries + 1 /\ creates' \in Nat
    BY <1>7, <1>ty, <1>at, <1>nat DEF CallCreate, Counts
  <2> QED BY <1>7, <2>1, <1>ty DEF CallCreate, ToStage, TypeOK, producerVars
<1>8. CASE GivesUp(w) \/ CreateFails(w) \/ (TooMany(w) /\ attempts[w] > MaxRetries)
  <2>1. PICK limited \in 0 .. MaxRetries + 1 :
          Fails(w, limited) /\ limits' = limits + (limited - rateLimited[w])
    BY <1>8, FailureCases
  <2>2. Submitted(w, limited, "Failed", "range") BY <2>1 DEF Fails
  <2>3. stats' \in [Attempted : Nat, Succeeded : Nat, Failed : Nat, RateLimited : Nat,
                    FirstSuccess : Nat \cup {None}, LastSuccess : Nat \cup {None}]
    BY <2>2, <1>ty, SubmittedType
  <2>4. limits' \in Nat BY <1>8, <1>nat DEF GivesUp, CreateFails, TooMany
  <2>5. /\ attempts' = [attempts EXCEPT ![w] = 0]
        /\ rateLimited' = [rateLimited EXCEPT ![w] = 0]
        /\ worker' = [worker EXCEPT ![w] = "range"] /\ req' = [req EXCEPT ![w] = None]
        /\ UNCHANGED <<runDone, producer, sequence, toSend, producerWake, spikeFired, workCh, wake,
                       succeededAt, firstErr, submitLog, creates, successes, dropped>>
    BY <2>1, FailsEffect
  <2>7. /\ worker' \in [Workers -> {"range", "token", "bucket", "sleep", "submit", "creating",
                                    "backoff", "record", "exited"}]
        /\ attempts' \in [Workers -> 0 .. MaxRetries + 1]
        /\ rateLimited' \in [Workers -> 0 .. MaxRetries + 1]
        /\ req' \in [Workers -> 0 .. MaxPods \cup {None}]
    BY <2>5, <1>ty, SMTT(40) DEF TypeOK
  <2> QED BY <2>3, <2>4, <2>5, <2>7, <1>ty DEF TypeOK
<1>9. CASE TooMany(w) /\ ~(attempts[w] > MaxRetries)
  <2>1. rateLimited[w] + 1 \in 0 .. MaxRetries + 1 /\ limits' \in Nat
    BY <1>9, <1>ty, <1>at, <1>nat DEF TooMany, Counts
  <2>2. /\ rateLimited' = [rateLimited EXCEPT ![w] = rateLimited[w] + 1]
        /\ worker' = [worker EXCEPT ![w] = "backoff"]
        /\ UNCHANGED <<runDone, producer, sequence, toSend, producerWake, spikeFired, workCh, req,
                       attempts, wake, succeededAt, stats, firstErr, submitLog, creates, successes,
                       dropped>>
    BY <1>9, BackoffEffect
  <2> QED BY <2>1, <2>2, <1>ty DEF TypeOK
<1>10. CASE Created(w)
  <2>1. Submitted(w, rateLimited[w], "Succeeded", "record") BY <1>10 DEF Created
  <2>2. rateLimited[w] \in 0 .. MaxRetries + 1 /\ now \in Nat BY <1>ty DEF TypeOK, BucketTypeOK
  <2>3. stats' \in [Attempted : Nat, Succeeded : Nat, Failed : Nat, RateLimited : Nat,
                    FirstSuccess : Nat \cup {None}, LastSuccess : Nat \cup {None}]
    BY <2>1, <2>2, <1>ty, SubmittedType
  <2>5. /\ attempts' = [attempts EXCEPT ![w] = 0]
        /\ rateLimited' = [rateLimited EXCEPT ![w] = 0]
        /\ worker' = [worker EXCEPT ![w] = "record"]
        /\ succeededAt' = [succeededAt EXCEPT ![w] = now] /\ successes' = successes \cup {now}
        /\ UNCHANGED <<runDone, producer, sequence, toSend, producerWake, spikeFired, workCh, req,
                       wake, firstErr, submitLog, creates, limits, dropped>>
    BY <1>10, CreatedEffect
  <2>6. /\ worker' \in [Workers -> {"range", "token", "bucket", "sleep", "submit", "creating",
                                    "backoff", "record", "exited"}]
        /\ attempts' \in [Workers -> 0 .. MaxRetries + 1]
        /\ rateLimited' \in [Workers -> 0 .. MaxRetries + 1]
        /\ succeededAt' \in [Workers -> Nat] /\ successes' \subseteq Nat
    BY <2>2, <2>5, <1>fn
  <2> QED BY <2>3, <2>5, <2>6, <1>ty DEF TypeOK
<1>11. CASE BackoffEnds(w)
  BY <1>11, <1>ty DEF BackoffEnds, ToStage, TypeOK, producerVars, resultVars
<1>12. CASE \E ok \in BOOLEAN : Records(w, ok)
  <2>1. PICK ok \in BOOLEAN : Records(w, ok) BY <1>12
  <2>2. req[w] \in 0 .. MaxPods BY <2>1, <1>ty DEF Records, Numbers, TypeOK
  <2>3. stats' \in [Attempted : Nat, Succeeded : Nat, Failed : Nat, RateLimited : Nat,
                    FirstSuccess : Nat \cup {None}, LastSuccess : Nat \cup {None}]
    BY <2>1, <1>ty DEF Records, Span, TypeOK
  <2> QED BY <2>1, <2>2, <2>3, <1>ty DEF Records, ToStage, TypeOK, producerVars
<1> QED BY <1>1, <1>2, <1>3, <1>4, <1>5, <1>6, <1>7, <1>8, <1>9, <1>10, <1>11, <1>12 DEF WorkerStep

LEMMA TypeStep ==
  ASSUME IInv, BucketTypeOK', [Next]_vars
  PROVE  TypeOK'
<1>ty. TypeOK BY DEF IInv
<1>1. CASE ProducerStep BY <1>1, ProducerKeepsType
<1>2. CASE \E w \in Workers : WorkerStep(w) BY <1>2, WorkerKeepsType
<1>3. CASE Timeout \/ Interrupt
  BY <1>3, <1>ty DEF Timeout, Interrupt, TypeOK, producerVars, workerVars, resultVars
<1>4. CASE Tick /\ UNCHANGED genVars
  BY <1>4, <1>ty DEF genVars, TypeOK, producerVars, workerVars, resultVars
<1>5. CASE UNCHANGED vars BY <1>5, <1>ty DEF vars, TypeOK
<1> QED BY <1>1, <1>2, <1>3, <1>4, <1>5 DEF Next

-----------------------------------------------------------------------------
\* Counts and endings.

LEMMA CountsStep ==
  ASSUME IInv, [Next]_vars
  PROVE  Counts'
<1> USE LoadGenAssumption
<1>ty. TypeOK /\ Counts BY DEF IInv
<1>fn. /\ worker \in [Workers -> {"range", "token", "bucket", "sleep", "submit", "creating",
                                  "backoff", "record", "exited"}]
       /\ attempts \in [Workers -> Nat] /\ rateLimited \in [Workers -> Nat]
  BY <1>ty DEF TypeOK
<1>1. CASE UNCHANGED <<worker, attempts, rateLimited>> BY <1>1, <1>ty DEF Counts, Submitting
<1>2. ASSUME NEW w \in Workers, WorkerStep(w) PROVE Counts'
  <2>1. CASE Receive(w) \/ WorkerDone(w) \/ ChecksContext(w) \/ SleepsForToken(w)
             \/ TokenTimer(w) \/ StopsWithoutToken(w)
    BY <2>1, <1>ty, <1>fn DEF Receive, WorkerDone, ChecksContext, SleepsForToken, TokenTimer,
                              StopsWithoutToken, ToStage, Counts, Submitting
  <2>2. CASE GetsToken(w)
    BY <2>2, <1>ty, <1>fn DEF GetsToken, ToStage, Counts, Submitting
  <2>3. CASE CallCreate(w)
    BY <2>3, <1>ty, <1>fn DEF CallCreate, ToStage, Counts, Submitting
  <2>4. CASE GivesUp(w) \/ CreateFails(w) \/ (TooMany(w) /\ attempts[w] > MaxRetries)
    <3>1. PICK limited \in 0 .. MaxRetries + 1 : Fails(w, limited) BY <2>4, FailureCases
    <3> QED BY <3>1, FailsEffect, <1>ty, <1>fn DEF Counts, Submitting
  <2>5. CASE TooMany(w) /\ ~(attempts[w] > MaxRetries)
    BY <2>5, BackoffEffect, <1>ty, <1>fn DEF Counts, Submitting
  <2>6. CASE Created(w) BY <2>6, CreatedEffect, <1>ty, <1>fn DEF Counts, Submitting
  <2>7. CASE BackoffEnds(w) BY <2>7, <1>ty, <1>fn DEF BackoffEnds, ToStage, Counts, Submitting
  <2>8. CASE \E ok \in BOOLEAN : Records(w, ok)
    BY <2>8, <1>ty, <1>fn DEF Records, ToStage, Counts, Submitting
  <2> QED BY <1>2, <2>1, <2>2, <2>3, <2>4, <2>5, <2>6, <2>7, <2>8 DEF WorkerStep
<1>3. CASE ProducerStep \/ Timeout \/ Interrupt
  BY <1>1, <1>3 DEF ProducerStep, NextArrival, Arrives, Send, ArrivalSent, ProducerStops, Timeout,
                    Interrupt, workerVars
<1>4. CASE (Tick /\ UNCHANGED genVars) \/ UNCHANGED vars
  BY <1>1, <1>4 DEF genVars, workerVars, vars
<1> QED BY <1>2, <1>3, <1>4 DEF Next

LEMMA EndingsStep ==
  ASSUME IInv, [Next]_vars
  PROVE  Endings'
<1> USE LoadGenAssumption
<1>ty. TypeOK /\ Endings BY DEF IInv
<1>fn. /\ worker \in [Workers -> {"range", "token", "bucket", "sleep", "submit", "creating",
                                  "backoff", "record", "exited"}]
       /\ runDone \in BOOLEAN /\ firstErr \in BOOLEAN /\ sequence \in 0 .. MaxPods
  BY <1>ty DEF TypeOK
<1>1. CASE UNCHANGED <<runDone, firstErr, dropped, producer, sequence, worker, workCh>>
  BY <1>1, <1>ty DEF Endings
<1>2. ASSUME NEW w \in Workers, WorkerStep(w) PROVE Endings'
  <2>1. CASE Receive(w) \/ WorkerDone(w) \/ ChecksContext(w) \/ GetsToken(w) \/ SleepsForToken(w)
             \/ TokenTimer(w)
    BY <2>1, <1>ty, <1>fn DEF Receive, WorkerDone, ChecksContext, GetsToken, SleepsForToken,
                              TokenTimer, ToStage, Endings, producerVars, resultVars
  <2>2. CASE StopsWithoutToken(w)
    BY <2>2, <1>ty, <1>fn DEF StopsWithoutToken, ToStage, Endings, producerVars
  <2>3. CASE CallCreate(w) \/ BackoffEnds(w)
    BY <2>3, <1>ty, <1>fn DEF CallCreate, BackoffEnds, ToStage, Endings, producerVars, resultVars
  <2>4. CASE GivesUp(w) \/ CreateFails(w) \/ (TooMany(w) /\ attempts[w] > MaxRetries)
    <3>1. PICK limited \in 0 .. MaxRetries + 1 : Fails(w, limited) BY <2>4, FailureCases
    <3> QED BY <3>1, FailsEffect, <1>ty, <1>fn DEF Endings
  <2>5. CASE TooMany(w) /\ ~(attempts[w] > MaxRetries)
    BY <2>5, BackoffEffect, <1>ty, <1>fn DEF Endings
  <2>6. CASE Created(w) BY <2>6, CreatedEffect, <1>ty, <1>fn DEF Endings
  <2>8. CASE \E ok \in BOOLEAN : Records(w, ok)
    BY <2>8, <1>ty, <1>fn DEF Records, ToStage, Endings, producerVars
  <2> QED BY <1>2, <2>1, <2>2, <2>3, <2>4, <2>5, <2>6, <2>8 DEF WorkerStep
<1>3. CASE NextArrival \/ Arrives \/ ArrivalSent
  BY <1>3, <1>ty, <1>fn DEF NextArrival, Arrives, ArrivalSent, Limited, Endings, workerVars,
                            resultVars
<1>4. CASE Send
  BY <1>4, <1>ty, <1>fn DEF Send, Limited, Endings, workerVars, resultVars
<1>5. CASE ProducerStops \/ Timeout \/ Interrupt
  BY <1>5, <1>ty, <1>fn DEF ProducerStops, Timeout, Interrupt, Endings, producerVars, workerVars,
                            resultVars
<1>6. CASE (Tick /\ UNCHANGED genVars) \/ UNCHANGED vars
  BY <1>1, <1>6 DEF genVars, workerVars, producerVars, resultVars, vars
<1> QED BY <1>2, <1>3, <1>4, <1>5, <1>6 DEF Next, ProducerStep

-----------------------------------------------------------------------------
\* Numbers.

\* A worker that lets go of its request leaves the others theirs.
LEMMA LetGo ==
  ASSUME IInv, NEW w \in Workers, req[w] # None,
         req' = [req EXCEPT ![w] = None],
         \E at \in {"range", "exited"} : worker' = [worker EXCEPT ![w] = at],
         UNCHANGED <<sequence, workCh>>,
         \/ dropped' = dropped \cup {req[w]} /\ submitLog' = submitLog
         \/ dropped' = dropped /\ submitLog' \in {submitLog, submitLog \cup {req[w]}}
  PROVE  Numbers'
<1> USE LoadGenAssumption
<1>ty. TypeOK /\ Numbers BY DEF IInv
<1>fn. /\ DOMAIN req = Workers /\ DOMAIN worker = Workers
       /\ worker = [v \in Workers |-> worker[v]] /\ req = [v \in Workers |-> req[v]]
       /\ sequence \in Nat /\ Len(workCh) \in Nat
  BY <1>ty DEF TypeOK
<1>rc. Received' = Received BY DEF Received
<1>none. None \notin Received BY <1>fn DEF Received
<1>1. /\ Len(workCh') <= sequence'
      /\ \A i \in 1 .. Len(workCh') : workCh'[i] = sequence' - Len(workCh') + i - 1
  BY <1>ty DEF Numbers
<1>2. \A v \in Workers : v # w => req'[v] = req[v] /\ worker'[v] = worker[v]
  BY <1>fn
<1>3. req'[w] = None /\ worker'[w] \in {"range", "exited"} BY <1>fn
<1>4. /\ req[w] \in Received /\ dropped' \subseteq Received /\ submitLog' \subseteq Received
      /\ dropped' \cup submitLog' \subseteq dropped \cup submitLog \cup {req[w]}
  BY <1>ty DEF Numbers
<1>5. \A v \in Workers : req'[v] = None <=> worker'[v] \in {"range", "exited"}
  BY <1>2, <1>3, <1>ty DEF Numbers
<1>6. \A v \in Workers : req'[v] # None => req'[v] \in Received
  BY <1>2, <1>3, <1>ty DEF Numbers
<1>7. \A u, v \in Workers : u # v /\ req'[u] = req'[v] => req'[v] = None
  BY <1>2, <1>3, <1>ty DEF Numbers
<1>8. \A v \in Workers : req'[v] \notin dropped' \cup submitLog'
  <2> SUFFICES ASSUME NEW v \in Workers PROVE req'[v] \notin dropped' \cup submitLog' OBVIOUS
  <2>1. CASE v = w BY <2>1, <1>3, <1>4, <1>none
  <2>2. CASE v # w
    <3>1. req[v] \notin dropped \cup submitLog /\ req[v] # req[w] BY <2>2, <1>ty DEF Numbers
    <3> QED BY <3>1, <2>2, <1>2, <1>4
  <2> QED BY <2>1, <2>2
<1> QED BY <1>1, <1>4, <1>5, <1>6, <1>7, <1>8, <1>rc DEF Numbers

\* Steps that move no request and keep a worker's stage on its side.
LEMMA NumbersStutter ==
  ASSUME Numbers, UNCHANGED <<sequence, workCh, req, dropped, submitLog>>,
         \A w \in Workers : worker'[w] \in {"range", "exited"} <=> worker[w] \in {"range", "exited"}
  PROVE  Numbers'
BY DEF Numbers, Received

LEMMA SendKeepsNumbers == ASSUME IInv, Send PROVE Numbers'
<1> USE LoadGenAssumption
<1>ty. TypeOK /\ Numbers BY DEF IInv
<1>fn. sequence \in 0 .. MaxPods /\ workCh \in Seq(0 .. MaxPods) /\ Len(workCh) \in Nat
  BY <1>ty DEF TypeOK
<1> DEFINE L == Len(workCh)
<1>1. /\ workCh' = Append(workCh, sequence) /\ sequence' = sequence + 1
      /\ UNCHANGED <<worker, req, dropped, submitLog>> /\ sequence \in 0 .. MaxPods
  BY <1>fn DEF Send, workerVars, resultVars
<1>2. /\ Len(workCh') = L + 1 /\ workCh'[L + 1] = sequence
      /\ \A i \in 1 .. L : workCh'[i] = workCh[i]
  BY <1>1, <1>fn, AppendProperties
<1>3. L <= sequence /\ \A i \in 1 .. L : workCh[i] = sequence - L + i - 1 BY <1>ty DEF Numbers
<1>4. Received' = Received
  <2>1. sequence' - Len(workCh') - 1 = sequence - L - 1 BY <1>1, <1>2, <1>fn
  <2> QED BY <2>1 DEF Received
<1>5. Len(workCh') <= sequence' BY <1>1, <1>2, <1>3, <1>fn
<1>6. ASSUME NEW i \in 1 .. Len(workCh') PROVE workCh'[i] = sequence' - Len(workCh') + i - 1
  <2>1. CASE i \in 1 .. L
    <3>1. workCh'[i] = sequence - L + i - 1 BY <2>1, <1>2, <1>3
    <3> HIDE DEF L
    <3> QED BY <3>1, <1>1, <1>2, <1>fn, <2>1 DEF L
  <2>2. CASE i = L + 1 BY <2>2, <1>1, <1>2, <1>fn
  <2> QED BY <2>1, <2>2, <1>2, <1>fn
<1> QED BY <1>1, <1>4, <1>5, <1>6, <1>ty DEF Numbers

LEMMA ReceiveKeepsNumbers == ASSUME IInv, NEW w \in Workers, Receive(w) PROVE Numbers'
<1> USE LoadGenAssumption
<1>ty. TypeOK /\ Numbers BY DEF IInv
<1>fn. /\ sequence \in Nat /\ workCh \in Seq(0 .. MaxPods) /\ Len(workCh) \in Nat
       /\ worker = [v \in Workers |-> worker[v]] /\ req = [v \in Workers |-> req[v]]
  BY <1>ty DEF TypeOK
<1> DEFINE L == Len(workCh)
<1>1. /\ workCh # <<>> /\ workCh' = Tail(workCh) /\ req' = [req EXCEPT ![w] = Head(workCh)]
      /\ worker' = [worker EXCEPT ![w] = "token"]
      /\ UNCHANGED <<sequence, dropped, submitLog>>
  BY DEF Receive, ToStage, producerVars, resultVars
<1>2. /\ L > 0 /\ Head(workCh) = workCh[1] /\ Len(workCh') = L - 1
      /\ \A i \in 1 .. L - 1 : workCh'[i] = workCh[i + 1]
  BY <1>1, <1>fn, EmptySeq, HeadTailProperties
<1>3. L <= sequence /\ \A i \in 1 .. L : workCh[i] = sequence - L + i - 1 BY <1>ty DEF Numbers
<1>4. Head(workCh) = sequence - L BY <1>2, <1>3, <1>fn, SMTT(40)
<1>5. /\ Received' = 0 .. sequence - L /\ Received = 0 .. sequence - L - 1
  BY <1>1, <1>2, <1>fn DEF Received
<1>6. /\ Received \subseteq Received' /\ Head(workCh) \in Received' /\ Head(workCh) \notin Received
      /\ Head(workCh) # None
  <2>1. PICK head \in Nat : head = sequence - L BY <1>3, <1>fn
  <2>2. Head(workCh) = head /\ Received' = 0 .. head /\ Received = 0 .. head - 1
    BY <2>1, <1>4, <1>5
  <2>3. head # None BY <2>1
  <2>4. 0 .. head - 1 \subseteq 0 .. head /\ head \in 0 .. head /\ head \notin 0 .. head - 1
    BY <2>1
  <2> QED BY <2>2, <2>3, <2>4
<1>7. Len(workCh') <= sequence' BY <1>1, <1>2, <1>3, <1>fn
<1>8. ASSUME NEW i \in 1 .. Len(workCh') PROVE workCh'[i] = sequence' - Len(workCh') + i - 1
  <2>1. i + 1 \in 1 .. L /\ i \in 1 .. L - 1
    <3>1. i \in 1 .. L - 1 BY <1>2
    <3>2. L \in Nat BY <1>fn
    <3> HIDE DEF L
    <3> QED BY <3>1, <3>2
  <2>2. workCh'[i] = sequence - L + (i + 1) - 1 BY <2>1, <1>2, <1>3
  <2> HIDE DEF L
  <2> QED BY <2>1, <2>2, <1>1, <1>2, <1>fn, SMTT(40) DEF L
<1>9. \A v \in Workers : v # w => req'[v] = req[v] /\ worker'[v] = worker[v] BY <1>1, <1>fn
<1>10. req'[w] = Head(workCh) /\ worker'[w] = "token" BY <1>1, <1>fn
<1>11. dropped \subseteq Received /\ submitLog \subseteq Received
       /\ \A v \in Workers : req[v] # None => req[v] \in Received
  BY <1>ty DEF Numbers
<1>12. \A v \in Workers : req'[v] = None <=> worker'[v] \in {"range", "exited"}
  BY <1>6, <1>9, <1>10, <1>ty DEF Numbers
<1>13. \A v \in Workers : req'[v] # None => req'[v] \in Received'
  BY <1>6, <1>9, <1>10, <1>11
<1>14. \A u, v \in Workers : u # v /\ req'[u] = req'[v] => req'[v] = None
  BY <1>6, <1>9, <1>10, <1>11, <1>ty DEF Numbers
<1>15. \A v \in Workers : req'[v] \notin dropped' \cup submitLog'
  BY <1>1, <1>6, <1>9, <1>10, <1>11, <1>ty DEF Numbers
<1>16. dropped' \subseteq Received' /\ submitLog' \subseteq Received' BY <1>1, <1>6, <1>11
<1> QED BY <1>7, <1>8, <1>12, <1>13, <1>14, <1>15, <1>16 DEF Numbers

LEMMA NumbersStep ==
  ASSUME IInv, [Next]_vars
  PROVE  Numbers'
<1> USE LoadGenAssumption
<1>ty. TypeOK /\ Numbers BY DEF IInv
<1>fn. worker \in [Workers -> {"range", "token", "bucket", "sleep", "submit", "creating",
                               "backoff", "record", "exited"}]
  BY <1>ty DEF TypeOK
<1>0. CASE UNCHANGED <<sequence, workCh, req, dropped, submitLog, worker>>
  BY <1>0, <1>ty, NumbersStutter
<1>1. ASSUME NEW w \in Workers, WorkerStep(w) PROVE Numbers'
  <2> DEFINE Out == {"range", "exited"}
  <2>1. CASE Receive(w) BY <2>1, ReceiveKeepsNumbers
  <2>2. CASE WorkerDone(w) \/ ChecksContext(w) \/ SleepsForToken(w) \/ TokenTimer(w)
             \/ GetsToken(w) \/ CallCreate(w) \/ BackoffEnds(w)
    <3>1. UNCHANGED <<sequence, workCh, req, dropped, submitLog>>
      BY <2>2 DEF WorkerDone, ChecksContext, SleepsForToken, TokenTimer, GetsToken, CallCreate,
                  BackoffEnds, producerVars, resultVars
    <3>2. \A v \in Workers : worker'[v] \in Out <=> worker[v] \in Out
      BY <2>2, <1>fn DEF WorkerDone, ChecksContext, SleepsForToken, TokenTimer, GetsToken,
                         CallCreate, BackoffEnds, ToStage
    <3> QED BY <3>1, <3>2, <1>ty, NumbersStutter
  <2>3. CASE StopsWithoutToken(w)
    <3>1. /\ req' = [req EXCEPT ![w] = None] /\ worker' = [worker EXCEPT ![w] = "exited"]
          /\ UNCHANGED <<sequence, workCh>>
          /\ dropped' = dropped \cup {req[w]} /\ submitLog' = submitLog
      BY <2>3 DEF StopsWithoutToken, ToStage, producerVars
    <3>2. req[w] # None BY <2>3, <1>ty DEF StopsWithoutToken, Numbers
    <3> QED BY <3>1, <3>2, LetGo
  <2>4. CASE GivesUp(w) \/ CreateFails(w) \/ (TooMany(w) /\ attempts[w] > MaxRetries)
    <3>1. PICK limited \in 0 .. MaxRetries + 1 : Fails(w, limited) BY <2>4, FailureCases
    <3>2. w \in Submitting BY <2>4, FailureCases
    <3>3. req[w] # None BY <3>2, <1>ty DEF Submitting, Numbers
    <3>4. /\ req' = [req EXCEPT ![w] = None] /\ worker' = [worker EXCEPT ![w] = "range"]
          /\ UNCHANGED <<sequence, workCh, dropped, submitLog>>
      BY <3>1, FailsEffect
    <3> QED BY <3>3, <3>4, LetGo
  <2>5. CASE TooMany(w) /\ ~(attempts[w] > MaxRetries)
    <3>1. /\ UNCHANGED <<sequence, workCh, req, dropped, submitLog>>
          /\ worker[w] = "creating" /\ worker' = [worker EXCEPT ![w] = "backoff"]
      BY <2>5, BackoffEffect
    <3>2. \A v \in Workers : worker'[v] \in Out <=> worker[v] \in Out BY <3>1, <1>fn
    <3> QED BY <3>1, <3>2, <1>ty, NumbersStutter
  <2>6. CASE Created(w)
    <3>1. /\ UNCHANGED <<sequence, workCh, req, dropped, submitLog>>
          /\ worker[w] = "creating" /\ worker' = [worker EXCEPT ![w] = "record"]
      BY <2>6, CreatedEffect
    <3>2. \A v \in Workers : worker'[v] \in Out <=> worker[v] \in Out BY <3>1, <1>fn
    <3> QED BY <3>1, <3>2, <1>ty, NumbersStutter
  <2>7. CASE \E ok \in BOOLEAN : Records(w, ok)
    <3>1. PICK ok \in BOOLEAN : Records(w, ok) BY <2>7
    <3>2. /\ req' = [req EXCEPT ![w] = None]
          /\ \E at \in {"range", "exited"} : worker' = [worker EXCEPT ![w] = at]
          /\ UNCHANGED <<sequence, workCh>>
          /\ dropped' = dropped /\ submitLog' \in {submitLog, submitLog \cup {req[w]}}
      BY <3>1 DEF Records, ToStage, producerVars
    <3>3. req[w] # None BY <3>1, <1>ty DEF Records, Numbers
    <3> QED BY <3>2, <3>3, LetGo
  <2> QED BY <1>1, <2>1, <2>2, <2>3, <2>4, <2>5, <2>6, <2>7 DEF WorkerStep
<1>2. CASE Send BY <1>2, SendKeepsNumbers
<1>3. CASE NextArrival \/ Arrives \/ ArrivalSent \/ ProducerStops \/ Timeout \/ Interrupt
  BY <1>0, <1>3 DEF NextArrival, Arrives, ArrivalSent, ProducerStops, Timeout, Interrupt,
                    producerVars, workerVars, resultVars
<1>4. CASE (Tick /\ UNCHANGED genVars) \/ UNCHANGED vars
  BY <1>0, <1>4 DEF genVars, workerVars, producerVars, resultVars, vars
<1> QED BY <1>1, <1>2, <1>3, <1>4 DEF Next, ProducerStep

-----------------------------------------------------------------------------
\* Accounts.

LEMMA Finite ==
  ASSUME TypeOK
  PROVE  /\ IsFiniteSet(InHand) /\ IsFiniteSet(Recording)
         /\ IsFiniteSet(dropped) /\ IsFiniteSet(submitLog)
<1>1. IsFiniteSet(Workers) /\ IsFiniteSet(0 .. MaxPods)
  BY LoadGenAssumption, FS_Interval
<1>2. /\ InHand \subseteq Workers /\ Recording \subseteq Workers
      /\ dropped \subseteq 0 .. MaxPods /\ submitLog \subseteq 0 .. MaxPods
  BY DEF TypeOK, InHand, Recording
<1> QED BY <1>1, <1>2, FS_Subset

\* Steps that give out no number, end no submission and write no row.
LEMMA AccountsStutter ==
  ASSUME Accounts, UNCHANGED <<sequence, workCh, stats, req, dropped, submitLog, firstErr>>,
         \A w \in Workers : worker'[w] = "record" <=> worker[w] = "record"
  PROVE  Accounts'
<1>1. InHand' = InHand /\ Recording' = Recording BY DEF InHand, Recording
<1> QED BY <1>1 DEF Accounts

LEMMA QueueKeepsAccounts ==
  ASSUME IInv, Send \/ \E w \in Workers : Receive(w)
  PROVE  Accounts'
<1> USE LoadGenAssumption
<1>ty. TypeOK /\ Accounts /\ Numbers BY DEF IInv
<1>fn. /\ sequence \in Nat /\ workCh \in Seq(0 .. MaxPods) /\ Len(workCh) \in Nat
       /\ worker = [v \in Workers |-> worker[v]] /\ req = [v \in Workers |-> req[v]]
       /\ stats.Succeeded \in Nat /\ stats.Failed \in Nat
  BY <1>ty DEF TypeOK
<1>num. /\ sequence \in Nat /\ Len(workCh) \in Nat
        /\ stats.Succeeded \in Nat /\ stats.Failed \in Nat
  BY <1>fn
<1>card. /\ Cardinality(InHand) \in Nat /\ Cardinality(dropped) \in Nat
  BY <1>ty, Finite, FS_CardinalityType
<1>sum. sequence = Len(workCh) + Cardinality(InHand) + stats.Succeeded + stats.Failed
                   + Cardinality(dropped)
  BY <1>ty DEF Accounts
<1>1. CASE Send
  <2>1. /\ sequence' = sequence + 1 /\ workCh' = Append(workCh, sequence)
        /\ UNCHANGED <<stats, req, worker, dropped, submitLog, firstErr>> /\ sequence \in 0 .. MaxPods
    BY <1>1, <1>ty DEF Send, TypeOK, workerVars, resultVars
  <2>2. Len(workCh') = Len(workCh) + 1 BY <2>1, <1>fn, AppendProperties
  <2>3. InHand' = InHand /\ Recording' = Recording BY <2>1 DEF InHand, Recording
  <2>4. sequence' = Len(workCh') + Cardinality(InHand) + stats.Succeeded + stats.Failed
                   + Cardinality(dropped)
    <3> DEFINE queued == Len(workCh)
               held == Cardinality(InHand)
               over == stats.Succeeded + stats.Failed + Cardinality(dropped)
    <3>1. sequence' = sequence + 1 /\ Len(workCh') = queued + 1 BY <2>1, <2>2
    <3>2. over \in Nat /\ queued \in Nat /\ held \in Nat BY <1>num, <1>card
    <3>3. sequence = queued + held + over BY <1>num, <1>card, <1>sum
    <3> HIDE DEF queued, held, over
    <3>4. sequence' = Len(workCh') + held + over BY <3>1, <3>2, <3>3
    <3> QED BY <3>4, <3>1, <3>2, <1>num, <1>card DEF held, over
  <2> QED BY <2>1, <2>3, <2>4, <1>ty DEF Accounts
<1>2. ASSUME NEW w \in Workers, Receive(w) PROVE Accounts'
  <2>1. /\ worker[w] = "range" /\ workCh # <<>> /\ workCh' = Tail(workCh)
        /\ req' = [req EXCEPT ![w] = Head(workCh)] /\ worker' = [worker EXCEPT ![w] = "token"]
        /\ UNCHANGED <<sequence, stats, dropped, submitLog, firstErr>>
    BY <1>2 DEF Receive, ToStage, producerVars, resultVars
  <2>2. Len(workCh) > 0 /\ Len(workCh') = Len(workCh) - 1 /\ Head(workCh) \in 0 .. MaxPods
    BY <2>1, <1>fn, EmptySeq, HeadTailProperties, SMTT(40)
  <2>3. Head(workCh) # None BY <2>2
  <2>4. w \notin InHand BY <2>1, <1>ty DEF InHand, Numbers
  <2>5. InHand' = InHand \cup {w} /\ Recording' = Recording
    BY <2>1, <2>3, <1>fn DEF InHand, Recording
  <2>6. Cardinality(InHand') = Cardinality(InHand) + 1 BY <2>4, <2>5, <1>ty, Finite, FS_AddElement
  <2>7. sequence = Len(workCh') + Cardinality(InHand') + stats.Succeeded + stats.Failed
                   + Cardinality(dropped)
    BY <2>2, <2>6, <1>num, <1>card, <1>sum
  <2> QED BY <2>1, <2>5, <2>7, <1>ty DEF Accounts
<1> QED BY <1>1, <1>2

LEMMA EndKeepsAccounts ==
  ASSUME IInv, NEW w \in Workers,
         \/ StopsWithoutToken(w)
         \/ GivesUp(w) \/ CreateFails(w) \/ (TooMany(w) /\ attempts[w] > MaxRetries)
         \/ Created(w)
  PROVE  Accounts'
<1> USE LoadGenAssumption
<1>ty. TypeOK /\ Accounts /\ Numbers BY DEF IInv
<1>fn. /\ sequence \in Nat /\ Len(workCh) \in Nat
       /\ worker = [v \in Workers |-> worker[v]] /\ req = [v \in Workers |-> req[v]]
       /\ stats.Succeeded \in Nat /\ stats.Failed \in Nat
  BY <1>ty DEF TypeOK
<1>num. /\ sequence \in Nat /\ Len(workCh) \in Nat
        /\ stats.Succeeded \in Nat /\ stats.Failed \in Nat
  BY <1>fn
<1>card. /\ Cardinality(InHand) \in Nat /\ Cardinality(dropped) \in Nat
         /\ Cardinality(Recording) \in Nat /\ Cardinality(submitLog) \in Nat
  BY <1>ty, Finite, FS_CardinalityType
<1>sum. sequence = Len(workCh) + Cardinality(InHand) + stats.Succeeded + stats.Failed
                   + Cardinality(dropped)
  BY <1>ty DEF Accounts
<1>hand. ASSUME w \in InHand, InHand' = InHand \ {w}
         PROVE  Cardinality(InHand') = Cardinality(InHand) - 1
  BY <1>hand, <1>ty, Finite, FS_RemoveElement
<1>1. CASE StopsWithoutToken(w)
  <2>1. /\ worker[w] \in {"token", "sleep"} /\ worker' = [worker EXCEPT ![w] = "exited"]
        /\ req' = [req EXCEPT ![w] = None] /\ dropped' = dropped \cup {req[w]}
        /\ UNCHANGED <<sequence, workCh, stats, submitLog, firstErr>>
    BY <1>1 DEF StopsWithoutToken, ToStage, producerVars
  <2>2. w \in InHand /\ req[w] \notin dropped BY <2>1, <1>ty DEF InHand, Numbers
  <2>3. InHand' = InHand \ {w} /\ Recording' = Recording BY <2>1, <1>fn DEF InHand, Recording
  <2>4. Cardinality(dropped') = Cardinality(dropped) + 1
    BY <2>1, <2>2, <1>ty, Finite, FS_AddElement
  <2>5. Cardinality(InHand') = Cardinality(InHand) - 1 BY <2>2, <2>3, <1>hand
  <2>6. sequence = Len(workCh) + Cardinality(InHand') + stats.Succeeded + stats.Failed
                   + Cardinality(dropped')
    <3> DEFINE hand == Cardinality(InHand)
               gone == Cardinality(dropped)
    <3>1. hand \in Nat /\ gone \in Nat BY <1>card
    <3>2. sequence = Len(workCh) + hand + stats.Succeeded + stats.Failed + gone BY <1>sum
    <3>3. Cardinality(InHand') = hand - 1 /\ Cardinality(dropped') = gone + 1 BY <2>4, <2>5
    <3> HIDE DEF hand, gone
    <3>4. sequence = Len(workCh) + (hand - 1) + stats.Succeeded + stats.Failed + (gone + 1)
      BY <3>1, <3>2, <1>num
    <3> QED BY <3>3, <3>4
  <2> QED BY <2>1, <2>3, <2>6, <1>ty DEF Accounts
<1>2. CASE GivesUp(w) \/ CreateFails(w) \/ (TooMany(w) /\ attempts[w] > MaxRetries)
  <2>1. PICK limited \in 0 .. MaxRetries + 1 : Fails(w, limited) BY <1>2, FailureCases
  <2>2. /\ worker[w] \in {"submit", "creating", "backoff"}
        /\ worker' = [worker EXCEPT ![w] = "range"] /\ req' = [req EXCEPT ![w] = None]
        /\ UNCHANGED <<sequence, workCh, dropped, submitLog, firstErr>>
    BY <1>2, <2>1, FailureCases, FailsEffect DEF Submitting
  <2>3. stats'.Succeeded = stats.Succeeded /\ stats'.Failed = stats.Failed + 1
    BY <2>1, <1>ty, SubmittedType DEF Fails
  <2>4. w \in InHand BY <2>2, <1>ty DEF InHand, Numbers
  <2>5. InHand' = InHand \ {w} /\ Recording' = Recording BY <2>2, <1>fn DEF InHand, Recording
  <2>6. Cardinality(InHand') = Cardinality(InHand) - 1 BY <2>4, <2>5, <1>hand
  <2>7. sequence = Len(workCh) + Cardinality(InHand') + stats'.Succeeded + stats'.Failed
                   + Cardinality(dropped)
    BY <2>3, <2>6, <1>num, <1>card, <1>sum, SMTT(40)
  <2> QED BY <2>2, <2>3, <2>5, <2>7, <1>ty DEF Accounts
<1>3. CASE Created(w)
  <2>1. /\ worker[w] = "creating" /\ worker' = [worker EXCEPT ![w] = "record"]
        /\ UNCHANGED <<sequence, workCh, req, dropped, submitLog, firstErr>>
    BY <1>3, CreatedEffect
  <2>2. stats'.Succeeded = stats.Succeeded + 1 /\ stats'.Failed = stats.Failed
    <3>1. rateLimited[w] \in 0 .. MaxRetries + 1 BY <1>ty DEF TypeOK
    <3> QED BY <3>1, <1>3, <1>ty, SubmittedType DEF Created
  <2>3. w \in InHand /\ w \notin Recording BY <2>1, <1>ty DEF InHand, Recording, Numbers
  <2>4. InHand' = InHand \ {w} /\ Recording' = Recording \cup {w}
    BY <2>1, <1>fn DEF InHand, Recording
  <2>5. Cardinality(Recording') = Cardinality(Recording) + 1
    BY <2>3, <2>4, <1>ty, Finite, FS_AddElement
  <2>6. sequence = Len(workCh) + Cardinality(InHand') + stats'.Succeeded + stats'.Failed
                   + Cardinality(dropped)
    <3>1. Cardinality(InHand') = Cardinality(InHand) - 1 BY <2>3, <2>4, <1>hand
    <3> QED BY <3>1, <2>2, <1>num, <1>card, <1>sum
  <2>7. ~firstErr => Cardinality(submitLog) + Cardinality(Recording') = stats'.Succeeded
    BY <2>2, <2>5, <1>card, <1>fn, <1>ty, SMTT(40) DEF Accounts
  <2> QED BY <2>1, <2>6, <2>7 DEF Accounts
<1> QED BY <1>1, <1>2, <1>3

LEMMA RecordKeepsAccounts ==
  ASSUME IInv, NEW w \in Workers, NEW ok \in BOOLEAN, Records(w, ok)
  PROVE  Accounts'
<1> USE LoadGenAssumption
<1>ty. TypeOK /\ Accounts /\ Numbers BY DEF IInv
<1>fn. /\ worker = [v \in Workers |-> worker[v]] /\ req = [v \in Workers |-> req[v]]
       /\ stats \in [Attempted : Nat, Succeeded : Nat, Failed : Nat, RateLimited : Nat,
                     FirstSuccess : Nat \cup {None}, LastSuccess : Nat \cup {None}]
       /\ firstErr \in BOOLEAN
  BY <1>ty DEF TypeOK
<1>card. Cardinality(Recording) \in Nat /\ Cardinality(submitLog) \in Nat
  BY <1>ty, Finite, FS_CardinalityType
<1>1. /\ worker[w] = "record" /\ worker' = [worker EXCEPT ![w] = IF ok THEN "range" ELSE "exited"]
      /\ req' = [req EXCEPT ![w] = None] /\ firstErr' = (firstErr \/ ~ok)
      /\ submitLog' = IF ok THEN submitLog \cup {req[w]} ELSE submitLog
      /\ UNCHANGED <<sequence, workCh, dropped>>
  BY DEF Records, ToStage, producerVars
<1>2. stats'.Succeeded = stats.Succeeded /\ stats'.Failed = stats.Failed
  BY <1>fn DEF Records, Span
<1>3. w \in Recording /\ req[w] \notin submitLog BY <1>1, <1>ty DEF Recording, Numbers
<1>4. InHand' = InHand /\ Recording' = Recording \ {w} BY <1>1, <1>fn DEF InHand, Recording
<1>5. ok => Cardinality(submitLog') = Cardinality(submitLog) + 1
  BY <1>1, <1>3, <1>ty, Finite, FS_AddElement
<1>6. Cardinality(Recording') = Cardinality(Recording) - 1
  BY <1>3, <1>4, <1>ty, Finite, FS_RemoveElement
<1>7. ~firstErr' => Cardinality(submitLog') + Cardinality(Recording') = stats'.Succeeded
  <2> SUFFICES ASSUME ~firstErr'
               PROVE  Cardinality(submitLog') + Cardinality(Recording') = stats'.Succeeded
    OBVIOUS
  <2>1. ok /\ ~firstErr BY <1>1, <1>fn
  <2>2. Cardinality(submitLog) + Cardinality(Recording) = stats.Succeeded
    BY <2>1, <1>ty DEF Accounts
  <2> QED BY <2>1, <2>2, <1>2, <1>5, <1>6, <1>card
<1> QED BY <1>1, <1>2, <1>4, <1>7, <1>ty DEF Accounts

LEMMA AccountsStep ==
  ASSUME IInv, [Next]_vars
  PROVE  Accounts'
<1>ty. TypeOK /\ Accounts BY DEF IInv
<1>fn. worker = [v \in Workers |-> worker[v]] BY <1>ty DEF TypeOK
<1> DEFINE Same == UNCHANGED <<sequence, workCh, stats, req, dropped, submitLog, firstErr>>
<1>0. CASE Same /\ UNCHANGED worker BY <1>0, <1>ty, AccountsStutter
<1>1. ASSUME NEW w \in Workers, WorkerStep(w) PROVE Accounts'
  <2>1. CASE Receive(w) BY <2>1, QueueKeepsAccounts
  <2>2. CASE WorkerDone(w) \/ ChecksContext(w) \/ SleepsForToken(w) \/ TokenTimer(w)
             \/ GetsToken(w) \/ CallCreate(w) \/ BackoffEnds(w)
    <3>1. Same
      BY <2>2 DEF WorkerDone, ChecksContext, SleepsForToken, TokenTimer, GetsToken, CallCreate,
                  BackoffEnds, producerVars, resultVars
    <3>2. \A v \in Workers : worker'[v] = "record" <=> worker[v] = "record"
      BY <2>2, <1>fn DEF WorkerDone, ChecksContext, SleepsForToken, TokenTimer, GetsToken,
                         CallCreate, BackoffEnds, ToStage
    <3> QED BY <3>1, <3>2, <1>ty, AccountsStutter
  <2>3. CASE TooMany(w) /\ ~(attempts[w] > MaxRetries)
    <3>1. Same /\ worker[w] = "creating" /\ worker' = [worker EXCEPT ![w] = "backoff"]
      BY <2>3, BackoffEffect
    <3>2. \A v \in Workers : worker'[v] = "record" <=> worker[v] = "record" BY <3>1, <1>fn
    <3> QED BY <3>1, <3>2, <1>ty, AccountsStutter
  <2>4. CASE \E ok \in BOOLEAN : Records(w, ok) BY <2>4, RecordKeepsAccounts
  <2> QED BY <1>1, <2>1, <2>2, <2>3, <2>4, EndKeepsAccounts DEF WorkerStep
<1>2. CASE Send BY <1>2, QueueKeepsAccounts
<1>3. CASE NextArrival \/ Arrives \/ ArrivalSent \/ ProducerStops \/ Timeout \/ Interrupt
  BY <1>0, <1>3 DEF NextArrival, Arrives, ArrivalSent, ProducerStops, Timeout, Interrupt,
                    producerVars, workerVars, resultVars
<1>4. CASE (Tick /\ UNCHANGED genVars) \/ UNCHANGED vars
  BY <1>0, <1>4 DEF genVars, workerVars, producerVars, resultVars, vars
<1> QED BY <1>1, <1>2, <1>3, <1>4 DEF Next, ProducerStep

-----------------------------------------------------------------------------
\* Sums.

\* A submission that makes a call, is answered or ends moves its worker's counts only.
LEMMA CountsAddUp ==
  ASSUME TypeOK, NEW w \in Workers, NEW n \in Nat
  PROVE  /\ SumFunctionOnSet(attempts, Workers) \in Nat
         /\ SumFunctionOnSet(rateLimited, Workers) \in Nat
         /\ attempts' = [attempts EXCEPT ![w] = n] =>
              SumFunctionOnSet(attempts', Workers)
                = SumFunctionOnSet(attempts, Workers) - attempts[w] + n
         /\ rateLimited' = [rateLimited EXCEPT ![w] = n] =>
              SumFunctionOnSet(rateLimited', Workers)
                = SumFunctionOnSet(rateLimited, Workers) - rateLimited[w] + n
<1>1. /\ attempts = [v \in Workers |-> attempts[v]] /\ \A v \in Workers : attempts[v] \in Nat
      /\ rateLimited = [v \in Workers |-> rateLimited[v]]
      /\ \A v \in Workers : rateLimited[v] \in Nat
  <2>1. attempts = [v \in Workers |-> attempts[v]] /\ \A v \in Workers : attempts[v] \in Nat
    BY LoadGenAssumption DEF TypeOK
  <2>2. /\ rateLimited = [v \in Workers |-> rateLimited[v]]
        /\ \A v \in Workers : rateLimited[v] \in Nat
    BY LoadGenAssumption DEF TypeOK
  <2> QED BY <2>1, <2>2
<1>2. IsFiniteSet(Workers) BY LoadGenAssumption
<1>3. /\ \A v \in Workers : attempts[v] \in Int
      /\ \A v \in Workers : rateLimited[v] \in Int
      /\ n \in Int
  BY <1>1
<1>4. SumFunctionOnSet([attempts EXCEPT ![w] = n], Workers)
        = SumFunctionOnSet(attempts, Workers) - attempts[w] + n
  BY <1>1, <1>2, <1>3, SumExcept
<1>5. SumFunctionOnSet([rateLimited EXCEPT ![w] = n], Workers)
        = SumFunctionOnSet(rateLimited, Workers) - rateLimited[w] + n
  BY <1>1, <1>2, <1>3, SumExcept
<1>6. SumFunctionOnSet(attempts, Workers) \in Nat BY <1>1, <1>2, SumNat
<1>7. SumFunctionOnSet(rateLimited, Workers) \in Nat BY <1>1, <1>2, SumNat
<1> QED BY <1>4, <1>5, <1>6, <1>7

LEMMA SumsStutter ==
  ASSUME Sums, UNCHANGED <<attempts, rateLimited, creates, limits>>,
         /\ stats'.Attempted = stats.Attempted /\ stats'.RateLimited = stats.RateLimited
         /\ stats'.Succeeded = stats.Succeeded /\ stats'.Failed = stats.Failed
  PROVE  Sums'
BY DEF Sums

\* A submission ends: its calls and its 429s enter the statistics.
LEMMA SubmissionKeepsSums ==
  ASSUME IInv, NEW w \in Workers,
         \/ GivesUp(w) \/ CreateFails(w) \/ (TooMany(w) /\ attempts[w] > MaxRetries)
         \/ Created(w)
  PROVE  Sums'
<1> USE LoadGenAssumption
<1>ty. TypeOK /\ Sums /\ Counts BY DEF IInv
<1>num. /\ attempts[w] \in Nat /\ rateLimited[w] \in Nat /\ creates \in Nat /\ limits \in Nat
        /\ stats.Attempted \in Nat /\ stats.RateLimited \in Nat
        /\ stats.Succeeded \in Nat /\ stats.Failed \in Nat
  BY <1>ty DEF TypeOK
<1>1. \E limited \in 0 .. MaxRetries + 1 :
        /\ attempts' = [attempts EXCEPT ![w] = 0] /\ rateLimited' = [rateLimited EXCEPT ![w] = 0]
        /\ creates' = creates /\ limits' = limits + (limited - rateLimited[w])
        /\ stats'.Attempted = stats.Attempted + attempts[w]
        /\ stats'.RateLimited = stats.RateLimited + limited
        /\ \/ /\ attempts[w] \in {limited, limited + 1}
              /\ stats'.Succeeded = stats.Succeeded /\ stats'.Failed = stats.Failed + 1
           \/ /\ attempts[w] = limited + 1
              /\ stats'.Succeeded = stats.Succeeded + 1 /\ stats'.Failed = stats.Failed
  <2>1. CASE Created(w)
    <3>1. worker[w] = "creating" BY <2>1, CreatedEffect
    <3>2. attempts[w] = rateLimited[w] + 1 BY <3>1, <1>ty DEF Counts
    <3>3. rateLimited[w] \in 0 .. MaxRetries + 1 BY <1>ty DEF TypeOK
    <3>4. /\ stats'.Attempted = stats.Attempted + attempts[w]
          /\ stats'.RateLimited = stats.RateLimited + rateLimited[w]
          /\ stats'.Succeeded = stats.Succeeded + 1 /\ stats'.Failed = stats.Failed
      BY <3>3, <2>1, <1>ty, SubmittedType DEF Created
    <3>5. limits' = limits + (rateLimited[w] - rateLimited[w]) BY <2>1, CreatedEffect, <1>num
    <3> QED BY <3>2, <3>3, <3>4, <3>5, <2>1, CreatedEffect
  <2>2. CASE GivesUp(w) \/ CreateFails(w) \/ (TooMany(w) /\ attempts[w] > MaxRetries)
    <3>1. PICK limited \in 0 .. MaxRetries + 1 :
            /\ Fails(w, limited) /\ limits' = limits + (limited - rateLimited[w])
            /\ attempts[w] \in {limited, limited + 1}
      BY <2>2, FailureCases
    <3>2. /\ stats'.Attempted = stats.Attempted + attempts[w]
          /\ stats'.RateLimited = stats.RateLimited + limited
          /\ stats'.Succeeded = stats.Succeeded /\ stats'.Failed = stats.Failed + 1
      BY <3>1, <1>ty, SubmittedType DEF Fails
    <3> QED BY <3>1, <3>2, FailsEffect
  <2> QED BY <2>1, <2>2
<1>2. PICK limited \in 0 .. MaxRetries + 1 :
        /\ attempts' = [attempts EXCEPT ![w] = 0] /\ rateLimited' = [rateLimited EXCEPT ![w] = 0]
        /\ creates' = creates /\ limits' = limits + (limited - rateLimited[w])
        /\ stats'.Attempted = stats.Attempted + attempts[w]
        /\ stats'.RateLimited = stats.RateLimited + limited
        /\ \/ /\ attempts[w] \in {limited, limited + 1}
              /\ stats'.Succeeded = stats.Succeeded /\ stats'.Failed = stats.Failed + 1
           \/ /\ attempts[w] = limited + 1
              /\ stats'.Succeeded = stats.Succeeded + 1 /\ stats'.Failed = stats.Failed
  BY <1>1
<1>3. limited \in Nat BY <1>2
<1> DEFINE a == SumFunctionOnSet(attempts, Workers)
           r == SumFunctionOnSet(rateLimited, Workers)
           aNew == SumFunctionOnSet(attempts', Workers)
           rNew == SumFunctionOnSet(rateLimited', Workers)
<1>4. a \in Nat /\ r \in Nat BY <1>ty, CountsAddUp
<1>5. aNew = a - attempts[w] + 0 /\ rNew = r - rateLimited[w] + 0 BY <1>2, <1>ty, CountsAddUp
<1>6. /\ stats.Attempted + a = creates /\ stats.RateLimited + r = limits
      /\ stats.Attempted >= stats.Succeeded + stats.RateLimited
      /\ stats.Attempted <= stats.Succeeded + stats.RateLimited + stats.Failed
  BY <1>ty DEF Sums
<1> HIDE DEF a, r, aNew, rNew
<1>7. stats'.Attempted + aNew = creates' BY <1>2, <1>4, <1>5, <1>6, <1>num
<1>8. stats'.RateLimited + rNew = limits' BY <1>2, <1>3, <1>4, <1>5, <1>6, <1>num
<1>9. /\ stats'.Attempted >= stats'.Succeeded + stats'.RateLimited
      /\ stats'.Attempted <= stats'.Succeeded + stats'.RateLimited + stats'.Failed
  BY <1>2, <1>3, <1>6, <1>num
<1> QED BY <1>7, <1>8, <1>9 DEF Sums, aNew, rNew

LEMMA CallKeepsSums ==
  ASSUME IInv, NEW w \in Workers,
         CallCreate(w) \/ (TooMany(w) /\ ~(attempts[w] > MaxRetries))
  PROVE  Sums'
<1> USE LoadGenAssumption
<1>ty. TypeOK /\ Sums BY DEF IInv
<1>num. /\ attempts[w] \in Nat /\ rateLimited[w] \in Nat /\ creates \in Nat /\ limits \in Nat
        /\ stats.Attempted \in Nat /\ stats.RateLimited \in Nat
  BY <1>ty DEF TypeOK
<1> DEFINE a == SumFunctionOnSet(attempts, Workers)
           r == SumFunctionOnSet(rateLimited, Workers)
<1>1. a \in Nat /\ r \in Nat BY <1>ty, CountsAddUp
<1>2. stats.Attempted + a = creates /\ stats.RateLimited + r = limits BY <1>ty DEF Sums
<1>3. CASE CallCreate(w)
  <2>1. /\ attempts' = [attempts EXCEPT ![w] = attempts[w] + 1] /\ creates' = creates + 1
        /\ UNCHANGED <<rateLimited, limits, stats>>
    BY <1>3 DEF CallCreate
  <2>2. attempts[w] + 1 \in Nat BY <1>num
  <2>3. SumFunctionOnSet(attempts', Workers) = a - attempts[w] + (attempts[w] + 1)
    BY <2>1, <2>2, <1>ty, CountsAddUp
  <2>4. stats.Attempted + (a - attempts[w] + (attempts[w] + 1)) = creates + 1
    <3> HIDE DEF a
    <3> QED BY <1>1, <1>2, <1>num
  <2> QED BY <2>1, <2>3, <2>4, <1>ty DEF Sums
<1>4. CASE TooMany(w) /\ ~(attempts[w] > MaxRetries)
  <2>1. /\ rateLimited' = [rateLimited EXCEPT ![w] = rateLimited[w] + 1] /\ limits' = limits + 1
        /\ UNCHANGED <<attempts, creates, stats>>
    BY <1>4, BackoffEffect
  <2>2. rateLimited[w] + 1 \in Nat BY <1>num
  <2>3. SumFunctionOnSet(rateLimited', Workers) = r - rateLimited[w] + (rateLimited[w] + 1)
    BY <2>1, <2>2, <1>ty, CountsAddUp
  <2>4. stats.RateLimited + (r - rateLimited[w] + (rateLimited[w] + 1)) = limits + 1
    <3> HIDE DEF r
    <3> QED BY <1>1, <1>2, <1>num
  <2> QED BY <2>1, <2>3, <2>4, <1>ty DEF Sums
<1> QED BY <1>3, <1>4

LEMMA SumsStep ==
  ASSUME IInv, [Next]_vars
  PROVE  Sums'
<1>ty. TypeOK /\ Sums BY DEF IInv
<1>0. CASE UNCHANGED <<attempts, rateLimited, creates, limits, stats>>
  BY <1>0, <1>ty, SumsStutter
<1>1. ASSUME NEW w \in Workers, WorkerStep(w) PROVE Sums'
  <2>1. CASE Receive(w) \/ WorkerDone(w) \/ ChecksContext(w) \/ SleepsForToken(w) \/ TokenTimer(w)
             \/ GetsToken(w) \/ BackoffEnds(w) \/ StopsWithoutToken(w)
    BY <1>0, <2>1 DEF Receive, WorkerDone, ChecksContext, SleepsForToken, TokenTimer, GetsToken,
                      BackoffEnds, StopsWithoutToken, resultVars
  <2>2. CASE \E ok \in BOOLEAN : Records(w, ok)
    <3>1. PICK ok \in BOOLEAN : Records(w, ok) BY <2>2
    <3>2. UNCHANGED <<attempts, rateLimited, creates, limits>> /\ stats' = Span(succeededAt[w])
      BY <3>1 DEF Records
    <3>3. stats \in [Attempted : Nat, Succeeded : Nat, Failed : Nat, RateLimited : Nat,
                     FirstSuccess : Nat \cup {None}, LastSuccess : Nat \cup {None}]
      BY <1>ty DEF TypeOK
    <3>4. /\ stats'.Attempted = stats.Attempted /\ stats'.RateLimited = stats.RateLimited
          /\ stats'.Succeeded = stats.Succeeded /\ stats'.Failed = stats.Failed
      BY <3>2, <3>3 DEF Span
    <3> QED BY <3>2, <3>4, <1>ty, SumsStutter
  <2> QED BY <1>1, <2>1, <2>2, SubmissionKeepsSums, CallKeepsSums DEF WorkerStep
<1>2. CASE ProducerStep \/ Timeout \/ Interrupt
  BY <1>0, <1>2 DEF ProducerStep, NextArrival, Arrives, Send, ArrivalSent, ProducerStops, Timeout,
                    Interrupt, workerVars, resultVars
<1>3. CASE (Tick /\ UNCHANGED genVars) \/ UNCHANGED vars
  BY <1>0, <1>3 DEF genVars, workerVars, resultVars, vars
<1> QED BY <1>1, <1>2, <1>3 DEF Next

-----------------------------------------------------------------------------
\* Budget.

\* What one worker's step does to the calls that are left.
LEMMA LeftAddsUp ==
  ASSUME TypeOK, TypeOK', Counts, NEW w \in Workers,
         \A v \in Workers : v # w => worker'[v] = worker[v] /\ attempts'[v] = attempts[v]
  PROVE  /\ SumFunctionOnSet(CallsLeft, Workers) \in Nat
         /\ SumFunctionOnSet(CallsLeft', Workers)
              = SumFunctionOnSet(CallsLeft, Workers) - CallsLeft[w] + CallsLeft'[w]
<1> USE LoadGenAssumption
<1>1. \A v \in Workers : CallsLeft[v] \in Nat
  <2>1. \A v \in Workers : attempts[v] \in Nat /\ attempts[v] <= MaxRetries + 1 BY DEF TypeOK
  <2> QED BY <2>1 DEF CallsLeft
<1>2. CallsLeft'[w] \in Int
  <2>1. attempts'[w] \in Int BY DEF TypeOK
  <2> QED BY <2>1 DEF CallsLeft
<1>3. \A v \in Workers : v # w => CallsLeft'[v] = CallsLeft[v] BY DEF CallsLeft, Submitting
<1>4. IsFiniteSet(Workers) /\ \A v \in Workers : CallsLeft[v] \in Int BY <1>1
<1>5. SumFunctionOnSet(CallsLeft, Workers) \in Nat BY <1>1, <1>4, SumNat
<1>6. SumFunctionOnSet(CallsLeft', Workers)
        = SumFunctionOnSet(CallsLeft, Workers) - CallsLeft[w] + CallsLeft'[w]
  BY <1>2, <1>3, <1>4, SumUpdate
<1> QED BY <1>5, <1>6

LEMMA BudgetStutter ==
  ASSUME Budget, UNCHANGED <<attempts, creates, granted>>,
         \A w \in Workers : w \in Submitting' <=> w \in Submitting
  PROVE  Budget'
<1>1. CallsLeft' = CallsLeft BY DEF CallsLeft
<1> QED BY <1>1 DEF Budget

\* A token pays for the calls of one submission ...
LEMMA TokenKeepsBudget ==
  ASSUME IInv, TypeOK', NEW w \in Workers, GetsToken(w)
  PROVE  Budget'
<1> USE LoadGenAssumption
<1>ty. TypeOK /\ Budget /\ Counts BY DEF IInv
<1>fn. /\ worker = [v \in Workers |-> worker[v]] /\ creates \in Nat /\ granted \in Nat
  BY <1>ty DEF TypeOK, BucketTypeOK
<1>1. /\ worker[w] = "bucket" /\ worker' = [worker EXCEPT ![w] = "submit"]
      /\ granted' = granted + 1 /\ UNCHANGED <<attempts, creates>>
  BY DEF GetsToken, TakeToken, ToStage, resultVars
<1>2. w \notin Submitting /\ w \in Submitting' /\ attempts[w] = 0
  BY <1>1, <1>fn, <1>ty DEF Submitting, Counts
<1>3. CallsLeft[w] = 0 /\ CallsLeft'[w] = MaxRetries + 1 BY <1>1, <1>2 DEF CallsLeft
<1> DEFINE left == SumFunctionOnSet(CallsLeft, Workers)
           leftNew == SumFunctionOnSet(CallsLeft', Workers)
<1>4. left \in Nat /\ leftNew = left - 0 + (MaxRetries + 1)
  <2>1. \A v \in Workers : v # w => worker'[v] = worker[v] /\ attempts'[v] = attempts[v]
    BY <1>1, <1>fn
  <2> QED BY <2>1, <1>3, <1>ty, LeftAddsUp
<1>5. creates + left <= (MaxRetries + 1) * granted BY <1>ty DEF Budget
<1>6. (MaxRetries + 1) * (granted + 1) = (MaxRetries + 1) * granted + (MaxRetries + 1)
  BY <1>fn
<1>7. (MaxRetries + 1) * granted \in Nat BY <1>fn
<1> HIDE DEF left, leftNew
<1>8. creates + leftNew <= (MaxRetries + 1) * (granted + 1)
  BY <1>4, <1>5, <1>6, <1>7, <1>fn
<1> QED BY <1>1, <1>8 DEF Budget, leftNew

\* ... a call is one of them, and a submission that ends returns none.
LEMMA SubmissionKeepsBudget ==
  ASSUME IInv, TypeOK', NEW w \in Workers,
         \/ CallCreate(w)
         \/ GivesUp(w) \/ CreateFails(w) \/ (TooMany(w) /\ attempts[w] > MaxRetries)
         \/ Created(w)
  PROVE  Budget'
<1> USE LoadGenAssumption
<1>ty. TypeOK /\ Budget /\ Counts BY DEF IInv
<1>fn. /\ worker = [v \in Workers |-> worker[v]] /\ attempts = [v \in Workers |-> attempts[v]]
       /\ creates \in Nat /\ granted \in Nat /\ attempts[w] \in Nat /\ attempts[w] <= MaxRetries + 1
  BY <1>ty DEF TypeOK, BucketTypeOK
<1> DEFINE left == SumFunctionOnSet(CallsLeft, Workers)
           leftNew == SumFunctionOnSet(CallsLeft', Workers)
<1>1. /\ \A v \in Workers : v # w => worker'[v] = worker[v] /\ attempts'[v] = attempts[v]
      /\ granted' = granted /\ CallsLeft[w] \in Nat /\ CallsLeft'[w] \in Int
      /\ creates' + CallsLeft'[w] <= creates + CallsLeft[w] /\ creates' \in Nat
  <2>0. w \in Submitting => CallsLeft[w] = MaxRetries + 1 - attempts[w] BY DEF CallsLeft
  <2>1. CASE CallCreate(w)
    <3>1. /\ worker[w] = "submit" /\ worker' = [worker EXCEPT ![w] = "creating"]
          /\ attempts' = [attempts EXCEPT ![w] = attempts[w] + 1] /\ creates' = creates + 1
          /\ granted' = granted
      BY <2>1 DEF CallCreate, ToStage, bucketVars
    <3>2. w \in Submitting /\ w \in Submitting' BY <3>1, <1>fn DEF Submitting
    <3>3. attempts'[w] = attempts[w] + 1 BY <3>1, <1>fn
    <3>4. CallsLeft'[w] = MaxRetries + 1 - (attempts[w] + 1) BY <3>2, <3>3 DEF CallsLeft
    <3>5. \A v \in Workers : v # w => worker'[v] = worker[v] /\ attempts'[v] = attempts[v]
      BY <3>1, <1>fn
    <3>6. /\ CallsLeft[w] \in Nat /\ CallsLeft'[w] \in Int /\ creates' \in Nat
          /\ creates' + CallsLeft'[w] <= creates + CallsLeft[w]
      BY <2>0, <3>1, <3>2, <3>4, <1>fn
    <3> QED BY <3>1, <3>5, <3>6
  <2>2. ASSUME w \in Submitting, worker'[w] \notin {"submit", "creating", "backoff"},
               creates' = creates, granted' = granted,
               \E at : worker' = [worker EXCEPT ![w] = at],
               attempts' = [attempts EXCEPT ![w] = 0]
        PROVE  /\ \A v \in Workers : v # w => worker'[v] = worker[v] /\ attempts'[v] = attempts[v]
               /\ granted' = granted /\ CallsLeft[w] \in Nat /\ CallsLeft'[w] \in Int
               /\ creates' + CallsLeft'[w] <= creates + CallsLeft[w] /\ creates' \in Nat
    <3>1. CallsLeft[w] \in Nat BY <2>0, <2>2, <1>fn
    <3>2. CallsLeft'[w] = 0 BY <2>2 DEF CallsLeft, Submitting
    <3>3. \A v \in Workers : v # w => worker'[v] = worker[v] /\ attempts'[v] = attempts[v]
      BY <2>2, <1>fn
    <3>4. creates' + CallsLeft'[w] <= creates + CallsLeft[w] BY <3>1, <3>2, <2>2, <1>fn
    <3> QED BY <3>1, <3>2, <3>3, <3>4, <2>2, <1>fn
  <2>3. CASE GivesUp(w) \/ CreateFails(w) \/ (TooMany(w) /\ attempts[w] > MaxRetries)
    <3>1. PICK limited \in 0 .. MaxRetries + 1 : Fails(w, limited) BY <2>3, FailureCases
    <3>2. /\ worker' = [worker EXCEPT ![w] = "range"] /\ attempts' = [attempts EXCEPT ![w] = 0]
          /\ creates' = creates /\ granted' = granted
      BY <3>1, FailsEffect
    <3>3. w \in Submitting BY <2>3, FailureCases
    <3> QED BY <3>2, <3>3, <2>2, <1>fn
  <2>4. CASE Created(w)
    <3>1. /\ worker' = [worker EXCEPT ![w] = "record"] /\ attempts' = [attempts EXCEPT ![w] = 0]
          /\ creates' = creates /\ granted' = granted /\ worker[w] = "creating"
      BY <2>4, CreatedEffect
    <3>2. w \in Submitting BY <3>1 DEF Submitting
    <3> QED BY <3>1, <3>2, <2>2, <1>fn
  <2> QED BY <2>1, <2>3, <2>4
<1>2. left \in Nat /\ leftNew = left - CallsLeft[w] + CallsLeft'[w] BY <1>1, <1>ty, LeftAddsUp
<1>3. creates + left <= (MaxRetries + 1) * granted BY <1>ty DEF Budget
<1>4. (MaxRetries + 1) * granted \in Nat BY <1>fn
<1> HIDE DEF left, leftNew
<1>5. creates' + leftNew <= creates + left BY <1>1, <1>2, <1>fn
<1>6. creates' + leftNew <= (MaxRetries + 1) * granted BY <1>1, <1>2, <1>3, <1>4, <1>5, <1>fn
<1> QED BY <1>1, <1>6 DEF Budget, leftNew

LEMMA BudgetStep ==
  ASSUME IInv, TypeOK', [Next]_vars
  PROVE  Budget'
<1>ty. TypeOK /\ Budget BY DEF IInv
<1>fn. worker = [v \in Workers |-> worker[v]] BY <1>ty DEF TypeOK
<1>0. CASE UNCHANGED <<attempts, creates, granted, worker>>
  BY <1>0, <1>ty, BudgetStutter DEF Submitting
<1>1. ASSUME NEW w \in Workers, WorkerStep(w) PROVE Budget'
  <2> DEFINE Stages == {"submit", "creating", "backoff"}
  <2>1. CASE Receive(w) \/ WorkerDone(w) \/ ChecksContext(w) \/ SleepsForToken(w) \/ TokenTimer(w)
             \/ BackoffEnds(w) \/ StopsWithoutToken(w) \/ \E ok \in BOOLEAN : Records(w, ok)
    <3>1. UNCHANGED <<attempts, creates, granted>>
      BY <2>1 DEF Receive, WorkerDone, ChecksContext, SleepsForToken, MissToken, TokenTimer,
                  BackoffEnds, StopsWithoutToken, Records, bucketVars, resultVars
    <3>2. \A v \in Workers : worker'[v] \in Stages <=> worker[v] \in Stages
      BY <2>1, <1>fn DEF Receive, WorkerDone, ChecksContext, SleepsForToken, TokenTimer,
                         BackoffEnds, StopsWithoutToken, Records, ToStage
    <3> QED BY <3>1, <3>2, <1>ty, BudgetStutter DEF Submitting
  <2>2. CASE TooMany(w) /\ ~(attempts[w] > MaxRetries)
    <3>1. /\ UNCHANGED <<attempts, creates, granted>>
          /\ worker[w] = "creating" /\ worker' = [worker EXCEPT ![w] = "backoff"]
      BY <2>2, BackoffEffect
    <3>2. \A v \in Workers : worker'[v] \in Stages <=> worker[v] \in Stages BY <3>1, <1>fn
    <3> QED BY <3>1, <3>2, <1>ty, BudgetStutter DEF Submitting
  <2> QED BY <1>1, <2>1, <2>2, TokenKeepsBudget, SubmissionKeepsBudget DEF WorkerStep
<1>2. CASE ProducerStep \/ Timeout \/ Interrupt
  BY <1>0, <1>2 DEF ProducerStep, NextArrival, Arrives, Send, ArrivalSent, ProducerStops, Timeout,
                    Interrupt, workerVars, resultVars, bucketVars
<1>3. CASE (Tick /\ UNCHANGED genVars) \/ UNCHANGED vars
  BY <1>0, <1>3 DEF genVars, Tick, workerVars, resultVars, vars
<1> QED BY <1>1, <1>2, <1>3 DEF Next

-----------------------------------------------------------------------------
\* The span.

LEMMA SpanStutter ==
  ASSUME SpanSoFar, UNCHANGED <<successes, succeededAt>>,
         stats'.FirstSuccess = stats.FirstSuccess, stats'.LastSuccess = stats.LastSuccess,
         \A w \in Workers : worker'[w] = "record" <=> worker[w] = "record"
  PROVE  SpanSoFar'
<1>1. Recording' = Recording BY DEF Recording
<1> QED BY <1>1 DEF SpanSoFar

LEMMA CreatedKeepsSpan ==
  ASSUME IInv, NEW w \in Workers, Created(w)
  PROVE  SpanSoFar'
<1>ty. TypeOK /\ SpanSoFar BY DEF IInv
<1>fn. /\ worker = [v \in Workers |-> worker[v]] /\ succeededAt = [v \in Workers |-> succeededAt[v]]
  BY <1>ty DEF TypeOK
<1>1. /\ worker[w] = "creating" /\ worker' = [worker EXCEPT ![w] = "record"]
      /\ succeededAt' = [succeededAt EXCEPT ![w] = now] /\ successes' = successes \cup {now}
  BY CreatedEffect
<1>2. stats'.FirstSuccess = stats.FirstSuccess /\ stats'.LastSuccess = stats.LastSuccess
  <2>1. rateLimited[w] \in 0 .. MaxRetries + 1 BY <1>ty DEF TypeOK
  <2> QED BY <2>1, <1>ty, SubmittedType DEF Created
<1>3. Recording' = Recording \cup {w} /\ w \notin Recording /\ Recording \subseteq Workers
  BY <1>1, <1>fn DEF Recording
<1>4. succeededAt'[w] = now /\ \A v \in Recording : succeededAt'[v] = succeededAt[v]
  BY <1>1, <1>3, <1>fn
<1>5. \A v \in Recording' : succeededAt'[v] \in successes' BY <1>1, <1>3, <1>4, <1>ty DEF SpanSoFar
<1>6. ASSUME NEW t \in successes'
      PROVE  \/ /\ stats'.FirstSuccess # None
                /\ stats'.FirstSuccess <= t /\ t <= stats'.LastSuccess
             \/ \E v \in Recording' : succeededAt'[v] = t
  <2>1. CASE t = now BY <2>1, <1>3, <1>4
  <2>2. CASE t \in successes BY <2>2, <1>2, <1>3, <1>4, <1>ty DEF SpanSoFar
  <2> QED BY <2>1, <2>2, <1>1
<1> QED BY <1>1, <1>2, <1>5, <1>6, <1>ty DEF SpanSoFar

\* A report widens the span to its own success and never narrows it.
LEMMA RecordKeepsSpan ==
  ASSUME IInv, NEW w \in Workers, NEW ok \in BOOLEAN, Records(w, ok)
  PROVE  SpanSoFar'
<1> USE LoadGenAssumption
<1>ty. TypeOK /\ SpanSoFar BY DEF IInv
<1>fn. /\ worker = [v \in Workers |-> worker[v]] /\ succeededAt = [v \in Workers |-> succeededAt[v]]
       /\ stats \in [Attempted : Nat, Succeeded : Nat, Failed : Nat, RateLimited : Nat,
                     FirstSuccess : Nat \cup {None}, LastSuccess : Nat \cup {None}]
       /\ successes \subseteq Nat
  BY <1>ty DEF TypeOK
<1>1. PICK t : t = succeededAt[w] OBVIOUS
<1>2. /\ worker[w] = "record" /\ \E at \in {"range", "exited"} : worker' = [worker EXCEPT ![w] = at]
      /\ succeededAt' = [succeededAt EXCEPT ![w] = 0] /\ stats' = Span(t)
      /\ successes' = successes
  BY <1>1 DEF Records, ToStage
<1>3. w \in Recording /\ Recording' = Recording \ {w} /\ Recording \subseteq Workers
  BY <1>2, <1>fn DEF Recording
<1>4. t \in successes /\ t \in Nat BY <1>1, <1>3, <1>fn, <1>ty DEF SpanSoFar
<1>5. \A v \in Recording' : succeededAt'[v] = succeededAt[v] BY <1>2, <1>3, <1>fn
<1> DEFINE first == stats.FirstSuccess
           final == stats.LastSuccess
<1>6. /\ stats'.FirstSuccess = (IF first = None \/ t < first THEN t ELSE first)
      /\ stats'.LastSuccess = (IF final = None \/ t > final THEN t ELSE final)
  BY <1>2, <1>fn DEF Span
<1>7. /\ first \in Nat \cup {None} /\ final \in Nat \cup {None} /\ (first = None <=> final = None)
      /\ first # None => first \in successes /\ final \in successes
  BY <1>fn, <1>ty DEF SpanSoFar
<1>8. ASSUME NEW s \in successes
      PROVE  \/ /\ first # None
                /\ first <= s /\ s <= final
             \/ \E v \in Recording : succeededAt[v] = s
  BY <1>ty DEF SpanSoFar
<1> HIDE DEF first, final
<1>9. /\ stats'.FirstSuccess \in successes /\ stats'.LastSuccess \in successes
      /\ stats'.FirstSuccess <= t /\ t <= stats'.LastSuccess
      /\ first # None => stats'.FirstSuccess <= first /\ final <= stats'.LastSuccess
  BY <1>4, <1>6, <1>7
<1>10. stats'.FirstSuccess \in Nat /\ stats'.LastSuccess \in Nat BY <1>9, <1>fn
<1>11. stats'.FirstSuccess # None /\ stats'.LastSuccess # None BY <1>10
<1>12. ASSUME NEW s \in successes
       PROVE  \/ stats'.FirstSuccess <= s /\ s <= stats'.LastSuccess
              \/ \E v \in Recording' : succeededAt'[v] = s
  <2>1. s \in Nat BY <1>fn
  <2>2. CASE first # None /\ first <= s /\ s <= final
    <3>1. first \in Nat /\ final \in Nat BY <2>2, <1>7
    <3> QED BY <3>1, <2>1, <2>2, <1>9, <1>10
  <2>3. CASE \E v \in Recording : succeededAt[v] = s
    <3>1. PICK v \in Recording : succeededAt[v] = s BY <2>3
    <3>2. CASE v = w BY <3>1, <3>2, <1>1, <1>9
    <3>3. CASE v # w BY <3>1, <3>3, <1>3, <1>5
    <3> QED BY <3>2, <3>3
  <2> QED BY <2>2, <2>3, <1>8
<1>13. \A v \in Recording' : succeededAt'[v] \in successes BY <1>3, <1>5, <1>ty DEF SpanSoFar
<1> QED BY <1>2, <1>9, <1>11, <1>12, <1>13 DEF SpanSoFar

LEMMA SpanStep ==
  ASSUME IInv, [Next]_vars
  PROVE  SpanSoFar'
<1>ty. TypeOK /\ SpanSoFar BY DEF IInv
<1>fn. worker = [v \in Workers |-> worker[v]] BY <1>ty DEF TypeOK
<1>0. CASE UNCHANGED <<successes, succeededAt, stats, worker>> BY <1>0, <1>ty, SpanStutter
<1>1. ASSUME NEW w \in Workers, WorkerStep(w) PROVE SpanSoFar'
  <2>1. CASE Receive(w) \/ WorkerDone(w) \/ ChecksContext(w) \/ SleepsForToken(w) \/ TokenTimer(w)
             \/ GetsToken(w) \/ CallCreate(w) \/ BackoffEnds(w) \/ StopsWithoutToken(w)
    <3>1. UNCHANGED <<successes, succeededAt, stats>>
      BY <2>1 DEF Receive, WorkerDone, ChecksContext, SleepsForToken, TokenTimer, GetsToken,
                  CallCreate, BackoffEnds, StopsWithoutToken, resultVars
    <3>2. \A v \in Workers : worker'[v] = "record" <=> worker[v] = "record"
      BY <2>1, <1>fn DEF Receive, WorkerDone, ChecksContext, SleepsForToken, TokenTimer, GetsToken,
                         CallCreate, BackoffEnds, StopsWithoutToken, ToStage
    <3> QED BY <3>1, <3>2, <1>ty, SpanStutter
  <2>2. CASE GivesUp(w) \/ CreateFails(w) \/ (TooMany(w) /\ attempts[w] > MaxRetries)
    <3>1. PICK limited \in 0 .. MaxRetries + 1 : Fails(w, limited) BY <2>2, FailureCases
    <3>2. worker' = [worker EXCEPT ![w] = "range"] /\ UNCHANGED <<successes, succeededAt>>
      BY <3>1, FailsEffect
    <3>3. stats'.FirstSuccess = stats.FirstSuccess /\ stats'.LastSuccess = stats.LastSuccess
      BY <3>1, <1>ty, SubmittedType DEF Fails
    <3>4. worker[w] # "record" BY <2>2, FailureCases DEF Submitting
    <3>5. \A v \in Workers : worker'[v] = "record" <=> worker[v] = "record" BY <3>2, <3>4, <1>fn
    <3> QED BY <3>2, <3>3, <3>5, <1>ty, SpanStutter
  <2>3. CASE TooMany(w) /\ ~(attempts[w] > MaxRetries)
    <3>1. /\ UNCHANGED <<successes, succeededAt, stats>>
          /\ worker[w] = "creating" /\ worker' = [worker EXCEPT ![w] = "backoff"]
      BY <2>3, BackoffEffect
    <3>2. \A v \in Workers : worker'[v] = "record" <=> worker[v] = "record" BY <3>1, <1>fn
    <3> QED BY <3>1, <3>2, <1>ty, SpanStutter
  <2> QED BY <1>1, <2>1, <2>2, <2>3, CreatedKeepsSpan, RecordKeepsSpan DEF WorkerStep
<1>2. CASE ProducerStep \/ Timeout \/ Interrupt
  BY <1>0, <1>2 DEF ProducerStep, NextArrival, Arrives, Send, ArrivalSent, ProducerStops, Timeout,
                    Interrupt, workerVars, resultVars
<1>3. CASE (Tick /\ UNCHANGED genVars) \/ UNCHANGED vars
  BY <1>0, <1>3 DEF genVars, workerVars, resultVars, vars
<1> QED BY <1>1, <1>2, <1>3 DEF Next

-----------------------------------------------------------------------------
LEMMA StepIInv == IInv /\ [Next]_vars => IInv'
<1> SUFFICES ASSUME IInv, [Next]_vars PROVE IInv' OBVIOUS
<1>1. BucketInv'
  <2>1. BucketInv BY DEF IInv
  <2>2. [BucketNext]_<<now, bucketVars>> BY StepIsBucketStep
  <2> QED BY <2>1, <2>2, StepInv
<1>2. TypeOK' BY <1>1, TypeStep DEF BucketInv
<1>3. Numbers' /\ Counts' /\ Endings' BY NumbersStep, CountsStep, EndingsStep
<1>4. Accounts' /\ Sums' BY AccountsStep, SumsStep
<1>5. Budget' /\ SpanSoFar' BY <1>2, BudgetStep, SpanStep
<1> QED BY <1>1, <1>2, <1>3, <1>4, <1>5 DEF IInv

\* The inductive invariant of the generator, its producer, its workers and its bucket.
THEOREM LoadGenInvariance == Spec => []IInv
BY InitIInv, StepIInv, PTL DEF Spec

\* Type correctness of the generator, for any number of workers and pods.
THEOREM TypeCorrect == Spec => []TypeOK
<1>1. IInv => TypeOK BY DEF IInv
<1> QED BY <1>1, LoadGenInvariance, PTL

\* No request disappears: whatever is retried, fails or is cancelled, every number that
\* produce has sent is queued, in a worker's hand, counted in Stats, or was dropped by
\* a worker that stopped without a token after the run was cancelled.
THEOREM PodsAreAccounted == Spec => []EveryPodAccounted
<1>1. IInv => EveryPodAccounted BY DEF IInv, Accounts, Endings, EveryPodAccounted
<1> QED BY <1>1, LoadGenInvariance, PTL

LEMMA InvReports == IInv => ReportIsComplete
<1> SUFFICES ASSUME IInv PROVE ReportIsComplete OBVIOUS
<1>ty. TypeOK /\ Accounts /\ Endings /\ Numbers BY DEF IInv
<1>1. ASSUME Returned, ~runDone
      PROVE  stats.Succeeded + stats.Failed = MaxPods /\ workCh = <<>>
  <2>1. PICK w \in Workers : worker[w] = "exited" BY <1>1, LoadGenAssumption DEF Returned
  <2>2. workCh = <<>> /\ sequence = MaxPods BY <2>1, <1>1, <1>ty DEF Endings
  <2>3. InHand = {} BY <1>1, <1>ty DEF InHand, Numbers, Returned
  <2>4. dropped = {} BY <1>1, <1>ty DEF Endings
  <2>5. Len(workCh) = 0 /\ Cardinality(InHand) = 0 /\ Cardinality(dropped) = 0
    BY <2>2, <2>3, <2>4, EmptySeq, FS_EmptySet
  <2>6. stats.Succeeded \in Nat /\ stats.Failed \in Nat /\ sequence \in Nat BY <1>ty DEF TypeOK
  <2>7. sequence = Len(workCh) + Cardinality(InHand) + stats.Succeeded + stats.Failed
                   + Cardinality(dropped)
    BY <1>ty DEF Accounts
  <2> QED BY <2>2, <2>5, <2>6, <2>7
<1> QED BY <1>1, <1>ty DEF ReportIsComplete, Accounts

\* When Run returns and nothing cancelled it, it has submitted exactly maxPods pods,
\* and the log has a row for each success that it reports.
THEOREM ReportsAreComplete == Spec => []ReportIsComplete
BY LoadGenInvariance, InvReports, PTL

LEMMA InvAddsUp == IInv => AttemptsAddUp
<1> SUFFICES ASSUME IInv PROVE AttemptsAddUp OBVIOUS
<1>ty. TypeOK /\ Counts /\ Sums /\ Budget BY DEF IInv
<1>1. SumFunctionOnSet(CallsLeft, Workers) \in Nat
  <2>1. \A v \in Workers : attempts[v] \in Nat /\ attempts[v] <= MaxRetries + 1
    BY <1>ty, LoadGenAssumption DEF TypeOK
  <2>2. \A v \in Workers : CallsLeft[v] \in Nat BY <2>1, LoadGenAssumption DEF CallsLeft
  <2> QED BY <2>2, SumNat, LoadGenAssumption
<1>2. creates \in Nat /\ granted \in Nat /\ MaxRetries \in Nat
  BY <1>ty, LoadGenAssumption DEF TypeOK, BucketTypeOK
<1>3. (MaxRetries + 1) * granted \in Nat BY <1>2
<1>4. creates <= (MaxRetries + 1) * granted BY <1>1, <1>2, <1>3, <1>ty DEF Budget
<1> QED BY <1>4, <1>ty DEF AttemptsAddUp, Sums

\* The counters of Stats are the calls and the 429s, none lost between workers, and no
\* token of the bucket pays for more than MaxRetries + 1 calls.
THEOREM AttemptsAreCounted == Spec => []AttemptsAddUp
BY LoadGenInvariance, InvAddsUp, PTL

LEMMA InvSpan == IInv => SpanIsExact
<1> SUFFICES ASSUME IInv, Returned, successes # {}
             PROVE  stats.FirstSuccess = Min(successes) /\ stats.LastSuccess = Max(successes)
  BY DEF SpanIsExact
<1>ty. TypeOK /\ SpanSoFar BY DEF IInv
<1> DEFINE first == stats.FirstSuccess
           final == stats.LastSuccess
<1>1. successes \subseteq Nat BY <1>ty DEF TypeOK
<1>2. Recording = {} BY DEF Returned, Recording
<1>3. \A t \in successes : first # None /\ first <= t /\ t <= final BY <1>2, <1>ty DEF SpanSoFar
<1>4. first \in successes /\ final \in successes BY <1>3, <1>ty DEF SpanSoFar
<1> HIDE DEF first, final
<1>5. \A x \in successes : (\A t \in successes : x <= t) => x = first
  <2> SUFFICES ASSUME NEW x \in successes, \A t \in successes : x <= t PROVE x = first OBVIOUS
  <2>1. x <= first /\ first <= x BY <1>3, <1>4
  <2> QED BY <2>1, <1>1, <1>4
<1>6. \A x \in successes : (\A t \in successes : x >= t) => x = final
  <2> SUFFICES ASSUME NEW x \in successes, \A t \in successes : x >= t PROVE x = final OBVIOUS
  <2>1. x >= final /\ x <= final BY <1>3, <1>4
  <2> QED BY <2>1, <1>1, <1>4
<1>7. \A t \in successes : final >= t
  <2> SUFFICES ASSUME NEW t \in successes PROVE final >= t OBVIOUS
  <2>1. t <= final /\ t \in Nat /\ final \in Nat BY <1>1, <1>3, <1>4
  <2> QED BY <2>1
<1>8. Min(successes) = first BY <1>3, <1>4, <1>5 DEF Min
<1>9. Max(successes) = final BY <1>4, <1>6, <1>7 DEF Max
<1> QED BY <1>8, <1>9 DEF first, final

\* Whatever order the workers report in, the span that Run returns begins with the first
\* success and ends with the last.
THEOREM SpansAreExact == Spec => []SpanIsExact
BY LoadGenInvariance, InvSpan, PTL
=============================================================================
