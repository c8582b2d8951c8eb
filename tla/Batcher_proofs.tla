--------------------------- MODULE Batcher_proofs ---------------------------
(***************************************************************************)
(* Proofs about Batcher, for any number of requests, workers and Close     *)
(* calls and any batch size and queue capacity: the types, the order of    *)
(* the pipeline, the batch's timer, and the implementation of BindService. *)
(***************************************************************************)
EXTENDS Batcher, TLAPS, SequenceTheorems

\* No request is enqueued twice, and one that has not passed the queue is not in it.
EnqueuedOnce ==
  /\ \A i, j \in DOMAIN enqueued : enqueued[i] = enqueued[j] => i = j
  /\ \A r \in Requests : call[r] \in {"idle", "admitted"} => r \notin Requested(enqueued)

Holds(w, r) == worker[w] \in {"checking", "binding"} /\ item[w] = r

\* A request that has been taken has its answer or exactly one worker; one that has
\* not been taken has neither.
OneHolder ==
  /\ \A r \in Requests : result[r] # "none" => r \in Requested(taken)
  /\ \A w \in Workers : worker[w] \in {"checking", "binding"} =>
       item[w] \in Requested(taken) /\ result[item[w]] = "none"
  /\ \A w, v \in Workers : \A r \in Requests : Holds(w, r) /\ Holds(v, r) => w = v
  /\ \A r \in Requested(taken) : result[r] # "none" \/ \E w \in Workers : Holds(w, r)

BindCalled(r) ==
  \/ result[r] \in {"bound", "failed"}
  \/ \E w \in Workers : worker[w] = "binding" /\ item[w] = r

\* What the counts are: a request with an answer has one, and a request for which bind
\* has been called has been bound once.
Counted ==
  \A r \in Requests :
    /\ answers[r] = IF result[r] = "none" THEN 0 ELSE 1
    /\ binds[r] = IF BindCalled(r) THEN 1 ELSE 0

\* The order of the shutdown: the gate, the admissions, the last drain and flush, the
\* workers.
Shutdown ==
  /\ \A c \in Closers : closer[c] = "once" => ~accepting
  /\ closing => ~accepting /\ Admissions = {}
  /\ collector # "select" => closing
  /\ collector \in {"exit", "closed", "done"} => input = <<>>
  /\ collector = "exit" /\ ~flushing => batch = <<>>
  /\ collector \in {"closed", "done"} => batch = <<>> /\ ~flushing
  /\ \A w \in Workers : worker[w] = "exited" => collector \in {"closed", "done"} /\ work = <<>>
  /\ collector = "done" => \A w \in Workers : worker[w] = "exited"

\* The batch and its timer.
Timed ==
  /\ IF flushing THEN batch # <<>> /\ ~timerC ELSE Len(batch) < MaxBatch
  /\ collector \in {"select", "drain"} /\ ~flushing =>
       /\ timerC <=> batch # <<>>
       /\ timerC => timerOn \/ tickSent \/ tick

IInv == TypeOK /\ Pipeline /\ EnqueuedOnce /\ OneHolder /\ Counted /\ Shutdown /\ Timed

-----------------------------------------------------------------------------
\* Moving the head of a queue to the end of the one before it.

LEMMA AppendConcat ==
  ASSUME NEW S, NEW s \in Seq(S), NEW t \in Seq(S), NEW e \in S
  PROVE  Append(s \o t, e) = s \o Append(t, e)
<1>1. s \o t \in Seq(S) /\ <<e>> \in Seq(S)
  BY ConcatProperties
<1>2. Append(s \o t, e) = (s \o t) \o <<e>>
  BY <1>1, AppendIsConcat
<1>3. (s \o t) \o <<e>> = s \o (t \o <<e>>)
  BY <1>1, ConcatAssociative
<1>4. t \o <<e>> = Append(t, e)
  BY AppendIsConcat
<1> QED BY <1>2, <1>3, <1>4

LEMMA HeadMoves ==
  ASSUME NEW S, NEW s \in Seq(S), NEW t \in Seq(S), t # <<>>
  PROVE  Append(s, Head(t)) \o Tail(t) = s \o t
<1> DEFINE a == Append(s, Head(t))
           l == a \o Tail(t)
           m == s \o t
<1>1. /\ Head(t) \in S /\ Tail(t) \in Seq(S) /\ Len(Tail(t)) = Len(t) - 1
      /\ \A i \in 1 .. Len(Tail(t)) : Tail(t)[i] = t[i + 1]
      /\ Head(t) = t[1] /\ Len(t) \in Nat \ {0} /\ Len(s) \in Nat
  BY HeadTailProperties
<1>2. /\ a \in Seq(S) /\ Len(a) = Len(s) + 1 /\ a[Len(s) + 1] = Head(t)
      /\ \A i \in 1 .. Len(s) : a[i] = s[i]
  BY <1>1, AppendProperties
<1>3. /\ l \in Seq(S) /\ Len(l) = Len(a) + Len(Tail(t))
      /\ \A i \in 1 .. Len(a) + Len(Tail(t)) :
           l[i] = IF i <= Len(a) THEN a[i] ELSE Tail(t)[i - Len(a)]
  BY <1>1, <1>2, ConcatProperties
<1>4. /\ m \in Seq(S) /\ Len(m) = Len(s) + Len(t)
      /\ \A i \in 1 .. Len(s) + Len(t) : m[i] = IF i <= Len(s) THEN s[i] ELSE t[i - Len(s)]
  BY ConcatProperties
<1> HIDE DEF a, l, m
<1>5. ASSUME NEW i \in 1 .. Len(l) PROVE l[i] = m[i]
  <2>1. i \in Nat /\ i >= 1 /\ i <= Len(s) + Len(t) /\ Len(a) + Len(Tail(t)) = Len(s) + Len(t)
    BY <1>1, <1>2, <1>3
  <2>2. CASE i <= Len(s)
    <3>1. l[i] = a[i]
      BY <2>1, <2>2, <1>1, <1>2, <1>3
    <3>2. a[i] = s[i]
      BY <2>1, <2>2, <1>1, <1>2
    <3>3. m[i] = s[i]
      BY <2>1, <2>2, <1>1, <1>4
    <3> QED BY <3>1, <3>2, <3>3
  <2>3. CASE i = Len(s) + 1
    BY <2>1, <2>3, <1>1, <1>2, <1>3, <1>4
  <2>4. CASE i > Len(s) + 1
    <3>1. i - (Len(s) + 1) \in 1 .. Len(Tail(t)) /\ i - (Len(s) + 1) + 1 = i - Len(s)
      BY <2>1, <2>4, <1>1
    <3>2. l[i] = Tail(t)[i - (Len(s) + 1)]
      BY <2>1, <2>4, <1>1, <1>2, <1>3
    <3> QED BY <3>1, <3>2, <2>1, <2>4, <1>1, <1>4
  <2> QED BY <2>1, <2>2, <2>3, <2>4, <1>1
<1>6. Len(l) = Len(m)
  BY <1>1, <1>2, <1>3, <1>4
<1>7. l = m
  BY <1>3, <1>4, <1>5, <1>6, SeqEqual
<1> QED BY <1>7 DEF a, l, m

-----------------------------------------------------------------------------
\* Types.

LEMMA InitInv == Init => IInv
<1> SUFFICES ASSUME Init PROVE IInv
  OBVIOUS
<1> USE BatcherAssumption DEF Init
<1>1. TypeOK
  <2>1. <<>> \in Seq(Requests) /\ Len(<<>>) = 0
    OBVIOUS
  <2>2. /\ input \in Seq(Requests) /\ Len(input) <= QueueCapacity
        /\ work \in Seq(Requests) /\ Len(work) <= QueueCapacity
        /\ batch \in Seq(Requests) /\ Len(batch) <= MaxBatch
        /\ enqueued \in Seq(Requests) /\ taken \in Seq(Requests)
    BY <2>1
  <2>3. /\ call \in [Requests -> Call] /\ ctxDone \in [Requests -> BOOLEAN]
        /\ result \in [Requests -> Result]
        /\ binds \in [Requests -> Nat] /\ answers \in [Requests -> Nat]
    BY DEF Call, Result
  <2> QED BY <2>2, <2>3 DEF TypeOK
<1>2. Pipeline
  <2>1. <<>> \o <<>> \o <<>> \o <<>> = <<>>
    BY ConcatEmptySeq, EmptySeq
  <2> QED BY <2>1 DEF Pipeline
<1>3. EnqueuedOnce
  BY DEF EnqueuedOnce, Requested
<1>4. OneHolder
  BY DEF OneHolder, Holds, Requested
<1>5. Counted
  BY DEF Counted, BindCalled
<1>6. Shutdown
  BY DEF Shutdown
<1>7. Timed
  BY DEF Timed
<1> QED BY <1>1, <1>2, <1>3, <1>4, <1>5, <1>6, <1>7 DEF IInv

\* A stuttering step changes nothing.
LEMMA Stutter == IInv /\ UNCHANGED vars => IInv'
<1> SUFFICES ASSUME IInv, UNCHANGED vars PROVE IInv'
  OBVIOUS
<1> USE DEF IInv, vars
<1>1. TypeOK'
  BY DEF TypeOK
<1>2. Pipeline'
  BY DEF Pipeline
<1>3. EnqueuedOnce'
  BY DEF EnqueuedOnce, Requested
<1>4. OneHolder'
  BY DEF OneHolder, Holds, Requested
<1>5. Counted'
  BY DEF Counted, BindCalled
<1>6. Shutdown'
  BY DEF Shutdown, Admissions
<1>7. Timed'
  BY DEF Timed
<1> QED BY <1>1, <1>2, <1>3, <1>4, <1>5, <1>6, <1>7

LEMMA CountOneMore ==
  ASSUME NEW f \in [Requests -> Nat], NEW r
  PROVE  [f EXCEPT ![r] = @ + 1] \in [Requests -> Nat]
<1>1. \A q \in Requests : [f EXCEPT ![r] = @ + 1][q] \in Nat
  BY SMT
<1>2. [f EXCEPT ![r] = @ + 1] = [q \in Requests |-> [f EXCEPT ![r] = @ + 1][q]]
  BY Zenon
<1> QED BY <1>1, <1>2, Zenon

LEMMA TypeStep == TypeOK /\ OneHolder /\ Timed /\ Next => TypeOK'
<1> SUFFICES ASSUME TypeOK, OneHolder, Timed, Next PROVE TypeOK'
  OBVIOUS
<1> USE BatcherAssumption DEF TypeOK, Call, Result, submitVars, batchVars, timerVars,
        workerVars, closeVars
<1>1. ASSUME NEW r \in Requests, Cancel(r) \/ Register(r) \/ NotEnqueued(r) \/ AdmissionDone(r)
                                 \/ SubmitReturns(r)
      PROVE  TypeOK'
  <2>1. CASE Cancel(r)
    BY <2>1 DEF Cancel
  <2>2. CASE Register(r)
    BY <2>2 DEF Register
  <2>3. CASE NotEnqueued(r)
    BY <2>3 DEF NotEnqueued
  <2>4. CASE AdmissionDone(r)
    BY <2>4 DEF AdmissionDone
  <2>5. CASE SubmitReturns(r)
    BY <2>5 DEF SubmitReturns
  <2> QED BY <1>1, <2>1, <2>2, <2>3, <2>4, <2>5
<1>2. ASSUME NEW r \in Requests, Enqueue(r) PROVE TypeOK'
  <2>1. input' \in Seq(Requests) /\ Len(input') <= QueueCapacity
    BY <1>2 DEF Enqueue
  <2>2. enqueued' \in Seq(Requests) /\ call' \in [Requests -> Call]
    BY <1>2 DEF Enqueue
  <2> QED BY <1>2, <2>1, <2>2 DEF Enqueue
<1>3. CASE Expire \/ Tick
  <2>1. CASE Expire
    BY <2>1 DEF Expire
  <2>2. CASE Tick
    BY <2>2 DEF Tick
  <2> QED BY <1>3, <2>1, <2>2
<1>4. CASE Receive
  <2>1. /\ Head(input) \in Requests /\ Tail(input) \in Seq(Requests)
        /\ Len(Tail(input)) = Len(input) - 1
    BY <1>4 DEF Receive
  <2>2. Append(batch, Head(input)) \in Seq(Requests)
        /\ Len(Append(batch, Head(input))) = Len(batch) + 1
    BY <2>1
  <2>3. Len(batch) < MaxBatch
    BY <1>4 DEF Receive, Timed
  <2>4. /\ flushing' \in BOOLEAN /\ timerC' \in BOOLEAN /\ timerOn' \in BOOLEAN
        /\ tickSent' \in BOOLEAN /\ tick' \in BOOLEAN /\ due' \in BOOLEAN
    BY <1>4 DEF Receive, Add, StartTimer, StopTimer
  <2> QED BY <1>4, <2>1, <2>2, <2>3, <2>4 DEF Receive, Add
<1>5. CASE ReceiveTick
  BY <1>5 DEF ReceiveTick
<1>6. CASE SendWork
  <2>1. /\ batch # <<>>
        /\ Head(batch) \in Requests /\ Tail(batch) \in Seq(Requests)
        /\ Len(Tail(batch)) = Len(batch) - 1
    BY <1>6 DEF SendWork, Timed
  <2> QED BY <1>6, <2>1 DEF SendWork
<1>7. CASE SeeClosing \/ LastFlush \/ CloseWork \/ CloseDone
  <2>1. CASE SeeClosing
    BY <2>1 DEF SeeClosing
  <2>2. CASE LastFlush
    BY <2>2 DEF LastFlush, StopTimer
  <2>3. CASE CloseWork
    BY <2>3 DEF CloseWork
  <2>4. CASE CloseDone
    BY <2>4 DEF CloseDone
  <2> QED BY <1>7, <2>1, <2>2, <2>3, <2>4
<1>8. ASSUME NEW w \in Workers, Take(w) PROVE TypeOK'
  <2>1. /\ Head(work) \in Requests /\ Tail(work) \in Seq(Requests)
        /\ Len(Tail(work)) = Len(work) - 1
    BY <1>8 DEF Take
  <2> QED BY <1>8, <2>1 DEF Take
<1>9. ASSUME NEW w \in Workers, SkipCancelled(w) \/ CallBind(w) \/ BindReturns(w) \/ WorkerExits(w)
      PROVE  TypeOK'
  <2>1. CASE SkipCancelled(w)
    <3>1. /\ result' = [result EXCEPT ![item[w]] = "cancelled"]
          /\ item' = [item EXCEPT ![w] = NoRequest]
          /\ worker' = [worker EXCEPT ![w] = "idle"]
      BY <2>1 DEF SkipCancelled, Publish
    <3>2. result' \in [Requests -> Result]
      BY <3>1
    <3>3. worker' \in [Workers -> {"idle", "checking", "binding", "exited"}]
      BY <3>1
    <3>4. item' \in [Workers -> Requests \cup {NoRequest}]
      BY <3>1
    <3>5. answers' \in [Requests -> Nat] /\ binds' = binds
      BY <2>1, CountOneMore DEF SkipCancelled, Publish
    <3> QED BY <2>1, <3>2, <3>3, <3>4, <3>5 DEF SkipCancelled
  <2>2. CASE CallBind(w)
    <3>1. binds' \in [Requests -> Nat]
      BY <2>2, CountOneMore DEF CallBind
    <3> QED BY <2>2, <3>1 DEF CallBind
  <2>3. CASE BindReturns(w)
    <3>1. PICK answer \in {"bound", "failed"} : Publish(w, answer)
      BY <2>3 DEF BindReturns
    <3>2. UNCHANGED <<submitVars, input, work, batchVars, collector, timerVars, taken, binds,
                      closeVars, enqueued>>
      BY <2>3 DEF BindReturns
    <3>3. result' \in [Requests -> Result]
      BY <3>1 DEF Publish
    <3>4. item' \in [Workers -> Requests \cup {NoRequest}]
          /\ worker' \in [Workers -> {"idle", "checking", "binding", "exited"}]
      BY <3>1 DEF Publish
    <3>5. answers' \in [Requests -> Nat]
      BY <3>1, CountOneMore DEF Publish
    <3> QED BY <3>2, <3>3, <3>4, <3>5
  <2>4. CASE WorkerExits(w)
    BY <2>4 DEF WorkerExits
  <2> QED BY <1>9, <2>1, <2>2, <2>3, <2>4
<1>10. ASSUME NEW c \in Closers, CloseBegins(c) \/ CloseStep(c) PROVE TypeOK'
  <2>1. CASE CloseBegins(c)
    BY <2>1 DEF CloseBegins
  <2>2. CASE CloseSignals(c)
    BY <2>2 DEF CloseSignals
  <2>3. CASE CloseJoins(c)
    BY <2>3 DEF CloseJoins
  <2>4. CASE CloseReturns(c)
    BY <2>4 DEF CloseReturns
  <2> QED BY <1>10, <2>1, <2>2, <2>3, <2>4 DEF CloseStep
<1> QED
  BY <1>1, <1>2, <1>3, <1>4, <1>5, <1>6, <1>7, <1>8, <1>9, <1>10
  DEF Next, SubmitStep, CollectorStep, WorkerStep

-----------------------------------------------------------------------------
\* The pipeline: only four actions move a request, each from the head of one queue
\* to the end of the one before it.

LEMMA PipelineStep == TypeOK /\ Timed /\ Pipeline /\ Next => Pipeline'
<1> SUFFICES ASSUME TypeOK, Timed, Pipeline, Next PROVE Pipeline'
  OBVIOUS
<1> USE DEF submitVars, batchVars, timerVars, workerVars, closeVars
<1>a. /\ taken \in Seq(Requests) /\ work \in Seq(Requests) /\ batch \in Seq(Requests)
      /\ input \in Seq(Requests)
      /\ taken \o work \in Seq(Requests) /\ taken \o work \o batch \in Seq(Requests)
  BY ConcatProperties DEF TypeOK
<1>1. CASE UNCHANGED <<enqueued, taken, work, batch, input>>
  BY <1>1 DEF Pipeline
<1>2. ASSUME NEW r \in Requests, Enqueue(r) PROVE Pipeline'
  <2> DEFINE moved == taken \o work \o batch
  <2>1. moved \in Seq(Requests) /\ input \in Seq(Requests)
    BY <1>a
  <2> HIDE DEF moved
  <2>2. moved \o Append(input, r) = Append(moved \o input, r)
    BY <2>1, AppendConcat
  <2> QED BY <1>2, <2>2 DEF Enqueue, Pipeline, moved
<1>3. CASE Receive
  <2> DEFINE h == Head(input)
  <2>1. h \in Requests /\ Tail(input) \in Seq(Requests) /\ input # <<>>
    BY <1>3, <1>a, HeadTailProperties DEF Receive
  <2>2. taken \o work \o Append(batch, h) = Append(taken \o work \o batch, h)
    <3> DEFINE front == taken \o work
    <3>1. front \in Seq(Requests) /\ batch \in Seq(Requests)
      BY <1>a
    <3> HIDE DEF front, h
    <3>2. front \o Append(batch, h) = Append(front \o batch, h)
      BY <2>1, <3>1, AppendConcat
    <3> QED BY <3>2 DEF front
  <2>3. Append(taken \o work \o batch, h) \o Tail(input) = taken \o work \o batch \o input
    BY <1>a, <2>1, HeadMoves
  <2> QED BY <1>3, <2>2, <2>3 DEF Receive, Add, Pipeline
<1>4. CASE SendWork
  <2> DEFINE h == Head(batch)
  <2>1. h \in Requests /\ Tail(batch) \in Seq(Requests) /\ batch # <<>>
    BY <1>4, <1>a, HeadTailProperties DEF SendWork, Timed
  <2>2. taken \o Append(work, h) = Append(taken \o work, h)
    <3>1. taken \in Seq(Requests) /\ work \in Seq(Requests) /\ h \in Requests
      BY <1>a, <2>1
    <3> HIDE DEF h
    <3> QED BY <3>1, AppendConcat
  <2>3. Append(taken \o work, h) \o Tail(batch) = taken \o work \o batch
    BY <1>a, <2>1, HeadMoves
  <2> QED BY <1>4, <2>2, <2>3 DEF SendWork, Pipeline
<1>5. ASSUME NEW w \in Workers, Take(w) PROVE Pipeline'
  <2>1. Append(taken, Head(work)) \o Tail(work) = taken \o work
    BY <1>5, <1>a, HeadMoves DEF Take
  <2> QED BY <1>5, <2>1 DEF Take, Pipeline
<1>6. \/ UNCHANGED <<enqueued, taken, work, batch, input>>
      \/ \E r \in Requests : Enqueue(r)
      \/ Receive \/ SendWork
      \/ \E w \in Workers : Take(w)
  BY DEF Next, SubmitStep, CollectorStep, WorkerStep, CloseStep, Cancel, Register,
     NotEnqueued, AdmissionDone, SubmitReturns, Expire, Tick, ReceiveTick, SeeClosing,
     LastFlush, CloseWork, CloseDone, SkipCancelled, CallBind, BindReturns, WorkerExits,
     CloseBegins, CloseSignals, CloseJoins, CloseReturns
<1> QED BY <1>1, <1>2, <1>3, <1>4, <1>5, <1>6

-----------------------------------------------------------------------------
\* No request enters a queue, or leaves the queues, twice.

LEMMA RequestedAppend ==
  ASSUME NEW s \in Seq(Requests), NEW r \in Requests
  PROVE  Requested(Append(s, r)) = Requested(s) \cup {r}
<1>1. /\ DOMAIN Append(s, r) = 1 .. Len(s) + 1 /\ DOMAIN s = 1 .. Len(s)
      /\ \A i \in 1 .. Len(s) : Append(s, r)[i] = s[i]
      /\ Append(s, r)[Len(s) + 1] = r
      /\ Len(s) \in Nat
  BY AppendProperties, LenProperties
<1> DEFINE a == Append(s, r)
<1> HIDE DEF a
<1>2. DOMAIN a = DOMAIN s \cup {Len(s) + 1}
  BY <1>1 DEF a
<1>3. (\A i \in DOMAIN s : a[i] = s[i]) /\ a[Len(s) + 1] = r
  BY <1>1 DEF a
<1>4. Requested(a) = Requested(s) \cup {r}
  BY <1>2, <1>3 DEF Requested
<1> QED BY <1>4 DEF a

LEMMA EnqueuedOnceStep == TypeOK /\ EnqueuedOnce /\ Next => EnqueuedOnce'
<1> SUFFICES ASSUME TypeOK, EnqueuedOnce, Next PROVE EnqueuedOnce'
  OBVIOUS
<1> USE DEF submitVars, batchVars, timerVars, workerVars, closeVars
<1>1. ASSUME UNCHANGED enqueued,
             \A r \in Requests : call'[r] \in {"idle", "admitted"} => call[r] \in {"idle", "admitted"}
      PROVE  EnqueuedOnce'
  BY <1>1 DEF EnqueuedOnce, Requested
<1>2. ASSUME NEW r \in Requests, Cancel(r) \/ Register(r) \/ NotEnqueued(r) \/ AdmissionDone(r)
                                 \/ SubmitReturns(r)
      PROVE  EnqueuedOnce'
  <2>1. UNCHANGED enqueued
    BY <1>2 DEF Cancel, Register, NotEnqueued, AdmissionDone, SubmitReturns
  <2>2. /\ \A q \in Requests \ {r} : call'[q] = call[q]
        /\ call'[r] \in {"idle", "admitted"} => call[r] \in {"idle", "admitted"}
    BY <1>2 DEF Cancel, Register, NotEnqueued, AdmissionDone, SubmitReturns, TypeOK
  <2> QED BY <1>1, <2>1, <2>2
<1>3. ASSUME NEW r \in Requests, Enqueue(r) PROVE EnqueuedOnce'
  <2> DEFINE n == Len(enqueued)
  <2>1. /\ enqueued' = Append(enqueued, r) /\ enqueued \in Seq(Requests)
        /\ r \notin Requested(enqueued)
        /\ call' = [call EXCEPT ![r] = "enqueued"]
    BY <1>3 DEF Enqueue, EnqueuedOnce, TypeOK
  <2>2. /\ DOMAIN enqueued' = DOMAIN enqueued \cup {n + 1} /\ n \in Nat
        /\ DOMAIN enqueued = 1 .. n
        /\ \A i \in DOMAIN enqueued : enqueued'[i] = enqueued[i]
        /\ enqueued'[n + 1] = r
    BY <2>1, AppendProperties, LenProperties
  <2>3. \A i, j \in DOMAIN enqueued' : enqueued'[i] = enqueued'[j] => i = j
    <3>1. \A i \in DOMAIN enqueued : enqueued[i] # r
      BY <2>1 DEF Requested
    <3>2. \A i, j \in DOMAIN enqueued : enqueued[i] = enqueued[j] => i = j
      BY DEF EnqueuedOnce
    <3> HIDE DEF n
    <3> QED BY <2>2, <3>1, <3>2
  <2>4. Requested(enqueued') = Requested(enqueued) \cup {r}
    BY <2>1, RequestedAppend
  <2>5. \A q \in Requests : call'[q] \in {"idle", "admitted"} => q \notin Requested(enqueued')
    BY <2>1, <2>4 DEF EnqueuedOnce, TypeOK
  <2> QED BY <2>3, <2>5 DEF EnqueuedOnce, Requested
<1>4. \/ UNCHANGED <<enqueued, call>>
      \/ \E r \in Requests : Enqueue(r) \/ Cancel(r) \/ Register(r) \/ NotEnqueued(r)
                             \/ AdmissionDone(r) \/ SubmitReturns(r)
  BY DEF Next, SubmitStep, CollectorStep, WorkerStep, CloseStep, Expire, Tick, Receive,
     ReceiveTick, SendWork, SeeClosing, LastFlush, CloseWork, CloseDone, Take, SkipCancelled,
     CallBind, BindReturns, WorkerExits, CloseBegins, CloseSignals, CloseJoins, CloseReturns
<1> QED BY <1>1, <1>2, <1>3, <1>4

\* What workers have taken was enqueued, and what they take next is none of it.
LEMMA NextIsNew ==
  ASSUME TypeOK, Pipeline, EnqueuedOnce
  PROVE  /\ Requested(taken) \subseteq Requested(enqueued)
         /\ work # <<>> => Head(work) \in Requests \ Requested(taken)
<1>1. /\ taken \in Seq(Requests) /\ work \in Seq(Requests) /\ batch \in Seq(Requests)
      /\ input \in Seq(Requests) /\ enqueued \in Seq(Requests)
  BY DEF TypeOK
<1> DEFINE tw == taken \o work
           twb == tw \o batch
<1>2. /\ tw \in Seq(Requests) /\ Len(tw) = Len(taken) + Len(work)
      /\ \A i \in 1 .. Len(taken) + Len(work) :
           tw[i] = IF i <= Len(taken) THEN taken[i] ELSE work[i - Len(taken)]
  BY <1>1, ConcatProperties
<1>3. /\ twb \in Seq(Requests) /\ Len(twb) = Len(tw) + Len(batch)
      /\ \A i \in 1 .. Len(tw) + Len(batch) :
           twb[i] = IF i <= Len(tw) THEN tw[i] ELSE batch[i - Len(tw)]
  <2>1. twb = tw \o batch
    OBVIOUS
  <2> HIDE DEF tw, twb
  <2>2. tw \in Seq(Requests) /\ batch \in Seq(Requests)
    BY <1>1, <1>2
  <2> QED BY <2>1, <2>2, ConcatProperties
<1>4. /\ Len(enqueued) = Len(twb) + Len(input)
      /\ \A i \in 1 .. Len(twb) + Len(input) :
           enqueued[i] = IF i <= Len(twb) THEN twb[i] ELSE input[i - Len(twb)]
  <2>1. enqueued = twb \o input
    BY DEF Pipeline
  <2> HIDE DEF twb
  <2> QED BY <1>1, <1>3, <2>1, ConcatProperties
<1> HIDE DEF tw, twb
<1>5. /\ Len(taken) \in Nat /\ Len(work) \in Nat /\ Len(batch) \in Nat /\ Len(input) \in Nat
      /\ DOMAIN taken = 1 .. Len(taken) /\ DOMAIN enqueued = 1 .. Len(enqueued)
  BY <1>1, LenProperties
<1>6. \A i \in DOMAIN taken : i \in DOMAIN enqueued /\ enqueued[i] = taken[i]
  <2> SUFFICES ASSUME NEW i \in DOMAIN taken
               PROVE  i \in DOMAIN enqueued /\ enqueued[i] = taken[i]
    OBVIOUS
  <2>1. i \in 1 .. Len(taken) /\ i <= Len(tw) /\ i <= Len(twb) /\ i <= Len(enqueued)
    BY <1>2, <1>3, <1>4, <1>5
  <2>2. tw[i] = taken[i]
    BY <2>1, <1>2, <1>5
  <2>3. twb[i] = tw[i]
    BY <2>1, <1>2, <1>3, <1>5
  <2>4. enqueued[i] = twb[i]
    BY <2>1, <1>2, <1>3, <1>4, <1>5
  <2> QED BY <2>1, <2>2, <2>3, <2>4, <1>5
<1>7. Requested(taken) \subseteq Requested(enqueued)
  BY <1>6 DEF Requested
<1>8. ASSUME work # <<>> PROVE Head(work) \in Requests \ Requested(taken)
  <2> DEFINE n == Len(taken) + 1
  <2>1. Head(work) \in Requests /\ Head(work) = work[1] /\ Len(work) >= 1
    BY <1>1, <1>8
  <2>2. /\ n \in 1 .. Len(taken) + Len(work) /\ n <= Len(tw) /\ n <= Len(twb)
        /\ n <= Len(enqueued) /\ n - Len(taken) = 1 /\ ~(n <= Len(taken))
    BY <1>2, <1>3, <1>4, <1>5, <2>1
  <2> HIDE DEF n
  <2>3. tw[n] = work[1]
    BY <2>2, <1>2
  <2>4. twb[n] = tw[n]
    BY <2>2, <1>2, <1>3, <1>5
  <2>5. n \in DOMAIN enqueued /\ enqueued[n] = Head(work)
    BY <2>1, <2>2, <2>3, <2>4, <1>2, <1>3, <1>4, <1>5
  <2>6. \A i \in DOMAIN taken : i # n
    BY <2>2, <1>5
  <2> QED BY <2>1, <2>5, <2>6, <1>6 DEF EnqueuedOnce, Requested
<1> QED BY <1>7, <1>8

-----------------------------------------------------------------------------
\* Every taken request has its answer or one worker.

LEMMA HolderStep ==
  TypeOK /\ Pipeline /\ EnqueuedOnce /\ OneHolder /\ Next => OneHolder'
<1> SUFFICES ASSUME TypeOK, Pipeline, EnqueuedOnce, OneHolder, Next PROVE OneHolder'
  OBVIOUS
<1> USE DEF submitVars, batchVars, timerVars, workerVars, closeVars
<1>1. CASE UNCHANGED <<result, worker, item, taken>>
  BY <1>1 DEF OneHolder, Holds, Requested
<1>2. ASSUME NEW w \in Workers, Take(w) PROVE OneHolder'
  <2> PICK h : h = Head(work)
    OBVIOUS
  <2>1. /\ h \in Requests \ Requested(taken) /\ result[h] = "none"
        /\ Requested(taken') = Requested(taken) \cup {h}
    BY <1>2, NextIsNew, RequestedAppend DEF Take, OneHolder, TypeOK
  <2>2. /\ worker' = [worker EXCEPT ![w] = "checking"] /\ item' = [item EXCEPT ![w] = h]
        /\ result' = result /\ worker[w] = "idle"
        /\ worker \in [Workers -> {"idle", "checking", "binding", "exited"}]
        /\ item \in [Workers -> Requests \cup {NoRequest}]
    BY <1>2 DEF Take, TypeOK
  <2>3. /\ \A v \in Workers \ {w} : worker'[v] = worker[v] /\ item'[v] = item[v]
        /\ worker'[w] = "checking" /\ item'[w] = h
    BY <2>2
  <2>4. \A r \in Requests : result'[r] # "none" => r \in Requested(taken')
    BY <2>1, <2>2 DEF OneHolder
  <2>5. \A v \in Workers : worker'[v] \in {"checking", "binding"} =>
          item'[v] \in Requested(taken') /\ result'[item'[v]] = "none"
    BY <2>1, <2>2, <2>3 DEF OneHolder
  <2>6. \A u, v \in Workers : \A r \in Requests : Holds(u, r)' /\ Holds(v, r)' => u = v
    <3>1. \A v \in Workers \ {w} : \A r \in Requests : Holds(v, r)' <=> Holds(v, r)
      BY <2>3 DEF Holds
    <3>2. \A v \in Workers : ~Holds(v, h)
      BY <2>1 DEF OneHolder, Holds
    <3>3. \A r \in Requests : Holds(w, r)' => r = h
      BY <2>3 DEF Holds
    <3> QED BY <3>1, <3>2, <3>3, <2>1 DEF OneHolder
  <2>7. \A r \in Requested(taken') : result'[r] # "none" \/ \E v \in Workers : Holds(v, r)'
    <3>1. Holds(w, h)'
      BY <2>3 DEF Holds
    <3>2. \A v \in Workers : \A r : Holds(v, r) => Holds(v, r)'
      BY <2>2, <2>3 DEF Holds
    <3> QED BY <3>1, <3>2, <2>1, <2>2 DEF OneHolder
  <2> QED BY <2>4, <2>5, <2>6, <2>7 DEF OneHolder, Requested, Holds
<1>3. ASSUME NEW w \in Workers, worker[w] \in {"checking", "binding"},
             NEW answer \in {"bound", "failed", "cancelled"},
             Publish(w, answer), UNCHANGED taken
      PROVE  OneHolder'
  <2> DEFINE h == item[w]
  <2>1. h \in Requested(taken) /\ h \in Requests /\ Holds(w, h)
    <3>1. \A i \in DOMAIN taken : taken[i] \in Requests
      BY DEF TypeOK
    <3> QED BY <1>3, <3>1 DEF OneHolder, Holds, Requested
  <2>2. /\ \A v \in Workers \ {w} : worker'[v] = worker[v] /\ item'[v] = item[v]
        /\ worker'[w] = "idle"
        /\ \A r \in Requests \ {h} : result'[r] = result[r]
        /\ result'[h] = answer /\ answer # "none"
    BY <1>3, <2>1 DEF Publish, TypeOK
  <2> HIDE DEF h
  <2>3. \A v \in Workers \ {w} : \A r \in Requests : Holds(v, r) => r # h
    BY <2>1 DEF OneHolder
  <2>4. \A v \in Workers \ {w} : \A r \in Requests : Holds(v, r)' <=> Holds(v, r)
    BY <2>2 DEF Holds
  <2>5. \A r : ~Holds(w, r)'
    BY <2>2 DEF Holds
  <2>6. \A r \in Requested(taken) : r \in Requests
    BY DEF Requested, TypeOK
  <2>7. \A r \in Requests : result'[r] # "none" => r \in Requested(taken)
    BY <2>1, <2>2 DEF OneHolder
  <2>8. \A v \in Workers : worker'[v] \in {"checking", "binding"} =>
          item'[v] \in Requested(taken) /\ result'[item'[v]] = "none"
    <3> SUFFICES ASSUME NEW v \in Workers, worker'[v] \in {"checking", "binding"}
                 PROVE  item'[v] \in Requested(taken) /\ result'[item'[v]] = "none"
      OBVIOUS
    <3>1. v # w /\ worker[v] \in {"checking", "binding"} /\ item'[v] = item[v]
      BY <2>2
    <3>2. item[v] \in Requested(taken) /\ result[item[v]] = "none" /\ item[v] \in Requests
      BY <3>1, <2>6 DEF OneHolder
    <3>3. item[v] # h
      BY <3>1, <3>2, <2>3 DEF Holds
    <3> QED BY <3>1, <3>2, <3>3, <2>2
  <2>9. \A u, v \in Workers : \A r \in Requests : Holds(u, r)' /\ Holds(v, r)' => u = v
    BY <2>4, <2>5 DEF OneHolder
  <2>10. \A r \in Requested(taken) : result'[r] # "none" \/ \E v \in Workers : Holds(v, r)'
    <3> SUFFICES ASSUME NEW r \in Requested(taken), r # h
                 PROVE  result'[r] # "none" \/ \E v \in Workers : Holds(v, r)'
      BY <2>2
    <3>1. r \in Requests
      BY <2>6
    <3>2. CASE result[r] # "none"
      BY <3>1, <3>2, <2>2
    <3>3. CASE \E v \in Workers : Holds(v, r)
      <4>1. PICK v \in Workers : Holds(v, r)
        BY <3>3
      <4>2. v # w
        BY <4>1, <2>1 DEF Holds
      <4> QED BY <4>1, <4>2, <3>1, <2>4
    <3> QED BY <3>2, <3>3 DEF OneHolder
  <2> QED BY <1>3, <2>7, <2>8, <2>9, <2>10 DEF OneHolder, Requested, Holds
<1>4. ASSUME NEW w \in Workers, CallBind(w) \/ WorkerExits(w) PROVE OneHolder'
  <2>1. UNCHANGED <<result, item, taken>>
    BY <1>4 DEF CallBind, WorkerExits
  <2>2. \A v \in Workers :
          worker'[v] \in {"checking", "binding"} <=> worker[v] \in {"checking", "binding"}
    BY <1>4 DEF CallBind, WorkerExits, TypeOK
  <2>3. \A v \in Workers : \A r : Holds(v, r)' <=> Holds(v, r)
    BY <2>1, <2>2 DEF Holds
  <2> QED BY <2>1, <2>2, <2>3 DEF OneHolder, Requested
<1>5. ASSUME NEW w \in Workers, SkipCancelled(w) \/ BindReturns(w) PROVE OneHolder'
  <2>1. worker[w] \in {"checking", "binding"} /\ UNCHANGED taken
    BY <1>5 DEF SkipCancelled, BindReturns
  <2>2. \E answer \in {"bound", "failed", "cancelled"} : Publish(w, answer)
    BY <1>5 DEF SkipCancelled, BindReturns
  <2> QED BY <2>1, <2>2, <1>3
<1>6. \/ UNCHANGED <<result, worker, item, taken>>
      \/ \E w \in Workers : WorkerStep(w)
  BY DEF Next, SubmitStep, CollectorStep, CloseStep, Enqueue, Cancel, Register, NotEnqueued,
     AdmissionDone, SubmitReturns, Expire, Tick, Receive, ReceiveTick, SendWork, SeeClosing,
     LastFlush, CloseWork, CloseDone, CloseBegins, CloseSignals, CloseJoins, CloseReturns
<1> QED BY <1>1, <1>2, <1>4, <1>5, <1>6 DEF WorkerStep

-----------------------------------------------------------------------------
\* The counts: CallBind and the two answers count what OneHolder says happens once.

LEMMA CountedStep == TypeOK /\ OneHolder /\ Counted /\ Next => Counted'
<1> SUFFICES ASSUME TypeOK, OneHolder, Counted, Next PROVE Counted'
  OBVIOUS
<1> USE DEF submitVars, batchVars, timerVars, workerVars, closeVars
<1>1. CASE UNCHANGED <<result, binds, answers>> /\ \A r \in Requests : BindCalled(r)' <=> BindCalled(r)
  BY <1>1 DEF Counted
<1>2. ASSUME UNCHANGED <<result, worker, item, binds, answers>> PROVE Counted'
  BY <1>2 DEF Counted, BindCalled
<1>3. ASSUME NEW w \in Workers, Take(w) \/ WorkerExits(w) PROVE Counted'
  <2>1. UNCHANGED <<result, binds, answers>>
    BY <1>3 DEF Take, WorkerExits
  <2>2. /\ \A v \in Workers \ {w} : worker'[v] = worker[v] /\ item'[v] = item[v]
        /\ worker[w] # "binding" /\ worker'[w] # "binding"
    BY <1>3 DEF Take, WorkerExits, TypeOK
  <2>3. \A r \in Requests : BindCalled(r)' <=> BindCalled(r)
    BY <2>1, <2>2 DEF BindCalled
  <2> QED BY <1>1, <2>1, <2>3
<1>4. ASSUME NEW w \in Workers, CallBind(w) PROVE Counted'
  <2> PICK h : h = item[w]
    OBVIOUS
  <2>1. h \in Requests /\ result[h] = "none" /\ Holds(w, h) /\ worker[w] = "checking"
    <3>1. \A i \in DOMAIN taken : taken[i] \in Requests
      BY DEF TypeOK
    <3> QED BY <1>4, <3>1 DEF CallBind, OneHolder, Holds, Requested
  <2>2. ~BindCalled(h)
    BY <2>1 DEF BindCalled, OneHolder, Holds
  <2>3. /\ UNCHANGED <<result, item, answers>> /\ worker'[w] = "binding"
        /\ \A v \in Workers \ {w} : worker'[v] = worker[v]
        /\ binds'[h] = binds[h] + 1
        /\ \A r \in Requests \ {h} : binds'[r] = binds[r]
    BY <1>4, <2>1 DEF CallBind, TypeOK
  <2>4. BindCalled(h)' /\ \A r \in Requests \ {h} : BindCalled(r)' <=> BindCalled(r)
    BY <2>1, <2>3 DEF BindCalled
  <2> QED BY <2>1, <2>2, <2>3, <2>4 DEF Counted
<1>5. ASSUME NEW w \in Workers, NEW answer \in {"bound", "failed", "cancelled"},
             Publish(w, answer), worker[w] \in {"checking", "binding"},
             answer = "cancelled" <=> worker[w] = "checking", UNCHANGED binds
      PROVE  Counted'
  <2> PICK h : h = item[w]
    OBVIOUS
  <2>1. h \in Requests /\ result[h] = "none" /\ Holds(w, h)
    <3>1. \A i \in DOMAIN taken : taken[i] \in Requests
      BY DEF TypeOK
    <3> QED BY <1>5, <3>1 DEF OneHolder, Holds, Requested
  <2>2. /\ \A v \in Workers \ {w} : worker'[v] = worker[v] /\ item'[v] = item[v]
        /\ worker'[w] = "idle"
        /\ \A r \in Requests \ {h} : result'[r] = result[r] /\ answers'[r] = answers[r]
        /\ result'[h] = answer /\ answers'[h] = answers[h] + 1
    BY <1>5, <2>1 DEF Publish, TypeOK
  <2>3. \A v \in Workers \ {w} : item[v] = h => worker[v] # "binding"
    BY <2>1 DEF OneHolder, Holds
  <2>4. \A r \in Requests \ {h} : BindCalled(r)' <=> BindCalled(r)
    BY <2>1, <2>2 DEF BindCalled, Holds
  <2>5. BindCalled(h)' <=> BindCalled(h)
    <3>1. BindCalled(h) <=> answer # "cancelled"
      BY <1>5, <2>1, <2>3 DEF BindCalled, Holds
    <3>2. BindCalled(h)' <=> answer # "cancelled"
      BY <2>2, <2>3 DEF BindCalled
    <3> QED BY <3>1, <3>2
  <2>6. answers'[h] = 1 /\ result'[h] # "none"
    BY <2>1, <2>2 DEF Counted
  <2> QED BY <1>5, <2>2, <2>4, <2>5, <2>6 DEF Counted
<1>6. ASSUME NEW w \in Workers, SkipCancelled(w) \/ BindReturns(w) PROVE Counted'
  <2>1. CASE SkipCancelled(w)
    BY <1>5, <2>1 DEF SkipCancelled
  <2>2. CASE BindReturns(w)
    BY <1>5, <2>2 DEF BindReturns
  <2> QED BY <1>6, <2>1, <2>2
<1>7. \/ UNCHANGED <<result, worker, item, binds, answers>>
      \/ \E w \in Workers : WorkerStep(w)
  BY DEF Next, SubmitStep, CollectorStep, CloseStep, Enqueue, Cancel, Register, NotEnqueued,
     AdmissionDone, SubmitReturns, Expire, Tick, Receive, ReceiveTick, SendWork, SeeClosing,
     LastFlush, CloseWork, CloseDone, CloseBegins, CloseSignals, CloseJoins, CloseReturns
<1> QED BY <1>2, <1>3, <1>4, <1>6, <1>7 DEF WorkerStep

-----------------------------------------------------------------------------
\* The shutdown.

LEMMA ShutdownStep == TypeOK /\ Shutdown /\ Timed /\ Next => Shutdown'
<1> SUFFICES ASSUME TypeOK, Shutdown, Timed, Next PROVE Shutdown'
  OBVIOUS
<1> USE DEF submitVars, batchVars, timerVars, workerVars, closeVars
<1>1. ASSUME UNCHANGED <<input, work, batchVars, collector, worker, closeVars>>,
             Admissions' \subseteq Admissions
      PROVE  Shutdown'
  BY <1>1 DEF Shutdown
<1>2. ASSUME NEW r \in Requests, Cancel(r) \/ NotEnqueued(r) \/ AdmissionDone(r) \/ SubmitReturns(r)
      PROVE  Shutdown'
  <2>1. UNCHANGED <<input, work, batchVars, collector, worker, closeVars>>
    BY <1>2 DEF Cancel, NotEnqueued, AdmissionDone, SubmitReturns
  <2>2. \A q \in Requests : call'[q] \in {"admitted", "enqueued"} => call[q] \in {"admitted", "enqueued"}
    BY <1>2 DEF Cancel, NotEnqueued, AdmissionDone, SubmitReturns, TypeOK
  <2> QED BY <1>1, <2>1, <2>2 DEF Admissions
<1>3. ASSUME NEW r \in Requests, Register(r) PROVE Shutdown'
  <2>1. UNCHANGED <<input, work, batchVars, collector, worker, closeVars>>
    BY <1>3 DEF Register
  <2>2. CASE accepting
    <3>1. ~closing /\ ~closing' /\ accepting'
      BY <2>1, <2>2 DEF Shutdown
    <3> QED BY <2>1, <3>1 DEF Shutdown
  <2>3. CASE ~accepting
    <3>1. \A q \in Requests : call'[q] \in {"admitted", "enqueued"} => call[q] \in {"admitted", "enqueued"}
      BY <1>3, <2>3 DEF Register, TypeOK
    <3> QED BY <1>1, <2>1, <3>1 DEF Admissions
  <2> QED BY <2>2, <2>3
<1>4. ASSUME NEW r \in Requests, Enqueue(r) PROVE Shutdown'
  <2>1. ~closing /\ collector = "select"
    BY <1>4 DEF Enqueue, Shutdown, Admissions
  <2>2. UNCHANGED <<work, batchVars, collector, worker, closeVars>>
    BY <1>4 DEF Enqueue
  <2> QED BY <2>1, <2>2 DEF Shutdown
<1>5. CASE Expire \/ Tick
  <2>1. UNCHANGED <<input, work, batchVars, collector, worker, closeVars, call>>
    BY <1>5 DEF Expire, Tick
  <2> QED BY <1>1, <2>1 DEF Admissions
<1>6. CASE Receive \/ ReceiveTick
  <2>1. /\ UNCHANGED <<call, work, collector, worker, closeVars>>
        /\ collector \in {"select", "drain"}
    BY <1>6 DEF Receive, ReceiveTick
  <2> QED BY <2>1 DEF Shutdown, Admissions
<1>7. CASE SendWork
  <2>1. /\ UNCHANGED <<call, input, collector, worker, closeVars>> /\ flushing
        /\ batch \in Seq(Requests) /\ batch # <<>> /\ batch' = Tail(batch)
        /\ flushing' = (Len(batch) > 1)
    BY <1>7 DEF SendWork, TypeOK, Timed
  <2>2. ~flushing' => batch' = <<>>
    <3> SUFFICES ASSUME ~(Len(batch) > 1) PROVE Tail(batch) = <<>>
      BY <2>1
    <3>1. Tail(batch) \in Seq(Requests) /\ Len(Tail(batch)) = Len(batch) - 1 /\ Len(batch) \in Nat
      BY <2>1, HeadTailProperties
    <3> QED BY <3>1, EmptySeq
  <2>3. collector \notin {"closed", "done"}
    BY <2>1 DEF Shutdown
  <2> QED BY <2>1, <2>2, <2>3 DEF Shutdown, Admissions
<1>8. CASE SeeClosing
  <2>1. UNCHANGED <<call, input, work, batchVars, worker, closeVars>> /\ collector' = "drain"
        /\ collector = "select" /\ closing
    BY <1>8 DEF SeeClosing
  <2> QED BY <2>1 DEF Shutdown, Admissions
<1>9. CASE LastFlush
  <2>1. /\ UNCHANGED <<call, input, work, batch, worker, closeVars>> /\ collector' = "exit"
        /\ collector = "drain" /\ input = <<>> /\ flushing' = (batch # <<>>)
    BY <1>9 DEF LastFlush
  <2> QED BY <2>1 DEF Shutdown, Admissions
<1>10. CASE CloseWork \/ CloseDone
  <2>1. /\ UNCHANGED <<call, input, work, batchVars, worker, closeVars>>
        /\ \/ collector = "exit" /\ ~flushing /\ collector' = "closed"
           \/ collector = "closed" /\ collector' = "done" /\ \A w \in Workers : worker[w] = "exited"
    BY <1>10 DEF CloseWork, CloseDone
  <2> QED BY <2>1 DEF Shutdown, Admissions
<1>11. ASSUME NEW w \in Workers, Take(w) PROVE Shutdown'
  <2>1. /\ UNCHANGED <<call, input, batchVars, collector, closeVars>>
        /\ worker[w] = "idle" /\ work # <<>>
        /\ \A v \in Workers : worker'[v] = "exited" => worker[v] = "exited"
    BY <1>11 DEF Take, TypeOK
  <2>2. \A v \in Workers : worker[v] # "exited"
    BY <2>1 DEF Shutdown
  <2>3. collector # "done"
    BY <2>1, <2>2 DEF Shutdown
  <2> QED BY <2>1, <2>2, <2>3 DEF Shutdown, Admissions
<1>12. ASSUME NEW w \in Workers, SkipCancelled(w) \/ CallBind(w) \/ BindReturns(w) PROVE Shutdown'
  <2>1. /\ UNCHANGED <<call, input, work, batchVars, collector, closeVars>>
        /\ worker[w] \in {"checking", "binding"}
        /\ \A v \in Workers : worker'[v] = "exited" <=> worker[v] = "exited"
    BY <1>12 DEF SkipCancelled, CallBind, BindReturns, Publish, TypeOK
  <2> QED BY <2>1 DEF Shutdown, Admissions
<1>13. ASSUME NEW w \in Workers, WorkerExits(w) PROVE Shutdown'
  <2>1. /\ UNCHANGED <<call, input, work, batchVars, collector, closeVars>>
        /\ work = <<>> /\ collector \in {"closed", "done"}
        /\ \A v \in Workers : worker[v] = "exited" => worker'[v] = "exited"
    BY <1>13 DEF WorkerExits, TypeOK
  <2> QED BY <2>1 DEF Shutdown, Admissions
<1>14. ASSUME NEW c \in Closers, CloseBegins(c) \/ CloseStep(c) PROVE Shutdown'
  <2>1. UNCHANGED <<call, input, work, batchVars, collector, worker>>
    BY <1>14 DEF CloseBegins, CloseStep, CloseSignals, CloseJoins, CloseReturns
  <2>2. CASE CloseBegins(c)
    BY <2>1, <2>2 DEF CloseBegins, Shutdown, Admissions
  <2>3. CASE CloseSignals(c)
    <3>1. \A d \in Closers : closer'[d] = "once" => closer[d] = "once"
      BY <2>3 DEF CloseSignals, TypeOK
    <3>2. ~accepting /\ ~accepting' /\ Admissions = {} /\ closing'
      BY <2>3 DEF CloseSignals, Shutdown
    <3> QED BY <2>1, <3>1, <3>2 DEF Shutdown, Admissions
  <2>4. CASE CloseJoins(c) \/ CloseReturns(c)
    <3>1. /\ \A d \in Closers : closer'[d] = "once" => closer[d] = "once"
          /\ UNCHANGED <<accepting, closing>>
      BY <2>4 DEF CloseJoins, CloseReturns, TypeOK
    <3> QED BY <2>1, <3>1 DEF Shutdown, Admissions
  <2> QED BY <1>14, <2>2, <2>3, <2>4 DEF CloseStep
<1> QED
  BY <1>2, <1>3, <1>4, <1>5, <1>6, <1>7, <1>8, <1>9, <1>10, <1>11, <1>12, <1>13, <1>14
  DEF Next, SubmitStep, CollectorStep, WorkerStep

-----------------------------------------------------------------------------
\* The batch and its timer.

LEMMA TimedStep == TypeOK /\ Timed /\ Next => Timed'
<1> SUFFICES ASSUME TypeOK, Timed, Next PROVE Timed'
  OBVIOUS
<1> USE DEF submitVars, batchVars, timerVars, workerVars, closeVars
<1>1. CASE UNCHANGED <<batchVars, timerVars, collector>>
  BY <1>1 DEF Timed
<1>2. CASE Expire \/ Tick
  BY <1>2 DEF Expire, Tick, Timed
<1>3. CASE Receive
  <2> PICK grown : grown = Append(batch, Head(input))
    OBVIOUS
  <2>1. /\ grown # <<>> /\ Len(grown) = Len(batch) + 1 /\ Len(batch) \in Nat
        /\ batch = <<>> <=> Len(batch) = 0
    <3>1. Head(input) \in Requests /\ batch \in Seq(Requests)
      BY <1>3, HeadTailProperties DEF Receive, TypeOK
    <3> QED BY <3>1, AppendProperties, EmptySeq
  <2>2. /\ batch' = grown /\ flushing' = (Len(grown) = MaxBatch)
        /\ Len(batch) < MaxBatch /\ ~flushing /\ UNCHANGED collector
        /\ timerC <=> batch # <<>>
        /\ timerC => timerOn \/ tickSent \/ tick
        /\ collector \in {"select", "drain"}
    BY <1>3 DEF Receive, Add, Timed
  <2>3. CASE Len(grown) = MaxBatch
    <3>1. ~timerC'
      BY <1>3, <2>3 DEF Receive, Add, StopTimer
    <3> QED BY <2>1, <2>2, <2>3, <3>1 DEF Timed
  <2>4. CASE Len(grown) # MaxBatch
    <3>a. ~flushing'
      BY <2>2, <2>4
    <3>b. Len(grown) < MaxBatch
      BY <2>1, <2>2, <2>4, BatcherAssumption
    <3>1. ~flushing' /\ Len(grown) < MaxBatch
      BY <3>a, <3>b
    <3>2. CASE Len(grown) = 1
      <4>1. timerC' /\ timerOn'
        BY <1>3, <2>4, <3>2 DEF Receive, Add, StartTimer
      <4> QED BY <2>1, <2>2, <3>1, <4>1 DEF Timed
    <3>3. CASE Len(grown) # 1
      <4>1. UNCHANGED timerVars
        BY <1>3, <2>4, <3>3 DEF Receive, Add
      <4>2. batch # <<>>
        BY <2>1, <3>3
      <4> QED BY <2>1, <2>2, <3>1, <4>1, <4>2 DEF Timed
    <3> QED BY <3>2, <3>3
  <2> QED BY <2>3, <2>4
<1>4. CASE ReceiveTick
  BY <1>4 DEF ReceiveTick, Timed
<1>5. CASE SendWork
  <2>1. /\ batch \in Seq(Requests) /\ batch # <<>> /\ batch' = Tail(batch) /\ flushing
        /\ flushing' = (Len(batch) > 1) /\ UNCHANGED <<timerVars, collector>> /\ ~timerC
    BY <1>5 DEF SendWork, TypeOK, Timed
  <2>2. /\ Tail(batch) \in Seq(Requests) /\ Len(Tail(batch)) = Len(batch) - 1
        /\ Len(batch) \in Nat \ {0}
    BY <2>1, HeadTailProperties, EmptySeq
  <2>3. Tail(batch) = <<>> <=> ~(Len(batch) > 1)
    <3>1. Tail(batch) = <<>> <=> Len(Tail(batch)) = 0
      BY <2>2, EmptySeq
    <3> QED BY <2>2, <3>1
  <2>4. ~(Len(batch) > 1) => Len(Tail(batch)) < MaxBatch
    BY <2>2, BatcherAssumption
  <2> QED BY <2>1, <2>3, <2>4 DEF Timed
<1>6. CASE LastFlush
  BY <1>6 DEF LastFlush, StopTimer, Timed
<1>7. CASE SeeClosing \/ CloseWork \/ CloseDone
  BY <1>7 DEF SeeClosing, CloseWork, CloseDone, Timed
<1>8. \/ UNCHANGED <<batchVars, timerVars, collector>>
      \/ Expire \/ Tick \/ CollectorStep
  BY DEF Next, SubmitStep, WorkerStep, CloseStep, Enqueue, Cancel, Register, NotEnqueued,
     AdmissionDone, SubmitReturns, Take, SkipCancelled, CallBind, BindReturns, WorkerExits,
     CloseBegins, CloseSignals, CloseJoins, CloseReturns
<1> QED BY <1>1, <1>2, <1>3, <1>4, <1>5, <1>6, <1>7, <1>8 DEF CollectorStep

-----------------------------------------------------------------------------
\* The invariant of every reachable state.

THEOREM Invariance == Spec => []IInv
<1>1. Init => IInv
  BY InitInv
<1>2. IInv /\ [Next]_vars => IInv'
  <2> SUFFICES ASSUME IInv, [Next]_vars PROVE IInv'
    OBVIOUS
  <2>1. CASE Next
    BY <2>1, TypeStep, PipelineStep, EnqueuedOnceStep, HolderStep, CountedStep,
       ShutdownStep, TimedStep
    DEF IInv
  <2>2. CASE UNCHANGED vars
    BY <2>2, Stutter
  <2> QED BY <2>1, <2>2
<1> QED BY <1>1, <1>2, PTL DEF Spec

\* The batcher's variables keep their types: no channel exceeds its capacity and no
\* batch exceeds maxBatch.
THEOREM TypeCorrect == Spec => []TypeOK
<1>1. IInv => TypeOK
  BY DEF IInv
<1> QED BY <1>1, Invariance, PTL

\* Nothing accepted is lost, repeated or reordered between Submit and the workers.
THEOREM NothingLost == Spec => []Pipeline
<1>1. IInv => Pipeline
  BY DEF IInv
<1> QED BY <1>1, Invariance, PTL

\* A batch that waits for more requests has a timer that will end the wait, and a flush
\* that waits for room in work has workers that make it.
THEOREM BatchMoves == Spec => []BatchMovesOn
<1>1. IInv /\ flushing => \A w \in Workers : worker[w] # "exited"
  BY DEF IInv, Shutdown
<1>2. IInv => BatchMovesOn
  BY <1>1 DEF IInv, Timed, BatchMovesOn
<1> QED BY <1>2, Invariance, PTL

-----------------------------------------------------------------------------
\* The batcher implements BindService.  Enqueue, Cancel, CallBind, a worker's answer
\* and CloseDone are steps of the service; every other action is a stutter.

LEMMA EmptyIn ==
  ASSUME Pipeline, TypeOK, work = <<>>, batch = <<>>, input = <<>>
  PROVE  enqueued = taken
<1>1. taken \in Seq(Requests)
  BY DEF TypeOK
<1>2. taken \o <<>> \o <<>> \o <<>> = taken
  BY <1>1, ConcatEmptySeq
<1> QED BY <1>2 DEF Pipeline

\* What the mapped variables are.
Cancelled == {r \in Requests : ctxDone[r]}
Accepted == Requested(enqueued)
Drained == collector = "done"

LEMMA ServiceStep == IInv /\ Next => Service!ServiceNext \/ UNCHANGED Service!serviceVars
<1> SUFFICES ASSUME IInv, Next PROVE Service!ServiceNext \/ UNCHANGED Service!serviceVars
  OBVIOUS
<1> USE DEF submitVars, batchVars, timerVars, workerVars, closeVars, IInv
<1> DEFINE Goal == Service!ServiceNext \/ UNCHANGED Service!serviceVars
<1>a. /\ Requested(taken) \subseteq Accepted
      /\ Accepted \subseteq Requests
  <2>1. Requested(taken) \subseteq Requested(enqueued)
    BY NextIsNew
  <2>2. enqueued \in Seq(Requests)
    BY DEF TypeOK
  <2>3. Requested(enqueued) \subseteq Requests
    BY <2>2 DEF Requested
  <2> QED BY <2>1, <2>3 DEF Accepted
<1>1. ASSUME UNCHANGED <<enqueued, ctxDone, binds, answers, result>>, UNCHANGED Drained
      PROVE  Goal
  BY <1>1 DEF Service!serviceVars, Drained, Requested
<1>2. ASSUME NEW r \in Requests, Enqueue(r) PROVE Goal
  <2>1. /\ r \notin Accepted /\ Accepted' = Accepted \cup {r}
        /\ ~Drained /\ ~Drained'
    <3>1. enqueued \in Seq(Requests) /\ enqueued' = Append(enqueued, r) /\ r \notin Requested(enqueued)
      BY <1>2 DEF Enqueue, TypeOK, EnqueuedOnce
    <3>2. Requested(enqueued') = Requested(enqueued) \cup {r}
      BY <3>1, RequestedAppend
    <3>3. collector # "done" /\ collector' # "done"
      BY <1>2 DEF Enqueue, Shutdown, Admissions
    <3> QED BY <3>1, <3>2, <3>3 DEF Accepted, Requested, Drained
  <2>2. UNCHANGED <<Cancelled, binds, answers, result>>
    BY <1>2 DEF Enqueue, Cancelled
  <2>3. Service!Accept(r)
    BY <2>1, <2>2 DEF Service!Accept, Accepted, Cancelled, Drained
  <2> QED BY <2>3 DEF Service!ServiceNext
<1>3. ASSUME NEW r \in Requests, Cancel(r) PROVE Goal
  <2>1. Cancelled' = Cancelled \cup {r}
    BY <1>3 DEF Cancel, Cancelled, TypeOK
  <2>2. UNCHANGED <<Accepted, binds, answers, result, Drained>>
    BY <1>3 DEF Cancel, Accepted, Requested, Drained
  <2>3. Service!CancelRequest(r)
    BY <2>1, <2>2 DEF Service!CancelRequest, Accepted, Cancelled, Drained
  <2> QED BY <2>3 DEF Service!ServiceNext
<1>4. ASSUME NEW w \in Workers, CallBind(w) PROVE Goal
  <2> PICK r : r = item[w]
    OBVIOUS
  <2>1. /\ r \in Requests /\ r \in Accepted /\ result[r] = "none" /\ Holds(w, r)
        /\ worker[w] = "checking"
    BY <1>4, <1>a DEF CallBind, OneHolder, Holds
  <2>2. ~BindCalled(r)
    BY <2>1 DEF BindCalled, OneHolder, Holds
  <2>3. binds[r] = 0 /\ answers[r] = 0
    BY <2>1, <2>2 DEF Counted
  <2>4. binds' = [binds EXCEPT ![r] = 1]
    BY <1>4, <2>1, <2>3 DEF CallBind, TypeOK
  <2>5. UNCHANGED <<Accepted, Cancelled, answers, result, Drained>>
    BY <1>4 DEF CallBind, Accepted, Requested, Cancelled, Drained
  <2>6. Service!CallBind(r)
    BY <2>1, <2>3, <2>4, <2>5 DEF Service!CallBind, Accepted, Cancelled, Drained
  <2> QED BY <2>1, <2>6 DEF Service!ServiceNext
<1>5. ASSUME NEW w \in Workers, NEW answer \in {"bound", "failed", "cancelled"},
             Publish(w, answer), worker[w] \in {"checking", "binding"},
             answer = "cancelled" => worker[w] = "checking" /\ ctxDone[item[w]],
             answer # "cancelled" => worker[w] = "binding",
             UNCHANGED <<enqueued, ctxDone, collector, binds>>
      PROVE  Goal
  <2> PICK r : r = item[w]
    OBVIOUS
  <2>1. r \in Requests /\ r \in Accepted /\ result[r] = "none" /\ Holds(w, r)
    BY <1>5, <1>a DEF OneHolder, Holds
  <2>2. BindCalled(r) <=> worker[w] = "binding"
    <3>1. \A v \in Workers \ {w} : item[v] = r => worker[v] # "binding"
      BY <2>1 DEF OneHolder, Holds
    <3> QED BY <2>1, <3>1 DEF BindCalled, Holds
  <2>3. answers[r] = 0 /\ binds[r] = IF worker[w] = "binding" THEN 1 ELSE 0
    BY <2>1, <2>2 DEF Counted
  <2>4. /\ answers' = [answers EXCEPT ![r] = 1]
        /\ result' = [result EXCEPT ![r] = answer]
    BY <1>5, <2>1, <2>3 DEF Publish, TypeOK
  <2>5. IF answer = "cancelled" THEN r \in Cancelled /\ binds[r] = 0 ELSE binds[r] = 1
    BY <1>5, <2>1, <2>3 DEF Cancelled
  <2>6. UNCHANGED <<Accepted, Cancelled, binds, Drained>>
    BY <1>5 DEF Accepted, Requested, Cancelled, Drained
  <2>7. Service!Answer(r, answer)
    BY <2>1, <2>3, <2>4, <2>5, <2>6 DEF Service!Answer, Accepted, Cancelled, Drained
  <2> QED BY <2>1, <2>7 DEF Service!ServiceNext
<1>6. ASSUME NEW w \in Workers, SkipCancelled(w) PROVE Goal
  BY <1>5, <1>6 DEF SkipCancelled
<1>7. ASSUME NEW w \in Workers, BindReturns(w) PROVE Goal
  <2>1. PICK answer \in {"bound", "failed"} : Publish(w, answer)
    BY <1>7 DEF BindReturns
  <2>2. worker[w] = "binding" /\ UNCHANGED <<enqueued, ctxDone, collector, binds>>
    BY <1>7 DEF BindReturns
  <2> QED BY <1>5, <2>1, <2>2
<1>8. ASSUME CloseDone PROVE Goal
  <2>1. /\ collector = "closed" /\ collector' = "done"
        /\ \A w \in Workers : worker[w] = "exited"
        /\ UNCHANGED <<enqueued, ctxDone, result, binds, answers>>
    BY <1>8 DEF CloseDone
  <2>2. work = <<>> /\ batch = <<>> /\ input = <<>>
    BY <2>1, BatcherAssumption DEF Shutdown
  <2>3. Accepted = Requested(taken)
    BY <2>2, EmptyIn DEF Accepted
  <2>4. \A r \in Accepted : answers[r] = 1
    BY <2>1, <2>3, <1>a DEF OneHolder, Holds, Counted
  <2>5. Drained' /\ UNCHANGED <<Accepted, Cancelled, binds, answers, result>>
    BY <2>1 DEF Drained, Accepted, Requested, Cancelled
  <2>6. Service!Drain
    BY <2>4, <2>5 DEF Service!Drain, Accepted, Cancelled, Drained
  <2> QED BY <2>6 DEF Service!ServiceNext
<1>9. ASSUME NEW w \in Workers, Take(w) \/ WorkerExits(w) PROVE Goal
  BY <1>1, <1>9 DEF Take, WorkerExits, Drained
<1>10. ASSUME NEW r \in Requests,
              Register(r) \/ NotEnqueued(r) \/ AdmissionDone(r) \/ SubmitReturns(r)
       PROVE  Goal
  BY <1>1, <1>10 DEF Register, NotEnqueued, AdmissionDone, SubmitReturns, Drained
<1>11. ASSUME Expire \/ Tick \/ Receive \/ ReceiveTick \/ SendWork \/ SeeClosing \/ LastFlush
              \/ CloseWork
       PROVE  Goal
  <2>1. UNCHANGED <<enqueued, ctxDone, binds, answers, result>>
    BY <1>11 DEF Expire, Tick, Receive, ReceiveTick, SendWork, SeeClosing, LastFlush, CloseWork
  <2>2. UNCHANGED Drained
    BY <1>11 DEF Expire, Tick, Receive, ReceiveTick, SendWork, SeeClosing, LastFlush,
       CloseWork, Drained
  <2> QED BY <1>1, <2>1, <2>2
<1>12. ASSUME NEW c \in Closers, CloseBegins(c) \/ CloseStep(c) PROVE Goal
  BY <1>1, <1>12
  DEF CloseBegins, CloseStep, CloseSignals, CloseJoins, CloseReturns, Drained
<1> HIDE DEF Goal
<1>13. Goal
  <2>1. CASE \E r \in Requests : Cancel(r) \/ Register(r) \/ SubmitStep(r)
    BY <2>1, <1>2, <1>3, <1>10 DEF SubmitStep
  <2>2. CASE Expire \/ Tick \/ CollectorStep
    BY <2>2, <1>8, <1>11 DEF CollectorStep
  <2>3. CASE \E w \in Workers : WorkerStep(w)
    BY <2>3, <1>4, <1>6, <1>7, <1>9 DEF WorkerStep
  <2>4. CASE \E c \in Closers : CloseBegins(c) \/ CloseStep(c)
    BY <2>4, <1>12
  <2> QED BY <2>1, <2>2, <2>3, <2>4 DEF Next
<1> QED BY <1>13 DEF Goal

\* The batcher implements BindService, which counts: bind is called at most once for a
\* request, and only for an accepted one without an answer; a request gets at most one
\* answer, "bound" or "failed" after its bind call, "cancelled" only without one and when
\* its context is done; and when Close can return every accepted request has its one
\* answer and no request is accepted any more.
THEOREM BatcherImplementsService == Spec => ImplementsService
<1>1. Init => Service!ServiceInit
  BY DEF Init, Service!ServiceInit, Requested
<1>2. IInv /\ [Next]_vars => [Service!ServiceNext]_(Service!serviceVars)
  <2> SUFFICES ASSUME IInv, [Next]_vars
               PROVE  [Service!ServiceNext]_(Service!serviceVars)
    OBVIOUS
  <2>1. CASE Next
    BY <2>1, ServiceStep
  <2>2. CASE UNCHANGED vars
    BY <2>2 DEF vars, Service!serviceVars, Requested
  <2> QED BY <2>1, <2>2
<1> QED BY <1>1, <1>2, Invariance, PTL DEF Spec, ImplementsService, Service!ServiceSpec
=============================================================================
