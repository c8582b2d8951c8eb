---------------------------- MODULE TokenBucket ----------------------------
(***************************************************************************)
(* The load generator's rate limiter (pkg/loadgen/token_bucket.go), shared *)
(* by all workers under its mutex: a submission takes one token, tokens    *)
(* come back at a fixed rate up to the bucket's capacity.                  *)
(*                                                                         *)
(* The code's float64 tokens are exact here, in units of which Token make  *)
(* one token and Rate arrive per tick of the clock.                        *)
(***************************************************************************)
EXTENDS Integers

CONSTANTS
  Token,      \* units of one token
  Rate,       \* units that arrive per tick (MaxQPS)
  Burst,      \* tokens of a full bucket
  MaxTime     \* bound on the clock

ASSUME BucketAssumption ==
  /\ Token \in Nat \ {0} /\ Rate \in Nat \ {0} /\ Burst \in Nat \ {0}
  /\ MaxTime \in Nat

VARIABLES
  now,        \* the clock
  tokens, last,
  granted,    \* auxiliary: tokens granted
  before      \* auxiliary: of these, how many before each tick

bucketVars == <<tokens, last, granted, before>>

Capacity == Burst * Token

BucketInit ==
  /\ now = 0 /\ tokens = Capacity /\ last = 0
  /\ granted = 0 /\ before = [t \in 0 .. MaxTime |-> 0]

\* refill: never more than the capacity.  The clock is read under the lock.
Refilled ==
  LET grown == tokens + (now - last) * Rate
  IN  IF grown > Capacity THEN Capacity ELSE grown

\* Mutant: the refilled time is not remembered.
TakeTokenKeepsLast ==
  /\ Refilled >= Token
  /\ tokens' = Refilled - Token
  /\ granted' = granted + 1
  /\ UNCHANGED <<now, last, before>>

\* One pass of Wait's loop: a token is taken ...
TakeToken ==
  /\ Refilled >= Token
  /\ tokens' = Refilled - Token /\ last' = now
  /\ granted' = granted + 1
  /\ UNCHANGED <<now, before>>

\* ... or one is missing, and the caller sleeps until it will be there.
MissToken ==
  /\ Refilled < Token
  /\ tokens' = Refilled /\ last' = now
  /\ UNCHANGED <<now, granted, before>>

\* When the missing part of a token will have arrived, rounded up.
MissingUntil == now + ((Token - Refilled) + (Rate - 1)) \div Rate

\* External: time passes.
Tick ==
  /\ now < MaxTime
  /\ now' = now + 1
  /\ before' = [before EXCEPT ![now + 1] = granted]
  /\ UNCHANGED <<tokens, last, granted>>

BucketNext == TakeToken \/ MissToken \/ Tick

BucketSpec == BucketInit /\ [][BucketNext]_<<now, bucketVars>>

-----------------------------------------------------------------------------
BucketTypeOK ==
  /\ now \in 0 .. MaxTime /\ last \in 0 .. now
  /\ tokens \in 0 .. Capacity
  /\ granted \in Nat /\ before \in [0 .. MaxTime -> Nat]

\* No window of time sees more grants than a full bucket plus what its rate lets in,
\* however many workers wait for tokens and in whatever order they wake.
RateBound ==
  \A t \in 0 .. now : (granted - before[t]) * Token <= Capacity + Rate * (now - t)
=============================================================================
