------------------------- MODULE TokenBucket_proofs -------------------------
(***************************************************************************)
(* The token bucket keeps its rate for every rate, burst and number of     *)
(* callers.  RateBound alone is not inductive: a step must know how many   *)
(* of the granted tokens the bucket may still hold.                        *)
(***************************************************************************)
EXTENDS TokenBucket, TLAPS

\* The grants since a tick and the tokens left are within the bound of the tick up to
\* the last refill; a tick after that refill has seen no grant.
Credit ==
  \A t \in 0 .. now :
    /\ t <= last => (granted - before[t]) * Token + tokens <= Capacity + Rate * (last - t)
    /\ t > last => before[t] = granted

BucketInv == BucketTypeOK /\ Credit

LEMMA CapacityNat == Capacity \in Nat
BY BucketAssumption DEF Capacity

\* A refill adds at most what the rate lets in and never exceeds the capacity.
LEMMA RefilledBounds ==
  ASSUME BucketTypeOK
  PROVE  /\ Refilled \in 0 .. Capacity
         /\ Refilled <= tokens + (now - last) * Rate
<1> DEFINE elapsed == now - last
<1>1. elapsed \in Nat BY BucketAssumption DEF BucketTypeOK
<1>2. elapsed * Rate \in Nat BY <1>1, BucketAssumption
<1>3. tokens \in Nat /\ tokens <= Capacity BY CapacityNat DEF BucketTypeOK
<1> QED BY <1>2, <1>3, CapacityNat DEF Refilled

LEMMA InitInv == BucketInit => BucketInv
<1> SUFFICES ASSUME BucketInit PROVE BucketInv OBVIOUS
<1>1. BucketTypeOK BY BucketAssumption, CapacityNat DEF BucketInit, BucketTypeOK
<1>2. Credit
  <2> SUFFICES ASSUME NEW t \in 0 .. now
               PROVE  t = 0 /\ before[t] = 0 /\ (0 - 0) * Token + Capacity <= Capacity + Rate * (0 - 0)
    BY DEF BucketInit, Credit
  <2> QED BY BucketAssumption, CapacityNat DEF BucketInit
<1> QED BY <1>1, <1>2 DEF BucketInv

\* What a refill does to the credit of a tick, before any token is taken.
LEMMA RefilledCredit ==
  ASSUME BucketInv, NEW t \in 0 .. now
  PROVE  (granted - before[t]) * Token + Refilled <= Capacity + Rate * (now - t)
<1> USE BucketAssumption, CapacityNat
<1>ty. BucketTypeOK /\ Credit BY DEF BucketInv
<1>rf. Refilled \in 0 .. Capacity /\ Refilled <= tokens + (now - last) * Rate BY <1>ty, RefilledBounds
<1>nt. now \in Nat /\ last \in Nat /\ last <= now /\ tokens \in Nat /\ t \in Nat /\ t <= now
  BY <1>ty DEF BucketTypeOK
<1>1. CASE t <= last
  <2> DEFINE used == (granted - before[t]) * Token
  <2>1. used \in Int BY <1>ty DEF BucketTypeOK
  <2>2. used + tokens <= Capacity + Rate * (last - t) BY <1>1, <1>ty DEF Credit
  <2>3. Rate * (last - t) + (now - last) * Rate = Rate * (now - t) BY <1>nt
  <2>4. Rate * (last - t) \in Int /\ (now - last) * Rate \in Int /\ Rate * (now - t) \in Int BY <1>nt
  <2> HIDE DEF used
  <2> QED BY <2>1, <2>2, <2>3, <2>4, <1>rf, <1>nt DEF used
<1>2. CASE t > last
  <2>1. before[t] = granted /\ granted \in Nat BY <1>2, <1>ty DEF Credit, BucketTypeOK
  <2> DEFINE allowed == Rate * (now - t)
  <2>2. allowed \in Nat BY <1>nt
  <2>3. (granted - before[t]) * Token = 0 BY <2>1
  <2>4. Refilled <= Capacity + allowed
    <3> HIDE DEF allowed
    <3> QED BY <2>2, <1>rf
  <2>5. 0 + Refilled = Refilled BY <1>rf
  <2> QED BY <2>3, <2>4, <2>5
<1> QED BY <1>1, <1>2, <1>nt

LEMMA TakeKeeps == BucketInv /\ TakeToken => BucketInv'
<1> SUFFICES ASSUME BucketInv, TakeToken PROVE BucketInv' OBVIOUS
<1> USE BucketAssumption, CapacityNat
<1>ty. BucketTypeOK BY DEF BucketInv
<1>rf. Refilled \in 0 .. Capacity BY <1>ty, RefilledBounds
<1>cp. Capacity' = Capacity BY DEF Capacity
<1>1. BucketTypeOK' BY <1>ty, <1>rf, <1>cp DEF BucketTypeOK, TakeToken
<1>2. Credit'
  <2>0. /\ now' = now /\ last' = now /\ tokens' = Refilled - Token
        /\ granted' = granted + 1 /\ before' = before
    BY DEF TakeToken
  <2> SUFFICES ASSUME NEW t \in 0 .. now
               PROVE  (granted' - before[t]) * Token + tokens' <= Capacity + Rate * (now - t)
    <3>1. \A t \in 0 .. now : ~(t > now) BY <1>ty DEF BucketTypeOK
    <3> QED BY <3>1, <2>0, <1>cp DEF Credit
  <2> DEFINE used == granted - before[t]
             allowed == Rate * (now - t)
  <2>1. used \in Int /\ allowed \in Int BY <1>ty DEF BucketTypeOK
  <2>2. granted' - before[t] = used + 1 BY <2>0, <1>ty DEF BucketTypeOK
  <2>3. used * Token + Refilled <= Capacity + allowed BY RefilledCredit
  <2> HIDE DEF used, allowed
  <2>4. (used + 1) * Token = used * Token + Token /\ used * Token \in Int BY <2>1
  <2>5. used * Token + Token + (Refilled - Token) <= Capacity + allowed
    BY <2>1, <2>3, <2>4, <1>rf
  <2> QED BY <2>0, <2>2, <2>4, <2>5 DEF allowed
<1> QED BY <1>1, <1>2 DEF BucketInv

LEMMA MissKeeps == BucketInv /\ MissToken => BucketInv'
<1> SUFFICES ASSUME BucketInv, MissToken PROVE BucketInv' OBVIOUS
<1> USE BucketAssumption, CapacityNat
<1>ty. BucketTypeOK BY DEF BucketInv
<1>rf. Refilled \in 0 .. Capacity BY <1>ty, RefilledBounds
<1>cp. Capacity' = Capacity BY DEF Capacity
<1>1. BucketTypeOK' BY <1>ty, <1>rf, <1>cp DEF BucketTypeOK, MissToken
<1>2. Credit'
  <2>0. /\ now' = now /\ last' = now /\ tokens' = Refilled
        /\ granted' = granted /\ before' = before
    BY DEF MissToken
  <2> SUFFICES ASSUME NEW t \in 0 .. now
               PROVE  (granted' - before[t]) * Token + tokens' <= Capacity + Rate * (now - t)
    <3>1. \A t \in 0 .. now : ~(t > now) BY <1>ty DEF BucketTypeOK
    <3> QED BY <3>1, <2>0, <1>cp DEF Credit
  <2> QED BY <2>0, RefilledCredit
<1> QED BY <1>1, <1>2 DEF BucketInv

LEMMA TickKeeps == BucketInv /\ Tick => BucketInv'
<1> SUFFICES ASSUME BucketInv, Tick PROVE BucketInv' OBVIOUS
<1> USE BucketAssumption, CapacityNat
<1>ty. BucketTypeOK /\ Credit BY DEF BucketInv
<1>cp. Capacity' = Capacity BY DEF Capacity
<1>1. BucketTypeOK' BY <1>ty, <1>cp DEF BucketTypeOK, Tick
<1>2. Credit'
  <2> SUFFICES ASSUME NEW t \in 0 .. now + 1
               PROVE  /\ t <= last => (granted - before'[t]) * Token + tokens
                                        <= Capacity + Rate * (last - t)
                      /\ t > last => before'[t] = granted
    BY <1>ty DEF Tick, Credit, Capacity
  <2>1. CASE t = now + 1 BY <2>1, <1>ty DEF Tick, BucketTypeOK
  <2>2. CASE t \in 0 .. now
    <3>1. before'[t] = before[t] BY <2>2, <1>ty DEF Tick, BucketTypeOK
    <3> QED BY <3>1, <2>2, <1>ty DEF Credit
  <2> QED BY <2>1, <2>2, <1>ty DEF BucketTypeOK
<1> QED BY <1>1, <1>2 DEF BucketInv

LEMMA StepInv == BucketInv /\ [BucketNext]_<<now, bucketVars>> => BucketInv'
<1> SUFFICES ASSUME BucketInv, [BucketNext]_<<now, bucketVars>> PROVE BucketInv' OBVIOUS
<1>1. CASE TakeToken BY <1>1, TakeKeeps
<1>2. CASE MissToken BY <1>2, MissKeeps
<1>3. CASE Tick BY <1>3, TickKeeps
<1>4. CASE UNCHANGED <<now, bucketVars>>
  BY <1>4 DEF bucketVars, BucketInv, BucketTypeOK, Credit, Capacity
<1> QED BY <1>1, <1>2, <1>3, <1>4 DEF BucketNext

LEMMA InvBounds == BucketInv => RateBound
<1> SUFFICES ASSUME BucketInv, NEW t \in 0 .. now
             PROVE  (granted - before[t]) * Token <= Capacity + Rate * (now - t)
  BY DEF RateBound
<1>1. BucketTypeOK BY DEF BucketInv
<1>2. Refilled \in Nat BY <1>1, RefilledBounds, CapacityNat
<1>3. (granted - before[t]) * Token \in Int /\ Rate * (now - t) \in Int
  BY <1>1, BucketAssumption DEF BucketTypeOK
<1> QED BY <1>2, <1>3, CapacityNat, RefilledCredit

THEOREM BucketInvariance == BucketSpec => []BucketInv
BY InitInv, StepInv, PTL DEF BucketSpec

\* However many callers share the bucket and whatever its rate and burst, no window of
\* time sees more grants than token_bucket.go allows.
THEOREM BucketKeepsRate == BucketSpec => []RateBound
BY BucketInvariance, InvBounds, PTL
=============================================================================
