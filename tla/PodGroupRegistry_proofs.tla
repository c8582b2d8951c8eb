---------------------- MODULE PodGroupRegistry_proofs ----------------------
(***************************************************************************)
(* Proofs about the registry for any number of pods, groups, domains and   *)
(* attempts.  The inductive invariant is RegistryInv: the types, the       *)
(* per-domain counts, the agreement of state and count, and the attempt    *)
(* numbers.                                                                *)
(***************************************************************************)
EXTENDS PodGroupRegistry, FiniteSetTheorems, TLAPS

-----------------------------------------------------------------------------
\* One more, or one less, element of a finite set of pods.

LEMMA SubsetsAreFinite ==
  ASSUME NEW S \in SUBSET Pods
  PROVE  IsFiniteSet(S) /\ Cardinality(S) \in Nat
  BY RegistryAssumption, FS_Subset, FS_CardinalityType

LEMMA AddPod ==
  ASSUME NEW S \in SUBSET Pods, NEW p \in Pods, p \notin S
  PROVE  Cardinality(S \cup {p}) = Cardinality(S) + 1
  BY SubsetsAreFinite, FS_AddElement

LEMMA RemovePod ==
  ASSUME NEW S \in SUBSET Pods, NEW p \in S
  PROVE  Cardinality(S \ {p}) = Cardinality(S) - 1 /\ Cardinality(S) >= 1
<1>1. IsFiniteSet(S) /\ IsFiniteSet(S \ {p}) /\ Cardinality(S \ {p}) \in Nat
  BY SubsetsAreFinite
<1>2. Cardinality(S \ {p}) = Cardinality(S) - 1
  BY <1>1, FS_RemoveElement
<1> QED
  BY <1>1, <1>2, SubsetsAreFinite

LEMMA EmptySet ==
  ASSUME NEW S \in SUBSET Pods
  PROVE  Cardinality(S) = 0 <=> S = {}
  BY SubsetsAreFinite, FS_EmptySet

-----------------------------------------------------------------------------
\* What must hold of one PodGroupInfo, whatever group it belongs to.

PlacedOK(info) ==
  \A d \in Domains : info.placed[d] = Cardinality(InDomain(info, d))

StateOK(info) ==
  /\ info.state = "ready" <=> Assigned(info) >= info.min
  /\ info.state = "pending" => Assigned(info) = 0

InfoOK(info) == info \in GroupInfo /\ PlacedOK(info) /\ StateOK(info)

LEMMA NewGroupOK ==
  ASSUME NEW m \in MinMembers, NEW a \in 1 .. MaxAttempts
  PROVE  InfoOK(NewGroup(m, a))
<1> DEFINE info == NewGroup(m, a)
<1>1. info \in GroupInfo
  BY DEF NewGroup, GroupInfo, GroupState
<1>2. Reserved(info) = {}
  BY DEF NewGroup, Reserved
<1>3. Assigned(info) = 0 /\ \A d \in Domains : Cardinality(InDomain(info, d)) = 0
  BY <1>2, EmptySet, FS_EmptySet DEF Assigned, InDomain
<1>4. m \in Nat /\ m >= 1
  BY RegistryAssumption
<1>5. PlacedOK(info)
  BY <1>3 DEF PlacedOK, NewGroup
<1>6. StateOK(info)
  BY <1>3, <1>4 DEF StateOK, NewGroup
<1> QED
  BY <1>1, <1>5, <1>6 DEF InfoOK

LEMMA AssignedType ==
  ASSUME NEW info
  PROVE  Reserved(info) \in SUBSET Pods /\ Assigned(info) \in Nat
<1>1. Reserved(info) \in SUBSET Pods
  BY DEF Reserved
<1> QED
  BY <1>1, SubsetsAreFinite DEF Assigned

LEMMA UpdateType ==
  ASSUME NEW info \in GroupInfo,
         NEW res \in [Pods -> Reservation \cup {NoReservation}],
         NEW placed \in [Domains -> Nat],
         NEW state \in GroupState
  PROVE  [info EXCEPT !.reservations = res, !.placed = placed, !.state = state]
           \in GroupInfo
  BY DEF GroupInfo

\* Assign of a new reservation keeps the counts and the state in agreement.
LEMMA WithReservationOK ==
  ASSUME NEW info, InfoOK(info), NEW p \in Pods, NEW r \in Reservation,
         info.state # "rejected", info.reservations[p] = NoReservation
  PROVE  LET new == WithReservation(info, p, r)
         IN  InfoOK(new) /\ Reserved(new) = Reserved(info) \cup {p}
<1> DEFINE new == WithReservation(info, p, r)
           res == [info.reservations EXCEPT ![p] = r]
<1>1. info \in GroupInfo /\ PlacedOK(info) /\ StateOK(info)
  BY DEF InfoOK
<1>2. r # NoReservation /\ NoDomain \notin Domains
  BY RegistryAssumption
<1>3. /\ new.reservations = res /\ new.min = info.min
      /\ new.placed = [d \in Domains |-> IF d = r.domain THEN info.placed[d] + 1
                                         ELSE info.placed[d]]
      /\ new.state = IF Cardinality({q \in Pods : res[q] # NoReservation}) >= info.min
                     THEN "ready" ELSE "collecting"
  BY <1>1 DEF WithReservation, GroupInfo
<1>4. Reserved(new) = {q \in Pods : res[q] # NoReservation}
  BY <1>3 DEF Reserved
<1>5. Reserved(new) = Reserved(info) \cup {p} /\ p \notin Reserved(info)
  BY <1>1, <1>2, <1>4 DEF GroupInfo, Reserved
<1>6. \A d \in Domains : info.placed[d] \in Nat
  BY <1>1 DEF GroupInfo
<1>7. new \in GroupInfo
  <2>1. res \in [Pods -> Reservation \cup {NoReservation}]
    BY <1>1 DEF GroupInfo
  <2>2. [d \in Domains |-> IF d = r.domain THEN info.placed[d] + 1 ELSE info.placed[d]]
          \in [Domains -> Nat]
    BY <1>6
  <2>3. (IF Cardinality({q \in Pods : res[q] # NoReservation}) >= info.min
         THEN "ready" ELSE "collecting") \in GroupState
    BY DEF GroupState
  <2> QED
    BY <1>1, <2>1, <2>2, <2>3, UpdateType DEF WithReservation
<1>8. \A d \in Domains :
        InDomain(new, d) = IF d = r.domain THEN InDomain(info, d) \cup {p}
                           ELSE InDomain(info, d)
  BY <1>1, <1>2, <1>3, <1>5 DEF InDomain, GroupInfo, Reserved
<1>9. \A d \in Domains : InDomain(info, d) \in SUBSET Pods /\ p \notin InDomain(info, d)
  BY <1>5 DEF InDomain, Reserved
<1>10. PlacedOK(new)
  BY <1>1, <1>3, <1>8, <1>9, AddPod DEF PlacedOK
<1>11. StateOK(new)
  <2>1. Assigned(new) \in Nat /\ info.min \in Nat
    BY <1>1, AssignedType, RegistryAssumption DEF GroupInfo
  <2>2. new.state = IF Assigned(new) >= new.min THEN "ready" ELSE "collecting"
    BY <1>3, <1>4 DEF Assigned
  <2> QED
    BY <2>1, <2>2, <1>3 DEF StateOK
<1> QED
  BY <1>5, <1>7, <1>10, <1>11 DEF InfoOK

\* Release of a reservation that is not the last one keeps them in agreement.
LEMMA WithoutReservationOK ==
  ASSUME NEW info, InfoOK(info), NEW p \in Pods,
         info.reservations[p] # NoReservation,
         NEW new, new = WithoutReservation(info, p), new # NoGroup
  PROVE  /\ InfoOK(new)
         /\ Reserved(new) = Reserved(info) \ {p}
         /\ new.attempt = info.attempt /\ new.min = info.min
         /\ info.state = "rejected" => new.state = "rejected"
<1> DEFINE res == [info.reservations EXCEPT ![p] = NoReservation]
           left == Cardinality({q \in Pods : res[q] # NoReservation})
           d0 == info.reservations[p].domain
           drop(count) == IF count <= 1 THEN 0 ELSE count - 1
           placed == [d \in Domains |-> IF d = d0 THEN drop(info.placed[d])
                                        ELSE info.placed[d]]
           state == IF info.state # "rejected" /\ left < info.min
                    THEN "collecting" ELSE info.state
<1>1. info \in GroupInfo /\ PlacedOK(info) /\ StateOK(info)
  BY DEF InfoOK
<1>2. left # 0 /\ new = [info EXCEPT !.reservations = res, !.placed = placed,
                                   !.state = state]
  BY DEF WithoutReservation
<1>3. /\ new.reservations = res /\ new.placed = placed /\ new.state = state
      /\ new.min = info.min /\ new.attempt = info.attempt
  BY <1>1, <1>2 DEF GroupInfo
<1>4. new \in GroupInfo
  <2>1. res \in [Pods -> Reservation \cup {NoReservation}]
    BY <1>1 DEF GroupInfo
  <2>2. \A d \in Domains : info.placed[d] \in Nat
    BY <1>1 DEF GroupInfo
  <2>3. placed \in [Domains -> Nat]
    BY <2>2
  <2>4. state \in GroupState
    BY <1>1 DEF GroupInfo, GroupState
  <2>5. info \in GroupInfo
    BY <1>1
  <2> HIDE DEF res, placed, state, left
  <2>6. [info EXCEPT !.reservations = res, !.placed = placed, !.state = state]
          \in GroupInfo
    BY <2>1, <2>3, <2>4, <2>5, UpdateType
  <2> QED
    BY <1>2, <2>6
<1>5. Reserved(new) = {q \in Pods : res[q] # NoReservation}
  BY <1>3 DEF Reserved
<1>6. Reserved(new) = Reserved(info) \ {p} /\ p \in Reserved(info)
  BY <1>1, <1>5 DEF GroupInfo, Reserved
<1>7. PlacedOK(new)
  <2> SUFFICES ASSUME NEW d \in Domains
               PROVE  new.placed[d] = Cardinality(InDomain(new, d))
    BY DEF PlacedOK
  <2>1. InDomain(info, d) \in SUBSET Pods
        /\ info.placed[d] = Cardinality(InDomain(info, d))
    BY <1>1 DEF InDomain, Reserved, PlacedOK
  <2>2. CASE d = d0
    <3>1. p \in InDomain(info, d) /\ InDomain(new, d) = InDomain(info, d) \ {p}
      BY <1>1, <1>3, <1>6, <2>2 DEF InDomain, GroupInfo, Reserved
    <3>2. Cardinality(InDomain(new, d)) = info.placed[d] - 1 /\ info.placed[d] >= 1
      BY <2>1, <3>1, RemovePod
    <3>3. info.placed[d] \in Nat
      BY <1>1 DEF GroupInfo
    <3>4. new.placed[d] = drop(info.placed[d])
      BY <1>3, <2>2
    <3> QED
      BY <3>2, <3>3, <3>4
  <2>3. CASE d # d0
    <3>1. InDomain(new, d) = InDomain(info, d)
      BY <1>1, <1>3, <1>6, <2>3 DEF InDomain, GroupInfo, Reserved
    <3> QED
      BY <1>3, <2>1, <2>3, <3>1
  <2> QED
    BY <2>2, <2>3
<1>8. StateOK(new)
  <2>1. Assigned(new) = left
    BY <1>5 DEF Assigned
  <2>2. Assigned(info) \in Nat /\ left \in Nat /\ info.min \in Nat
    <3>1. Assigned(info) \in Nat /\ Assigned(new) \in Nat
      BY AssignedType
    <3>2. info.min \in Nat
      BY <1>1, RegistryAssumption DEF GroupInfo
    <3> QED
      BY <2>1, <3>1, <3>2
  <2>3. left = Assigned(info) - 1
    BY <1>6, <2>1, AssignedType, RemovePod DEF Assigned
  <2>4. new.state = "ready" <=> left >= info.min
    BY <1>1, <1>3, <2>2, <2>3 DEF StateOK
  <2>5. new.state # "pending"
    BY <1>1, <1>2, <1>3, <2>2, <2>3 DEF StateOK
  <2> QED
    BY <1>3, <2>1, <2>4, <2>5 DEF StateOK
<1> QED
  BY <1>3, <1>4, <1>6, <1>7, <1>8 DEF InfoOK

\* A change of fields other than the reservations and the counts.
LEMMA SameReservations ==
  ASSUME NEW info, InfoOK(info), NEW new \in GroupInfo,
         new.reservations = info.reservations, new.placed = info.placed,
         new.min = info.min
  PROVE  /\ PlacedOK(new)
         /\ Assigned(new) = Assigned(info)
         /\ Reserved(new) = Reserved(info)
<1>1. Reserved(new) = Reserved(info)
  BY DEF Reserved
<1>2. \A d \in Domains : InDomain(new, d) = InDomain(info, d)
  BY <1>1 DEF InDomain
<1> QED
  BY <1>1, <1>2 DEF PlacedOK, InfoOK, Assigned

LEMMA DecidedOK ==
  ASSUME NEW info, InfoOK(info), NEW past
  PROVE  /\ InfoOK(Decided(info, past))
         /\ Decided(info, past).attempt = info.attempt
         /\ Reserved(Decided(info, past)) = Reserved(info)
         /\ info.state = "rejected" => Decided(info, past).state = "rejected"
<1> DEFINE answer == Decision(info, past)
           new == Decided(info, past)
           state == IF answer = "wait" THEN "collecting" ELSE answer
           started == info.timerStarted \/ answer = "wait"
<1>1. info \in GroupInfo /\ StateOK(info)
  BY DEF InfoOK
<1>2. answer \in {"rejected", "ready", "wait"}
  BY DEF Decision
<1>3. new = [info EXCEPT !.state = state, !.timerStarted = started]
  BY DEF Decided
<1>4. state \in GroupState /\ started \in BOOLEAN
  BY <1>2 DEF GroupState
<1>5. /\ new \in GroupInfo /\ new.state = state
      /\ new.reservations = info.reservations /\ new.placed = info.placed
      /\ new.min = info.min /\ new.attempt = info.attempt
  <2> HIDE DEF state, started, new
  <2> QED
    BY <1>1, <1>3, <1>4 DEF GroupInfo
<1>6. /\ PlacedOK(new) /\ Assigned(new) = Assigned(info)
      /\ Reserved(new) = Reserved(info)
  BY <1>5, SameReservations
<1>7. StateOK(new)
  <2>1. Assigned(info) \in Nat /\ info.min \in Nat
    BY <1>1, AssignedType, RegistryAssumption DEF GroupInfo
  <2>2. state = "ready" <=> Assigned(info) >= info.min
    BY <1>1, <2>1 DEF StateOK, Decision
  <2>3. state # "pending"
    BY <1>2
  <2> QED
    BY <1>5, <1>6, <2>2, <2>3 DEF StateOK
<1>8. info.state = "rejected" => new.state = "rejected"
  BY <1>5 DEF Decision
<1> QED
  BY <1>5, <1>6, <1>7, <1>8 DEF InfoOK

-----------------------------------------------------------------------------
(***************************************************************************)
(* The inductive invariant.                                                *)
(***************************************************************************)
AttemptsOK ==
  /\ \A g \in Groups : Exists(g) => groups[g].attempt <= nextAttempt
  /\ \A g, h \in Groups :
       Exists(g) /\ Exists(h) /\ g # h => groups[g].attempt # groups[h].attempt

RegistryInv ==
  /\ RegistryTypeOK
  /\ \A g \in Groups : Exists(g) => InfoOK(groups[g])
  /\ AttemptsOK

\* Every method but a creating Ensure replaces one existing group by a group of
\* the same attempt that is well formed, or deletes it.
Replaces(g, new) ==
  /\ groups' = [groups EXCEPT ![g] = new]
  /\ nextAttempt' = nextAttempt
  /\ new # NoGroup => InfoOK(new) /\ new.attempt = groups[g].attempt

LEMMA ReplaceKeepsInv ==
  ASSUME RegistryInv, NEW g \in Groups, Exists(g), NEW new, Replaces(g, new)
  PROVE  RegistryInv'
<1>1. new \in GroupInfo \cup {NoGroup}
  BY DEF Replaces, InfoOK
<1>2. RegistryTypeOK'
  BY <1>1 DEF RegistryInv, RegistryTypeOK, Replaces
<1>3. \A h \in Groups : groups'[h] = IF h = g THEN new ELSE groups[h]
  BY DEF RegistryInv, RegistryTypeOK, Replaces
<1>4. (\A h \in Groups : Exists(h) => InfoOK(groups[h]))'
  <2> SUFFICES ASSUME NEW h \in Groups, groups'[h] # NoGroup
               PROVE  InfoOK(groups'[h])
    BY DEF Exists, InfoOK, PlacedOK, StateOK, Assigned, Reserved, InDomain
  <2> QED
    BY <1>3 DEF RegistryInv, Exists, Replaces
<1>5. \A h \in Groups : Exists(h)' => Exists(h) /\ groups'[h].attempt = groups[h].attempt
  BY <1>3 DEF Exists, Replaces
<1>6. AttemptsOK'
  BY <1>5 DEF RegistryInv, AttemptsOK, Replaces
<1> QED
  BY <1>2, <1>4, <1>6 DEF RegistryInv

LEMMA EnsureKeepsInv ==
  ASSUME RegistryInv, NEW g \in Groups, NEW m \in MinMembers, Ensure(g, m)
  PROVE  RegistryInv'
<1>1. CASE Exists(g)
  BY <1>1 DEF Ensure, registryVars, RegistryInv, RegistryTypeOK, AttemptsOK, Exists,
              InfoOK, PlacedOK, StateOK, Assigned, Reserved, InDomain
<1>2. CASE ~Exists(g)
  <2> DEFINE new == NewGroup(m, nextAttempt + 1)
  <2>1. /\ nextAttempt' = nextAttempt + 1 /\ nextAttempt \in Nat
        /\ nextAttempt' \in 1 .. MaxAttempts
        /\ groups' = [groups EXCEPT ![g] = new]
    BY <1>2, RegistryAssumption DEF Ensure, RegistryInv, RegistryTypeOK
  <2>2. InfoOK(new) /\ new.attempt = nextAttempt'
    BY <2>1, NewGroupOK DEF NewGroup
  <2>3. new \in GroupInfo /\ new # NoGroup
    BY <2>2, RegistryAssumption DEF InfoOK
  <2> HIDE DEF new
  <2>4. \A h \in Groups : groups'[h] = IF h = g THEN new ELSE groups[h]
    BY <2>1 DEF RegistryInv, RegistryTypeOK
  <2>5. RegistryTypeOK'
    BY <2>1, <2>3, RegistryAssumption DEF RegistryInv, RegistryTypeOK
  <2>6. (\A h \in Groups : Exists(h) => InfoOK(groups[h]))'
    <3> SUFFICES ASSUME NEW h \in Groups, groups'[h] # NoGroup
                 PROVE  InfoOK(groups'[h])
      BY DEF Exists, InfoOK, PlacedOK, StateOK, Assigned, Reserved, InDomain
    <3> QED
      BY <2>2, <2>4 DEF RegistryInv, Exists
  <2>7. \A h \in Groups : Exists(h) => groups[h].attempt \in Nat
    BY RegistryAssumption DEF RegistryInv, InfoOK, GroupInfo
  <2>8. AttemptsOK'
    BY <2>1, <2>2, <2>4, <2>7 DEF RegistryInv, AttemptsOK, Exists
  <2> QED
    BY <2>5, <2>6, <2>8 DEF RegistryInv
<1> QED
  BY <1>1, <1>2

LEMMA StutterKeepsInv ==
  ASSUME RegistryInv, UNCHANGED registryVars
  PROVE  RegistryInv'
  BY DEF registryVars, RegistryInv, RegistryTypeOK, AttemptsOK, Exists,
         InfoOK, PlacedOK, StateOK, Assigned, Reserved, InDomain

-----------------------------------------------------------------------------
\* The other methods replace the group or change nothing.

\* A rejected attempt that survives a step is still rejected and gained no member.
StaysRejected(old, new) ==
  old.state = "rejected" /\ new # NoGroup
  => new.state = "rejected" /\ Reserved(new) \subseteq Reserved(old)

LEMMA AssignReplaces ==
  ASSUME RegistryInv, NEW g \in Groups, NEW p \in Pods, NEW r \in Reservation,
         Assign(g, p, r)
  PROVE  \/ UNCHANGED registryVars
         \/ \E new : Exists(g) /\ Replaces(g, new) /\ StaysRejected(groups[g], new)
<1> DEFINE new == WithReservation(groups[g], p, r)
<1>1. CASE groups[g].reservations[p] = r
  BY <1>1 DEF Assign, registryVars
<1>2. CASE groups[g].reservations[p] # r
  <2>1. /\ Exists(g) /\ groups[g].state # "rejected" /\ InfoOK(groups[g])
        /\ groups[g].reservations[p] = NoReservation
        /\ groups' = [groups EXCEPT ![g] = new] /\ nextAttempt' = nextAttempt
    BY <1>2 DEF Assign, AssignOK, RegistryInv
  <2>2. InfoOK(new)
    BY <2>1, WithReservationOK
  <2>3. new.attempt = groups[g].attempt
    BY <2>1 DEF WithReservation, InfoOK, GroupInfo
  <2> HIDE DEF new
  <2>4. Replaces(g, new) /\ StaysRejected(groups[g], new)
    BY <2>1, <2>2, <2>3 DEF Replaces, StaysRejected
  <2> QED
    BY <2>1, <2>4
<1> QED
  BY <1>1, <1>2

LEMMA ReleaseReplaces ==
  ASSUME RegistryInv, NEW g \in Groups, NEW p \in Pods, Release(g, p)
  PROVE  \/ UNCHANGED registryVars
         \/ \E new : Exists(g) /\ Replaces(g, new) /\ StaysRejected(groups[g], new)
<1> DEFINE new == WithoutReservation(groups[g], p)
<1>1. CASE Exists(g) /\ groups[g].reservations[p] # NoReservation
  <2>1. /\ InfoOK(groups[g]) /\ nextAttempt' = nextAttempt
        /\ groups' = [groups EXCEPT ![g] = new]
    BY <1>1 DEF Release, RegistryInv
  <2>2. CASE new = NoGroup
    BY <1>1, <2>1, <2>2 DEF Replaces, StaysRejected
  <2>3. CASE new # NoGroup
    <3>1. /\ InfoOK(new) /\ new.attempt = groups[g].attempt
          /\ Reserved(new) \subseteq Reserved(groups[g])
          /\ groups[g].state = "rejected" => new.state = "rejected"
      BY <1>1, <2>1, <2>3, WithoutReservationOK
    <3> HIDE DEF new
    <3>2. Replaces(g, new) /\ StaysRejected(groups[g], new)
      BY <2>1, <3>1 DEF Replaces, StaysRejected
    <3> QED
      BY <1>1, <3>2
  <2> QED
    BY <2>2, <2>3
<1>2. CASE ~(Exists(g) /\ groups[g].reservations[p] # NoReservation)
  BY <1>2 DEF Release, registryVars
<1> QED
  BY <1>1, <1>2

LEMMA DecidePermitReplaces ==
  ASSUME RegistryInv, NEW g \in Groups, NEW past, DecidePermit(g, past)
  PROVE  \E new : Exists(g) /\ Replaces(g, new) /\ StaysRejected(groups[g], new)
<1> DEFINE new == Decided(groups[g], past)
<1>1. /\ Exists(g) /\ InfoOK(groups[g]) /\ nextAttempt' = nextAttempt
      /\ groups' = [groups EXCEPT ![g] = new]
  BY DEF DecidePermit, RegistryInv
<1>2. /\ InfoOK(new) /\ new.attempt = groups[g].attempt
      /\ Reserved(new) = Reserved(groups[g])
      /\ groups[g].state = "rejected" => new.state = "rejected"
  BY <1>1, DecidedOK
<1> HIDE DEF new
<1> QED
  BY <1>1, <1>2 DEF Replaces, StaysRejected

LEMMA RejectReplaces ==
  ASSUME RegistryInv, NEW g \in Groups, NEW a, NEW past, RejectIfCollecting(g, a, past)
  PROVE  \/ UNCHANGED registryVars
         \/ \E new : Exists(g) /\ Replaces(g, new) /\ StaysRejected(groups[g], new)
<1>1. CASE ~Rejects(g, a, past)
  BY <1>1 DEF RejectIfCollecting, registryVars
<1>2. CASE Rejects(g, a, past)
  <2> DEFINE old == groups[g]
             new == [old EXCEPT !.state = "rejected"]
  <2>1. /\ Exists(g) /\ InfoOK(old) /\ old.state = "collecting" /\ old \in GroupInfo
        /\ groups' = [groups EXCEPT ![g] = new] /\ nextAttempt' = nextAttempt
    BY <1>2 DEF RejectIfCollecting, Rejects, RegistryInv, InfoOK, RegistryTypeOK
  <2> HIDE DEF old
  <2>2. /\ new \in GroupInfo /\ new.state = "rejected" /\ new.attempt = old.attempt
        /\ new.reservations = old.reservations /\ new.placed = old.placed
        /\ new.min = old.min
    BY <2>1 DEF GroupInfo, GroupState
  <2> HIDE DEF new
  <2>3. PlacedOK(new) /\ Assigned(new) = Assigned(old) /\ Reserved(new) = Reserved(old)
    BY <2>1, <2>2, SameReservations
  <2>4. InfoOK(new)
    BY <2>1, <2>2, <2>3 DEF InfoOK, StateOK
  <2>5. Replaces(g, new) /\ StaysRejected(old, new)
    BY <2>1, <2>2, <2>3, <2>4 DEF Replaces, StaysRejected, old
  <2> QED
    BY <2>1, <2>5 DEF old
<1> QED
  BY <1>1, <1>2

LEMMA DeadlineReplaces ==
  ASSUME RegistryInv, NEW g \in Groups, DeadlinePasses(g)
  PROVE  \E new : Exists(g) /\ Replaces(g, new) /\ StaysRejected(groups[g], new)
<1> DEFINE old == groups[g]
           new == [old EXCEPT !.expired = TRUE]
<1>1. /\ Exists(g) /\ InfoOK(old) /\ old \in GroupInfo
      /\ groups' = [groups EXCEPT ![g] = new] /\ nextAttempt' = nextAttempt
  BY DEF DeadlinePasses, RegistryInv, InfoOK, RegistryTypeOK
<1> HIDE DEF old
<1>2. /\ new \in GroupInfo /\ new.state = old.state /\ new.attempt = old.attempt
      /\ new.reservations = old.reservations /\ new.placed = old.placed
      /\ new.min = old.min
  BY <1>1 DEF GroupInfo
<1> HIDE DEF new
<1>3. PlacedOK(new) /\ Assigned(new) = Assigned(old) /\ Reserved(new) = Reserved(old)
  BY <1>1, <1>2, SameReservations
<1>4. InfoOK(new)
  BY <1>1, <1>2, <1>3 DEF InfoOK, StateOK
<1>5. Replaces(g, new) /\ StaysRejected(old, new)
  BY <1>1, <1>2, <1>3, <1>4 DEF Replaces, StaysRejected, old
<1> QED
  BY <1>1, <1>5 DEF old

\* What a step can be.
LEMMA StepShape ==
  ASSUME RegistryInv, RegistryNext
  PROVE  \/ UNCHANGED registryVars
         \/ \E g \in Groups, m \in MinMembers : ~Exists(g) /\ Ensure(g, m)
         \/ \E g \in Groups : \E new :
              Exists(g) /\ Replaces(g, new) /\ StaysRejected(groups[g], new)
<1> SUFFICES ASSUME NEW g \in Groups,
                    \/ \E m \in MinMembers : Ensure(g, m)
                    \/ \E p \in Pods, r \in Reservation : Assign(g, p, r)
                    \/ \E p \in Pods : Release(g, p)
                    \/ \E past \in BOOLEAN : DecidePermit(g, past)
                    \/ \E a \in 1 .. MaxAttempts, past \in BOOLEAN :
                         RejectIfCollecting(g, a, past)
                    \/ DeadlinePasses(g)
             PROVE  \/ UNCHANGED registryVars
                    \/ \E m \in MinMembers : ~Exists(g) /\ Ensure(g, m)
                    \/ \E new : Exists(g) /\ Replaces(g, new)
                                 /\ StaysRejected(groups[g], new)
  BY DEF RegistryNext
<1>1. CASE \E m \in MinMembers : Ensure(g, m)
  BY <1>1 DEF Ensure
<1>2. CASE \E p \in Pods, r \in Reservation : Assign(g, p, r)
  BY <1>2, AssignReplaces
<1>3. CASE \E p \in Pods : Release(g, p)
  BY <1>3, ReleaseReplaces
<1>4. CASE \E past \in BOOLEAN : DecidePermit(g, past)
  BY <1>4, DecidePermitReplaces
<1>5. CASE \E a \in 1 .. MaxAttempts, past \in BOOLEAN : RejectIfCollecting(g, a, past)
  BY <1>5, RejectReplaces
<1>6. CASE DeadlinePasses(g)
  BY <1>6, DeadlineReplaces
<1> QED
  BY <1>1, <1>2, <1>3, <1>4, <1>5, <1>6

LEMMA RegistryInvStep ==
  ASSUME RegistryInv, [RegistryNext]_registryVars
  PROVE  RegistryInv'
  BY StepShape, StutterKeepsInv, EnsureKeepsInv, ReplaceKeepsInv

-----------------------------------------------------------------------------
\* The invariant holds in every reachable state.
THEOREM RegistryInvariance == RegistrySpec => []RegistryInv
<1>1. RegistryInit => RegistryInv
  BY RegistryAssumption
  DEF RegistryInit, RegistryInv, RegistryTypeOK, AttemptsOK, Exists
<1>2. RegistryInv /\ [RegistryNext]_registryVars => RegistryInv'
  BY RegistryInvStep
<1> QED
  BY <1>1, <1>2, PTL DEF RegistrySpec

\* The registry's fields keep their types under arbitrary callers.
THEOREM RegistryTypeCorrect == RegistrySpec => []RegistryTypeOK
<1>1. RegistryInv => RegistryTypeOK
  BY DEF RegistryInv
<1> QED
  BY <1>1, RegistryInvariance, PTL

\* Score's input, the per-domain counts, is exact for any number of pods, domains
\* and calls.
THEOREM PlacementExact == RegistrySpec => []PlacedMatchesReservations
<1>1. RegistryInv => PlacedMatchesReservations
  BY DEF RegistryInv, InfoOK, PlacedOK, PlacedMatchesReservations
<1> QED
  BY <1>1, RegistryInvariance, PTL

\* The state four methods write agrees with the number of reservations.
THEOREM StateCorrect == RegistrySpec => []StateMatchesCount
<1>1. RegistryInv => StateMatchesCount
  BY DEF RegistryInv, InfoOK, StateOK, StateMatchesCount
<1> QED
  BY <1>1, RegistryInvariance, PTL

\* An attempt number identifies one attempt of one group.
THEOREM AttemptsIdentify == RegistrySpec => []AttemptsAreUnique
<1>1. RegistryInv => AttemptsAreUnique
  BY DEF RegistryInv, AttemptsOK, AttemptsAreUnique
<1> QED
  BY <1>1, RegistryInvariance, PTL

\* A rejected attempt stays rejected and gains no member until it is deleted.
THEOREM RejectedTerminal == RegistrySpec => RejectedIsTerminal
<1> DEFINE A == \A g \in Groups :
                  Exists(g) /\ groups[g].state = "rejected" /\ Exists(g)'
                  => /\ groups'[g].state = "rejected"
                     /\ groups'[g].attempt = groups[g].attempt
                     /\ Reserved(groups'[g]) \subseteq Reserved(groups[g])
<1>1. ASSUME RegistryInv, RegistryNext
      PROVE  A \/ UNCHANGED registryVars
  <2>1. CASE \E g \in Groups, m \in MinMembers : ~Exists(g) /\ Ensure(g, m)
    <3>1. PICK g \in Groups, m \in MinMembers : ~Exists(g) /\ Ensure(g, m)
      BY <2>1
    <3>2. \A h \in Groups : h # g => groups'[h] = groups[h]
      BY <1>1, <3>1 DEF Ensure, RegistryInv, RegistryTypeOK
    <3> QED
      BY <3>1, <3>2 DEF Exists
  <2>2. CASE \E g \in Groups : \E new :
               Exists(g) /\ Replaces(g, new) /\ StaysRejected(groups[g], new)
    <3>0. PICK g \in Groups :
            \E new : Exists(g) /\ Replaces(g, new) /\ StaysRejected(groups[g], new)
      BY <2>2
    <3>1. PICK new : Exists(g) /\ Replaces(g, new) /\ StaysRejected(groups[g], new)
      BY <3>0
    <3>2. \A h \in Groups : groups'[h] = IF h = g THEN new ELSE groups[h]
      BY <1>1, <3>1 DEF Replaces, RegistryInv, RegistryTypeOK
    <3> QED
      BY <3>1, <3>2 DEF Exists, Replaces, StaysRejected
  <2> QED
    BY <1>1, <2>1, <2>2, StepShape
<1>2. RegistryInv /\ [RegistryNext]_registryVars => [A]_registryVars
  BY <1>1
<1> QED
  BY <1>2, RegistryInvariance, PTL DEF RegistrySpec, RejectedIsTerminal

-----------------------------------------------------------------------------
\* Every method writes at most one group, and one that it leaves rejected is past its
\* deadline.
LEMMA DeadlineKept ==
  ASSUME RegistryInv, RejectedAfterDeadline, NEW g \in Groups, NEW new,
         groups' = [groups EXCEPT ![g] = new],
         new # NoGroup /\ new.state = "rejected" => new.expired
  PROVE  RejectedAfterDeadline'
<1>1. \A h \in Groups : groups'[h] = IF h = g THEN new ELSE groups[h]
  BY DEF RegistryInv, RegistryTypeOK
<1> QED
  BY <1>1 DEF RejectedAfterDeadline, Exists

LEMMA DeadlineStep ==
  ASSUME RegistryInv, RejectedAfterDeadline, RegistryNext
  PROVE  RejectedAfterDeadline'
<1>0. PICK g \in Groups :
        \/ \E m \in MinMembers : Ensure(g, m)
        \/ \E p \in Pods, r \in Reservation : Assign(g, p, r)
        \/ \E p \in Pods : Release(g, p)
        \/ \E past \in BOOLEAN : DecidePermit(g, past)
        \/ \E a \in 1 .. MaxAttempts, past \in BOOLEAN : RejectIfCollecting(g, a, past)
        \/ DeadlinePasses(g)
  BY DEF RegistryNext
<1> DEFINE old == groups[g]
<1>1. /\ Exists(g) => old \in GroupInfo
      /\ Exists(g) /\ old.state = "rejected" => old.expired
  BY DEF RegistryInv, InfoOK, RejectedAfterDeadline
<1>2. CASE UNCHANGED groups
  BY <1>2 DEF RejectedAfterDeadline, Exists
<1>3. ASSUME NEW m \in MinMembers, Ensure(g, m), ~Exists(g) PROVE RejectedAfterDeadline'
  <2> DEFINE new == NewGroup(m, nextAttempt + 1)
  <2>1. groups' = [groups EXCEPT ![g] = new] /\ new.state = "pending"
    BY <1>3 DEF Ensure, NewGroup
  <2> HIDE DEF new
  <2> QED
    BY <2>1, DeadlineKept
<1>4. ASSUME NEW p \in Pods, NEW r \in Reservation, Assign(g, p, r), groups' # groups
      PROVE  RejectedAfterDeadline'
  <2> DEFINE new == WithReservation(old, p, r)
  <2>1. groups' = [groups EXCEPT ![g] = new] /\ old \in GroupInfo
    BY <1>1, <1>4 DEF Assign, AssignOK
  <2>2. new.state \in {"ready", "collecting"}
    BY <2>1 DEF WithReservation, GroupInfo
  <2> HIDE DEF new
  <2> QED
    BY <2>1, <2>2, DeadlineKept
<1>5. ASSUME NEW p \in Pods, Release(g, p), groups' # groups PROVE RejectedAfterDeadline'
  <2> DEFINE new == WithoutReservation(old, p)
  <2>1. groups' = [groups EXCEPT ![g] = new] /\ Exists(g) /\ old \in GroupInfo
    BY <1>1, <1>5 DEF Release
  <2>2. new # NoGroup /\ new.state = "rejected" => old.state = "rejected" /\ new.expired = old.expired
    BY <2>1 DEF WithoutReservation, GroupInfo
  <2> HIDE DEF new
  <2> QED
    BY <1>1, <2>1, <2>2, DeadlineKept
<1>6. ASSUME NEW past \in BOOLEAN, DecidePermit(g, past) PROVE RejectedAfterDeadline'
  <2> DEFINE new == Decided(old, past)
  <2>1. /\ groups' = [groups EXCEPT ![g] = new] /\ Exists(g) /\ old \in GroupInfo
        /\ past => old.expired
    BY <1>1, <1>6 DEF DecidePermit
  <2>2. /\ new.state = IF Decision(old, past) = "wait" THEN "collecting" ELSE Decision(old, past)
        /\ new.expired = old.expired
    BY <2>1 DEF Decided, GroupInfo
  <2>3. Decision(old, past) = "rejected" => old.state = "rejected" \/ past
    BY DEF Decision
  <2> HIDE DEF new
  <2> QED
    BY <1>1, <2>1, <2>2, <2>3, DeadlineKept
<1>7. ASSUME NEW a \in 1 .. MaxAttempts, NEW past \in BOOLEAN, RejectIfCollecting(g, a, past),
             groups' # groups
      PROVE  RejectedAfterDeadline'
  <2> DEFINE new == [old EXCEPT !.state = "rejected"]
  <2>1. /\ groups' = [groups EXCEPT ![g] = new] /\ Exists(g) /\ old \in GroupInfo
        /\ old.expired
    BY <1>1, <1>7 DEF RejectIfCollecting, Rejects
  <2>2. new.expired = old.expired
    BY <2>1 DEF GroupInfo
  <2> HIDE DEF new
  <2> QED
    BY <2>1, <2>2, DeadlineKept
<1>8. ASSUME DeadlinePasses(g) PROVE RejectedAfterDeadline'
  <2> DEFINE new == [old EXCEPT !.expired = TRUE]
  <2>1. groups' = [groups EXCEPT ![g] = new] /\ old \in GroupInfo
    BY <1>1, <1>8 DEF DeadlinePasses
  <2>2. new.expired
    BY <2>1 DEF GroupInfo
  <2> HIDE DEF new
  <2> QED
    BY <2>1, <2>2, DeadlineKept
<1>9. \A m \in MinMembers : Ensure(g, m) => UNCHANGED groups \/ ~Exists(g)
  BY DEF Ensure, registryVars
<1> QED
  BY <1>0, <1>2, <1>3, <1>4, <1>5, <1>6, <1>7, <1>8, <1>9

\* An attempt is rejected only past its own deadline (podgroup.go DecidePermit,
\* RejectIfCollecting), which no later call moves (Ensure).
THEOREM DeadlineRespected == RegistrySpec => []RejectedAfterDeadline
<1>1. RegistryInit => RejectedAfterDeadline
  BY DEF RegistryInit, RejectedAfterDeadline, Exists
<1>2. RegistryInv /\ RejectedAfterDeadline /\ [RegistryNext]_registryVars
      => RejectedAfterDeadline'
  <2>1. ASSUME RejectedAfterDeadline, UNCHANGED registryVars PROVE RejectedAfterDeadline'
    BY <2>1 DEF registryVars, RejectedAfterDeadline, Exists
  <2> QED
    BY <2>1, DeadlineStep
<1> QED
  BY <1>1, <1>2, RegistryInvariance, PTL DEF RegistrySpec

\* The parts of the registry agree, whoever calls it in whatever order.
THEOREM RegistryAgrees == RegistrySpec => []RegistryConsistent
<1>1. PlacedMatchesReservations /\ StateMatchesCount /\ AttemptsAreUnique
      /\ RejectedAfterDeadline => RegistryConsistent
  BY DEF RegistryConsistent
<1> QED
  BY <1>1, PlacementExact, StateCorrect, AttemptsIdentify, DeadlineRespected, PTL
=============================================================================
