------------------------- MODULE PodGroupRegistry -------------------------
(***************************************************************************)
(* The gang bookkeeping of the TopoGang plugin (topogang/podgroup.go): the *)
(* map from a group's name to its PodGroupInfo.  Every method runs under   *)
(* the one Registry mutex, so each method is one atomic action here; the   *)
(* callers (scheduling cycle, binding goroutines, timer callbacks) are     *)
(* arbitrary, any method may follow any other.  TopoGang.tla is the        *)
(* program that calls it and is shown to implement this specification.     *)
(*                                                                         *)
(* Time: the Deadline of an attempt is a flag `expired` that the           *)
(* environment raises once.  A caller's `now` was read before the lock was *)
(* taken, so a method may still see an expired deadline as a future one.   *)
(***************************************************************************)
EXTENDS Naturals, FiniteSets

CONSTANTS
  Pods,           \* pod UIDs
  Groups,         \* namespace/group names
  Nodes, Domains, \* nodes and values of the topology label
  NoDomain,       \* a node without the topology label
  MinMembers,     \* the minMember values the labels may carry
  NoReservation,  \* "pod not in the Reservations map"
  NoGroup,        \* "group not in the groups map"
  MaxAttempts     \* bound on nextAttempt (the code's is 2^64)

Reservation == [node : Nodes, domain : Domains \cup {NoDomain}]

GroupState == {"pending", "collecting", "ready", "rejected"}

GroupInfo == [min          : MinMembers,
              reservations : [Pods -> Reservation \cup {NoReservation}],
              placed       : [Domains -> Nat],
              expired      : BOOLEAN,
              state        : GroupState,
              attempt      : 1 .. MaxAttempts,
              timerStarted : BOOLEAN]

ASSUME RegistryAssumption ==
  /\ IsFiniteSet(Pods)
  /\ MinMembers \subseteq Nat \ {0}
  /\ MaxAttempts \in Nat
  /\ NoDomain \notin Domains
  /\ NoReservation \notin Reservation
  /\ NoGroup \notin GroupInfo

VARIABLES
  groups,        \* Registry.groups, total: NoGroup where the map has no key
  nextAttempt    \* Registry.nextAttempt

registryVars == <<groups, nextAttempt>>

-----------------------------------------------------------------------------
\* What the methods compute on one PodGroupInfo.

Exists(g) == groups[g] # NoGroup

Reserved(info) == {p \in Pods : info.reservations[p] # NoReservation}

\* len(group.Reservations): there is no second counter to drift from it.
Assigned(info) == Cardinality(Reserved(info))

InDomain(info, d) ==
  {p \in Reserved(info) : info.reservations[p].domain = d}

\* Mutant: the attempt number is taken before nextAttempt is incremented.
NewGroupBeforeCount(m, attempt) ==
  [min          |-> m,
   reservations |-> [p \in Pods |-> NoReservation],
   placed       |-> [d \in Domains |-> 0],
   expired      |-> FALSE,
   state        |-> "pending",
   attempt      |-> attempt - 1,
   timerStarted |-> FALSE]

NewGroup(m, attempt) ==
  [min          |-> m,
   reservations |-> [p \in Pods |-> NoReservation],
   placed       |-> [d \in Domains |-> 0],
   expired      |-> FALSE,
   state        |-> "pending",
   attempt      |-> attempt,
   timerStarted |-> FALSE]

\* A pod that was not reserved gets the reservation r.
WithReservation(info, p, r) ==
  LET reservations == [info.reservations EXCEPT ![p] = r]
      assigned     == Cardinality({q \in Pods : reservations[q] # NoReservation})
  IN  [info EXCEPT
         !.reservations = reservations,
         !.placed       = [d \in Domains |-> IF d = r.domain THEN info.placed[d] + 1
                                             ELSE info.placed[d]],
         !.state        = IF assigned >= info.min THEN "ready" ELSE "collecting"]

\* Mutant: the placement of the lost reservation stays counted.
WithoutReservationPlaced(info, p) ==
  LET reservations == [info.reservations EXCEPT ![p] = NoReservation]
      assigned     == Cardinality({q \in Pods : reservations[q] # NoReservation})
  IN  IF assigned = 0 THEN NoGroup
      ELSE [info EXCEPT
              !.reservations = reservations,
              !.state        = IF info.state # "rejected" /\ assigned < info.min
                               THEN "collecting" ELSE info.state]

\* A reserved pod loses its reservation; the last one deletes the group.
WithoutReservation(info, p) ==
  LET reservations == [info.reservations EXCEPT ![p] = NoReservation]
      assigned     == Cardinality({q \in Pods : reservations[q] # NoReservation})
      drop(count)  == IF count <= 1 THEN 0 ELSE count - 1
  IN  IF assigned = 0 THEN NoGroup
      ELSE [info EXCEPT
              !.reservations = reservations,
              !.placed       = [d \in Domains |-> IF d = info.reservations[p].domain
                                                  THEN drop(info.placed[d])
                                                  ELSE info.placed[d]],
              !.state        = IF info.state # "rejected" /\ assigned < info.min
                               THEN "collecting" ELSE info.state]

\* Mutant: off by one, the barrier opens one member early.
DecisionOffByOne(info, past) ==
  IF info.state = "rejected" THEN "rejected"
  ELSE IF Assigned(info) + 1 >= info.min THEN "ready"
  ELSE IF past THEN "rejected" ELSE "wait"

\* What DecidePermit answers; `past` is !now.Before(Deadline).
Decision(info, past) ==
  IF info.state = "rejected" THEN "rejected"
  ELSE IF Assigned(info) >= info.min THEN "ready"
  ELSE IF past THEN "rejected" ELSE "wait"

Decided(info, past) ==
  LET answer == Decision(info, past)
  IN  [info EXCEPT
         !.state        = IF answer = "wait" THEN "collecting" ELSE answer,
         !.timerStarted = info.timerStarted \/ answer = "wait"]

\* Mutant: the timer is started for an attempt that no member has joined yet; but
\* Assign has already made it collecting.
StartTimerWhilePending(info, past) ==
  Decision(info, past) = "wait" /\ info.state = "pending"

\* Exactly the first waiter of an attempt is asked to start its timer.
StartTimer(info, past) == Decision(info, past) = "wait" /\ ~info.timerStarted

-----------------------------------------------------------------------------
\* The methods.

RegistryInit == groups = [g \in Groups |-> NoGroup] /\ nextAttempt = 0

\* Ensure fails, changing nothing, on a conflicting minMember.
EnsureOK(g, m) == Exists(g) => groups[g].min = m

\* Mutant: every Ensure gives the group a fresh deadline.
EnsureExtendsDeadline(g, m) ==
  IF Exists(g)
  THEN /\ groups' = [groups EXCEPT ![g].expired = FALSE]
       /\ UNCHANGED nextAttempt
  ELSE /\ nextAttempt < MaxAttempts
       /\ nextAttempt' = nextAttempt + 1
       /\ groups' = [groups EXCEPT ![g] = NewGroup(m, nextAttempt + 1)]

\* Ensure and Get create the group on first sight and only then change state.
Ensure(g, m) ==
  IF Exists(g)
  THEN UNCHANGED registryVars
  ELSE /\ nextAttempt < MaxAttempts
       /\ nextAttempt' = nextAttempt + 1
       /\ groups' = [groups EXCEPT ![g] = NewGroup(m, nextAttempt + 1)]

\* Mutant: a rejected attempt takes members.
AssignOKRejected(g, p, r) ==
  Exists(g) /\ groups[g].reservations[p] \in {NoReservation, r}

\* Assign fails, changing nothing, when there is no group, when it is rejected,
\* and when the pod is already reserved elsewhere.
AssignOK(g, p, r) ==
  /\ Exists(g)
  /\ groups[g].state # "rejected"
  /\ groups[g].reservations[p] \in {NoReservation, r}

Assign(g, p, r) ==
  /\ AssignOK(g, p, r)
  /\ IF groups[g].reservations[p] = r
     THEN UNCHANGED groups
     ELSE groups' = [groups EXCEPT ![g] = WithReservation(groups[g], p, r)]
  /\ UNCHANGED nextAttempt

Release(g, p) ==
  /\ IF Exists(g) /\ groups[g].reservations[p] # NoReservation
     THEN groups' = [groups EXCEPT ![g] = WithoutReservation(groups[g], p)]
     ELSE UNCHANGED groups
  /\ UNCHANGED nextAttempt

DecidePermit(g, past) ==
  /\ Exists(g)
  /\ past => groups[g].expired
  /\ groups' = [groups EXCEPT ![g] = Decided(groups[g], past)]
  /\ UNCHANGED nextAttempt

\* Mutant: the callback trusts its timer, whatever attempt and deadline the group has.
RejectsUnchecked(g, a, past) == Exists(g) /\ groups[g].state = "collecting"

\* Does a timer callback of attempt a reject the group?
Rejects(g, a, past) ==
  /\ Exists(g)
  /\ groups[g].attempt = a
  /\ groups[g].state = "collecting"
  /\ past

RejectIfCollecting(g, a, past) ==
  /\ past /\ Exists(g) /\ groups[g].attempt = a => groups[g].expired
  /\ groups' = IF Rejects(g, a, past)
               THEN [groups EXCEPT ![g].state = "rejected"] ELSE groups
  /\ UNCHANGED nextAttempt

\* The clock passes the deadline of the current attempt.
DeadlinePasses(g) ==
  /\ Exists(g) /\ ~groups[g].expired
  /\ groups' = [groups EXCEPT ![g].expired = TRUE]
  /\ UNCHANGED nextAttempt

RegistryNext ==
  \E g \in Groups :
    \/ \E m \in MinMembers : Ensure(g, m)
    \/ \E p \in Pods, r \in Reservation : Assign(g, p, r)
    \/ \E p \in Pods : Release(g, p)
    \/ \E past \in BOOLEAN : DecidePermit(g, past)
    \/ \E a \in 1 .. MaxAttempts, past \in BOOLEAN : RejectIfCollecting(g, a, past)
    \/ DeadlinePasses(g)

RegistrySpec == RegistryInit /\ [][RegistryNext]_registryVars

-----------------------------------------------------------------------------
\* Properties.

\* The registry's fields have their types.
RegistryTypeOK ==
  /\ groups \in [Groups -> GroupInfo \cup {NoGroup}]
  /\ nextAttempt \in 0 .. MaxAttempts

\* PlacedByDomain, the input of Score, is exactly the number of reservations in
\* each domain after any mix of duplicate, moved and repeated Assign and Release
\* calls (Assign increments it, Release decrements it with a floor).
PlacedMatchesReservations ==
  \A g \in Groups : Exists(g) =>
    \A d \in Domains : groups[g].placed[d] = Cardinality(InDomain(groups[g], d))

\* The state field, written by four methods, never disagrees with the number of
\* reservations: ready exactly at minMember or more, a rejected attempt is below
\* it, and a pending attempt has no member yet.
StateMatchesCount ==
  \A g \in Groups : Exists(g) =>
    LET info == groups[g] IN
      /\ info.state = "ready" <=> Assigned(info) >= info.min
      /\ info.state = "pending" => Assigned(info) = 0

\* An attempt number belongs to one attempt of one group for ever, so a timer
\* callback that carries it cannot match a group created later.
AttemptsAreUnique ==
  /\ \A g \in Groups : Exists(g) => groups[g].attempt <= nextAttempt
  /\ \A g, h \in Groups :
       Exists(g) /\ Exists(h) /\ g # h => groups[g].attempt # groups[h].attempt

\* An attempt is rejected only when its own deadline has passed: no timer of an earlier
\* attempt of the group shortens it, and the deadline does not move afterwards, however
\* often members that are retried call Ensure.
RejectedAfterDeadline ==
  \A g \in Groups : Exists(g) /\ groups[g].state = "rejected" => groups[g].expired

\* The parts of the registry agree, and with the clock: the four above together.
RegistryConsistent ==
  PlacedMatchesReservations /\ StateMatchesCount /\ AttemptsAreUnique /\ RejectedAfterDeadline

\* "Rejected is terminal for this attempt": no method takes a rejected attempt
\* back to collecting or ready, nor lets a new member into it; it can only lose
\* members until it is deleted.
RejectedIsTerminal ==
  [][\A g \in Groups :
       Exists(g) /\ groups[g].state = "rejected" /\ Exists(g)'
       => /\ groups'[g].state = "rejected"
          /\ groups'[g].attempt = groups[g].attempt
          /\ Reserved(groups'[g]) \subseteq Reserved(groups[g])]_registryVars
=============================================================================
