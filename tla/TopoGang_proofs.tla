-------------------------- MODULE TopoGang_proofs --------------------------
(***************************************************************************)
(* Proofs about TopoGang for any pods, labels, nodes and attempts.         *)
(*                                                                         *)
(* The plugin's steps are registry calls, so it implements RegistrySpec    *)
(* and inherits the registry's invariants.  On top of them:                *)
(*   FrameworkInv  where the framework holds each pod;                     *)
(*   ReservationMirror  the registry agrees with it;                       *)
(*   BarrierInv    why a member that is let through had a full gang;       *)
(*   WakeupInv     why no parked member is forgotten;                      *)
(*   TimerInv      why a parked member's attempt ends;                     *)
(*   NodeInv       why a node chosen on a snapshot still has the GPUs;     *)
(*   WaitInv       why the gangs that hold GPUs can be completed one after *)
(*                 another, when pods have one size and are gang members.  *)
(***************************************************************************)
EXTENDS TopoGang, PodGroupRegistry_proofs, FoldTheorems

InCycle == {"prefilter", "select", "reserve", "permit", "allow", "reject", "wait"}
AfterAssume == {"reserve", "permit", "allow", "reject", "wait"}
AfterReserve == {"permit", "allow", "reject", "wait"}
OnNode == {"waiting", "binding", "bound", "unreserve", "forget"}

FrameworkTypes ==
  /\ stage \in [Pods -> Stage]
  /\ assumed \in [Pods -> Nodes \cup {NoNode}]
  /\ signal \in [Pods -> Signal]
  /\ current \in Pods \cup {NoPod}
  /\ step \in Step
  /\ snapshot \in [Pods -> Nodes \cup {NoNode}]
  /\ targets \subseteq Pods
  /\ rejecting \subseteq Pods

FrameworkInv ==
  /\ FrameworkTypes
  /\ step = "idle" <=> current = NoPod
  /\ \A p \in Pods : stage[p] = "cycling" <=> current = p
  /\ \A p \in Pods : stage[p] \in OnNode => assumed[p] \in Nodes
  /\ step \in AfterAssume => assumed[current] \in Nodes
  /\ step \in {"allow", "reject", "wait"} => IsGang(current)
  /\ \A p \in Pods : stage[p] = "waiting" => IsGang(p)
  /\ \A p \in Pods : signal[p] # "none" => stage[p] = "waiting"
  /\ \A p \in targets : step \in {"allow", "reject"} /\ stage[p] = "waiting"
                        /\ GroupOf(p) = GroupOf(current)
  /\ \A p \in rejecting : stage[p] = "waiting"

BarrierInv ==
  /\ \A g \in Groups : Exists(g) /\ groups[g].state = "ready" => quorum[g]
  /\ step = "allow" => quorum[GroupOf(current)]
  /\ BarrierNeverOpensEarly

WakeupInv ==
  /\ step = "wait" => groups[GroupOf(current)].state # "ready"
  /\ NoLostWakeup

TimerInv ==
  /\ \A g \in Groups : Exists(g) /\ groups[g].timerStarted
       => \/ [group |-> g, attempt |-> groups[g].attempt] \in armed
          \/ groups[g].expired
  /\ step = "wait" => groups[GroupOf(current)].timerStarted
  /\ \A p \in Pods : stage[p] = "waiting" => groups[GroupOf(p)].timerStarted

GangInv ==
  /\ RegistryInv
  /\ FrameworkInv
  /\ armed \subseteq Timer /\ firing \subseteq Timer
  /\ quorum \in [Groups -> BOOLEAN]
  /\ ReservationMirror
  /\ BarrierInv
  /\ WakeupInv
  /\ TimerInv

-----------------------------------------------------------------------------
\* FrameworkInv does not depend on the registry.

LEMMA CycleEndsFramework ==
  ASSUME FrameworkInv, step # "idle",
         NEW next \in {"pending", "binding", "waiting"}, CycleEnds(next),
         next # "pending" => step \in AfterAssume /\ assumed' = assumed,
         next = "waiting" => IsGang(current),
         assumed' \in {assumed, [assumed EXCEPT ![current] = NoNode]},
         UNCHANGED <<signal, rejecting>>,
         targets = {} \/ next = "pending"
  PROVE  FrameworkInv'
  BY TopoGangAssumption, ZenonT(60)
  DEF FrameworkInv, FrameworkTypes, Stage, Signal, Step, AfterAssume, OnNode,
      CycleEnds, IsGang, GroupOf

LEMMA CycleMovesFramework ==
  ASSUME FrameworkInv, step \in {"prefilter", "reserve"},
         NEW to \in {"select", "permit"}, CycleMoves(to),
         step = "prefilter" <=> to = "select",
         UNCHANGED <<assumed, signal, rejecting>>
  PROVE  FrameworkInv'
  BY TopoGangAssumption
  DEF FrameworkInv, FrameworkTypes, Stage, Signal, Step, AfterAssume, OnNode,
      CycleMoves, IsGang, GroupOf

LEMMA FrameworkStep ==
  ASSUME FrameworkInv, [Next]_vars
  PROVE  FrameworkInv'
<1> USE TopoGangAssumption
<1> USE DEF FrameworkInv, FrameworkTypes, Stage, Signal, Step, AfterAssume, OnNode
<1>1. ASSUME NEW p \in Pods, StartCycle(p)
      PROVE  FrameworkInv'
  BY <1>1 DEF StartCycle, timerVars, IsGang, GroupOf
<1>2. ASSUME PreFilterOther
      PROVE  FrameworkInv'
  <2>1. step = "prefilter" /\ UNCHANGED <<assumed, signal, rejecting>>
    BY <1>2 DEF PreFilterOther, timerVars
  <2>2. CASE IsPlain(current)
    BY <1>2, <2>1, <2>2, CycleMovesFramework DEF PreFilterOther
  <2>3. CASE ~IsPlain(current)
    BY <1>2, <2>1, <2>3, CycleEndsFramework DEF PreFilterOther
  <2> QED
    BY <2>2, <2>3
<1>3. ASSUME PreFilterGang
      PROVE  FrameworkInv'
  <2>1. step = "prefilter" /\ UNCHANGED <<assumed, signal, rejecting>>
    BY <1>3 DEF PreFilterGang, timerVars
  <2>2. CycleMoves("select") \/ CycleEnds("pending")
    BY <1>3 DEF PreFilterGang
  <2> QED
    BY <2>1, <2>2, CycleMovesFramework, CycleEndsFramework
<1>4. ASSUME NEW n \in Nodes, SelectNode(n)
      PROVE  FrameworkInv'
  BY <1>4 DEF SelectNode, CycleMoves, timerVars, IsGang, GroupOf
<1>5. ASSUME NoNodeFits
      PROVE  FrameworkInv'
  BY <1>5, CycleEndsFramework DEF NoNodeFits, timerVars
<1>6. ASSUME Reserve
      PROVE  FrameworkInv'
  <2>1. step = "reserve" /\ UNCHANGED <<signal, rejecting>>
    BY <1>6 DEF Reserve, timerVars
  <2>2. \/ CycleMoves("permit") /\ UNCHANGED assumed
        \/ CycleEnds("pending") /\ assumed' = [assumed EXCEPT ![current] = NoNode]
    BY <1>6 DEF Reserve, CycleFails
  <2> QED
    BY <2>1, <2>2, CycleMovesFramework, CycleEndsFramework
<1>7. ASSUME PermitPlain
      PROVE  FrameworkInv'
  <2>1. targets = {}
    BY <1>7 DEF PermitPlain
  <2> QED
    BY <1>7, <2>1, CycleEndsFramework DEF PermitPlain, timerVars
<1>8. ASSUME NEW past \in BOOLEAN, Permit(past)
      PROVE  FrameworkInv'
  <2>1. /\ step = "permit" /\ IsGang(current) /\ step' \in {"allow", "reject", "wait"}
        /\ targets' = {} \/ (targets' = Parked(GroupOf(current)) /\ step' # "wait")
        /\ UNCHANGED <<stage, assumed, signal, current, snapshot, rejecting>>
    BY <1>8 DEF Permit, frameworkVars, Decision
  <2> QED
    BY <2>1 DEF Parked, Members, IsGang, GroupOf
<1>9. ASSUME NEW p \in Pods, SignalSibling(p)
      PROVE  FrameworkInv'
  BY <1>9 DEF SignalSibling, Signalled, timerVars, IsGang, GroupOf
<1>10. ASSUME PermitSucceeds
      PROVE  FrameworkInv'
  BY <1>10, CycleEndsFramework DEF PermitSucceeds, timerVars
<1>11. ASSUME PermitRejects
      PROVE  FrameworkInv'
  BY <1>11, CycleEndsFramework DEF PermitRejects, CycleFails, timerVars
<1>12. ASSUME Park
      PROVE  FrameworkInv'
  <2>1. targets = {}
    BY <1>12 DEF Park
  <2> QED
    BY <1>12, <2>1, CycleEndsFramework DEF Park, timerVars
<1>13. ASSUME NEW p \in Pods, WaitOnPermit(p)
      PROVE  FrameworkInv'
  BY <1>13 DEF WaitOnPermit, IsGang, GroupOf
<1>14. ASSUME NEW p \in Pods, NEW outcome \in {"bound", "unreserve"}, BindReturns(p, outcome)
      PROVE  FrameworkInv'
  BY <1>14, ZenonT(60) DEF BindReturns, cycleVars, timerVars, IsGang, GroupOf
<1>15. ASSUME NEW p \in Pods, Unreserve(p)
      PROVE  FrameworkInv'
  BY <1>15 DEF Unreserve, cycleVars, timerVars, IsGang, GroupOf
<1>16. ASSUME NEW p \in Pods, Forget(p)
      PROVE  FrameworkInv'
  BY <1>16, ZenonT(60) DEF Forget, cycleVars, timerVars, IsGang, GroupOf
<1>17. ASSUME NEW p \in Pods, PodEnds(p)
      PROVE  FrameworkInv'
  BY <1>17, ZenonT(60) DEF PodEnds, cycleVars, timerVars, IsGang, GroupOf
<1>18. ASSUME NEW g \in Groups, Deadline(g)
      PROVE  FrameworkInv'
  BY <1>18 DEF Deadline, frameworkVars, cycleVars, timerVars, IsGang, GroupOf
<1>19. ASSUME NEW p \in Pods, PermitTimeout(p)
      PROVE  FrameworkInv'
  BY <1>19 DEF PermitTimeout, Signalled, cycleVars, timerVars, IsGang, GroupOf
<1>20. ASSUME NEW p \in Pods, RejectParked(p)
      PROVE  FrameworkInv'
  BY <1>20 DEF RejectParked, Signalled, cycleVars, IsGang, GroupOf
<1>21. ASSUME NEW t \in Timer, TimerFires(t)
      PROVE  FrameworkInv'
  BY <1>21 DEF TimerFires, frameworkVars, cycleVars, IsGang, GroupOf
<1>22. ASSUME NEW t \in Timer, CollectParked(t)
      PROVE  FrameworkInv'
  BY <1>22 DEF CollectParked, Parked, Members, frameworkVars, cycleVars, IsGang, GroupOf
<1>23. CASE UNCHANGED vars
  BY <1>23 DEF vars, IsGang, GroupOf
<1> QED
  BY <1>1, <1>2, <1>3, <1>4, <1>5, <1>6, <1>7, <1>8, <1>9, <1>10, <1>11, <1>12, <1>13, <1>14, <1>15, <1>16, <1>17, <1>18, <1>19, <1>20, <1>21, <1>22, <1>23, ZenonT(60)
  DEF Next, CycleStep, BindingStep, TimerStep

-----------------------------------------------------------------------------
\* The plugin's steps are registry calls.

LEMMA GangLabel ==
  ASSUME NEW p \in Pods, IsGang(p)
  PROVE  GroupOf(p) \in Groups /\ MinOf(p) \in MinMembers
  BY TopoGangAssumption DEF IsGang, GroupOf, MinOf, PodLabels

LEMMA ReservationType ==
  ASSUME NEW n \in Nodes
  PROVE  ReservationOn(n) \in Reservation
  BY TopoGangAssumption DEF ReservationOn, Reservation

\* The pod of the cycle, past "idle".
LEMMA CurrentPod ==
  ASSUME FrameworkInv, step # "idle"
  PROVE  current \in Pods /\ stage[current] = "cycling"
  BY DEF FrameworkInv, FrameworkTypes

LEMMA RegistryStep ==
  ASSUME FrameworkInv, [Next]_vars
  PROVE  [RegistryNext]_registryVars
<1>1. CASE PreFilterGang
  <2>1. current \in Pods /\ IsGang(current)
    BY <1>1, CurrentPod DEF PreFilterGang
  <2>2. Ensure(GroupOf(current), MinOf(current)) \/ UNCHANGED registryVars
    BY <1>1 DEF PreFilterGang, registryVars
  <2> QED
    BY <2>1, <2>2, GangLabel DEF RegistryNext
<1>2. CASE Reserve
  <2>1. current \in Pods /\ assumed[current] \in Nodes
    BY <1>2, CurrentPod DEF Reserve, FrameworkInv, AfterAssume
  <2>2. \/ IsGang(current) /\ Assign(GroupOf(current), current, ReservationOn(assumed[current]))
        \/ IsGang(current) /\ Release(GroupOf(current), current)
        \/ UNCHANGED registryVars
    BY <1>2 DEF Reserve, CycleFails, registryVars
  <2> QED
    BY <2>1, <2>2, GangLabel, ReservationType DEF RegistryNext
<1>3. ASSUME NEW past \in BOOLEAN, Permit(past)
      PROVE  RegistryNext
  <2>1. current \in Pods /\ IsGang(current)
    BY <1>3, CurrentPod DEF Permit
  <2>2. DecidePermit(GroupOf(current), past)
    BY <1>3 DEF Permit
  <2> QED
    BY <2>1, <2>2, GangLabel DEF RegistryNext
<1>4. CASE PermitRejects
  <2>1. current \in Pods
    BY <1>4, CurrentPod DEF PermitRejects
  <2>2. \/ IsGang(current) /\ Release(GroupOf(current), current)
        \/ UNCHANGED registryVars
    BY <1>4 DEF PermitRejects, CycleFails
  <2> QED
    BY <2>1, <2>2, GangLabel DEF RegistryNext
<1>5. ASSUME NEW p \in Pods, Unreserve(p)
      PROVE  [RegistryNext]_registryVars
  BY <1>5, GangLabel DEF Unreserve, RegistryNext
<1>6. ASSUME NEW g \in Groups, Deadline(g)
      PROVE  RegistryNext
  BY <1>6 DEF Deadline, RegistryNext
<1>7. ASSUME NEW t \in Timer, TimerFires(t)
      PROVE  RegistryNext
  BY <1>7 DEF TimerFires, Timer, RegistryNext
<1>8. CASE \/ \E p \in Pods : StartCycle(p) \/ SignalSibling(p) \/ WaitOnPermit(p)
                              \/ Forget(p) \/ PodEnds(p) \/ PermitTimeout(p)
                              \/ RejectParked(p)
           \/ \E p \in Pods, outcome \in {"bound", "unreserve"} : BindReturns(p, outcome)
           \/ \E n \in Nodes : SelectNode(n)
           \/ \E t \in Timer : CollectParked(t)
           \/ PreFilterOther \/ NoNodeFits \/ PermitPlain \/ PermitSucceeds \/ Park
           \/ UNCHANGED vars
  BY <1>8 DEF StartCycle, SignalSibling, WaitOnPermit, Forget, PodEnds, PermitTimeout,
              RejectParked, BindReturns, SelectNode, CollectParked, PreFilterOther,
              NoNodeFits, PermitPlain, PermitSucceeds, Park, vars, registryVars
<1> QED
  BY <1>1, <1>2, <1>3, <1>4, <1>5, <1>6, <1>7, <1>8
  DEF Next, CycleStep, BindingStep, TimerStep

\* TopoGang implements the registry specification: every step of the plugin, of
\* the framework and of the timers is a registry method call or leaves it alone.
THEOREM ImplementsRegistry == Spec => RegistrySpec
<1>1. Init => FrameworkInv /\ RegistryInit
  BY TopoGangAssumption
  DEF Init, FrameworkInv, FrameworkTypes, Stage, Signal, Step, AfterAssume, OnNode
<1>2. FrameworkInv /\ [Next]_vars => FrameworkInv'
  BY FrameworkStep
<1>3. FrameworkInv /\ [Next]_vars => [RegistryNext]_registryVars
  BY RegistryStep
<1> QED
  BY <1>1, <1>2, <1>3, PTL DEF Spec, RegistrySpec

-----------------------------------------------------------------------------
(***************************************************************************)
(* What a step may do to a group.  A group is calm in a step that leaves   *)
(* its reservations and its attempt alone and does not make it ready.      *)
(***************************************************************************)
Calm(g) ==
  /\ Exists(g)' <=> Exists(g)
  /\ Exists(g) =>
       /\ groups'[g].reservations = groups[g].reservations
       /\ groups'[g].attempt = groups[g].attempt
       /\ groups'[g].state = "ready" => groups[g].state = "ready"
       /\ groups[g].timerStarted => groups'[g].timerStarted
       /\ groups[g].expired => groups'[g].expired

Same(g) == groups'[g] = groups[g]

LEMMA SameIsCalm ==
  ASSUME NEW g, Same(g)
  PROVE  Calm(g)
  BY DEF Same, Calm, Exists

LEMMA ReadyIsFull ==
  ASSUME RegistryInv, NEW g \in Groups, Exists(g)
  PROVE  /\ groups[g] \in GroupInfo
         /\ groups[g].state = "ready" <=> Assigned(groups[g]) >= groups[g].min
  BY DEF RegistryInv, InfoOK, StateOK

\* DecidePermit: what the three answers mean for the state.
LEMMA PermitEffect ==
  ASSUME RegistryInv, NEW g \in Groups, NEW past, DecidePermit(g, past)
  PROVE  LET answer == Decision(groups[g], past) IN
         /\ Exists(g) /\ groups[g] \in GroupInfo
         /\ \A h \in Groups : Calm(h) /\ (h # g => Same(h))
         /\ answer \in {"ready", "rejected", "wait"}
         /\ answer = "ready" => groups[g].state = "ready"
         /\ answer # "ready" => groups'[g].state # "ready"
         /\ answer = "wait" => groups'[g].timerStarted
         /\ groups'[g].expired = groups[g].expired
         /\ answer # "wait" => groups'[g].timerStarted = groups[g].timerStarted
<1> DEFINE info == groups[g]
           answer == Decision(info, past)
           state == IF answer = "wait" THEN "collecting" ELSE answer
           started == info.timerStarted \/ answer = "wait"
           new == [info EXCEPT !.state = state, !.timerStarted = started]
<1>1. /\ Exists(g) /\ info \in GroupInfo
      /\ info.state = "ready" <=> Assigned(info) >= info.min
  BY ReadyIsFull DEF DecidePermit
<1>2. answer \in {"ready", "rejected", "wait"} /\ (answer = "ready" => info.state = "ready")
  BY <1>1 DEF Decision
<1>3. groups' = [groups EXCEPT ![g] = new] /\ groups \in [Groups -> GroupInfo \cup {NoGroup}]
  BY DEF DecidePermit, Decided, RegistryInv, RegistryTypeOK
<1> HIDE DEF state, started
<1>4. /\ new \in GroupInfo /\ new.state = state /\ new.timerStarted = started
      /\ new.reservations = info.reservations /\ new.attempt = info.attempt
      /\ new.expired = info.expired
  <2>1. state \in GroupState /\ started \in BOOLEAN
    BY <1>2 DEF state, started, GroupState
  <2> QED
    BY <1>1, <2>1 DEF GroupInfo
<1>5. new # NoGroup
  BY <1>4, RegistryAssumption
<1> HIDE DEF new
<1>6. groups'[g] = new /\ \A h \in Groups : h # g => Same(h)
  BY <1>3 DEF Same
<1>7. state = "ready" <=> answer = "ready"
  BY <1>2 DEF state
<1>8. Calm(g)
  BY <1>1, <1>2, <1>4, <1>5, <1>6, <1>7 DEF Calm, Exists, started
<1> QED
  BY <1>1, <1>2, <1>4, <1>6, <1>7, <1>8, SameIsCalm DEF started, GroupInfo

\* The registry half of every action but PreFilterGang, Reserve and Unreserve.
LEMMA RejectEffect ==
  ASSUME RegistryInv, NEW g \in Groups, NEW a, NEW past, RejectIfCollecting(g, a, past)
  PROVE  \A h \in Groups : /\ Calm(h)
                           /\ Exists(h) => groups'[h].timerStarted = groups[h].timerStarted
<1>1. CASE ~Rejects(g, a, past)
  BY <1>1 DEF RejectIfCollecting, Calm, Exists
<1>2. CASE Rejects(g, a, past)
  <2> DEFINE new == [groups[g] EXCEPT !.state = "rejected"]
  <2>1. /\ Exists(g) /\ groups[g] \in GroupInfo
        /\ groups' = [groups EXCEPT ![g] = new]
        /\ groups \in [Groups -> GroupInfo \cup {NoGroup}]
    BY <1>2, ReadyIsFull DEF RejectIfCollecting, Rejects, RegistryInv, RegistryTypeOK
  <2>2. /\ new \in GroupInfo /\ new.state = "rejected"
        /\ new.reservations = groups[g].reservations /\ new.attempt = groups[g].attempt
        /\ new.expired = groups[g].expired /\ new.timerStarted = groups[g].timerStarted
    BY <2>1 DEF GroupInfo, GroupState
  <2>3. new # NoGroup
    BY <2>2, RegistryAssumption
  <2> HIDE DEF new
  <2>4. \A h \in Groups : groups'[h] = IF h = g THEN new ELSE groups[h]
    BY <2>1
  <2> QED
    BY <2>1, <2>2, <2>3, <2>4 DEF Calm, Exists
<1> QED
  BY <1>1, <1>2

LEMMA DeadlineEffect ==
  ASSUME RegistryInv, NEW g \in Groups, DeadlinePasses(g)
  PROVE  \A h \in Groups : /\ Calm(h)
                           /\ Exists(h) => groups'[h].timerStarted = groups[h].timerStarted
<1> DEFINE new == [groups[g] EXCEPT !.expired = TRUE]
<1>1. /\ Exists(g) /\ groups[g] \in GroupInfo
      /\ groups' = [groups EXCEPT ![g] = new]
      /\ groups \in [Groups -> GroupInfo \cup {NoGroup}]
  BY ReadyIsFull DEF DeadlinePasses, RegistryInv, RegistryTypeOK
<1>2. /\ new \in GroupInfo /\ new.state = groups[g].state /\ new.expired
      /\ new.reservations = groups[g].reservations /\ new.attempt = groups[g].attempt
      /\ new.timerStarted = groups[g].timerStarted
  BY <1>1 DEF GroupInfo
<1>3. new # NoGroup
  BY <1>2, RegistryAssumption
<1> HIDE DEF new
<1>4. \A h \in Groups : groups'[h] = IF h = g THEN new ELSE groups[h]
  BY <1>1
<1> QED
  BY <1>1, <1>2, <1>3, <1>4 DEF Calm, Exists

\* Ensure leaves existing groups alone; a created one is empty and has no timer.
LEMMA EnsureEffect ==
  ASSUME RegistryInv, NEW g \in Groups, NEW m \in MinMembers, Ensure(g, m)
  PROVE  /\ \A h \in Groups : h # g \/ Exists(g) => Same(h)
         /\ ~Exists(g) => /\ Exists(g)'
                          /\ \A p \in Pods : groups'[g].reservations[p] = NoReservation
                          /\ groups'[g].state = "pending"
                          /\ ~groups'[g].timerStarted
<1>1. CASE Exists(g)
  BY <1>1 DEF Ensure, registryVars, Same
<1>2. CASE ~Exists(g)
  <2>1. /\ groups \in [Groups -> GroupInfo \cup {NoGroup}]
        /\ groups' = [groups EXCEPT ![g] = NewGroup(m, nextAttempt + 1)]
        /\ nextAttempt + 1 \in 1 .. MaxAttempts
    BY <1>2, RegistryAssumption DEF Ensure, RegistryInv, RegistryTypeOK
  <2>2. NewGroup(m, nextAttempt + 1) # NoGroup
    BY <2>1, NewGroupOK, RegistryAssumption DEF InfoOK
  <2>3. groups'[g] = NewGroup(m, nextAttempt + 1)
    BY <2>1
  <2>4. Exists(g)' /\ \A h \in Groups : h # g => Same(h)
    BY <2>1, <2>2, <2>3 DEF Exists, Same
  <2> QED
    BY <1>2, <2>3, <2>4 DEF NewGroup
<1> QED
  BY <1>1, <1>2

\* Assign sets one reservation.
LEMMA AssignEffect ==
  ASSUME RegistryInv, NEW g \in Groups, NEW p \in Pods, NEW r \in Reservation,
         Assign(g, p, r)
  PROVE  /\ \A h \in Groups : h # g => Same(h)
         /\ Exists(g) /\ Exists(g)'
         /\ groups'[g].reservations = [groups[g].reservations EXCEPT ![p] = r]
         /\ groups'[g].attempt = groups[g].attempt
         /\ groups'[g].timerStarted = groups[g].timerStarted
         /\ groups'[g].expired = groups[g].expired
<1>1. /\ Exists(g) /\ groups[g] \in GroupInfo /\ InfoOK(groups[g])
      /\ groups \in [Groups -> GroupInfo \cup {NoGroup}]
  BY DEF Assign, AssignOK, RegistryInv, RegistryTypeOK, InfoOK
<1>2. CASE groups[g].reservations[p] = r
  <2>1. groups' = groups
    BY <1>2 DEF Assign
  <2>2. [groups[g].reservations EXCEPT ![p] = r] = groups[g].reservations
    BY <1>1, <1>2 DEF GroupInfo
  <2> QED
    BY <1>1, <2>1, <2>2 DEF Same, Exists
<1>3. CASE groups[g].reservations[p] # r
  <2> DEFINE new == WithReservation(groups[g], p, r)
  <2>1. groups' = [groups EXCEPT ![g] = new]
    BY <1>3 DEF Assign
  <2>2. InfoOK(new)
    BY <1>1, <1>3, WithReservationOK DEF Assign, AssignOK
  <2>3. /\ new.reservations = [groups[g].reservations EXCEPT ![p] = r]
        /\ new.attempt = groups[g].attempt /\ new.expired = groups[g].expired
        /\ new.timerStarted = groups[g].timerStarted
    BY <1>1 DEF WithReservation, GroupInfo
  <2> HIDE DEF new
  <2>4. new # NoGroup
    BY <2>2, RegistryAssumption DEF InfoOK
  <2>5. \A h \in Groups : groups'[h] = IF h = g THEN new ELSE groups[h]
    BY <1>1, <2>1
  <2> QED
    BY <1>1, <2>3, <2>4, <2>5 DEF Same, Exists
<1> QED
  BY <1>2, <1>3

\* Release clears one reservation; the group disappears only with the last one.
LEMMA ReleaseEffect ==
  ASSUME RegistryInv, NEW g \in Groups, NEW p \in Pods, Release(g, p)
  PROVE  /\ \A h \in Groups : h # g => Same(h)
         /\ Exists(g)' => Exists(g)
         /\ Exists(g) =>
              IF Exists(g)'
              THEN /\ groups'[g].reservations
                        = [groups[g].reservations EXCEPT ![p] = NoReservation]
                   /\ groups'[g].attempt = groups[g].attempt
                   /\ groups'[g].timerStarted = groups[g].timerStarted
                   /\ groups'[g].expired = groups[g].expired
                   /\ groups'[g].state = "ready" => groups[g].state = "ready"
              ELSE \A q \in Pods \ {p} : groups[g].reservations[q] = NoReservation
<1>1. groups \in [Groups -> GroupInfo \cup {NoGroup}]
  BY DEF RegistryInv, RegistryTypeOK
<1>2. CASE ~(Exists(g) /\ groups[g].reservations[p] # NoReservation)
  <2>1. groups' = groups
    BY <1>2 DEF Release
  <2>2. Exists(g) => [groups[g].reservations EXCEPT ![p] = NoReservation]
                       = groups[g].reservations
    BY <1>1, <1>2 DEF GroupInfo, Exists
  <2> QED
    BY <2>1, <2>2 DEF Same, Exists
<1>3. CASE Exists(g) /\ groups[g].reservations[p] # NoReservation
  <2> DEFINE info == groups[g]
             new == WithoutReservation(info, p)
             res == [info.reservations EXCEPT ![p] = NoReservation]
             left == {q \in Pods : res[q] # NoReservation}
  <2>1. info \in GroupInfo /\ InfoOK(info) /\ groups' = [groups EXCEPT ![g] = new]
    BY <1>3 DEF Release, RegistryInv, InfoOK
  <2>2. \A h \in Groups : h # g => Same(h)
    BY <1>1, <2>1 DEF Same
  <2>3. groups'[g] = new
    BY <1>1, <2>1
  <2>4. CASE Cardinality(left) = 0
    <3>1. left = {}
      BY <2>4, EmptySet
    <3>2. \A q \in Pods \ {p} : info.reservations[q] = NoReservation
      BY <2>1, <3>1 DEF GroupInfo
    <3>3. new = NoGroup
      BY <2>4 DEF WithoutReservation
    <3> QED
      BY <1>3, <2>2, <2>3, <3>2, <3>3 DEF Exists
  <2>5. CASE Cardinality(left) # 0
    <3>1. /\ new.reservations = res /\ new.attempt = info.attempt
          /\ new.timerStarted = info.timerStarted /\ new.expired = info.expired
          /\ new.state = "ready" => info.state = "ready"
          /\ new \in GroupInfo
      <4> DEFINE drop(count) == IF count <= 1 THEN 0 ELSE count - 1
                 placed == [d \in Domains |-> IF d = info.reservations[p].domain
                                              THEN drop(info.placed[d])
                                              ELSE info.placed[d]]
                 state == IF info.state # "rejected" /\ Cardinality(left) < info.min
                          THEN "collecting" ELSE info.state
      <4>1. new = [info EXCEPT !.reservations = res, !.placed = placed, !.state = state]
        BY <2>5 DEF WithoutReservation
      <4>2. state = "ready" => info.state = "ready"
        OBVIOUS
      <4>3. info \in GroupInfo
        BY <2>1
      <4>4. res \in [Pods -> Reservation \cup {NoReservation}]
        BY <4>3 DEF GroupInfo
      <4>5. \A d \in Domains : info.placed[d] \in Nat
        BY <4>3 DEF GroupInfo
      <4>6. placed \in [Domains -> Nat]
        BY <4>5
      <4>7. state \in GroupState
        BY <4>3 DEF GroupInfo, GroupState
      <4> HIDE DEF new, res, placed, state, info
      <4>8. new \in GroupInfo
        BY <4>1, <4>3, <4>4, <4>6, <4>7, UpdateType
      <4>9. /\ new.reservations = res /\ new.attempt = info.attempt
            /\ new.timerStarted = info.timerStarted /\ new.expired = info.expired
            /\ new.state = state
        BY <4>1, <4>3 DEF GroupInfo
      <4> QED
        BY <4>2, <4>8, <4>9
    <3>2. new # NoGroup
      BY <3>1, RegistryAssumption
    <3> HIDE DEF new
    <3> QED
      BY <1>3, <2>2, <2>3, <3>1, <3>2 DEF Exists
  <2> QED
    BY <2>4, <2>5
<1> QED
  BY <1>2, <1>3

-----------------------------------------------------------------------------
(***************************************************************************)
(* Frames: what most steps have in common, so that each invariant is       *)
(* carried over once and every action only has to show that it is in the   *)
(* frame.                                                                  *)
(***************************************************************************)
Woken(p) ==
  \/ step = "allow" /\ p \in targets
  \/ step = "permit" /\ current \in Members(GroupOf(p))

\* The step leaves alone which members hold a reservation, and on which node.
HolderFrame ==
  \A p \in Pods : IsGang(p) =>
    /\ HoldsReservation(p)' <=> HoldsReservation(p)
    /\ HoldsReservation(p) /\ stage'[p] # "gone"
         => stage[p] # "gone" /\ assumed'[p] = assumed[p]

\* The step admits, parks and starts to wake members only as the invariants allow.
FlowFrame ==
  /\ \A p \in Pods : IsGang(p) /\ Admitted(p)'
       => HoldsReservation(p) /\ (Admitted(p) \/ quorum[GroupOf(p)])
  /\ step' = "allow" => /\ current' = current /\ current \in Pods
                        /\ HoldsReservation(current) /\ quorum[GroupOf(current)]
  /\ \A p \in Pods : stage'[p] = "waiting" /\ signal'[p] = "none"
       => \/ /\ stage[p] = "waiting" /\ signal[p] = "none"
             /\ Woken(p) => Woken(p)' \/ groups'[GroupOf(p)].state # "ready"
          \/ step = "wait" /\ p = current
  /\ \A p \in Pods : stage'[p] = "waiting"
       => stage[p] = "waiting" \/ (step = "wait" /\ p = current)
  /\ step' = "wait"
       => /\ current' = current
          /\ \/ step = "wait"
             \/ groups'[GroupOf(current)].state # "ready"
                /\ groups'[GroupOf(current)].timerStarted

NotMadeReady(g) ==
  Exists(g)' /\ groups'[g].state = "ready" => Exists(g) /\ groups[g].state = "ready"

TimerKept(g) ==
  /\ Exists(g)' /\ groups'[g].timerStarted
       => /\ Exists(g) /\ groups[g].timerStarted
          /\ groups'[g].attempt = groups[g].attempt
          /\ groups[g].expired => groups'[g].expired
  /\ Exists(g)' /\ Exists(g) /\ groups[g].timerStarted => groups'[g].timerStarted

\* Every started timer is in the set or its deadline has passed.
TimersCover(set) ==
  \A g \in Groups : Exists(g) /\ groups[g].timerStarted
    => [group |-> g, attempt |-> groups[g].attempt] \in set \/ groups[g].expired

LEMMA AdmittedHolds ==
  ASSUME FrameworkInv, NEW p \in Pods, Admitted(p) \/ stage[p] = "waiting"
  PROVE  HoldsReservation(p)
  BY DEF FrameworkInv, Admitted, HoldsReservation

LEMMA HolderHasGroup ==
  ASSUME ReservationMirror, NEW p \in Pods, IsGang(p), HoldsReservation(p)
  PROVE  GroupOf(p) \in Groups /\ Exists(GroupOf(p))
  BY GangLabel DEF ReservationMirror

\* At "wait" the pod of the cycle holds a reservation, so its group exists.
LEMMA WaitHasGroup ==
  ASSUME FrameworkInv, ReservationMirror, step = "wait"
  PROVE  GroupOf(current) \in Groups /\ Exists(GroupOf(current)) /\ current \in Pods
<1>1. current \in Pods /\ IsGang(current)
  BY CurrentPod DEF FrameworkInv
<1>2. HoldsReservation(current)
  BY DEF HoldsReservation
<1> QED
  BY <1>1, <1>2, HolderHasGroup

LEMMA MirrorFrame ==
  ASSUME ReservationMirror, HolderFrame, \A g \in Groups : Calm(g)
  PROVE  ReservationMirror'
<1> SUFFICES ASSUME NEW p \in Pods, IsGang(p)
             PROVE  IF HoldsReservation(p)'
                    THEN /\ Exists(GroupOf(p))'
                         /\ stage'[p] # "gone" =>
                              groups'[GroupOf(p)].reservations[p] = ReservationOn(assumed'[p])
                         /\ groups'[GroupOf(p)].reservations[p] # NoReservation
                    ELSE Exists(GroupOf(p))' =>
                           groups'[GroupOf(p)].reservations[p] = NoReservation
  BY DEF ReservationMirror, ReservationOn, IsGang, GroupOf
<1> QED
  BY GangLabel DEF ReservationMirror, HolderFrame, Calm

\* Release by the pod that stops holding a reservation in this step.
LEMMA MirrorRelease ==
  ASSUME RegistryInv, ReservationMirror, NEW p \in Pods, IsGang(p),
         Release(GroupOf(p), p), ~HoldsReservation(p)',
         \A q \in Pods \ {p} :
           /\ HoldsReservation(q)' <=> HoldsReservation(q)
           /\ stage'[q] = stage[q] /\ assumed'[q] = assumed[q]
  PROVE  ReservationMirror'
<1> SUFFICES ASSUME NEW q \in Pods, IsGang(q)
             PROVE  IF HoldsReservation(q)'
                    THEN /\ Exists(GroupOf(q))'
                         /\ stage'[q] # "gone" =>
                              groups'[GroupOf(q)].reservations[q] = ReservationOn(assumed'[q])
                         /\ groups'[GroupOf(q)].reservations[q] # NoReservation
                    ELSE Exists(GroupOf(q))' =>
                           groups'[GroupOf(q)].reservations[q] = NoReservation
  BY DEF ReservationMirror, ReservationOn, IsGang, GroupOf
<1> DEFINE g == GroupOf(p)
           h == GroupOf(q)
<1>1. g \in Groups /\ h \in Groups
  BY GangLabel
<1>2. Exists(g) => groups[g].reservations \in [Pods -> Reservation \cup {NoReservation}]
  BY <1>1, ReadyIsFull DEF GroupInfo
<1>3. CASE h # g
  <2>1. groups'[h] = groups[h] /\ q # p
    BY <1>1, <1>3, ReleaseEffect DEF Same
  <2> QED
    BY <2>1 DEF ReservationMirror, Exists
<1>4. CASE h = g /\ q # p
  <2>1. Exists(g) /\ Exists(g)' => groups'[g].reservations[q] = groups[g].reservations[q]
    BY <1>1, <1>2, <1>4, ReleaseEffect
  <2>2. Exists(g) /\ ~Exists(g)' => groups[g].reservations[q] = NoReservation
    BY <1>1, <1>4, ReleaseEffect
  <2>3. Exists(g)' => Exists(g)
    BY <1>1, ReleaseEffect
  <2> QED
    BY <1>4, <2>1, <2>2, <2>3 DEF ReservationMirror
<1>5. CASE q = p
  <2>1. Exists(g)' => groups'[g].reservations[p] = NoReservation
    BY <1>1, <1>2, ReleaseEffect
  <2> QED
    BY <1>5, <2>1
<1> QED
  BY <1>3, <1>4, <1>5

LEMMA BarrierFrame ==
  ASSUME FrameworkInv, FrameworkInv', ReservationMirror, BarrierInv, FlowFrame,
         \A g \in Groups : NotMadeReady(g) /\ (Exists(g) => quorum'[g] = quorum[g])
  PROVE  BarrierInv'
<1>1. (\A g \in Groups : Exists(g) /\ groups[g].state = "ready" => quorum[g])'
  BY DEF BarrierInv, NotMadeReady
<1>2. (step = "allow" => quorum[GroupOf(current)])'
  <2> SUFFICES ASSUME step' = "allow"
               PROVE  quorum'[GroupOf(current')]
    BY DEF GroupOf
  <2>1. /\ current' = current /\ current \in Pods /\ HoldsReservation(current)
        /\ quorum[GroupOf(current)]
    BY DEF FlowFrame
  <2>2. GroupOf(current) \in Groups /\ Exists(GroupOf(current))
    <3>1. IsGang(current)
      BY <2>1 DEF FrameworkInv, IsGang
    <3> QED
      BY <2>1, <3>1, HolderHasGroup
  <2> QED
    BY <2>1, <2>2
<1>3. BarrierNeverOpensEarly'
  <2> SUFFICES ASSUME NEW p \in Pods, IsGang(p), Admitted(p)'
               PROVE  quorum'[GroupOf(p)]
    BY DEF BarrierNeverOpensEarly, IsGang, GroupOf
  <2>1. HoldsReservation(p) /\ quorum[GroupOf(p)]
    BY DEF FlowFrame, BarrierInv, BarrierNeverOpensEarly
  <2> QED
    BY <2>1, HolderHasGroup
<1> QED
  BY <1>1, <1>2, <1>3 DEF BarrierInv

LEMMA WakeupFrame ==
  ASSUME FrameworkInv, FrameworkInv', ReservationMirror, ReservationMirror',
         WakeupInv, FlowFrame, \A g \in Groups : NotMadeReady(g)
  PROVE  WakeupInv'
<1>1. (step = "wait" => groups[GroupOf(current)].state # "ready")'
  <2> SUFFICES ASSUME step' = "wait"
               PROVE  groups'[GroupOf(current')].state # "ready"
    BY DEF GroupOf
  <2>1. current' = current
    BY DEF FlowFrame
  <2>2. CASE step # "wait"
    BY <2>1, <2>2 DEF FlowFrame
  <2>3. CASE step = "wait"
    <3>1. GroupOf(current) \in Groups /\ IsGang(current) /\ current \in Pods
      BY <2>3, WaitHasGroup DEF FrameworkInv
    <3>2. HoldsReservation(current)'
      BY <2>1 DEF HoldsReservation
    <3>3. Exists(GroupOf(current))'
      BY <2>1, <3>1, <3>2 DEF ReservationMirror, IsGang, GroupOf
    <3> QED
      BY <2>1, <2>3, <3>1, <3>3 DEF WakeupInv, NotMadeReady
  <2> QED
    BY <2>2, <2>3
<1>2. NoLostWakeup'
  <2> SUFFICES ASSUME NEW p \in Pods, stage'[p] = "waiting", signal'[p] = "none",
                      groups'[GroupOf(p)].state = "ready"
               PROVE  Woken(p)'
    BY DEF NoLostWakeup, Woken, Members, IsGang, GroupOf
  <2>1. IsGang(p)
    BY DEF FrameworkInv, IsGang
  <2>2. HoldsReservation(p)'
    BY DEF HoldsReservation
  <2>3. GroupOf(p) \in Groups /\ Exists(GroupOf(p))'
    BY <2>1, <2>2, GangLabel DEF ReservationMirror, IsGang, GroupOf
  <2>4. Exists(GroupOf(p)) /\ groups[GroupOf(p)].state = "ready"
    BY <2>3 DEF NotMadeReady
  <2>5. ~(step = "wait" /\ p = current)
    BY <2>4 DEF WakeupInv
  <2>6. stage[p] = "waiting" /\ signal[p] = "none" /\ (Woken(p) => Woken(p)')
    BY <2>5 DEF FlowFrame
  <2>7. Woken(p)
    BY <2>4, <2>6 DEF WakeupInv, NoLostWakeup, Woken
  <2> QED
    BY <2>6, <2>7
<1> QED
  BY <1>1, <1>2 DEF WakeupInv

LEMMA TimerFrame ==
  ASSUME FrameworkInv, FrameworkInv', ReservationMirror, ReservationMirror',
         TimerInv, FlowFrame, \A g \in Groups : TimerKept(g), TimersCover(armed')
  PROVE  TimerInv'
<1>1. (\A g \in Groups : Exists(g) /\ groups[g].timerStarted
        => \/ [group |-> g, attempt |-> groups[g].attempt] \in armed
           \/ groups[g].expired)'
  BY DEF TimersCover, TimerKept
<1>2. \A p \in Pods : HoldsReservation(p) /\ HoldsReservation(p)' /\ IsGang(p)
        => (groups[GroupOf(p)].timerStarted => groups'[GroupOf(p)].timerStarted)
  <2> SUFFICES ASSUME NEW p \in Pods, HoldsReservation(p), HoldsReservation(p)', IsGang(p)
               PROVE  groups[GroupOf(p)].timerStarted => groups'[GroupOf(p)].timerStarted
    OBVIOUS
  <2>1. GroupOf(p) \in Groups /\ Exists(GroupOf(p)) /\ Exists(GroupOf(p))'
    BY GangLabel DEF ReservationMirror, IsGang, GroupOf
  <2> QED
    BY <2>1 DEF TimerKept
<1>3. (step = "wait" => groups[GroupOf(current)].timerStarted)'
  <2> SUFFICES ASSUME step' = "wait"
               PROVE  groups'[GroupOf(current')].timerStarted
    BY DEF GroupOf
  <2>1. current' = current
    BY DEF FlowFrame
  <2>2. CASE step # "wait"
    BY <2>1, <2>2 DEF FlowFrame
  <2>3. CASE step = "wait"
    <3>1. IsGang(current) /\ current \in Pods
      BY <2>3, WaitHasGroup DEF FrameworkInv
    <3>2. HoldsReservation(current) /\ HoldsReservation(current)'
      BY <2>1, <2>3 DEF HoldsReservation
    <3> QED
      BY <1>2, <2>1, <2>3, <3>1, <3>2 DEF TimerInv
  <2> QED
    BY <2>2, <2>3
<1>4. (\A p \in Pods : stage[p] = "waiting" => groups[GroupOf(p)].timerStarted)'
  <2> SUFFICES ASSUME NEW p \in Pods, stage'[p] = "waiting"
               PROVE  groups'[GroupOf(p)].timerStarted
    BY DEF GroupOf
  <2>1. IsGang(p) /\ HoldsReservation(p)'
    BY DEF FrameworkInv, HoldsReservation, IsGang
  <2>2. stage[p] = "waiting" \/ (step = "wait" /\ p = current)
    BY DEF FlowFrame
  <2>3. HoldsReservation(p) /\ groups[GroupOf(p)].timerStarted
    BY <2>2 DEF HoldsReservation, TimerInv
  <2> QED
    BY <1>2, <2>1, <2>3
<1> QED
  BY <1>1, <1>3, <1>4 DEF TimerInv

-----------------------------------------------------------------------------
(***************************************************************************)
(* The actions that are in both frames, one step each.                     *)
(***************************************************************************)
QuietStep ==
  \/ \E p \in Pods : \/ StartCycle(p) \/ SignalSibling(p) \/ WaitOnPermit(p)
                     \/ Forget(p) \/ PodEnds(p) \/ PermitTimeout(p) \/ RejectParked(p)
                     \/ \E outcome \in {"bound", "unreserve"} : BindReturns(p, outcome)
  \/ PreFilterOther \/ NoNodeFits \/ PermitPlain \/ PermitSucceeds \/ Park
  \/ \E n \in Nodes : SelectNode(n)
  \/ \E g \in Groups : Deadline(g)
  \/ \E t \in Timer : TimerFires(t) \/ CollectParked(t)

\* PreFilter, whatever it answers, is in both frames.
LEMMA PreFilterFrames ==
  ASSUME FrameworkInv, step = "prefilter", step' \in {"select", "idle"},
         stage' \in {stage, [stage EXCEPT ![current] = "pending"]},
         UNCHANGED <<assumed, signal>>, current' \in {current, NoPod}
  PROVE  HolderFrame /\ FlowFrame
<1>1. current \in Pods /\ stage[current] = "cycling"
  BY CurrentPod
<1>2. HolderFrame
  BY <1>1 DEF HolderFrame, HoldsReservation, FrameworkInv, FrameworkTypes
<1>3. FlowFrame
  BY <1>1, <1>2, AdmittedHolds
  DEF FlowFrame, HolderFrame, Admitted, Woken, FrameworkInv, FrameworkTypes
<1> QED
  BY <1>2, <1>3

LEMMA QuietFrames ==
  ASSUME FrameworkInv, BarrierInv, WakeupInv, QuietStep
  PROVE  HolderFrame /\ FlowFrame
<1> USE TopoGangAssumption
<1> USE DEF FrameworkInv, FrameworkTypes, HolderFrame, HoldsReservation, FlowFrame,
            BarrierInv, Admitted, Woken, Members, IsGang, GroupOf
<1>1. ASSUME NEW p \in Pods, StartCycle(p)
      PROVE  HolderFrame /\ FlowFrame
  BY <1>1 DEF StartCycle
<1>2. ASSUME PreFilterOther
      PROVE  HolderFrame /\ FlowFrame
  <2>1. CycleMoves("select") \/ CycleEnds("pending")
    BY <1>2 DEF PreFilterOther
  <2>2. step = "prefilter" /\ UNCHANGED <<assumed, signal>>
    BY <1>2 DEF PreFilterOther
  <2>3. /\ step' \in {"select", "idle"} /\ current' \in {current, NoPod}
        /\ stage' \in {stage, [stage EXCEPT ![current] = "pending"]}
    BY <2>1 DEF CycleMoves, CycleEnds
  <2> QED
    BY <2>2, <2>3, PreFilterFrames
<1>3. ASSUME NEW n \in Nodes, SelectNode(n)
      PROVE  HolderFrame /\ FlowFrame
  BY <1>3 DEF SelectNode, CycleMoves
<1>4. ASSUME NoNodeFits
      PROVE  HolderFrame /\ FlowFrame
  BY <1>4 DEF NoNodeFits, CycleEnds
<1>5. ASSUME PermitPlain
      PROVE  HolderFrame /\ FlowFrame
  BY <1>5 DEF PermitPlain, CycleEnds
<1>6. ASSUME NEW p \in Pods, SignalSibling(p)
      PROVE  HolderFrame /\ FlowFrame
  BY <1>6, ZenonT(60) DEF SignalSibling, Signalled
<1>7. ASSUME PermitSucceeds
      PROVE  HolderFrame /\ FlowFrame
  BY <1>7 DEF PermitSucceeds, CycleEnds
<1>8. ASSUME Park
      PROVE  HolderFrame /\ FlowFrame
  BY <1>8 DEF Park, CycleEnds
<1>9. ASSUME NEW p \in Pods, WaitOnPermit(p)
      PROVE  HolderFrame /\ FlowFrame
  BY <1>9, ZenonT(60) DEF WaitOnPermit
<1>10. ASSUME NEW p \in Pods, NEW outcome \in {"bound", "unreserve"}, BindReturns(p, outcome)
      PROVE  HolderFrame /\ FlowFrame
  BY <1>10 DEF BindReturns, cycleVars
<1>11. ASSUME NEW p \in Pods, Forget(p)
      PROVE  HolderFrame /\ FlowFrame
  BY <1>11 DEF Forget, cycleVars
<1>12. ASSUME NEW p \in Pods, PodEnds(p)
      PROVE  HolderFrame /\ FlowFrame
  BY <1>12 DEF PodEnds, cycleVars
<1>13. ASSUME NEW g \in Groups, Deadline(g)
      PROVE  HolderFrame /\ FlowFrame
  BY <1>13 DEF Deadline, cycleVars, frameworkVars
<1>14. ASSUME NEW p \in Pods, PermitTimeout(p)
      PROVE  HolderFrame /\ FlowFrame
  BY <1>14 DEF PermitTimeout, Signalled, cycleVars
<1>15. ASSUME NEW p \in Pods, RejectParked(p)
      PROVE  HolderFrame /\ FlowFrame
  BY <1>15 DEF RejectParked, Signalled, cycleVars
<1>16. ASSUME NEW t \in Timer, TimerFires(t)
      PROVE  HolderFrame /\ FlowFrame
  BY <1>16 DEF TimerFires, cycleVars, frameworkVars
<1>17. ASSUME NEW t \in Timer, CollectParked(t)
      PROVE  HolderFrame /\ FlowFrame
  BY <1>17 DEF CollectParked, cycleVars, frameworkVars
<1> QED
  BY <1>1, <1>2, <1>3, <1>4, <1>5, <1>6, <1>7, <1>8, <1>9, <1>10, <1>11, <1>12, <1>13, <1>14, <1>15, <1>16, <1>17 DEF QuietStep

LEMMA QuietGroups ==
  ASSUME RegistryInv, QuietStep
  PROVE  /\ quorum' = quorum
         /\ \A g \in Groups : Calm(g) /\ NotMadeReady(g) /\ TimerKept(g)
<1>1. ASSUME NEW g \in Groups, Deadline(g)
      PROVE  /\ quorum' = quorum
             /\ \A h \in Groups : Calm(h) /\ NotMadeReady(h) /\ TimerKept(h)
  BY <1>1, DeadlineEffect DEF Deadline, Calm, NotMadeReady, TimerKept
<1>2. ASSUME NEW t \in Timer, TimerFires(t)
      PROVE  /\ quorum' = quorum
             /\ \A h \in Groups : Calm(h) /\ NotMadeReady(h) /\ TimerKept(h)
  <2>1. t.group \in Groups /\ RejectIfCollecting(t.group, t.attempt, TRUE)
    BY <1>2 DEF TimerFires, Timer
  <2>2. quorum' = quorum
    BY <1>2 DEF TimerFires
  <2> QED
    BY <2>1, <2>2, RejectEffect DEF Calm, NotMadeReady, TimerKept
<1>3. CASE /\ ~\E g \in Groups : Deadline(g)
           /\ ~\E t \in Timer : TimerFires(t)
  <2>1. quorum' = quorum /\ groups' = groups
    BY <1>3 DEF QuietStep, StartCycle, SignalSibling, WaitOnPermit, Forget, PodEnds,
                PermitTimeout, RejectParked, BindReturns, PreFilterOther, NoNodeFits,
                PermitPlain, PermitSucceeds, Park, SelectNode, CollectParked
  <2> QED
    BY <2>1 DEF Calm, NotMadeReady, TimerKept, Exists
<1> QED
  BY <1>1, <1>2, <1>3

\* Only a firing timer leaves `armed`, and its attempt is over or past its deadline.
LEMMA QuietTimers ==
  ASSUME QuietStep, TimerInv
  PROVE  TimersCover(armed')
<1>1. ASSUME NEW t \in Timer, TimerFires(t)
      PROVE  TimersCover(armed')
  <2> SUFFICES ASSUME NEW g \in Groups, Exists(g), groups[g].timerStarted,
                      ~groups[g].expired
               PROVE  [group |-> g, attempt |-> groups[g].attempt] \in armed'
    BY DEF TimersCover
  <2>1. [group |-> g, attempt |-> groups[g].attempt] \in armed
    BY DEF TimerInv
  <2>2. [group |-> g, attempt |-> groups[g].attempt] # t
    BY <1>1 DEF TimerFires
  <2> QED
    BY <1>1, <2>1, <2>2 DEF TimerFires
<1>2. CASE ~\E t \in Timer : TimerFires(t)
  <2>1. armed' = armed
    BY <1>2 DEF QuietStep, StartCycle, SignalSibling, WaitOnPermit, Forget, PodEnds,
                PermitTimeout, RejectParked, BindReturns, PreFilterOther, NoNodeFits,
                PermitPlain, PermitSucceeds, Park, SelectNode, CollectParked, Deadline,
                timerVars
  <2> QED
    BY <2>1 DEF TimersCover, TimerInv
<1> QED
  BY <1>1, <1>2

\* The timers' and the quorum's types.
LEMMA OtherTypes ==
  ASSUME RegistryInv, FrameworkInv, armed \subseteq Timer, firing \subseteq Timer,
         quorum \in [Groups -> BOOLEAN], [Next]_vars
  PROVE  armed' \subseteq Timer /\ firing' \subseteq Timer /\ quorum' \in [Groups -> BOOLEAN]
<1>1. CASE PreFilterGang
  BY <1>1, CurrentPod, GangLabel DEF PreFilterGang, timerVars
<1>2. CASE Reserve
  BY <1>2, CurrentPod, GangLabel DEF Reserve, timerVars
<1>3. ASSUME NEW past \in BOOLEAN, Permit(past)
      PROVE  armed' \subseteq Timer /\ firing' \subseteq Timer /\ quorum' \in [Groups -> BOOLEAN]
  <2>1. GroupOf(current) \in Groups /\ DecidePermit(GroupOf(current), past)
    BY <1>3, CurrentPod, GangLabel DEF Permit
  <2>2. groups[GroupOf(current)].attempt \in 1 .. MaxAttempts
    BY <2>1, PermitEffect DEF GroupInfo
  <2>3. [group |-> GroupOf(current), attempt |-> groups[GroupOf(current)].attempt] \in Timer
    BY <2>1, <2>2 DEF Timer
  <2> QED
    BY <1>3, <2>3 DEF Permit
<1>4. CASE QuietStep
  <2>1. armed' \subseteq armed
    BY <1>4 DEF QuietStep, StartCycle, SignalSibling, WaitOnPermit, Forget, PodEnds,
                PermitTimeout, RejectParked, BindReturns, PreFilterOther, NoNodeFits,
                PermitPlain, PermitSucceeds, Park, SelectNode, CollectParked, Deadline,
                TimerFires, timerVars
  <2>2. firing' \subseteq firing \/ \E t \in Timer : firing' = firing \cup {t}
    BY <1>4 DEF QuietStep, StartCycle, SignalSibling, WaitOnPermit, Forget, PodEnds,
                PermitTimeout, RejectParked, BindReturns, PreFilterOther, NoNodeFits,
                PermitPlain, PermitSucceeds, Park, SelectNode, CollectParked, Deadline,
                TimerFires, timerVars
  <2> QED
    BY <1>4, <2>1, <2>2, QuietGroups
<1>5. CASE PermitRejects \/ (\E p \in Pods : Unreserve(p)) \/ UNCHANGED vars
  BY <1>5 DEF PermitRejects, Unreserve, vars, timerVars
<1> QED
  BY <1>1, <1>2, <1>3, <1>4, <1>5
  DEF Next, CycleStep, BindingStep, TimerStep, QuietStep

-----------------------------------------------------------------------------
(***************************************************************************)
(* The four invariants, over every action.                                 *)
(***************************************************************************)
FlowInv == ReservationMirror /\ BarrierInv /\ WakeupInv /\ TimerInv

LEMMA QuietKeeps ==
  ASSUME GangInv, FrameworkInv', QuietStep
  PROVE  FlowInv'
<1>1. HolderFrame /\ FlowFrame
  BY QuietFrames DEF GangInv
<1>2. quorum' = quorum /\ \A g \in Groups : Calm(g) /\ NotMadeReady(g) /\ TimerKept(g)
  BY QuietGroups DEF GangInv
<1>3. ReservationMirror'
  BY <1>1, <1>2, MirrorFrame DEF GangInv
<1>4. BarrierInv'
  BY <1>1, <1>2, BarrierFrame DEF GangInv
<1>5. WakeupInv'
  BY <1>1, <1>2, <1>3, WakeupFrame DEF GangInv
<1>6. TimerInv'
  BY <1>1, <1>2, <1>3, QuietTimers, TimerFrame DEF GangInv
<1> QED
  BY <1>3, <1>4, <1>5, <1>6 DEF FlowInv

LEMMA PreFilterKeeps ==
  ASSUME GangInv, FrameworkInv', PreFilterGang
  PROVE  FlowInv'
<1> DEFINE g == GroupOf(current)
<1>1. current \in Pods /\ IsGang(current) /\ g \in Groups /\ MinOf(current) \in MinMembers
  BY CurrentPod, GangLabel DEF GangInv, PreFilterGang
<1>2. HolderFrame /\ FlowFrame
  <2>1. step = "prefilter" /\ UNCHANGED <<assumed, signal>>
    BY DEF PreFilterGang
  <2>2. CycleMoves("select") \/ CycleEnds("pending")
    BY DEF PreFilterGang
  <2>3. /\ step' \in {"select", "idle"} /\ current' \in {current, NoPod}
        /\ stage' \in {stage, [stage EXCEPT ![current] = "pending"]}
    BY <2>2 DEF CycleMoves, CycleEnds
  <2> QED
    BY <2>1, <2>3, PreFilterFrames DEF GangInv
<1>3. armed' = armed
  BY DEF PreFilterGang, timerVars
<1>4. CASE EnsureOK(g, MinOf(current)) /\ ~Exists(g)
  <2>1. /\ Ensure(g, MinOf(current))
        /\ quorum' = [quorum EXCEPT ![g] = FALSE]
    BY <1>4 DEF PreFilterGang
  <2>2. /\ \A h \in Groups : h # g => Same(h)
        /\ groups'[g] # NoGroup
        /\ \A p \in Pods : groups'[g].reservations[p] = NoReservation
        /\ groups'[g].state = "pending" /\ ~groups'[g].timerStarted
    <3>1. RegistryInv
      BY DEF GangInv
    <3>2. \A h \in Groups, m \in MinMembers : ~Exists(h) /\ Ensure(h, m)
            => /\ \A k \in Groups : k # h => Same(k)
               /\ groups'[h] # NoGroup
               /\ \A p \in Pods : groups'[h].reservations[p] = NoReservation
               /\ groups'[h].state = "pending" /\ ~groups'[h].timerStarted
      BY <3>1, EnsureEffect DEF Exists
    <3> QED
      BY <1>1, <1>4, <2>1, <3>2
  <2>3. \A h \in Groups : /\ NotMadeReady(h) /\ TimerKept(h)
                          /\ Exists(h) => quorum'[h] = quorum[h]
    BY <1>4, <2>1, <2>2 DEF NotMadeReady, TimerKept, Same, Exists, GangInv
  <2>4. ReservationMirror'
    <3> SUFFICES ASSUME NEW p \in Pods, IsGang(p)
                 PROVE  IF HoldsReservation(p)'
                        THEN /\ Exists(GroupOf(p))'
                             /\ stage'[p] # "gone" =>
                                  groups'[GroupOf(p)].reservations[p]
                                    = ReservationOn(assumed'[p])
                             /\ groups'[GroupOf(p)].reservations[p] # NoReservation
                        ELSE Exists(GroupOf(p))' =>
                               groups'[GroupOf(p)].reservations[p] = NoReservation
      BY DEF ReservationMirror, ReservationOn, IsGang, GroupOf
    <3>1. CASE GroupOf(p) = g
      BY <1>2, <1>4, <2>2, <3>1 DEF HolderFrame, ReservationMirror, GangInv
    <3>2. CASE GroupOf(p) # g
      BY <1>2, <2>2, <3>2, GangLabel
      DEF HolderFrame, ReservationMirror, GangInv, Same, Exists
    <3> QED
      BY <3>1, <3>2
  <2>5. TimersCover(armed')
    BY <1>3 DEF GangInv, TimerInv, TimersCover
  <2> QED
    BY <1>2, <2>3, <2>4, <2>5, BarrierFrame, WakeupFrame, TimerFrame DEF GangInv, FlowInv
<1>5. CASE ~EnsureOK(g, MinOf(current)) \/ Exists(g)
  <2>1. groups' = groups /\ quorum' = quorum
    BY <1>5 DEF PreFilterGang, Ensure, registryVars, GangInv
  <2>2. \A h \in Groups : Calm(h) /\ NotMadeReady(h) /\ TimerKept(h)
    BY <2>1 DEF Calm, NotMadeReady, TimerKept, Exists
  <2>3. ReservationMirror'
    BY <1>2, <2>2, MirrorFrame DEF GangInv
  <2>4. TimersCover(armed')
    BY <1>3 DEF GangInv, TimerInv, TimersCover
  <2> QED
    BY <1>2, <2>1, <2>2, <2>3, <2>4, BarrierFrame, WakeupFrame, TimerFrame
    DEF GangInv, FlowInv
<1> QED
  BY <1>4, <1>5

\* A member's Reserve: the one action that can make a group ready.
LEMMA AssignKeeps ==
  ASSUME GangInv, FrameworkInv', Reserve, IsGang(current),
         AssignOK(GroupOf(current), current, ReservationOn(assumed[current]))
  PROVE  FlowInv'
<1>0. current \in Pods /\ step = "reserve" /\ assumed[current] \in Nodes
  BY CurrentPod DEF GangInv, Reserve, FrameworkInv, AfterAssume
<1>. PICK c \in Pods, g \in Groups, r \in Reservation :
       c = current /\ g = GroupOf(current) /\ r = ReservationOn(assumed[current])
  BY <1>0, GangLabel, ReservationType
<1>1. /\ Assign(g, c, r) /\ IsGang(c)
      /\ quorum' = [quorum EXCEPT ![g] = quorum[g] \/ groups'[g].state = "ready"]
      /\ step' = "permit" /\ armed' = armed
      /\ UNCHANGED <<stage, assumed, signal, current, targets>>
  BY DEF Reserve, CycleMoves, timerVars
<1>2. /\ RegistryInv /\ FrameworkInv /\ ReservationMirror /\ BarrierInv /\ WakeupInv
      /\ TimerInv /\ quorum \in [Groups -> BOOLEAN]
  BY DEF GangInv
<1>3. /\ \A h \in Groups : h # g => Same(h)
      /\ groups[g] # NoGroup /\ groups'[g] # NoGroup
      /\ groups'[g].reservations = [groups[g].reservations EXCEPT ![c] = r]
      /\ groups'[g].attempt = groups[g].attempt
      /\ groups'[g].timerStarted = groups[g].timerStarted
      /\ groups'[g].expired = groups[g].expired
  BY <1>1, <1>2, AssignEffect DEF Exists
<1>4. groups[g].reservations \in [Pods -> Reservation \cup {NoReservation}]
  BY <1>2, <1>3, ReadyIsFull DEF GroupInfo, Exists
<1>5. \A p \in Pods : HoldsReservation(p)' <=> HoldsReservation(p) \/ p = c
  BY <1>0, <1>1 DEF HoldsReservation
<1>6. ReservationMirror'
  <2> SUFFICES ASSUME NEW p \in Pods, IsGang(p)
               PROVE  IF HoldsReservation(p)'
                      THEN /\ Exists(GroupOf(p))'
                           /\ stage'[p] # "gone" =>
                                groups'[GroupOf(p)].reservations[p]
                                  = ReservationOn(assumed'[p])
                           /\ groups'[GroupOf(p)].reservations[p] # NoReservation
                      ELSE Exists(GroupOf(p))' =>
                             groups'[GroupOf(p)].reservations[p] = NoReservation
    BY DEF ReservationMirror, ReservationOn, IsGang, GroupOf
  <2>1. CASE p = c
    BY <1>1, <1>3, <1>4, <1>5, <2>1, RegistryAssumption DEF Exists
  <2>2. CASE p # c /\ GroupOf(p) = g
    BY <1>1, <1>2, <1>3, <1>4, <1>5, <2>2 DEF ReservationMirror, Exists
  <2>3. CASE GroupOf(p) # g
    <3>1. groups'[GroupOf(p)] = groups[GroupOf(p)] /\ p # c
      BY <1>3, <2>3, GangLabel DEF Same
    <3> QED
      BY <1>1, <1>2, <1>5, <3>1 DEF ReservationMirror, Exists
  <2> QED
    BY <2>1, <2>2, <2>3
<1>7. BarrierInv'
  <2>1. \A h \in Groups : quorum[h] => quorum'[h]
    BY <1>1, <1>2
  <2>2. \A h \in Groups : groups'[h] # NoGroup /\ groups'[h].state = "ready" => quorum'[h]
    BY <1>1, <1>2, <1>3, ZenonT(60) DEF Same, BarrierInv, Exists
  <2>3. \A p \in Pods : Admitted(p)' <=> Admitted(p)
    BY <1>1 DEF Admitted
  <2>4. BarrierNeverOpensEarly'
    BY <1>2, <2>1, <2>3, GangLabel
    DEF BarrierInv, BarrierNeverOpensEarly, IsGang, GroupOf
  <2> QED
    BY <1>1, <2>2, <2>4 DEF BarrierInv, Exists
<1>8. WakeupInv'
  <2> SUFFICES ASSUME NEW p \in Pods, stage'[p] = "waiting", signal'[p] = "none",
                      groups'[GroupOf(p)].state = "ready"
               PROVE  c \in Members(GroupOf(p))
    BY <1>1 DEF WakeupInv, NoLostWakeup, Members, IsGang, GroupOf
  <2>1. stage[p] = "waiting" /\ signal[p] = "none" /\ IsGang(p) /\ GroupOf(p) \in Groups
    BY <1>1, <1>2, GangLabel DEF FrameworkInv
  <2>2. CASE GroupOf(p) = g
    BY <1>1, <2>2 DEF Members
  <2>3. CASE GroupOf(p) # g
    BY <1>0, <1>2, <1>3, <2>1, <2>3 DEF Same, WakeupInv, NoLostWakeup
  <2> QED
    BY <2>2, <2>3
<1>9. TimerInv'
  <2>1. \A h \in Groups : groups'[h] # NoGroup /\ groups'[h].timerStarted
          => \/ [group |-> h, attempt |-> groups'[h].attempt] \in armed
             \/ groups'[h].expired
    BY <1>2, <1>3 DEF Same, TimerInv, Exists
  <2>2. \A p \in Pods : stage'[p] = "waiting" => groups'[GroupOf(p)].timerStarted
    BY <1>1, <1>2, <1>3, GangLabel DEF Same, TimerInv, FrameworkInv
  <2> QED
    BY <1>1, <2>1, <2>2 DEF TimerInv, Exists, GroupOf
<1> QED
  BY <1>6, <1>7, <1>8, <1>9 DEF FlowInv

\* The pod of the cycle or a binding goroutine gives its reservation back.
LEMMA ReleaseKeeps ==
  ASSUME GangInv, FrameworkInv', NEW p \in Pods, IsGang(p), Release(GroupOf(p), p),
         ~HoldsReservation(p)',
         \A q \in Pods \ {p} : /\ HoldsReservation(q)' <=> HoldsReservation(q)
                               /\ stage'[q] = stage[q] /\ assumed'[q] = assumed[q],
         FlowFrame, UNCHANGED <<armed, quorum>>
  PROVE  FlowInv'
<1>1. /\ RegistryInv /\ FrameworkInv /\ ReservationMirror /\ BarrierInv /\ WakeupInv
      /\ TimerInv /\ GroupOf(p) \in Groups
  BY GangLabel DEF GangInv
<1>2. ReservationMirror'
  BY <1>1, MirrorRelease
<1>3. \A g \in Groups : NotMadeReady(g) /\ TimerKept(g)
  BY <1>1, ReleaseEffect DEF NotMadeReady, TimerKept, Same, Exists
<1>4. TimersCover(armed')
  BY <1>1 DEF TimerInv, TimersCover
<1> QED
  BY <1>1, <1>2, <1>3, <1>4, BarrierFrame, WakeupFrame, TimerFrame DEF FlowInv

\* A step that leaves the registry alone and is in both frames.
LEMMA IdleKeeps ==
  ASSUME GangInv, FrameworkInv', HolderFrame, FlowFrame, UNCHANGED <<groups, armed, quorum>>
  PROVE  FlowInv'
<1>1. \A g \in Groups : Calm(g) /\ NotMadeReady(g) /\ TimerKept(g)
  BY DEF Calm, NotMadeReady, TimerKept, Exists
<1>2. ReservationMirror'
  BY <1>1, MirrorFrame DEF GangInv
<1>3. TimersCover(armed')
  BY DEF GangInv, TimerInv, TimersCover
<1> QED
  BY <1>1, <1>2, <1>3, BarrierFrame, WakeupFrame, TimerFrame DEF GangInv, FlowInv

\* The cycle fails after its pod was assumed: Reserve fails, or Permit rejects.
LEMMA FailureKeeps ==
  ASSUME GangInv, FrameworkInv', CycleFails, step \in {"reserve", "reject"},
         UNCHANGED <<signal, armed, quorum>>
  PROVE  FlowInv'
<1>0. FrameworkInv
  BY DEF GangInv
<1>. PICK c \in Pods : c = current
  BY <1>0, CurrentPod
<1>1. /\ current' = NoPod /\ step' = "idle" /\ NoPod \notin Pods /\ c # NoPod
      /\ stage' = [stage EXCEPT ![c] = "pending"]
      /\ assumed' = [assumed EXCEPT ![c] = NoNode]
      /\ stage[c] = "cycling" /\ signal[c] = "none"
      /\ stage \in [Pods -> Stage] /\ assumed \in [Pods -> Nodes \cup {NoNode}]
  BY <1>0, TopoGangAssumption, CurrentPod
  DEF CycleFails, CycleEnds, FrameworkInv, FrameworkTypes
<1>2. ~HoldsReservation(c)'
  BY <1>1 DEF HoldsReservation
<1>3. \A q \in Pods \ {c} : /\ HoldsReservation(q)' <=> HoldsReservation(q)
                            /\ stage'[q] = stage[q] /\ assumed'[q] = assumed[q]
  BY <1>1 DEF HoldsReservation
<1>4. FlowFrame
  <2>1. \A p \in Pods : Admitted(p)' => Admitted(p)
    BY <1>1 DEF Admitted
  <2>2. \A p \in Pods : ~Woken(p)
    BY DEF Woken
  <2> QED
    BY <1>0, <1>1, <2>1, <2>2, AdmittedHolds DEF FlowFrame
<1>5. CASE IsGang(c)
  <2>1. Release(GroupOf(c), c)
    BY <1>5 DEF CycleFails
  <2> QED
    BY <1>2, <1>3, <1>4, <1>5, <2>1, ReleaseKeeps
<1>6. CASE ~IsGang(c)
  <2>1. groups' = groups
    BY <1>6 DEF CycleFails, registryVars
  <2>2. HolderFrame
    BY <1>3, <1>6 DEF HolderFrame
  <2> QED
    BY <1>4, <2>1, <2>2, IdleKeeps
<1> QED
  BY <1>5, <1>6

LEMMA ReserveKeeps ==
  ASSUME GangInv, FrameworkInv', Reserve
  PROVE  FlowInv'
<1>1. step = "reserve" /\ UNCHANGED <<signal, armed>>
  BY DEF Reserve, timerVars
<1>2. CASE IsGang(current) /\ AssignOK(GroupOf(current), current, ReservationOn(assumed[current]))
  BY <1>2, AssignKeeps
<1>3. CASE IsGang(current) /\ ~AssignOK(GroupOf(current), current, ReservationOn(assumed[current]))
  BY <1>1, <1>3, FailureKeeps DEF Reserve
<1>4. CASE ~IsGang(current)
  <2>1. /\ step' = "permit" /\ UNCHANGED <<groups, quorum, assumed, current, stage, targets>>
        /\ FrameworkInv
    BY <1>4 DEF Reserve, CycleMoves, GangInv
  <2>2. HolderFrame
    BY <1>1, <1>4, <2>1 DEF HolderFrame, HoldsReservation
  <2>3. FlowFrame
    <3>1. \A p \in Pods : Admitted(p)' => Admitted(p)
      BY <1>1, <2>1 DEF Admitted
    <3>2. \A p \in Pods : ~Woken(p)
      BY <1>1 DEF Woken
    <3> QED
      BY <1>1, <2>1, <3>1, <3>2, AdmittedHolds DEF FlowFrame
  <2> QED
    BY <1>1, <2>1, <2>2, <2>3, IdleKeeps
<1> QED
  BY <1>2, <1>3, <1>4

LEMMA UnreserveKeeps ==
  ASSUME GangInv, FrameworkInv', NEW p \in Pods, Unreserve(p)
  PROVE  FlowInv'
<1>1. /\ stage[p] = "unreserve" /\ stage' = [stage EXCEPT ![p] = "forget"]
      /\ UNCHANGED <<assumed, signal, current, step, targets, armed, quorum>>
      /\ FrameworkInv /\ stage \in [Pods -> Stage]
  BY DEF Unreserve, cycleVars, timerVars, GangInv, FrameworkInv, FrameworkTypes
<1>2. current # p
  BY <1>1 DEF FrameworkInv
<1>3. ~HoldsReservation(p)'
  BY <1>1, <1>2 DEF HoldsReservation
<1>4. \A q \in Pods \ {p} : /\ HoldsReservation(q)' <=> HoldsReservation(q)
                            /\ stage'[q] = stage[q] /\ assumed'[q] = assumed[q]
  BY <1>1 DEF HoldsReservation
<1>5. FlowFrame
  <2>1. \A q \in Pods : Admitted(q)' => Admitted(q)
    BY <1>1 DEF Admitted
  <2>2. step' = "allow" => /\ current \in Pods /\ HoldsReservation(current)
                           /\ quorum[GroupOf(current)]
    BY <1>1, CurrentPod DEF HoldsReservation, GangInv, BarrierInv
  <2>3. \A q \in Pods : Woken(q) => Woken(q)'
    BY <1>1 DEF Woken, Members, IsGang, GroupOf
  <2> QED
    BY <1>1, <2>1, <2>2, <2>3, AdmittedHolds DEF FlowFrame
<1>6. CASE IsGang(p)
  BY <1>1, <1>3, <1>4, <1>5, <1>6, ReleaseKeeps DEF Unreserve
<1>7. CASE ~IsGang(p)
  <2>1. groups' = groups
    BY <1>7 DEF Unreserve, registryVars
  <2>2. HolderFrame
    BY <1>4, <1>7 DEF HolderFrame
  <2> QED
    BY <1>1, <1>5, <2>1, <2>2, IdleKeeps
<1> QED
  BY <1>6, <1>7

\* A member's Permit: ready goes on to wake the parked siblings, wait starts the
\* attempt's timer before the member can be parked.
LEMMA PermitKeeps ==
  ASSUME GangInv, FrameworkInv', NEW past \in BOOLEAN, Permit(past)
  PROVE  FlowInv'
<1>0. /\ RegistryInv /\ FrameworkInv /\ ReservationMirror /\ BarrierInv /\ WakeupInv
      /\ TimerInv /\ step = "permit"
  BY DEF GangInv, Permit
<1>. PICK c \in Pods, g \in Groups : c = current /\ g = GroupOf(current)
  BY <1>0, CurrentPod, GangLabel DEF Permit
<1> DEFINE answer == Decision(groups[g], past)
           timer == [group |-> g, attempt |-> groups[g].attempt]
<1>1. /\ groups[g] # NoGroup /\ groups'[g] # NoGroup
      /\ \A h \in Groups : Calm(h) /\ (h # g => groups'[h] = groups[h])
      /\ answer \in {"ready", "rejected", "wait"}
      /\ answer = "ready" => groups[g].state = "ready"
      /\ answer # "ready" => groups'[g].state # "ready"
      /\ answer = "wait" => groups'[g].timerStarted
      /\ groups'[g].expired = groups[g].expired
      /\ groups'[g].attempt = groups[g].attempt
      /\ answer # "wait" => groups'[g].timerStarted = groups[g].timerStarted
  <2>1. DecidePermit(g, past)
    BY DEF Permit
  <2>2. Exists(g) /\ Calm(g)
    BY <1>0, <2>1, PermitEffect
  <2> QED
    BY <1>0, <2>1, <2>2, PermitEffect DEF Calm, Same, Exists
<1>2. /\ IsGang(c) /\ GroupOf(c) = g
      /\ targets' = IF answer = "wait" THEN {} ELSE Parked(g)
      /\ armed \subseteq armed'
      /\ answer = "wait" /\ ~groups[g].timerStarted => timer \in armed'
      /\ step' = CASE answer = "ready" -> "allow"
                   [] answer = "rejected" -> "reject"
                   [] OTHER -> "wait"
      /\ UNCHANGED <<stage, assumed, signal, current, quorum>>
  BY DEF Permit, StartTimer, frameworkVars
<1> HIDE DEF answer
<1>3. HolderFrame
  BY <1>0, <1>1, <1>2 DEF HolderFrame, HoldsReservation
<1>4. FlowFrame
  <2>1. \A p \in Pods : Admitted(p)' => Admitted(p)
    BY <1>2 DEF Admitted
  <2>2. step' = "allow" => HoldsReservation(c) /\ quorum[g]
    BY <1>0, <1>1, <1>2 DEF BarrierInv, Exists, HoldsReservation
  <2>3. ASSUME NEW p \in Pods, stage[p] = "waiting", Woken(p)
        PROVE  Woken(p)' \/ groups'[GroupOf(p)].state # "ready"
    <3>1. GroupOf(p) = g /\ p \in Parked(g)
      BY <1>0, <1>2, <2>3 DEF Woken, Members, Parked, FrameworkInv
    <3> QED
      BY <1>1, <1>2, <3>1 DEF Woken
  <2>4. step' = "wait" => groups'[g].state # "ready" /\ groups'[g].timerStarted
    BY <1>1, <1>2
  <2> QED
    BY <1>0, <1>2, <2>1, <2>2, <2>3, <2>4, AdmittedHolds DEF FlowFrame
<1>5. ReservationMirror'
  BY <1>0, <1>1, <1>3, MirrorFrame
<1>6. \A h \in Groups : NotMadeReady(h)
  BY <1>1 DEF Calm, NotMadeReady
<1>7. TimerInv'
  <2>1. ASSUME NEW h \in Groups, groups'[h] # NoGroup, groups'[h].timerStarted
        PROVE  \/ [group |-> h, attempt |-> groups'[h].attempt] \in armed'
               \/ groups'[h].expired
    <3>1. CASE h # g
      BY <1>0, <1>1, <1>2, <2>1, <3>1 DEF TimerInv, Exists
    <3>2. CASE h = g /\ groups[g].timerStarted
      BY <1>0, <1>1, <1>2, <3>2 DEF TimerInv, Exists
    <3>3. CASE h = g /\ ~groups[g].timerStarted
      BY <1>1, <1>2, <2>1, <3>3
    <3> QED
      BY <3>1, <3>2, <3>3
  <2>2. step' = "wait" => groups'[g].timerStarted
    BY <1>1, <1>2
  <2>3. \A p \in Pods : stage'[p] = "waiting" => groups'[GroupOf(p)].timerStarted
    <3> SUFFICES ASSUME NEW p \in Pods, stage[p] = "waiting"
                 PROVE  groups'[GroupOf(p)].timerStarted
      BY <1>2
    <3>1. IsGang(p) /\ groups[GroupOf(p)].timerStarted
      BY <1>0 DEF TimerInv, FrameworkInv
    <3>2. GroupOf(p) \in Groups /\ Exists(GroupOf(p))
      BY <1>0, <3>1, AdmittedHolds, HolderHasGroup
    <3> QED
      BY <1>1, <3>1, <3>2 DEF Calm
  <2> QED
    BY <1>2, <2>1, <2>2, <2>3 DEF TimerInv, Exists, GroupOf
<1> QED
  BY <1>0, <1>2, <1>4, <1>5, <1>6, <1>7, BarrierFrame, WakeupFrame DEF FlowInv

LEMMA GangStep ==
  ASSUME GangInv, [Next]_vars
  PROVE  GangInv'
<1>1. FrameworkInv'
  BY FrameworkStep DEF GangInv
<1>2. RegistryInv'
  BY RegistryStep, RegistryInvStep DEF GangInv
<1>3. armed' \subseteq Timer /\ firing' \subseteq Timer /\ quorum' \in [Groups -> BOOLEAN]
  BY OtherTypes DEF GangInv
<1>4. FlowInv'
  <2>1. CASE QuietStep
    BY <1>1, <2>1, QuietKeeps
  <2>2. CASE PreFilterGang
    BY <1>1, <2>2, PreFilterKeeps
  <2>3. CASE Reserve
    BY <1>1, <2>3, ReserveKeeps
  <2>4. CASE \E past \in BOOLEAN : Permit(past)
    BY <1>1, <2>4, PermitKeeps
  <2>5. CASE PermitRejects
    BY <1>1, <2>5, FailureKeeps DEF PermitRejects, timerVars
  <2>6. CASE \E p \in Pods : Unreserve(p)
    BY <1>1, <2>6, UnreserveKeeps
  <2>7. CASE UNCHANGED vars
    <3>1. UNCHANGED <<groups, stage, assumed, signal, current, step, targets, armed, quorum>>
      BY <2>7 DEF vars
    <3>2. HolderFrame
      BY <3>1 DEF HolderFrame, HoldsReservation
    <3>3. FlowFrame
      BY <3>1, AdmittedHolds, CurrentPod
      DEF FlowFrame, Admitted, Woken, HoldsReservation, GangInv, BarrierInv, FrameworkInv
    <3> QED
      BY <1>1, <3>1, <3>2, <3>3, IdleKeeps
  <2> QED
    BY <2>1, <2>2, <2>3, <2>4, <2>5, <2>6, <2>7
    DEF Next, CycleStep, BindingStep, TimerStep, QuietStep
<1> QED
  BY <1>1, <1>2, <1>3, <1>4 DEF GangInv, FlowInv

-----------------------------------------------------------------------------
(***************************************************************************)
(* The theorems.                                                           *)
(***************************************************************************)

\* The inductive invariant.
THEOREM GangInvariance == Spec => []GangInv
<1>1. Init => FrameworkInv
  BY TopoGangAssumption
  DEF Init, FrameworkInv, FrameworkTypes, Stage, Signal, Step, AfterAssume, OnNode
<1>2. Init => ReservationMirror /\ BarrierInv /\ WakeupInv /\ TimerInv
  <2> SUFFICES ASSUME Init
               PROVE  ReservationMirror /\ BarrierInv /\ WakeupInv /\ TimerInv
    OBVIOUS
  <2>1. /\ \A g \in Groups : groups[g] = NoGroup
        /\ \A p \in Pods : stage[p] = "pending" /\ signal[p] = "none"
        /\ step = "idle"
    BY DEF Init, RegistryInit
  <2>2. ReservationMirror
    BY <2>1, GangLabel DEF ReservationMirror, HoldsReservation, Exists
  <2>3. BarrierInv
    BY <2>1 DEF BarrierInv, BarrierNeverOpensEarly, Admitted, Exists
  <2>4. WakeupInv /\ TimerInv
    BY <2>1 DEF WakeupInv, NoLostWakeup, TimerInv, Exists
  <2> QED
    BY <2>2, <2>3, <2>4
<1>3. Init => armed \subseteq Timer /\ firing \subseteq Timer /\ quorum \in [Groups -> BOOLEAN]
  BY DEF Init
<1>4. Spec => []RegistryInv
  BY ImplementsRegistry, RegistryInvariance, PTL
<1>5. Init /\ RegistryInv => GangInv
  BY <1>1, <1>2, <1>3 DEF GangInv
<1>6. GangInv /\ [Next]_vars => GangInv'
  BY GangStep
<1> QED
  BY <1>4, <1>5, <1>6, PTL DEF Spec

\* Every variable keeps its type.
THEOREM TypeCorrect == Spec => []TypeOK
<1>1. GangInv => TypeOK
  BY DEF GangInv, RegistryInv, FrameworkInv, FrameworkTypes, TypeOK
<1> QED
  BY <1>1, GangInvariance, PTL

\* The registry's reservations are exactly the framework's: Reserve and Unreserve
\* are symmetric on every path, with any number of gangs, failures and timeouts.
THEOREM MirrorHolds == Spec => []ReservationMirror
<1>1. GangInv => ReservationMirror
  BY DEF GangInv
<1> QED
  BY <1>1, GangInvariance, PTL

\* No member gets past the barrier before its attempt had minMember members.
THEOREM BarrierHolds == Spec => []BarrierNeverOpensEarly
<1>1. GangInv => BarrierNeverOpensEarly
  BY DEF GangInv, BarrierInv
<1> QED
  BY <1>1, GangInvariance, PTL

\* No parked member of a ready gang is forgotten by the Permit that completed it.
THEOREM NoWakeupLost == Spec => []NoLostWakeup
<1>1. GangInv => NoLostWakeup
  BY DEF GangInv, WakeupInv
<1> QED
  BY <1>1, GangInvariance, PTL

\* A collecting attempt with a parked member has a timer, or is past its deadline.
THEOREM CollectingTimed == Spec => []CollectingIsTimed
<1>1. ASSUME GangInv
      PROVE  CollectingIsTimed
  <2> SUFFICES ASSUME NEW p \in Pods, stage[p] = "waiting"
               PROVE  LET g == GroupOf(p) IN
                        \/ [group |-> g, attempt |-> groups[g].attempt] \in armed
                        \/ groups[g].expired
    BY DEF CollectingIsTimed
  <2>1. IsGang(p) /\ HoldsReservation(p) /\ groups[GroupOf(p)].timerStarted
    BY <1>1 DEF GangInv, FrameworkInv, TimerInv, HoldsReservation
  <2>2. GroupOf(p) \in Groups /\ Exists(GroupOf(p))
    BY <1>1, <2>1, HolderHasGroup DEF GangInv
  <2> QED
    BY <1>1, <2>1, <2>2 DEF GangInv, TimerInv
<1> QED
  BY <1>1, GangInvariance, PTL

-----------------------------------------------------------------------------
(***************************************************************************)
(* The GPUs of the nodes.  A step either starts a cycle, places its pod,   *)
(* takes a pod off its node, or leaves the placement alone.                *)
(***************************************************************************)
BeforeAssume == {"prefilter", "select"}

Starts(p) ==
  /\ stage[p] = "pending" /\ stage' = [stage EXCEPT ![p] = "cycling"]
  /\ current' = p /\ step' = "prefilter" /\ snapshot' = assumed
  /\ UNCHANGED assumed

Places(n) ==
  /\ step = "select" /\ step' = "reserve" /\ Fits(snapshot, current, n)
  /\ assumed' = [assumed EXCEPT ![current] = n]
  /\ UNCHANGED <<current, stage>>

Removes(p) ==
  /\ assumed[p] \in Nodes /\ assumed' = [assumed EXCEPT ![p] = NoNode]
  /\ \E next \in {"pending", "gone"} : stage' = [stage EXCEPT ![p] = next]
  /\ step' \in BeforeAssume => UNCHANGED <<current, step, snapshot>>

Stays ==
  /\ UNCHANGED assumed
  /\ \A p \in Pods : stage'[p] = "gone" <=> stage[p] = "gone"
  /\ \A p \in Pods : stage'[p] = "pending"
                     => stage[p] = "pending" \/ (p = current /\ step \in BeforeAssume)
  /\ step' \in BeforeAssume => step \in BeforeAssume /\ UNCHANGED <<current, snapshot>>
  /\ step' = "select" /\ step # "select" => PreFilterGang \/ PreFilterOther

LEMMA PlacementCases ==
  ASSUME FrameworkInv, [Next]_vars
  PROVE  \/ \E p \in Pods : Starts(p)
         \/ \E n \in Nodes : Places(n)
         \/ \E p \in Pods : Removes(p)
         \/ Stays
<1> DEFINE Case == \/ \E p \in Pods : Starts(p)
                   \/ \E n \in Nodes : Places(n)
                   \/ \E p \in Pods : Removes(p)
                   \/ Stays
<1>fr. /\ stage = [p \in Pods |-> stage[p]]
       /\ step = "idle" <=> current = NoPod
       /\ \A p \in Pods : stage[p] = "cycling" <=> current = p
       /\ \A p \in Pods : stage[p] \in OnNode => assumed[p] \in Nodes
       /\ step \in AfterAssume => assumed[current] \in Nodes
       /\ current \in Pods \cup {NoPod} /\ step \in Step
  BY DEF FrameworkInv, FrameworkTypes
<1>1. ASSUME NEW p \in Pods, StartCycle(p) PROVE Case
  BY <1>1 DEF StartCycle, Starts
<1>2. ASSUME NEW n \in Nodes, SelectNode(n) PROVE Case
  BY <1>2 DEF SelectNode, CycleMoves, Places
<1>3. ASSUME CycleFails, step \in AfterAssume PROVE Case
  <2>1. Removes(current)
    BY <1>3, <1>fr DEF CycleFails, CycleEnds, Removes, BeforeAssume
  <2> QED BY <2>1, <1>3, CurrentPod DEF AfterAssume
<1>4. CASE Reserve
  <2>1. CASE CycleFails BY <1>3, <1>4, <2>1 DEF Reserve, AfterAssume
  <2>2. CASE ~CycleFails
    BY <1>4, <2>2 DEF Reserve, CycleMoves, Stays, BeforeAssume
  <2> QED BY <2>1, <2>2
<1>5. CASE PermitRejects BY <1>3, <1>5 DEF PermitRejects, AfterAssume
<1>6. ASSUME NEW p \in Pods, Forget(p) PROVE Case
  BY <1>6, <1>fr DEF Forget, cycleVars, Removes, OnNode
<1>7. ASSUME NEW p \in Pods, PodEnds(p) PROVE Case
  BY <1>7, <1>fr DEF PodEnds, cycleVars, Removes, OnNode
<1>8. ASSUME NEW next \in {"pending", "binding", "waiting"}, CycleEnds(next), UNCHANGED assumed,
             next = "pending" => step \in BeforeAssume, step # "idle"
      PROVE  Stays
  <2>1. stage[current] = "cycling" /\ current \in Pods BY <1>8, CurrentPod
  <2> QED BY <1>8, <2>1, <1>fr DEF CycleEnds, Stays, BeforeAssume
<1>9. CASE PreFilterOther
  <2>1. CASE IsPlain(current)
    BY <1>9, <2>1 DEF PreFilterOther, CycleMoves, Stays, BeforeAssume
  <2>2. CASE ~IsPlain(current)
    BY <1>8, <1>9, <2>2 DEF PreFilterOther, BeforeAssume
  <2> QED BY <2>1, <2>2
<1>10. CASE PreFilterGang
  <2>1. step = "prefilter" /\ UNCHANGED assumed BY <1>10 DEF PreFilterGang
  <2>2. CASE CycleMoves("select")
    BY <1>10, <2>1, <2>2 DEF CycleMoves, Stays, BeforeAssume
  <2>3. CASE CycleEnds("pending") BY <1>8, <2>1, <2>3 DEF BeforeAssume
  <2> QED BY <1>10, <2>2, <2>3 DEF PreFilterGang
<1>11. CASE NoNodeFits BY <1>8, <1>11 DEF NoNodeFits, BeforeAssume
<1>12. CASE PermitPlain \/ PermitSucceeds \/ Park
  BY <1>8, <1>12 DEF PermitPlain, PermitSucceeds, Park
<1>13. ASSUME NEW past \in BOOLEAN, Permit(past) PROVE Case
  BY <1>13 DEF Permit, frameworkVars, Stays, BeforeAssume
<1>14. ASSUME NEW p \in Pods,
              SignalSibling(p) \/ WaitOnPermit(p) \/ Unreserve(p)
              \/ \E outcome \in {"bound", "unreserve"} : BindReturns(p, outcome)
       PROVE  Case
  <2>1. CASE SignalSibling(p) BY <2>1 DEF SignalSibling, Stays, BeforeAssume
  <2>2. CASE WaitOnPermit(p) BY <2>2, <1>fr DEF WaitOnPermit, Stays
  <2>3. CASE Unreserve(p) BY <2>3, <1>fr DEF Unreserve, cycleVars, Stays
  <2>4. ASSUME NEW outcome \in {"bound", "unreserve"}, BindReturns(p, outcome) PROVE Stays
    BY <2>4, <1>fr DEF BindReturns, cycleVars, Stays
  <2> QED BY <1>14, <2>1, <2>2, <2>3, <2>4
<1>15. CASE \/ \E g \in Groups : Deadline(g)
            \/ \E p \in Pods : PermitTimeout(p) \/ RejectParked(p)
            \/ \E t \in Timer : TimerFires(t) \/ CollectParked(t)
            \/ UNCHANGED vars
  BY <1>15 DEF Deadline, PermitTimeout, RejectParked, TimerFires, CollectParked, frameworkVars,
               cycleVars, vars, Stays
<1> HIDE DEF Case
<1>16. Case
  BY <1>1, <1>2, <1>4, <1>5, <1>6, <1>7, <1>8, <1>9, <1>10, <1>11, <1>12, <1>13, <1>14, <1>15
  DEF Next, CycleStep, BindingStep, TimerStep, Case
<1> QED BY <1>16 DEF Case

-----------------------------------------------------------------------------
\* Free on a view of the cache.

LEMMA RequestType ==
  /\ \A p \in Pods : Request[p] \in Nat
  /\ \A n \in Nodes : Capacity[n] \in Nat
  /\ NoNode \notin Nodes /\ NoPod \notin Pods /\ IsFiniteSet(Nodes) /\ IsFiniteSet(Pods)
BY TopoGangAssumption, RegistryAssumption

LEMMA OnNodeSum ==
  ASSUME NEW view, NEW n \in Nodes
  PROVE  /\ IsFiniteSet({p \in Pods : view[p] = n})
         /\ SumFunctionOnSet(Request, {p \in Pods : view[p] = n}) \in Nat
         /\ Free(view, n) \in Int
<1>1. IsFiniteSet({p \in Pods : view[p] = n}) BY RegistryAssumption, FS_Subset
<1>2. \A p \in {q \in Pods : view[q] = n} : Request[p] \in Nat BY TopoGangAssumption
<1>3. SumFunctionOnSet(Request, {p \in Pods : view[p] = n}) \in Nat BY <1>1, <1>2, SumNat
<1>4. Capacity[n] \in Nat BY TopoGangAssumption
<1> QED BY <1>1, <1>3, <1>4 DEF Free

\* A view with fewer pods on a node has no less room there.
LEMMA FreeMonotone ==
  ASSUME NEW u, NEW v, NEW n \in Nodes, \A p \in Pods : v[p] = n => u[p] = n
  PROVE  Free(v, n) >= Free(u, n)
<1> DEFINE U == {p \in Pods : u[p] = n}
           V == {p \in Pods : v[p] = n}
<1>1. IsFiniteSet(U) /\ V \in SUBSET U BY OnNodeSum
<1>2. \A p \in U : Request[p] \in Nat BY TopoGangAssumption
<1>3. SumFunctionOnSet(Request, V) <= SumFunctionOnSet(Request, U)
  <2> HIDE DEF U, V
  <2> QED BY <1>1, <1>2, SumSubset
<1>4. /\ SumFunctionOnSet(Request, V) \in Nat /\ SumFunctionOnSet(Request, U) \in Nat
      /\ Capacity[n] \in Nat
  BY OnNodeSum, TopoGangAssumption
<1>5. Free(v, n) = Capacity[n] - SumFunctionOnSet(Request, V)
      /\ Free(u, n) = Capacity[n] - SumFunctionOnSet(Request, U)
  BY DEF Free
<1> HIDE DEF U, V
<1> QED BY <1>3, <1>4, <1>5

\* A pod placed on a node takes its GPUs there and no others.
LEMMA FreePlaced ==
  ASSUME NEW u, NEW v, NEW p \in Pods, NEW n \in Nodes,
         u[p] \notin Nodes, v[p] = n, \A q \in Pods : q # p => v[q] = u[q]
  PROVE  /\ Free(v, n) = Free(u, n) - Request[p]
         /\ \A m \in Nodes : m # n => Free(v, m) = Free(u, m)
<1>rq. /\ \A q \in Pods : Request[q] \in Int
       /\ Capacity[n] \in Int
  BY RequestType
<1> DEFINE U == {q \in Pods : u[q] = n}
           V == {q \in Pods : v[q] = n}
<1>1. V = U \cup {p} /\ p \notin U OBVIOUS
<1>2. IsFiniteSet(U) /\ SumFunctionOnSet(Request, U) \in Nat BY OnNodeSum
<1>3. \A q \in U : Request[q] \in Int BY <1>rq
<1>4. Request[p] \in Int /\ Capacity[n] \in Int BY <1>rq
<1>5. Free(v, n) = Capacity[n] - SumFunctionOnSet(Request, V)
      /\ Free(u, n) = Capacity[n] - SumFunctionOnSet(Request, U)
  BY DEF Free
<1>6. SumFunctionOnSet(Request, V) = Request[p] + SumFunctionOnSet(Request, U)
  <2> HIDE DEF U, V
  <2> QED BY <1>1, <1>2, <1>3, <1>4, SumAdd
<1>7. ASSUME NEW m \in Nodes, m # n PROVE Free(v, m) = Free(u, m)
  <2>1. {q \in Pods : v[q] = m} = {q \in Pods : u[q] = m} BY <1>7
  <2> QED BY <2>1 DEF Free
<1>8. Free(v, n) = Free(u, n) - Request[p]
  <2> HIDE DEF U, V
  <2> QED BY <1>2, <1>4, <1>5, <1>6
<1> QED BY <1>7, <1>8

-----------------------------------------------------------------------------
\* Why a decision on a snapshot is safe: since it was taken, pods have only left nodes.

Unplaced ==
  /\ \A p \in Pods : stage[p] = "pending" => assumed[p] = NoNode
  /\ step \in BeforeAssume =>
       /\ assumed[current] = NoNode
       /\ \A p \in Pods : assumed[p] \in {snapshot[p], NoNode}

NodeInv == NoOvercommit /\ Unplaced

LEMMA NodeInit == Init => NodeInv
<1> SUFFICES ASSUME Init PROVE NodeInv OBVIOUS
<1>1. Unplaced BY DEF Init, Unplaced, BeforeAssume
<1>2. ASSUME NEW n \in Nodes PROVE Free(assumed, n) >= 0
  <2>1. {p \in Pods : assumed[p] = n} = {} BY TopoGangAssumption DEF Init
  <2>2. Free(assumed, n) = Capacity[n] - SumFunctionOnSet(Request, {}) BY <2>1 DEF Free
  <2> QED BY <2>2, SumEmpty, TopoGangAssumption
<1> QED BY <1>1, <1>2 DEF NodeInv, NoOvercommit

LEMMA NodeStep ==
  ASSUME FrameworkInv, NodeInv, [Next]_vars
  PROVE  NodeInv'
<1>no. NoNode \notin Nodes /\ NoPod \notin Pods /\ Request \in [Pods -> Nat]
  BY TopoGangAssumption
<1>fr. /\ assumed \in [Pods -> Nodes \cup {NoNode}] /\ stage = [p \in Pods |-> stage[p]]
       /\ \A p \in Pods : stage[p] = "cycling" <=> current = p
  BY DEF FrameworkInv, FrameworkTypes
<1>nd. NoOvercommit /\ Unplaced BY DEF NodeInv
<1>free. ASSUME \A n \in Nodes, p \in Pods : assumed'[p] = n => assumed[p] = n
         PROVE  NoOvercommit'
  <2> SUFFICES ASSUME NEW n \in Nodes PROVE Free(assumed', n) >= 0 BY DEF NoOvercommit, Free
  <2>1. Free(assumed', n) >= Free(assumed, n) BY <1>free, FreeMonotone
  <2>2. Free(assumed, n) >= 0 BY <1>nd DEF NoOvercommit
  <2>3. Free(assumed, n) \in Int /\ Free(assumed', n) \in Int BY OnNodeSum
  <2> QED BY <2>1, <2>2, <2>3
<1>1. ASSUME NEW p \in Pods, Starts(p) PROVE NodeInv'
  <2>1. NoOvercommit' BY <1>1, <1>free DEF Starts
  <2>2. Unplaced' BY <1>1, <1>nd, <1>no, <1>fr DEF Starts, Unplaced
  <2> QED BY <2>1, <2>2 DEF NodeInv
<1>2. ASSUME NEW n \in Nodes, Places(n) PROVE NodeInv'
  <2>1. current \in Pods /\ stage[current] = "cycling" BY <1>2, CurrentPod DEF Places
  <2>2. assumed[current] = NoNode /\ \A p \in Pods : assumed[p] = n => snapshot[p] = n
    BY <1>2, <1>nd, <1>no DEF Places, Unplaced, BeforeAssume
  <2>3. /\ Free(assumed', n) = Free(assumed, n) - Request[current]
        /\ \A m \in Nodes : m # n => Free(assumed', m) = Free(assumed, m)
    <3>1. /\ assumed'[current] = n /\ assumed[current] \notin Nodes
          /\ \A q \in Pods : q # current => assumed'[q] = assumed[q]
      BY <1>2, <1>fr, <1>no, <2>1, <2>2 DEF Places
    <3> QED BY <3>1, <2>1, FreePlaced
  <2>4. Free(assumed, n) >= Free(snapshot, n) BY <2>2, FreeMonotone
  <2>5. Request[current] = 0 \/ Free(snapshot, n) >= Request[current]
    BY <1>2 DEF Places, Fits
  <2>6. /\ Free(assumed, n) \in Int /\ Free(snapshot, n) \in Int /\ Request[current] \in Nat
        /\ Free(assumed, n) >= 0
    BY <2>1, <1>nd, <1>no, OnNodeSum DEF NoOvercommit
  <2>7. Free(assumed', n) >= 0 BY <2>3, <2>4, <2>5, <2>6
  <2>8. \A m \in Nodes : Free(assumed', m) >= 0 BY <2>3, <2>7, <1>nd DEF NoOvercommit
  <2>9. NoOvercommit' BY <2>8 DEF NoOvercommit, Free
  <2>10. Unplaced' BY <1>2, <1>nd, <1>no, <1>fr, <2>1 DEF Places, Unplaced, BeforeAssume
  <2> QED BY <2>9, <2>10 DEF NodeInv
<1>3. ASSUME NEW p \in Pods, Removes(p) PROVE NodeInv'
  <2>1. NoOvercommit' BY <1>3, <1>fr, <1>no, <1>free DEF Removes
  <2>2. Unplaced' BY <1>3, <1>nd, <1>no, <1>fr DEF Removes, Unplaced, BeforeAssume
  <2> QED BY <2>1, <2>2 DEF NodeInv
<1>4. CASE Stays
  <2>1. NoOvercommit' BY <1>4, <1>free DEF Stays
  <2>2. Unplaced' BY <1>4, <1>nd, <1>no, <1>fr DEF Stays, Unplaced, BeforeAssume
  <2> QED BY <2>1, <2>2 DEF NodeInv
<1> QED BY <1>1, <1>2, <1>3, <1>4, PlacementCases

\* The inductive invariant of the nodes: no node is overcommitted, and since the running
\* cycle took its snapshot pods have left nodes but none has come.
THEOREM NodeInvariance == Spec => []NodeInv
<1>1. GangInv => FrameworkInv BY DEF GangInv
<1>2. FrameworkInv /\ NodeInv /\ [Next]_vars => NodeInv' BY NodeStep
<1> QED BY <1>1, <1>2, NodeInit, GangInvariance, PTL DEF Spec

\* No two pods share a GPU: however many binding goroutines, timers and ended pods change
\* the cache after the cycle's snapshot, the node that Filter let through has room.
THEOREM NeverOvercommitted == Spec => []NoOvercommit
<1>1. NodeInv => NoOvercommit BY DEF NodeInv
<1> QED BY <1>1, NodeInvariance, PTL

-----------------------------------------------------------------------------
\* Slots: room for pods of one size.

SlotsOn(view, request) ==
  [n \in Nodes |-> IF Free(view, n) <= 0 THEN 0 ELSE Free(view, n) \div request]

LEMMA SlotsAreSum ==
  ASSUME NEW view, NEW request \in Nat, request > 0
  PROVE  /\ Slots(view, request) = SumFunctionOnSet(SlotsOn(view, request), Nodes)
         /\ \A n \in Nodes : SlotsOn(view, request)[n] \in Nat
         /\ Slots(view, request) \in Nat
<1>1. \A n \in Nodes : SlotsOn(view, request)[n] \in Nat
  <2> SUFFICES ASSUME NEW n \in Nodes PROVE SlotsOn(view, request)[n] \in Nat OBVIOUS
  <2>1. PICK free \in Int : free = Free(view, n) BY OnNodeSum
  <2>2. SlotsOn(view, request)[n] = IF free <= 0 THEN 0 ELSE free \div request
    BY <2>1 DEF SlotsOn
  <2> QED BY <2>2
<1>2. Slots(view, request) = SumFunctionOnSet(SlotsOn(view, request), Nodes)
  BY DEF Slots, SlotsOn
<1> QED BY <1>1, <1>2, SumNat, RequestType

LEMMA SlotsMonotone ==
  ASSUME NEW u, NEW v, NEW request \in Nat, request > 0,
         \A n \in Nodes : Free(u, n) <= Free(v, n)
  PROVE  Slots(u, request) <= Slots(v, request)
<1> DEFINE f == SlotsOn(u, request)
           g == SlotsOn(v, request)
<1>1. ASSUME NEW n \in Nodes PROVE f[n] \in Int /\ g[n] \in Int /\ f[n] <= g[n]
  <2>1. PICK a \in Int : a = Free(u, n) BY OnNodeSum
  <2>2. PICK b \in Int : b = Free(v, n) BY OnNodeSum
  <2>3. a <= b BY <2>1, <2>2
  <2>4. /\ f[n] = IF a <= 0 THEN 0 ELSE a \div request
        /\ g[n] = IF b <= 0 THEN 0 ELSE b \div request
    BY <2>1, <2>2 DEF SlotsOn
  <2> HIDE DEF f, g
  <2> QED BY <2>3, <2>4
<1> HIDE DEF f, g
<1>2. SumFunctionOnSet(f, Nodes) <= SumFunctionOnSet(g, Nodes)
  BY <1>1, SumMonotone, RequestType
<1> QED BY <1>2, SlotsAreSum DEF f, g

\* A pod of that size, placed where there is room for it, takes one slot.
LEMMA SlotTaken ==
  ASSUME NEW u, NEW v, NEW p \in Pods, NEW n \in Nodes,
         u[p] \notin Nodes, v[p] = n, \A q \in Pods : q # p => v[q] = u[q],
         Request[p] > 0, Free(u, n) >= Request[p]
  PROVE  Slots(v, Request[p]) = Slots(u, Request[p]) - 1
<1>1. PICK r \in Nat : r = Request[p] BY RequestType
<1> DEFINE f == SlotsOn(u, r)
           g == SlotsOn(v, r)
<1>2. Free(v, n) = Free(u, n) - r /\ \A m \in Nodes : m # n => Free(v, m) = Free(u, m)
  BY <1>1, FreePlaced
<1>3. PICK a \in Int : a = Free(u, n) BY OnNodeSum
<1>4. f[n] = (IF a <= 0 THEN 0 ELSE a \div r)
      /\ g[n] = (IF a - r <= 0 THEN 0 ELSE (a - r) \div r)
  BY <1>2, <1>3 DEF SlotsOn
<1>5. \A m \in Nodes : m # n => g[m] = f[m] BY <1>2 DEF SlotsOn
<1>6. /\ SumFunctionOnSet(f, Nodes) = Slots(u, r) /\ SumFunctionOnSet(g, Nodes) = Slots(v, r)
      /\ \A m \in Nodes : f[m] \in Int /\ g[m] \in Int
      /\ Slots(u, r) \in Nat /\ Slots(v, r) \in Nat
  BY <1>1, SlotsAreSum
<1> HIDE DEF f, g
<1>7. g[n] = f[n] - 1
  <2>1. a >= r /\ r > 0 BY <1>1, <1>3
  <2>2. a \div r = (a - r) \div r + 1 BY <2>1, <1>1
  <2>3. a = r => (a - r) \div r = 0 BY <2>1
  <2> QED BY <2>1, <2>2, <2>3, <1>4
<1>8. SumFunctionOnSet(g, Nodes) = SumFunctionOnSet(f, Nodes) - f[n] + g[n]
  BY <1>5, <1>6, SumUpdate, RequestType
<1>9. f[n] \in Int /\ Slots(v, r) = Slots(u, r) - f[n] + g[n] BY <1>6, <1>8
<1>10. Slots(v, r) = Slots(u, r) - 1 BY <1>6, <1>7, <1>9
<1> QED BY <1>1, <1>10

-----------------------------------------------------------------------------
(***************************************************************************)
(* Gangs of one size never wait for each other in a circle.  The gangs are *)
(* ranked by their latest placement: if all gangs placed later gave their  *)
(* nodes back, a gang could be completed.  A placement takes one slot and  *)
(* moves its gang to the end, where its own PreFilter has counted the room *)
(* for the rest; a pod that leaves its node gives the slot back.           *)
(***************************************************************************)
\* All pods are members of gangs, ask for the same number of GPUs, and agree within a
\* gang on its minMember label.
UniformGangs ==
  \A p, q \in Pods : /\ IsGang(p) /\ Request[p] > 0 /\ Request[p] = Request[q]
                     /\ GroupOf(p) = GroupOf(q) => MinOf(p) = MinOf(q)

Held(g) == {p \in Members(g) : assumed[p] # NoNode \/ stage[p] = "gone"}

Later(rank, g) == {p \in Pods : assumed[p] # NoNode /\ rank[GroupOf(p)] > rank[g]}

Fillable(rank, g) ==
  \A p \in Held(g) :
    Cardinality(Held(g)) + Slots(assumed, Request[p]) + Cardinality(Later(rank, g)) >= MinOf(p)

Ordered(rank, top) == \A g \in Groups : rank[g] <= top /\ Fillable(rank, g)

SafeOrder == \E rank \in [Groups -> Nat], top \in Nat : Ordered(rank, top)

\* What PreFilter has checked still holds when the node is selected.
Checked ==
  step = "select" => Cardinality(Held(GroupOf(current))) + Slots(assumed, Request[current])
                       >= MinOf(current)

OwnMembers == \A g \in Groups : Exists(g) => Reserved(groups[g]) \subseteq Members(g)

WaitInv == OwnMembers /\ SafeOrder /\ Checked

LEMMA HeldFinite ==
  ASSUME NEW g, NEW rank, NEW h
  PROVE  /\ IsFiniteSet(Held(g)) /\ Cardinality(Held(g)) \in Nat
         /\ IsFiniteSet(Later(rank, h)) /\ Cardinality(Later(rank, h)) \in Nat
<1>1. Held(g) \subseteq Pods /\ Later(rank, h) \subseteq Pods BY DEF Held, Members, Later
<1> QED BY <1>1, RequestType, FS_Subset, FS_CardinalityType

LEMMA HeldFinitePrimed ==
  ASSUME NEW g, NEW rank, NEW h
  PROVE  /\ IsFiniteSet(Held(g)') /\ Cardinality(Held(g)') \in Nat
         /\ IsFiniteSet(Later(rank, h)') /\ Cardinality(Later(rank, h)') \in Nat
<1>1. Held(g)' \subseteq Pods /\ Later(rank, h)' \subseteq Pods BY DEF Held, Members, Later
<1> QED BY <1>1, RequestType, FS_Subset, FS_CardinalityType

\* With the mirror, a member's reservation and its node say the same.
LEMMA HoldingIsHeld ==
  ASSUME FrameworkInv, ReservationMirror, NEW g \in Groups
  PROVE  Holding(g) = Held(g)
<1> SUFFICES ASSUME NEW p \in Members(g)
             PROVE  (assumed[p] # NoNode \/ (Exists(g) /\ groups[g].reservations[p] # NoReservation))
                    <=> (assumed[p] # NoNode \/ stage[p] = "gone")
  BY DEF Holding, Held
<1>1. p \in Pods /\ IsGang(p) /\ GroupOf(p) = g BY DEF Members
<1>2. HoldsReservation(p) => Exists(g) /\ groups[g].reservations[p] # NoReservation
  BY <1>1 DEF ReservationMirror
<1>3. ~HoldsReservation(p) => (Exists(g) => groups[g].reservations[p] = NoReservation)
  BY <1>1 DEF ReservationMirror
<1>4. stage[p] = "gone" => HoldsReservation(p) BY DEF HoldsReservation
<1>5. HoldsReservation(p) => assumed[p] # NoNode \/ stage[p] = "gone"
  BY <1>1, TopoGangAssumption DEF HoldsReservation, FrameworkInv, OnNode, AfterAssume
<1> QED BY <1>2, <1>3, <1>4, <1>5

-----------------------------------------------------------------------------
LEMMA OwnStep ==
  ASSUME UniformGangs, GangInv, OwnMembers, [Next]_vars
  PROVE  OwnMembers'
<1>rg. RegistryInv /\ FrameworkInv BY DEF GangInv
<1>calm. ASSUME \A g \in Groups : Calm(g) PROVE OwnMembers'
  <2> SUFFICES ASSUME NEW g \in Groups, Exists(g)' PROVE Reserved(groups'[g]) \subseteq Members(g)
    BY DEF OwnMembers, Members, Exists
  <2>1. Exists(g) /\ groups'[g].reservations = groups[g].reservations BY <1>calm DEF Calm
  <2>2. Reserved(groups'[g]) = Reserved(groups[g]) BY <2>1 DEF Reserved
  <2> QED BY <2>1, <2>2 DEF OwnMembers
<1>same. ASSUME UNCHANGED groups PROVE OwnMembers'
  BY <1>calm, <1>same DEF Calm, Exists
<1>release. ASSUME NEW p \in Pods, NEW h \in Groups, Release(h, p) PROVE OwnMembers'
  <2> SUFFICES ASSUME NEW g \in Groups, Exists(g)' PROVE Reserved(groups'[g]) \subseteq Members(g)
    BY DEF OwnMembers, Members, Exists
  <2>1. CASE g # h
    <3>1. groups'[g] = groups[g] BY <2>1, <1>release, <1>rg, ReleaseEffect DEF Same
    <3> QED BY <3>1 DEF OwnMembers, Exists
  <2>2. CASE g = h
    <3>1. /\ Exists(g)
          /\ groups'[g].reservations = [groups[g].reservations EXCEPT ![p] = NoReservation]
      BY <2>2, <1>release, <1>rg, ReleaseEffect
    <3>2. groups[g].reservations = [q \in Pods |-> groups[g].reservations[q]]
      BY <3>1, <1>rg, ReadyIsFull DEF GroupInfo
    <3>3. Reserved(groups'[g]) \subseteq Reserved(groups[g]) BY <3>1, <3>2 DEF Reserved
    <3> QED BY <3>1, <3>3 DEF OwnMembers
  <2> QED BY <2>1, <2>2
<1>gang. \A p \in Pods : IsGang(p) /\ GroupOf(p) \in Groups /\ MinOf(p) \in MinMembers
  BY GangLabel DEF UniformGangs
<1>fails. ASSUME CycleFails, step # "idle" PROVE OwnMembers'
  BY <1>fails, <1>gang, <1>release, <1>rg, CurrentPod DEF CycleFails
<1>1. CASE QuietStep
  <2>1. \A g \in Groups : Calm(g) BY <1>1, <1>rg, QuietGroups
  <2> QED BY <2>1, <1>calm
<1>2. CASE PreFilterGang
  <2>1. current \in Pods BY <1>2, <1>rg, CurrentPod DEF PreFilterGang
  <2>2. CASE Ensure(GroupOf(current), MinOf(current))
    <3> SUFFICES ASSUME NEW g \in Groups, Exists(g)' PROVE Reserved(groups'[g]) \subseteq Members(g)
      BY DEF OwnMembers, Members, Exists
    <3>1. CASE g # GroupOf(current) \/ Exists(GroupOf(current))
      <4>1. groups'[g] = groups[g]
        BY <3>1, <2>1, <2>2, <1>gang, <1>rg, EnsureEffect DEF Same
      <4> QED BY <4>1 DEF OwnMembers, Exists
    <3>2. CASE g = GroupOf(current) /\ ~Exists(g)
      <4>1. \A p \in Pods : groups'[g].reservations[p] = NoReservation
        BY <3>2, <2>1, <2>2, <1>gang, <1>rg, EnsureEffect
      <4> QED BY <4>1 DEF Reserved
    <3> QED BY <3>1, <3>2
  <2>3. CASE ~Ensure(GroupOf(current), MinOf(current))
    BY <1>2, <2>3, <1>same DEF PreFilterGang
  <2> QED BY <2>2, <2>3
<1>3. CASE Reserve
  <2>1. current \in Pods BY <1>3, <1>rg, CurrentPod DEF Reserve
  <2>2. CASE CycleFails BY <1>3, <2>2, <1>fails DEF Reserve
  <2>3. CASE ~CycleFails
    <3> DEFINE h == GroupOf(current)
               r == ReservationOn(assumed[current])
    <3>1. Assign(h, current, r) BY <1>3, <2>1, <2>3, <1>gang DEF Reserve
    <3>2. h \in Groups /\ r \in Reservation
      BY <1>3, <2>1, <1>gang, <1>rg, ReservationType DEF Reserve, FrameworkInv, AfterAssume
    <3>3. /\ \A g \in Groups : g # h => Same(g)
          /\ Exists(h) /\ groups'[h].reservations = [groups[h].reservations EXCEPT ![current] = r]
      BY <3>1, <3>2, <2>1, <1>rg, AssignEffect
    <3>4. groups[h].reservations = [q \in Pods |-> groups[h].reservations[q]]
      BY <3>2, <3>3, <1>rg, ReadyIsFull DEF GroupInfo
    <3>5. current \in Members(h) BY <2>1, <1>gang DEF Members
    <3> HIDE DEF h, r
    <3> SUFFICES ASSUME NEW g \in Groups, Exists(g)' PROVE Reserved(groups'[g]) \subseteq Members(g)
      BY DEF OwnMembers, Members, Exists
    <3>6. CASE g # h BY <3>3, <3>6 DEF OwnMembers, Exists, Same
    <3>7. CASE g = h
      <4>1. Reserved(groups'[h]) \subseteq Reserved(groups[h]) \cup {current}
        BY <3>3, <3>4 DEF Reserved
      <4> QED BY <4>1, <3>2, <3>3, <3>5, <3>7 DEF OwnMembers
    <3> QED BY <3>6, <3>7
  <2> QED BY <2>2, <2>3
<1>4. ASSUME NEW past \in BOOLEAN, Permit(past) PROVE OwnMembers'
  <2>1. current \in Pods /\ DecidePermit(GroupOf(current), past)
    BY <1>4, <1>rg, CurrentPod DEF Permit
  <2>2. \A g \in Groups : Calm(g) \/ /\ Exists(g) <=> Exists(g)'
                                     /\ Exists(g) => groups'[g].reservations = groups[g].reservations
    BY <2>1, <1>gang, <1>rg, PermitEffect DEF Same
  <2> SUFFICES ASSUME NEW g \in Groups, Exists(g)' PROVE Reserved(groups'[g]) \subseteq Members(g)
    BY DEF OwnMembers, Members, Exists
  <2>3. Exists(g) /\ groups'[g].reservations = groups[g].reservations BY <2>2 DEF Calm
  <2>4. Reserved(groups'[g]) = Reserved(groups[g]) BY <2>3 DEF Reserved
  <2> QED BY <2>3, <2>4 DEF OwnMembers
<1>5. CASE PermitRejects BY <1>5, <1>fails DEF PermitRejects
<1>6. ASSUME NEW p \in Pods, Unreserve(p) PROVE OwnMembers'
  BY <1>6, <1>gang, <1>release DEF Unreserve
<1>7. CASE UNCHANGED vars BY <1>7, <1>same DEF vars
<1> QED
  BY <1>1, <1>2, <1>3, <1>4, <1>5, <1>6, <1>7
  DEF Next, CycleStep, BindingStep, TimerStep, QuietStep

-----------------------------------------------------------------------------
LEMMA SizeType ==
  ASSUME UniformGangs
  PROVE  \A p, q \in Pods : /\ IsGang(p) /\ GroupOf(p) \in Groups /\ MinOf(p) \in Nat
                            /\ Request[p] \in Nat /\ Request[p] > 0 /\ Request[p] = Request[q]
                            /\ GroupOf(p) = GroupOf(q) => MinOf(p) = MinOf(q)
BY GangLabel, RequestType, TopoGangAssumption, RegistryAssumption DEF UniformGangs

LEMMA AtMostOneLess ==
  ASSUME NEW S, NEW T, IsFiniteSet(S), IsFiniteSet(T), NEW e, S \ {e} \subseteq T
  PROVE  Cardinality(T) + 1 >= Cardinality(S)
<1>1. IsFiniteSet(S \ {e})
      /\ Cardinality(S \ {e}) = IF e \in S THEN Cardinality(S) - 1 ELSE Cardinality(S)
  BY FS_RemoveElement
<1>2. Cardinality(S \ {e}) <= Cardinality(T) BY FS_Subset
<1>3. Cardinality(S) \in Nat /\ Cardinality(T) \in Nat BY FS_CardinalityType
<1> QED BY <1>1, <1>2, <1>3

\* A gang that could be filled still can if it lost no room.
LEMMA StillFillable ==
  ASSUME UniformGangs, NEW g \in Groups, NEW rank, NEW rank2, Fillable(rank, g),
         Held(g)' \subseteq Held(g),
         \A p \in Pods :
           Cardinality(Held(g)') + Slots(assumed', Request[p]) + Cardinality(Later(rank2, g)')
           >= Cardinality(Held(g)) + Slots(assumed, Request[p]) + Cardinality(Later(rank, g))
  PROVE  Fillable(rank2, g)'
<1> SUFFICES ASSUME NEW p \in Held(g)'
             PROVE  Cardinality(Held(g)') + Slots(assumed', Request[p])
                      + Cardinality(Later(rank2, g)') >= MinOf(p)
  BY DEF Fillable, Slots, Free, MinOf
<1>1. p \in Held(g) /\ p \in Pods BY DEF Held, Members
<1>2. Cardinality(Held(g)) + Slots(assumed, Request[p]) + Cardinality(Later(rank, g)) >= MinOf(p)
  BY <1>1 DEF Fillable
<1>3. /\ Slots(assumed, Request[p]) \in Nat /\ Slots(assumed', Request[p]) \in Nat
      /\ MinOf(p) \in Nat
  BY <1>1, SizeType, SlotsAreSum
<1>4. /\ Cardinality(Held(g)) \in Nat /\ Cardinality(Held(g)') \in Nat
      /\ Cardinality(Later(rank, g)) \in Nat /\ Cardinality(Later(rank2, g)') \in Nat
  BY HeldFinite, HeldFinitePrimed
<1>5. Cardinality(Held(g)') + Slots(assumed', Request[p]) + Cardinality(Later(rank2, g)')
      >= Cardinality(Held(g)) + Slots(assumed, Request[p]) + Cardinality(Later(rank, g))
  BY <1>1
<1> QED BY <1>2, <1>3, <1>4, <1>5

\* A pod that leaves its node gives one slot back.
LEMMA SlotGivenBack ==
  ASSUME FrameworkInv, NodeInv, UniformGangs, NEW p \in Pods, Removes(p), NEW q \in Pods
  PROVE  Slots(assumed', Request[q]) = Slots(assumed, Request[q]) + 1
<1>1. /\ assumed[p] \in Nodes /\ assumed'[p] \notin Nodes
      /\ \A r \in Pods : r # p => assumed'[r] = assumed[r]
  BY RequestType DEF Removes, FrameworkInv, FrameworkTypes
<1>2. Free(assumed, assumed[p]) = Free(assumed', assumed[p]) - Request[p]
  BY <1>1, FreePlaced
<1>3. /\ Free(assumed, assumed[p]) \in Int /\ Free(assumed', assumed[p]) \in Int
      /\ Free(assumed, assumed[p]) >= 0
  BY <1>1, OnNodeSum DEF NodeInv, NoOvercommit
<1>4. Request[p] \in Nat /\ Request[p] > 0 /\ Request[q] = Request[p] BY SizeType
<1>5. Free(assumed', assumed[p]) >= Request[p] BY <1>2, <1>3, <1>4
<1>6. Slots(assumed, Request[p]) = Slots(assumed', Request[p]) - 1
  BY <1>1, <1>4, <1>5, SlotTaken
<1>7. Slots(assumed, Request[p]) \in Nat /\ Slots(assumed', Request[p]) \in Nat
  BY <1>4, SlotsAreSum
<1> QED BY <1>4, <1>6, <1>7

\* What the step takes from the gang's members and from those placed later.
LEMMA RemovedFromGang ==
  ASSUME FrameworkInv, UniformGangs, NEW p \in Pods, Removes(p), NEW g \in Groups,
         NEW rank \in [Groups -> Nat]
  PROVE  /\ Held(g)' \subseteq Held(g) /\ Held(g) \ {p} \subseteq Held(g)'
         /\ Later(rank, g)' \subseteq Later(rank, g)
         /\ Later(rank, g) \ {p} \subseteq Later(rank, g)'
         /\ Held(g) \subseteq Held(g)' \/ Later(rank, g) \subseteq Later(rank, g)'
<1>1. /\ assumed[p] # NoNode /\ assumed'[p] = NoNode
      /\ \A r \in Pods : r # p => assumed'[r] = assumed[r] /\ stage'[r] = stage[r]
  BY RequestType DEF Removes, FrameworkInv, FrameworkTypes
<1>2. p \in Held(g) <=> GroupOf(p) = g BY <1>1, SizeType DEF Held, Members
<1>3. Held(g)' \subseteq Held(g) /\ Held(g) \ {p} \subseteq Held(g)'
  BY <1>1, <1>2 DEF Held, Members
<1>4. Later(rank, g)' \subseteq Later(rank, g) /\ Later(rank, g) \ {p} \subseteq Later(rank, g)'
  BY <1>1 DEF Later
<1>5. CASE GroupOf(p) = g
  <2>1. p \notin Later(rank, g) BY <1>5 DEF Later
  <2> QED BY <2>1, <1>3, <1>4
<1>6. CASE GroupOf(p) # g BY <1>2, <1>3, <1>4, <1>6
<1> QED BY <1>3, <1>4, <1>5, <1>6

-----------------------------------------------------------------------------
LEMMA OrderStays ==
  ASSUME SafeOrder, Stays
  PROVE  SafeOrder'
<1>1. PICK rank \in [Groups -> Nat], top \in Nat : Ordered(rank, top) BY DEF SafeOrder
<1>2. ASSUME NEW g \in Groups PROVE Held(g)' = Held(g) /\ Later(rank, g)' = Later(rank, g)
  BY DEF Stays, Held, Later, Members
<1>3. Ordered(rank, top)'
  <2> SUFFICES ASSUME NEW g \in Groups PROVE (rank[g] <= top /\ Fillable(rank, g))'
    BY DEF Ordered
  <2>1. rank[g] <= top /\ Fillable(rank, g) BY <1>1 DEF Ordered
  <2>2. Fillable(rank, g)'
    BY <2>1, <1>2 DEF Fillable, Stays, Slots, Free
  <2> QED BY <2>1, <2>2
<1> QED BY <1>3 DEF SafeOrder

LEMMA OrderStarts ==
  ASSUME FrameworkInv, SafeOrder, NEW p \in Pods, Starts(p)
  PROVE  SafeOrder'
<1>1. PICK rank \in [Groups -> Nat], top \in Nat : Ordered(rank, top) BY DEF SafeOrder
<1>2. ASSUME NEW g \in Groups PROVE Held(g)' = Held(g) /\ Later(rank, g)' = Later(rank, g)
  BY DEF Starts, Held, Later, Members, FrameworkInv, FrameworkTypes
<1>3. Ordered(rank, top)'
  <2> SUFFICES ASSUME NEW g \in Groups PROVE (rank[g] <= top /\ Fillable(rank, g))'
    BY DEF Ordered
  <2>1. rank[g] <= top /\ Fillable(rank, g) BY <1>1 DEF Ordered
  <2>2. Fillable(rank, g)'
    BY <2>1, <1>2 DEF Fillable, Starts, Slots, Free
  <2> QED BY <2>1, <2>2
<1> QED BY <1>3 DEF SafeOrder

LEMMA OrderRemoves ==
  ASSUME FrameworkInv, NodeInv, UniformGangs, SafeOrder, NEW p \in Pods, Removes(p)
  PROVE  SafeOrder'
<1>1. PICK rank \in [Groups -> Nat], top \in Nat : Ordered(rank, top) BY DEF SafeOrder
<1>2. Ordered(rank, top)'
  <2> SUFFICES ASSUME NEW g \in Groups PROVE (rank[g] <= top /\ Fillable(rank, g))'
    BY DEF Ordered
  <2>1. rank[g] <= top /\ Fillable(rank, g) BY <1>1 DEF Ordered
  <2>2. /\ Held(g)' \subseteq Held(g) /\ Held(g) \ {p} \subseteq Held(g)'
        /\ Later(rank, g) \ {p} \subseteq Later(rank, g)'
        /\ Held(g) \subseteq Held(g)' \/ Later(rank, g) \subseteq Later(rank, g)'
    BY RemovedFromGang
  <2>3. /\ IsFiniteSet(Held(g)) /\ IsFiniteSet(Held(g)')
        /\ IsFiniteSet(Later(rank, g)) /\ IsFiniteSet(Later(rank, g)')
    BY HeldFinite, HeldFinitePrimed
  <2>4. ASSUME NEW q \in Pods
        PROVE  Cardinality(Held(g)') + Slots(assumed', Request[q]) + Cardinality(Later(rank, g)')
               >= Cardinality(Held(g)) + Slots(assumed, Request[q]) + Cardinality(Later(rank, g))
    <3> DEFINE h == Cardinality(Held(g))
               k == Cardinality(Held(g)')
               l == Cardinality(Later(rank, g))
               m == Cardinality(Later(rank, g)')
               s == Slots(assumed, Request[q])
               t == Slots(assumed', Request[q])
    <3>1. h \in Nat /\ k \in Nat /\ l \in Nat /\ m \in Nat BY HeldFinite, HeldFinitePrimed
    <3>2. s \in Nat /\ t = s + 1 BY SlotGivenBack, SizeType, SlotsAreSum
    <3>3. k + 1 >= h /\ m + 1 >= l BY <2>2, <2>3, AtMostOneLess
    <3>4. k >= h \/ m >= l BY <2>2, <2>3, FS_Subset
    <3> HIDE DEF h, k, l, m, s, t
    <3>5. k + t + m >= h + s + l BY <3>1, <3>2, <3>3, <3>4
    <3> QED BY <3>5 DEF h, k, l, m, s, t
  <2>5. Fillable(rank, g)' BY <2>1, <2>2, <2>4, StillFillable
  <2> QED BY <2>1, <2>5
<1> QED BY <1>2 DEF SafeOrder

-----------------------------------------------------------------------------
\* The pod that is placed takes one slot, on a node that has room for it.
LEMMA SlotGiven ==
  ASSUME FrameworkInv, NodeInv, UniformGangs, NEW n \in Nodes, Places(n), NEW q \in Pods
  PROVE  Slots(assumed', Request[q]) = Slots(assumed, Request[q]) - 1
<1>1. current \in Pods BY CurrentPod DEF Places
<1>2. /\ assumed[current] = NoNode
      /\ \A p \in Pods : assumed[p] = n => snapshot[p] = n
  BY <1>1, RequestType DEF Places, NodeInv, Unplaced, BeforeAssume
<1>3. /\ assumed[current] \notin Nodes /\ assumed'[current] = n
      /\ \A r \in Pods : r # current => assumed'[r] = assumed[r]
  BY <1>1, <1>2, RequestType DEF Places, FrameworkInv, FrameworkTypes
<1>4. Request[current] \in Nat /\ Request[current] > 0 /\ Request[q] = Request[current]
  BY <1>1, SizeType
<1>5. Free(assumed, n) >= Free(snapshot, n) BY <1>2, FreeMonotone
<1>6. Free(snapshot, n) >= Request[current] BY <1>4 DEF Places, Fits
<1>7. Free(assumed, n) \in Int /\ Free(snapshot, n) \in Int BY OnNodeSum
<1>8. Free(assumed, n) >= Request[current] BY <1>4, <1>5, <1>6, <1>7
<1>9. Slots(assumed', Request[current]) = Slots(assumed, Request[current]) - 1
  BY <1>1, <1>3, <1>4, <1>8, SlotTaken
<1> QED BY <1>4, <1>9

\* The gang of the placed pod comes last; what Checked says of it is enough for the rest
\* of its members.
LEMMA OrderPlaces ==
  ASSUME FrameworkInv, NodeInv, UniformGangs, SafeOrder, Checked, NEW n \in Nodes, Places(n)
  PROVE  SafeOrder'
<1>1. PICK rank \in [Groups -> Nat], top \in Nat : Ordered(rank, top) BY DEF SafeOrder
<1>2. PICK c \in Pods : c = current BY CurrentPod DEF Places
<1>3. PICK own \in Groups : own = GroupOf(c) BY SizeType
<1> DEFINE after == [rank EXCEPT ![own] = top + 1]
<1>4. after \in [Groups -> Nat] /\ top + 1 \in Nat OBVIOUS
<1>5. /\ assumed[c] = NoNode /\ stage[c] = "cycling" /\ assumed'[c] = n /\ n # NoNode
      /\ \A r \in Pods : r # c => assumed'[r] = assumed[r]
      /\ UNCHANGED stage
  BY <1>2, CurrentPod, RequestType
  DEF Places, NodeInv, Unplaced, BeforeAssume, FrameworkInv, FrameworkTypes
<1>6. ASSUME NEW g \in Groups PROVE rank[g] \in Nat /\ rank[g] <= top
  BY <1>1, <1>6 DEF Ordered
<1>7. ASSUME NEW q \in Pods
      PROVE  /\ Slots(assumed', Request[q]) = Slots(assumed, Request[q]) - 1
             /\ Slots(assumed, Request[q]) \in Nat /\ Slots(assumed', Request[q]) \in Nat
  BY SlotGiven, SizeType, SlotsAreSum
<1>8. Fillable(after, own)'
  <2> SUFFICES ASSUME NEW p \in Held(own)'
               PROVE  Cardinality(Held(own)') + Slots(assumed', Request[p])
                        + Cardinality(Later(after, own)') >= MinOf(p)
    BY DEF Fillable, Slots, Free, MinOf
  <2>1. p \in Pods /\ GroupOf(p) = own BY DEF Held, Members
  <2>2. MinOf(p) = MinOf(c) /\ MinOf(c) \in Nat /\ Request[p] = Request[c]
    BY <2>1, <1>3, SizeType
  <2>3. Held(own)' = Held(own) \cup {c} /\ c \notin Held(own)
    BY <1>3, <1>5, SizeType DEF Held, Members
  <2>4. Cardinality(Held(own)') = Cardinality(Held(own)) + 1
    BY <2>3, HeldFinite, FS_AddElement
  <2>5. Cardinality(Held(own)) + Slots(assumed, Request[c]) >= MinOf(c)
    BY <1>2, <1>3 DEF Checked, Places
  <2>6. Cardinality(Held(own)) \in Nat /\ Cardinality(Later(after, own)') \in Nat
    BY <1>2, HeldFinite, HeldFinitePrimed
  <2> HIDE DEF after
  <2> QED BY <2>1, <2>2, <2>4, <2>5, <2>6, <1>7
<1>9. ASSUME NEW g \in Groups, g # own PROVE Fillable(after, g)'
  <2>1. Held(g)' = Held(g) BY <1>3, <1>5, <1>9 DEF Held, Members
  <2>2. Later(rank, g) \cup {c} \subseteq Later(after, g)' /\ c \notin Later(rank, g)
    <3>1. after[g] = rank[g] /\ after[own] = top + 1
          /\ \A h \in Groups : h # own => after[h] = rank[h]
      BY <1>9
    <3> HIDE DEF after
    <3>2. ASSUME NEW q \in Pods, rank[GroupOf(q)] > rank[g]
          PROVE  after[GroupOf(q)] > after[g]
      <4>1. GroupOf(q) \in Groups BY SizeType
      <4>2. CASE GroupOf(q) = own BY <3>1, <4>2, <1>6
      <4>3. CASE GroupOf(q) # own BY <3>1, <3>2, <4>1, <4>3
      <4> QED BY <4>2, <4>3
    <3>3. after[GroupOf(c)] > after[g] BY <3>1, <1>3, <1>6
    <3>4. c \notin Later(rank, g) BY <1>5 DEF Later
    <3>5. \A q \in Later(rank, g) : q \in Later(after, g)'
      <4> SUFFICES ASSUME NEW q \in Later(rank, g) PROVE q \in Later(after, g)' OBVIOUS
      <4>1. q \in Pods /\ q # c /\ assumed'[q] # NoNode BY <1>5 DEF Later
      <4>2. after[GroupOf(q)] > after[g] BY <4>1, <3>2 DEF Later
      <4> QED BY <4>1, <4>2 DEF Later, after
    <3>6. c \in Later(after, g)' BY <3>3, <1>5 DEF Later, after
    <3> QED BY <3>4, <3>5, <3>6
  <2>3. /\ IsFiniteSet(Later(rank, g)) /\ IsFiniteSet(Later(after, g)')
        /\ Cardinality(Later(rank, g)) \in Nat /\ Cardinality(Later(after, g)') \in Nat
    BY <1>2, HeldFinite, HeldFinitePrimed
  <2>4. Cardinality(Later(after, g)') >= Cardinality(Later(rank, g)) + 1
    <3> HIDE DEF after
    <3>1. /\ Cardinality(Later(rank, g) \cup {c}) = Cardinality(Later(rank, g)) + 1
          /\ IsFiniteSet(Later(rank, g) \cup {c})
      BY <2>2, <2>3, FS_AddElement
    <3>2. Cardinality(Later(rank, g) \cup {c}) <= Cardinality(Later(after, g)')
      BY <2>2, <2>3, FS_Subset
    <3> QED BY <2>3, <3>1, <3>2
  <2>5. Cardinality(Held(g)) \in Nat BY HeldFinite
  <2>6. ASSUME NEW q \in Pods
        PROVE  Cardinality(Held(g)') + Slots(assumed', Request[q]) + Cardinality(Later(after, g)')
               >= Cardinality(Held(g)) + Slots(assumed, Request[q]) + Cardinality(Later(rank, g))
    <3> HIDE DEF after
    <3> QED BY <2>1, <2>3, <2>4, <2>5, <1>7
  <2>7. Fillable(rank, g) BY <1>1 DEF Ordered
  <2> HIDE DEF after
  <2> QED BY <2>1, <2>6, <2>7, StillFillable
<1>10. Ordered(after, top + 1)'
  <2> SUFFICES ASSUME NEW g \in Groups
               PROVE  after[g] <= top + 1 /\ Fillable(after, g)'
    BY DEF Ordered
  <2>1. after[g] <= top + 1 BY <1>6
  <2> HIDE DEF after
  <2> QED BY <2>1, <1>8, <1>9
<1> HIDE DEF after
<1> QED BY <1>4, <1>10 DEF SafeOrder

-----------------------------------------------------------------------------
\* PreFilter counts the reservations and the free GPUs of the snapshot; both are there
\* in the cache as well.
LEMMA CheckedByPreFilter ==
  ASSUME GangInv, NodeInv, UniformGangs, OwnMembers, PreFilterGang, step' = "select"
  PROVE  Cardinality(Held(GroupOf(current))) + Slots(assumed, Request[current]) >= MinOf(current)
<1>1. /\ FrameworkInv /\ ReservationMirror /\ step = "prefilter"
      /\ current \in Pods /\ GroupOf(current) \in Groups
  BY CurrentPod, SizeType DEF GangInv, PreFilterGang
<1> DEFINE g == GroupOf(current)
           reserved == IF Exists(g) THEN Assigned(groups[g]) ELSE 0
           held == Cardinality(Held(g))
           old == Slots(snapshot, Request[current])
           now == Slots(assumed, Request[current])
<1>2. GangFitsGPU(snapshot, current, reserved) BY DEF PreFilterGang, CycleEnds
<1>3. /\ Request[current] \in Nat /\ Request[current] > 0 /\ MinOf(current) \in Nat
      /\ reserved >= MinOf(current) \/ reserved + old >= MinOf(current)
  BY <1>1, <1>2, SizeType DEF GangFitsGPU
<1>4. old \in Nat /\ now \in Nat BY <1>3, SlotsAreSum
<1>5. old <= now
  <2>1. \A p \in Pods : assumed[p] \in {snapshot[p], NoNode}
    BY <1>1 DEF NodeInv, Unplaced, BeforeAssume
  <2>2. ASSUME NEW n \in Nodes PROVE Free(snapshot, n) <= Free(assumed, n)
    <3>1. \A p \in Pods : assumed[p] = n => snapshot[p] = n BY <2>1, RequestType
    <3>2. Free(assumed, n) >= Free(snapshot, n) BY <3>1, FreeMonotone
    <3> QED BY <3>2, OnNodeSum
  <2> QED BY <2>2, <1>3, SlotsMonotone
<1>6. held \in Nat BY HeldFinite
<1>7. reserved \in Nat /\ reserved <= held
  <2>1. CASE ~Exists(g) BY <2>1, <1>6
  <2>2. CASE Exists(g)
    <3>1. Reserved(groups[g]) \subseteq Holding(g)
      BY <1>1, <2>2 DEF OwnMembers, Holding, Reserved
    <3>2. Reserved(groups[g]) \subseteq Held(g) BY <1>1, <3>1, HoldingIsHeld
    <3>3. IsFiniteSet(Held(g)) BY HeldFinite
    <3>4. Cardinality(Reserved(groups[g])) \in Nat /\ Cardinality(Reserved(groups[g])) <= held
      BY <3>2, <3>3, FS_Subset, FS_CardinalityType
    <3> QED BY <2>2, <3>4 DEF Assigned
  <2> QED BY <2>1, <2>2
<1> HIDE DEF reserved, held, old, now
<1>8. held + now >= MinOf(current) BY <1>3, <1>4, <1>5, <1>6, <1>7
<1> QED BY <1>8 DEF held, now

LEMMA CheckedStep ==
  ASSUME GangInv, NodeInv, UniformGangs, OwnMembers, Checked, [Next]_vars
  PROVE  Checked'
<1>fr. FrameworkInv BY DEF GangInv
<1> SUFFICES ASSUME step' = "select"
             PROVE  Cardinality(Held(GroupOf(current))') + Slots(assumed', Request[current'])
                      >= MinOf(current')
  BY DEF Checked, Held, Members, Slots, Free, MinOf, GroupOf
<1>1. CASE Stays
  <2>1. /\ step \in BeforeAssume /\ current' = current /\ assumed' = assumed
        /\ step = "select" \/ PreFilterGang \/ PreFilterOther
    BY <1>1 DEF Stays, BeforeAssume
  <2>2. current \in Pods BY <2>1, <1>fr, CurrentPod DEF BeforeAssume
  <2>3. ~PreFilterOther BY <2>2, SizeType DEF PreFilterOther
  <2>4. Cardinality(Held(GroupOf(current))) + Slots(assumed, Request[current]) >= MinOf(current)
    BY <2>1, <2>3, CheckedByPreFilter DEF Checked
  <2>5. Held(GroupOf(current))' = Held(GroupOf(current))
    BY <1>1, <2>1 DEF Stays, Held, Members, GroupOf
  <2> QED BY <2>1, <2>4, <2>5
<1>2. ASSUME NEW p \in Pods, Removes(p)
      PROVE  Cardinality(Held(GroupOf(current))') + Slots(assumed', Request[current'])
               >= MinOf(current')
  <2>1. current' = current /\ step = "select" BY <1>2 DEF Removes, BeforeAssume
  <2>2. PICK c \in Pods : c = current /\ c = current' BY <2>1, <1>fr, CurrentPod
  <2>3. PICK g \in Groups : g = GroupOf(c) BY SizeType
  <2>4. Held(g) \ {p} \subseteq Held(g)'
    <3>1. PICK rank : rank = [h \in Groups |-> 0] OBVIOUS
    <3> QED BY <3>1, <1>2, <1>fr, RemovedFromGang
  <2>5. Cardinality(Held(g)') + 1 >= Cardinality(Held(g))
    BY <2>4, HeldFinite, HeldFinitePrimed, AtMostOneLess
  <2>6. Slots(assumed', Request[c]) = Slots(assumed, Request[c]) + 1
    BY <1>2, <1>fr, SlotGivenBack
  <2>7. Cardinality(Held(g)) + Slots(assumed, Request[c]) >= MinOf(c)
    BY <2>1, <2>2, <2>3 DEF Checked
  <2>8. /\ Slots(assumed, Request[c]) \in Nat /\ MinOf(c) \in Nat
        /\ Cardinality(Held(g)) \in Nat /\ Cardinality(Held(g)') \in Nat
    BY SizeType, SlotsAreSum, HeldFinite, HeldFinitePrimed
  <2>9. Cardinality(Held(g)') + Slots(assumed', Request[c]) >= MinOf(c)
    BY <2>5, <2>6, <2>7, <2>8
  <2>10. Held(GroupOf(current))' = Held(g)'
    BY <2>2, <2>3 DEF Held, Members, GroupOf
  <2> QED BY <2>2, <2>9, <2>10
<1>3. (\E p \in Pods : Starts(p)) \/ (\E n \in Nodes : Places(n)) => step' # "select"
  BY DEF Starts, Places
<1> QED BY <1>1, <1>2, <1>3, <1>fr, PlacementCases

LEMMA WaitInit ==
  ASSUME Init, UniformGangs
  PROVE  WaitInv
<1>1. \A g \in Groups : groups[g] = NoGroup BY DEF Init, RegistryInit
<1>2. OwnMembers BY <1>1 DEF OwnMembers, Exists
<1>3. Checked BY DEF Init, Checked
<1>4. ASSUME NEW g \in Groups PROVE Held(g) = {} BY DEF Init, Held, Members
<1>5. PICK rank \in [Groups -> Nat] : rank = [g \in Groups |-> 0] OBVIOUS
<1>6. Ordered(rank, 0)
  <2> SUFFICES ASSUME NEW g \in Groups PROVE rank[g] <= 0 /\ Fillable(rank, g) BY DEF Ordered
  <2>1. rank[g] <= 0 BY <1>5
  <2>2. Fillable(rank, g) BY <1>4 DEF Fillable
  <2> QED BY <2>1, <2>2
<1>7. SafeOrder BY <1>6 DEF SafeOrder
<1> QED BY <1>2, <1>3, <1>7 DEF WaitInv

LEMMA WaitStep ==
  ASSUME GangInv, NodeInv, UniformGangs, WaitInv, [Next]_vars
  PROVE  WaitInv'
<1>1. FrameworkInv /\ OwnMembers /\ SafeOrder /\ Checked BY DEF GangInv, WaitInv
<1>2. OwnMembers' BY <1>1, OwnStep
<1>3. Checked' BY <1>1, CheckedStep
<1>4. SafeOrder'
  BY <1>1, PlacementCases, OrderStarts, OrderPlaces, OrderRemoves, OrderStays
<1> QED BY <1>2, <1>3, <1>4 DEF WaitInv

\* The gang placed last among those that hold GPUs has nothing after it to wait for.
LEMMA LastCanFill ==
  ASSUME GangInv, UniformGangs, WaitInv
  PROVE  NoCircularWait
<1>fr. FrameworkInv /\ ReservationMirror BY DEF GangInv
<1> SUFFICES ASSUME NEW g0 \in Groups, Holding(g0) # {}
             PROVE  \E g \in Groups : \E p \in Holding(g) :
                      Cardinality(Holding(g)) + Slots(assumed, Request[p]) >= MinOf(p)
  BY DEF NoCircularWait
<1>1. \A g \in Groups : Holding(g) = Held(g) BY <1>fr, HoldingIsHeld
<1>2. PICK rank \in [Groups -> Nat], top \in Nat : Ordered(rank, top)
  BY DEF WaitInv, SafeOrder
<1> DEFINE Gaps == {top - rank[g] : g \in {h \in Groups : Held(h) # {}}}
<1>3. Gaps \subseteq Nat BY <1>2 DEF Ordered
<1>4. Gaps # {} BY <1>1
<1>5. PICK gap \in Gaps : \A k \in Gaps : gap <= k
  <2> HIDE DEF Gaps
  <2> QED BY <1>3, <1>4, LeastNumber
<1>6. PICK g \in Groups : Held(g) # {} /\ gap = top - rank[g] BY <1>5
<1>7. \A h \in Groups : Held(h) # {} => ~(rank[h] > rank[g])
  <2> SUFFICES ASSUME NEW h \in Groups, Held(h) # {} PROVE ~(rank[h] > rank[g]) OBVIOUS
  <2>1. top - rank[g] <= top - rank[h] BY <1>5, <1>6
  <2>2. rank[g] \in Nat /\ rank[h] \in Nat OBVIOUS
  <2> HIDE DEF Gaps
  <2> QED BY <2>1, <2>2
<1>8. Later(rank, g) = {}
  <2> SUFFICES ASSUME NEW p \in Pods, assumed[p] # NoNode, rank[GroupOf(p)] > rank[g]
               PROVE  FALSE
    BY DEF Later
  <2>1. GroupOf(p) \in Groups /\ p \in Held(GroupOf(p)) BY SizeType DEF Held, Members
  <2> QED BY <2>1, <1>7
<1>9. PICK p \in Held(g) : TRUE BY <1>6
<1>10. Cardinality(Held(g)) + Slots(assumed, Request[p]) + 0 >= MinOf(p)
  BY <1>2, <1>8, FS_EmptySet DEF Ordered, Fillable
<1>11. Cardinality(Held(g)) \in Nat /\ Slots(assumed, Request[p]) \in Nat
  <2>1. p \in Pods BY DEF Held, Members
  <2> QED BY <2>1, SizeType, SlotsAreSum, HeldFinite
<1>12. Cardinality(Held(g)) + Slots(assumed, Request[p]) >= MinOf(p) BY <1>10, <1>11
<1> QED BY <1>1, <1>9, <1>12

\* Partial gangs never wait for each other's GPUs in a circle: of the gangs that hold
\* some, one has its minMember members or finds room for the rest.  The hypothesis is
\* the scope of the capacity check itself: it counts slots of the pod's own size, so it
\* promises nothing when pods ask for different numbers of GPUs or when pods that are
\* no gang members take nodes without it.
THEOREM GangsNeverWedge == ASSUME UniformGangs PROVE Spec => []NoCircularWait
<1>1. Init => WaitInv BY WaitInit
<1>2. GangInv /\ NodeInv /\ WaitInv /\ [Next]_vars => WaitInv' BY WaitStep
<1>3. GangInv /\ WaitInv => NoCircularWait BY LastCanFill
<1> QED BY <1>1, <1>2, <1>3, GangInvariance, NodeInvariance, PTL DEF Spec
=============================================================================
