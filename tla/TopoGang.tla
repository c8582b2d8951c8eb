----------------------------- MODULE TopoGang -----------------------------
(***************************************************************************)
(* The TopoGang scheduler plugin (topogang/plugin.go) running inside       *)
(* kube-scheduler.  Three kinds of threads share the Registry:             *)
(*   - the scheduling cycle, one pod at a time: PreFilter, node selection  *)
(*     (Filter, Score), Reserve, Permit;                                   *)
(*   - one binding goroutine per admitted or parked pod: WaitOnPermit,     *)
(*     Bind, and Unreserve when either fails;                              *)
(*   - timer callbacks: the group deadline timer that Permit starts and    *)
(*     the framework's own timer of each parked pod.                       *)
(* The framework's part (external) is modelled as the plugin sees it.  Its *)
(* waitingPods map holds p exactly while stage[p] = "waiting".             *)
(***************************************************************************)
EXTENDS PodGroupRegistry, FiniteSetsExt

CONSTANTS
  NoPod, NoNode,
  Label,     \* the two gang labels of each pod
  Request,   \* gpuRequestForPod of each pod
  Capacity,  \* allocatable GPUs of each node
  DomainOf   \* topology label of each node, or NoDomain

PodLabels == [hasGroup : BOOLEAN, group : Groups \cup {""},
              hasMin : BOOLEAN, min : Nat]

ASSUME TopoGangAssumption ==
  /\ NoPod \notin Pods
  /\ NoNode \notin Nodes
  /\ IsFiniteSet(Nodes)
  /\ Label \in [Pods -> PodLabels]
  /\ \A p \in Pods : Label[p].min >= 1 => Label[p].min \in MinMembers
  /\ Request \in [Pods -> Nat]
  /\ Capacity \in [Nodes -> Nat]
  /\ DomainOf \in [Nodes -> Domains \cup {NoDomain}]

VARIABLES
  stage,      \* where the framework holds each pod
  assumed,    \* the scheduler cache: the node each pod is assumed on
  signal,     \* the one-slot channel of a parked pod
  current,    \* the pod in the scheduling cycle
  step,       \* the cycle's next step
  snapshot,   \* the cache as the cycle saw it when it started
  targets,    \* siblings the cycle's Permit has yet to allow or reject
  armed,      \* group deadline timers that have not fired
  firing,     \* callbacks that rejected their group, siblings not collected yet
  rejecting,  \* parked pods collected by a callback, Reject not called yet
  quorum      \* auxiliary: the current attempt has once held minMember members

frameworkVars == <<stage, assumed, signal>>
cycleVars == <<current, step, snapshot, targets>>
timerVars == <<armed, firing, rejecting>>
vars == <<groups, nextAttempt, stage, assumed, signal, current, step, snapshot,
          targets, armed, firing, rejecting, quorum>>

Stage == {"pending", "cycling", "waiting", "binding", "bound",
          "unreserve", "forget", "gone"}
Signal == {"none", "allow", "reject"}
Step == {"idle", "prefilter", "select", "reserve", "permit",
         "allow", "reject", "wait"}
Timer == [group : Groups, attempt : 1 .. MaxAttempts]

-----------------------------------------------------------------------------
\* parsePodGroup: normal pod, malformed gang pod, or member of a gang.

IsPlain(p) == ~Label[p].hasGroup /\ ~Label[p].hasMin

IsGang(p) == /\ Label[p].hasGroup /\ Label[p].group # ""
             /\ Label[p].hasMin /\ Label[p].min >= 1

GroupOf(p) == Label[p].group
MinOf(p) == Label[p].min

Members(g) == {p \in Pods : IsGang(p) /\ GroupOf(p) = g}
Parked(g) == {p \in Members(g) : stage[p] = "waiting"}

\* GPU accounting on a view of the cache.
Free(view, n) ==
  Capacity[n] - SumFunctionOnSet(Request, {p \in Pods : view[p] = n})

\* Mutant: any free GPU will do.
FitsOneGPU(view, p, n) == Request[p] = 0 \/ Free(view, n) >= 1

\* Filter: the node still has the GPUs the pod asks for.
Fits(view, p, n) == Request[p] = 0 \/ Free(view, n) >= Request[p]

\* How many pods of this size the snapshot has room for.
Slots(view, request) ==
  SumFunctionOnSet([n \in Nodes |-> IF Free(view, n) <= 0 THEN 0
                                    ELSE Free(view, n) \div request], Nodes)

\* Mutant: the check asks for room for this pod only.
GangFitsOne(view, p, reserved) ==
  Request[p] = 0 \/ Slots(view, Request[p]) >= 1

GangFitsGPU(view, p, reserved) ==
  \/ Request[p] = 0
  \/ reserved >= MinOf(p)
  \/ reserved + Slots(view, Request[p]) >= MinOf(p)

ReservationOn(n) == [node |-> n, domain |-> DomainOf[n]]

-----------------------------------------------------------------------------
Init ==
  /\ RegistryInit
  /\ stage = [p \in Pods |-> "pending"]
  /\ assumed = [p \in Pods |-> NoNode]
  /\ signal = [p \in Pods |-> "none"]
  /\ current = NoPod /\ step = "idle"
  /\ snapshot = [p \in Pods |-> NoNode]
  /\ targets = {}
  /\ armed = {} /\ firing = {} /\ rejecting = {}
  /\ quorum = [g \in Groups |-> FALSE]

\* The cycle is over and its pod goes on to `next`.
CycleEnds(next) ==
  /\ current' = NoPod /\ step' = "idle"
  /\ snapshot' = [p \in Pods |-> NoNode]
  /\ targets' = {}
  /\ stage' = [stage EXCEPT ![current] = next]

CycleMoves(to) ==
  /\ step' = to
  /\ UNCHANGED <<current, snapshot, targets, stage>>

\* External: the scheduler pops a pod and takes its snapshot of the cache.
StartCycle(p) ==
  /\ current = NoPod /\ stage[p] = "pending"
  /\ current' = p /\ step' = "prefilter"
  /\ snapshot' = assumed
  /\ stage' = [stage EXCEPT ![p] = "cycling"]
  /\ UNCHANGED <<groups, nextAttempt, assumed, signal, targets, timerVars, quorum>>

\* PreFilter of a pod that is no gang member: Skip, or an error for bad labels.
PreFilterOther ==
  /\ step = "prefilter" /\ ~IsGang(current)
  /\ IF IsPlain(current) THEN CycleMoves("select") ELSE CycleEnds("pending")
  /\ UNCHANGED <<groups, nextAttempt, assumed, signal, timerVars, quorum>>

\* PreFilter of a gang member: Ensure, then the whole-group capacity check with
\* the reserved count Ensure returned and the free GPUs of the snapshot.
PreFilterGang ==
  LET g == GroupOf(current)
      reserved == IF Exists(g) THEN Assigned(groups[g]) ELSE 0
  IN  /\ step = "prefilter" /\ IsGang(current)
      /\ IF EnsureOK(g, MinOf(current))
         THEN /\ Ensure(g, MinOf(current))
              /\ quorum' = [quorum EXCEPT ![g] = Exists(g) /\ @]
              /\ IF GangFitsGPU(snapshot, current, reserved)
                 THEN CycleMoves("select") ELSE CycleEnds("pending")
         ELSE CycleEnds("pending") /\ UNCHANGED <<groups, nextAttempt, quorum>>
      /\ UNCHANGED <<assumed, signal, timerVars>>

\* Filter on the snapshot, then any surviving node (Score only ranks them); the
\* framework assumes the pod on it before Reserve.
SelectNode(n) ==
  /\ step = "select" /\ Fits(snapshot, current, n)
  /\ assumed' = [assumed EXCEPT ![current] = n]
  /\ CycleMoves("reserve")
  /\ UNCHANGED <<groups, nextAttempt, signal, timerVars, quorum>>

NoNodeFits ==
  /\ step = "select" /\ \A n \in Nodes : ~Fits(snapshot, current, n)
  /\ CycleEnds("pending")
  /\ UNCHANGED <<groups, nextAttempt, assumed, signal, timerVars, quorum>>

\* Mutant: only a binding failure gives the reservation back.
CycleFailsUnreleased ==
  /\ UNCHANGED registryVars
  /\ assumed' = [assumed EXCEPT ![current] = NoNode]
  /\ CycleEnds("pending")

\* Mutant: the map entry is removed without Release, the counters and state stay.
CycleFailsBypassesRelease ==
  /\ groups' = IF IsGang(current) /\ Exists(GroupOf(current))
               THEN [groups EXCEPT ![GroupOf(current)].reservations[current] = NoReservation]
               ELSE groups
  /\ UNCHANGED nextAttempt
  /\ assumed' = [assumed EXCEPT ![current] = NoNode]
  /\ CycleEnds("pending")

\* A failure after assume: Unreserve, then ForgetPod, then the pod is requeued.
CycleFails ==
  /\ IF IsGang(current) THEN Release(GroupOf(current), current)
     ELSE UNCHANGED registryVars
  /\ assumed' = [assumed EXCEPT ![current] = NoNode]
  /\ CycleEnds("pending")

Reserve ==
  LET g == GroupOf(current)
      r == ReservationOn(assumed[current])
  IN  /\ step = "reserve"
      /\ IF IsGang(current) /\ ~AssignOK(g, current, r)
         THEN CycleFails /\ UNCHANGED quorum
         ELSE /\ IF IsGang(current)
                 THEN /\ Assign(g, current, r)
                      /\ quorum' = [quorum EXCEPT ![g] = @ \/ groups'[g].state = "ready"]
                 ELSE UNCHANGED <<groups, nextAttempt, quorum>>
              /\ CycleMoves("permit")
              /\ UNCHANGED assumed
      /\ UNCHANGED <<signal, timerVars>>

\* Permit of a pod that is no gang member: Success at once.
PermitPlain ==
  /\ step = "permit" /\ ~IsGang(current)
  /\ CycleEnds("binding")
  /\ UNCHANGED <<groups, nextAttempt, assumed, signal, timerVars, quorum>>

\* DecidePermit under the lock, then: the siblings to allow or to reject, or the
\* group timer for the first waiter.  The parked pods are collected after the
\* unlock; meanwhile only the cycle could park more, so collecting them here is
\* exact.
Permit(past) ==
  LET g == GroupOf(current)
      answer == Decision(groups[g], past)
  IN  /\ step = "permit" /\ IsGang(current)
      /\ DecidePermit(g, past)
      /\ targets' = IF answer = "wait" THEN {} ELSE Parked(g)
      /\ armed' = IF StartTimer(groups[g], past)
                  THEN armed \cup {[group |-> g, attempt |-> groups[g].attempt]}
                  ELSE armed
      /\ step' = CASE answer = "ready" -> "allow"
                   [] answer = "rejected" -> "reject"
                   [] OTHER -> "wait"
      /\ UNCHANGED <<frameworkVars, current, snapshot, firing, rejecting, quorum>>

\* WaitingPod.Allow and Reject: the first signal wins.
Signalled(p, s) == IF signal[p] = "none" THEN [signal EXCEPT ![p] = s] ELSE signal

\* Mutant: Allow under another plugin's name, which the framework ignores.
SignalSiblingIgnored(p) ==
  /\ step \in {"allow", "reject"} /\ p \in targets
  /\ signal' = IF step = "reject" THEN Signalled(p, step) ELSE signal
  /\ targets' = targets \ {p}
  /\ UNCHANGED <<groups, nextAttempt, stage, assumed, current, step, snapshot,
                 timerVars, quorum>>

\* One call of Allow or Reject in allowWaitingGroup or rejectWaitingGroup.
SignalSibling(p) ==
  /\ step \in {"allow", "reject"} /\ p \in targets
  /\ signal' = Signalled(p, step)
  /\ targets' = targets \ {p}
  /\ UNCHANGED <<groups, nextAttempt, stage, assumed, current, step, snapshot,
                 timerVars, quorum>>

\* Mutant: Permit returns before it has walked all its siblings.
PermitSucceedsEarly ==
  /\ step = "allow"
  /\ CycleEnds("binding")
  /\ UNCHANGED <<groups, nextAttempt, assumed, signal, timerVars, quorum>>

\* Permit returns Success: the pod's binding goroutine starts.
PermitSucceeds ==
  /\ step = "allow" /\ targets = {}
  /\ CycleEnds("binding")
  /\ UNCHANGED <<groups, nextAttempt, assumed, signal, timerVars, quorum>>

\* Permit returns Unschedulable.
PermitRejects ==
  /\ step = "reject" /\ targets = {}
  /\ CycleFails
  /\ UNCHANGED <<signal, timerVars, quorum>>

\* Permit returned Wait: only now does the framework put the pod into its map.
Park ==
  /\ step = "wait"
  /\ CycleEnds("waiting")
  /\ UNCHANGED <<groups, nextAttempt, assumed, signal, timerVars, quorum>>

-----------------------------------------------------------------------------
\* The binding goroutine of p.

\* External: WaitOnPermit takes the signal and removes the pod from the map; what
\* is sent to the removed entry later is never read.
WaitOnPermit(p) ==
  /\ stage[p] = "waiting" /\ signal[p] # "none"
  /\ stage' = [stage EXCEPT ![p] = IF signal[p] = "allow" THEN "binding"
                                   ELSE "unreserve"]
  /\ signal' = [signal EXCEPT ![p] = "none"]
  /\ targets' = targets \ {p}
  /\ rejecting' = rejecting \ {p}
  /\ UNCHANGED <<groups, nextAttempt, assumed, current, step, snapshot, armed,
                 firing, quorum>>

\* External: the bind call succeeds or fails.
BindReturns(p, outcome) ==
  /\ stage[p] = "binding"
  /\ stage' = [stage EXCEPT ![p] = outcome]
  /\ UNCHANGED <<groups, nextAttempt, assumed, signal, cycleVars, timerVars, quorum>>

Unreserve(p) ==
  /\ stage[p] = "unreserve"
  /\ IF IsGang(p) THEN Release(GroupOf(p), p) ELSE UNCHANGED registryVars
  /\ stage' = [stage EXCEPT ![p] = "forget"]
  /\ UNCHANGED <<assumed, signal, cycleVars, timerVars, quorum>>

\* External: ForgetPod after Unreserve, and the pod is queued again.
Forget(p) ==
  /\ stage[p] = "forget"
  /\ assumed' = [assumed EXCEPT ![p] = NoNode]
  /\ stage' = [stage EXCEPT ![p] = "pending"]
  /\ UNCHANGED <<groups, nextAttempt, signal, cycleVars, timerVars, quorum>>

\* External: a bound pod ends or is deleted.  No extension point tells the plugin.
PodEnds(p) ==
  /\ stage[p] = "bound"
  /\ stage' = [stage EXCEPT ![p] = "gone"]
  /\ assumed' = [assumed EXCEPT ![p] = NoNode]
  /\ UNCHANGED <<groups, nextAttempt, signal, cycleVars, timerVars, quorum>>

-----------------------------------------------------------------------------
\* Time.

Deadline(g) ==
  /\ DeadlinePasses(g)
  /\ UNCHANGED <<frameworkVars, cycleVars, timerVars, quorum>>

\* External: the framework's timer of a parked pod, set once to the time that was left
\* when its Permit returned. The pod's reservation keeps that attempt in the registry, so
\* the timer is due when the attempt is expired.
PermitTimeout(p) ==
  /\ stage[p] = "waiting" /\ signal[p] = "none"
  /\ groups[GroupOf(p)].expired
  /\ signal' = Signalled(p, "reject")
  /\ UNCHANGED <<groups, nextAttempt, stage, assumed, cycleVars, timerVars, quorum>>

\* The group timer fires no earlier than its attempt's deadline; an attempt that
\* is no longer current no longer matters to it.
TimerFires(t) ==
  LET own == Exists(t.group) /\ groups[t.group].attempt = t.attempt
  IN  /\ t \in armed
      /\ own => groups[t.group].expired
      /\ RejectIfCollecting(t.group, t.attempt, TRUE)
      /\ armed' = armed \ {t}
      /\ firing' = IF Rejects(t.group, t.attempt, TRUE) THEN firing \cup {t} ELSE firing
      /\ UNCHANGED <<frameworkVars, cycleVars, rejecting, quorum>>

\* rejectWaitingGroup in the callback: it collects the pods parked by now under
\* the group's name ...
CollectParked(t) ==
  /\ t \in firing
  /\ firing' = firing \ {t}
  /\ rejecting' = rejecting \cup Parked(t.group)
  /\ UNCHANGED <<groups, nextAttempt, frameworkVars, cycleVars, armed, quorum>>

\* ... and rejects them one by one.
RejectParked(p) ==
  /\ p \in rejecting
  /\ signal' = Signalled(p, "reject")
  /\ rejecting' = rejecting \ {p}
  /\ UNCHANGED <<groups, nextAttempt, stage, assumed, cycleVars, armed, firing, quorum>>

-----------------------------------------------------------------------------
CycleStep ==
  \/ \E p \in Pods : StartCycle(p)
  \/ PreFilterOther
  \/ PreFilterGang
  \/ \E n \in Nodes : SelectNode(n)
  \/ NoNodeFits
  \/ Reserve
  \/ PermitPlain
  \/ \E past \in BOOLEAN : Permit(past)
  \/ \E p \in Pods : SignalSibling(p)
  \/ PermitSucceeds
  \/ PermitRejects
  \/ Park

BindingStep(p) ==
  \/ WaitOnPermit(p)
  \/ \E outcome \in {"bound", "unreserve"} : BindReturns(p, outcome)
  \/ Unreserve(p)
  \/ Forget(p)

TimerStep ==
  \/ \E p \in Pods : PermitTimeout(p) \/ RejectParked(p)
  \/ \E t \in Timer : TimerFires(t) \/ CollectParked(t)

Next ==
  \/ CycleStep
  \/ \E p \in Pods : BindingStep(p) \/ PodEnds(p)
  \/ \E g \in Groups : Deadline(g)
  \/ TimerStep

Spec == Init /\ [][Next]_vars

\* The scheduling goroutine and the binding goroutines keep running.
ThreadFairness ==
  /\ WF_vars(CycleStep)
  /\ \A p \in Pods : WF_vars(BindingStep(p))

\* Clocks advance and runtime timers fire.
TimeFairness ==
  /\ \A g \in Groups : WF_vars(Deadline(g))
  /\ \A p \in Pods : WF_vars(PermitTimeout(p)) /\ WF_vars(RejectParked(p))
  /\ \A t \in Timer : WF_vars(TimerFires(t)) /\ WF_vars(CollectParked(t))

UntimedSpec == Spec /\ ThreadFairness
FairSpec == Spec /\ ThreadFairness /\ TimeFairness
-----------------------------------------------------------------------------
\* Properties.

\* The members of g that hold or are about to hold GPUs.
Holding(g) == {p \in Members(g) :
                 assumed[p] # NoNode \/ (Exists(g) /\ groups[g].reservations[p] # NoReservation)}

\* Past the barrier, or told that it may pass.
Admitted(p) == stage[p] \in {"binding", "bound", "gone"} \/ signal[p] = "allow"

\* Permit was reached and the binding cycle was not rolled back.
HoldsReservation(p) ==
  \/ stage[p] \in {"waiting", "binding", "bound", "unreserve", "gone"}
  \/ current = p /\ step \in {"permit", "allow", "reject", "wait"}

TypeOK ==
  /\ RegistryTypeOK
  /\ stage \in [Pods -> Stage]
  /\ assumed \in [Pods -> Nodes \cup {NoNode}]
  /\ signal \in [Pods -> Signal]
  /\ current \in Pods \cup {NoPod}
  /\ step \in Step
  /\ snapshot \in [Pods -> Nodes \cup {NoNode}]
  /\ targets \subseteq Pods
  /\ armed \subseteq Timer /\ firing \subseteq Timer
  /\ rejecting \subseteq Pods
  /\ quorum \in [Groups -> BOOLEAN]

\* Reserve and Unreserve are symmetric over every failure path: a member is in
\* its group's Reservations exactly while the framework holds it between Reserve
\* and Unreserve, on the node the framework assumed it on.  (A pod that has ended
\* keeps its reservation: nothing reports its end to the plugin.)
ReservationMirror ==
  \A p \in Pods : IsGang(p) =>
    LET g == GroupOf(p)
    IN  IF HoldsReservation(p)
        THEN /\ Exists(g)
             /\ stage[p] # "gone" => groups[g].reservations[p] = ReservationOn(assumed[p])
             /\ groups[g].reservations[p] # NoReservation
        ELSE Exists(g) => groups[g].reservations[p] = NoReservation

\* The barrier never opens early: a member is let through only if its current
\* attempt once held minMember reservations, whatever timers, retries, re-created
\* attempts and late callbacks did before.
BarrierNeverOpensEarly ==
  \A p \in Pods : IsGang(p) /\ Admitted(p) => quorum[GroupOf(p)]

\* When the last member arrives nobody but its Permit wakes the siblings: a
\* sibling parked in a ready group without a signal is always still ahead of a
\* Permit of that group that will allow it.
NoLostWakeup ==
  \A p \in Pods :
    stage[p] = "waiting" /\ signal[p] = "none" /\ groups[GroupOf(p)].state = "ready"
    => \/ step = "allow" /\ p \in targets
       \/ step = "permit" /\ current \in Members(GroupOf(p))

\* An attempt that is still collecting with a parked member has a group timer that
\* will end it, or its deadline has passed already.
CollectingIsTimed ==
  \A p \in Pods : stage[p] = "waiting" =>
    LET g == GroupOf(p) IN
      \/ groups[g].state # "collecting"
      \/ [group |-> g, attempt |-> groups[g].attempt] \in armed
      \/ groups[g].expired

\* The filter on a snapshot that other goroutines have since changed never lets
\* two pods share a GPU.
NoOvercommit == \A n \in Nodes : Free(assumed, n) >= 0

\* The whole-group capacity check keeps gangs from holding GPUs in a circle: when
\* any gang holds some, one of those gangs has its minMember members or there is
\* room for the rest of them.  (For pods of one size and no other pods: the check
\* promises no more.)
NoCircularWait ==
  (\E g \in Groups : Holding(g) # {}) =>
     \E g \in Groups : \E p \in Holding(g) :
        Cardinality(Holding(g)) + Slots(assumed, Request[p]) >= MinOf(p)

\* A member parked in a ready group leaves the barrier although no clock advances:
\* the Permit that completed the gang wakes it.
ReadyGroupLeavesBarrier ==
  \A p \in Pods : IsGang(p) =>
    (stage[p] = "waiting" /\ groups[GroupOf(p)].state = "ready" ~> stage[p] # "waiting")

\* No member is parked for ever, whatever becomes of the rest of its gang.
BarrierIsLeft ==
  \A p \in Pods : stage[p] = "waiting" ~> stage[p] # "waiting"

-----------------------------------------------------------------------------
\* What the repository says of the program and the program does not do.

\* plugin.go:118: "Permit is what actually enforces all-or-nothing": of a gang's
\* members, one does not get bound while another is turned away by the barrier
\* in the same attempt.
AllOrNothing ==
  \A g \in Groups : \A p, q \in Members(g) :
    ~(stage[p] = "bound" /\ stage[q] = "waiting" /\ signal[q] = "reject")

\* podgroup.go:27: "Rejected is terminal for this attempt only; the members are
\* requeued and the group is re-created from scratch on the next attempt".
RejectedAttemptEnds ==
  \A g \in Groups :
    Exists(g) /\ groups[g].state = "rejected" ~> ~(Exists(g) /\ groups[g].state = "rejected")

\* podgroup.go:70: "AttemptID distinguishes a newly-created attempt from stale
\* timeout callbacks": a member is turned away only by the deadline of the attempt
\* it is parked in.
RejectedByOwnDeadline ==
  \A p \in Pods :
    stage[p] = "waiting" /\ signal[p] = "reject" => groups[GroupOf(p)].expired
=============================================================================
