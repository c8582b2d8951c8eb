SPECIFICATION UntimedSpec
CONSTANTS
  Pods = {1, 2, 3}
  Groups <- OneGroup
  Nodes <- TwoNodes
  Domains = {"d1"}
  MinMembers <- MinOneTwo
  MaxAttempts = 2
  NoDomain = NoDomain
  NoReservation = NoReservation
  NoGroup = NoGroup
  NoPod = NoPod
  NoNode = NoNode
  Label <- SpareLabels
  Request <- OneGPUEach
  Capacity <- TwoAndOne
  DomainOf <- FirstLabelled
CHECK_DEADLOCK FALSE
INVARIANTS
  TypeOK
  BarrierNeverOpensEarly
  NoLostWakeup
  CollectingIsTimed
PROPERTY ReadyGroupLeavesBarrier
