SPECIFICATION Spec
CONSTANTS
  Pods = {1, 2}
  Groups <- OneGroup
  Nodes <- TwoNodes
  Domains = {"d1"}
  MinMembers <- MinOneTwo
  MaxAttempts = 3
  NoDomain = NoDomain
  NoReservation = NoReservation
  NoGroup = NoGroup
  NoPod = NoPod
  NoNode = NoNode
  Label <- PairLabels
  Request <- OneGPUEach
  Capacity <- TwoAndOne
  DomainOf <- FirstLabelled
CHECK_DEADLOCK FALSE
INVARIANT RejectedByOwnDeadline
