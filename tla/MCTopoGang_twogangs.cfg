SPECIFICATION Spec
CONSTANTS
  Pods = {1, 2, 3, 4}
  Groups <- TwoGroups
  Nodes <- TwoNodes
  Domains = {"d1"}
  MinMembers <- MinOneTwo
  MaxAttempts = 2
  NoDomain = NoDomain
  NoReservation = NoReservation
  NoGroup = NoGroup
  NoPod = NoPod
  NoNode = NoNode
  Label <- TwoGangLabels
  Request <- OneGPUEach
  Capacity <- OneOnEach
  DomainOf <- FirstLabelled
CHECK_DEADLOCK FALSE
INVARIANT NoCircularWait
