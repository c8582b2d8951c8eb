SPECIFICATION FairSpec
CONSTANTS
  Pods = {1, 2, 3, 4, 5}
  Groups <- OneGroup
  Nodes <- TwoNodes
  Domains = {"d1"}
  MinMembers <- MinOneTwo
  MaxAttempts = 2
  NoDomain = NoDomain
  NoReservation = NoReservation
  NoGroup = NoGroup
  NoPod = NoPod
  NoNode = NoNode
  Label <- MixedLabels
  Request <- MixedRequests
  Capacity <- TwoAndOne
  DomainOf <- FirstLabelled
CHECK_DEADLOCK FALSE
INVARIANTS
  ReservationMirror
  NoOvercommit
  RegistryConsistent
PROPERTIES
  RegistrySpec
  RejectedIsTerminal
  BarrierIsLeft
