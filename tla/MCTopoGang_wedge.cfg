SPECIFICATION FairSpec
CONSTANTS
  Pods = {1, 2, 3}
  Groups <- OneGroup
  Nodes <- TwoNodes
  Domains = {"d1"}
  MinMembers <- MinThree
  MaxAttempts = 1
  NoDomain = NoDomain
  NoReservation = NoReservation
  NoGroup = NoGroup
  NoPod = NoPod
  NoNode = NoNode
  Label <- TripleLabels
  Request <- OneGPUEach
  Capacity <- TwoAndOne
  DomainOf <- FirstLabelled
CHECK_DEADLOCK FALSE
PROPERTY RejectedAttemptEnds
