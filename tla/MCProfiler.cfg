SPECIFICATION Spec
CONSTANTS
  Pods = {p1, p2}
  Groups = {"g"}
  GroupOf <- OneGang
  GangSize = 2
  NoGroup = NoGroup
  NoPod = NoPod
  Timeout = 2
  MaxTime = 3
CHECK_DEADLOCK FALSE
SYMMETRY MCSymmetry
INVARIANTS
  TypeOK
  MomentsInOrder
  CompleteWasReadyByCutoff
  EveryPodReportedOnce
  EndedLogIsWhole
  CompleteGangIsWhole
  GangSpansCoverMembers
  QuantilesAreNearestRank
