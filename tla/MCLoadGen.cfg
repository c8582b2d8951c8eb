SPECIFICATION FairSpec
CONSTANTS
  Workers = {w1, w2}
  QueueCapacity = 1
  MaxPods = 4
  Duration = 2
  Intervals = {1}
  SpikeAt = 1
  SpikeCount = 3
  MaxRetries = 1
  MaxLimits = 2
  MaxErrors = 1
  None = None
  Token = 2
  Rate = 3
  Burst = 2
  MaxTime = 2
CHECK_DEADLOCK FALSE
INVARIANTS
  TypeOK
  RateBound
  EveryPodAccounted
  ReportIsComplete
  AttemptsAddUp
  SpanIsExact
PROPERTIES
  BucketSpec
  RunReturns
