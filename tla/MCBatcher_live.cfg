SPECIFICATION FairSpec
CONSTANTS
  Requests = {r1, r2}
  Workers = {w1}
  Closers = {c1, c2}
  MaxBatch = 2
  QueueCapacity = 2
  NoRequest = NoRequest
CHECK_DEADLOCK FALSE
PROPERTIES
  AcceptedIsAnswered
  CloseTerminates
