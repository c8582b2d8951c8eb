SPECIFICATION Spec
CONSTANTS
  Requests = {r1, r2, r3}
  Workers = {w1}
  Closers = {c1}
  MaxBatch = 2
  QueueCapacity = 2
  NoRequest = NoRequest
CHECK_DEADLOCK FALSE
PROPERTY FlushOnlyWhenDue
