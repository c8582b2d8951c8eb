SPECIFICATION Spec
CONSTANTS
  Requests = {r1, r2, r3}
  Workers = {w1, w2}
  Closers = {c1, c2}
  MaxBatch = 2
  QueueCapacity = 2
  NoRequest = NoRequest
CHECK_DEADLOCK FALSE
SYMMETRY MCSymmetry
INVARIANTS
  TypeOK
  Pipeline
  BatchMovesOn
PROPERTY ImplementsService
