SPECIFICATION FairSpec
CONSTANTS
  Procs = {p, q}
  Hosted = {p, q}
  Queried = {p}
  Timed = {q}
  Counters <- SomeCounters
  Gauges <- SomeGauges
  NaN = NaN
  NoProc = NoProc
CHECK_DEADLOCK FALSE
INVARIANTS
  TypeOK
  CompleteMeansAllWritten
  ExitMatchesMetadata
  PressureIsJustified
PROPERTIES
  EarlierRunsAreKept
  EveryRunEnds
