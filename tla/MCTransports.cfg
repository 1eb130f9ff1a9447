\* Two ranks on each side of the disk transport, four steps; seven steps over
\* three locks for native staging; four steps through streams that hold two,
\* with two readers; three ranks of the simulation, three steps.  After a
\* failure a program may wait for ever, so deadlock is not checked.
SPECIFICATION FairSpec
CONSTANTS
  p1 = p1
  p2 = p2
  r1 = r1
  r2 = r2
  Producers <- TwoProducers
  Readers <- TwoReaders
  root = p1
  reader_root = r1
  nsteps = 4
  nstop = 7
  OpenFails = TRUE
  DS_MAX_VERSION = 3
  max_versions = 3
  StagingFails = TRUE
  StreamReaders <- TwoReaders
  stream_steps = 4
  queue_size = 2
  ExtractFails = TRUE
  max_timeouts = 1
  nprocs = 3
  nx = 7
  step_stop = 3
CHECK_DEADLOCK FALSE
INVARIANTS
  TypeOK
  ReadsComplete
  GetFinds
  CounterNamesStep
  LikeOneLattice
PROPERTIES
  ImplementsStampChannel
  ImplementsLockChannel
  ImplementsStreamChannel
  ImplementsLocalClocks
  AllStepsThrough
