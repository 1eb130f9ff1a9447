\* Two ranks and five records each, pipelined in batches of two or one by one.
\* After a refusal a pipelined client may wait for ever in broker_finalize, and
\* after a failed put of one rank the solver's other ranks wait in their
\* collectives: deadlock is not checked.
SPECIFICATION FairSpec
CONSTANTS
  r1 = r1
  r2 = r2
  Ranks <- TwoRanks
  nr_steps = 5
  queue_len = 2
  ServerFails = TRUE
  LinkFails = TRUE
CHECK_DEADLOCK FALSE
INVARIANTS
  CountedUntilFailure
  QueueBounded
  SuccessMeansStored
PROPERTIES
  Terminates
