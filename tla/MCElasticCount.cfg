\* The server may refuse a record.
SPECIFICATION FairSpec
CONSTANTS
  r1 = r1
  r2 = r2
  Ranks <- OneRank
  nr_steps = 3
  queue_len = 2
  ServerFails = TRUE
  LinkFails = FALSE
INVARIANTS
  QueuedCountsQueue
