\* A reader that has read its quota leaves.
SPECIFICATION FairSpec
CONSTANTS
  s1 = s1
  s2 = s2
  r1 = r1
  w1 = w1
  None = None
  Sources <- OneSource
  Readers <- OneReader
  Writers <- OneWriter
  bufsize = 2
  cpt_total_blks = 2
  writer_thousandth = 500
  KEEP = FALSE
INVARIANTS
  LeavingReaderTells
