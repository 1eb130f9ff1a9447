\* Blocks of two lengths: a message whose block is not as long as the last one.
SPECIFICATION LammpsFairSpec
CONSTANTS
  s1 = s1
  r1 = r1
  w1 = w1
  None = None
  NoLines = NoLines
  Sources <- OneSource
  Readers <- OneReader
  Writers <- OneWriter
  Lines = {"full", "short"}
  MaxGarbage = 2
  bufsize = 1
  cpt_total_blks = 3
  writer_thousandth = 667
  KEEP = FALSE
INVARIANTS
  RecvIntIsSendCounter
