\* One source whose three blocks may all be announced.
SPECIFICATION FairSpec
CONSTANTS
  s1 = s1
  s2 = s2
  r1 = r1
  w1 = w1
  None = None
  Sources <- OneSource
  Readers <- OneReader
  Writers <- OneWriter
  bufsize = 2
  cpt_total_blks = 3
  writer_thousandth = 1000
  KEEP = TRUE
INVARIANTS
  AnalysisInv
  ItemsConserved
  NoUseAfterFree
  PreservedBeforeFree
PROPERTIES
  EndsAfterReaderExit
  EveryBlockAnalysed
