\* One source with three blocks, of two lengths, two of which may be announced.
SPECIFICATION LammpsFairSpec
CONSTANTS
  s1 = s1
  r1 = r1
  w1 = w1
  None = None
  NoLines = NoLines
  Sources <- OneSource
  Readers <- OneReader
  Writers <- OneWriter
  Lines = {"full", "short"}
  MaxGarbage = 2
  bufsize = 1
  cpt_total_blks = 3
  writer_thousandth = 667
  KEEP = FALSE
INVARIANTS
  LammpsAnalysisInv
  CarriedConserved
PROPERTIES
  EndsWithoutFiles
  NoAnswerOnceCounted
