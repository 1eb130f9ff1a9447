\* Two sources that may announce one block each: messages of both kinds, and
\* the EXIT messages of two sources, in every order.
SPECIFICATION Spec
SYMMETRY SymmetricSources
CONSTANTS
  s1 = s1
  s2 = s2
  r1 = r1
  w1 = w1
  None = None
  Sources <- TwoSources
  Readers <- OneReader
  Writers <- OneWriter
  bufsize = 2
  cpt_total_blks = 2
  writer_thousandth = 500
  KEEP = TRUE
INVARIANTS
  ConsumerLeavesLast
  PrefetchArrayFits
