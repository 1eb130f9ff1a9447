\* Two blocks: the compute writer helps when its buffer of two slots is full and
\* may take one of them, so that it travels in a mixed or in a disk message; the
\* other end has one slot for both, and for EXIT.
SPECIFICATION ZipperFairSpec
CONSTANTS
  s1 = s1
  r1 = r1
  w1 = w1
  cw1 = cw1
  None = None
  NoBlk = NoBlk
  Sources <- OneSource
  source = s1
  Readers <- OneReader
  Writers <- OneWriter
  CptWriters <- OneComputeWriter
  bufsize = 1
  prb_size = 2
  cpt_total_blks = 2
  writer_thousandth = 999
  writer_prb_thousandth = 1000
  KEEP = FALSE
INVARIANTS
  ReceiverAccepts
  ReaderFindsFile
  EndToEnd
PROPERTIES
  EveryBlockThrough
