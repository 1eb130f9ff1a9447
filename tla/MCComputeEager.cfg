\* One writer that helps as soon as there is a block (writer_prb_thousandth 0),
\* with a quota of half the blocks.
SPECIFICATION FairSpec
CONSTANTS
  w1 = w1
  NoBlk = NoBlk
  Writers <- OneWriterThread
  bufsize = 2
  cpt_total_blks = 4
  writer_thousandth = 500
  writer_prb_thousandth = 0
INVARIANTS
  IInv
  BlocksConserved
  ExitComesLast
  AnnouncedIsOnDisk
  IdArrayFits
PROPERTIES
  ImplementsStream
  Terminates
