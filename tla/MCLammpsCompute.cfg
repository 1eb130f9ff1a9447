\* Two steps that divide four blocks between them; the writer helps when both
\* slots of the PRB are used, and may write two blocks.
SPECIFICATION LammpsFairSpec
CONSTANTS
  w1 = w1
  NoBlk = NoBlk
  Writers <- OneWriterThread
  bufsize = 2
  cpt_total_blks = 4
  writer_thousandth = 500
  writer_prb_thousandth = 1000
  nsteps = 2
  total_num_dump_steps = 2
INVARIANTS
  LammpsComputeInv
PROPERTIES
  ImplementsStream
  EndsOnceAllDumped
