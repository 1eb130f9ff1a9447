------------------------- MODULE AnalysisInvariant -------------------------
(***************************************************************************)
(* The inductive invariant of AnalysisBroker.  AnalysisBrokerProofs proves *)
(* that it is inductive; MCAnalysisBroker lets TLC check it on the         *)
(* instances first.  Two parts need what every job script configures: one  *)
(* reader thread for the order at the end (EndInv), one analysis writer    *)
(* for what a writer still holds (WriterInv).                              *)
(***************************************************************************)
EXTENDS AnalysisBroker

SingleReader == \A q, r \in Readers : q = r
SingleWriter == \A v, w \in Writers : v = w

\* The blocks announced as being on disk, and the sources that have closed.
AnnouncedBlocks == {p \in Blocks : p[2] \in announced[p[1]]}
Closed          == {s \in Sources : phase[s] = "closed"}

\* A source announces no block it has still to hand over, at most its quota,
\* and only what the file system holds; the receiver counts its EXITs.
StreamInv ==
  /\ \A s \in Sources :
       /\ announced[s] \cap pending[s] = {}
       /\ Cardinality(announced[s]) <= writer_blk_num
       /\ phase[s] = "closed" => pending[s] = {}
  /\ AnnouncedBlocks \subseteq stored
  /\ num_exit_flag = Cardinality(Closed)
  /\ recv_exit <=> num_exit_flag = computer_group_size

\* What the receiver holds, by its program counter.
ReceiverInv ==
  /\ receiver_pc \in {"recv", "done"} => recv_item = None
  /\ receiver_pc \in {"put", "signal", "spin"} => recv_item # None
  /\ receiver_pc = "ids" => recv_item \in Blocks \cup {None} /\ recv_item \notin Range(recv_ids)
  /\ receiver_pc # "ids" => recv_ids = <<>>
  /\ receiver_pc \in {"signal", "spin", "done"} => recv_exit
  /\ recv_exit =>
       /\ receiver_pc \in {"signal", "spin", "put", "done"}
       /\ recv_item \in Exits \cup {None}
       /\ receiver_pc \in {"put", "done"} => reader_exit

\* Every identifier is in prefetch_id_array at most once.
IdInv ==
  /\ Len(prefetch_id_array) = recv_tail + recv_avail
  /\ Range(prefetch_id_array) \cup Range(recv_ids) \subseteq AnnouncedBlocks
  /\ Range(prefetch_id_array) \cap Range(recv_ids) = {}
  /\ IsInjective(prefetch_id_array)
  /\ IsInjective(recv_ids)

\* What the readers hold.
ReaderInv ==
  \A r \in Readers :
    /\ reader_item[r] # None <=> reader_pc[r] \in {"read", "put"}
    /\ reader_item[r] \in AnnouncedBlocks \cup {None}
    /\ reader_pc[r] = "put" => reader_item[r] \in on_disk
    /\ \A q \in Readers : q # r /\ reader_item[r] # None => reader_item[q] # reader_item[r]

\* The slot k places after the tail.
Slot(k) == IF tail + k < bufsize THEN tail + k ELSE tail + k - bufsize
Filled  == 0..(num_avail_elements - 1)
Ring    == {buffer[Slot(k)] : k \in Filled}

RingInv ==
  /\ head = Slot(num_avail_elements)
  /\ \A k \in Filled : buffer[Slot(k)] \in Items
  /\ \A j, k \in Filled : buffer[Slot(j)] = buffer[Slot(k)] => j = k

\* What the consumer holds and has counted: the blocks that are CALC_DONE are
\* those it has released, and the one it is about to.
ConsumerInv ==
  /\ consumer_pc \in {"read", "quit", "signal", "done"} => pointer = None
  /\ consumer_pc \in {"calc", "mark", "move"} => num_avail_elements > 0 /\ pointer = buffer[tail]
  /\ consumer_pc \in {"calc", "mark"} => pointer \in Blocks
  /\ consumer_pc = "free" => pointer \in Items \ freed
  /\ calc_done \cap Blocks = (Left \cup (IF consumer_pc = "move" THEN {pointer} ELSE {})) \cap Blocks
  /\ calc_counter = Cardinality(calc_done \cap Blocks) + (IF consumer_pc = "mark" THEN 1 ELSE 0)
  /\ exits_got = Cardinality(freed \cap Exits)
  /\ consumer_pc \in {"quit", "signal", "done"} <=> exits_got >= computer_group_size

\* What the analysis writers hold, and what is on disk.
WriterInv ==
  /\ Left \subseteq on_disk
  /\ KEEP => on_disk \cap Blocks \subseteq stored
  /\ \A w \in Writers :
       /\ writer_item[w] # None <=> writer_pc[w] \in {"write", "mark"}
       /\ writer_item[w] \in Blocks \cup {None}
       /\ writer_pc[w] = "mark" /\ KEEP => writer_item[w] \in stored
       /\ SingleWriter /\ writer_item[w] # None =>
            num_avail_elements > 0 /\ writer_item[w] = buffer[tail] /\ writer_item[w] \notin on_disk

\* ItemsConserved, with the slots counted without a modulus.
PlaceInv ==
  /\ InReceiver \cup InArray \cup InReaders \cup Ring \cup Left = HandedOver
  /\ InReceiver \cap (InArray \cup InReaders \cup Ring \cup Left) = {}
  /\ InArray \cap (InReaders \cup Ring \cup Left) = {}
  /\ InReaders \cap (Ring \cup Left) = {}
  /\ Ring \cap Left = {}

\* What holds whatever the receiver makes of the identifiers and the readers of
\* the files: the streams, the receiver's item, and everything from the CRB on.
\* The copy for LAMMPS has these parts in common with this one.
CoreInv ==
  /\ TypeOK /\ StreamInv /\ ReceiverInv /\ RingInv /\ ConsumerInv /\ WriterInv
  /\ Ring \cap Left = {}

\* The one reader leaves nothing behind, so the last EXIT is put last.
EndInv ==
  SingleReader =>
    /\ reader_exit /\ recv_exit => recv_avail = 0 /\ \A r \in Readers : reader_item[r] = None
    /\ reader_exit /\ ~recv_exit => reader_blk_num = 0
    /\ receiver_pc = "done" /\ num_avail_elements > 0 =>
         buffer[Slot(num_avail_elements - 1)] \in Exits

AnalysisInv ==
  /\ TypeOK /\ StreamInv /\ ReceiverInv /\ IdInv /\ ReaderInv /\ RingInv
  /\ ConsumerInv /\ WriterInv /\ PlaceInv /\ EndInv
=============================================================================
