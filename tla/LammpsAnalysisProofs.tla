------------------------ MODULE LammpsAnalysisProofs ------------------------
(***************************************************************************)
(* Proofs about LammpsAnalysis, for any number of sources, blocks, slots,  *)
(* readers and analysis writers, and any lengths of the blocks.  The parts *)
(* CoreInv collects are kept by the lemmas of AnalysisBrokerProofs; here   *)
(* are what the two copies differ in, and where the carried blocks are.    *)
(***************************************************************************)
EXTENDS LammpsAnalysisInvariant, AnalysisBrokerProofs

\* What came over MPI is what was handed over and not announced.
LEMMA CarriedIs ==
  /\ CarriedOver = HandedOver \ AnnouncedBlocks
  /\ CarriedOver \subseteq Items /\ None \notin CarriedOver
<1>1. ASSUME NEW p \in Items
      PROVE  p \in AnnouncedBlocks <=> ~IsExit(p) /\ p[2] \in announced[p[1]]
  <2>1. p \in Exits <=> p \notin Blocks
    BY ItemKinds DEF Items
  <2>2. QED
    BY <2>1, ItemKinds DEF AnnouncedBlocks
<1>2. HandedOver \subseteq Items
  BY DEF HandedOver
<1>3. QED
  BY <1>1, <1>2, ItemKinds DEF CarriedOver

LEMMA CarriedNext ==
  /\ CarriedOver' = HandedOver' \ AnnouncedBlocks'
  /\ CarriedOver' \subseteq Items /\ None \notin CarriedOver'
<1>1. ASSUME NEW p \in Items
      PROVE  p \in AnnouncedBlocks' <=> ~IsExit(p) /\ p[2] \in announced'[p[1]]
  <2>1. p \in Exits <=> p \notin Blocks
    BY ItemKinds DEF Items
  <2>2. QED
    BY <2>1, ItemKinds DEF AnnouncedBlocks
<1>2. HandedOver' \subseteq Items
  BY DEF HandedOver
<1>3. QED
  BY <1>1, <1>2, ItemKinds DEF CarriedOver

-----------------------------------------------------------------------------
(* The receiver.                                                            *)

\* A message with at most one block in it.  The identifiers it announces are
\* no carried blocks, the one block is.
LEMMA CarriedHandsOver ==
  ASSUME LammpsAnalysisInv, NEW s \in Sources, NEW H \in SUBSET pending[s], NEW S \in SUBSET H,
         NEW x, HandsOver(s, H, S, x)
  PROVE  CarriedInv'
<1>1. /\ Ring' = Ring /\ Left' = Left /\ recv_item = None
      /\ x \in Blocks \cup {None}
      /\ AnnouncedBlocks' = AnnouncedBlocks \cup ({s} \X S)
      /\ AnnouncedBlocks \cap ({s} \X H) = {}
      /\ HandedOver' = HandedOver \cup ({s} \X H) /\ HandedOver \cap ({s} \X H) = {}
  BY HandsOverCore DEF LammpsAnalysisInv
<1>2. /\ recv_item' = x
      /\ ({x} \ {None}) \cup ({s} \X S) = {s} \X H
      /\ x # None => x \notin {s} \X S
  BY DEF HandsOver
<1>3. Ring \cup Left = HandedOver \ AnnouncedBlocks /\ None \notin Ring \cup Left
  BY <1>1, CarriedIs DEF LammpsAnalysisInv, CarriedInv
<1>4. CarriedOver' = (HandedOver \ AnnouncedBlocks) \cup ({x} \ {None})
  BY <1>1, <1>2, CarriedNext
<1>5. x \notin Ring \cup Left
  BY <1>1, <1>2, <1>3
<1>6. QED
  BY <1>1, <1>2, <1>3, <1>4, <1>5 DEF CarriedInv

\* It takes the receiver to "put", without identifiers, or to "ids".
LEMMA LinesHandsOver ==
  ASSUME LammpsAnalysisInv, NEW s \in Sources, NEW H \in SUBSET pending[s], NEW S \in SUBSET H,
         NEW x, HandsOver(s, H, S, x)
  PROVE  /\ CoreInv' /\ CarriedInv' /\ PollInv'
         /\ receiver_pc' \in {"put", "ids"} /\ (receiver_pc' = "put" => recv_ids' = <<>>)
         /\ reader_blk_num = 0 => recv_ids' = <<>>
         /\ recv_ids' \in Seq(Blocks) /\ Len(recv_ids') \in Nat /\ Len(<<>>) = 0
         /\ Range(recv_ids') \subseteq AnnouncedBlocks'
         /\ recv_item' = x
<1>1. /\ CoreInv' /\ recv_ids' \in Seq(Blocks) /\ Range(recv_ids') = {s} \X S
      /\ AnnouncedBlocks' = AnnouncedBlocks \cup ({s} \X S)
  BY HandsOverCore DEF LammpsAnalysisInv
<1>2. CarriedInv'
  BY CarriedHandsOver
<1>3. UNCHANGED <<idVars, exitVars, readerVars>> /\ recv_item' = x
  BY DEF HandsOver
<1>4. PollInv'
  BY <1>3 DEF LammpsAnalysisInv, PollInv, idVars, exitVars, readerVars
<1>5. S = {} => recv_ids' = <<>>
  BY <1>1, RangeOfSeq
<1>6. reader_blk_num = 0 => S = {}
  <2>1. Cardinality(announced[s] \cup S) <= writer_blk_num
    BY DEF HandsOver
  <2>2. announced[s] \cup S \in SUBSET (0..(cpt_total_blks - 1))
    BY DEF LammpsAnalysisInv, CoreInv, TypeOK
  <2>3. QED
    BY <2>1, <2>2, EmptyQuota
<1>7. receiver_pc' \in {"put", "ids"} /\ (receiver_pc' = "put" => S = {})
  BY DEF HandsOver
<1>8. Len(recv_ids') \in Nat /\ Len(<<>>) = 0
  BY <1>1
<1>9. QED
  BY <1>1, <1>2, <1>3, <1>4, <1>5, <1>6, <1>7, <1>8

\* A message with a block: the identifiers are looked for behind as many lines
\* as the last block had.
LEMMA ReceiveLinesInv ==
  ASSUME LammpsAnalysisInv, NEW s \in Sources, ReceiveLines(s)
  PROVE  LammpsAnalysisInv'
<1>1. PICK H \in SUBSET pending[s] : \E S \in SUBSET H : \E x \in Blocks : HandsOver(s, H, S, x)
  BY ReceiveBlockHands DEF ReceiveLines, LammpsAnalysisInv, CoreInv
<1>2. PICK S \in SUBSET H : \E x \in Blocks : HandsOver(s, H, S, x)
  BY <1>1
<1>3. PICK x \in Blocks : HandsOver(s, H, S, x)
  BY <1>2
<1>4. /\ CoreInv' /\ CarriedInv' /\ PollInv'
      /\ receiver_pc' \in {"put", "ids"} /\ (receiver_pc' = "put" => recv_ids' = <<>>)
      /\ reader_blk_num = 0 => recv_ids' = <<>>
      /\ recv_ids' \in Seq(Blocks) /\ Len(recv_ids') \in Nat /\ Len(<<>>) = 0
      /\ Range(recv_ids') \subseteq AnnouncedBlocks'
      /\ recv_item' = x /\ x # None
  BY <1>3, LinesHandsOver, ItemKinds DEF Items
<1>5. PICK l \in Lines :
        /\ msg_lines' = l
        /\ IF recv_ids' = <<>>
           THEN dump_lines_in_this_blk' = l /\ recv_int' = 0
           ELSE recv_int' \in RecvInt(l, Len(recv_ids')) /\ UNCHANGED dump_lines_in_this_blk
  BY DEF ReceiveLines
<1>6. \A i \in RecvInt(l, Len(recv_ids')) :
        i \in Nat /\ (dump_lines_in_this_blk = l => i = Len(recv_ids'))
  BY <1>4, LammpsAnalysisAssumption DEF RecvInt
<1>7. LammpsTypeOK'
  BY <1>4, <1>5, <1>6 DEF LammpsAnalysisInv, LammpsTypeOK, CoreInv
<1>8. LinesInv'
  <2>1. recv_ids' = <<>> => recv_int' = 0 /\ recv_int' = Len(recv_ids')
    BY <1>4, <1>5
  <2>2. ~Misread' => recv_int' = Len(recv_ids')
    BY <1>4, <1>5, <1>6, <2>1 DEF Misread
  <2>3. QED
    BY <1>4, <2>1, <2>2 DEF LinesInv
<1>9. QED
  BY <1>4, <1>7, <1>8 DEF LammpsAnalysisInv

LEMMA ReceivePairsInv ==
  ASSUME LammpsAnalysisInv, NEW s \in Sources, ReceivePairs(s)
  PROVE  LammpsAnalysisInv'
<1>1. HandsOver(s, pending[s], pending[s], None)
  BY ReceiveDiskHands DEF ReceivePairs, LammpsAnalysisInv
<1>2. /\ CoreInv' /\ CarriedInv' /\ PollInv'
      /\ receiver_pc' \in {"put", "ids"} /\ (receiver_pc' = "put" => recv_ids' = <<>>)
      /\ reader_blk_num = 0 => recv_ids' = <<>>
      /\ Len(recv_ids') \in Nat /\ Len(<<>>) = 0
      /\ Range(recv_ids') \subseteq AnnouncedBlocks'
  BY <1>1, LinesHandsOver
<1>3. recv_int' = Len(recv_ids') /\ UNCHANGED <<dump_lines_in_this_blk, msg_lines>>
  BY DEF ReceivePairs
<1>4. LammpsTypeOK'
  BY <1>2, <1>3 DEF LammpsAnalysisInv, LammpsTypeOK, CoreInv
<1>5. LinesInv'
  BY <1>2, <1>3 DEF LinesInv
<1>6. QED
  BY <1>2, <1>4, <1>5 DEF LammpsAnalysisInv

LEMMA LammpsReceiveExitInv ==
  ASSUME LammpsAnalysisInv, NEW s \in Sources, LammpsReceiveExit(s), UNCHANGED msgVars
  PROVE  LammpsAnalysisInv'
<1>1. /\ CoreInv' /\ Ring' = Ring /\ Left' = Left /\ AnnouncedBlocks' = AnnouncedBlocks
      /\ recv_item = None /\ recv_ids = <<>>
      /\ recv_item' \in Exits /\ recv_item' # None
      /\ HandedOver' = HandedOver \cup {recv_item'} /\ recv_item' \notin HandedOver
  <2>1. ExitTaken(s, "spin")
    BY DEF LammpsReceiveExit, ExitTaken
  <2>2. QED
    BY <2>1, ExitCore DEF LammpsAnalysisInv
<1>2. /\ receiver_pc = "recv" /\ receiver_pc' \in {"spin", "put"}
      /\ recv_exit => recv_exit'
      /\ UNCHANGED <<recv_ids, idVars, reader_exit, readerVars>>
  BY DEF LammpsReceiveExit
<1>3. LammpsTypeOK'
  BY <1>1 DEF LammpsAnalysisInv, LammpsTypeOK, CoreInv, msgVars
<1>4. LinesInv'
  BY <1>1, <1>2 DEF LammpsAnalysisInv, LinesInv, msgVars
<1>5. PollInv'
  BY <1>2 DEF LammpsAnalysisInv, PollInv, idVars, readerVars
<1>6. CarriedInv'
  <2>1. Ring \cup Left = HandedOver \ AnnouncedBlocks
    BY <1>1, CarriedIs DEF LammpsAnalysisInv, CarriedInv
  <2>2. recv_item' \notin AnnouncedBlocks
    BY <1>1, ItemKinds DEF AnnouncedBlocks
  <2>3. QED
    BY <1>1, <2>1, <2>2, CarriedNext DEF CarriedInv
<1>7. QED
  BY <1>1, <1>3, <1>4, <1>5, <1>6 DEF LammpsAnalysisInv

\* Steps that leave what is carried, the streams and the readers alone.
LEMMA CarriedFrame ==
  ASSUME CarriedInv, Ring' \cup Left' = Ring \cup Left, UNCHANGED <<streamVars, recv_item>>
  PROVE  CarriedInv'
<1>1. CarriedOver' = CarriedOver
  BY DEF CarriedOver, HandedOver, streamVars
<1>2. QED
  BY <1>1 DEF CarriedInv

LEMMA LammpsMakePrefetchIdInv ==
  ASSUME LammpsAnalysisInv, LammpsMakePrefetchId
  PROVE  LammpsAnalysisInv'
<1>1. /\ receiver_pc = "ids"
      /\ recv_avail' = recv_avail + recv_int /\ recv_ids' = <<>> /\ recv_int' = 0
      /\ dump_lines_in_this_blk' = (IF recv_item = None THEN dump_lines_in_this_blk ELSE msg_lines)
      /\ receiver_pc' = (IF recv_item = None THEN "recv" ELSE "put")
      /\ UNCHANGED <<streamVars, recv_item, num_exit_flag, id_lock, exitVars, readerVars,
                     crbVars, stateVars, consumerVars, writerVars, waiting, freed, stored, msg_lines>>
      /\ StorePrefetch
  BY DEF LammpsMakePrefetchId
<1>2. /\ recv_avail \in Nat /\ recv_int \in Nat /\ recv_tail = 0 /\ recv_ids \in Seq(Blocks)
      /\ prefetch_id_array \in Seq(Blocks)
      /\ ~recv_exit
  BY <1>1 DEF LammpsAnalysisInv, LammpsTypeOK, TypeOK, PollInv, CoreInv, ReceiverInv
<1>3. prefetch_id_array' \in Seq(Blocks) /\ recv_tail' = 0
  <2>1. CASE recv_int = 0
    BY <1>1, <1>2, <2>1 DEF StorePrefetch
  <2>2. CASE recv_int # 0
    <3>1. PICK b \in (IF Misread THEN Blocks ELSE {recv_ids[recv_int]}) :
            prefetch_id_array' = Append(SubSeq(prefetch_id_array, 1, recv_tail), b)
      BY <1>1, <2>2 DEF StorePrefetch
    <3>2. ~Misread => recv_int = Len(recv_ids)
      BY <1>1 DEF LammpsAnalysisInv, LinesInv
    <3>3. b \in Blocks
      BY <1>2, <2>2, <3>1, <3>2
    <3>4. SubSeq(prefetch_id_array, 1, 0) \in Seq(Blocks)
      BY <1>2
    <3>5. QED
      BY <1>1, <1>2, <3>1, <3>3, <3>4 DEF StorePrefetch
  <2>3. QED
    BY <2>1, <2>2
<1>4. TypeOK'
  <2>1. /\ recv_avail' \in Nat /\ recv_ids' \in Seq(Blocks) /\ recv_tail' \in Nat
        /\ receiver_pc' \in {"recv", "ids", "put", "signal", "spin", "done"}
        /\ TypeOK
    BY <1>1, <1>2, <1>3 DEF LammpsAnalysisInv, CoreInv
  <2>2. QED
    BY <1>1, <1>3, <2>1 DEF TypeOK, streamVars, exitVars, readerVars, crbVars, stateVars, consumerVars,
       writerVars
<1>5. Range(<<>>) = {}
  BY DEF Range
<1>6. ReceiverInv'
  BY <1>1, <1>2 DEF LammpsAnalysisInv, CoreInv, ReceiverInv, exitVars
<1>7. CoreInv' /\ Ring' = Ring /\ Left' = Left /\ AnnouncedBlocks' = AnnouncedBlocks
  BY <1>1, <1>4, <1>6, CoreFrame DEF LammpsAnalysisInv, exitVars, writerVars
<1>8. LammpsTypeOK'
  BY <1>1, <1>4 DEF LammpsAnalysisInv, LammpsTypeOK
<1>9. LinesInv'
  BY <1>1, <1>5 DEF LinesInv
<1>10. PollInv'
  <2>1. reader_blk_num = 0 => recv_avail = 0 /\ recv_int = 0
    BY DEF LammpsAnalysisInv, LinesInv, PollInv
  <2>2. reader_exit => reader_blk_num = 0
    BY <1>2 DEF LammpsAnalysisInv, PollInv
  <2>3. QED
    BY <1>1, <1>3, <2>1, <2>2 DEF LammpsAnalysisInv, PollInv, exitVars, readerVars
<1>11. CarriedInv'
  BY <1>1, <1>7, CarriedFrame DEF LammpsAnalysisInv
<1>12. QED
  BY <1>7, <1>8, <1>9, <1>10, <1>11 DEF LammpsAnalysisInv

LEMMA LammpsReceiverWaitInv ==
  ASSUME LammpsAnalysisInv, ReaderExitSeen \/ ReceiverPutWait, UNCHANGED msgVars
  PROVE  LammpsAnalysisInv'
<1>1. /\ UNCHANGED <<streamVars, recv_item, recv_ids, num_exit_flag, idVars, id_lock, exitVars,
                     readerVars, crbVars, stateVars, consumerVars, writerVars, freed, stored>>
      /\ receiver_pc # "ids" /\ receiver_pc' = "put"
  BY DEF ReaderExitSeen, ReceiverPutWait, PutWait, receiverVars
<1>2. CoreInv' /\ Ring' = Ring /\ Left' = Left /\ AnnouncedBlocks' = AnnouncedBlocks
  <2>1. CASE ReaderExitSeen
    BY <2>1, WaitForReaderCore DEF LammpsAnalysisInv
  <2>2. CASE ReceiverPutWait
    <3>1. waiting' = waiting \cup {"receiver"} /\ UNCHANGED receiver_pc
      BY <2>2 DEF ReceiverPutWait, PutWait, receiverVars
    <3>2. TypeOK'
      BY <1>1, <3>1 DEF LammpsAnalysisInv, CoreInv, TypeOK, Threads, streamVars, idVars, exitVars,
         readerVars, crbVars, stateVars, consumerVars, writerVars
    <3>3. ReceiverInv'
      BY <1>1, <3>1, ReceiverFrame DEF LammpsAnalysisInv, CoreInv, exitVars
    <3>4. QED
      BY <1>1, <3>2, <3>3, CoreFrame DEF LammpsAnalysisInv, exitVars, writerVars
  <2>3. QED
    BY <2>1, <2>2
<1>3. LammpsTypeOK'
  BY <1>2 DEF LammpsAnalysisInv, LammpsTypeOK, CoreInv, msgVars
<1>4. LinesInv'
  BY <1>1, <1>2 DEF LammpsAnalysisInv, LinesInv, msgVars
<1>5. PollInv'
  BY <1>1 DEF LammpsAnalysisInv, PollInv, idVars, exitVars, readerVars
<1>6. CarriedInv'
  BY <1>1, <1>2, CarriedFrame DEF LammpsAnalysisInv
<1>7. QED
  BY <1>2, <1>3, <1>4, <1>5, <1>6 DEF LammpsAnalysisInv

LEMMA LammpsReceiverPutInv ==
  ASSUME LammpsAnalysisInv, ReceiverPut, UNCHANGED msgVars
  PROVE  LammpsAnalysisInv'
<1>1. recv_item \notin Ring \cup Left
  BY DEF LammpsAnalysisInv, CarriedInv
<1>2. /\ CoreInv' /\ Ring' = Ring \cup {recv_item} /\ Left' = Left
      /\ AnnouncedBlocks' = AnnouncedBlocks /\ recv_item # None
  BY <1>1, ReceiverPutCore DEF LammpsAnalysisInv
<1>3. /\ UNCHANGED <<streamVars, recv_ids, idVars, exitVars, readerVars>>
      /\ recv_item' = None
      /\ receiver_pc = "put" /\ receiver_pc' \in {"done", "recv"}
  BY DEF ReceiverPut
<1>4. LammpsTypeOK'
  BY <1>2 DEF LammpsAnalysisInv, LammpsTypeOK, CoreInv, msgVars
<1>5. LinesInv'
  BY <1>2, <1>3 DEF LammpsAnalysisInv, LinesInv, msgVars
<1>6. PollInv'
  BY <1>3 DEF LammpsAnalysisInv, PollInv, idVars, exitVars, readerVars
<1>7. CarriedInv'
  <2>1. CarriedOver' = CarriedOver
    BY <1>3 DEF CarriedOver, HandedOver, streamVars
  <2>2. Ring' \cup Left' = CarriedOver
    BY <1>2 DEF LammpsAnalysisInv, CarriedInv
  <2>3. None \notin CarriedOver
    BY CarriedIs
  <2>4. QED
    BY <1>3, <2>1, <2>2, <2>3 DEF CarriedInv
<1>8. QED
  BY <1>2, <1>4, <1>5, <1>6, <1>7 DEF LammpsAnalysisInv

-----------------------------------------------------------------------------
(* The readers.                                                             *)

\* recv_tail is 0, so that a reader only goes round its loop; it raises
\* reader_exit when nothing is counted and the last EXIT has come, or when it
\* has no quota.
LEMMA LammpsReaderInv ==
  ASSUME LammpsAnalysisInv, NEW r \in Readers, LammpsReader(r), UNCHANGED msgVars
  PROVE  LammpsAnalysisInv'
<1>1. /\ recv_tail = 0 /\ reader_pc[r] \notin {"read", "put"} /\ reader_exit \in BOOLEAN
      /\ reader_pc \in [Readers -> {"start", "top", "get", "check", "sleep", "read", "put", "done"}]
      /\ reader_pc[r] = "check" => recv_exit
  BY DEF LammpsAnalysisInv, PollInv, CoreInv, TypeOK
<1>2. /\ UNCHANGED <<streamVars, receiverVars, idVars, id_lock, recv_exit, ana_writer_exit, reader_item,
                     read_file_cnt, crbVars, stateVars, consumerVars, writerVars, waiting, freed, stored>>
      /\ \E pc \in {"done", "top", "check", "get"} :
           reader_pc' = [reader_pc EXCEPT ![r] = pc] /\ (pc = "check" => recv_exit)
      /\ \/ reader_exit' = reader_exit
         \/ /\ reader_exit' = TRUE
            /\ reader_blk_num = 0 \/ (recv_avail = 0 /\ recv_exit)
  <2>1. CASE ReaderStart(r)
    BY <1>1, <2>1 DEF ReaderStart, Goto
  <2>2. CASE PollExit(r)
    BY <1>1, <2>2 DEF PollExit, Goto, exitVars
  <2>3. CASE PollAvail(r)
    BY <1>1, <2>3 DEF PollAvail, Goto
  <2>4. CASE PollTake(r)
    BY <1>1, <2>4 DEF PollTake, Goto, exitVars, idVars
  <2>5. ~ReaderRead(r) /\ ~ReaderPut(r) /\ ~ReaderPutWait(r)
    BY <1>1 DEF ReaderRead, ReaderPut, ReaderPutWait
  <2>6. QED
    BY <2>1, <2>2, <2>3, <2>4, <2>5 DEF LammpsReader
<1>3. /\ reader_pc' \in [Readers -> {"start", "top", "get", "check", "done"}
                                    \cup {"sleep", "read", "put"}]
      /\ \A q \in Readers :
           \/ reader_pc'[q] = reader_pc[q]
           \/ reader_pc'[q] \in {"done", "top", "check", "get"} /\ (reader_pc'[q] = "check" => recv_exit)
  BY <1>1, <1>2
<1>4. TypeOK'
  <2>1. TypeOK /\ reader_exit' \in BOOLEAN
        /\ reader_pc' \in [Readers -> {"start", "top", "get", "check", "sleep", "read", "put", "done"}]
    BY <1>1, <1>2, <1>3 DEF LammpsAnalysisInv, CoreInv
  <2>2. <<recv_exit, reader_exit, ana_writer_exit>>' \in BOOLEAN \X BOOLEAN \X BOOLEAN
    BY <1>2, <2>1 DEF TypeOK
  <2>3. QED
    BY <1>2, <2>1, <2>2 DEF TypeOK, streamVars, receiverVars, idVars, crbVars, stateVars, consumerVars,
       writerVars
<1>5. ReceiverInv'
  BY <1>1, <1>2, ReceiverFrame DEF LammpsAnalysisInv, CoreInv, receiverVars
<1>6. CoreInv' /\ Ring' = Ring /\ Left' = Left /\ AnnouncedBlocks' = AnnouncedBlocks
  BY <1>2, <1>4, <1>5, CoreFrame DEF LammpsAnalysisInv, receiverVars, writerVars
<1>7. LammpsTypeOK'
  BY <1>4 DEF LammpsAnalysisInv, LammpsTypeOK, msgVars
<1>8. LinesInv'
  BY <1>2, <1>6 DEF LammpsAnalysisInv, LinesInv, Misread, msgVars, receiverVars
<1>9. PollInv'
  <2>1. \A q \in Readers : /\ reader_pc'[q] \in {"start", "top", "get", "check", "done"}
                           /\ reader_pc'[q] = "check" => recv_exit
    BY <1>3 DEF LammpsAnalysisInv, PollInv
  <2>2. UNCHANGED <<recv_tail, recv_avail, recv_exit, reader_item>>
    BY <1>2 DEF idVars
  <2>3. QED
    BY <1>2, <2>1, <2>2 DEF LammpsAnalysisInv, PollInv
<1>10. CarriedInv'
  BY <1>2, <1>6, CarriedFrame DEF LammpsAnalysisInv, receiverVars
<1>11. QED
  BY <1>6, <1>7, <1>8, <1>9, <1>10 DEF LammpsAnalysisInv

-----------------------------------------------------------------------------
(* The consumer, the analysis writers, and the invariant.                   *)

LEMMA LammpsOutputInv ==
  ASSUME LammpsAnalysisInv, OutputKept, UNCHANGED msgVars
  PROVE  LammpsAnalysisInv'
<1>1. /\ CoreInv' /\ Ring' \cup Left' = Ring \cup Left
      /\ UNCHANGED InputVars /\ stored \subseteq stored'
  BY DEF OutputKept
<1>2. AnnouncedBlocks' = AnnouncedBlocks
  BY <1>1, InputFrame DEF LammpsAnalysisInv
<1>3. LammpsTypeOK'
  BY <1>1 DEF LammpsAnalysisInv, LammpsTypeOK, CoreInv, msgVars
<1>4. LinesInv'
  BY <1>1, <1>2 DEF LammpsAnalysisInv, LinesInv, Misread, msgVars, InputVars, receiverVars
<1>5. PollInv'
  BY <1>1 DEF LammpsAnalysisInv, PollInv, InputVars, idVars
<1>6. CarriedInv'
  BY <1>1, CarriedFrame DEF LammpsAnalysisInv, InputVars, receiverVars
<1>7. QED
  BY <1>1, <1>3, <1>4, <1>5, <1>6 DEF LammpsAnalysisInv

LEMMA LammpsAnalysisInitInv == LammpsInit => LammpsAnalysisInv
<1> SUFFICES ASSUME LammpsInit PROVE LammpsAnalysisInv
  OBVIOUS
<1> USE DEF LammpsInit, Init
<1>1. CoreInv
  <2>1. AnalysisInv
    BY InitInv
  <2>2. QED
    BY <2>1, CoreOf
<1>2. Range(recv_ids) = {} /\ Len(recv_ids) = 0
  BY DEF Range
<1>3. LammpsTypeOK
  BY <1>1 DEF CoreInv, LammpsTypeOK
<1>4. LinesInv
  BY <1>2 DEF LinesInv
<1>5. PollInv
  BY DEF PollInv
<1>6. CarriedInv
  <2>1. Filled = {} /\ Ring = {} /\ Left = {}
    BY DEF Filled, Ring, Left
  <2>2. HandedOver = {}
    <3>1. ASSUME NEW p \in Items PROVE p \notin HandedOver
      <4>1. p[1] \in Sources
        BY ItemKinds
      <4>2. CASE p \in Exits
        BY <4>1, <4>2, ItemKinds DEF HandedOver
      <4>3. CASE p \in Blocks
        BY <4>1, <4>3, ItemKinds DEF HandedOver
      <4>4. QED
        BY <4>2, <4>3 DEF Items
    <3>2. QED
      BY <3>1 DEF HandedOver
  <2>3. QED
    BY <2>1, <2>2, CarriedIs DEF CarriedInv
<1> HIDE DEF LammpsInit, Init
<1>7. QED
  BY <1>1, <1>3, <1>4, <1>5, <1>6 DEF LammpsAnalysisInv

LEMMA LammpsStutterInv ==
  ASSUME LammpsAnalysisInv, UNCHANGED lammpsVars
  PROVE  LammpsAnalysisInv'
<1>1. UNCHANGED vars /\ UNCHANGED msgVars
  BY DEF lammpsVars
<1>2. /\ UNCHANGED <<streamVars, receiverVars, idVars, exitVars, readerVars, crbVars, stateVars,
                     consumerVars, writerVars, id_lock, waiting, freed, stored>>
  BY <1>1 DEF vars
<1>3. TypeOK'
  BY <1>2 DEF LammpsAnalysisInv, CoreInv, TypeOK, streamVars, receiverVars, idVars, exitVars, readerVars,
     crbVars, stateVars, consumerVars, writerVars
<1>4. ReceiverInv'
  BY <1>2, ReceiverFrame DEF LammpsAnalysisInv, CoreInv, receiverVars, exitVars
<1>5. CoreInv' /\ Ring' = Ring /\ Left' = Left /\ AnnouncedBlocks' = AnnouncedBlocks
  BY <1>2, <1>3, <1>4, CoreFrame DEF LammpsAnalysisInv, receiverVars, exitVars, writerVars
<1>6. LammpsTypeOK' /\ LinesInv' /\ PollInv'
  BY <1>1, <1>2, <1>3, <1>5 DEF LammpsAnalysisInv, LammpsTypeOK, LinesInv, PollInv, Misread, msgVars,
     receiverVars, idVars, exitVars, readerVars
<1>7. CarriedInv'
  BY <1>2, <1>5, CarriedFrame DEF LammpsAnalysisInv, receiverVars
<1>8. QED
  BY <1>5, <1>6, <1>7 DEF LammpsAnalysisInv

LEMMA LammpsAnalysisStepInv == LammpsAnalysisInv /\ [LammpsNext]_lammpsVars => LammpsAnalysisInv'
<1> SUFFICES ASSUME LammpsAnalysisInv, [LammpsNext]_lammpsVars PROVE LammpsAnalysisInv'
  OBVIOUS
<1>1. CoreInv
  BY DEF LammpsAnalysisInv
<1>2. CASE LammpsReceiver
  BY <1>2, ReceiveLinesInv, ReceivePairsInv, LammpsReceiveExitInv, LammpsMakePrefetchIdInv,
     LammpsReceiverWaitInv, LammpsReceiverPutInv DEF LammpsReceiver
<1>3. ASSUME NEW r \in Readers, LammpsReader(r), UNCHANGED msgVars PROVE LammpsAnalysisInv'
  BY <1>3, LammpsReaderInv
<1>4. CASE LammpsConsumer /\ UNCHANGED msgVars
  <2>1. ASSUME LammpsMoveTail PROVE MovesTail
    BY <2>1 DEF LammpsMoveTail, MovesTail
  <2>2. OutputKept
    BY <1>1, <1>4, <2>1, OutputSteps DEF LammpsConsumer
  <2>3. QED
    BY <1>4, <2>2, LammpsOutputInv
<1>5. ASSUME NEW w \in Writers, LammpsWriter(w) PROVE LammpsAnalysisInv'
  BY <1>1, <1>5, OutputSteps, LammpsOutputInv DEF LammpsWriter
<1>6. CASE SpuriousWakeup /\ UNCHANGED msgVars
  BY <1>1, <1>6, OutputSteps, LammpsOutputInv
<1>7. CASE UNCHANGED lammpsVars
  BY <1>7, LammpsStutterInv
<1>8. QED
  BY <1>2, <1>3, <1>4, <1>5, <1>6, <1>7 DEF LammpsNext

\* Whatever the receiver makes of the identifiers it receives, and whatever
\* the threads do, the parts of LammpsAnalysisInv hold together.
THEOREM LammpsAnalysisInvariant_Holds == LammpsSpec => []LammpsAnalysisInv
<1>1. QED
  BY LammpsAnalysisInitInv, LammpsAnalysisStepInv, PTL DEF LammpsSpec

-----------------------------------------------------------------------------
(* What follows from it.                                                    *)

\* What came over MPI is neither lost nor put twice, and nothing else ever
\* gets into the CRB.
THEOREM CarriedStaysWhole == LammpsSpec => []CarriedConserved
<1>1. ASSUME LammpsAnalysisInv PROVE CarriedConserved
  <2>1. InRing = Ring /\ Cardinality(Ring) = num_avail_elements
    BY <1>1, RingCount DEF LammpsAnalysisInv, CoreInv
  <2>2. Ring \cap Left = {}
    BY <1>1 DEF LammpsAnalysisInv, CoreInv
  <2>3. QED
    BY <1>1, <2>1, <2>2 DEF LammpsAnalysisInv, CarriedInv, CarriedConserved
<1>2. QED
  BY <1>1, LammpsAnalysisInvariant_Holds, PTL

\* A buffer is released only when it is on disk, in this copy too.
THEOREM LammpsPreserved == LammpsSpec => []PreservedBeforeFree
<1>1. LammpsAnalysisInv => PreservedBeforeFree
  BY DEF LammpsAnalysisInv, CoreInv, WriterInv, PreservedBeforeFree
<1>2. QED
  BY <1>1, LammpsAnalysisInvariant_Holds, PTL

\* With one analysis writer nobody goes on with a buffer that was released.
THEOREM LammpsNoUse == ASSUME SingleWriter PROVE LammpsSpec => []NoUseAfterFree
<1>1. ASSUME LammpsAnalysisInv PROVE NoUseAfterFree
  <2>1. CoreInv
    BY <1>1 DEF LammpsAnalysisInv
  <2>2. InRing = Ring
    BY <2>1, RingCount DEF CoreInv
  <2>3. /\ freed \subseteq Left /\ None \notin freed
        /\ freed \cap (Range(writer_item) \ {None}) = {}
        /\ consumer_pc # "read" => pointer \notin freed
    BY <2>1, NotAfterFree
  <2>4. Left \cap AnnouncedBlocks = {} /\ Left \subseteq CarriedOver
    BY <1>1, CarriedIs DEF LammpsAnalysisInv, CarriedInv
  <2>5. freed \cap InReceiver = {}
    BY <1>1, <2>3, <2>4 DEF LammpsAnalysisInv, CarriedInv, LinesInv, InReceiver
  <2>6. freed \cap Ring = {}
    BY <2>1, <2>3 DEF CoreInv
  <2>7. InReaders = {}
    <3>1. DOMAIN reader_item = Readers
      BY <2>1 DEF CoreInv, TypeOK
    <3>2. QED
      BY <1>1, <3>1 DEF LammpsAnalysisInv, PollInv, InReaders, Range
  <2>8. QED
    BY <2>2, <2>3, <2>5, <2>6, <2>7 DEF NoUseAfterFree
<1>2. QED
  BY <1>1, LammpsAnalysisInvariant_Holds, PTL

\* An entry that is counted stays counted: nobody takes one.
LEMMA StaysCounted ==
  ASSUME LammpsAnalysisInv, [LammpsNext]_lammpsVars, recv_avail > 0
  PROVE  recv_avail' > 0
<1>1. recv_avail \in Nat /\ recv_int \in Nat /\ recv_tail = 0
  BY DEF LammpsAnalysisInv, LammpsTypeOK, TypeOK, PollInv
<1>2. CASE LammpsReceiver
  <2>1. CASE LammpsMakePrefetchId
    BY <1>1, <2>1 DEF LammpsMakePrefetchId
  <2>2. CASE ~LammpsMakePrefetchId
    <3>1. UNCHANGED idVars
      BY <1>2, <2>2 DEF LammpsReceiver, ReceiveLines, ReceiveBlock, ReceivePairs, ReceiveDisk,
         LammpsReceiveExit, ReaderExitSeen, ReceiverPut, ReceiverPutWait
    <3>2. QED
      BY <3>1 DEF idVars
  <2>3. QED
    BY <2>1, <2>2
<1>3. ASSUME NEW r \in Readers, LammpsReader(r) PROVE recv_avail' = recv_avail
  <2>1. CASE PollTake(r)
    BY <1>1, <2>1 DEF PollTake
  <2>2. CASE ~PollTake(r)
    <3>1. UNCHANGED idVars
      BY <1>3, <2>2 DEF LammpsReader, ReaderStart, PollExit, PollAvail, ReaderRead, ReaderPut, ReaderPutWait
    <3>2. QED
      BY <3>1 DEF idVars
  <2>3. QED
    BY <2>1, <2>2
<1>4. ASSUME OutputKept PROVE recv_avail' = recv_avail
  BY <1>4 DEF OutputKept, InputVars, idVars
<1>5. CASE LammpsConsumer \/ (\E w \in Writers : LammpsWriter(w)) \/ SpuriousWakeup
  <2>1. LammpsMoveTail => MovesTail
    BY DEF LammpsMoveTail, MovesTail
  <2>2. OutputKept
    BY <1>5, <2>1, OutputSteps DEF LammpsConsumer, LammpsWriter, LammpsAnalysisInv
  <2>3. QED
    BY <1>4, <2>2
<1>6. CASE UNCHANGED lammpsVars
  BY <1>6 DEF lammpsVars, vars, idVars
<1>7. QED
  BY <1>2, <1>3, <1>5, <1>6 DEF LammpsNext

\* Once the receiver has counted an entry the readers never answer: the
\* receiver that waits for reader_exit at the last EXIT waits for good.
THEOREM CountedIsNeverAnswered == LammpsSpec => NoAnswerOnceCounted
<1>1. LammpsAnalysisInv => (recv_avail > 0 => ~reader_exit)
  BY DEF LammpsAnalysisInv, LammpsTypeOK, TypeOK, PollInv
<1>2. LammpsAnalysisInv /\ [LammpsNext]_lammpsVars => (recv_avail > 0 => (recv_avail > 0)')
  BY StaysCounted
<1>3. QED
  BY <1>1, <1>2, LammpsAnalysisInvariant_Holds, PTL DEF LammpsSpec, NoAnswerOnceCounted
=============================================================================
