---------------------------- MODULE LammpsAnalysis ----------------------------
(***************************************************************************)
(* The analysis process of Zipper for LAMMPS (lbm_adios/zipper_lammps),    *)
(* as differences to AnalysisBroker:                                       *)
(*  - a mixed message has its identifiers behind as many lines as its      *)
(*    block has, but the receiver looks for them behind as many lines as   *)
(*    the block of the message before had;                                 *)
(*  - make_prefetch_id writes at recv_tail, which it does not move;        *)
(*  - the readers do not sleep but poll, and nobody signals them;          *)
(*  - the consumer signals rb->full where AnalysisBroker broadcasts it.    *)
(* An entry of prefetch_id_array (source, identifier, lines) is a block.   *)
(***************************************************************************)
EXTENDS AnalysisBroker

CONSTANTS
  Lines,       \* numbers of lines a block may have
  NoLines,     \* dump_lines_in_this_blk before the first assignment
  MaxGarbage   \* bound: entries the receiver may find in the wrong place

ASSUME LammpsAnalysisAssumption ==
  /\ NoLines \notin Lines
  /\ MaxGarbage \in Nat

VARIABLES
  dump_lines_in_this_blk,  \* of the receiver: lines of the last block it took over
  msg_lines,               \* lines of the block in org_recv_buffer
  recv_int                 \* entries the receiver takes the message to hold

msgVars    == <<dump_lines_in_this_blk, msg_lines, recv_int>>
lammpsVars == <<vars, msgVars>>

LammpsTypeOK ==
  /\ TypeOK
  /\ dump_lines_in_this_blk \in Lines \cup {NoLines}
  /\ msg_lines \in Lines \cup {NoLines}
  /\ recv_int \in Nat

LammpsInit ==
  /\ Init
  /\ dump_lines_in_this_blk = NoLines
  /\ msg_lines = NoLines
  /\ recv_int = 0

-----------------------------------------------------------------------------
(* The receiver.                                                            *)

\* What the receiver reads behind a block of l lines as the number of entries,
\* when there are n: anything, if it looks in another place.
RecvInt(l, n) == IF dump_lines_in_this_blk = l THEN {n} ELSE 0..MaxGarbage

ReceiveLines(s) ==
  /\ ReceiveBlock(s)
  /\ \E l \in Lines :
       /\ msg_lines' = l
       /\ IF recv_ids' = <<>>
          THEN dump_lines_in_this_blk' = l /\ recv_int' = 0
          ELSE recv_int' \in RecvInt(l, Len(recv_ids')) /\ UNCHANGED dump_lines_in_this_blk

\* A pure disk message has no block in front.
ReceivePairs(s) ==
  /\ ReceiveDisk(s)
  /\ recv_int' = Len(recv_ids')
  /\ UNCHANGED <<dump_lines_in_this_blk, msg_lines>>

\* A mixed message whose identifiers are looked for in the wrong place.
Misread == recv_item # None /\ dump_lines_in_this_blk # msg_lines

\* Every entry is written at recv_tail: the last one stays.
StorePrefetch ==
  /\ IF recv_int = 0
     THEN UNCHANGED prefetch_id_array
     ELSE \E b \in IF Misread THEN Blocks ELSE {recv_ids[recv_int]} :
            prefetch_id_array' = Append(SubSeq(prefetch_id_array, 1, recv_tail), b)
  /\ UNCHANGED recv_tail

LammpsMakePrefetchId ==
  /\ receiver_pc = "ids"
  /\ id_lock = None
  /\ StorePrefetch
  /\ recv_avail' = recv_avail + recv_int
  /\ recv_ids' = <<>>
  /\ recv_int' = 0
  /\ dump_lines_in_this_blk' = IF recv_item = None THEN dump_lines_in_this_blk ELSE msg_lines
  /\ receiver_pc' = IF recv_item = None THEN "recv" ELSE "put"
  /\ UNCHANGED <<streamVars, recv_item, num_exit_flag, id_lock, exitVars, readerVars,
                 crbVars, stateVars, consumerVars, writerVars, waiting, freed, stored, msg_lines>>

\* The last EXIT message: recv_exit is raised and reader_exit waited for.
LammpsReceiveExit(s) ==
  /\ receiver_pc = "recv"
  /\ MayClose(pending[s], phase[s])
  /\ phase' = [phase EXCEPT ![s] = "closed"]
  /\ num_exit_flag' = num_exit_flag + 1
  /\ recv_item' = <<s, EXIT_BLK_ID>>
  /\ on_disk' = on_disk \cup {<<s, EXIT_BLK_ID>>}
  /\ calc_done' = calc_done \cup {<<s, EXIT_BLK_ID>>}
  /\ recv_exit' = (recv_exit \/ num_exit_flag + 1 = computer_group_size)
  /\ receiver_pc' = IF num_exit_flag + 1 = computer_group_size THEN "spin" ELSE "put"
  /\ UNCHANGED <<pending, announced, recv_ids, idVars, id_lock, reader_exit, ana_writer_exit,
                 readerVars, crbVars, consumerVars, writerVars, waiting, freed, stored>>

LammpsReceiver ==
  \/ \E s \in Sources :
       \/ ReceiveLines(s)
       \/ ReceivePairs(s)
       \/ LammpsReceiveExit(s) /\ UNCHANGED msgVars
  \/ LammpsMakePrefetchId
  \/ (ReaderExitSeen \/ ReceiverPut \/ ReceiverPutWait) /\ UNCHANGED msgVars

-----------------------------------------------------------------------------
(* A reader.                                                                *)

\* The test of recv_exit, without the lock.
PollExit(r) ==
  /\ reader_pc[r] = "top"
  /\ Goto(r, IF recv_exit THEN "check" ELSE "get")
  /\ UNCHANGED <<streamVars, receiverVars, idVars, id_lock, exitVars, reader_item, read_file_cnt,
                 crbVars, stateVars, consumerVars, writerVars, waiting, freed, stored>>

\* Faulty variant: a reader leaves although entries are counted.
PollAvailLeaves(r) ==
  /\ reader_pc[r] = "check"
  /\ id_lock = None
  /\ reader_exit' = TRUE
  /\ Goto(r, "done")
  /\ UNCHANGED <<streamVars, receiverVars, idVars, id_lock, recv_exit, ana_writer_exit, reader_item,
                 read_file_cnt, crbVars, stateVars, consumerVars, writerVars, waiting, freed, stored>>

\* After the last EXIT: does anything wait to be read?
PollAvail(r) ==
  /\ reader_pc[r] = "check"
  /\ id_lock = None
  /\ reader_exit' = (reader_exit \/ recv_avail = 0)
  /\ Goto(r, IF recv_avail = 0 THEN "done" ELSE "get")
  /\ UNCHANGED <<streamVars, receiverVars, idVars, id_lock, recv_exit, ana_writer_exit, reader_item,
                 read_file_cnt, crbVars, stateVars, consumerVars, writerVars, waiting, freed, stored>>

\* An entry is taken, or the quota tested and the loop goes on.
PollTake(r) ==
  /\ reader_pc[r] = "get"
  /\ id_lock = None
  /\ IF recv_tail > 0
     THEN /\ reader_item' = [reader_item EXCEPT ![r] = prefetch_id_array[recv_tail + 1]]
          /\ recv_tail' = recv_tail + 1
          /\ recv_avail' = recv_avail - 1
          /\ Goto(r, "read")
     ELSE /\ Goto(r, IF read_file_cnt[r] >= reader_blk_num THEN "done" ELSE "top")
          /\ UNCHANGED <<reader_item, recv_tail, recv_avail>>
  /\ UNCHANGED <<streamVars, receiverVars, prefetch_id_array, id_lock, exitVars, read_file_cnt,
                 crbVars, stateVars, consumerVars, writerVars, waiting, freed, stored>>

LammpsReader(r) ==
  \/ ReaderStart(r) \/ PollExit(r) \/ PollAvail(r) \/ PollTake(r)
  \/ ReaderRead(r) \/ ReaderPut(r) \/ ReaderPutWait(r)

-----------------------------------------------------------------------------
(* The consumer; a writer takes the steps AnalysisBroker gives it.         *)

\* Faulty variants: full is not signalled; the analysis writer is not waited for.
MoveTailKeepsFull ==
  /\ consumer_pc = "move"
  /\ pointer \in on_disk
  /\ tail' = Advance(tail)
  /\ num_avail_elements' = num_avail_elements - 1
  /\ \E w \in Signal(WaitsForNewTail) : waiting' = waiting \ w
  /\ consumer_pc' = "free"
  /\ UNCHANGED <<streamVars, receiverVars, idVars, id_lock, exitVars, readerVars, buffer, head,
                 stateVars, pointer, exits_got, calc_counter, writerVars, freed, stored>>

MoveTailAtOnce ==
  /\ consumer_pc = "move"
  /\ tail' = Advance(tail)
  /\ num_avail_elements' = num_avail_elements - 1
  /\ \E f \in Signal(WaitsForFull) : \E w \in Signal(WaitsForNewTail) : waiting' = waiting \ (f \cup w)
  /\ consumer_pc' = "free"
  /\ UNCHANGED <<streamVars, receiverVars, idVars, id_lock, exitVars, readerVars, buffer, head,
                 stateVars, pointer, exits_got, calc_counter, writerVars, freed, stored>>

\* consumer_ring_buffer_move_tail wakes one thread that waits for a slot.
LammpsMoveTail ==
  /\ consumer_pc = "move"
  /\ pointer \in on_disk
  /\ tail' = Advance(tail)
  /\ num_avail_elements' = num_avail_elements - 1
  /\ \E f \in Signal(WaitsForFull) : \E w \in Signal(WaitsForNewTail) : waiting' = waiting \ (f \cup w)
  /\ consumer_pc' = "free"
  /\ UNCHANGED <<streamVars, receiverVars, idVars, id_lock, exitVars, readerVars, buffer, head,
                 stateVars, pointer, exits_got, calc_counter, writerVars, freed, stored>>

LammpsConsumer ==
  \/ ConsumerReadTail \/ ConsumerWait \/ ConsumerCalc \/ ConsumerMark
  \/ LammpsMoveTail \/ ConsumerFree \/ ConsumerQuit \/ ConsumerSignal

\* The number of lines a writer also reads from the slot only sizes its fwrite.
LammpsWriter(w) == Writer(w) /\ UNCHANGED msgVars

-----------------------------------------------------------------------------
LammpsNext ==
  \/ LammpsReceiver
  \/ \E r \in Readers : LammpsReader(r) /\ UNCHANGED msgVars
  \/ LammpsConsumer /\ UNCHANGED msgVars
  \/ \E w \in Writers : LammpsWriter(w)
  \/ SpuriousWakeup /\ UNCHANGED msgVars
  \/ Joined /\ UNCHANGED lammpsVars

LammpsSpec == LammpsInit /\ [][LammpsNext]_lammpsVars

\* Every thread keeps being scheduled, and the compute processes send on.
LammpsFairness ==
  /\ WF_lammpsVars(LammpsReceiver)
  /\ \A r \in Readers : WF_lammpsVars(LammpsReader(r) /\ UNCHANGED msgVars)
  /\ WF_lammpsVars(LammpsConsumer /\ UNCHANGED msgVars)
  /\ \A w \in Writers : WF_lammpsVars(LammpsWriter(w))

LammpsFairSpec == LammpsSpec /\ LammpsFairness

-----------------------------------------------------------------------------
(* Properties, beside NoUseAfterFree of AnalysisBroker.                     *)

\* The blocks a message carried, and the EXIT blocks.
CarriedOver == {p \in HandedOver : IsExit(p) \/ p[2] \notin announced[p[1]]}

\* What came over MPI is in exactly one place, whatever the receiver makes of
\* the identifiers behind a block: with the receiver, in the CRB (once), or
\* released.  Nothing else ever enters the CRB.
CarriedConserved ==
  /\ ({recv_item} \ {None}) \cup InRing \cup Left = CarriedOver
  /\ InRing \cap Left = {} /\ recv_item \notin InRing \cup Left
  /\ Cardinality(InRing) = num_avail_elements

\* As long as no block is announced the process ends.
EndsWithoutFiles == []( \A s \in Sources : announced[s] = {}) => <>Joined

\* Once an entry is counted the readers never answer, and the receiver spins on
\* reader_exit: recv_tail is 0 and only a reader moves it, a reader takes an
\* entry only when it is not 0, and gives up only when recv_avail is.
NoAnswerOnceCounted == [](recv_avail > 0 => []~reader_exit)

\* "recv_int = send_counter": the receiver finds as many identifiers in a
\* mixed message as the sender put there.
RecvIntIsSendCounter == receiver_pc = "ids" /\ recv_item # None => recv_int = Len(recv_ids)
=============================================================================
