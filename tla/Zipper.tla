------------------------------- MODULE Zipper -------------------------------
(***************************************************************************)
(* A compute process and the analysis process it sends to, running         *)
(* together: ComputeBroker and AnalysisBroker joined by the MPI messages   *)
(* and by the file system.  The receiver takes the messages the sender has *)
(* really sent, instead of any that BlockStream allows.                    *)
(*                                                                         *)
(* MPI is external: the messages of a process arrive in order, and         *)
(* MPI_Send returns at once (buffered) or when the message is received.    *)
(***************************************************************************)
EXTENDS AnalysisBroker

CONSTANTS
  source,                 \* the compute process
  CptWriters,             \* its writer threads
  prb_size,               \* slots of the producer ring buffer
  writer_prb_thousandth,
  NoBlk

VARIABLES
  data_id, gen_done,
  prb_buffer, prb_head, prb_tail, prb_avail,   \* the producer ring buffer
  cpt_waiting,                                 \* sleeping compute threads
  send_pc, send_buf, send_ids, remain_disk_id,
  write_pc, write_buf, my_count,
  written_id_array, send_tail,
  flag_sender_get_finalblk, flag_writer_get_finalblk, writer_exit,
  disk, sent,
  received,   \* how many messages the receiver has taken
  buffered    \* MPI_Send does not wait for the receiver

Compute ==
  INSTANCE ComputeBroker WITH
    Writers <- CptWriters, bufsize <- prb_size,
    buffer <- prb_buffer, head <- prb_head, tail <- prb_tail,
    num_avail_elements <- prb_avail, waiting <- cpt_waiting

\* One source, and of its process what ComputeBroker assumes.
ASSUME ZipperAssumption ==
  /\ Sources = {source}
  /\ IsFiniteSet(CptWriters)
  /\ CptWriters \cap {"generator", "sender"} = {}
  /\ prb_size \in Nat \ {0}
  /\ writer_prb_thousandth \in 0..1000
  /\ NoBlk \notin Int

computeVars ==
  <<data_id, gen_done, prb_buffer, prb_head, prb_tail, prb_avail, cpt_waiting,
    send_pc, send_buf, send_ids, remain_disk_id, write_pc, write_buf, my_count,
    written_id_array, send_tail, flag_sender_get_finalblk, flag_writer_get_finalblk,
    writer_exit, disk, sent>>
analysisVars == vars
zipperVars   == <<analysisVars, computeVars, received, buffered>>

ZipperInit ==
  /\ Init
  /\ Compute!Init
  /\ received = 0
  /\ buffered \in BOOLEAN

-----------------------------------------------------------------------------
(* The compute process.                                                     *)

ComputeStep(A) == A /\ UNCHANGED <<analysisVars, received, buffered>>

\* A sender whose MPI_Send has not returned does nothing else.
SendReturned == buffered \/ received = Len(sent)

GeneratorStep == ComputeStep(Compute!Generator)
SenderStep    == SendReturned /\ ComputeStep(Compute!Sender)
WriterStep    == \E w \in CptWriters : ComputeStep(Compute!Writer(w))
ComputeWakeup == ComputeStep(Compute!SpuriousWakeup)

-----------------------------------------------------------------------------
(* The analysis process.                                                    *)

AnalysisStep(A) == A /\ UNCHANGED <<computeVars, received, buffered>>

\* The identifiers a message lists, as buffers of the analysis process.
IdsOf(m) == [k \in DOMAIN m.ids |-> <<source, m.ids[k]>>]

\* MPI_Recv returns the next message of the source.
TakeNext ==
  /\ received < Len(sent)
  /\ received' = received + 1
  /\ UNCHANGED <<computeVars, buffered>>

ReceiveLongOrMix ==
  /\ TakeNext
  /\ sent[received + 1].tag \in {"MPI_MSG_TAG", "MIX_MPI_DISK_TAG"}
  /\ ReceiveBlock(source)
  /\ recv_item' = <<source, sent[received + 1].blk>>
  /\ recv_ids' = IdsOf(sent[received + 1])

ReceiveDiskMsg ==
  /\ TakeNext
  /\ sent[received + 1].tag = "DISK_TAG"
  /\ ReceiveDisk(source)
  /\ recv_ids' = IdsOf(sent[received + 1])

ReceiveExitMsg ==
  /\ TakeNext
  /\ sent[received + 1].tag = "EXIT_MSG_TAG"
  /\ ReceiveExit(source)

ReceiverStep ==
  \/ ReceiveLongOrMix \/ ReceiveDiskMsg \/ ReceiveExitMsg
  \/ AnalysisStep(MakePrefetchId \/ SignalReader \/ ReaderExitSeen)
  \/ AnalysisStep(ReceiverPut \/ ReceiverPutWait)

ReaderStep(r)  == AnalysisStep(Reader(r))
ConsumerStep   == AnalysisStep(Consumer)
AnaWriterStep(w) == AnalysisStep(Writer(w))
AnalysisWakeup == AnalysisStep(SpuriousWakeup)

-----------------------------------------------------------------------------
\* Both programs are at the end of main.
BothJoined == Compute!Joined /\ Joined

BothFinished == BothJoined /\ UNCHANGED zipperVars

ZipperNext ==
  \/ GeneratorStep \/ SenderStep \/ WriterStep \/ ComputeWakeup
  \/ ReceiverStep \/ ConsumerStep
  \/ \E r \in Readers : ReaderStep(r)
  \/ \E w \in Writers : AnaWriterStep(w)
  \/ AnalysisWakeup
  \/ BothFinished

ZipperSpec == ZipperInit /\ [][ZipperNext]_zipperVars

\* As in the two modules; nothing else is assumed of the messages.
ZipperFairness ==
  /\ WF_zipperVars(GeneratorStep)
  /\ WF_zipperVars(SenderStep)
  /\ WF_zipperVars(WriterStep)
  /\ WF_zipperVars(ReceiverStep)
  /\ SF_zipperVars(AnalysisStep(MakePrefetchId))
  /\ WF_zipperVars(ConsumerStep)
  /\ \A r \in Readers : WF_zipperVars(ReaderStep(r)) /\ SF_zipperVars(AnalysisStep(ReaderLock(r)))
  /\ \A w \in Writers : WF_zipperVars(AnaWriterStep(w))

ZipperFairSpec == ZipperSpec /\ ZipperFairness

-----------------------------------------------------------------------------
(* Properties.                                                              *)

\* What the analysis process assumes of the messages, the compute process
\* keeps: whenever a message is there, the receiver can take it.
Acceptable(m) ==
  CASE m.tag \in {"MPI_MSG_TAG", "MIX_MPI_DISK_TAG"} ->
         /\ MayHandOver(writer_blk_num, pending[source], announced[source], phase[source],
                        m.blk, Announced(m))
         /\ Wellformed(m)
    [] m.tag = "DISK_TAG" ->
         /\ MayFlush(writer_blk_num, pending[source], announced[source], phase[source])
         /\ Announced(m) = pending[source]
         /\ Wellformed(m)
    [] OTHER -> MayClose(pending[source], phase[source])

ReceiverAccepts == received < Len(sent) => Acceptable(sent[received + 1])

\* A reader only opens the file of a block that a writer of the compute process
\* has put there: announcing and writing are in two processes and three threads.
ReaderFindsFile ==
  \A r \in Readers : reader_pc[r] = "read" => reader_item[r][2] \in disk

\* End to end, from the simulation to the analysis: a block that was generated
\* is in the compute process, in a message, or in the analysis process, and in
\* one of them only.
InCompute == Compute!InRing \cup Compute!InHand \cup Compute!InArray \cup Compute!Leaving
InFlight  == UNION {BlocksOf(sent[i]) : i \in (received + 1)..Len(sent)}
InAnalysis == {p[2] : p \in (UNION {Places[i] : i \in DOMAIN Places}) \cap Blocks}

EndToEnd ==
  /\ InCompute \cup InFlight \cup InAnalysis = 0..(data_id - 1)
  /\ InCompute \cap InFlight = {}
  /\ (InCompute \cup InFlight) \cap InAnalysis = {}

\* Every block gets through and the compute program ends, whether or not MPI_Send
\* waits for the receiver: a full ring buffer on either side, and a receiver or a
\* reader that sleeps on it, hold the others up but never for ever.  (That the
\* analysis program ends as well fails as AnalysisBroker's LeavingReaderTells and
\* ReaderIsReleased do.)
EveryBlockThrough == <>(Compute!Joined /\ Blocks \subseteq calc_done)
=============================================================================
