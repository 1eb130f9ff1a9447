---------------------------- MODULE ComputeBroker ----------------------------
(***************************************************************************)
(* The runtime of one Zipper compute process (lbm_adios/zipper): the       *)
(* simulation thread puts blocks into the producer ring buffer (PRB); the  *)
(* sender thread takes blocks from it and sends them to the analysis       *)
(* process over MPI; the writer threads take blocks from the same buffer   *)
(* and write them to the parallel file system, leaving their identifiers   *)
(* in written_id_array for the sender to announce.                         *)
(*                                                                         *)
(* A critical section under a mutex is one action.  A thread blocked in    *)
(* pthread_cond_wait is in "waiting"; each thread waits on one condition   *)
(* only: the generator on rb->full, the sender on rb->empty, a writer on   *)
(* gv->writer_on.                                                          *)
(***************************************************************************)
EXTENDS ZipperMessages

CONSTANTS
  Writers,               \* the writer threads (compute_writer_num of them)
  bufsize,               \* slots of the PRB
  cpt_total_blks,        \* blocks this process generates: X*Y*Z*step_stop
  writer_thousandth,     \* share of the blocks a writer may take, in 1/1000
  writer_prb_thousandth, \* how full the PRB must be before a writer helps
  NoBlk                  \* an empty hand or a slot never used

ASSUME ComputeAssumption ==
  /\ IsFiniteSet(Writers)
  /\ Writers \cap {"generator", "sender"} = {}
  /\ bufsize \in Nat \ {0}
  /\ cpt_total_blks \in Nat
  /\ writer_thousandth \in 0..1000
  /\ writer_prb_thousandth \in 0..1000
  /\ NoBlk \notin Int

Blocks         == 0..(cpt_total_blks - 1)
writer_blk_num == (cpt_total_blks * writer_thousandth) \div 1000
writer_on      == (bufsize * writer_prb_thousandth) \div 1000

\* written_id_array is allocated with writer_blk_num entries; the model gives
\* it room for every writer's quota, so that running over is a reachable
\* state (see IdArrayFits).
IdSlots == 0..(Cardinality(Writers) * writer_blk_num - 1)

VARIABLES
  data_id,             \* next block of the simulation
  gen_done,            \* the EXIT block is in the PRB
  buffer, head, tail, num_avail_elements,            \* the PRB
  waiting,             \* threads asleep in pthread_cond_wait
  send_pc, send_buf,   \* the sender and the block in its hand
  send_ids,            \* identifiers copied behind that block
  remain_disk_id,      \* length of the final disk message
  write_pc, write_buf, my_count,                     \* per writer
  written_id_array, send_tail,
  flag_sender_get_finalblk, flag_writer_get_finalblk, writer_exit,
  disk,                \* blocks that are in the file
  sent                 \* every MPI message sent so far, in order

prbVars    == <<buffer, head, tail, num_avail_elements>>
genVars    == <<data_id, gen_done>>
senderVars == <<send_pc, send_buf, send_ids, remain_disk_id, sent>>
writerVars == <<write_pc, write_buf, my_count, disk>>
idVars     == <<written_id_array, send_tail>>
flagVars   == <<flag_sender_get_finalblk, flag_writer_get_finalblk, writer_exit>>

vars == <<prbVars, genVars, senderVars, writerVars, idVars, flagVars, waiting>>

-----------------------------------------------------------------------------
\* pthread_cond_signal wakes one of the threads S that wait on the condition
\* and is lost when there is none.  Each element is a set of threads woken.
Signal(S) ==
  IF S \cap waiting = {} THEN {{}} ELSE {{t} : t \in S \cap waiting}

Advance(i) == (i + 1) % bufsize

TypeOK ==
  /\ data_id \in 0..cpt_total_blks
  /\ gen_done \in BOOLEAN
  /\ buffer \in [0..(bufsize - 1) -> Blocks \cup {EXIT_BLK_ID, NoBlk}]
  /\ head \in 0..(bufsize - 1)
  /\ tail \in 0..(bufsize - 1)
  /\ num_avail_elements \in -1..bufsize
  /\ waiting \in SUBSET (Writers \cup {"generator", "sender"})
  /\ send_pc \in {"get", "check", "send", "final", "drain", "disk", "exit", "done"}
  /\ send_buf \in Blocks \cup {EXIT_BLK_ID, NoBlk}
  /\ send_ids \in Seq(Blocks)
  /\ remain_disk_id \in Nat
  /\ write_pc \in [Writers -> {"start", "get", "write", "append", "final", "leave", "done"}]
  /\ write_buf \in [Writers -> Blocks \cup {EXIT_BLK_ID, NoBlk}]
  /\ my_count \in [Writers -> Nat]
  /\ written_id_array \in [IdSlots -> Blocks \cup {NoBlk}]
  /\ send_tail \in Nat
  /\ flag_sender_get_finalblk \in BOOLEAN
  /\ flag_writer_get_finalblk \in BOOLEAN
  /\ writer_exit \in BOOLEAN
  /\ disk \in SUBSET Blocks
  /\ sent \in Seq([tag : {"MPI_MSG_TAG", "MIX_MPI_DISK_TAG", "DISK_TAG", "EXIT_MSG_TAG"},
                   blk : Blocks \cup {EXIT_BLK_ID}, ids : Seq(Blocks)])

Init ==
  /\ data_id = 0
  /\ gen_done = FALSE
  /\ buffer = [i \in 0..(bufsize - 1) |-> NoBlk]
  /\ head = 0
  /\ tail = 0
  /\ num_avail_elements = 0
  /\ waiting = {}
  /\ send_pc = "get"
  /\ send_buf = NoBlk
  /\ send_ids = <<>>
  /\ remain_disk_id = 0
  /\ write_pc = [w \in Writers |-> "start"]
  /\ write_buf = [w \in Writers |-> NoBlk]
  /\ my_count = [w \in Writers |-> 0]
  /\ written_id_array = [i \in IdSlots |-> NoBlk]
  /\ send_tail = 0
  /\ flag_sender_get_finalblk = FALSE
  /\ flag_writer_get_finalblk = FALSE
  /\ writer_exit = FALSE
  /\ disk = {}
  /\ sent = <<>>

-----------------------------------------------------------------------------
(* The simulation thread: insert_zipper puts the blocks of every step,      *)
(* generate_exit_msg puts the EXIT block.  data_id is private to it, so its *)
(* increment belongs to the put.                                            *)

NextBlk == IF data_id < cpt_total_blks THEN data_id ELSE EXIT_BLK_ID

GeneratorPut ==
  /\ ~gen_done
  /\ "generator" \notin waiting
  /\ num_avail_elements < bufsize
  /\ buffer' = [buffer EXCEPT ![head] = NextBlk]
  /\ head' = Advance(head)
  /\ num_avail_elements' = num_avail_elements + 1
  /\ \E s \in Signal({"sender"}) :
     \E w \in IF num_avail_elements + 1 >= writer_on THEN Signal(Writers) ELSE {{}} :
       waiting' = waiting \ (s \cup w)
  /\ gen_done' = (data_id = cpt_total_blks)
  /\ data_id' = IF data_id < cpt_total_blks THEN data_id + 1 ELSE data_id
  /\ UNCHANGED <<tail, senderVars, writerVars, idVars, flagVars>>

GeneratorWait ==
  /\ ~gen_done
  /\ "generator" \notin waiting
  /\ num_avail_elements >= bufsize
  /\ waiting' = waiting \cup {"generator"}
  /\ UNCHANGED <<prbVars, genVars, senderVars, writerVars, idVars, flagVars>>

Generator == GeneratorPut \/ GeneratorWait

-----------------------------------------------------------------------------
(* The sender thread.                                                       *)

\* Both consumers of the PRB take the block at the tail.
Pop ==
  /\ tail' = Advance(tail)
  /\ num_avail_elements' = num_avail_elements - 1
  /\ \E g \in Signal({"generator"}) : waiting' = waiting \ g
  /\ UNCHANGED <<buffer, head>>

\* The thread that popped EXIT moves the tail and counts down once more.
DropFinal ==
  /\ tail' = Advance(tail)
  /\ num_avail_elements' = num_avail_elements - 1
  /\ UNCHANGED <<buffer, head>>

SenderGet ==
  /\ send_pc = "get"
  /\ "sender" \notin waiting
  /\ ~flag_writer_get_finalblk
  /\ num_avail_elements > 0
  /\ Pop
  /\ send_buf' = buffer[tail]
  /\ send_pc' = IF buffer[tail] = EXIT_BLK_ID THEN "final" ELSE "check"
  /\ UNCHANGED <<send_ids, remain_disk_id, sent, genVars, writerVars, idVars, flagVars>>

SenderWait ==
  /\ send_pc = "get"
  /\ "sender" \notin waiting
  /\ ~flag_writer_get_finalblk
  /\ num_avail_elements <= 0
  /\ waiting' = waiting \cup {"sender"}
  /\ UNCHANGED <<prbVars, genVars, senderVars, writerVars, idVars, flagVars>>

\* sender_ring_buffer_get returns NULL: a writer has the EXIT block.
SenderGetNull ==
  /\ send_pc = "get"
  /\ "sender" \notin waiting
  /\ flag_writer_get_finalblk
  /\ send_pc' = "drain"
  /\ UNCHANGED <<send_buf, send_ids, remain_disk_id, sent, waiting,
                 prbVars, genVars, writerVars, idVars, flagVars>>

\* Faulty variant: the last identifier is left out.
WrittenIdsShort(n) == [k \in 1..(n - 1) |-> written_id_array[k - 1]]

\* The first n entries of written_id_array, as a message carries them.
WrittenIds(n) == [k \in 1..n |-> written_id_array[k - 1]]

\* Faulty variant: send_tail is not reset after the copy.
SenderCheckIdsNoReset ==
  /\ send_pc = "check"
  /\ send_ids' = WrittenIds(send_tail)
  /\ send_pc' = "send"
  /\ UNCHANGED <<send_buf, remain_disk_id, sent, idVars, waiting,
                 prbVars, genVars, writerVars, flagVars>>

SenderCheckIds ==
  /\ send_pc = "check"
  /\ send_ids' = WrittenIds(send_tail)
  /\ send_tail' = 0
  /\ send_pc' = "send"
  /\ UNCHANGED <<send_buf, remain_disk_id, sent, written_id_array, waiting,
                 prbVars, genVars, writerVars, flagVars>>

SenderSend ==
  /\ send_pc = "send"
  /\ sent' = Append(sent, IF send_ids = <<>> THEN LongMsg(send_buf)
                                             ELSE MixMsg(send_buf, send_ids))
  /\ send_buf' = NoBlk
  /\ send_ids' = <<>>
  /\ send_pc' = "get"
  /\ UNCHANGED <<remain_disk_id, waiting, prbVars, genVars, writerVars, idVars, flagVars>>

\* Faulty variant: the sender takes EXIT and does not signal writer_on.
SenderFinalSilent ==
  /\ send_pc = "final"
  /\ flag_sender_get_finalblk' = TRUE
  /\ DropFinal
  /\ send_buf' = NoBlk
  /\ send_pc' = "drain"
  /\ UNCHANGED <<waiting, send_ids, remain_disk_id, sent, genVars, writerVars, idVars,
                 flag_writer_get_finalblk, writer_exit>>

SenderFinal ==
  /\ send_pc = "final"
  /\ flag_sender_get_finalblk' = TRUE
  /\ DropFinal
  /\ \E w \in Signal(Writers) : waiting' = waiting \ w
  /\ send_buf' = NoBlk
  /\ send_pc' = "drain"
  /\ UNCHANGED <<send_ids, remain_disk_id, sent, genVars, writerVars, idVars,
                 flag_writer_get_finalblk, writer_exit>>

\* Faulty variant: the sender does not wait for the writer to leave.
SenderDrainEarly ==
  /\ send_pc = "drain"
  /\ remain_disk_id' = send_tail
  /\ send_tail' = 0
  /\ send_pc' = IF send_tail > 0 THEN "disk" ELSE "exit"
  /\ UNCHANGED <<send_buf, send_ids, sent, written_id_array, waiting,
                 prbVars, genVars, writerVars, flagVars>>

\* The spin on writer_exit, then the last look at written_id_array.
SenderDrain ==
  /\ send_pc = "drain"
  /\ writer_exit
  /\ remain_disk_id' = send_tail
  /\ send_tail' = 0
  /\ send_pc' = IF send_tail > 0 THEN "disk" ELSE "exit"
  /\ UNCHANGED <<send_buf, send_ids, sent, written_id_array, waiting,
                 prbVars, genVars, writerVars, flagVars>>

\* written_id_array is sent as it is now: the lock was released before.
SenderDisk ==
  /\ send_pc = "disk"
  /\ sent' = Append(sent, DiskMsg(WrittenIds(remain_disk_id)))
  /\ send_pc' = "exit"
  /\ UNCHANGED <<send_buf, send_ids, remain_disk_id, waiting,
                 prbVars, genVars, writerVars, idVars, flagVars>>

SenderExit ==
  /\ send_pc = "exit"
  /\ sent' = Append(sent, ExitMsg)
  /\ send_pc' = "done"
  /\ UNCHANGED <<send_buf, send_ids, remain_disk_id, waiting,
                 prbVars, genVars, writerVars, idVars, flagVars>>

Sender ==
  \/ SenderGet \/ SenderWait \/ SenderGetNull
  \/ SenderCheckIds \/ SenderSend
  \/ SenderFinal \/ SenderDrain \/ SenderDisk \/ SenderExit

-----------------------------------------------------------------------------
(* A writer thread.                                                         *)

\* With a quota of 0 the thread only raises writer_exit.
WriterStart(w) ==
  /\ write_pc[w] = "start"
  /\ write_pc' = [write_pc EXCEPT ![w] = IF writer_blk_num = 0 THEN "done" ELSE "get"]
  /\ writer_exit' = (writer_exit \/ writer_blk_num = 0)
  /\ UNCHANGED <<write_buf, my_count, disk, waiting, prbVars, genVars, senderVars, idVars,
                 flag_sender_get_finalblk, flag_writer_get_finalblk>>

\* Faulty variant: an empty PRB passes a threshold of 0.
EnoughForZero == num_avail_elements >= writer_on

\* producer_ring_buffer_get finds enough blocks in the PRB for a writer.
Enough == num_avail_elements > 0 /\ num_avail_elements >= writer_on

WriterGet(w) ==
  /\ write_pc[w] = "get"
  /\ w \notin waiting
  /\ ~flag_sender_get_finalblk
  /\ Enough
  /\ Pop
  /\ write_buf' = [write_buf EXCEPT ![w] = buffer[tail]]
  /\ write_pc' = [write_pc EXCEPT ![w] = IF buffer[tail] = EXIT_BLK_ID THEN "final" ELSE "write"]
  /\ UNCHANGED <<my_count, disk, genVars, senderVars, idVars, flagVars>>

WriterWait(w) ==
  /\ write_pc[w] = "get"
  /\ w \notin waiting
  /\ ~flag_sender_get_finalblk
  /\ ~Enough
  /\ waiting' = waiting \cup {w}
  /\ UNCHANGED <<prbVars, genVars, senderVars, writerVars, idVars, flagVars>>

\* producer_ring_buffer_get returns NULL: the sender has the EXIT block.
WriterGetNull(w) ==
  /\ write_pc[w] = "get"
  /\ w \notin waiting
  /\ flag_sender_get_finalblk
  /\ write_pc' = [write_pc EXCEPT ![w] = "leave"]
  /\ UNCHANGED <<write_buf, my_count, disk, waiting,
                 prbVars, genVars, senderVars, idVars, flagVars>>

\* Faulty variant: the identifier is left for the sender before the data is on disk.
WriterWriteLater(w) ==
  /\ write_pc[w] = "write"
  /\ my_count' = [my_count EXCEPT ![w] = @ + 1]
  /\ write_pc' = [write_pc EXCEPT ![w] = "append"]
  /\ UNCHANGED <<write_buf, disk, waiting, prbVars, genVars, senderVars, idVars, flagVars>>

WriterWrite(w) ==
  /\ write_pc[w] = "write"
  /\ disk' = disk \cup {write_buf[w]}
  /\ my_count' = [my_count EXCEPT ![w] = @ + 1]
  /\ write_pc' = [write_pc EXCEPT ![w] = "append"]
  /\ UNCHANGED <<write_buf, waiting, prbVars, genVars, senderVars, idVars, flagVars>>

\* Faulty variant: the quota test is off by one.
WriterAppendOneMore(w) ==
  /\ write_pc[w] = "append"
  /\ written_id_array' = [written_id_array EXCEPT ![send_tail] = write_buf[w]]
  /\ send_tail' = send_tail + 1
  /\ write_buf' = [write_buf EXCEPT ![w] = NoBlk]
  /\ write_pc' = [write_pc EXCEPT ![w] = IF my_count[w] > writer_blk_num THEN "leave" ELSE "get"]
  /\ UNCHANGED <<my_count, disk, waiting, prbVars, genVars, senderVars, flagVars>>

WriterAppend(w) ==
  /\ write_pc[w] = "append"
  /\ written_id_array' = [written_id_array EXCEPT ![send_tail] = write_buf[w]]
  /\ send_tail' = send_tail + 1
  /\ write_buf' = [write_buf EXCEPT ![w] = NoBlk]
  /\ write_pc' = [write_pc EXCEPT ![w] = IF my_count[w] >= writer_blk_num THEN "leave" ELSE "get"]
  /\ UNCHANGED <<my_count, disk, waiting, prbVars, genVars, senderVars, flagVars>>

\* Faulty variant: the writer takes EXIT and does not wake the sender.
WriterFinalSilent(w) ==
  /\ write_pc[w] = "final"
  /\ flag_writer_get_finalblk' = TRUE
  /\ DropFinal
  /\ write_buf' = [write_buf EXCEPT ![w] = NoBlk]
  /\ write_pc' = [write_pc EXCEPT ![w] = "leave"]
  /\ UNCHANGED <<waiting, my_count, disk, genVars, senderVars, idVars,
                 flag_sender_get_finalblk, writer_exit>>

WriterFinal(w) ==
  /\ write_pc[w] = "final"
  /\ flag_writer_get_finalblk' = TRUE
  /\ DropFinal
  /\ \E s \in Signal({"sender"}) : waiting' = waiting \ s
  /\ write_buf' = [write_buf EXCEPT ![w] = NoBlk]
  /\ write_pc' = [write_pc EXCEPT ![w] = "leave"]
  /\ UNCHANGED <<my_count, disk, genVars, senderVars, idVars,
                 flag_sender_get_finalblk, writer_exit>>

WriterLeave(w) ==
  /\ write_pc[w] = "leave"
  /\ writer_exit' = TRUE
  /\ write_pc' = [write_pc EXCEPT ![w] = "done"]
  /\ UNCHANGED <<write_buf, my_count, disk, waiting, prbVars, genVars, senderVars, idVars,
                 flag_sender_get_finalblk, flag_writer_get_finalblk>>

Writer(w) ==
  \/ WriterStart(w) \/ WriterGet(w) \/ WriterWait(w) \/ WriterGetNull(w)
  \/ WriterWrite(w) \/ WriterAppend(w) \/ WriterFinal(w) \/ WriterLeave(w)

-----------------------------------------------------------------------------
\* POSIX lets pthread_cond_wait return without a signal.
SpuriousWakeup ==
  /\ \E t \in waiting : waiting' = waiting \ {t}
  /\ UNCHANGED <<prbVars, genVars, senderVars, writerVars, idVars, flagVars>>

\* main has joined every thread.
Joined == gen_done /\ send_pc = "done" /\ \A w \in Writers : write_pc[w] = "done"

Finished == Joined /\ UNCHANGED vars

Next ==
  \/ Generator
  \/ Sender
  \/ \E w \in Writers : Writer(w)
  \/ SpuriousWakeup
  \/ Finished

Spec == Init /\ [][Next]_vars

\* Every thread keeps being scheduled; nothing makes a wakeup happen.
Fairness ==
  /\ WF_vars(Generator)
  /\ WF_vars(Sender)
  /\ \A w \in Writers : WF_vars(Writer(w))

FairSpec == Spec /\ Fairness

-----------------------------------------------------------------------------
(* Properties.  With one writer thread, as every job script configures it,  *)
(* all of them hold; the model takes any number of writers.                 *)

\* The items in the PRB, in the order the consumers will take them.
InRing == {buffer[(tail + k) % bufsize] : k \in 0..(num_avail_elements - 1)} \ {EXIT_BLK_ID}
InHand == ({send_buf} \cup {write_buf[w] : w \in Writers}) \ {EXIT_BLK_ID, NoBlk}
InArray == {written_id_array[k] : k \in 0..(send_tail - 1)}
Leaving == Announced([ids |-> send_ids]) \cup
           (IF send_pc = "disk" THEN Announced([ids |-> WrittenIds(remain_disk_id)]) ELSE {})

Places == <<InRing, InHand, InArray, Leaving, DeliveredIn(sent)>>

\* Every block the simulation has generated is in exactly one place: the PRB,
\* the hand of a thread, written_id_array, a message under construction or a
\* message sent.  (producer_ring_buffer_put, both ring_buffer_get functions
\* and both users of lock_disk_id_arr together lose and duplicate nothing.)
BlocksConserved ==
  /\ UNION {Places[i] : i \in DOMAIN Places} = 0..(data_id - 1)
  /\ \A i, j \in DOMAIN Places : i # j => Places[i] \cap Places[j] = {}

\* "force EXIT be the last message": when the EXIT message is sent, every
\* block has been handed over, and nothing is sent after it.
ExitComesLast ==
  \A i \in DOMAIN sent : sent[i].tag = "EXIT_MSG_TAG" =>
    i = Len(sent) /\ DeliveredIn(sent) = Blocks

\* A block is announced as being on disk only after the writer put it there:
\* the reader of the analysis process will find it.
AnnouncedIsOnDisk == AnnouncedIn(sent) \subseteq disk

\* The identifiers fit where the code puts them: written_id_array and the
\* tail of a mixed message have room for writer_blk_num of them.
IdArrayFits ==
  /\ send_tail <= writer_blk_num
  /\ Len(send_ids) <= writer_blk_num

\* No message announces a block twice, or both carries and announces it.
MessagesWellformed == \A i \in DOMAIN sent : Wellformed(sent[i])

\* The process keeps the promise of BlockStream.
Stream == INSTANCE BlockStream WITH
  quota     <- writer_blk_num,
  pending   <- Blocks \ DeliveredIn(sent),
  announced <- AnnouncedIn(sent),
  phase     <- IF ExitSentIn(sent) THEN "closed" ELSE "open",
  messages  <- Len(sent)

ImplementsStream == Stream!StreamSpec

\* Every thread returns, so main can join them: no wakeup the process relies
\* on (full, empty, writer_on) is lost and no spin lasts for ever.
Terminates == <>Joined
=============================================================================
