--------------------------- MODULE AnalysisBroker ---------------------------
(***************************************************************************)
(* The runtime of one Zipper analysis process (lbm_adios/zipper).  The     *)
(* receiver takes the messages of a group of compute processes, puts the   *)
(* blocks they carry into the consumer ring buffer (CRB) and the           *)
(* identifiers they announce into prefetch_id_array; the reader threads    *)
(* fetch the announced blocks from the file system into the CRB; the       *)
(* consumer analyses the block at the tail of the CRB, and the analysis    *)
(* writers put it on disk first if it came over the network.               *)
(*                                                                         *)
(* The compute processes are the environment: each behaves as the stream   *)
(* of BlockStream, which ComputeBroker implements.  A critical section     *)
(* under rb->lock_ringbuffer is one action; lock_recv_disk_id_arr has an   *)
(* explicit holder, because the reader keeps it across its steps.          *)
(***************************************************************************)
EXTENDS ZipperMessages, Functions

CONSTANTS
  Sources,         \* the compute processes of this group (computer_group_size)
  Readers,         \* the reader threads (analysis_reader_num of them)
  Writers,         \* the analysis writer threads (analysis_writer_num)
  bufsize,         \* slots of the CRB
  cpt_total_blks,  \* blocks each compute process generates
  writer_thousandth,  \* the share of them it may announce, in thousandths
  KEEP,            \* analysis writers really write what they mark ON_DISK
  None             \* no buffer, no lock holder

Threads == Readers \cup Writers \cup {"receiver", "consumer"}

ASSUME AnalysisAssumption ==
  /\ IsFiniteSet(Sources) /\ Sources # {}
  /\ IsFiniteSet(Readers) /\ IsFiniteSet(Writers)
  /\ Readers \cap Writers = {}
  /\ (Readers \cup Writers) \cap {"receiver", "consumer"} = {}
  /\ bufsize \in Nat \ {0}
  /\ cpt_total_blks \in Nat
  /\ writer_thousandth \in 0..1000
  /\ KEEP \in BOOLEAN
  /\ None \notin Threads /\ None \notin Sources \X Int

computer_group_size == Cardinality(Sources)
writer_blk_num      == (cpt_total_blks * writer_thousandth) \div 1000

\* Faulty variant: the quota of one source only.
ReaderQuotaOfOne == writer_blk_num

reader_blk_num      == computer_group_size * writer_blk_num
ana_total_blks      == computer_group_size * cpt_total_blks

\* A buffer is named by the source and the block it was allocated for.
Blocks == Sources \X (0..(cpt_total_blks - 1))
Exits  == Sources \X {EXIT_BLK_ID}
Items  == Blocks \cup Exits
IsExit(p) == p[2] = EXIT_BLK_ID

VARIABLES
  pending, announced, phase,                      \* the streams, by source
  receiver_pc, recv_item, recv_ids, num_exit_flag,  \* num_exit_flag: of the receiver
  prefetch_id_array, recv_tail, recv_avail, id_lock,
  recv_exit, reader_exit, ana_writer_exit,
  reader_pc, reader_item, read_file_cnt,          \* per reader
  buffer, head, tail, num_avail_elements,         \* the CRB
  on_disk, calc_done,  \* buffers marked ON_DISK, CALC_DONE
  consumer_pc, pointer, exits_got, calc_counter,
  writer_pc, writer_item,                         \* per analysis writer
  waiting,             \* threads asleep in pthread_cond_wait
  freed,               \* buffers given back with free()
  stored               \* blocks the file system holds

streamVars   == <<pending, announced, phase>>
receiverVars == <<receiver_pc, recv_item, recv_ids, num_exit_flag>>
idVars       == <<prefetch_id_array, recv_tail, recv_avail>>
exitVars     == <<recv_exit, reader_exit, ana_writer_exit>>
readerVars   == <<reader_pc, reader_item, read_file_cnt>>
crbVars      == <<buffer, head, tail, num_avail_elements>>
stateVars    == <<on_disk, calc_done>>
consumerVars == <<consumer_pc, pointer, exits_got, calc_counter>>
writerVars   == <<writer_pc, writer_item>>

vars == <<streamVars, receiverVars, idVars, id_lock, exitVars, readerVars, crbVars, stateVars,
          consumerVars, writerVars, waiting, freed, stored>>

TypeOK ==
  /\ pending \in [Sources -> SUBSET (0..(cpt_total_blks - 1))]
  /\ announced \in [Sources -> SUBSET (0..(cpt_total_blks - 1))]
  /\ phase \in [Sources -> {"open", "closed"}]
  /\ receiver_pc \in {"recv", "ids", "put", "signal", "spin", "done"}
  /\ recv_item \in Items \cup {None}
  /\ recv_ids \in Seq(Blocks)
  /\ num_exit_flag \in 0..computer_group_size
  /\ prefetch_id_array \in Seq(Blocks)
  /\ recv_tail \in Nat
  /\ recv_avail \in Nat
  /\ id_lock \in Threads \cup {None}
  /\ <<recv_exit, reader_exit, ana_writer_exit>> \in BOOLEAN \X BOOLEAN \X BOOLEAN
  /\ reader_pc \in [Readers -> {"start", "top", "get", "check", "sleep", "read", "put", "done"}]
  /\ reader_item \in [Readers -> Blocks \cup {None}]
  /\ read_file_cnt \in [Readers -> Nat]
  /\ buffer \in [0..(bufsize - 1) -> Items \cup {None}]
  /\ head \in 0..(bufsize - 1)
  /\ tail \in 0..(bufsize - 1)
  /\ num_avail_elements \in 0..bufsize
  /\ on_disk \subseteq Items
  /\ calc_done \subseteq Items
  /\ consumer_pc \in {"read", "calc", "mark", "move", "free", "quit", "signal", "done"}
  /\ pointer \in Items \cup {None}
  /\ exits_got \in 0..computer_group_size
  /\ calc_counter \in Nat
  /\ writer_pc \in [Writers -> {"read", "write", "mark", "check", "done"}]
  /\ writer_item \in [Writers -> Items \cup {None}]
  /\ waiting \in SUBSET Threads
  /\ freed \subseteq Items
  /\ stored \subseteq Blocks

Init ==
  /\ pending = [s \in Sources |-> 0..(cpt_total_blks - 1)]
  /\ announced = [s \in Sources |-> {}]
  /\ phase = [s \in Sources |-> "open"]
  /\ receiver_pc = "recv"
  /\ recv_item = None
  /\ recv_ids = <<>>
  /\ num_exit_flag = 0
  /\ prefetch_id_array = <<>>
  /\ recv_tail = 0
  /\ recv_avail = 0
  /\ id_lock = None
  /\ recv_exit = FALSE
  /\ reader_exit = FALSE
  /\ ana_writer_exit = FALSE
  /\ reader_pc = [r \in Readers |-> "start"]
  /\ reader_item = [r \in Readers |-> None]
  /\ read_file_cnt = [r \in Readers |-> 0]
  /\ buffer = [i \in 0..(bufsize - 1) |-> None]
  /\ head = 0
  /\ tail = 0
  /\ num_avail_elements = 0
  /\ on_disk = {}
  /\ calc_done = {}
  /\ consumer_pc = "read"
  /\ pointer = None
  /\ exits_got = 0
  /\ calc_counter = 0
  /\ writer_pc = [w \in Writers |-> "read"]
  /\ writer_item = [w \in Writers |-> None]
  /\ waiting = {}
  /\ freed = {}
  /\ stored = {}

-----------------------------------------------------------------------------
(* The condition variables and the CRB.                                     *)

WaitsForFull    == waiting \cap ({"receiver"} \cup {r \in Readers : reader_pc[r] = "put"})
WaitsForEmpty   == waiting \cap ({"consumer"} \cup {w \in Writers : writer_pc[w] = "read"})
WaitsForNewTail == waiting \cap {w \in Writers : writer_pc[w] = "check"}
WaitsForIds     == waiting \cap {r \in Readers : reader_pc[r] = "get"}

\* pthread_cond_signal wakes one of the threads S and is lost on none.
Signal(S) == IF S = {} THEN {{}} ELSE {{t} : t \in S}

Advance(i) == (i + 1) % bufsize

\* Faulty variant: one block more than the CRB has slots.
PutOneMore(p) ==
  /\ num_avail_elements <= bufsize
  /\ buffer' = [buffer EXCEPT ![head] = p]
  /\ head' = Advance(head)
  /\ num_avail_elements' = num_avail_elements + 1
  /\ waiting' = waiting \ WaitsForEmpty
  /\ UNCHANGED tail

\* recv_ring_buffer_put and ring_buffer_put: the broadcast wakes everyone.
Put(p) ==
  /\ num_avail_elements < bufsize
  /\ buffer' = [buffer EXCEPT ![head] = p]
  /\ head' = Advance(head)
  /\ num_avail_elements' = num_avail_elements + 1
  /\ waiting' = waiting \ WaitsForEmpty
  /\ UNCHANGED tail

PutWait(t) ==
  /\ num_avail_elements >= bufsize
  /\ waiting' = waiting \cup {t}
  /\ UNCHANGED crbVars

-----------------------------------------------------------------------------
(* The receiver.                                                            *)

\* The orders in which a message may list the blocks S of source s.
Listings(s, S) ==
  {[k \in DOMAIN q |-> <<s, q[k]>>] : q \in {f \in [1..Cardinality(S) -> S] : IsInjective(f)}}

\* A long message (S is empty) or a mixed one.
ReceiveBlock(s) ==
  /\ receiver_pc = "recv"
  /\ \E b \in pending[s] : \E S \in SUBSET (pending[s] \ {b}) :
       /\ MayHandOver(writer_blk_num, pending[s], announced[s], phase[s], b, S)
       /\ pending' = [pending EXCEPT ![s] = @ \ ({b} \cup S)]
       /\ announced' = [announced EXCEPT ![s] = @ \cup S]
       /\ stored' = stored \cup ({s} \X S)
       /\ recv_item' = <<s, b>>
       /\ recv_ids' \in Listings(s, S)
       /\ receiver_pc' = IF S = {} THEN "put" ELSE "ids"
  /\ UNCHANGED <<phase, num_exit_flag, idVars, id_lock, exitVars, readerVars, crbVars,
                 stateVars, consumerVars, writerVars, waiting, freed>>

\* A pure disk message.
ReceiveDisk(s) ==
  /\ receiver_pc = "recv"
  /\ MayFlush(writer_blk_num, pending[s], announced[s], phase[s])
  /\ pending' = [pending EXCEPT ![s] = {}]
  /\ announced' = [announced EXCEPT ![s] = @ \cup pending[s]]
  /\ stored' = stored \cup ({s} \X pending[s])
  /\ recv_ids' \in Listings(s, pending[s])
  /\ receiver_pc' = "ids"
  /\ UNCHANGED <<phase, recv_item, num_exit_flag, idVars, id_lock, exitVars, readerVars, crbVars,
                 stateVars, consumerVars, writerVars, waiting, freed>>

\* make_prefetch_id under lock_recv_disk_id_arr, and the wakeup of a reader.
MakePrefetchId ==
  /\ receiver_pc = "ids"
  /\ id_lock = None
  /\ prefetch_id_array' = prefetch_id_array \o recv_ids
  /\ recv_avail' = recv_avail + Len(recv_ids)
  /\ recv_ids' = <<>>
  /\ \E r \in Signal(WaitsForIds) : waiting' = waiting \ r
  /\ receiver_pc' = IF recv_item = None THEN "recv" ELSE "put"
  /\ UNCHANGED <<streamVars, recv_item, num_exit_flag, recv_tail, id_lock, exitVars, readerVars,
                 crbVars, stateVars, consumerVars, writerVars, freed, stored>>

\* Faulty variant: the last EXIT does not wait for the readers.
ReceiveExitNoWait(s) ==
  /\ receiver_pc = "recv"
  /\ MayClose(pending[s], phase[s])
  /\ phase' = [phase EXCEPT ![s] = "closed"]
  /\ num_exit_flag' = num_exit_flag + 1
  /\ recv_item' = <<s, EXIT_BLK_ID>>
  /\ on_disk' = on_disk \cup {<<s, EXIT_BLK_ID>>}
  /\ calc_done' = calc_done \cup {<<s, EXIT_BLK_ID>>}
  /\ recv_exit' = (recv_exit \/ num_exit_flag + 1 = computer_group_size)
  /\ receiver_pc' = "put"
  /\ UNCHANGED <<pending, announced, recv_ids, idVars, id_lock, reader_exit, ana_writer_exit,
                 readerVars, crbVars, consumerVars, writerVars, waiting, freed, stored>>

\* The EXIT message: the last one has to wait for the readers.
ReceiveExit(s) ==
  /\ receiver_pc = "recv"
  /\ MayClose(pending[s], phase[s])
  /\ phase' = [phase EXCEPT ![s] = "closed"]
  /\ num_exit_flag' = num_exit_flag + 1
  /\ recv_item' = <<s, EXIT_BLK_ID>>
  /\ on_disk' = on_disk \cup {<<s, EXIT_BLK_ID>>}
  /\ calc_done' = calc_done \cup {<<s, EXIT_BLK_ID>>}
  /\ recv_exit' = (recv_exit \/ num_exit_flag + 1 = computer_group_size)
  /\ receiver_pc' = IF num_exit_flag + 1 = computer_group_size THEN "signal" ELSE "put"
  /\ UNCHANGED <<pending, announced, recv_ids, idVars, id_lock, reader_exit, ana_writer_exit,
                 readerVars, crbVars, consumerVars, writerVars, waiting, freed, stored>>

\* The signal is sent without lock_recv_disk_id_arr.
SignalReader ==
  /\ receiver_pc = "signal"
  /\ \E r \in Signal(WaitsForIds) : waiting' = waiting \ r
  /\ receiver_pc' = "spin"
  /\ UNCHANGED <<streamVars, recv_item, recv_ids, num_exit_flag, idVars, id_lock, exitVars,
                 readerVars, crbVars, stateVars, consumerVars, writerVars, freed, stored>>

ReaderExitSeen ==
  /\ receiver_pc = "spin"
  /\ reader_exit
  /\ receiver_pc' = "put"
  /\ UNCHANGED <<streamVars, recv_item, recv_ids, num_exit_flag, idVars, id_lock, exitVars,
                 readerVars, crbVars, stateVars, consumerVars, writerVars, waiting, freed, stored>>

ReceiverPut ==
  /\ receiver_pc = "put"
  /\ "receiver" \notin waiting
  /\ Put(recv_item)
  /\ recv_item' = None
  /\ receiver_pc' = IF recv_exit THEN "done" ELSE "recv"
  /\ UNCHANGED <<streamVars, recv_ids, num_exit_flag, idVars, id_lock, exitVars, readerVars,
                 stateVars, consumerVars, writerVars, freed, stored>>

ReceiverPutWait ==
  /\ receiver_pc = "put"
  /\ "receiver" \notin waiting
  /\ PutWait("receiver")
  /\ UNCHANGED <<streamVars, receiverVars, idVars, id_lock, exitVars, readerVars,
                 stateVars, consumerVars, writerVars, freed, stored>>

Receiver ==
  \/ \E s \in Sources : ReceiveBlock(s) \/ ReceiveDisk(s) \/ ReceiveExit(s)
  \/ MakePrefetchId \/ SignalReader \/ ReaderExitSeen
  \/ ReceiverPut \/ ReceiverPutWait

-----------------------------------------------------------------------------
(* A reader.                                                                *)

Goto(r, pc) == reader_pc' = [reader_pc EXCEPT ![r] = pc]

\* A reader without a quota only raises reader_exit.
ReaderStart(r) ==
  /\ reader_pc[r] = "start"
  /\ Goto(r, IF reader_blk_num = 0 THEN "done" ELSE "top")
  /\ reader_exit' = (reader_exit \/ reader_blk_num = 0)
  /\ UNCHANGED <<streamVars, receiverVars, idVars, id_lock, recv_exit, ana_writer_exit,
                 reader_item, read_file_cnt, crbVars, stateVars, consumerVars, writerVars,
                 waiting, freed, stored>>

ReaderTop(r) ==
  /\ reader_pc[r] = "top"
  /\ Goto(r, IF reader_exit THEN "done" ELSE "get")
  /\ UNCHANGED <<streamVars, receiverVars, idVars, id_lock, exitVars, reader_item, read_file_cnt,
                 crbVars, stateVars, consumerVars, writerVars, waiting, freed, stored>>

\* get_disk_blk takes the lock, at first and again after every wakeup.
ReaderLock(r) ==
  /\ reader_pc[r] = "get"
  /\ r \notin waiting
  /\ id_lock = None
  /\ id_lock' = r
  /\ Goto(r, "check")
  /\ UNCHANGED <<streamVars, receiverVars, idVars, exitVars, reader_item, read_file_cnt,
                 crbVars, stateVars, consumerVars, writerVars, waiting, freed, stored>>

\* Faulty variant: recv_tail does not move.
ReaderTakeAgain(r) ==
  /\ reader_pc[r] = "check"
  /\ recv_avail > 0
  /\ reader_item' = [reader_item EXCEPT ![r] = prefetch_id_array[recv_tail + 1]]
  /\ recv_avail' = recv_avail - 1
  /\ id_lock' = None
  /\ Goto(r, "read")
  /\ UNCHANGED <<streamVars, receiverVars, prefetch_id_array, recv_tail, exitVars, read_file_cnt,
                 crbVars, stateVars, consumerVars, writerVars, waiting, freed, stored>>

ReaderTake(r) ==
  /\ reader_pc[r] = "check"
  /\ recv_avail > 0
  /\ reader_item' = [reader_item EXCEPT ![r] = prefetch_id_array[recv_tail + 1]]
  /\ recv_tail' = recv_tail + 1
  /\ recv_avail' = recv_avail - 1
  /\ id_lock' = None
  /\ Goto(r, "read")
  /\ UNCHANGED <<streamVars, receiverVars, prefetch_id_array, exitVars, read_file_cnt,
                 crbVars, stateVars, consumerVars, writerVars, waiting, freed, stored>>

\* get_disk_blk returns 0 with the lock held, and then the loop ends: at the
\* quota test, or at its top because reader_exit is set.
ReaderGivesUp(r) ==
  /\ reader_pc[r] = "check"
  /\ recv_avail = 0
  /\ recv_exit
  /\ reader_exit' = TRUE
  /\ Goto(r, "done")
  /\ UNCHANGED <<streamVars, receiverVars, idVars, id_lock, recv_exit, ana_writer_exit,
                 reader_item, read_file_cnt, crbVars, stateVars, consumerVars, writerVars,
                 waiting, freed, stored>>

\* The test of recv_exit and the pthread_cond_wait are two steps: recv_exit is
\* set without the lock.
ReaderSeesNone(r) ==
  /\ reader_pc[r] = "check"
  /\ recv_avail = 0
  /\ ~recv_exit
  /\ Goto(r, "sleep")
  /\ UNCHANGED <<streamVars, receiverVars, idVars, id_lock, exitVars, reader_item, read_file_cnt,
                 crbVars, stateVars, consumerVars, writerVars, waiting, freed, stored>>

ReaderWait(r) ==
  /\ reader_pc[r] = "sleep"
  /\ id_lock' = None
  /\ waiting' = waiting \cup {r}
  /\ Goto(r, "get")
  /\ UNCHANGED <<streamVars, receiverVars, idVars, exitVars, reader_item, read_file_cnt,
                 crbVars, stateVars, consumerVars, writerVars, freed, stored>>

ReaderRead(r) ==
  /\ reader_pc[r] = "read"
  /\ on_disk' = on_disk \cup {reader_item[r]}
  /\ calc_done' = calc_done \ {reader_item[r]}
  /\ read_file_cnt' = [read_file_cnt EXCEPT ![r] = @ + 1]
  /\ Goto(r, "put")
  /\ UNCHANGED <<streamVars, receiverVars, idVars, id_lock, exitVars, reader_item,
                 crbVars, consumerVars, writerVars, waiting, freed, stored>>

\* The quota is tested after the put.  A reader that has reached it leaves the
\* loop before the line that would raise reader_exit.
ReaderPut(r) ==
  /\ reader_pc[r] = "put"
  /\ r \notin waiting
  /\ Put(reader_item[r])
  /\ reader_item' = [reader_item EXCEPT ![r] = None]
  /\ Goto(r, IF read_file_cnt[r] >= reader_blk_num THEN "done" ELSE "top")
  /\ UNCHANGED <<streamVars, receiverVars, idVars, id_lock, exitVars, read_file_cnt,
                 stateVars, consumerVars, writerVars, freed, stored>>

ReaderPutWait(r) ==
  /\ reader_pc[r] = "put"
  /\ r \notin waiting
  /\ PutWait(r)
  /\ UNCHANGED <<streamVars, receiverVars, idVars, id_lock, exitVars, readerVars,
                 stateVars, consumerVars, writerVars, freed, stored>>

Reader(r) ==
  \/ ReaderStart(r) \/ ReaderTop(r) \/ ReaderLock(r)
  \/ ReaderTake(r) \/ ReaderGivesUp(r) \/ ReaderSeesNone(r) \/ ReaderWait(r)
  \/ ReaderRead(r) \/ ReaderPut(r) \/ ReaderPutWait(r)

-----------------------------------------------------------------------------
(* The consumer.                                                            *)

\* A block that is already CALC_DONE is reported as an error and read again.
ConsumerReadTail ==
  /\ consumer_pc = "read"
  /\ "consumer" \notin waiting
  /\ num_avail_elements > 0
  /\ pointer' = buffer[tail]
  /\ consumer_pc' = IF IsExit(buffer[tail]) THEN "move"
                    ELSE IF buffer[tail] \in calc_done THEN "read" ELSE "calc"
  /\ UNCHANGED <<streamVars, receiverVars, idVars, id_lock, exitVars, readerVars, crbVars,
                 stateVars, exits_got, calc_counter, writerVars, waiting, freed, stored>>

ConsumerWait ==
  /\ consumer_pc = "read"
  /\ "consumer" \notin waiting
  /\ num_avail_elements = 0
  /\ waiting' = waiting \cup {"consumer"}
  /\ UNCHANGED <<streamVars, receiverVars, idVars, id_lock, exitVars, readerVars, crbVars,
                 stateVars, consumerVars, writerVars, freed, stored>>

ConsumerCalc ==
  /\ consumer_pc = "calc"
  /\ calc_counter' = calc_counter + 1
  /\ consumer_pc' = "mark"
  /\ UNCHANGED <<streamVars, receiverVars, idVars, id_lock, exitVars, readerVars, crbVars,
                 stateVars, pointer, exits_got, writerVars, waiting, freed, stored>>

ConsumerMark ==
  /\ consumer_pc = "mark"
  /\ calc_done' = calc_done \cup {pointer}
  /\ consumer_pc' = "move"
  /\ UNCHANGED <<streamVars, receiverVars, idVars, id_lock, exitVars, readerVars, crbVars,
                 on_disk, pointer, exits_got, calc_counter, writerVars, waiting, freed, stored>>

\* Faulty variant: full is not broadcast.
ConsumerMoveTailKeepsFull ==
  /\ consumer_pc = "move"
  /\ pointer \in on_disk
  /\ tail' = Advance(tail)
  /\ num_avail_elements' = num_avail_elements - 1
  /\ \E w \in Signal(WaitsForNewTail) : waiting' = waiting \ w
  /\ consumer_pc' = "free"
  /\ UNCHANGED <<streamVars, receiverVars, idVars, id_lock, exitVars, readerVars, buffer, head,
                 stateVars, pointer, exits_got, calc_counter, writerVars, freed, stored>>

\* Faulty variant: the analysis writer is not waited for.
ConsumerMoveTailAtOnce ==
  /\ consumer_pc = "move"
  /\ tail' = Advance(tail)
  /\ num_avail_elements' = num_avail_elements - 1
  /\ \E w \in Signal(WaitsForNewTail) : waiting' = waiting \ (WaitsForFull \cup w)
  /\ consumer_pc' = "free"
  /\ UNCHANGED <<streamVars, receiverVars, idVars, id_lock, exitVars, readerVars, buffer, head,
                 stateVars, pointer, exits_got, calc_counter, writerVars, freed, stored>>

\* consumer_ring_buffer_move_tail spins until the block is ON_DISK.
ConsumerMoveTail ==
  /\ consumer_pc = "move"
  /\ pointer \in on_disk
  /\ tail' = Advance(tail)
  /\ num_avail_elements' = num_avail_elements - 1
  /\ \E w \in Signal(WaitsForNewTail) : waiting' = waiting \ (WaitsForFull \cup w)
  /\ consumer_pc' = "free"
  /\ UNCHANGED <<streamVars, receiverVars, idVars, id_lock, exitVars, readerVars, buffer, head,
                 stateVars, pointer, exits_got, calc_counter, writerVars, freed, stored>>

ConsumerFree ==
  /\ consumer_pc = "free"
  /\ freed' = freed \cup {pointer}
  /\ pointer' = None
  /\ exits_got' = IF IsExit(pointer) THEN exits_got + 1 ELSE exits_got
  /\ consumer_pc' = IF exits_got' >= computer_group_size THEN "quit" ELSE "read"
  /\ UNCHANGED <<streamVars, receiverVars, idVars, id_lock, exitVars, readerVars, crbVars,
                 stateVars, calc_counter, writerVars, waiting, stored>>

ConsumerQuit ==
  /\ consumer_pc = "quit"
  /\ ana_writer_exit' = TRUE
  /\ consumer_pc' = "signal"
  /\ UNCHANGED <<streamVars, receiverVars, idVars, id_lock, recv_exit, reader_exit, readerVars,
                 crbVars, stateVars, pointer, exits_got, calc_counter, writerVars,
                 waiting, freed, stored>>

\* Faulty variant: the analysis writer is not woken.
ConsumerSignalNobody ==
  /\ consumer_pc = "signal"
  /\ consumer_pc' = "done"
  /\ UNCHANGED <<streamVars, receiverVars, idVars, id_lock, exitVars, readerVars, crbVars,
                 stateVars, pointer, exits_got, calc_counter, writerVars, waiting, freed, stored>>

ConsumerSignal ==
  /\ consumer_pc = "signal"
  /\ \E w \in Signal(WaitsForEmpty) : waiting' = waiting \ w
  /\ consumer_pc' = "done"
  /\ UNCHANGED <<streamVars, receiverVars, idVars, id_lock, exitVars, readerVars, crbVars,
                 stateVars, pointer, exits_got, calc_counter, writerVars, freed, stored>>

Consumer ==
  \/ ConsumerReadTail \/ ConsumerWait \/ ConsumerCalc \/ ConsumerMark
  \/ ConsumerMoveTail \/ ConsumerFree \/ ConsumerQuit \/ ConsumerSignal

-----------------------------------------------------------------------------
(* An analysis writer.                                                      *)

WriterGoto(w, pc) == writer_pc' = [writer_pc EXCEPT ![w] = pc]

\* read_tail returns NULL once ana_writer_exit is set.
WriterReadNull(w) ==
  /\ writer_pc[w] = "read"
  /\ w \notin waiting
  /\ ana_writer_exit
  /\ WriterGoto(w, "done")
  /\ UNCHANGED <<streamVars, receiverVars, idVars, id_lock, exitVars, readerVars, crbVars,
                 stateVars, consumerVars, writer_item, waiting, freed, stored>>

\* Only a block that is NOT_ON_DISK gives the writer something to do.
WriterReadTail(w) ==
  /\ writer_pc[w] = "read"
  /\ w \notin waiting
  /\ ~ana_writer_exit
  /\ num_avail_elements > 0
  /\ IF IsExit(buffer[tail]) \/ buffer[tail] \in on_disk
     THEN WriterGoto(w, "check") /\ UNCHANGED writer_item
     ELSE WriterGoto(w, "write") /\ writer_item' = [writer_item EXCEPT ![w] = buffer[tail]]
  /\ UNCHANGED <<streamVars, receiverVars, idVars, id_lock, exitVars, readerVars, crbVars,
                 stateVars, consumerVars, waiting, freed, stored>>

WriterWait(w) ==
  /\ writer_pc[w] = "read"
  /\ w \notin waiting
  /\ ~ana_writer_exit
  /\ num_avail_elements = 0
  /\ waiting' = waiting \cup {w}
  /\ UNCHANGED <<streamVars, receiverVars, idVars, id_lock, exitVars, readerVars, crbVars,
                 stateVars, consumerVars, writerVars, freed, stored>>

\* analysis_write_one_file, compiled in with KEEP only.
WriterWrite(w) ==
  /\ writer_pc[w] = "write"
  /\ stored' = IF KEEP THEN stored \cup {writer_item[w]} ELSE stored
  /\ WriterGoto(w, "mark")
  /\ UNCHANGED <<streamVars, receiverVars, idVars, id_lock, exitVars, readerVars, crbVars,
                 stateVars, consumerVars, writer_item, waiting, freed>>

\* The state is set and new_tail waited for in one critical section.
WriterMark(w) ==
  /\ writer_pc[w] = "mark"
  /\ on_disk' = on_disk \cup {writer_item[w]}
  /\ writer_item' = [writer_item EXCEPT ![w] = None]
  /\ waiting' = waiting \cup {w}
  /\ WriterGoto(w, "check")
  /\ UNCHANGED <<streamVars, receiverVars, idVars, id_lock, exitVars, readerVars, crbVars,
                 calc_done, consumerVars, freed, stored>>

\* The test of ana_writer_exit at the end of the loop.
WriterCheck(w) ==
  /\ writer_pc[w] = "check"
  /\ w \notin waiting
  /\ WriterGoto(w, IF ana_writer_exit THEN "done" ELSE "read")
  /\ UNCHANGED <<streamVars, receiverVars, idVars, id_lock, exitVars, readerVars, crbVars,
                 stateVars, consumerVars, writer_item, waiting, freed, stored>>

Writer(w) ==
  \/ WriterReadNull(w) \/ WriterReadTail(w) \/ WriterWait(w)
  \/ WriterWrite(w) \/ WriterMark(w) \/ WriterCheck(w)

-----------------------------------------------------------------------------
SpuriousWakeup ==
  /\ \E t \in waiting : waiting' = waiting \ {t}
  /\ UNCHANGED <<streamVars, receiverVars, idVars, id_lock, exitVars, readerVars, crbVars,
                 stateVars, consumerVars, writerVars, freed, stored>>

\* main has joined every thread.
Joined ==
  /\ receiver_pc = "done"
  /\ consumer_pc = "done"
  /\ \A r \in Readers : reader_pc[r] = "done"
  /\ \A w \in Writers : writer_pc[w] = "done"

Finished == Joined /\ UNCHANGED vars

Next ==
  \/ Receiver
  \/ \E r \in Readers : Reader(r)
  \/ Consumer
  \/ \E w \in Writers : Writer(w)
  \/ SpuriousWakeup
  \/ Finished

Spec == Init /\ [][Next]_vars

\* Every thread keeps being scheduled, every compute process goes on to its
\* EXIT message (ComputeBroker's Terminates), and a lock that becomes free
\* again and again is taken.
Fairness ==
  /\ WF_vars(Receiver)
  /\ SF_vars(MakePrefetchId)
  /\ WF_vars(Consumer)
  /\ \A r \in Readers : WF_vars(Reader(r)) /\ SF_vars(ReaderLock(r))
  /\ \A w \in Writers : WF_vars(Writer(w))

FairSpec == Spec /\ Fairness


-----------------------------------------------------------------------------
(* Properties.  With one reader and one analysis writer, as every job       *)
(* script configures them, the invariants hold; the model takes any number. *)

InReceiver == ({recv_item} \ {None}) \cup Range(recv_ids)
InArray    == {prefetch_id_array[recv_tail + k] : k \in 1..recv_avail}
InReaders  == Range(reader_item) \ {None}
InRing     == {buffer[(tail + k) % bufsize] : k \in 0..(num_avail_elements - 1)}
Left       == freed \cup (IF consumer_pc = "free" THEN {pointer} ELSE {})
Places     == <<InReceiver, InArray, InReaders, InRing, Left>>

HandedOver == {p \in Items : IF IsExit(p) THEN phase[p[1]] = "closed" ELSE p[2] \notin pending[p[1]]}

\* Whatever the compute processes have handed over is in exactly one place: on
\* its way through the receiver, among the announced identifiers, with a
\* reader, in the CRB (once) or released.  The two ways into the CRB lose and
\* duplicate nothing.
ItemsConserved ==
  /\ UNION {Places[i] : i \in DOMAIN Places} = HandedOver
  /\ \A i, j \in DOMAIN Places : i # j => Places[i] \cap Places[j] = {}
  /\ Cardinality(InRing) = num_avail_elements

\* A buffer is released only when both sides are done with it, and with KEEP
\* the file system then holds the block (analysis_consumer.c, the two states
\* of a buffer).
PreservedBeforeFree ==
  /\ Left \subseteq on_disk
  /\ KEEP => Left \cap Blocks \subseteq stored

\* Nobody holds a buffer that was released: not the CRB, not a thread that
\* goes on to read, mark or release it.
NoUseAfterFree ==
  freed \cap (InRing \cup InReceiver \cup InReaders \cup (Range(writer_item) \ {None})
              \cup (IF consumer_pc = "read" THEN {} ELSE {pointer})) = {}

\* The consumer stops at the EXIT block of the last source, which comes after
\* every block of every source: it leaves an empty CRB and nothing unanalysed.
ConsumerLeavesLast ==
  consumer_pc \in {"quit", "signal", "done"} =>
    calc_counter = ana_total_blks /\ freed = Items /\ receiver_pc = "done"

\* prefetch_id_array never runs over: it has room for reader_blk_num pairs.
PrefetchArrayFits == Len(prefetch_id_array) <= reader_blk_num

\* Once a reader raises reader_exit every thread returns.
EndsAfterReaderExit == reader_exit ~> Joined

\* Every block of every source is analysed, whatever happens at the end: a
\* full CRB, an announcement or a wakeup that comes late.
EveryBlockAnalysed == <>(Blocks \subseteq calc_done)

\* "wait till reader finish reading all blk_id in the disk_id_arr": a reader
\* that has left has told the receiver.
LeavingReaderTells == \A r \in Readers : reader_pc[r] = "done" => reader_exit

\* The same for the readers that have not left: the receiver's signal wakes them,
\* so that one of them sees recv_exit and answers, or leaves with its quota read.
ReaderIsReleased ==
  (receiver_pc = "spin" /\ \A r \in Readers : reader_pc[r] # "done") ~>
    (reader_exit \/ \E r \in Readers : reader_pc[r] = "done")
=============================================================================
