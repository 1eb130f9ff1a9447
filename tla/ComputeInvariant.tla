-------------------------- MODULE ComputeInvariant --------------------------
(***************************************************************************)
(* The inductive invariant of ComputeBroker for one writer thread.         *)
(* ComputeBrokerProofs proves that it is inductive; MCComputeBroker lets   *)
(* TLC check it on the instances first.                                    *)
(***************************************************************************)
EXTENDS ComputeBroker

OneWriter == \E w : Writers = {w}

\* How many items have been put into and taken from the PRB, and the item
\* that was put as number p (counted from 0).
Puts       == IF gen_done THEN data_id + 1 ELSE data_id
FinalTaken == flag_sender_get_finalblk \/ flag_writer_get_finalblk
Pops       == IF FinalTaken THEN Puts ELSE Puts - num_avail_elements
Item(p)    == IF p < cpt_total_blks THEN p ELSE EXIT_BLK_ID

\* The slot k places after the tail.
Slot(k) == IF tail + k < bufsize THEN tail + k ELSE tail + k - bufsize

\* The PRB holds the items that were put and not yet taken, in order; once
\* the EXIT block was counted twice it is empty for good.
RingInv ==
  /\ gen_done => data_id = cpt_total_blks
  /\ FinalTaken => gen_done /\ num_avail_elements = -1
  /\ ~FinalTaken =>
       /\ num_avail_elements \in 0..bufsize
       /\ num_avail_elements <= Puts
       /\ head = Slot(num_avail_elements)
       /\ \A k \in 0..(num_avail_elements - 1) :
            buffer[Slot(k)] = Item(Pops + k)

\* Who has the EXIT block: nobody until it is the last item taken, then one
\* thread, which raises its flag.
SenderQuits == send_pc \in {"drain", "disk", "exit", "done"}

ExitInv ==
  /\ send_pc = "final" \/ (\E w \in Writers : write_pc[w] = "final") => Pops = cpt_total_blks + 1
  /\ Pops = cpt_total_blks + 1 =>
       FinalTaken \/ send_pc = "final" \/ \E w \in Writers : write_pc[w] = "final"
  /\ send_pc = "final" => ~FinalTaken
  /\ \A w \in Writers : write_pc[w] = "final" => ~FinalTaken /\ send_pc # "final"
  /\ ~(flag_sender_get_finalblk /\ flag_writer_get_finalblk)
  /\ SenderQuits => FinalTaken
  /\ flag_sender_get_finalblk => SenderQuits
  /\ flag_writer_get_finalblk => \A w \in Writers : write_pc[w] \in {"leave", "done"}
  /\ writer_exit <=> \A w \in Writers : write_pc[w] = "done"
  /\ send_pc \in {"disk", "exit", "done"} => writer_exit /\ send_tail = 0

\* What the threads hold, by their program counters.
HandInv ==
  /\ IF send_pc \in {"check", "send"} THEN send_buf \in Blocks
     ELSE send_buf = IF send_pc = "final" THEN EXIT_BLK_ID ELSE NoBlk
  /\ send_pc # "send" => send_ids = <<>>
  /\ \A w \in Writers :
       IF write_pc[w] \in {"write", "append"} THEN write_buf[w] \in Blocks
       ELSE write_buf[w] = IF write_pc[w] = "final" THEN EXIT_BLK_ID ELSE NoBlk

\* The writer stays within its quota, and written_id_array within its size.
QuotaInv ==
  \A w \in Writers :
    /\ my_count[w] <= writer_blk_num
    /\ write_pc[w] = "start" => my_count[w] = 0
    /\ write_pc[w] \in {"get", "write"} => my_count[w] < writer_blk_num
    /\ write_pc[w] \notin {"start", "done"} => writer_blk_num > 0
    /\ send_tail <= my_count[w]
    /\ write_pc[w] = "append" => send_tail < my_count[w]
    /\ send_pc = "disk" => remain_disk_id \in 1..my_count[w]
    /\ Len(send_ids) <= my_count[w]
    /\ Cardinality(disk) <= my_count[w]

\* The identifiers that wait to be announced: distinct blocks, all on disk.
Injective(n) == \A i, j \in 0..(n - 1) : written_id_array[i] = written_id_array[j] => i = j

IdInv ==
  /\ \A k \in 0..(send_tail - 1) : written_id_array[k] \in disk
  /\ Injective(send_tail)
  /\ send_pc = "disk" =>
       /\ \A k \in 0..(remain_disk_id - 1) : written_id_array[k] \in disk
       /\ Injective(remain_disk_id)
  /\ \A k \in DOMAIN send_ids : send_ids[k] \in disk
  /\ \A i, j \in DOMAIN send_ids : send_ids[i] = send_ids[j] => i = j
  /\ \A w \in Writers : write_pc[w] = "append" => write_buf[w] \in disk

\* Where the blocks taken from the PRB are.
SenderHand == IF send_pc \in {"check", "send"} THEN {send_buf} ELSE {}
WriterHand == {write_buf[w] : w \in {x \in Writers : write_pc[x] \in {"write", "append"}}}
CopiedIds  == {send_ids[k] : k \in DOMAIN send_ids}
FinalIds   == IF send_pc = "disk" THEN {written_id_array[k] : k \in 0..(remain_disk_id - 1)} ELSE {}

PlaceInv ==
  /\ SenderHand \cup WriterHand \cup InArray \cup CopiedIds \cup FinalIds \cup DeliveredIn(sent)
       = {b \in Blocks : b < Pops}
  /\ SenderHand \cap (WriterHand \cup InArray \cup CopiedIds \cup DeliveredIn(sent)) = {}
  /\ WriterHand \cap (InArray \cup CopiedIds \cup DeliveredIn(sent)) = {}
  /\ InArray \cap (CopiedIds \cup FinalIds \cup DeliveredIn(sent)) = {}
  /\ CopiedIds \cap DeliveredIn(sent) = {}
  /\ FinalIds \cap DeliveredIn(sent) = {}

\* What has been sent.
SentInv ==
  /\ AnnouncedIn(sent) \subseteq disk
  /\ \A i \in DOMAIN sent : Wellformed(sent[i])
  /\ \A i \in DOMAIN sent : sent[i].tag = "EXIT_MSG_TAG" => send_pc = "done" /\ i = Len(sent)
  /\ send_pc = "done" => ExitSentIn(sent)

IInv == TypeOK /\ RingInv /\ ExitInv /\ HandInv /\ QuotaInv /\ IdInv /\ PlaceInv /\ SentInv
=============================================================================
