------------------------ MODULE ComputeBrokerProofs ------------------------
EXTENDS ComputeInvariant, FiniteSetTheorems, TLAPS

LEMMA BoundsNat ==
  /\ writer_blk_num \in Nat
  /\ writer_on \in Nat
  /\ bufsize \in Nat \ {0}
  /\ cpt_total_blks \in Nat
  /\ EXIT_BLK_ID \notin Blocks
  /\ EXIT_BLK_ID # NoBlk
  /\ NoBlk \notin Blocks
<1>1. cpt_total_blks * writer_thousandth \in Nat /\ bufsize * writer_prb_thousandth \in Nat
  BY ComputeAssumption
<1>2. \A n \in Nat : n \div 1000 \in Nat
  OBVIOUS
<1>3. QED
  BY <1>1, <1>2, ComputeAssumption DEF writer_blk_num, writer_on, EXIT_BLK_ID, Blocks

LEMMA AdvanceStep ==
  ASSUME NEW i \in 0..(bufsize - 1)
  PROVE  /\ i + 1 < bufsize => Advance(i) = i + 1
         /\ i + 1 = bufsize => Advance(i) = 0
         /\ Advance(i) \in 0..(bufsize - 1)
  BY BoundsNat DEF Advance

LEMMA AppendMessage ==
  ASSUME NEW T, NEW s \in Seq(T), NEW m \in T
  PROVE  /\ DeliveredIn(Append(s, m)) = DeliveredIn(s) \cup BlocksOf(m)
         /\ AnnouncedIn(Append(s, m)) = AnnouncedIn(s) \cup Announced(m)
         /\ ExitSentIn(Append(s, m)) <=> ExitSentIn(s) \/ m.tag = "EXIT_MSG_TAG"
<1> DEFINE t == Append(s, m)
<1>1. /\ DOMAIN t = 1..(Len(s) + 1)
      /\ DOMAIN s = 1..Len(s)
      /\ Len(s) \in Nat
      /\ t[Len(s) + 1] = m
      /\ \A i \in 1..Len(s) : t[i] = s[i]
  OBVIOUS
<1>2. \A i \in DOMAIN t : i \in DOMAIN s \/ i = Len(s) + 1
  BY <1>1
<1> HIDE DEF t
<1>3. DeliveredIn(t) = DeliveredIn(s) \cup BlocksOf(m)
  <2>1. \A i \in DOMAIN s : i \in DOMAIN t /\ t[i] = s[i]
    BY <1>1
  <2>2. Len(s) + 1 \in DOMAIN t
    BY <1>1
  <2>3. QED
    BY <1>1, <1>2, <2>1, <2>2 DEF DeliveredIn
<1>4. AnnouncedIn(t) = AnnouncedIn(s) \cup Announced(m)
  <2>1. \A i \in DOMAIN s : i \in DOMAIN t /\ t[i] = s[i]
    BY <1>1
  <2>2. Len(s) + 1 \in DOMAIN t
    BY <1>1
  <2>3. QED
    BY <1>1, <1>2, <2>1, <2>2 DEF AnnouncedIn
<1>5. ExitSentIn(t) <=> ExitSentIn(s) \/ m.tag = "EXIT_MSG_TAG"
  BY <1>1 DEF ExitSentIn
<1>6. QED
  BY <1>3, <1>4, <1>5 DEF t

LEMMA InitInv ==
  ASSUME OneWriter, Init
  PROVE  IInv
<1> USE BoundsNat DEF Init
<1>1. TypeOK
  <2>1. /\ send_ids \in Seq(Blocks)
        /\ sent \in Seq([tag : {"MPI_MSG_TAG", "MIX_MPI_DISK_TAG", "DISK_TAG", "EXIT_MSG_TAG"},
                   blk : Blocks \cup {EXIT_BLK_ID}, ids : Seq(Blocks)])
    OBVIOUS
  <2>2. /\ data_id \in 0..cpt_total_blks
        /\ head \in 0..(bufsize - 1)
        /\ num_avail_elements \in -1..bufsize
    OBVIOUS
  <2>3. QED
    BY <2>1, <2>2 DEF TypeOK
<1>2. RingInv
  BY DEF RingInv, Slot, Puts, Pops, FinalTaken
<1>3. ExitInv
  BY DEF ExitInv, Puts, Pops, FinalTaken, SenderQuits, OneWriter
<1>4. HandInv
  BY DEF HandInv
<1>5. QuotaInv /\ IdInv
  BY FS_EmptySet DEF QuotaInv, IdInv, Injective
<1>6. PlaceInv
  BY DEF PlaceInv, SenderHand, WriterHand, InArray, CopiedIds, FinalIds, DeliveredIn, Pops, Puts, FinalTaken, Blocks
<1>7. SentInv
  BY DEF SentInv, AnnouncedIn, ExitSentIn
<1>8. QED
  BY <1>1, <1>2, <1>3, <1>4, <1>5, <1>6, <1>7 DEF IInv

-----------------------------------------------------------------------------
(* The generator.                                                           *)

\* A put, apart from which of the waiting threads it wakes.
PutStep ==
  /\ ~gen_done
  /\ num_avail_elements < bufsize
  /\ buffer' = [buffer EXCEPT ![head] = NextBlk]
  /\ head' = Advance(head)
  /\ num_avail_elements' = num_avail_elements + 1
  /\ waiting' \subseteq waiting
  /\ gen_done' = (data_id = cpt_total_blks)
  /\ data_id' = IF data_id < cpt_total_blks THEN data_id + 1 ELSE data_id
  /\ UNCHANGED <<tail, senderVars, writerVars, idVars, flagVars>>

LEMMA PutStepInv ==
  ASSUME OneWriter, IInv, PutStep
  PROVE  IInv'
<1> USE BoundsNat DEF PutStep, senderVars, writerVars, idVars, flagVars
<1>1. /\ ~FinalTaken /\ ~FinalTaken'
      /\ Puts' = Puts + 1 /\ Puts \in Nat
      /\ NextBlk = Item(Puts)
      /\ Pops' = Pops /\ Pops \in Int
  <2>1. ~FinalTaken /\ ~FinalTaken'
    BY DEF IInv, RingInv, FinalTaken
  <2>2. Puts = data_id /\ Puts \in Nat /\ NextBlk = Item(Puts)
    BY DEF IInv, TypeOK, Puts, NextBlk, Item
  <2>3. Puts' = Puts + 1
    <3>1. CASE data_id < cpt_total_blks
      <4>1. data_id # cpt_total_blks
        BY <3>1 DEF IInv, TypeOK
      <4>2. ~gen_done' /\ data_id' = data_id + 1
        BY <3>1, <4>1
      <4>3. QED
        BY <2>2, <4>2 DEF Puts
    <3>2. CASE data_id = cpt_total_blks
      <4>1. data_id' = data_id
        BY <3>2
      <4>2. gen_done'
        BY <3>2
      <4>3. QED
        BY <2>2, <4>1, <4>2 DEF Puts
    <3>3. QED
      BY <3>1, <3>2 DEF IInv, TypeOK
  <2>4. Pops' = Pops /\ Pops \in Int
    BY <2>1, <2>2, <2>3 DEF IInv, TypeOK, Pops
  <2>5. QED
    BY <2>1, <2>2, <2>3, <2>4
<1>2. TypeOK'
  <2>1. NextBlk \in Blocks \cup {EXIT_BLK_ID}
    BY DEF IInv, TypeOK, NextBlk, Blocks
  <2>2. buffer' \in [0..(bufsize - 1) -> Blocks \cup {EXIT_BLK_ID, NoBlk}]
    BY <2>1 DEF IInv, TypeOK
  <2>3. head' \in 0..(bufsize - 1)
    BY AdvanceStep DEF IInv, TypeOK
  <2>4. /\ num_avail_elements' \in -1..bufsize
        /\ data_id' \in 0..cpt_total_blks
        /\ gen_done' \in BOOLEAN
        /\ waiting' \in SUBSET (Writers \cup {"generator", "sender"})
    BY DEF IInv, TypeOK
  <2>5. QED
    BY <2>2, <2>3, <2>4 DEF IInv, TypeOK
<1>3. RingInv'
  <2>1. /\ num_avail_elements' = num_avail_elements + 1
        /\ num_avail_elements' \in 0..bufsize
        /\ num_avail_elements \in 0..(bufsize - 1)
        /\ num_avail_elements' <= Puts'
        /\ gen_done' => data_id' = cpt_total_blks
    BY <1>1 DEF IInv, TypeOK, RingInv
  <2>2. \A k \in 0..bufsize : Slot(k)' = Slot(k)
    BY DEF Slot
  <2>3. head = Slot(num_avail_elements) /\ head' = Slot(num_avail_elements + 1)
    <3>1. head = Slot(num_avail_elements) /\ head' = Advance(head)
      BY <1>1 DEF IInv, RingInv
    <3>2. tail \in 0..(bufsize - 1) /\ head \in 0..(bufsize - 1)
      BY DEF IInv, TypeOK
    <3> HIDE DEF PutStep
    <3>3. QED
      BY <2>1, <3>1, <3>2, AdvanceStep DEF Slot
  <2>4. \A k \in 0..(num_avail_elements - 1) : Slot(k) # head /\ Slot(k) \in 0..(bufsize - 1)
    BY <2>1, <2>3 DEF IInv, TypeOK, Slot
  <2>5. \A k \in 0..(num_avail_elements - 1) : buffer'[Slot(k)] = Item(Pops + k)
    BY <1>1, <2>1, <2>4 DEF IInv, TypeOK, RingInv
  <2>6. buffer'[Slot(num_avail_elements)] = Item(Pops + num_avail_elements)
    BY <1>1, <2>1, <2>3 DEF IInv, TypeOK, Pops
  <2>7. \A k \in 0..(num_avail_elements' - 1) : k \in 0..(num_avail_elements - 1) \/ k = num_avail_elements
    BY <2>1
  <2>8. \A k \in 0..(num_avail_elements' - 1) : (buffer[Slot(k)] = Item(Pops + k))'
    BY <1>1, <2>1, <2>2, <2>5, <2>6, <2>7 DEF Item
  <2>9. QED
    BY <1>1, <2>1, <2>2, <2>3, <2>8 DEF RingInv
<1>4. ExitInv'
  BY <1>1 DEF IInv, ExitInv, SenderQuits
<1>5. HandInv' /\ QuotaInv'
  BY DEF IInv, HandInv, QuotaInv
<1>6. IdInv'
  BY DEF IInv, IdInv, Injective
<1>7. PlaceInv'
  BY <1>1 DEF IInv, PlaceInv, SenderHand, WriterHand, InArray, CopiedIds, FinalIds
<1>8. SentInv'
  BY DEF IInv, SentInv
<1>9. QED
  BY <1>2, <1>3, <1>4, <1>5, <1>6, <1>7, <1>8 DEF IInv

LEMMA GeneratorPutInv ==
  ASSUME OneWriter, IInv, GeneratorPut
  PROVE  IInv'
  BY PutStepInv DEF GeneratorPut, PutStep

-----------------------------------------------------------------------------
(* Steps that only put a thread to sleep or wake it.                        *)

LEMMA WaitingInv ==
  ASSUME IInv,
         waiting' \in SUBSET (Writers \cup {"generator", "sender"}),
         UNCHANGED <<prbVars, genVars, senderVars, writerVars, idVars, flagVars>>
  PROVE  IInv'
<1> USE DEF prbVars, genVars, senderVars, writerVars, idVars, flagVars
<1>1. TypeOK'
  BY DEF IInv, TypeOK
<1>2. RingInv' /\ ExitInv'
  BY DEF IInv, RingInv, ExitInv, SenderQuits, Puts, Pops, FinalTaken, Slot
<1>3. HandInv' /\ QuotaInv' /\ IdInv' /\ SentInv'
  BY DEF IInv, HandInv, QuotaInv, IdInv, Injective, SentInv
<1>4. PlaceInv'
  BY DEF IInv, PlaceInv, SenderHand, WriterHand, InArray, CopiedIds, FinalIds, Puts, Pops, FinalTaken
<1>5. QED
  BY <1>1, <1>2, <1>3, <1>4 DEF IInv

LEMMA WaitsInv ==
  ASSUME OneWriter, IInv,
         GeneratorWait \/ SenderWait \/ (\E w \in Writers : WriterWait(w)) \/ SpuriousWakeup
  PROVE  IInv'
<1>1. waiting' \in SUBSET (Writers \cup {"generator", "sender"})
  BY DEF IInv, TypeOK, GeneratorWait, SenderWait, WriterWait, SpuriousWakeup
<1>2. UNCHANGED <<prbVars, genVars, senderVars, writerVars, idVars, flagVars>>
  BY DEF GeneratorWait, SenderWait, WriterWait, SpuriousWakeup
<1>3. QED
  BY <1>1, <1>2, WaitingInv

-----------------------------------------------------------------------------
(* Taking an item from the PRB.                                             *)

LEMMA PopRing ==
  ASSUME IInv, Pop, ~FinalTaken, num_avail_elements > 0, UNCHANGED <<genVars, flagVars>>
  PROVE  /\ RingInv'
         /\ Pops \in Nat
         /\ Pops' = Pops + 1
         /\ Pops <= cpt_total_blks
         /\ buffer[tail] = Item(Pops)
         /\ tail' \in 0..(bufsize - 1)
         /\ num_avail_elements' \in 0..bufsize
         /\ waiting' \in SUBSET (Writers \cup {"generator", "sender"})
<1> USE BoundsNat DEF Pop, genVars, flagVars
<1>1. /\ Puts' = Puts
      /\ ~FinalTaken'
      /\ Puts \in Nat
      /\ Puts <= cpt_total_blks + 1
      /\ num_avail_elements' = num_avail_elements - 1
      /\ num_avail_elements \in 1..bufsize
      /\ num_avail_elements <= Puts
  BY DEF IInv, TypeOK, RingInv, Puts, FinalTaken
<1>2. /\ Pops \in Nat
      /\ Pops' = Pops + 1
      /\ Pops <= cpt_total_blks
  BY <1>1 DEF Pops
<1>3. /\ tail \in 0..(bufsize - 1)
      /\ tail' \in 0..(bufsize - 1)
      /\ tail' = IF tail + 1 < bufsize THEN tail + 1 ELSE 0
  BY AdvanceStep DEF IInv, TypeOK
<1>4. buffer[tail] = Item(Pops)
  <2>1. Slot(0) = tail
    BY <1>3 DEF Slot
  <2>2. buffer[Slot(0)] = Item(Pops + 0)
    BY <1>1 DEF IInv, RingInv
  <2>3. QED
    BY <1>2, <2>1, <2>2 DEF Item
<1>5. \A k \in 0..(bufsize - 1) : Slot(k)' = Slot(k + 1)
  BY <1>3 DEF Slot
<1>6. RingInv'
  <2>1. num_avail_elements - 1 \in 0..(bufsize - 1)
    BY <1>1
  <2>2. head' = Slot(num_avail_elements)'
    BY <1>1, <1>5, <2>1, ~FinalTaken DEF IInv, RingInv, Slot
  <2>3. \A k \in 0..(num_avail_elements' - 1) : (buffer[Slot(k)] = Item(Pops + k))'
    <3>1. SUFFICES ASSUME NEW k \in 0..(num_avail_elements' - 1)
                   PROVE  buffer[Slot(k + 1)] = Item(Pops' + k)
      BY <1>1, <1>5 DEF Item
    <3>2. k + 1 \in 0..(num_avail_elements - 1) /\ Pops' + k = Pops + (k + 1)
      BY <1>1, <1>2
    <3>3. QED
      BY <3>2 DEF IInv, RingInv
  <2>4. QED
    BY <1>1, <2>1, <2>2, <2>3 DEF IInv, RingInv
<1>7. waiting' \in SUBSET (Writers \cup {"generator", "sender"})
  BY DEF IInv, TypeOK
<1>8. QED
  BY <1>1, <1>2, <1>3, <1>4, <1>6, <1>7

LEMMA DropFinalRing ==
  ASSUME IInv, DropFinal, ~FinalTaken, FinalTaken', Pops = cpt_total_blks + 1, UNCHANGED genVars
  PROVE  /\ RingInv'
         /\ Pops' = Pops
         /\ tail' \in 0..(bufsize - 1)
         /\ num_avail_elements' \in -1..bufsize
<1> USE BoundsNat DEF DropFinal, genVars
<1>1. /\ num_avail_elements = 0
      /\ gen_done
      /\ Puts = cpt_total_blks + 1
  BY DEF IInv, TypeOK, RingInv, Puts, Pops
<1>2. num_avail_elements' = -1 /\ Puts' = Puts
  BY <1>1 DEF Puts
<1>3. RingInv' /\ Pops' = Pops
  BY <1>1, <1>2 DEF IInv, RingInv, Pops
<1>4. QED
  BY <1>2, <1>3, AdvanceStep DEF IInv, TypeOK

-----------------------------------------------------------------------------
(* The sender.                                                              *)

\* The blocks taken from the PRB after one more item was taken.
LEMMA OneMoreTaken ==
  ASSUME Pops \in Nat, Pops <= cpt_total_blks, Pops' = Pops + 1
  PROVE  {b \in Blocks : b < Pops'} =
           {b \in Blocks : b < Pops} \cup (IF Item(Pops) = EXIT_BLK_ID THEN {} ELSE {Item(Pops)})
<1>1. CASE Pops = cpt_total_blks
  BY <1>1, BoundsNat DEF Blocks, Item
<1>2. CASE Pops < cpt_total_blks
  <2>1. Item(Pops) = Pops /\ Item(Pops) # EXIT_BLK_ID /\ Pops \in Blocks
    BY <1>2, BoundsNat DEF Item, Blocks, EXIT_BLK_ID
  <2>2. QED
    BY <2>1, BoundsNat DEF Blocks
<1>3. QED
  BY <1>1, <1>2, BoundsNat

LEMMA SenderGetInv ==
  ASSUME OneWriter, IInv, SenderGet
  PROVE  IInv'
<1> USE BoundsNat DEF SenderGet, Pop, genVars, writerVars, idVars, flagVars
<1>1. ~FinalTaken /\ ~FinalTaken' /\ UNCHANGED <<genVars, flagVars>>
  BY DEF IInv, ExitInv, SenderQuits, FinalTaken
<1>2. /\ RingInv'
      /\ Pops \in Nat
      /\ Pops' = Pops + 1
      /\ Pops <= cpt_total_blks
      /\ buffer[tail] = Item(Pops)
      /\ tail' \in 0..(bufsize - 1)
      /\ num_avail_elements' \in 0..bufsize
      /\ waiting' \in SUBSET (Writers \cup {"generator", "sender"})
  BY <1>1, PopRing
<1>3. IF Pops = cpt_total_blks
      THEN buffer[tail] = EXIT_BLK_ID /\ send_buf' = EXIT_BLK_ID /\ send_pc' = "final"
      ELSE send_buf' = Pops /\ Pops \in Blocks /\ send_pc' = "check"
  BY <1>2 DEF Item, Blocks, EXIT_BLK_ID
<1>4. TypeOK'
  BY <1>2, <1>3 DEF IInv, TypeOK
<1>5. ExitInv'
  <2>1. \A w \in Writers : write_pc[w] # "final"
    BY <1>2 DEF IInv, ExitInv
  <2>2. QED
    BY <1>1, <1>2, <1>3, <2>1 DEF IInv, ExitInv, SenderQuits, FinalTaken
<1>6. HandInv' /\ QuotaInv' /\ IdInv' /\ SentInv'
  BY <1>3 DEF IInv, HandInv, QuotaInv, IdInv, Injective, SentInv
<1>7. PlaceInv'
  <2>1. /\ SenderHand = {}
        /\ SenderHand' = IF Item(Pops) = EXIT_BLK_ID THEN {} ELSE {Item(Pops)}
    BY <1>2, <1>3 DEF SenderHand, Item, Blocks, EXIT_BLK_ID
  <2>2. Item(Pops) \notin {b \in Blocks : b < Pops}
    BY <1>2 DEF Item, Blocks, EXIT_BLK_ID
  <2>3. /\ WriterHand' = WriterHand /\ InArray' = InArray /\ CopiedIds' = CopiedIds
        /\ FinalIds' = {} /\ FinalIds = {} /\ sent' = sent
    BY <1>3 DEF WriterHand, InArray, CopiedIds, FinalIds
  <2>4. QED
    BY <1>2, <2>1, <2>2, <2>3, OneMoreTaken DEF IInv, PlaceInv
<1>8. QED
  BY <1>2, <1>4, <1>5, <1>6, <1>7 DEF IInv

LEMMA SenderGetNullInv ==
  ASSUME OneWriter, IInv, SenderGetNull
  PROVE  IInv'
<1> USE DEF SenderGetNull, prbVars, genVars, writerVars, idVars, flagVars
<1>1. TypeOK'
  BY DEF IInv, TypeOK
<1>2. RingInv' /\ ExitInv'
  BY DEF IInv, RingInv, ExitInv, SenderQuits, Puts, Pops, FinalTaken, Slot
<1>3. HandInv' /\ QuotaInv' /\ IdInv' /\ SentInv'
  BY DEF IInv, HandInv, QuotaInv, IdInv, Injective, SentInv
<1>4. PlaceInv'
  BY DEF IInv, PlaceInv, SenderHand, WriterHand, InArray, CopiedIds, FinalIds, Puts, Pops, FinalTaken
<1>5. QED
  BY <1>1, <1>2, <1>3, <1>4 DEF IInv

\* The copy of n entries of written_id_array that a message carries.
LEMMA CopyOfIds ==
  ASSUME IInv, NEW n \in Nat,
         \A k \in 0..(n - 1) : written_id_array[k] \in disk,
         Injective(n)
  PROVE  /\ WrittenIds(n) \in Seq(Blocks)
         /\ Len(WrittenIds(n)) = n
         /\ Announced([ids |-> WrittenIds(n)]) = {written_id_array[k] : k \in 0..(n - 1)}
         /\ {WrittenIds(n)[k] : k \in DOMAIN WrittenIds(n)} = {written_id_array[k] : k \in 0..(n - 1)}
         /\ \A k \in DOMAIN WrittenIds(n) : WrittenIds(n)[k] \in disk
         /\ \A i, j \in DOMAIN WrittenIds(n) : WrittenIds(n)[i] = WrittenIds(n)[j] => i = j
<1>1. \A k \in 1..n : k - 1 \in 0..(n - 1)
  OBVIOUS
<1>2. \A k \in 0..(n - 1) : k + 1 \in 1..n /\ (k + 1) - 1 = k
  OBVIOUS
<1>3. \A k \in 1..n : written_id_array[k - 1] \in Blocks
  BY <1>1 DEF IInv, TypeOK
<1>4. WrittenIds(n) \in [1..n -> Blocks]
  BY <1>3 DEF WrittenIds
<1>5. WrittenIds(n) \in Seq(Blocks) /\ Len(WrittenIds(n)) = n /\ DOMAIN WrittenIds(n) = 1..n
  BY <1>4
<1>6. {WrittenIds(n)[k] : k \in DOMAIN WrittenIds(n)} = {written_id_array[k] : k \in 0..(n - 1)}
  BY <1>1, <1>2, <1>5 DEF WrittenIds
<1>7. \A k \in DOMAIN WrittenIds(n) : WrittenIds(n)[k] \in disk
  BY <1>1, <1>5 DEF WrittenIds
<1>8. ASSUME NEW i \in DOMAIN WrittenIds(n), NEW j \in DOMAIN WrittenIds(n),
             WrittenIds(n)[i] = WrittenIds(n)[j]
      PROVE  i = j
  <2>1. i \in 1..n /\ j \in 1..n /\ written_id_array[i - 1] = written_id_array[j - 1]
    BY <1>5, <1>8 DEF WrittenIds
  <2>2. i - 1 = j - 1
    BY <1>1, <2>1 DEF Injective
  <2>3. QED
    BY <2>1, <2>2
<1>9. QED
  BY <1>5, <1>6, <1>7, <1>8 DEF Announced

LEMMA SenderCheckIdsInv ==
  ASSUME OneWriter, IInv, SenderCheckIds
  PROVE  IInv'
<1> USE DEF SenderCheckIds, prbVars, genVars, writerVars, flagVars
<1>1. /\ send_ids' \in Seq(Blocks)
      /\ Len(send_ids') = send_tail
      /\ CopiedIds' = InArray
      /\ \A k \in DOMAIN send_ids' : send_ids'[k] \in disk
      /\ \A i, j \in DOMAIN send_ids' : send_ids'[i] = send_ids'[j] => i = j
  <2>1. /\ send_tail \in Nat
        /\ \A k \in 0..(send_tail - 1) : written_id_array[k] \in disk
        /\ Injective(send_tail)
    BY DEF IInv, TypeOK, IdInv
  <2>2. send_ids' = WrittenIds(send_tail)
    OBVIOUS
  <2>3. QED
    BY <2>1, <2>2, CopyOfIds DEF CopiedIds, InArray
<1>2. TypeOK'
  BY <1>1 DEF IInv, TypeOK
<1>3. RingInv' /\ ExitInv'
  BY DEF IInv, RingInv, ExitInv, SenderQuits, Puts, Pops, FinalTaken, Slot
<1>4. HandInv'
  BY DEF IInv, HandInv
<1>5. QuotaInv'
  BY <1>1 DEF IInv, TypeOK, QuotaInv
<1>6. IdInv'
  BY <1>1 DEF IInv, IdInv, Injective
<1>7. PlaceInv'
  <2>1. /\ CopiedIds = {} /\ InArray' = {} /\ FinalIds = {} /\ FinalIds' = {}
        /\ SenderHand' = SenderHand /\ WriterHand' = WriterHand /\ sent' = sent /\ Pops' = Pops
    BY DEF IInv, TypeOK, HandInv, CopiedIds, InArray, FinalIds, SenderHand, WriterHand,
           Pops, Puts, FinalTaken
  <2>2. QED
    BY <1>1, <2>1 DEF IInv, PlaceInv
<1>8. SentInv'
  BY DEF IInv, SentInv
<1>9. QED
  BY <1>2, <1>3, <1>4, <1>5, <1>6, <1>7, <1>8 DEF IInv


\* Sending one well-formed message whose announced blocks are on disk.
LEMMA SendMessage ==
  ASSUME IInv, NEW m, sent' = Append(sent, m), disk' = disk, send_pc # "done",
         m.tag \in {"MPI_MSG_TAG", "MIX_MPI_DISK_TAG", "DISK_TAG", "EXIT_MSG_TAG"},
         m \in [tag : {"MPI_MSG_TAG", "MIX_MPI_DISK_TAG", "DISK_TAG", "EXIT_MSG_TAG"},
                blk : Blocks \cup {EXIT_BLK_ID}, ids : Seq(Blocks)],
         Announced(m) \subseteq disk, Wellformed(m),
         m.tag = "EXIT_MSG_TAG" <=> send_pc' = "done"
  PROVE  /\ SentInv'
         /\ sent' \in Seq([tag : {"MPI_MSG_TAG", "MIX_MPI_DISK_TAG", "DISK_TAG", "EXIT_MSG_TAG"},
                           blk : Blocks \cup {EXIT_BLK_ID}, ids : Seq(Blocks)])
         /\ DeliveredIn(sent') = DeliveredIn(sent) \cup BlocksOf(m)
<1> DEFINE Msg == [tag : {"MPI_MSG_TAG", "MIX_MPI_DISK_TAG", "DISK_TAG", "EXIT_MSG_TAG"},
                   blk : Blocks \cup {EXIT_BLK_ID}, ids : Seq(Blocks)]
<1>1. sent \in Seq(Msg) /\ m \in Msg
  BY DEF IInv, TypeOK
<1> HIDE DEF Msg
<1>2. /\ sent' \in Seq(Msg)
      /\ DOMAIN sent' = 1..(Len(sent) + 1)
      /\ Len(sent') = Len(sent) + 1 /\ Len(sent) \in Nat
      /\ DOMAIN sent = 1..Len(sent)
      /\ sent'[Len(sent) + 1] = m
      /\ \A i \in 1..Len(sent) : sent'[i] = sent[i]
  BY <1>1
<1>3. /\ DeliveredIn(sent') = DeliveredIn(sent) \cup BlocksOf(m)
      /\ AnnouncedIn(sent') = AnnouncedIn(sent) \cup Announced(m)
      /\ ExitSentIn(sent') <=> ExitSentIn(sent) \/ m.tag = "EXIT_MSG_TAG"
  BY <1>1, AppendMessage
<1>4. \A i \in DOMAIN sent' : i \in DOMAIN sent \/ i = Len(sent) + 1
  BY <1>2
<1>5. \A i \in DOMAIN sent : sent[i].tag # "EXIT_MSG_TAG"
  BY DEF IInv, SentInv
<1>6. \A i \in DOMAIN sent' : Wellformed(sent'[i])
  BY <1>2, <1>4 DEF IInv, SentInv
<1>7. \A i \in DOMAIN sent' : sent'[i].tag = "EXIT_MSG_TAG" => send_pc' = "done" /\ i = Len(sent')
  BY <1>2, <1>4, <1>5
<1>8. SentInv'
  BY <1>3, <1>6, <1>7 DEF IInv, SentInv
<1>9. QED
  BY <1>2, <1>3, <1>8 DEF Msg

LEMMA SenderSendInv ==
  ASSUME OneWriter, IInv, SenderSend
  PROVE  IInv'
<1> USE BoundsNat DEF SenderSend, prbVars, genVars, writerVars, idVars, flagVars
<1> DEFINE m == IF send_ids = <<>> THEN LongMsg(send_buf) ELSE MixMsg(send_buf, send_ids)
<1>1. /\ send_buf \in Blocks
      /\ send_ids \in Seq(Blocks)
      /\ \A k \in DOMAIN send_ids : send_ids[k] \in disk
  BY DEF IInv, TypeOK, HandInv, IdInv
<1>2. /\ m.blk = send_buf
      /\ m.ids = send_ids
      /\ m.tag \in {"MPI_MSG_TAG", "MIX_MPI_DISK_TAG"}
      /\ m \in [tag : {"MPI_MSG_TAG", "MIX_MPI_DISK_TAG", "DISK_TAG", "EXIT_MSG_TAG"},
                blk : Blocks \cup {EXIT_BLK_ID}, ids : Seq(Blocks)]
  BY <1>1 DEF LongMsg, MixMsg
<1>3. /\ Announced(m) = CopiedIds
      /\ BlocksOf(m) = SenderHand \cup CopiedIds
      /\ SenderHand = {send_buf}
  BY <1>1, <1>2 DEF Announced, BlocksOf, Payload, CopiedIds, SenderHand
<1>4. Announced(m) \subseteq disk /\ Wellformed(m)
  BY <1>1, <1>2, <1>3 DEF Wellformed, IInv, IdInv, PlaceInv, CopiedIds
<1>5. sent' = Append(sent, m) /\ disk' = disk
  OBVIOUS
<1> HIDE DEF m
<1>6. /\ SentInv'
      /\ sent' \in Seq([tag : {"MPI_MSG_TAG", "MIX_MPI_DISK_TAG", "DISK_TAG", "EXIT_MSG_TAG"},
                        blk : Blocks \cup {EXIT_BLK_ID}, ids : Seq(Blocks)])
      /\ DeliveredIn(sent') = DeliveredIn(sent) \cup BlocksOf(m)
  BY <1>2, <1>4, <1>5, SendMessage
<1>7. TypeOK'
  BY <1>6 DEF IInv, TypeOK
<1>8. RingInv' /\ ExitInv'
  BY DEF IInv, RingInv, ExitInv, SenderQuits, Puts, Pops, FinalTaken, Slot
<1>9. HandInv' /\ QuotaInv' /\ IdInv'
  BY DEF IInv, TypeOK, HandInv, QuotaInv, IdInv, Injective
<1>10. PlaceInv'
  <2>1. /\ SenderHand' = {} /\ CopiedIds' = {} /\ FinalIds = {} /\ FinalIds' = {}
        /\ InArray' = InArray /\ WriterHand' = WriterHand /\ Pops' = Pops
    BY DEF SenderHand, CopiedIds, FinalIds, InArray, WriterHand, Pops, Puts, FinalTaken
  <2>2. QED
    BY <1>3, <1>6, <2>1 DEF IInv, PlaceInv
<1>11. QED
  BY <1>6, <1>7, <1>8, <1>9, <1>10 DEF IInv

\* The sender takes EXIT and wakes some of the waiting threads.
SenderFinalStep ==
  /\ send_pc = "final"
  /\ flag_sender_get_finalblk' = TRUE
  /\ DropFinal
  /\ waiting' \subseteq waiting
  /\ send_buf' = NoBlk
  /\ send_pc' = "drain"
  /\ UNCHANGED <<send_ids, remain_disk_id, sent, genVars, writerVars, idVars,
                 flag_writer_get_finalblk, writer_exit>>

LEMMA SenderFinalStepInv ==
  ASSUME OneWriter, IInv, SenderFinalStep
  PROVE  IInv'
<1> USE BoundsNat DEF SenderFinalStep, genVars, writerVars, idVars
<1>1. ~FinalTaken /\ FinalTaken' /\ Pops = cpt_total_blks + 1
  BY DEF IInv, ExitInv, FinalTaken
<1>2. /\ RingInv'
      /\ Pops' = Pops
      /\ tail' \in 0..(bufsize - 1)
      /\ num_avail_elements' \in -1..bufsize
      /\ UNCHANGED <<buffer, head>>
  BY <1>1, DropFinalRing DEF DropFinal
<1>3. TypeOK'
  BY <1>2 DEF IInv, TypeOK
<1>4. ExitInv'
  <2>1. \A w \in Writers : write_pc[w] # "final"
    BY DEF IInv, ExitInv
  <2>2. QED
    BY <1>1, <1>2, <2>1 DEF IInv, ExitInv, SenderQuits, FinalTaken
<1>5. HandInv' /\ QuotaInv' /\ IdInv' /\ SentInv'
  BY DEF IInv, HandInv, QuotaInv, IdInv, Injective, SentInv
<1>6. PlaceInv'
  BY <1>2 DEF IInv, PlaceInv, SenderHand, WriterHand, InArray, CopiedIds, FinalIds
<1>7. QED
  BY <1>2, <1>3, <1>4, <1>5, <1>6 DEF IInv

LEMMA SenderFinalInv ==
  ASSUME OneWriter, IInv, SenderFinal
  PROVE  IInv'
  BY SenderFinalStepInv DEF SenderFinal, SenderFinalStep

LEMMA SenderDrainInv ==
  ASSUME OneWriter, IInv, SenderDrain
  PROVE  IInv'
<1> USE BoundsNat DEF SenderDrain, prbVars, genVars, writerVars, flagVars
<1>1. TypeOK'
  BY DEF IInv, TypeOK
<1>2. RingInv' /\ ExitInv'
  BY DEF IInv, RingInv, ExitInv, SenderQuits, Puts, Pops, FinalTaken, Slot
<1>3. HandInv' /\ SentInv'
  BY DEF IInv, HandInv, SentInv
<1>4. QuotaInv' /\ IdInv'
  BY DEF IInv, TypeOK, QuotaInv, IdInv, Injective
<1>5. PlaceInv'
  <2>1. /\ SenderHand' = {} /\ SenderHand = {} /\ CopiedIds' = CopiedIds /\ CopiedIds = {}
        /\ FinalIds = {} /\ FinalIds' = InArray /\ InArray' = {}
        /\ WriterHand' = WriterHand /\ Pops' = Pops /\ sent' = sent
    BY DEF IInv, TypeOK, HandInv, SenderHand, CopiedIds, FinalIds, InArray, WriterHand,
           Pops, Puts, FinalTaken
  <2>2. QED
    BY <2>1 DEF IInv, PlaceInv
<1>6. QED
  BY <1>1, <1>2, <1>3, <1>4, <1>5 DEF IInv

LEMMA SenderDiskInv ==
  ASSUME OneWriter, IInv, SenderDisk
  PROVE  IInv'
<1> USE BoundsNat DEF SenderDisk, prbVars, genVars, writerVars, idVars, flagVars
<1> DEFINE m == DiskMsg(WrittenIds(remain_disk_id))
<1>1. /\ remain_disk_id \in Nat
      /\ \A k \in 0..(remain_disk_id - 1) : written_id_array[k] \in disk
      /\ Injective(remain_disk_id)
  BY DEF IInv, TypeOK, IdInv
<1>2. /\ m.blk = EXIT_BLK_ID
      /\ m.ids = WrittenIds(remain_disk_id)
      /\ m.tag = "DISK_TAG"
  BY DEF DiskMsg
<1>3. /\ m.ids \in Seq(Blocks)
      /\ Announced(m) = FinalIds
      /\ \A i, j \in DOMAIN m.ids : m.ids[i] = m.ids[j] => i = j
      /\ Announced(m) \subseteq disk
  <2> HIDE DEF m
  <2>1. /\ WrittenIds(remain_disk_id) \in Seq(Blocks)
        /\ {WrittenIds(remain_disk_id)[k] : k \in DOMAIN WrittenIds(remain_disk_id)}
             = {written_id_array[k] : k \in 0..(remain_disk_id - 1)}
        /\ \A k \in DOMAIN WrittenIds(remain_disk_id) : WrittenIds(remain_disk_id)[k] \in disk
        /\ \A i, j \in DOMAIN WrittenIds(remain_disk_id) :
             WrittenIds(remain_disk_id)[i] = WrittenIds(remain_disk_id)[j] => i = j
    BY <1>1, CopyOfIds
  <2>2. send_pc = "disk"
    OBVIOUS
  <2>3. Announced(m) = FinalIds
    BY <1>2, <2>1, <2>2 DEF Announced, FinalIds
  <2>4. QED
    BY <1>2, <2>1, <2>3 DEF Announced
<1>4. m \in [tag : {"MPI_MSG_TAG", "MIX_MPI_DISK_TAG", "DISK_TAG", "EXIT_MSG_TAG"},
             blk : Blocks \cup {EXIT_BLK_ID}, ids : Seq(Blocks)]
  BY <1>3 DEF DiskMsg
<1>5. Wellformed(m) /\ BlocksOf(m) = FinalIds
  BY <1>2, <1>3 DEF Wellformed, BlocksOf, Payload, IInv, TypeOK
<1>6. sent' = Append(sent, m) /\ disk' = disk
  OBVIOUS
<1> HIDE DEF m
<1>7. /\ SentInv'
      /\ sent' \in Seq([tag : {"MPI_MSG_TAG", "MIX_MPI_DISK_TAG", "DISK_TAG", "EXIT_MSG_TAG"},
                        blk : Blocks \cup {EXIT_BLK_ID}, ids : Seq(Blocks)])
      /\ DeliveredIn(sent') = DeliveredIn(sent) \cup BlocksOf(m)
  BY <1>2, <1>3, <1>4, <1>5, <1>6, SendMessage
<1>8. TypeOK'
  BY <1>7 DEF IInv, TypeOK
<1>9. RingInv' /\ ExitInv'
  BY DEF IInv, RingInv, ExitInv, SenderQuits, Puts, Pops, FinalTaken, Slot
<1>10. HandInv' /\ QuotaInv' /\ IdInv'
  BY DEF IInv, TypeOK, HandInv, QuotaInv, IdInv, Injective
<1>11. PlaceInv'
  <2>1. /\ SenderHand' = {} /\ SenderHand = {} /\ FinalIds' = {}
    BY DEF SenderHand, FinalIds
  <2>2. CopiedIds' = CopiedIds /\ CopiedIds = {}
    BY DEF IInv, HandInv, CopiedIds
  <2>3. InArray' = InArray /\ InArray = {}
    BY DEF IInv, ExitInv, InArray
  <2>4. /\ WriterHand' = {} /\ WriterHand = {}
        /\ Pops' = Pops
    BY DEF IInv, ExitInv, WriterHand, Pops, Puts, FinalTaken
  <2>5. QED
    BY <1>5, <1>7, <2>1, <2>2, <2>3, <2>4 DEF IInv, PlaceInv
<1>12. QED
  BY <1>7, <1>8, <1>9, <1>10, <1>11 DEF IInv

LEMMA SenderExitInv ==
  ASSUME OneWriter, IInv, SenderExit
  PROVE  IInv'
<1> USE BoundsNat DEF SenderExit, prbVars, genVars, writerVars, idVars, flagVars
<1>1. /\ ExitMsg.blk = EXIT_BLK_ID
      /\ ExitMsg.ids = <<>>
      /\ ExitMsg.tag = "EXIT_MSG_TAG"
      /\ ExitMsg \in [tag : {"MPI_MSG_TAG", "MIX_MPI_DISK_TAG", "DISK_TAG", "EXIT_MSG_TAG"},
                      blk : Blocks \cup {EXIT_BLK_ID}, ids : Seq(Blocks)]
  BY DEF ExitMsg
<1>2. Announced(ExitMsg) = {} /\ BlocksOf(ExitMsg) = {} /\ Wellformed(ExitMsg)
  BY <1>1 DEF Announced, BlocksOf, Payload, Wellformed
<1>3. /\ SentInv'
      /\ sent' \in Seq([tag : {"MPI_MSG_TAG", "MIX_MPI_DISK_TAG", "DISK_TAG", "EXIT_MSG_TAG"},
                        blk : Blocks \cup {EXIT_BLK_ID}, ids : Seq(Blocks)])
      /\ DeliveredIn(sent') = DeliveredIn(sent) \cup BlocksOf(ExitMsg)
  BY <1>1, <1>2, SendMessage
<1>4. TypeOK'
  BY <1>3 DEF IInv, TypeOK
<1>5. RingInv' /\ ExitInv'
  BY DEF IInv, RingInv, ExitInv, SenderQuits, Puts, Pops, FinalTaken, Slot
<1>6. HandInv' /\ QuotaInv' /\ IdInv'
  BY DEF IInv, TypeOK, HandInv, QuotaInv, IdInv, Injective
<1>7. PlaceInv'
  <2>1. /\ SenderHand' = SenderHand /\ CopiedIds' = CopiedIds /\ FinalIds' = FinalIds
        /\ InArray' = InArray /\ WriterHand' = WriterHand /\ Pops' = Pops
        /\ DeliveredIn(sent)' = DeliveredIn(sent)
    BY <1>2, <1>3 DEF SenderHand, CopiedIds, FinalIds, InArray, WriterHand, Pops, Puts, FinalTaken
  <2>2. QED
    BY <2>1 DEF IInv, PlaceInv
<1>8. QED
  BY <1>3, <1>4, <1>5, <1>6, <1>7 DEF IInv


-----------------------------------------------------------------------------
(* The writer.                                                              *)

LEMMA OnlyWriter ==
  ASSUME OneWriter, NEW w \in Writers
  PROVE  /\ Writers = {w}
         /\ Cardinality(Writers) = 1
         /\ IdSlots = 0..(writer_blk_num - 1)
<1>1. Writers = {w}
  BY DEF OneWriter
<1>2. Cardinality(Writers) = 1
  BY <1>1, FS_Singleton
<1>3. QED
  BY <1>1, <1>2, BoundsNat DEF IdSlots

\* Steps of the writer that take nothing from the PRB and touch no identifier.
LEMMA WriterStartInv ==
  ASSUME OneWriter, IInv, NEW w \in Writers, WriterStart(w)
  PROVE  IInv'
<1>0. Writers = {w}
  BY OnlyWriter
<1> USE BoundsNat, <1>0 DEF WriterStart, prbVars, genVars, senderVars, idVars
<1>1. write_pc' = [write_pc EXCEPT ![w] = IF writer_blk_num = 0 THEN "done" ELSE "get"]
  OBVIOUS
<1>2. TypeOK'
  BY <1>1 DEF IInv, TypeOK
<1>3. /\ write_pc[w] = "start"
      /\ write_pc'[w] = IF writer_blk_num = 0 THEN "done" ELSE "get"
      /\ writer_exit' <=> writer_blk_num = 0
  <2>1. write_pc'[w] = IF writer_blk_num = 0 THEN "done" ELSE "get"
    BY <1>1 DEF IInv, TypeOK
  <2>2. writer_exit => write_pc[w] = "done"
    BY DEF IInv, ExitInv
  <2>3. QED
    BY <2>1, <2>2
<1>4. RingInv'
  BY DEF IInv, RingInv, Puts, Pops, FinalTaken, Slot
<1>5. ExitInv'
  <2>1. Pops' = Pops /\ (FinalTaken' <=> FinalTaken) /\ (SenderQuits' <=> SenderQuits)
    BY DEF Pops, Puts, FinalTaken, SenderQuits
  <2>2. ~flag_writer_get_finalblk /\ ~writer_exit
    BY <1>3 DEF IInv, ExitInv
  <2>3. QED
    BY <1>3, <2>1, <2>2 DEF IInv, ExitInv
<1>6. HandInv'
  BY <1>3 DEF IInv, HandInv
<1>7. QuotaInv'
  <2>1. my_count[w] \in Nat
    BY DEF IInv, TypeOK
  <2>2. my_count[w] = 0
    BY <1>3 DEF IInv, QuotaInv
  <2>3. QED
    BY <1>3, <2>1, <2>2 DEF IInv, QuotaInv
<1>8. IdInv' /\ SentInv'
  BY <1>3 DEF IInv, IdInv, Injective, SentInv
<1>9. PlaceInv'
  <2>1. WriterHand' = WriterHand
    BY <1>3 DEF WriterHand
  <2>2. UNCHANGED <<SenderHand, InArray, CopiedIds, FinalIds, Pops, sent>>
    BY DEF SenderHand, InArray, CopiedIds, FinalIds, Puts, Pops, FinalTaken
  <2>3. QED
    BY <2>1, <2>2 DEF IInv, PlaceInv
<1>10. QED
  BY <1>2, <1>4, <1>5, <1>6, <1>7, <1>8, <1>9 DEF IInv

LEMMA WriterGetNullInv ==
  ASSUME OneWriter, IInv, NEW w \in Writers, WriterGetNull(w)
  PROVE  IInv'
<1>0. Writers = {w}
  BY OnlyWriter
<1> USE BoundsNat, <1>0 DEF WriterGetNull, prbVars, genVars, senderVars, idVars, flagVars
<1>1. TypeOK'
  BY DEF IInv, TypeOK
<1>2. write_pc[w] = "get" /\ write_pc'[w] = "leave"
  BY DEF IInv, TypeOK
<1>3. RingInv' /\ ExitInv'
  BY <1>2 DEF IInv, RingInv, ExitInv, SenderQuits, Puts, Pops, FinalTaken, Slot
<1>4. HandInv' /\ QuotaInv' /\ IdInv' /\ SentInv'
  BY <1>2 DEF IInv, HandInv, QuotaInv, IdInv, Injective, SentInv
<1>5. PlaceInv'
  <2>1. WriterHand' = WriterHand
    BY <1>2 DEF WriterHand
  <2>2. UNCHANGED <<SenderHand, InArray, CopiedIds, FinalIds, Pops, sent>>
    BY DEF SenderHand, InArray, CopiedIds, FinalIds, Puts, Pops, FinalTaken
  <2>3. QED
    BY <2>1, <2>2 DEF IInv, PlaceInv
<1>6. QED
  BY <1>1, <1>3, <1>4, <1>5 DEF IInv

LEMMA WriterLeaveInv ==
  ASSUME OneWriter, IInv, NEW w \in Writers, WriterLeave(w)
  PROVE  IInv'
<1>0. Writers = {w}
  BY OnlyWriter
<1> USE BoundsNat, <1>0 DEF WriterLeave, prbVars, genVars, senderVars, idVars
<1>1. TypeOK'
  BY DEF IInv, TypeOK
<1>2. write_pc[w] = "leave" /\ write_pc'[w] = "done"
  BY DEF IInv, TypeOK
<1>3. RingInv' /\ ExitInv'
  BY <1>2 DEF IInv, RingInv, ExitInv, SenderQuits, Puts, Pops, FinalTaken, Slot
<1>4. HandInv' /\ QuotaInv' /\ IdInv' /\ SentInv'
  BY <1>2 DEF IInv, HandInv, QuotaInv, IdInv, Injective, SentInv
<1>5. PlaceInv'
  <2>1. WriterHand' = WriterHand
    BY <1>2 DEF WriterHand
  <2>2. UNCHANGED <<SenderHand, InArray, CopiedIds, FinalIds, Pops, sent>>
    BY DEF SenderHand, InArray, CopiedIds, FinalIds, Puts, Pops, FinalTaken
  <2>3. QED
    BY <2>1, <2>2 DEF IInv, PlaceInv
<1>6. QED
  BY <1>1, <1>3, <1>4, <1>5 DEF IInv

\* With one writer, what it holds.
LEMMA WriterHandOf ==
  ASSUME OneWriter, NEW w \in Writers
  PROVE  WriterHand = IF write_pc[w] \in {"write", "append"} THEN {write_buf[w]} ELSE {}
  BY OnlyWriter DEF WriterHand

LEMMA WriterGetInv ==
  ASSUME OneWriter, IInv, NEW w \in Writers, WriterGet(w)
  PROVE  IInv'
<1>0. Writers = {w}
  BY OnlyWriter
<1> USE BoundsNat, <1>0 DEF WriterGet, Pop, genVars, senderVars, idVars, flagVars
<1>1. ~FinalTaken /\ ~FinalTaken' /\ UNCHANGED <<genVars, flagVars>> /\ num_avail_elements > 0
  BY DEF IInv, ExitInv, FinalTaken, Enough
<1>2. /\ RingInv'
      /\ Pops \in Nat
      /\ Pops' = Pops + 1
      /\ Pops <= cpt_total_blks
      /\ buffer[tail] = Item(Pops)
      /\ tail' \in 0..(bufsize - 1)
      /\ num_avail_elements' \in 0..bufsize
      /\ waiting' \in SUBSET (Writers \cup {"generator", "sender"})
  BY <1>1, PopRing
<1>3. /\ write_pc[w] = "get"
      /\ write_pc'[w] = IF buffer[tail] = EXIT_BLK_ID THEN "final" ELSE "write"
      /\ write_buf'[w] = Item(Pops)
  BY <1>2 DEF IInv, TypeOK
<1>4. IF Pops = cpt_total_blks
      THEN Item(Pops) = EXIT_BLK_ID /\ write_pc'[w] = "final"
      ELSE Item(Pops) = Pops /\ Pops \in Blocks /\ write_pc'[w] = "write"
  BY <1>2, <1>3 DEF Item, Blocks, EXIT_BLK_ID
<1>5. TypeOK'
  <2>1. Item(Pops) \in Blocks \cup {EXIT_BLK_ID, NoBlk}
    BY <1>4
  <2>2. write_buf' \in [Writers -> Blocks \cup {EXIT_BLK_ID, NoBlk}]
    BY <1>2, <2>1 DEF IInv, TypeOK
  <2>3. QED
    BY <1>2, <2>2 DEF IInv, TypeOK
<1>6. ExitInv'
  <2>1. send_pc # "final"
    BY <1>2 DEF IInv, ExitInv
  <2>2. ~writer_exit /\ ~writer_exit'
    BY <1>3 DEF IInv, ExitInv
  <2>3. QED
    BY <1>1, <1>2, <1>3, <1>4, <2>1, <2>2 DEF IInv, ExitInv, SenderQuits, FinalTaken
<1>7. HandInv' /\ QuotaInv' /\ IdInv' /\ SentInv'
  BY <1>3, <1>4 DEF IInv, HandInv, QuotaInv, IdInv, Injective, SentInv
<1>8. PlaceInv'
  <2>1. /\ WriterHand = {}
        /\ WriterHand' = IF Item(Pops) = EXIT_BLK_ID THEN {} ELSE {Item(Pops)}
    BY <1>3, <1>4 DEF WriterHand
  <2>2. Item(Pops) \notin {b \in Blocks : b < Pops}
    BY <1>2 DEF Item, Blocks, EXIT_BLK_ID
  <2>3. /\ SenderHand' = SenderHand /\ InArray' = InArray /\ CopiedIds' = CopiedIds
        /\ FinalIds' = FinalIds /\ sent' = sent
    BY DEF SenderHand, InArray, CopiedIds, FinalIds
  <2>4. QED
    BY <1>2, <2>1, <2>2, <2>3, OneMoreTaken DEF IInv, PlaceInv
<1>9. QED
  BY <1>2, <1>5, <1>6, <1>7, <1>8 DEF IInv


LEMMA WriterWriteInv ==
  ASSUME OneWriter, IInv, NEW w \in Writers, WriterWrite(w)
  PROVE  IInv'
<1>0. Writers = {w}
  BY OnlyWriter
<1> USE BoundsNat, <1>0 DEF WriterWrite, prbVars, genVars, senderVars, idVars, flagVars
<1>1. /\ write_pc[w] = "write" /\ write_pc'[w] = "append"
      /\ write_buf[w] \in Blocks
      /\ my_count[w] \in Nat
      /\ my_count'[w] = my_count[w] + 1
      /\ my_count[w] < writer_blk_num
  BY DEF IInv, TypeOK, HandInv, QuotaInv
<1>2. Cardinality(disk') <= my_count'[w]
  <2>1. IsFiniteSet(disk)
    <3>1. disk \subseteq 0..(cpt_total_blks - 1)
      BY DEF IInv, TypeOK, Blocks
    <3>2. IsFiniteSet(0..(cpt_total_blks - 1))
      BY FS_Interval
    <3>3. QED
      BY <3>1, <3>2, FS_Subset
  <2>2. /\ Cardinality(disk) \in Nat
        /\ Cardinality(disk') \in {Cardinality(disk), Cardinality(disk) + 1}
    BY <2>1, FS_CardinalityType, FS_AddElement
  <2>3. Cardinality(disk) <= my_count[w]
    BY DEF IInv, QuotaInv
  <2>4. QED
    BY <1>1, <2>2, <2>3
<1>3. TypeOK'
  BY <1>1 DEF IInv, TypeOK
<1>4. RingInv' /\ ExitInv'
  BY <1>1 DEF IInv, RingInv, ExitInv, SenderQuits, Puts, Pops, FinalTaken, Slot
<1>5. HandInv'
  BY <1>1 DEF IInv, HandInv
<1>6. QuotaInv'
  BY <1>1, <1>2 DEF IInv, TypeOK, QuotaInv
<1>7. IdInv' /\ SentInv'
  BY <1>1 DEF IInv, IdInv, Injective, SentInv
<1>8. PlaceInv'
  <2>1. WriterHand' = WriterHand
    BY <1>1 DEF WriterHand
  <2>2. UNCHANGED <<SenderHand, InArray, CopiedIds, FinalIds, Pops, sent>>
    BY DEF SenderHand, InArray, CopiedIds, FinalIds, Puts, Pops, FinalTaken
  <2>3. QED
    BY <2>1, <2>2 DEF IInv, PlaceInv
<1>9. QED
  BY <1>3, <1>4, <1>5, <1>6, <1>7, <1>8 DEF IInv

LEMMA WriterAppendInv ==
  ASSUME OneWriter, IInv, NEW w \in Writers, WriterAppend(w)
  PROVE  IInv'
<1>0. Writers = {w} /\ IdSlots = 0..(writer_blk_num - 1)
  BY OnlyWriter
<1> USE BoundsNat, <1>0 DEF WriterAppend, prbVars, genVars, senderVars, flagVars
<1>1. /\ write_pc[w] = "append"
      /\ write_pc'[w] = IF my_count[w] >= writer_blk_num THEN "leave" ELSE "get"
      /\ write_buf[w] \in Blocks /\ write_buf[w] \in disk
      /\ write_buf'[w] = NoBlk
      /\ my_count[w] \in Nat
      /\ my_count[w] <= writer_blk_num
      /\ send_tail \in Nat
      /\ send_tail < my_count[w]
  BY DEF IInv, TypeOK, HandInv, QuotaInv, IdInv
<1>2. /\ written_id_array' = [written_id_array EXCEPT ![send_tail] = write_buf[w]]
      /\ send_tail \in IdSlots
      /\ written_id_array'[send_tail] = write_buf[w]
      /\ \A k \in 0..(send_tail - 1) : written_id_array'[k] = written_id_array[k]
  BY <1>1 DEF IInv, TypeOK
<1>3. send_tail' = send_tail + 1
      /\ \A k \in 0..send_tail : k \in 0..(send_tail - 1) \/ k = send_tail
  BY <1>1
<1>4. write_buf[w] \notin InArray
  BY <1>1 DEF IInv, PlaceInv, WriterHand
<1>5. ~writer_exit /\ send_pc # "disk"
  BY <1>1 DEF IInv, ExitInv
<1>6. TypeOK'
  <2>1. written_id_array' \in [IdSlots -> Blocks \cup {NoBlk}]
    BY <1>1, <1>2 DEF IInv, TypeOK
  <2>2. QED
    BY <1>1, <2>1 DEF IInv, TypeOK
<1>7. RingInv'
  BY DEF IInv, RingInv, Puts, Pops, FinalTaken, Slot
<1>8. ExitInv'
  <2>1. Pops' = Pops /\ (FinalTaken' <=> FinalTaken) /\ (SenderQuits' <=> SenderQuits)
    BY DEF Pops, Puts, FinalTaken, SenderQuits
  <2>2. ~flag_writer_get_finalblk /\ send_pc \notin {"disk", "exit", "done"}
    BY <1>1, <1>5 DEF IInv, ExitInv
  <2>3. QED
    BY <1>1, <1>5, <2>1, <2>2 DEF IInv, ExitInv
<1>9. HandInv' /\ SentInv'
  BY <1>1 DEF IInv, HandInv, SentInv
<1>10. QuotaInv'
  BY <1>1, <1>5 DEF IInv, TypeOK, QuotaInv
<1>11. IdInv'
  <2>1. \A k \in 0..(send_tail' - 1) : written_id_array'[k] \in disk
    BY <1>1, <1>2, <1>3 DEF IInv, IdInv
  <2>2. Injective(send_tail)
    BY DEF IInv, IdInv
  <2>3. \A k \in 0..(send_tail - 1) : written_id_array'[k] # written_id_array'[send_tail]
    BY <1>2, <1>4 DEF InArray
  <2>4. \A i, j \in 0..(send_tail' - 1) : written_id_array'[i] = written_id_array'[j] => i = j
    BY <1>1, <1>2, <1>3, <2>2, <2>3 DEF Injective
  <2>5. QED
    BY <1>1, <1>5, <2>1, <2>4 DEF IInv, IdInv, Injective
<1>12. PlaceInv'
  <2>1. WriterHand' = {} /\ WriterHand = {write_buf[w]}
    BY <1>1 DEF WriterHand
  <2>2. InArray' = InArray \cup {write_buf[w]}
    BY <1>1, <1>2, <1>3 DEF InArray
  <2>3. UNCHANGED <<SenderHand, CopiedIds, Pops, sent>> /\ FinalIds = {} /\ FinalIds' = {}
    BY <1>5 DEF SenderHand, CopiedIds, FinalIds, Puts, Pops, FinalTaken
  <2>4. QED
    BY <2>1, <2>2, <2>3 DEF IInv, PlaceInv
<1>13. QED
  BY <1>6, <1>7, <1>8, <1>9, <1>10, <1>11, <1>12 DEF IInv

\* A writer takes EXIT and wakes some of the waiting threads.
WriterFinalStep(w) ==
  /\ write_pc[w] = "final"
  /\ flag_writer_get_finalblk' = TRUE
  /\ DropFinal
  /\ waiting' \subseteq waiting
  /\ write_buf' = [write_buf EXCEPT ![w] = NoBlk]
  /\ write_pc' = [write_pc EXCEPT ![w] = "leave"]
  /\ UNCHANGED <<my_count, disk, genVars, senderVars, idVars,
                 flag_sender_get_finalblk, writer_exit>>

LEMMA WriterFinalStepInv ==
  ASSUME OneWriter, IInv, NEW w \in Writers, WriterFinalStep(w)
  PROVE  IInv'
<1>0. Writers = {w}
  BY OnlyWriter
<1> USE BoundsNat, <1>0 DEF WriterFinalStep, genVars, senderVars, idVars
<1>1. /\ write_pc[w] = "final" /\ write_pc'[w] = "leave"
      /\ write_buf'[w] = NoBlk
  BY DEF IInv, TypeOK
<1>2. ~FinalTaken /\ FinalTaken' /\ Pops = cpt_total_blks + 1
  BY <1>1 DEF IInv, ExitInv, FinalTaken
<1>3. /\ RingInv'
      /\ Pops' = Pops
      /\ tail' \in 0..(bufsize - 1)
      /\ num_avail_elements' \in -1..bufsize
      /\ UNCHANGED <<buffer, head>>
  BY <1>2, DropFinalRing DEF DropFinal
<1>4. TypeOK'
  BY <1>3 DEF IInv, TypeOK
<1>5. ExitInv'
  BY <1>1, <1>2, <1>3 DEF IInv, ExitInv, SenderQuits, FinalTaken
<1>6. HandInv' /\ QuotaInv' /\ IdInv' /\ SentInv'
  BY <1>1 DEF IInv, HandInv, QuotaInv, IdInv, Injective, SentInv
<1>7. PlaceInv'
  <2>1. WriterHand' = WriterHand
    BY <1>1 DEF WriterHand
  <2>2. UNCHANGED <<SenderHand, InArray, CopiedIds, FinalIds, sent>>
    BY DEF SenderHand, InArray, CopiedIds, FinalIds
  <2>3. QED
    BY <1>3, <2>1, <2>2 DEF IInv, PlaceInv
<1>8. QED
  BY <1>3, <1>4, <1>5, <1>6, <1>7 DEF IInv

LEMMA WriterFinalInv ==
  ASSUME OneWriter, IInv, NEW w \in Writers, WriterFinal(w)
  PROVE  IInv'
  BY WriterFinalStepInv DEF WriterFinal, WriterFinalStep

-----------------------------------------------------------------------------
\* Every step preserves the invariant.
LEMMA StepInv ==
  ASSUME OneWriter, IInv, [Next]_vars
  PROVE  IInv'
<1>1. CASE Generator
  BY <1>1, GeneratorPutInv, WaitsInv DEF Generator
<1>2. CASE Sender
  BY <1>2, SenderGetInv, WaitsInv, SenderGetNullInv, SenderCheckIdsInv, SenderSendInv,
     SenderFinalInv, SenderDrainInv, SenderDiskInv, SenderExitInv DEF Sender
<1>3. ASSUME NEW w \in Writers, Writer(w)
      PROVE  IInv'
  BY <1>3, WriterStartInv, WriterGetInv, WaitsInv, WriterGetNullInv, WriterWriteInv,
     WriterAppendInv, WriterFinalInv, WriterLeaveInv DEF Writer
<1>4. CASE SpuriousWakeup
  BY <1>4, WaitsInv
<1>5. CASE UNCHANGED vars
  BY <1>5, WaitingInv DEF vars, IInv, TypeOK
<1>6. QED
  BY <1>1, <1>2, <1>3, <1>4, <1>5 DEF Next, Finished


-----------------------------------------------------------------------------
(* What the invariant says of the properties.                               *)

\* The indices the properties use are the slots of the invariant.
LEMMA SlotOfIndex ==
  ASSUME IInv, NEW k \in 0..(bufsize - 1)
  PROVE  (tail + k) % bufsize = Slot(k) /\ Slot(k) \in 0..(bufsize - 1)
<1>1. tail \in 0..(bufsize - 1)
  BY DEF IInv, TypeOK
<1>2. QED
  BY <1>1, BoundsNat DEF Slot

LEMMA RingContents ==
  ASSUME IInv
  PROVE  InRing = {b \in Blocks : Pops <= b /\ b < data_id}
<1> USE BoundsNat
<1>1. CASE FinalTaken
  <2>1. num_avail_elements = -1 /\ Pops = cpt_total_blks + 1 /\ data_id = cpt_total_blks
    BY <1>1 DEF IInv, RingInv, Pops, Puts
  <2>2. InRing = {}
    BY <2>1 DEF InRing
  <2>3. QED
    BY <2>1, <2>2 DEF Blocks
<1>2. CASE ~FinalTaken
  <2>1. /\ num_avail_elements \in 0..bufsize
        /\ Puts \in Nat
        /\ data_id \in 0..cpt_total_blks
        /\ Pops = Puts - num_avail_elements
        /\ Pops \in Nat
        /\ Puts = IF gen_done THEN cpt_total_blks + 1 ELSE data_id
        /\ gen_done => data_id = cpt_total_blks
    BY <1>2 DEF IInv, TypeOK, RingInv, Puts, Pops
  <2>2. \A k \in 0..(num_avail_elements - 1) : buffer[(tail + k) % bufsize] = Item(Pops + k)
    <3>1. \A k \in 0..(num_avail_elements - 1) : k \in 0..(bufsize - 1)
      BY <2>1
    <3>2. QED
      BY <1>2, <3>1, SlotOfIndex DEF IInv, RingInv
  <2>3. InRing = {Item(Pops + k) : k \in 0..(num_avail_elements - 1)} \ {EXIT_BLK_ID}
    BY <2>2 DEF InRing
  <2>4. ASSUME NEW b \in Blocks, Pops <= b, b < data_id
        PROVE  b \in InRing
    <3>1. b - Pops \in 0..(num_avail_elements - 1) /\ Pops + (b - Pops) = b
      BY <2>1, <2>4 DEF Blocks
    <3>2. Item(b) = b /\ b # EXIT_BLK_ID
      BY DEF Item, Blocks, EXIT_BLK_ID
    <3>3. QED
      BY <2>3, <3>1, <3>2
  <2>5. ASSUME NEW b \in InRing
        PROVE  b \in Blocks /\ Pops <= b /\ b < data_id
    <3>1. PICK k \in 0..(num_avail_elements - 1) : b = Item(Pops + k)
      BY <2>3
    <3>2. b # EXIT_BLK_ID
      BY <2>3
    <3>3. Pops + k < cpt_total_blks /\ b = Pops + k
      BY <3>1, <3>2 DEF Item
    <3>4. QED
      BY <2>1, <3>3 DEF Blocks
  <2>6. QED
    BY <2>4, <2>5
<1>3. QED
  BY <1>1, <1>2

LEMMA ConservedInv ==
  ASSUME OneWriter, IInv
  PROVE  BlocksConserved
<1> USE BoundsNat
<1>1. InHand = SenderHand \cup WriterHand
  <2>1. PICK w : Writers = {w}
    BY DEF OneWriter
  <2>2. InHand = {send_buf, write_buf[w]} \ {EXIT_BLK_ID, NoBlk}
    BY <2>1 DEF InHand
  <2>3. WriterHand = IF write_pc[w] \in {"write", "append"} THEN {write_buf[w]} ELSE {}
    BY <2>1, WriterHandOf
  <2>4. SenderHand = {send_buf} \ {EXIT_BLK_ID, NoBlk}
    BY DEF IInv, HandInv, SenderHand
  <2>5. WriterHand = {write_buf[w]} \ {EXIT_BLK_ID, NoBlk}
    BY <2>1, <2>3 DEF IInv, HandInv
  <2>6. QED
    BY <2>2, <2>4, <2>5
<1>2. Leaving = CopiedIds \cup FinalIds
  <2>1. Announced([ids |-> send_ids]) = CopiedIds
    BY DEF Announced, CopiedIds
  <2>2. CASE send_pc = "disk"
    <3>1. /\ remain_disk_id \in Nat
          /\ \A k \in 0..(remain_disk_id - 1) : written_id_array[k] \in disk
          /\ Injective(remain_disk_id)
      BY <2>2 DEF IInv, TypeOK, IdInv
    <3>2. Announced([ids |-> WrittenIds(remain_disk_id)])
            = {written_id_array[k] : k \in 0..(remain_disk_id - 1)}
      BY <3>1, CopyOfIds
    <3>3. QED
      BY <2>1, <2>2, <3>2 DEF Leaving, FinalIds
  <2>3. CASE send_pc # "disk"
    BY <2>1, <2>3 DEF Leaving, FinalIds
  <2>4. QED
    BY <2>2, <2>3
<1>3. /\ InRing = {b \in Blocks : Pops <= b /\ b < data_id}
      /\ InHand \cup InArray \cup Leaving \cup DeliveredIn(sent) = {b \in Blocks : b < Pops}
  BY <1>1, <1>2, RingContents DEF IInv, PlaceInv
<1>4. /\ InHand \cap (InArray \cup Leaving \cup DeliveredIn(sent)) = {}
      /\ InArray \cap (Leaving \cup DeliveredIn(sent)) = {}
      /\ Leaving \cap DeliveredIn(sent) = {}
  <2>1. FinalIds # {} => SenderHand = {} /\ WriterHand = {}
    BY DEF FinalIds, SenderHand, WriterHand, IInv, ExitInv
  <2>2. QED
    BY <1>1, <1>2, <2>1 DEF IInv, PlaceInv
<1>5. data_id \in 0..cpt_total_blks /\ Pops \in Int /\ Pops <= data_id + 1
  BY DEF IInv, TypeOK, RingInv, Pops, Puts, FinalTaken
<1>6. Pops = data_id + 1 => data_id = cpt_total_blks
  BY DEF IInv, TypeOK, RingInv, Pops, Puts, FinalTaken
<1>7. InRing \cap (InHand \cup InArray \cup Leaving \cup DeliveredIn(sent)) = {}
  BY <1>3, <1>5 DEF Blocks
<1>8. InRing \cup (InHand \cup InArray \cup Leaving \cup DeliveredIn(sent)) = 0..(data_id - 1)
  BY <1>3, <1>5, <1>6 DEF Blocks
<1>9. DOMAIN Places = 1..5
  BY DEF Places
<1>10. /\ Places[1] = InRing /\ Places[2] = InHand /\ Places[3] = InArray
       /\ Places[4] = Leaving /\ Places[5] = DeliveredIn(sent)
  BY DEF Places
<1> HIDE DEF Places
<1>11. UNION {Places[i] : i \in DOMAIN Places} = 0..(data_id - 1)
  <2>1. UNION {Places[i] : i \in DOMAIN Places}
          = Places[1] \cup (Places[2] \cup Places[3] \cup Places[4] \cup Places[5])
    BY <1>9
  <2>2. QED
    BY <1>8, <1>10, <2>1
<1>12. \A i, j \in DOMAIN Places : i # j => Places[i] \cap Places[j] = {}
  BY <1>4, <1>7, <1>9, <1>10
<1>13. QED
  BY <1>11, <1>12 DEF BlocksConserved


\* When the sender has nothing left to do but send EXIT, every block was sent.
LEMMA AllDelivered ==
  ASSUME OneWriter, IInv, send_pc \in {"exit", "done"}
  PROVE  DeliveredIn(sent) = Blocks
<1>1. FinalTaken /\ Pops = cpt_total_blks + 1
  BY DEF IInv, RingInv, ExitInv, SenderQuits, Pops, Puts
<1>2. SenderHand = {} /\ FinalIds = {} /\ WriterHand = {} /\ InArray = {} /\ CopiedIds = {}
  BY DEF IInv, ExitInv, HandInv, SenderHand, FinalIds, WriterHand, InArray, CopiedIds
<1>3. {b \in Blocks : b < Pops} = Blocks
  BY <1>1, BoundsNat DEF Blocks
<1>4. QED
  BY <1>2, <1>3 DEF IInv, PlaceInv

LEMMA PropertiesInv ==
  ASSUME OneWriter, IInv
  PROVE  TypeOK /\ ExitComesLast /\ AnnouncedIsOnDisk /\ IdArrayFits /\ MessagesWellformed
<1>1. TypeOK /\ AnnouncedIsOnDisk /\ MessagesWellformed
  BY DEF IInv, SentInv, AnnouncedIsOnDisk, MessagesWellformed
<1>2. ExitComesLast
  BY AllDelivered DEF IInv, SentInv, ExitComesLast
<1>3. IdArrayFits
  <2>1. PICK w : Writers = {w}
    BY DEF OneWriter
  <2>2. /\ my_count[w] \in Nat /\ send_tail \in Nat /\ Len(send_ids) \in Nat
        /\ my_count[w] <= writer_blk_num /\ send_tail <= my_count[w] /\ Len(send_ids) <= my_count[w]
    BY <2>1 DEF IInv, TypeOK, QuotaInv
  <2>3. QED
    BY <2>2, BoundsNat DEF IdArrayFits
<1>4. QED
  BY <1>1, <1>2, <1>3

-----------------------------------------------------------------------------
(* The theorems.                                                            *)

\* The inductive invariant holds of every behaviour with one writer thread,
\* for every buffer size, number of blocks, quota and threshold.
THEOREM Invariant == ASSUME OneWriter PROVE Spec => []IInv
<1>1. Init => IInv
  BY InitInv
<1>2. IInv /\ [Next]_vars => IInv'
  BY StepInv
<1>3. QED
  BY <1>1, <1>2, PTL DEF Spec

\* Every block the simulation has generated is in exactly one place: nothing
\* is lost or duplicated between the PRB, the threads, the identifier array
\* and the messages.
THEOREM Conservation == ASSUME OneWriter PROVE Spec => []BlocksConserved
<1>1. IInv => BlocksConserved
  BY ConservedInv
<1>2. QED
  BY <1>1, Invariant, PTL

\* The variables keep their types, the PRB count its range and the indices
\* their buffer.
THEOREM TypeCorrect == ASSUME OneWriter PROVE Spec => []TypeOK
<1>1. IInv => TypeOK
  BY PropertiesInv
<1>2. QED
  BY <1>1, Invariant, PTL

\* EXIT is the last message, sent after every block was handed over.
THEOREM ExitLast == ASSUME OneWriter PROVE Spec => []ExitComesLast
<1>1. IInv => ExitComesLast
  BY PropertiesInv
<1>2. QED
  BY <1>1, Invariant, PTL

\* No block is announced before it is on disk.
THEOREM AnnouncedOnDisk == ASSUME OneWriter PROVE Spec => []AnnouncedIsOnDisk
<1>1. IInv => AnnouncedIsOnDisk
  BY PropertiesInv
<1>2. QED
  BY <1>1, Invariant, PTL

\* written_id_array and the tail of a mixed message never overflow.
THEOREM IdArrayNeverOverflows == ASSUME OneWriter PROVE Spec => []IdArrayFits
<1>1. IInv => IdArrayFits
  BY PropertiesInv
<1>2. QED
  BY <1>1, Invariant, PTL

\* No message names a block twice.
THEOREM WellformedMessages == ASSUME OneWriter PROVE Spec => []MessagesWellformed
<1>1. IInv => MessagesWellformed
  BY PropertiesInv
<1>2. QED
  BY <1>1, Invariant, PTL


-----------------------------------------------------------------------------
(* The process implements BlockStream.                                      *)

\* The abstract variables, as the refinement mapping gives them.
Pending  == Blocks \ DeliveredIn(sent)
Phase    == IF ExitSentIn(sent) THEN "closed" ELSE "open"

LEMMA StreamVariables ==
  ASSUME sent' = sent
  PROVE  UNCHANGED Stream!streamVars
  BY DEF Stream!streamVars

LEMMA StreamInitially ==
  ASSUME Init
  PROVE  Stream!StreamInit
<1>1. sent = <<>> /\ Len(sent) = 0
  BY DEF Init
<1>2. DeliveredIn(sent) = {} /\ AnnouncedIn(sent) = {} /\ ~ExitSentIn(sent)
  BY <1>1 DEF DeliveredIn, AnnouncedIn, ExitSentIn
<1>3. QED
  BY <1>1, <1>2 DEF Stream!StreamInit

\* One more message, as the abstract variables see it.
LEMMA OneMessage ==
  ASSUME IInv, send_pc # "done", NEW m, sent' = Append(sent, m),
         m \in [tag : {"MPI_MSG_TAG", "MIX_MPI_DISK_TAG", "DISK_TAG", "EXIT_MSG_TAG"},
                blk : Blocks \cup {EXIT_BLK_ID}, ids : Seq(Blocks)]
  PROVE  /\ Pending' = Pending \ BlocksOf(m)
         /\ AnnouncedIn(sent') = AnnouncedIn(sent) \cup Announced(m)
         /\ Phase = "open"
         /\ Phase' = IF m.tag = "EXIT_MSG_TAG" THEN "closed" ELSE "open"
         /\ Len(sent') = Len(sent) + 1
<1> DEFINE Msg == [tag : {"MPI_MSG_TAG", "MIX_MPI_DISK_TAG", "DISK_TAG", "EXIT_MSG_TAG"},
                   blk : Blocks \cup {EXIT_BLK_ID}, ids : Seq(Blocks)]
<1>1. sent \in Seq(Msg) /\ m \in Msg
  BY DEF IInv, TypeOK
<1> HIDE DEF Msg
<1>2. /\ DeliveredIn(sent') = DeliveredIn(sent) \cup BlocksOf(m)
      /\ AnnouncedIn(sent') = AnnouncedIn(sent) \cup Announced(m)
      /\ ExitSentIn(sent') <=> ExitSentIn(sent) \/ m.tag = "EXIT_MSG_TAG"
      /\ Len(sent') = Len(sent) + 1
  BY <1>1, AppendMessage
<1>3. ~ExitSentIn(sent)
  BY DEF IInv, SentInv, ExitSentIn
<1>4. Blocks' = Blocks
  BY DEF Blocks
<1>5. QED
  BY <1>2, <1>3, <1>4 DEF Pending, Phase

\* What is announced is on disk, so it stays within the quota.
\* BlockStream counts with the same Cardinality.
LEMMA SameCardinality == \A S : Stream!Cardinality(S) = Cardinality(S)
  BY DEF Stream!Cardinality, Cardinality

LEMMA WithinQuota ==
  ASSUME OneWriter, IInv, NEW S, S \subseteq disk
  PROVE  Cardinality(AnnouncedIn(sent) \cup S) <= writer_blk_num
<1>1. PICK w : Writers = {w}
  BY DEF OneWriter
<1>2. IsFiniteSet(disk)
  <2>1. disk \subseteq 0..(cpt_total_blks - 1)
    BY DEF IInv, TypeOK, Blocks
  <2>2. IsFiniteSet(0..(cpt_total_blks - 1))
    BY BoundsNat, FS_Interval
  <2>3. QED
    BY <2>1, <2>2, FS_Subset
<1>3. AnnouncedIn(sent) \cup S \subseteq disk
  BY DEF IInv, SentInv
<1>4. /\ Cardinality(AnnouncedIn(sent) \cup S) \in Nat
      /\ Cardinality(disk) \in Nat
      /\ Cardinality(AnnouncedIn(sent) \cup S) <= Cardinality(disk)
  BY <1>2, <1>3, FS_Subset, FS_CardinalityType
<1>5. my_count[w] \in Nat /\ Cardinality(disk) <= my_count[w] /\ my_count[w] <= writer_blk_num
  BY <1>1 DEF IInv, TypeOK, QuotaInv
<1>6. QED
  BY <1>4, <1>5, BoundsNat

Message == [tag : {"MPI_MSG_TAG", "MIX_MPI_DISK_TAG", "DISK_TAG", "EXIT_MSG_TAG"},
            blk : Blocks \cup {EXIT_BLK_ID}, ids : Seq(Blocks)]

\* What the stream allows to be sent next.
Allowed(m) ==
  \/ /\ m.tag \in {"MPI_MSG_TAG", "MIX_MPI_DISK_TAG"}
     /\ MayHandOver(writer_blk_num, Pending, AnnouncedIn(sent), Phase, m.blk, Announced(m))
  \/ /\ m.tag = "DISK_TAG"
     /\ m.blk = EXIT_BLK_ID
     /\ MayFlush(writer_blk_num, Pending, AnnouncedIn(sent), Phase)
     /\ Announced(m) = Pending
  \/ /\ m.tag = "EXIT_MSG_TAG"
     /\ BlocksOf(m) = {}
     /\ MayClose(Pending, Phase)

LEMMA PhaseOpen ==
  ASSUME IInv, send_pc # "done"
  PROVE  Phase = "open"
  BY DEF IInv, SentInv, ExitSentIn, Phase

LEMMA SendAllowed ==
  ASSUME OneWriter, IInv, SenderSend
  PROVE  \E m \in Message : sent' = Append(sent, m) /\ Allowed(m)
<1> USE BoundsNat
<1> DEFINE m == IF send_ids = <<>> THEN LongMsg(send_buf) ELSE MixMsg(send_buf, send_ids)
<1>1. /\ send_pc = "send" /\ send_buf \in Blocks /\ send_ids \in Seq(Blocks)
      /\ sent' = Append(sent, m)
  BY DEF IInv, TypeOK, HandInv, SenderSend
<1>2. /\ m.blk = send_buf
      /\ m.ids = send_ids
      /\ m.tag \in {"MPI_MSG_TAG", "MIX_MPI_DISK_TAG"}
      /\ m \in Message
  BY <1>1 DEF LongMsg, MixMsg, Message
<1> HIDE DEF m
<1>3. Announced(m) = CopiedIds
  BY <1>1, <1>2 DEF Announced, CopiedIds
<1>4. Phase = "open"
  BY <1>1, PhaseOpen
<1>5. send_buf \in Pending /\ CopiedIds \in SUBSET (Pending \ {send_buf})
  <2>1. SenderHand = {send_buf}
    BY <1>1 DEF SenderHand
  <2>2. QED
    BY <1>1, <2>1 DEF IInv, PlaceInv, Pending
<1>6. Cardinality(AnnouncedIn(sent) \cup CopiedIds) <= writer_blk_num
  <2>1. CopiedIds \subseteq disk
    BY DEF IInv, IdInv, CopiedIds
  <2>2. QED
    BY <2>1, WithinQuota
<1>7. MayHandOver(writer_blk_num, Pending, AnnouncedIn(sent), Phase, m.blk, Announced(m))
  BY <1>2, <1>3, <1>4, <1>5, <1>6 DEF MayHandOver
<1>8. QED
  BY <1>1, <1>2, <1>7 DEF Allowed

LEMMA DiskAllowed ==
  ASSUME OneWriter, IInv, SenderDisk
  PROVE  \E m \in Message : sent' = Append(sent, m) /\ Allowed(m)
<1> USE BoundsNat
<1> DEFINE m == DiskMsg(WrittenIds(remain_disk_id))
<1>1. /\ send_pc = "disk"
      /\ sent' = Append(sent, m)
      /\ remain_disk_id \in Nat
      /\ \A k \in 0..(remain_disk_id - 1) : written_id_array[k] \in disk
      /\ Injective(remain_disk_id)
  BY DEF IInv, TypeOK, IdInv, SenderDisk
<1>2. /\ WrittenIds(remain_disk_id) \in Seq(Blocks)
      /\ {WrittenIds(remain_disk_id)[k] : k \in DOMAIN WrittenIds(remain_disk_id)} = FinalIds
  BY <1>1, CopyOfIds DEF FinalIds
<1>3. /\ m.blk = EXIT_BLK_ID
      /\ m.ids = WrittenIds(remain_disk_id)
      /\ m.tag = "DISK_TAG"
      /\ m \in Message
  BY <1>2 DEF DiskMsg, Message
<1> HIDE DEF m
<1>4. Announced(m) = FinalIds
  BY <1>2, <1>3 DEF Announced
<1>5. Phase = "open"
  BY <1>1, PhaseOpen
<1>6. Pending = FinalIds
  <2>1. FinalTaken /\ Pops = cpt_total_blks + 1
    BY <1>1 DEF IInv, RingInv, ExitInv, SenderQuits, Pops, Puts
  <2>2. {b \in Blocks : b < Pops} = Blocks
    BY <2>1 DEF Blocks
  <2>3. SenderHand = {} /\ WriterHand = {} /\ InArray = {} /\ CopiedIds = {}
    BY <1>1 DEF IInv, ExitInv, HandInv, SenderHand, WriterHand, InArray, CopiedIds
  <2>4. QED
    BY <2>2, <2>3 DEF IInv, PlaceInv, Pending
<1>7. FinalIds # {}
  <2>1. remain_disk_id >= 1
    <3>1. PICK w : Writers = {w}
      BY DEF OneWriter
    <3>2. my_count[w] \in Nat /\ remain_disk_id \in 1..my_count[w]
      BY <1>1, <3>1 DEF IInv, TypeOK, QuotaInv
    <3>3. QED
      BY <3>2
  <2>2. 0 \in 0..(remain_disk_id - 1)
    BY <1>1, <2>1
  <2>3. QED
    BY <1>1, <2>2 DEF FinalIds
<1>8. Cardinality(AnnouncedIn(sent) \cup FinalIds) <= writer_blk_num
  <2>1. FinalIds \subseteq disk
    BY <1>1 DEF FinalIds
  <2>2. QED
    BY <2>1, WithinQuota
<1>9. MayFlush(writer_blk_num, Pending, AnnouncedIn(sent), Phase)
  BY <1>5, <1>6, <1>7, <1>8 DEF MayFlush
<1>10. QED
  BY <1>1, <1>3, <1>4, <1>6, <1>9 DEF Allowed

LEMMA ExitAllowed ==
  ASSUME OneWriter, IInv, SenderExit
  PROVE  \E m \in Message : sent' = Append(sent, m) /\ Allowed(m)
<1>1. send_pc = "exit" /\ sent' = Append(sent, ExitMsg)
  BY DEF SenderExit
<1>2. /\ ExitMsg.blk = EXIT_BLK_ID
      /\ ExitMsg.ids = <<>>
      /\ ExitMsg.tag = "EXIT_MSG_TAG"
      /\ ExitMsg \in Message
  BY DEF ExitMsg, Message
<1>3. BlocksOf(ExitMsg) = {}
  BY <1>2 DEF Announced, BlocksOf, Payload
<1>4. Phase = "open"
  BY <1>1, PhaseOpen
<1>5. Pending = {}
  BY <1>1, AllDelivered DEF Pending
<1>6. MayClose(Pending, Phase)
  BY <1>4, <1>5 DEF MayClose
<1>7. QED
  BY <1>1, <1>2, <1>3, <1>6 DEF Allowed

\* Whatever a step sends, the stream allows.
LEMMA OnlyAllowed ==
  ASSUME OneWriter, IInv, [Next]_vars
  PROVE  \/ sent' = sent
         \/ send_pc # "done" /\ \E m \in Message : sent' = Append(sent, m) /\ Allowed(m)
<1>1. CASE Generator
  BY <1>1 DEF Generator, GeneratorPut, GeneratorWait, senderVars
<1>2. CASE Sender
  <2>1. CASE SenderSend \/ SenderDisk \/ SenderExit
    <3>1. send_pc # "done"
      BY <2>1 DEF SenderSend, SenderDisk, SenderExit
    <3>2. QED
      BY <2>1, <3>1, SendAllowed, DiskAllowed, ExitAllowed
  <2>2. CASE SenderGet \/ SenderWait \/ SenderGetNull \/ SenderCheckIds \/ SenderFinal \/ SenderDrain
    BY <2>2 DEF SenderGet, SenderWait, SenderGetNull, SenderCheckIds, SenderFinal, SenderDrain, senderVars
  <2>3. QED
    BY <1>2, <2>1, <2>2 DEF Sender
<1>3. ASSUME NEW w \in Writers, Writer(w)
      PROVE  sent' = sent
  BY <1>3 DEF Writer, WriterStart, WriterGet, WriterWait, WriterGetNull, WriterWrite,
     WriterAppend, WriterFinal, WriterLeave, senderVars
<1>4. CASE SpuriousWakeup \/ UNCHANGED vars
  BY <1>4 DEF SpuriousWakeup, vars, senderVars
<1>5. QED
  BY <1>1, <1>2, <1>3, <1>4 DEF Next, Finished

\* An allowed message is a step of the stream.
LEMMA AllowedIsStreamStep ==
  ASSUME IInv, send_pc # "done", NEW m \in Message, sent' = Append(sent, m), Allowed(m)
  PROVE  Stream!StreamNext
<1> USE BoundsNat
<1>1. /\ Pending' = Pending \ BlocksOf(m)
      /\ AnnouncedIn(sent') = AnnouncedIn(sent) \cup Announced(m)
      /\ Phase = "open"
      /\ Phase' = IF m.tag = "EXIT_MSG_TAG" THEN "closed" ELSE "open"
      /\ Len(sent') = Len(sent) + 1
  BY OneMessage DEF Message
<1>2. CASE m.tag \in {"MPI_MSG_TAG", "MIX_MPI_DISK_TAG"}
  <2>1. MayHandOver(writer_blk_num, Pending, AnnouncedIn(sent), Phase, m.blk, Announced(m))
    BY <1>2 DEF Allowed
  <2>2. m.blk \in Pending /\ Announced(m) \in SUBSET (Pending \ {m.blk})
    BY <2>1 DEF MayHandOver
  <2>3. BlocksOf(m) = {m.blk} \cup Announced(m)
    BY <2>2 DEF BlocksOf, Payload, Pending
  <2>4. Stream!HandOver(m.blk, Announced(m))
    BY <1>1, <1>2, <2>1, <2>3, SameCardinality
       DEF Stream!HandOver, Stream!MayHandOver, MayHandOver, Pending, Phase
  <2>5. QED
    BY <2>2, <2>4 DEF Stream!StreamNext, Pending
<1>3. CASE m.tag = "DISK_TAG"
  <2>1. /\ m.blk = EXIT_BLK_ID
        /\ MayFlush(writer_blk_num, Pending, AnnouncedIn(sent), Phase)
        /\ Announced(m) = Pending
    BY <1>3 DEF Allowed
  <2>2. BlocksOf(m) = Pending
    BY <2>1 DEF BlocksOf, Payload
  <2>3. Stream!Flush
    BY <1>1, <1>3, <2>1, <2>2, SameCardinality
       DEF Stream!Flush, Stream!MayFlush, MayFlush, Pending, Phase
  <2>4. QED
    BY <2>3 DEF Stream!StreamNext
<1>4. CASE m.tag = "EXIT_MSG_TAG"
  <2>1. BlocksOf(m) = {} /\ MayClose(Pending, Phase)
    BY <1>4 DEF Allowed
  <2>2. Announced(m) = {}
    BY <2>1 DEF BlocksOf
  <2>3. Stream!Close
    BY <1>1, <1>4, <2>1, <2>2 DEF Stream!Close, Stream!MayClose, MayClose, Pending, Phase
  <2>4. QED
    BY <2>3 DEF Stream!StreamNext
<1>5. QED
  BY <1>2, <1>3, <1>4 DEF Message

\* The process keeps the promise of BlockStream: every step is a step of the
\* stream or changes nothing of it.
THEOREM Implementation == ASSUME OneWriter PROVE Spec => ImplementsStream
<1>1. Init => Stream!StreamInit
  BY StreamInitially
<1>2. IInv /\ [Next]_vars => [Stream!StreamNext]_(Stream!streamVars)
  BY OnlyAllowed, AllowedIsStreamStep, StreamVariables
<1>3. QED
  BY <1>1, <1>2, Invariant, PTL DEF Spec, ImplementsStream, Stream!StreamSpec
=============================================================================
