------------------------ MODULE AnalysisBrokerProofs ------------------------
(***************************************************************************)
(* Proofs about AnalysisBroker, for any number of sources, blocks, slots,  *)
(* readers and analysis writers.  What needs one reader or one analysis    *)
(* writer says so.                                                         *)
(***************************************************************************)
EXTENDS AnalysisInvariant, FiniteSetTheorems, TLAPS

-----------------------------------------------------------------------------
(* The constants.                                                           *)

LEMMA GroupSize ==
  /\ IsFiniteSet(Sources)
  /\ computer_group_size \in Nat \ {0}
  /\ \A S \in SUBSET Sources :
       /\ IsFiniteSet(S)
       /\ Cardinality(S) \in 0..computer_group_size
       /\ Cardinality(S) = computer_group_size <=> S = Sources
<1>1. IsFiniteSet(Sources) /\ Sources # {}
  BY AnalysisAssumption
<1>2. computer_group_size \in Nat /\ computer_group_size # 0
  BY <1>1, FS_CardinalityType, FS_EmptySet DEF computer_group_size
<1>3. ASSUME NEW S \in SUBSET Sources
      PROVE  /\ IsFiniteSet(S)
             /\ Cardinality(S) \in 0..computer_group_size
             /\ Cardinality(S) = computer_group_size <=> S = Sources
  <2>1. IsFiniteSet(S) /\ Cardinality(S) <= Cardinality(Sources)
        /\ (Cardinality(Sources) = Cardinality(S) => Sources = S)
    BY <1>1, FS_Subset
  <2>2. Cardinality(S) \in Nat
    BY <2>1, FS_CardinalityType
  <2>3. QED
    BY <1>2, <2>1, <2>2 DEF computer_group_size
<1>4. QED
  BY <1>1, <1>2, <1>3

LEMMA Bounds ==
  /\ writer_blk_num \in Nat
  /\ reader_blk_num \in Nat
  /\ reader_blk_num = 0 => writer_blk_num = 0
  /\ bufsize \in Nat \ {0}
  /\ cpt_total_blks \in Nat
<1>1. cpt_total_blks * writer_thousandth \in Nat /\ bufsize \in Nat \ {0} /\ cpt_total_blks \in Nat
  BY AnalysisAssumption
<1>2. \A n \in Nat : n \div 1000 \in Nat
  OBVIOUS
<1>3. writer_blk_num \in Nat
  BY <1>1, <1>2 DEF writer_blk_num
<1>4. \A a \in Nat \ {0} : \A b \in Nat : a * b \in Nat /\ (a * b = 0 => b = 0)
  OBVIOUS
<1>5. QED
  BY <1>1, <1>3, <1>4, GroupSize DEF reader_blk_num

\* Blocks and EXIT blocks are different items, and None is neither.
LEMMA ItemKinds ==
  /\ Blocks \cap Exits = {}
  /\ None \notin Items
  /\ \A p \in Items : IsExit(p) <=> p \in Exits
  /\ \A p \in Items : p[1] \in Sources
  /\ \A s \in Sources : <<s, EXIT_BLK_ID>> \in Exits
  /\ \A s \in Sources : \A b \in 0..(cpt_total_blks - 1) : <<s, b>> \in Blocks /\ ~IsExit(<<s, b>>)
  /\ \A p \in Blocks : p[2] \in 0..(cpt_total_blks - 1) /\ p = <<p[1], p[2]>>
BY Bounds, AnalysisAssumption DEF Blocks, Exits, Items, IsExit, EXIT_BLK_ID

LEMMA ItemCount ==
  /\ IsFiniteSet(Blocks) /\ Cardinality(Blocks) = ana_total_blks
  /\ IsFiniteSet(Exits) /\ Cardinality(Exits) = computer_group_size
<1>1. IsFiniteSet(0..(cpt_total_blks - 1)) /\ Cardinality(0..(cpt_total_blks - 1)) = cpt_total_blks
  BY FS_Interval, Bounds
<1>2. IsFiniteSet({EXIT_BLK_ID}) /\ Cardinality({EXIT_BLK_ID}) = 1
  BY FS_Singleton
<1>3. Cardinality(Sources) * 1 = Cardinality(Sources)
  BY GroupSize DEF computer_group_size
<1>4. /\ IsFiniteSet(Blocks)
      /\ Cardinality(Blocks) = Cardinality(Sources) * Cardinality(0..(cpt_total_blks - 1))
  BY <1>1, GroupSize, FS_Product DEF Blocks
<1>5. /\ IsFiniteSet(Exits)
      /\ Cardinality(Exits) = Cardinality(Sources) * Cardinality({EXIT_BLK_ID})
  BY <1>2, GroupSize, FS_Product DEF Exits
<1>6. QED
  BY <1>1, <1>2, <1>3, <1>4, <1>5 DEF ana_total_blks, computer_group_size

-----------------------------------------------------------------------------
(* The CRB.                                                                 *)

LEMMA AdvanceStep ==
  ASSUME NEW i \in 0..(bufsize - 1)
  PROVE  /\ i + 1 < bufsize => Advance(i) = i + 1
         /\ i + 1 = bufsize => Advance(i) = 0
         /\ Advance(i) \in 0..(bufsize - 1)
BY Bounds DEF Advance

\* The slots counted from the tail are all different, and the first is the tail.
LEMMA Slots ==
  ASSUME TypeOK
  PROVE  /\ \A k \in 0..(bufsize - 1) : Slot(k) \in 0..(bufsize - 1)
         /\ \A j, k \in 0..(bufsize - 1) : Slot(j) = Slot(k) => j = k
         /\ Slot(0) = tail
         /\ \A k \in 0..(bufsize - 1) : (tail + k) % bufsize = Slot(k)
<1>1. tail \in 0..(bufsize - 1) /\ bufsize \in Nat \ {0}
  BY Bounds DEF TypeOK
<1>2. \A i \in 0..(bufsize - 1) : i % bufsize = i
  BY <1>1
<1>3. \A i \in bufsize..(2 * bufsize - 1) : i % bufsize = i - bufsize
  BY <1>1
<1>4. \A k \in 0..(bufsize - 1) : (tail + k) % bufsize = Slot(k)
  BY <1>1, <1>2, <1>3 DEF Slot
<1>5. QED
  BY <1>1, <1>4 DEF Slot

LEMMA RingIsInRing == ASSUME TypeOK PROVE InRing = Ring
<1>1. Filled \subseteq 0..(bufsize - 1)
  BY Bounds DEF TypeOK, Filled
<1>2. \A k \in Filled : (tail + k) % bufsize = Slot(k)
  BY <1>1, Slots
<1>3. QED
  BY <1>2 DEF InRing, Ring, Filled

\* A put adds its item behind the others.
LEMMA PutRing ==
  ASSUME TypeOK, RingInv, NEW p \in Items, p \notin Ring, Put(p)
  PROVE  /\ RingInv'
         /\ Ring' = Ring \cup {p}
         /\ buffer' \in [0..(bufsize - 1) -> Items \cup {None}]
         /\ head' \in 0..(bufsize - 1) /\ tail' \in 0..(bufsize - 1)
         /\ num_avail_elements' \in 0..bufsize
         /\ num_avail_elements' > 0
         /\ buffer'[Slot(num_avail_elements - 1)'] = p
         /\ num_avail_elements > 0 => buffer'[tail'] = buffer[tail]
         /\ waiting' \subseteq waiting
<1>1. /\ num_avail_elements \in 0..(bufsize - 1)
      /\ num_avail_elements' = num_avail_elements + 1
      /\ tail' = tail
      /\ tail \in 0..(bufsize - 1) /\ head \in 0..(bufsize - 1)
      /\ head' = Advance(head)
      /\ buffer \in [0..(bufsize - 1) -> Items \cup {None}]
      /\ buffer' = [buffer EXCEPT ![head] = p]
      /\ waiting' \subseteq waiting
      /\ bufsize \in Nat \ {0}
  BY Bounds DEF TypeOK, Put
<1>2. \A k \in 0..bufsize : Slot(k)' = Slot(k)
  BY <1>1 DEF Slot
<1>3. head = Slot(num_avail_elements)
  BY DEF RingInv
<1>4. /\ \A k \in Filled : Slot(k) # head /\ k \in 0..(bufsize - 1)
      /\ num_avail_elements \in 0..(bufsize - 1)
  BY <1>1, <1>3, Slots DEF Filled
<1>5. /\ \A k \in Filled : buffer'[Slot(k)] = buffer[Slot(k)]
      /\ buffer'[Slot(num_avail_elements)] = p
  BY <1>1, <1>3, <1>4, Slots
<1>6. /\ \A k \in Filled' : k \in Filled \/ k = num_avail_elements
      /\ Filled \subseteq Filled' /\ num_avail_elements \in Filled'
      /\ \A k \in Filled' : k \in 0..bufsize
  BY <1>1 DEF Filled
<1>7. head' = Slot(num_avail_elements + 1)
  BY <1>1, <1>3, AdvanceStep DEF Slot
<1>8. \A k \in Filled : buffer[Slot(k)] # p
  BY DEF Ring
<1>9. RingInv'
  <2>1. head' = Slot(num_avail_elements)'
    BY <1>1, <1>2, <1>7
  <2>2. \A k \in Filled' : buffer'[Slot(k)'] \in Items
    BY <1>2, <1>5, <1>6 DEF RingInv
  <2>3. \A j, k \in Filled' : buffer'[Slot(j)'] = buffer'[Slot(k)'] => j = k
    BY <1>2, <1>5, <1>6, <1>8 DEF RingInv
  <2>4. QED
    BY <2>1, <2>2, <2>3 DEF RingInv
<1>10. Ring' = Ring \cup {p}
  BY <1>2, <1>5, <1>6 DEF Ring
<1>11. num_avail_elements > 0 => buffer'[tail'] = buffer[tail]
  BY <1>1, <1>4, <1>5, Slots DEF Filled
<1>12. buffer'[Slot(num_avail_elements - 1)'] = p
  BY <1>1, <1>2, <1>5
<1>13. /\ buffer' \in [0..(bufsize - 1) -> Items \cup {None}]
       /\ head' \in 0..(bufsize - 1) /\ tail' \in 0..(bufsize - 1)
       /\ num_avail_elements' \in 0..bufsize /\ num_avail_elements' > 0
  BY <1>1, AdvanceStep
<1>14. QED
  BY <1>1, <1>9, <1>10, <1>11, <1>12, <1>13

\* Moving the tail takes the first item out.
LEMMA MoveRing ==
  ASSUME TypeOK, RingInv, num_avail_elements > 0,
         tail' = Advance(tail), num_avail_elements' = num_avail_elements - 1,
         UNCHANGED <<buffer, head>>
  PROVE  /\ RingInv'
         /\ Ring' = Ring \ {buffer[tail]}
         /\ buffer[tail] \in Ring /\ buffer[tail] \in Items
         /\ tail' \in 0..(bufsize - 1) /\ num_avail_elements' \in 0..bufsize
         /\ num_avail_elements' > 0 =>
              Slot(num_avail_elements - 1)' = Slot(num_avail_elements - 1)
<1>1. /\ num_avail_elements \in 1..bufsize
      /\ tail \in 0..(bufsize - 1)
      /\ bufsize \in Nat \ {0}
  BY Bounds DEF TypeOK
<1>2. \A k \in 0..(bufsize - 1) : Slot(k)' = Slot(k + 1) /\ tail' \in 0..(bufsize - 1)
  BY <1>1, AdvanceStep DEF Slot
<1>3. /\ \A k \in Filled' : k \in 0..(bufsize - 1) /\ k + 1 \in Filled /\ k \in Int
      /\ 0 \in Filled
      /\ \A k \in Filled : k = 0 \/ (k - 1 \in Filled' /\ k = (k - 1) + 1)
  BY <1>1 DEF Filled
<1>4. \A k \in Filled' : buffer'[Slot(k)'] = buffer[Slot(k + 1)]
  BY <1>2, <1>3
<1>5. buffer[Slot(0)] = buffer[tail]
  BY Slots
<1>6. RingInv'
  <2>1. head' = Slot(num_avail_elements)'
    BY <1>1, <1>2 DEF RingInv, Slot
  <2>2. \A k \in Filled' : buffer'[Slot(k)'] \in Items
    BY <1>3, <1>4 DEF RingInv
  <2>3. \A j, k \in Filled' : buffer'[Slot(j)'] = buffer'[Slot(k)'] => j = k
    BY <1>3, <1>4 DEF RingInv
  <2>4. QED
    BY <2>1, <2>2, <2>3 DEF RingInv
<1>7. Ring' = Ring \ {buffer[tail]}
  <2>1. ASSUME NEW k \in Filled'
        PROVE  buffer'[Slot(k)'] \in Ring \ {buffer[tail]}
    <3>1. buffer[Slot(k + 1)] # buffer[Slot(0)]
      BY <1>3, <2>1 DEF RingInv
    <3>2. QED
      BY <1>3, <1>4, <1>5, <2>1, <3>1 DEF Ring
  <2>2. ASSUME NEW k \in Filled, buffer[Slot(k)] # buffer[tail]
        PROVE  buffer[Slot(k)] \in Ring'
    <3>1. k - 1 \in Filled' /\ k = (k - 1) + 1
      BY <1>3, <1>5, <2>2
    <3>2. buffer'[Slot(k - 1)'] = buffer[Slot(k)]
      BY <1>4, <3>1
    <3>3. QED
      BY <3>1, <3>2 DEF Ring
  <2>3. QED
    BY <2>1, <2>2 DEF Ring
<1>8. buffer[tail] \in Ring /\ buffer[tail] \in Items
  BY <1>3, <1>5 DEF Ring, RingInv
<1>9. num_avail_elements' > 0 => Slot(num_avail_elements - 1)' = Slot(num_avail_elements - 1)
  BY <1>1, <1>2
<1>10. QED
  BY <1>1, <1>2, <1>6, <1>7, <1>8, <1>9

-----------------------------------------------------------------------------
(* What each part of the invariant depends on: a step that leaves that      *)
(* alone preserves the part.                                                *)

LEMMA StreamFrame ==
  ASSUME StreamInv, UNCHANGED <<streamVars, num_exit_flag, recv_exit>>, stored \subseteq stored'
  PROVE  StreamInv' /\ AnnouncedBlocks' = AnnouncedBlocks
BY DEF StreamInv, AnnouncedBlocks, Closed, streamVars

LEMMA ReceiverFrame ==
  ASSUME ReceiverInv, UNCHANGED <<receiver_pc, recv_item, recv_ids, recv_exit>>,
         reader_exit => reader_exit'
  PROVE  ReceiverInv'
BY DEF ReceiverInv

LEMMA IdFrame ==
  ASSUME IdInv, UNCHANGED <<idVars, recv_ids>>, AnnouncedBlocks \subseteq AnnouncedBlocks'
  PROVE  IdInv'
BY DEF IdInv, idVars

LEMMA ReaderFrame ==
  ASSUME ReaderInv, UNCHANGED <<reader_pc, reader_item>>,
         AnnouncedBlocks \subseteq AnnouncedBlocks', on_disk \subseteq on_disk'
  PROVE  ReaderInv'
BY DEF ReaderInv

LEMMA RingFrame ==
  ASSUME RingInv, UNCHANGED crbVars
  PROVE  RingInv' /\ Ring' = Ring /\ (num_avail_elements > 0 =>
            num_avail_elements' > 0 /\ buffer'[tail'] = buffer[tail])
<1>1. Filled' = Filled /\ \A k : Slot(k)' = Slot(k)
  BY DEF Filled, Slot, crbVars
<1>2. QED
  BY <1>1 DEF RingInv, Ring, crbVars, Slot

\* The block at the tail stays there.
TailStays == num_avail_elements > 0 => num_avail_elements' > 0 /\ buffer'[tail'] = buffer[tail]

LEMMA ConsumerFrame ==
  ASSUME ConsumerInv, TailStays, UNCHANGED <<consumerVars, freed>>,
         calc_done' \cap Blocks = calc_done \cap Blocks
  PROVE  ConsumerInv' /\ Left' = Left
BY DEF ConsumerInv, Left, consumerVars, TailStays

LEMMA WriterFrame ==
  ASSUME WriterInv, TailStays, UNCHANGED <<writerVars, on_disk>>, Left' = Left,
         stored \subseteq stored'
  PROVE  WriterInv'
BY DEF WriterInv, writerVars, TailStays

LEMMA PlaceFrame ==
  ASSUME PlaceInv, Ring' = Ring, Left' = Left,
         UNCHANGED <<recv_item, recv_ids, idVars, reader_item, pending, phase>>
  PROVE  PlaceInv'
BY DEF PlaceInv, InReceiver, InArray, InReaders, HandedOver, idVars

LEMMA EndFrame ==
  ASSUME EndInv, UNCHANGED <<reader_exit, recv_exit, recv_avail, reader_item, receiver_pc, crbVars>>
  PROVE  EndInv'
BY DEF EndInv, crbVars, Slot

-----------------------------------------------------------------------------
(* The parts CoreInv collects, by themselves: LammpsAnalysisProofs uses     *)
(* this section and the next two for the actions both copies have.          *)

LEMMA CoreOf == ASSUME AnalysisInv PROVE CoreInv
BY DEF AnalysisInv, CoreInv, PlaceInv

\* A step that leaves the streams, the CRB and what is held behind it alone.
LEMMA CoreFrame ==
  ASSUME CoreInv, TypeOK', ReceiverInv',
         UNCHANGED <<streamVars, num_exit_flag, recv_exit, crbVars, stateVars, consumerVars,
                     writer_item, freed>>,
         stored \subseteq stored',
         \A w \in Writers : writer_pc'[w] \in {"write", "mark"} <=> writer_pc[w] \in {"write", "mark"},
         \A w \in Writers : writer_pc'[w] = "mark" => writer_pc[w] = "mark"
  PROVE  CoreInv' /\ Ring' = Ring /\ Left' = Left /\ AnnouncedBlocks' = AnnouncedBlocks
<1> USE DEF CoreInv
<1>1. StreamInv' /\ AnnouncedBlocks' = AnnouncedBlocks
  BY StreamFrame
<1>2. RingInv' /\ Ring' = Ring /\ TailStays
  BY RingFrame DEF TailStays
<1>3. ConsumerInv' /\ Left' = Left
  BY <1>2, ConsumerFrame DEF stateVars
<1>4. WriterInv'
  BY <1>2, <1>3 DEF WriterInv, stateVars, TailStays
<1>5. QED
  BY <1>1, <1>2, <1>3, <1>4

\* The item at the tail is in the CRB, and has not been released.
LEMMA TailItem ==
  ASSUME CoreInv, num_avail_elements > 0
  PROVE  buffer[tail] \in Ring /\ buffer[tail] \in Items /\ buffer[tail] \notin Left
<1>1. 0 \in Filled /\ Slot(0) = tail
  BY Slots DEF CoreInv, TypeOK, Filled
<1>2. buffer[tail] \in Ring /\ buffer[tail] \in Items
  BY <1>1 DEF Ring, RingInv, CoreInv
<1>3. QED
  BY <1>2 DEF CoreInv

\* The CRB holds every item once.
LEMMA RingCount ==
  ASSUME TypeOK, RingInv
  PROVE  InRing = Ring /\ Cardinality(Ring) = num_avail_elements
<1>1. InRing = Ring
  BY RingIsInRing
<1>2. /\ num_avail_elements \in Nat
      /\ \A k \in Filled : buffer[Slot(k)] \in Ring
      /\ \A j, k \in Filled : buffer[Slot(j)] = buffer[Slot(k)] => j = k
  BY DEF TypeOK, Ring, RingInv
<1>3. IsFiniteSet(Filled) /\ Cardinality(Filled) = num_avail_elements
  BY <1>2, FS_Interval DEF Filled
<1> DEFINE f == [k \in Filled |-> buffer[Slot(k)]]
<1>4. f \in Bijection(Filled, Ring)
  <2>1. f \in [Filled -> Ring]
    BY <1>2
  <2>2. \A j, k \in Filled : f[j] = f[k] => j = k
    BY <1>2
  <2>3. \A x \in Ring : \E k \in Filled : f[k] = x
    BY DEF Ring
  <2> HIDE DEF f
  <2>4. f \in Injection(Filled, Ring)
    BY <2>1, <2>2 DEF Injection, IsInjective
  <2>5. f \in Surjection(Filled, Ring)
    BY <2>1, <2>3 DEF Surjection
  <2>6. QED
    BY <2>4, <2>5 DEF Bijection
<1> HIDE DEF f
<1>5. QED
  BY <1>1, <1>3, <1>4, FS_Bijection DEF ExistsBijection

\* Behind the receiver and the readers nobody holds what was released, if
\* there is at most one analysis writer.
LEMMA NotAfterFree ==
  ASSUME SingleWriter, CoreInv
  PROVE  /\ freed \subseteq Left /\ None \notin freed
         /\ freed \cap (Range(writer_item) \ {None}) = {}
         /\ consumer_pc # "read" => pointer \notin freed
<1>1. freed \subseteq Left /\ None \notin freed
  BY ItemKinds DEF CoreInv, TypeOK, Left
<1>2. freed \cap (Range(writer_item) \ {None}) = {}
  <2>1. ASSUME NEW w \in Writers, writer_item[w] # None PROVE writer_item[w] \notin freed
    BY <1>1, <2>1, TailItem DEF CoreInv, WriterInv
  <2>2. DOMAIN writer_item = Writers
    BY DEF CoreInv, TypeOK
  <2>3. QED
    BY <2>1, <2>2 DEF Range
<1>3. ASSUME consumer_pc # "read" PROVE pointer \notin freed
  <2>1. CASE consumer_pc \in {"quit", "signal", "done"}
    BY <1>1, <2>1 DEF CoreInv, ConsumerInv
  <2>2. CASE consumer_pc \in {"calc", "mark", "move"}
    BY <1>1, <2>2, TailItem DEF CoreInv, ConsumerInv
  <2>3. CASE consumer_pc = "free"
    BY <2>3 DEF CoreInv, ConsumerInv
  <2>4. QED
    BY <1>3, <2>1, <2>2, <2>3 DEF CoreInv, TypeOK
<1>4. QED
  BY <1>1, <1>2, <1>3

LEMMA PairsOf ==
  ASSUME NEW s, NEW S
  PROVE  {s} \X S = {<<s, b>> : b \in S}
  OBVIOUS

\* A message lists each of its identifiers once.
LEMMA ListingOf ==
  ASSUME NEW s \in Sources, NEW S \in SUBSET (0..(cpt_total_blks - 1)), NEW q \in Listings(s, S)
  PROVE  /\ q \in Seq(Blocks)
         /\ Range(q) = {s} \X S
         /\ IsInjective(q)
<1> DEFINE n == Cardinality(S)
<1>1. IsFiniteSet(S) /\ n \in Nat
  <2>1. IsFiniteSet(0..(cpt_total_blks - 1))
    BY FS_Interval, Bounds
  <2>2. IsFiniteSet(S)
    BY <2>1, FS_Subset
  <2>3. QED
    BY <2>2, FS_CardinalityType
<1>2. PICK f \in [1..n -> S] : IsInjective(f) /\ q = [k \in DOMAIN f |-> <<s, f[k]>>]
  BY DEF Listings
<1>3. IsFiniteSet(1..n) /\ Cardinality(1..n) = n
  BY <1>1, FS_Interval
<1> HIDE DEF n
<1>4. f \in Injection(1..n, S)
  BY <1>2 DEF Injection
<1>5. f \in Surjection(1..n, S)
  <2>1. Cardinality(1..n) = Cardinality(S)
    BY <1>3 DEF n
  <2>2. Cardinality(1..n) = Cardinality(S) <=> f \in Surjection(1..n, S)
    BY <1>1, <1>4, FS_Injection
  <2>3. QED
    BY <2>1, <2>2
<1>6. /\ DOMAIN q = 1..n /\ DOMAIN f = 1..n
      /\ \A k \in 1..n : q[k] = <<s, f[k]>> /\ f[k] \in S
      /\ \A b \in S : \E k \in 1..n : f[k] = b
  BY <1>2, <1>5 DEF Surjection
<1>7. q \in Seq(Blocks)
  <2>1. \A k \in 1..n : <<s, f[k]>> \in Blocks
    BY <1>6 DEF Blocks
  <2>2. q = [k \in 1..n |-> <<s, f[k]>>]
    BY <1>2, <1>6
  <2>3. q \in [1..n -> Blocks]
    BY <2>1, <2>2
  <2>4. QED
    BY <1>1, <2>3
<1>8. Range(q) = {s} \X S
  <2>1. Range(q) = {<<s, f[k]>> : k \in 1..n}
    BY <1>6 DEF Range
  <2>2. {s} \X S = {<<s, b>> : b \in S}
    BY PairsOf
  <2>3. {<<s, f[k]>> : k \in 1..n} = {<<s, b>> : b \in S}
    BY <1>6
  <2>4. QED
    BY <2>1, <2>2, <2>3
<1>9. IsInjective(q)
  <2>1. \A a, b \in 1..n : q[a] = q[b] => f[a] = f[b]
    BY <1>6
  <2>2. \A a, b \in 1..n : f[a] = f[b] => a = b
    BY <1>2, <1>6 DEF IsInjective
  <2>3. QED
    BY <1>6, <2>1, <2>2 DEF IsInjective
<1>10. QED
  BY <1>7, <1>8, <1>9

LEMMA RangeOfSeq ==
  ASSUME NEW T, NEW q \in Seq(T)
  PROVE  /\ Range(<<>>) = {}
         /\ Range(q) = {} => q = <<>>
         /\ Range(q) = {q[k] : k \in 1..Len(q)}
<1>1. Len(q) \in Nat /\ DOMAIN q = 1..Len(q)
  OBVIOUS
<1>2. Range(q) = {q[k] : k \in 1..Len(q)}
  BY <1>1 DEF Range
<1>3. Range(q) = {} => Len(q) = 0
  <2>1. Len(q) > 0 => q[1] \in Range(q)
    BY <1>1, <1>2
  <2>2. QED
    BY <1>1, <2>1
<1>4. Range(<<>>) = {}
  BY DEF Range
<1>5. Len(q) = 0 => q = <<>>
  OBVIOUS
<1>6. QED
  BY <1>2, <1>3, <1>4, <1>5

\* The blocks H of source s are handed over, S of them announced; x is the
\* one in memory, if any.
HandsOver(s, H, S, x) ==
  /\ receiver_pc = "recv"
  /\ phase[s] = "open"
  /\ Cardinality(announced[s] \cup S) <= writer_blk_num
  /\ x # None => x \in Blocks \ ({s} \X S)
  /\ ({x} \ {None}) \cup ({s} \X S) = {s} \X H
  /\ pending' = [pending EXCEPT ![s] = @ \ H]
  /\ announced' = [announced EXCEPT ![s] = @ \cup S]
  /\ stored' = stored \cup ({s} \X S)
  /\ recv_item' = x
  /\ recv_ids' \in Listings(s, S)
  /\ receiver_pc' = IF x # None /\ S = {} THEN "put" ELSE "ids"
  /\ UNCHANGED <<phase, num_exit_flag, idVars, id_lock, exitVars, readerVars, crbVars,
                 stateVars, consumerVars, writerVars, waiting, freed>>

\* What such a message does to the parts CoreInv collects, and to the sets of
\* items the rest of the invariants is about.
LEMMA HandsOverCore ==
  ASSUME CoreInv, NEW s \in Sources, NEW H \in SUBSET pending[s], NEW S \in SUBSET H,
         NEW x, HandsOver(s, H, S, x)
  PROVE  /\ CoreInv' /\ Ring' = Ring /\ Left' = Left
         /\ recv_item = None /\ recv_ids = <<>> /\ ~recv_exit
         /\ x \in Blocks \cup {None}
         /\ recv_ids' \in Seq(Blocks) /\ Range(recv_ids') = {s} \X S /\ IsInjective(recv_ids')
         /\ AnnouncedBlocks' = AnnouncedBlocks \cup ({s} \X S)
         /\ AnnouncedBlocks \cap ({s} \X H) = {}
         /\ HandedOver' = HandedOver \cup ({s} \X H) /\ HandedOver \cap ({s} \X H) = {}
<1> USE DEF CoreInv, HandsOver
<1>1. /\ pending \in [Sources -> SUBSET (0..(cpt_total_blks - 1))]
      /\ announced \in [Sources -> SUBSET (0..(cpt_total_blks - 1))]
      /\ H \subseteq 0..(cpt_total_blks - 1) /\ S \subseteq 0..(cpt_total_blks - 1)
      /\ recv_item = None /\ recv_ids = <<>> /\ ~recv_exit
  BY DEF TypeOK, ReceiverInv
<1>2. /\ recv_ids' \in Seq(Blocks)
      /\ Range(recv_ids') = {s} \X S
      /\ IsInjective(recv_ids')
  BY <1>1, ListingOf
<1>3. /\ {s} \X S \subseteq Blocks /\ {s} \X H \subseteq Blocks
      /\ x \in Items \cup {None} /\ x \in Blocks \cup {None}
  <2>1. {s} \X H \subseteq Blocks
    BY <1>1 DEF Blocks
  <2>2. QED
    BY <2>1 DEF Items
<1>4. AnnouncedBlocks' = AnnouncedBlocks \cup ({s} \X S)
  <2>1. ASSUME NEW p \in Blocks
        PROVE  p[2] \in announced'[p[1]] <=> p[2] \in announced[p[1]] \/ (p[1] = s /\ p[2] \in S)
    <3>1. p[1] \in Sources
      BY ItemKinds DEF Items
    <3>2. QED
      BY <1>1, <3>1
  <2>2. \A p \in Blocks : p \in {s} \X S <=> p[1] = s /\ p[2] \in S
    BY DEF Blocks
  <2>3. QED
    BY <1>3, <2>1, <2>2 DEF AnnouncedBlocks
<1>5. TypeOK'
  <2>1. /\ pending' \in [Sources -> SUBSET (0..(cpt_total_blks - 1))]
        /\ announced' \in [Sources -> SUBSET (0..(cpt_total_blks - 1))]
    BY <1>1
  <2>2. stored' \subseteq Blocks /\ recv_item' \in Items \cup {None}
    BY <1>3 DEF TypeOK
  <2>3. QED
    BY <1>2, <2>1, <2>2 DEF TypeOK, idVars, exitVars, readerVars, crbVars, stateVars, consumerVars,
       writerVars
<1>6. StreamInv'
  <2>1. ASSUME NEW t \in Sources
        PROVE  /\ announced'[t] \cap pending'[t] = {}
               /\ Cardinality(announced'[t]) <= writer_blk_num
               /\ phase[t] = "closed" => pending'[t] = {}
    BY <1>1 DEF StreamInv
  <2>2. AnnouncedBlocks' \subseteq stored'
    BY <1>4 DEF StreamInv
  <2>3. QED
    BY <2>1, <2>2 DEF StreamInv, Closed, exitVars
<1>7. ReceiverInv'
  <2>1. S = {} => recv_ids' = <<>>
    BY <1>2, RangeOfSeq
  <2>2. x \notin Range(recv_ids')
    BY <1>2, <1>3, ItemKinds DEF Items
  <2>3. receiver_pc' \in {"put", "ids"} /\ (receiver_pc' = "put" => x # None /\ S = {})
    OBVIOUS
  <2>4. ~recv_exit' /\ recv_item' = x
    BY <1>1 DEF exitVars
  <2> HIDE DEF HandsOver, CoreInv
  <2>5. QED
    BY <1>3, <2>1, <2>2, <2>3, <2>4 DEF ReceiverInv
<1>8. RingInv' /\ Ring' = Ring /\ TailStays
  BY RingFrame DEF TailStays
<1>9. ConsumerInv' /\ Left' = Left
  BY <1>8, ConsumerFrame DEF stateVars
<1>10. WriterInv'
  BY <1>8, <1>9, WriterFrame DEF stateVars
<1>11. AnnouncedBlocks \cap ({s} \X H) = {}
  BY <1>1 DEF StreamInv, AnnouncedBlocks
<1>12. HandedOver' = HandedOver \cup ({s} \X H) /\ HandedOver \cap ({s} \X H) = {}
  <2>1. ASSUME NEW p \in Items
        PROVE  /\ p \in HandedOver' <=> p \in HandedOver \/ p \in {s} \X H
               /\ ~(p \in HandedOver /\ p \in {s} \X H)
    <3>1. CASE p \in Exits
      <4>1. IsExit(p) /\ p \notin {s} \X H
        BY <1>3, <3>1, ItemKinds
      <4>2. QED
        BY <4>1 DEF HandedOver
    <3>2. CASE p \in Blocks
      <4>1. ~IsExit(p) /\ p[1] \in Sources /\ (p \in {s} \X H <=> p[1] = s /\ p[2] \in H)
        BY <3>2, ItemKinds DEF Blocks
      <4>2. p[2] \notin pending'[p[1]] <=> p[2] \notin pending[p[1]] \/ (p[1] = s /\ p[2] \in H)
        BY <1>1, <4>1
      <4>3. QED
        BY <4>1, <4>2 DEF HandedOver
    <3>3. QED
      BY <3>1, <3>2 DEF Items
  <2>2. {s} \X H \subseteq Items
    BY <1>3 DEF Items
  <2>3. HandedOver \subseteq Items /\ HandedOver' \subseteq Items
    BY DEF HandedOver
  <2>4. QED
    BY <2>1, <2>2, <2>3
<1> HIDE DEF HandsOver
<1>13. QED
  BY <1>1, <1>2, <1>3, <1>4, <1>5, <1>6, <1>7, <1>8, <1>9, <1>10, <1>11, <1>12

\* A message with a block hands over that block and what it announces.
LEMMA ReceiveBlockHands ==
  ASSUME TypeOK, NEW s \in Sources, ReceiveBlock(s)
  PROVE  \E H \in SUBSET pending[s] : \E S \in SUBSET H : \E x \in Blocks : HandsOver(s, H, S, x)
<1>1. PICK b \in pending[s], S \in SUBSET pending[s] :
        /\ S \subseteq pending[s] \ {b}
        /\ MayHandOver(writer_blk_num, pending[s], announced[s], phase[s], b, S)
        /\ pending' = [pending EXCEPT ![s] = @ \ ({b} \cup S)]
        /\ announced' = [announced EXCEPT ![s] = @ \cup S]
        /\ stored' = stored \cup ({s} \X S)
        /\ recv_item' = <<s, b>>
        /\ recv_ids' \in Listings(s, S)
        /\ receiver_pc' = IF S = {} THEN "put" ELSE "ids"
  BY DEF ReceiveBlock
<1> DEFINE H == {b} \cup S
<1>2. pending[s] \subseteq 0..(cpt_total_blks - 1)
  BY DEF TypeOK
<1>3. <<s, b>> \in Blocks /\ <<s, b>> # None /\ <<s, b>> \notin {s} \X S
  <2>1. b \in 0..(cpt_total_blks - 1) /\ b \notin S
    BY <1>1, <1>2
  <2>2. <<s, b>> \in Blocks
    BY <2>1, ItemKinds
  <2>3. <<s, b>> # None
    BY <2>2, ItemKinds DEF Items
  <2>4. QED
    BY <2>1, <2>2, <2>3
<1>4. ({<<s, b>>} \ {None}) \cup ({s} \X S) = {s} \X H
  BY <1>3
<1>5. H \in SUBSET pending[s] /\ S \in SUBSET H
  OBVIOUS
<1>6. HandsOver(s, H, S, <<s, b>>)
  BY <1>1, <1>3, <1>4 DEF ReceiveBlock, HandsOver, MayHandOver
<1>7. QED
  BY <1>3, <1>5, <1>6

\* A pure disk message hands over whatever is left.
LEMMA ReceiveDiskHands ==
  ASSUME CoreInv, NEW s \in Sources, ReceiveDisk(s)
  PROVE  HandsOver(s, pending[s], pending[s], None)
<1>1. recv_item = None /\ pending \in [Sources -> SUBSET (0..(cpt_total_blks - 1))]
  BY DEF CoreInv, ReceiverInv, ReceiveDisk, TypeOK
<1>2. [pending EXCEPT ![s] = {}] = [pending EXCEPT ![s] = @ \ pending[s]]
  BY <1>1
<1>3. QED
  BY <1>1, <1>2 DEF ReceiveDisk, HandsOver, MayFlush

\* Within a quota of nothing nothing is announced.
LEMMA EmptyQuota ==
  ASSUME reader_blk_num = 0, NEW A \in SUBSET (0..(cpt_total_blks - 1)),
         Cardinality(A) <= writer_blk_num
  PROVE  A = {}
<1>1. writer_blk_num = 0
  BY Bounds
<1>2. IsFiniteSet(0..(cpt_total_blks - 1))
  <2>1. 0 \in Int /\ cpt_total_blks - 1 \in Int
    BY Bounds
  <2>2. QED
    BY <2>1, FS_Interval
<1>3. IsFiniteSet(A)
  BY <1>2, FS_Subset
<1>4. Cardinality(A) \in Nat
  BY <1>3, FS_CardinalityType
<1>5. Cardinality(A) = 0
  BY <1>1, <1>4
<1>6. QED
  BY <1>3, <1>5, FS_EmptySet

LEMMA NothingAnnounced ==
  ASSUME CoreInv, reader_blk_num = 0
  PROVE  AnnouncedBlocks = {}
<1>1. ASSUME NEW t \in Sources PROVE announced[t] = {}
  BY EmptyQuota DEF CoreInv, TypeOK, StreamInv
<1>2. QED
  BY <1>1, ItemKinds DEF AnnouncedBlocks, Items

\* An EXIT message; the last one takes the receiver to pc.
ExitTaken(s, pc) ==
  /\ receiver_pc = "recv"
  /\ MayClose(pending[s], phase[s])
  /\ phase' = [phase EXCEPT ![s] = "closed"]
  /\ num_exit_flag' = num_exit_flag + 1
  /\ recv_item' = <<s, EXIT_BLK_ID>>
  /\ on_disk' = on_disk \cup {<<s, EXIT_BLK_ID>>}
  /\ calc_done' = calc_done \cup {<<s, EXIT_BLK_ID>>}
  /\ recv_exit' = (recv_exit \/ num_exit_flag + 1 = computer_group_size)
  /\ receiver_pc' = IF num_exit_flag + 1 = computer_group_size THEN pc ELSE "put"
  /\ UNCHANGED <<pending, announced, recv_ids, idVars, id_lock, reader_exit, ana_writer_exit,
                 readerVars, crbVars, consumerVars, writerVars, waiting, freed, stored>>

LEMMA ExitCore ==
  ASSUME CoreInv, NEW s \in Sources, NEW pc \in {"signal", "spin"}, ExitTaken(s, pc)
  PROVE  /\ CoreInv' /\ Ring' = Ring /\ Left' = Left /\ AnnouncedBlocks' = AnnouncedBlocks
         /\ recv_item = None /\ recv_ids = <<>> /\ ~recv_exit
         /\ recv_item' \in Exits /\ recv_item' # None
         /\ HandedOver' = HandedOver \cup {recv_item'} /\ recv_item' \notin HandedOver
<1> USE DEF CoreInv, ExitTaken, MayClose
<1> DEFINE x == <<s, EXIT_BLK_ID>>
<1>1. /\ recv_item = None /\ recv_ids = <<>> /\ ~recv_exit
      /\ phase \in [Sources -> {"open", "closed"}]
      /\ x \in Exits /\ x \in Items /\ x # None /\ x \notin Blocks
      /\ recv_item' = x
  BY ItemKinds DEF ReceiverInv, TypeOK, Items
<1>2. /\ Closed' = Closed \cup {s} /\ s \notin Closed
      /\ Closed \subseteq Sources /\ Closed' \subseteq Sources
  BY <1>1 DEF Closed
<1>3. num_exit_flag' = Cardinality(Closed')
  BY <1>2, GroupSize, FS_AddElement DEF StreamInv
<1>4. num_exit_flag' \in 0..computer_group_size /\ num_exit_flag' = num_exit_flag + 1
  BY <1>2, <1>3, GroupSize
<1> HIDE DEF x
<1>5. TypeOK'
  <2>1. /\ phase' \in [Sources -> {"open", "closed"}]
        /\ recv_item' \in Items \cup {None}
        /\ on_disk' \subseteq Items /\ calc_done' \subseteq Items
        /\ recv_exit' \in BOOLEAN
        /\ receiver_pc' \in {"recv", "ids", "put", "signal", "spin", "done"}
    BY <1>1 DEF TypeOK, x
  <2>2. QED
    BY <1>4, <2>1 DEF TypeOK, idVars, readerVars, crbVars, consumerVars, writerVars
<1>6. AnnouncedBlocks' = AnnouncedBlocks
  BY DEF AnnouncedBlocks
<1>7. StreamInv'
  <2>1. \A t \in Sources : phase'[t] = "closed" => pending[t] = {}
    BY <1>1 DEF StreamInv
  <2>2. recv_exit' <=> num_exit_flag' = computer_group_size
    BY <1>1, <1>4
  <2>3. QED
    BY <1>3, <1>6, <2>1, <2>2 DEF StreamInv
<1>8. ReceiverInv'
  BY <1>1, <1>4 DEF ReceiverInv, x
<1>9. RingInv' /\ Ring' = Ring /\ TailStays
  BY RingFrame DEF TailStays
<1>10. ConsumerInv' /\ Left' = Left
  <2>1. calc_done' \cap Blocks = calc_done \cap Blocks
    BY <1>1 DEF x
  <2>2. QED
    BY <1>9, <2>1, ConsumerFrame
<1>11. WriterInv'
  <2>1. /\ on_disk \subseteq on_disk' /\ on_disk' \cap Blocks = on_disk \cap Blocks
        /\ \A p \in Blocks : p \in on_disk' => p \in on_disk
    BY <1>1 DEF x
  <2>2. UNCHANGED <<writer_pc, writer_item, stored>> /\ Left' = Left
    BY <1>10 DEF writerVars
  <2> HIDE DEF ExitTaken
  <2>3. QED
    BY <1>9, <2>1, <2>2, ItemKinds DEF WriterInv, TailStays, Items
<1>12. HandedOver' = HandedOver \cup {x} /\ x \notin HandedOver
  <2>1. x \in Items /\ IsExit(x) /\ x[1] = s
    BY <1>1, ItemKinds DEF x
  <2>2. \A p \in Items : IsExit(p) /\ p[1] = s => p = x
    BY DEF Items, Blocks, Exits, IsExit, x, EXIT_BLK_ID
  <2>3. \A p \in Items : p[1] \in Sources
    BY ItemKinds
  <2>4. phase'[s] = "closed" /\ \A t \in Sources : t # s => phase'[t] = phase[t]
    BY <1>1
  <2>5. pending' = pending /\ phase[s] = "open"
    OBVIOUS
  <2> HIDE DEF ExitTaken, CoreInv
  <2>6. \A p \in Items : p \in HandedOver' <=> p \in HandedOver \/ p = x
    BY <2>1, <2>2, <2>3, <2>4, <2>5 DEF HandedOver
  <2>7. HandedOver \subseteq Items /\ HandedOver' \subseteq Items
    BY DEF HandedOver
  <2>8. x \notin HandedOver
    BY <2>1, <2>5 DEF HandedOver
  <2>9. QED
    BY <2>1, <2>6, <2>7, <2>8
<1> HIDE DEF ExitTaken
<1>13. QED
  BY <1>1, <1>5, <1>6, <1>7, <1>8, <1>9, <1>10, <1>11, <1>12

\* The receiver waits for the readers.
LEMMA WaitForReaderCore ==
  ASSUME CoreInv, SignalReader \/ ReaderExitSeen
  PROVE  CoreInv' /\ Ring' = Ring /\ Left' = Left /\ AnnouncedBlocks' = AnnouncedBlocks
<1>1. /\ UNCHANGED <<streamVars, recv_item, recv_ids, num_exit_flag, idVars, id_lock, exitVars,
                     readerVars, crbVars, stateVars, consumerVars, writerVars, freed, stored>>
      /\ waiting' \subseteq waiting
      /\ \/ receiver_pc = "signal" /\ receiver_pc' = "spin"
         \/ receiver_pc = "spin" /\ reader_exit /\ receiver_pc' = "put"
  BY DEF SignalReader, ReaderExitSeen
<1>2. TypeOK'
  BY <1>1 DEF CoreInv, TypeOK, streamVars, idVars, exitVars, readerVars, crbVars, stateVars,
     consumerVars, writerVars
<1>3. ReceiverInv'
  BY <1>1 DEF CoreInv, ReceiverInv, exitVars
<1>4. QED
  BY <1>1, <1>2, <1>3, CoreFrame DEF exitVars, writerVars

\* The receiver puts what it holds behind the others.
LEMMA ReceiverPutCore ==
  ASSUME CoreInv, ReceiverPut, recv_item \notin Ring \cup Left
  PROVE  /\ CoreInv' /\ Ring' = Ring \cup {recv_item} /\ Left' = Left
         /\ AnnouncedBlocks' = AnnouncedBlocks
         /\ recv_item \in Items /\ recv_item # None /\ recv_ids = <<>>
         /\ recv_exit => recv_item \in Exits /\ reader_exit
         /\ buffer'[Slot(num_avail_elements - 1)'] = recv_item
<1> USE DEF CoreInv, ReceiverPut
<1>1. /\ recv_item \in Items /\ recv_item # None /\ recv_ids = <<>>
      /\ Put(recv_item)
      /\ recv_exit => recv_item \in Exits /\ reader_exit
  BY ItemKinds DEF TypeOK, ReceiverInv
<1>2. /\ RingInv' /\ Ring' = Ring \cup {recv_item} /\ TailStays
      /\ buffer' \in [0..(bufsize - 1) -> Items \cup {None}]
      /\ head' \in 0..(bufsize - 1) /\ tail' \in 0..(bufsize - 1)
      /\ num_avail_elements' \in 0..bufsize
      /\ buffer'[Slot(num_avail_elements - 1)'] = recv_item
      /\ waiting' \subseteq waiting
  <2>1. TypeOK /\ RingInv /\ recv_item \notin Ring
    OBVIOUS
  <2> HIDE DEF CoreInv, ReceiverPut
  <2>2. QED
    BY <1>1, <2>1, PutRing DEF TailStays
<1>3. TypeOK'
  <2>1. recv_item' \in Items \cup {None} /\ waiting' \in SUBSET Threads
        /\ receiver_pc' \in {"recv", "ids", "put", "signal", "spin", "done"}
    BY <1>2 DEF TypeOK
  <2>2. QED
    BY <1>2, <2>1 DEF TypeOK, streamVars, idVars, exitVars, readerVars, stateVars, consumerVars,
       writerVars
<1>4. StreamInv' /\ AnnouncedBlocks' = AnnouncedBlocks
  BY StreamFrame DEF exitVars
<1>5. ReceiverInv'
  BY <1>1 DEF ReceiverInv, exitVars
<1>6. ConsumerInv' /\ Left' = Left
  BY <1>2, ConsumerFrame DEF stateVars
<1>7. WriterInv'
  BY <1>2, <1>6, WriterFrame DEF stateVars
<1> HIDE DEF ReceiverPut
<1>8. QED
  BY <1>1, <1>2, <1>3, <1>4, <1>5, <1>6, <1>7

-----------------------------------------------------------------------------
(* The consumer and the analysis writers: from CoreInv alone.               *)

InputVars == <<streamVars, receiverVars, idVars, recv_exit, reader_exit, reader_pc, reader_item>>

\* A step of theirs keeps CoreInv; no item comes or goes; the last item of the
\* CRB stays the last; and nothing in front of the CRB changes.
OutputKept ==
  /\ CoreInv'
  /\ Ring' \cup Left' = Ring \cup Left
  /\ num_avail_elements' > 0 =>
       /\ num_avail_elements > 0
       /\ buffer'[Slot(num_avail_elements - 1)'] = buffer[Slot(num_avail_elements - 1)]
  /\ UNCHANGED InputVars
  /\ stored \subseteq stored' /\ on_disk \subseteq on_disk'

\* A step that leaves the streams and the receiver alone.
LEMMA InputFrame ==
  ASSUME CoreInv, UNCHANGED InputVars, stored \subseteq stored'
  PROVE  StreamInv' /\ ReceiverInv' /\ AnnouncedBlocks' = AnnouncedBlocks
<1>1. StreamInv' /\ AnnouncedBlocks' = AnnouncedBlocks
  BY StreamFrame DEF CoreInv, InputVars, receiverVars
<1>2. ReceiverInv'
  BY ReceiverFrame DEF CoreInv, InputVars, receiverVars
<1>3. QED
  BY <1>1, <1>2

\* When the CRB does not change, the three parts from there on are enough.
LEMMA OutputParts ==
  ASSUME CoreInv, TypeOK', UNCHANGED <<InputVars, crbVars>>, Left' = Left,
         stored \subseteq stored', on_disk \subseteq on_disk',
         RingInv' /\ Ring' = Ring /\ TailStays => ConsumerInv' /\ WriterInv'
  PROVE  OutputKept
<1>1. StreamInv' /\ ReceiverInv'
  BY InputFrame
<1>2. RingInv' /\ Ring' = Ring /\ TailStays
  BY RingFrame DEF CoreInv, TailStays
<1>3. ConsumerInv' /\ WriterInv'
  BY <1>2
<1>4. Ring' \cap Left' = {}
  BY <1>2 DEF CoreInv
<1>5. CoreInv'
  BY <1>1, <1>2, <1>3, <1>4 DEF CoreInv
<1>6. num_avail_elements' > 0 =>
        /\ num_avail_elements > 0
        /\ buffer'[Slot(num_avail_elements - 1)'] = buffer[Slot(num_avail_elements - 1)]
  BY DEF crbVars, Slot
<1>7. QED
  BY <1>2, <1>5, <1>6 DEF OutputKept

\* Steps that only move a thread on, put it to sleep or wake it.
LEMMA QuietOutput ==
  ASSUME CoreInv,
         \/ ConsumerWait
         \/ \E w \in Writers : WriterReadNull(w) \/ WriterWait(w) \/ WriterCheck(w)
         \/ SpuriousWakeup
  PROVE  OutputKept
<1> TypeOK
  BY DEF CoreInv
<1>1. ASSUME TypeOK',
             UNCHANGED <<InputVars, crbVars, stateVars, consumerVars, writer_item, freed, stored>>,
             \A w \in Writers : writer_pc'[w] \in {"write", "mark"} <=> writer_pc[w] \in {"write", "mark"},
             \A w \in Writers : writer_pc'[w] = "mark" => writer_pc[w] = "mark"
      PROVE  OutputKept
  <2>1. ReceiverInv'
    BY <1>1, InputFrame
  <2>2. CoreInv' /\ Left' = Left
    BY <1>1, <2>1, CoreFrame DEF InputVars, receiverVars
  <2>3. QED
    BY <1>1, <2>2, OutputParts DEF CoreInv, stateVars
<1>2. CASE ConsumerWait
  <2>1. TypeOK'
    BY <1>2 DEF TypeOK, ConsumerWait, Threads, streamVars, receiverVars, idVars, exitVars, readerVars,
       crbVars, stateVars, consumerVars, writerVars
  <2>2. QED
    BY <1>1, <1>2, <2>1 DEF ConsumerWait, InputVars, exitVars, readerVars, writerVars
<1>3. ASSUME NEW w \in Writers, WriterReadNull(w) \/ WriterWait(w) \/ WriterCheck(w)
      PROVE  OutputKept
  <2>1. /\ UNCHANGED <<streamVars, receiverVars, idVars, id_lock, exitVars, readerVars,
                       crbVars, stateVars, consumerVars, writer_item, freed, stored>>
        /\ waiting' \subseteq waiting \cup {w}
        /\ \E pc \in {"done", "read"} :
             \/ writer_pc' = [writer_pc EXCEPT ![w] = pc] /\ writer_pc[w] \notin {"write", "mark"}
             \/ writer_pc' = writer_pc
    BY <1>3 DEF WriterReadNull, WriterWait, WriterCheck, WriterGoto, writerVars
  <2>2. TypeOK'
    <3>1. writer_pc' \in [Writers -> {"read", "write", "mark", "check", "done"}]
      BY <2>1 DEF TypeOK
    <3>2. waiting' \in SUBSET Threads
      BY <2>1 DEF TypeOK, Threads
    <3>3. QED
      BY <2>1, <3>1, <3>2 DEF TypeOK, streamVars, receiverVars, idVars, exitVars, readerVars, crbVars,
         stateVars, consumerVars
  <2>3. /\ \A v \in Writers : writer_pc'[v] \in {"write", "mark"} <=> writer_pc[v] \in {"write", "mark"}
        /\ \A v \in Writers : writer_pc'[v] = "mark" => writer_pc[v] = "mark"
    BY <2>1 DEF TypeOK
  <2>4. QED
    BY <1>1, <2>1, <2>2, <2>3 DEF InputVars, exitVars, readerVars
<1>4. CASE SpuriousWakeup
  <2>1. TypeOK'
    BY <1>4 DEF TypeOK, SpuriousWakeup, streamVars, receiverVars, idVars, exitVars, readerVars,
       crbVars, stateVars, consumerVars, writerVars
  <2>2. QED
    BY <1>1, <1>4, <2>1 DEF SpuriousWakeup, InputVars, exitVars, readerVars, writerVars
<1>5. QED
  BY <1>2, <1>3, <1>4

LEMMA ConsumerReadTailOutput ==
  ASSUME CoreInv, ConsumerReadTail
  PROVE  OutputKept
<1> USE DEF CoreInv, ConsumerReadTail
<1>1. /\ buffer[tail] \in Ring /\ buffer[tail] \in Items /\ buffer[tail] \notin Left
  BY TailItem
<1>2. IsExit(buffer[tail]) \/ (buffer[tail] \in Blocks /\ buffer[tail] \notin calc_done)
  <2>1. buffer[tail] \in Exits \/ buffer[tail] \in Blocks
    BY <1>1 DEF Items
  <2>2. CASE buffer[tail] \in Exits
    BY <1>1, <2>2, ItemKinds
  <2>3. CASE buffer[tail] \in Blocks
    BY <1>1, <2>3 DEF ConsumerInv
  <2>4. QED
    BY <2>1, <2>2, <2>3
<1>3. /\ pointer' = buffer[tail]
      /\ \/ consumer_pc' = "move" /\ buffer[tail] \in Exits
         \/ consumer_pc' = "calc" /\ buffer[tail] \in Blocks
  BY <1>1, <1>2, ItemKinds
<1>4. /\ consumer_pc = "read" /\ num_avail_elements > 0
      /\ UNCHANGED <<streamVars, receiverVars, idVars, id_lock, exitVars, readerVars, crbVars,
                     stateVars, exits_got, calc_counter, writerVars, waiting, freed, stored>>
  OBVIOUS
<1> HIDE DEF ConsumerReadTail
<1>5. TypeOK'
  <2>1. consumer_pc' \in {"read", "calc", "mark", "move", "free", "quit", "signal", "done"}
        /\ pointer' \in Items \cup {None}
    BY <1>1, <1>3
  <2>2. QED
    BY <1>4, <2>1 DEF TypeOK, streamVars, receiverVars, idVars, exitVars, readerVars, crbVars,
       stateVars, writerVars
<1>6. Left' = Left
  BY <1>3, <1>4 DEF Left
<1>7. ConsumerInv'
  <2>1. UNCHANGED <<calc_done, freed, exits_got, calc_counter, buffer, tail, num_avail_elements>>
    BY <1>4 DEF stateVars, crbVars
  <2>2. QED
    BY <1>3, <1>4, <1>6, <2>1, ItemKinds DEF ConsumerInv
<1>8. TailStays => WriterInv'
  BY <1>4, <1>6, WriterFrame DEF stateVars
<1>9. QED
  BY <1>4, <1>5, <1>6, <1>7, <1>8, OutputParts DEF InputVars, exitVars, readerVars, stateVars

LEMMA ConsumerCalcOutput ==
  ASSUME CoreInv, ConsumerCalc
  PROVE  OutputKept
<1> USE DEF CoreInv, ConsumerCalc
<1>1. TypeOK'
  <2>1. calc_counter' \in Nat
    BY DEF TypeOK
  <2>2. QED
    BY <2>1 DEF TypeOK, streamVars, receiverVars, idVars, exitVars, readerVars, crbVars,
       stateVars, writerVars
<1>2. Left' = Left
  BY DEF Left
<1>3. ConsumerInv'
  <2>1. UNCHANGED <<calc_done, freed, pointer, exits_got, buffer, tail, num_avail_elements>>
    BY DEF stateVars, crbVars
  <2>2. /\ consumer_pc = "calc" /\ consumer_pc' = "mark"
        /\ calc_counter' = Cardinality(calc_done \cap Blocks) + 1
    <3>1. calc_counter = Cardinality(calc_done \cap Blocks) + 0 /\ calc_counter \in Nat
      BY DEF ConsumerInv, TypeOK
    <3>2. calc_done \cap Blocks \subseteq Blocks
      OBVIOUS
    <3>3. Cardinality(calc_done \cap Blocks) \in Nat
      BY <3>2, ItemCount, FS_Subset, FS_CardinalityType
    <3>4. QED
      BY <3>1, <3>3
  <2> HIDE DEF ConsumerCalc
  <2>3. QED
    BY <1>2, <2>1, <2>2 DEF ConsumerInv
<1>4. TailStays => WriterInv'
  BY <1>2, WriterFrame DEF stateVars
<1>5. QED
  BY <1>1, <1>2, <1>3, <1>4, OutputParts DEF InputVars, exitVars, readerVars, stateVars

LEMMA ConsumerMarkOutput ==
  ASSUME CoreInv, ConsumerMark
  PROVE  OutputKept
<1> USE DEF CoreInv, ConsumerMark
<1>1. /\ pointer \in Blocks /\ pointer \notin Left /\ pointer \in Items
      /\ pointer = buffer[tail] /\ num_avail_elements > 0
  BY TailItem DEF ConsumerInv
<1>2. pointer \notin calc_done /\ calc_done \cap Blocks = Left \cap Blocks
  BY <1>1 DEF ConsumerInv
<1>3. TypeOK'
  <2>1. calc_done' \subseteq Items
    BY <1>1 DEF TypeOK
  <2>2. QED
    BY <2>1 DEF TypeOK, streamVars, receiverVars, idVars, exitVars, readerVars, crbVars,
       writerVars
<1>4. Left' = Left
  BY DEF Left
<1>5. ConsumerInv'
  <2>1. UNCHANGED <<freed, pointer, exits_got, calc_counter, buffer, tail, num_avail_elements>>
    BY DEF crbVars
  <2>2. calc_done' \cap Blocks = (calc_done \cap Blocks) \cup {pointer}
    BY <1>1
  <2>3. calc_counter = Cardinality(calc_done' \cap Blocks)
    <3> HIDE DEF CoreInv, ConsumerMark
    <3>1. IsFiniteSet(calc_done \cap Blocks)
      BY ItemCount, FS_Subset
    <3>2. pointer \notin calc_done \cap Blocks
      BY <1>2
    <3>3. Cardinality(calc_done' \cap Blocks) = Cardinality(calc_done \cap Blocks) + 1
      BY <2>2, <3>1, <3>2, FS_AddElement
    <3>4. QED
      BY <3>3 DEF ConsumerInv, CoreInv, ConsumerMark
  <2>4. Cardinality(calc_done' \cap Blocks) \in Nat
    <3>1. calc_done' \cap Blocks \subseteq Blocks
      OBVIOUS
    <3>2. QED
      BY <3>1, ItemCount, FS_Subset, FS_CardinalityType
  <2>5. calc_done' \cap Blocks = (Left \cup {pointer}) \cap Blocks
    BY <1>1, <1>2, <2>2
  <2>6. consumer_pc = "mark" /\ consumer_pc' = "move"
    OBVIOUS
  <2> HIDE DEF ConsumerMark
  <2>7. QED
    BY <1>1, <1>4, <2>1, <2>3, <2>4, <2>5, <2>6 DEF ConsumerInv
<1>6. TailStays => WriterInv'
  BY <1>4, WriterFrame
<1>7. QED
  BY <1>3, <1>4, <1>5, <1>6, OutputParts DEF InputVars, exitVars, readerVars

\* ConsumerMoveTail, whichever threads it wakes.
MovesTail ==
  /\ consumer_pc = "move"
  /\ pointer \in on_disk
  /\ tail' = Advance(tail)
  /\ num_avail_elements' = num_avail_elements - 1
  /\ waiting' \subseteq waiting
  /\ consumer_pc' = "free"
  /\ UNCHANGED <<streamVars, receiverVars, idVars, id_lock, exitVars, readerVars, buffer, head,
                 stateVars, pointer, exits_got, calc_counter, writerVars, freed, stored>>

LEMMA MovesTailOutput ==
  ASSUME CoreInv, MovesTail
  PROVE  OutputKept
<1> USE DEF CoreInv, MovesTail
<1>1. /\ num_avail_elements > 0 /\ pointer = buffer[tail] /\ pointer \in on_disk
      /\ pointer \in Items /\ pointer \notin Left /\ Left = freed /\ pointer \in Ring
  <2>1. num_avail_elements > 0 /\ pointer = buffer[tail]
    BY DEF ConsumerInv
  <2>2. QED
    BY <2>1, TailItem DEF Left
<1>2. /\ RingInv' /\ Ring' = Ring \ {pointer}
      /\ tail' \in 0..(bufsize - 1) /\ num_avail_elements' \in 0..bufsize
      /\ num_avail_elements' > 0 => Slot(num_avail_elements - 1)' = Slot(num_avail_elements - 1)
  BY <1>1, MoveRing
<1>3. TypeOK'
  <2>1. waiting' \in SUBSET Threads
    BY DEF TypeOK
  <2>2. QED
    BY <1>2, <2>1 DEF TypeOK, streamVars, receiverVars, idVars, exitVars, readerVars,
       stateVars, writerVars
<1>4. UNCHANGED InputVars /\ UNCHANGED <<stored, on_disk>>
  BY DEF InputVars, exitVars, readerVars, stateVars
<1>5. StreamInv' /\ ReceiverInv'
  BY <1>4, InputFrame
<1>6. Left' = Left \cup {pointer}
  BY DEF Left
<1>7. ConsumerInv'
  <2>1. UNCHANGED <<calc_done, freed, pointer, exits_got, calc_counter>>
    BY DEF stateVars
  <2>2. consumer_pc = "move" /\ consumer_pc' = "free"
    OBVIOUS
  <2> HIDE DEF MovesTail
  <2>3. QED
    BY <1>1, <1>6, <2>1, <2>2 DEF ConsumerInv
<1>8. WriterInv'
  <2>1. UNCHANGED <<writer_pc, writer_item, on_disk, stored>>
    BY DEF stateVars, writerVars
  <2>2. \A w \in Writers : ~(SingleWriter /\ writer_item[w] # None)
    BY <1>1 DEF WriterInv
  <2> HIDE DEF MovesTail
  <2>3. QED
    BY <1>1, <1>6, <2>1, <2>2 DEF WriterInv
<1>9. Ring' \cap Left' = {} /\ Ring' \cup Left' = Ring \cup Left
  BY <1>1, <1>2, <1>6
<1>10. buffer' = buffer
  OBVIOUS
<1> HIDE DEF MovesTail
<1>11. QED
  BY <1>1, <1>2, <1>3, <1>4, <1>5, <1>7, <1>8, <1>9, <1>10 DEF OutputKept

LEMMA ConsumerFreeOutput ==
  ASSUME CoreInv, ConsumerFree
  PROVE  OutputKept
<1> USE DEF CoreInv, ConsumerFree
<1>1. /\ pointer \in Items \ freed /\ freed \subseteq Items
      /\ exits_got \in 0..computer_group_size
      /\ exits_got = Cardinality(freed \cap Exits)
      /\ pointer' = None /\ freed' = freed \cup {pointer}
  BY DEF ConsumerInv, TypeOK
<1>2. Left' = Left
  BY <1>1 DEF Left
<1>3. exits_got' = Cardinality(freed' \cap Exits)
  <2> HIDE DEF CoreInv
  <2>1. IsFiniteSet(freed \cap Exits)
    BY ItemCount, FS_Subset
  <2>2. CASE IsExit(pointer)
    <3>1. pointer \in Exits /\ pointer \notin freed \cap Exits
          /\ freed' \cap Exits = (freed \cap Exits) \cup {pointer}
      BY <1>1, <2>2, ItemKinds
    <3>2. Cardinality(freed' \cap Exits) = Cardinality(freed \cap Exits) + 1
      BY <2>1, <3>1, FS_AddElement
    <3>3. QED
      BY <1>1, <2>2, <3>2
  <2>3. CASE ~IsExit(pointer)
    <3>1. freed' \cap Exits = freed \cap Exits
      BY <1>1, <2>3, ItemKinds
    <3>2. QED
      BY <1>1, <2>3, <3>1
  <2>4. QED
    BY <2>2, <2>3
<1>4. exits_got' \in 0..computer_group_size
  <2>1. IsFiniteSet(freed' \cap Exits) /\ Cardinality(freed' \cap Exits) <= Cardinality(Exits)
    BY ItemCount, FS_Subset
  <2>2. Cardinality(freed' \cap Exits) \in Nat
    BY <2>1, FS_CardinalityType
  <2>3. QED
    BY <1>3, <2>1, <2>2, ItemCount, GroupSize
<1>5. TypeOK'
  <2>1. /\ freed' \subseteq Items
        /\ pointer' \in Items \cup {None}
        /\ consumer_pc' \in {"read", "calc", "mark", "move", "free", "quit", "signal", "done"}
    BY <1>1
  <2>2. QED
    BY <1>4, <2>1 DEF TypeOK, streamVars, receiverVars, idVars, exitVars, readerVars, crbVars,
       stateVars, writerVars
<1>6. ConsumerInv'
  <2>1. UNCHANGED <<calc_done, calc_counter, num_avail_elements, buffer, tail>>
    BY DEF stateVars, crbVars
  <2>2. /\ consumer_pc = "free"
        /\ consumer_pc' = IF exits_got' >= computer_group_size THEN "quit" ELSE "read"
    OBVIOUS
  <2> HIDE DEF ConsumerFree
  <2>3. QED
    BY <1>1, <1>2, <1>3, <2>1, <2>2 DEF ConsumerInv
<1>7. TailStays => WriterInv'
  BY <1>2, WriterFrame DEF stateVars
<1>8. UNCHANGED <<streamVars, receiverVars, idVars, exitVars, readerVars, crbVars, stateVars, stored>>
  OBVIOUS
<1> HIDE DEF ConsumerFree
<1>9. QED
  BY <1>2, <1>5, <1>6, <1>7, <1>8, OutputParts DEF InputVars, exitVars, readerVars, stateVars

LEMMA ConsumerLeaveOutput ==
  ASSUME CoreInv, ConsumerQuit \/ ConsumerSignal
  PROVE  OutputKept
<1> USE DEF CoreInv
<1>1. /\ UNCHANGED <<streamVars, receiverVars, idVars, id_lock, recv_exit, reader_exit, readerVars,
                     crbVars, stateVars, pointer, exits_got, calc_counter, writerVars,
                     freed, stored>>
      /\ waiting' \subseteq waiting
      /\ ana_writer_exit' \in {ana_writer_exit, TRUE}
      /\ \/ consumer_pc = "quit" /\ consumer_pc' = "signal"
         \/ consumer_pc = "signal" /\ consumer_pc' = "done"
  BY DEF ConsumerQuit, ConsumerSignal, exitVars
<1>2. TypeOK'
  <2>1. <<recv_exit, reader_exit, ana_writer_exit>>' \in BOOLEAN \X BOOLEAN \X BOOLEAN
    BY <1>1 DEF TypeOK
  <2>2. /\ consumer_pc' \in {"read", "calc", "mark", "move", "free", "quit", "signal", "done"}
        /\ waiting' \in SUBSET Threads
    BY <1>1 DEF TypeOK
  <2>3. TypeOK
    OBVIOUS
  <2> HIDE DEF CoreInv
  <2>4. QED
    BY <1>1, <2>1, <2>2, <2>3 DEF TypeOK, streamVars, receiverVars, idVars, readerVars, crbVars,
       stateVars, writerVars
<1>3. Left' = Left
  BY <1>1 DEF Left
<1>4. ConsumerInv'
  BY <1>1, <1>3 DEF ConsumerInv, stateVars, crbVars
<1>5. TailStays => WriterInv'
  BY <1>1, <1>3, WriterFrame DEF stateVars
<1>6. QED
  BY <1>1, <1>2, <1>3, <1>4, <1>5, OutputParts DEF InputVars, readerVars, stateVars

LEMMA WriterReadTailOutput ==
  ASSUME CoreInv, NEW w \in Writers, WriterReadTail(w)
  PROVE  OutputKept
<1> USE DEF CoreInv, WriterReadTail, WriterGoto
<1>1. /\ writer_pc \in [Writers -> {"read", "write", "mark", "check", "done"}]
      /\ writer_item \in [Writers -> Items \cup {None}]
      /\ writer_pc[w] = "read"
  BY DEF TypeOK
<1>2. /\ UNCHANGED <<streamVars, receiverVars, idVars, id_lock, exitVars, readerVars, crbVars,
                     stateVars, consumerVars, waiting, freed, stored>>
      /\ Left' = Left
  BY DEF consumerVars, Left
<1>3. TailStays => ConsumerInv'
  BY <1>2, ConsumerFrame DEF stateVars
<1>4. \/ /\ writer_pc' = [writer_pc EXCEPT ![w] = "check"] /\ UNCHANGED writer_item
      \/ /\ writer_pc' = [writer_pc EXCEPT ![w] = "write"]
         /\ writer_item' = [writer_item EXCEPT ![w] = buffer[tail]]
         /\ num_avail_elements > 0 /\ buffer[tail] \notin on_disk
         /\ buffer[tail] \in Blocks /\ buffer[tail] # None /\ buffer[tail] \in Items
  <2>1. buffer[tail] \in Items
    BY TailItem
  <2>2. ~IsExit(buffer[tail]) => buffer[tail] \in Blocks /\ buffer[tail] # None
    BY <2>1, ItemKinds DEF Items
  <2>3. QED
    BY <2>1, <2>2
<1> HIDE DEF WriterReadTail
<1>5. CASE writer_pc' = [writer_pc EXCEPT ![w] = "check"] /\ UNCHANGED writer_item
  <2>1. /\ writer_pc' \in [Writers -> {"read", "write", "mark", "check", "done"}]
        /\ \A v \in Writers : writer_pc'[v] \in {"write", "mark"} <=> writer_pc[v] \in {"write", "mark"}
        /\ \A v \in Writers : writer_pc'[v] = "mark" => writer_pc[v] = "mark"
    BY <1>1, <1>5
  <2>2. TypeOK'
    BY <1>2, <1>5, <2>1 DEF TypeOK, streamVars, receiverVars, idVars, exitVars, readerVars, crbVars,
       stateVars, consumerVars
  <2>3. TailStays => WriterInv'
    BY <1>2, <1>5, <2>1 DEF WriterInv, stateVars, TailStays
  <2>4. QED
    BY <1>2, <1>3, <2>2, <2>3, OutputParts DEF InputVars, exitVars, readerVars, stateVars
<1>6. CASE /\ writer_pc' = [writer_pc EXCEPT ![w] = "write"]
           /\ writer_item' = [writer_item EXCEPT ![w] = buffer[tail]]
           /\ num_avail_elements > 0 /\ buffer[tail] \notin on_disk
           /\ buffer[tail] \in Blocks /\ buffer[tail] # None /\ buffer[tail] \in Items
  <2>1. /\ writer_pc' \in [Writers -> {"read", "write", "mark", "check", "done"}]
        /\ writer_item' \in [Writers -> Items \cup {None}]
        /\ \A v \in Writers : /\ writer_pc'[v] = IF v = w THEN "write" ELSE writer_pc[v]
                              /\ writer_item'[v] = IF v = w THEN buffer[tail] ELSE writer_item[v]
    BY <1>1, <1>6
  <2>2. TypeOK'
    BY <1>2, <2>1 DEF TypeOK, streamVars, receiverVars, idVars, exitVars, readerVars, crbVars,
       stateVars, consumerVars
  <2>3. WriterInv'
    <3>1. UNCHANGED <<on_disk, stored, buffer, tail, num_avail_elements>>
      BY <1>2 DEF stateVars, crbVars
    <3>2. QED
      BY <1>2, <1>6, <2>1, <3>1 DEF WriterInv
  <2>4. QED
    BY <1>2, <1>3, <2>2, <2>3, OutputParts DEF InputVars, exitVars, readerVars, stateVars
<1>7. QED
  BY <1>4, <1>5, <1>6

LEMMA WriterWriteOutput ==
  ASSUME CoreInv, NEW w \in Writers, WriterWrite(w)
  PROVE  OutputKept
<1> USE DEF CoreInv, WriterWrite, WriterGoto
<1>1. /\ writer_pc \in [Writers -> {"read", "write", "mark", "check", "done"}]
      /\ writer_pc[w] = "write" /\ writer_item[w] # None
      /\ writer_item[w] \in Blocks
      /\ stored' = IF KEEP THEN stored \cup {writer_item[w]} ELSE stored
  BY DEF TypeOK, WriterInv
<1>2. /\ writer_pc' \in [Writers -> {"read", "write", "mark", "check", "done"}]
      /\ \A v \in Writers : writer_pc'[v] = IF v = w THEN "mark" ELSE writer_pc[v]
  BY <1>1
<1>3. stored' \subseteq Blocks /\ stored \subseteq stored'
  BY <1>1 DEF TypeOK
<1>4. /\ UNCHANGED <<streamVars, receiverVars, idVars, id_lock, exitVars, readerVars, crbVars,
                     stateVars, consumerVars, writer_item, waiting, freed>>
      /\ Left' = Left
  BY DEF consumerVars, Left
<1>5. TypeOK'
  <2> HIDE DEF WriterWrite, WriterGoto
  <2>1. TypeOK
    BY DEF CoreInv
  <2> HIDE DEF CoreInv
  <2>2. QED
    BY <2>1, <1>2, <1>3, <1>4 DEF TypeOK, streamVars, receiverVars, idVars, exitVars, readerVars,
       crbVars, stateVars, consumerVars
<1> HIDE DEF WriterWrite
<1>6. TailStays => ConsumerInv'
  BY <1>4, ConsumerFrame DEF stateVars
<1>7. WriterInv'
  <2>1. UNCHANGED <<on_disk, buffer, tail, num_avail_elements>>
    BY <1>4 DEF stateVars, crbVars
  <2>2. KEEP => writer_item[w] \in stored'
    BY <1>1
  <2>3. QED
    BY <1>1, <1>2, <1>3, <1>4, <2>1, <2>2 DEF WriterInv
<1>8. QED
  BY <1>3, <1>4, <1>5, <1>6, <1>7, OutputParts DEF InputVars, exitVars, readerVars, stateVars

LEMMA WriterMarkOutput ==
  ASSUME CoreInv, NEW w \in Writers, WriterMark(w)
  PROVE  OutputKept
<1> USE DEF CoreInv, WriterMark, WriterGoto
<1> DEFINE x == writer_item[w]
<1>1. /\ writer_pc \in [Writers -> {"read", "write", "mark", "check", "done"}]
      /\ writer_item \in [Writers -> Items \cup {None}]
      /\ x # None /\ x \in Blocks /\ x \in Items
      /\ KEEP => x \in stored
      /\ on_disk' = on_disk \cup {x}
  BY DEF TypeOK, WriterInv, Items
<1>2. /\ writer_pc' \in [Writers -> {"read", "write", "mark", "check", "done"}]
      /\ writer_item' \in [Writers -> Items \cup {None}]
      /\ \A v \in Writers : /\ writer_pc'[v] = IF v = w THEN "check" ELSE writer_pc[v]
                            /\ writer_item'[v] = IF v = w THEN None ELSE writer_item[v]
  BY <1>1
<1>3. /\ UNCHANGED <<streamVars, receiverVars, idVars, id_lock, exitVars, readerVars, crbVars,
                     calc_done, consumerVars, freed, stored>>
      /\ waiting' = waiting \cup {w}
      /\ Left' = Left
  BY DEF consumerVars, Left
<1> HIDE DEF WriterMark, x
<1>4. TypeOK'
  <2>1. on_disk' \subseteq Items /\ waiting' \in SUBSET Threads
    BY <1>1, <1>3 DEF TypeOK, Threads
  <2>2. QED
    BY <1>2, <1>3, <2>1 DEF TypeOK, streamVars, receiverVars, idVars, exitVars, readerVars, crbVars,
       consumerVars
<1>5. TailStays => ConsumerInv'
  BY <1>3, ConsumerFrame
<1>6. WriterInv'
  <2>1. SingleWriter => \A v \in Writers : v = w
    BY DEF SingleWriter
  <2>2. QED
    BY <1>1, <1>2, <1>3, <2>1 DEF WriterInv
<1>7. QED
  BY <1>1, <1>3, <1>4, <1>5, <1>6, OutputParts DEF InputVars, exitVars, readerVars

\* Every step behind the CRB but ConsumerMoveTail, which the two copies of the
\* runtime have each their own of.
LEMMA OutputSteps ==
  ASSUME CoreInv,
         \/ ConsumerReadTail \/ ConsumerWait \/ ConsumerCalc \/ ConsumerMark \/ MovesTail
         \/ ConsumerFree \/ ConsumerQuit \/ ConsumerSignal
         \/ \E w \in Writers : Writer(w)
         \/ SpuriousWakeup
  PROVE  OutputKept
<1>1. ASSUME NEW w \in Writers, Writer(w) PROVE OutputKept
  BY <1>1, WriterReadTailOutput, WriterWriteOutput, WriterMarkOutput, QuietOutput DEF Writer
<1>2. QED
  BY <1>1, ConsumerReadTailOutput, ConsumerCalcOutput, ConsumerMarkOutput, MovesTailOutput,
     ConsumerFreeOutput, ConsumerLeaveOutput, QuietOutput

-----------------------------------------------------------------------------
(* Steps in front of the CRB that only move a thread on or put it to sleep. *)

\* A program counter may move where nothing is held.
LEMMA QuietInv ==
  ASSUME AnalysisInv, TypeOK',
         UNCHANGED <<streamVars, receiverVars, idVars, recv_exit, reader_exit,
                     reader_item, crbVars, stateVars, consumerVars, writerVars, freed, stored>>,
         \A r \in Readers : reader_pc'[r] \in {"read", "put"} <=> reader_pc[r] \in {"read", "put"},
         \A r \in Readers : reader_pc'[r] = "put" => reader_pc[r] = "put"
  PROVE  AnalysisInv'
<1> USE DEF AnalysisInv
<1>1. ReceiverInv'
  BY ReceiverFrame DEF receiverVars
<1>2. CoreInv' /\ Ring' = Ring /\ Left' = Left /\ AnnouncedBlocks' = AnnouncedBlocks
  BY <1>1, CoreOf, CoreFrame DEF receiverVars, writerVars
<1>3. IdInv' /\ EndInv'
  BY <1>2, IdFrame, EndFrame DEF idVars, receiverVars
<1>4. PlaceInv'
  BY <1>2, PlaceFrame DEF receiverVars, streamVars
<1>5. ReaderInv'
  BY <1>2 DEF ReaderInv, stateVars
<1>6. QED
  BY <1>2, <1>3, <1>4, <1>5 DEF CoreInv

LEMMA QuietSteps ==
  ASSUME AnalysisInv,
         \/ ReceiverPutWait
         \/ \E r \in Readers : \/ ReaderTop(r) \/ ReaderLock(r) \/ ReaderSeesNone(r)
                               \/ ReaderWait(r) \/ ReaderPutWait(r)
         \/ UNCHANGED vars
  PROVE  AnalysisInv'
<1> USE DEF PutWait, Goto, Threads
<1> TypeOK
  BY DEF AnalysisInv
<1>1. CASE ReceiverPutWait
  <2>1. TypeOK'
    BY <1>1 DEF TypeOK, ReceiverPutWait, streamVars, receiverVars, idVars, exitVars, readerVars,
       crbVars, stateVars, consumerVars, writerVars
  <2>2. QED
    BY <1>1, <2>1, QuietInv DEF ReceiverPutWait, exitVars, readerVars
<1>2. ASSUME NEW r \in Readers,
             ReaderTop(r) \/ ReaderLock(r) \/ ReaderSeesNone(r) \/ ReaderWait(r) \/ ReaderPutWait(r)
      PROVE  AnalysisInv'
  <2>1. /\ UNCHANGED <<streamVars, receiverVars, idVars, exitVars, reader_item, read_file_cnt,
                       crbVars, stateVars, consumerVars, writerVars, freed, stored>>
        /\ waiting' \subseteq waiting \cup {r}
        /\ id_lock' \in {id_lock, r, None}
        /\ \E pc \in {"get", "done", "check", "sleep", "top"} :
             \/ reader_pc' = [reader_pc EXCEPT ![r] = pc] /\ reader_pc[r] \notin {"read", "put"}
             \/ reader_pc' = reader_pc
    BY <1>2 DEF ReaderTop, ReaderLock, ReaderSeesNone, ReaderWait, ReaderPutWait, readerVars
  <2>2. TypeOK'
    <3>1. reader_pc' \in [Readers -> {"start", "top", "get", "check", "sleep", "read", "put", "done"}]
      BY <2>1 DEF TypeOK
    <3>2. id_lock' \in Threads \cup {None}
      BY <2>1 DEF TypeOK
    <3>3. waiting' \in SUBSET Threads
      BY <2>1 DEF TypeOK
    <3>4. QED
      BY <2>1, <3>1, <3>2, <3>3 DEF TypeOK, streamVars, receiverVars, idVars, exitVars, crbVars, stateVars,
         consumerVars, writerVars
  <2>3. /\ \A q \in Readers : reader_pc'[q] \in {"read", "put"} <=> reader_pc[q] \in {"read", "put"}
        /\ \A q \in Readers : reader_pc'[q] = "put" => reader_pc[q] = "put"
    BY <2>1 DEF TypeOK
  <2>4. QED
    BY <2>1, <2>2, <2>3, QuietInv DEF exitVars
<1>3. CASE UNCHANGED vars
  <2>1. TypeOK'
    BY <1>3 DEF TypeOK, vars, streamVars, receiverVars, idVars, exitVars, readerVars,
       crbVars, stateVars, consumerVars, writerVars
  <2>2. QED
    BY <1>3, <2>1, QuietInv DEF vars, exitVars, readerVars
<1>4. QED
  BY <1>1, <1>2, <1>3

-----------------------------------------------------------------------------
(* The receiver.                                                            *)

LEMMA HandsOverInv ==
  ASSUME AnalysisInv, NEW s \in Sources, NEW H \in SUBSET pending[s], NEW S \in SUBSET H,
         NEW x, HandsOver(s, H, S, x)
  PROVE  AnalysisInv'
<1>1. /\ CoreInv' /\ Ring' = Ring /\ Left' = Left
      /\ recv_item = None /\ recv_ids = <<>> /\ ~recv_exit
      /\ Range(recv_ids') = {s} \X S /\ IsInjective(recv_ids')
      /\ AnnouncedBlocks' = AnnouncedBlocks \cup ({s} \X S)
      /\ AnnouncedBlocks \cap ({s} \X H) = {}
      /\ HandedOver' = HandedOver \cup ({s} \X H) /\ HandedOver \cap ({s} \X H) = {}
  BY CoreOf, HandsOverCore
<1>2. /\ recv_item' = x /\ ({x} \ {None}) \cup ({s} \X S) = {s} \X H
      /\ UNCHANGED <<idVars, exitVars, readerVars, crbVars, stateVars>>
      /\ receiver_pc' # "done"
  BY DEF HandsOver
<1>3. IdInv'
  <2>1. AnnouncedBlocks \cap ({s} \X S) = {}
    BY <1>1
  <2>2. QED
    BY <1>1, <1>2, <2>1 DEF AnalysisInv, IdInv, idVars
<1>4. ReaderInv'
  BY <1>1, <1>2, ReaderFrame DEF AnalysisInv, readerVars, stateVars
<1>5. PlaceInv'
  <2>1. InReceiver = {} /\ InReceiver' = {s} \X H
    BY <1>1, <1>2 DEF InReceiver, Range
  <2>2. /\ InArray' = InArray /\ InReaders' = InReaders
    BY <1>2 DEF InArray, InReaders, idVars, readerVars
  <2>3. QED
    BY <1>1, <2>1, <2>2 DEF PlaceInv, AnalysisInv
<1>6. EndInv'
  BY <1>1, <1>2 DEF AnalysisInv, EndInv, crbVars, exitVars, Slot
<1>7. QED
  BY <1>1, <1>3, <1>4, <1>5, <1>6 DEF AnalysisInv, CoreInv

LEMMA ReceiveBlockInv ==
  ASSUME AnalysisInv, NEW s \in Sources, ReceiveBlock(s)
  PROVE  AnalysisInv'
<1>1. \E H \in SUBSET pending[s] : \E S \in SUBSET H : \E x \in Blocks : HandsOver(s, H, S, x)
  BY ReceiveBlockHands DEF AnalysisInv
<1>2. QED
  BY <1>1, HandsOverInv

LEMMA ReceiveDiskInv ==
  ASSUME AnalysisInv, NEW s \in Sources, ReceiveDisk(s)
  PROVE  AnalysisInv'
BY CoreOf, ReceiveDiskHands, HandsOverInv

\* A quota of nothing: no identifier is anywhere.
LEMMA NoQuota ==
  ASSUME AnalysisInv, reader_blk_num = 0
  PROVE  /\ AnnouncedBlocks = {} /\ recv_avail = 0
         /\ \A r \in Readers : reader_item[r] = None
<1>1. AnnouncedBlocks = {}
  BY CoreOf, NothingAnnounced
<1>2. Range(prefetch_id_array) = {} /\ prefetch_id_array \in Seq(Blocks)
  BY <1>1 DEF IdInv, TypeOK, AnalysisInv
<1>3. prefetch_id_array = <<>>
  BY <1>2, RangeOfSeq
<1>4. recv_avail = 0
  BY <1>3 DEF IdInv, TypeOK, AnalysisInv
<1>5. QED
  BY <1>1, <1>4 DEF ReaderInv, AnalysisInv

LEMMA ReceiveExitInv ==
  ASSUME AnalysisInv, NEW s \in Sources, ReceiveExit(s)
  PROVE  AnalysisInv'
<1> DEFINE x == recv_item'
<1>1. /\ CoreInv' /\ Ring' = Ring /\ Left' = Left /\ AnnouncedBlocks' = AnnouncedBlocks
      /\ recv_item = None /\ recv_ids = <<>> /\ ~recv_exit
      /\ x \in Exits /\ x # None
      /\ HandedOver' = HandedOver \cup {x} /\ x \notin HandedOver
  <2>1. ExitTaken(s, "signal")
    BY DEF ReceiveExit, ExitTaken
  <2>2. QED
    BY <2>1, CoreOf, ExitCore
<1>2. /\ UNCHANGED <<recv_ids, idVars, reader_exit, readerVars, crbVars>>
      /\ receiver_pc' # "done" /\ on_disk \subseteq on_disk'
  BY DEF ReceiveExit
<1> HIDE DEF x
<1>3. IdInv'
  BY <1>1, <1>2, IdFrame DEF AnalysisInv
<1>4. ReaderInv'
  BY <1>1, <1>2, ReaderFrame DEF AnalysisInv, readerVars
<1>5. PlaceInv'
  <2>1. InReceiver = {} /\ InReceiver' = {x}
    BY <1>1, <1>2, RangeOfSeq DEF InReceiver, x, Range
  <2>2. InArray' = InArray /\ InReaders' = InReaders
    BY <1>2 DEF InArray, InReaders, idVars, readerVars
  <2>3. QED
    BY <1>1, <2>1, <2>2 DEF AnalysisInv, PlaceInv
<1>6. EndInv'
  <2>1. ASSUME SingleReader, reader_exit
        PROVE  recv_avail = 0 /\ \A r \in Readers : reader_item[r] = None
    <3>1. reader_blk_num = 0
      BY <1>1, <2>1 DEF AnalysisInv, EndInv
    <3>2. QED
      BY <3>1, NoQuota
  <2>2. UNCHANGED <<reader_exit, recv_avail, reader_item, num_avail_elements>>
        /\ receiver_pc' # "done"
    BY <1>2 DEF idVars, readerVars, crbVars
  <2>3. QED
    BY <1>1, <2>1, <2>2 DEF AnalysisInv, EndInv
<1>7. QED
  BY <1>1, <1>3, <1>4, <1>5, <1>6 DEF AnalysisInv, CoreInv

LEMMA ConcatOf ==
  ASSUME NEW T, NEW p \in Seq(T), NEW q \in Seq(T)
  PROVE  /\ p \o q \in Seq(T)
         /\ Len(p \o q) = Len(p) + Len(q)
         /\ Range(p \o q) = Range(p) \cup Range(q)
         /\ IsInjective(p) /\ IsInjective(q) /\ Range(p) \cap Range(q) = {} => IsInjective(p \o q)
<1>1. /\ p \o q \in Seq(T) /\ Len(p \o q) = Len(p) + Len(q)
      /\ DOMAIN p = 1..Len(p) /\ DOMAIN q = 1..Len(q) /\ DOMAIN (p \o q) = 1..(Len(p) + Len(q))
      /\ Len(p) \in Nat /\ Len(q) \in Nat
      /\ \A k \in 1..Len(p) : (p \o q)[k] = p[k]
      /\ \A k \in (Len(p) + 1)..(Len(p) + Len(q)) : (p \o q)[k] = q[k - Len(p)]
  OBVIOUS
<1>2. \A k \in 1..Len(q) : (p \o q)[Len(p) + k] = q[k]
  BY <1>1
<1>3. Range(p \o q) \subseteq Range(p) \cup Range(q)
  <2>1. ASSUME NEW k \in 1..(Len(p) + Len(q)), k > Len(p) PROVE (p \o q)[k] \in Range(q)
    BY <1>1, <2>1 DEF Range
  <2>2. ASSUME NEW k \in 1..(Len(p) + Len(q)), k <= Len(p) PROVE (p \o q)[k] \in Range(p)
    BY <1>1, <2>2 DEF Range
  <2>3. ASSUME NEW k \in 1..(Len(p) + Len(q)) PROVE (p \o q)[k] \in Range(p) \cup Range(q)
    BY <1>1, <2>1, <2>2
  <2>4. QED
    BY <1>1, <2>3 DEF Range
<1>4. Range(p) \cup Range(q) \subseteq Range(p \o q)
  <2>1. ASSUME NEW k \in 1..Len(p) PROVE p[k] \in Range(p \o q)
    BY <1>1 DEF Range
  <2>2. ASSUME NEW k \in 1..Len(q) PROVE q[k] \in Range(p \o q)
    <3>1. Len(p) + k \in 1..(Len(p) + Len(q))
      BY <1>1
    <3>2. QED
      BY <1>1, <1>2, <3>1 DEF Range
  <2>3. QED
    BY <1>1, <2>1, <2>2 DEF Range
<1>5. ASSUME IsInjective(p), IsInjective(q), Range(p) \cap Range(q) = {}
      PROVE  IsInjective(p \o q)
  <2>1. ASSUME NEW i \in 1..(Len(p) + Len(q)), NEW j \in 1..(Len(p) + Len(q)),
               (p \o q)[i] = (p \o q)[j]
        PROVE  i = j
    <3>1. CASE i <= Len(p) /\ j <= Len(p)
      BY <1>1, <1>5, <2>1, <3>1 DEF IsInjective
    <3>2. CASE i > Len(p) /\ j > Len(p)
      <4>1. /\ i - Len(p) \in 1..Len(q) /\ j - Len(p) \in 1..Len(q)
            /\ q[i - Len(p)] = q[j - Len(p)]
        BY <1>1, <2>1, <3>2
      <4>2. i - Len(p) = j - Len(p)
        BY <1>1, <1>5, <4>1 DEF IsInjective
      <4>3. QED
        BY <1>1, <4>2
    <3>2a. ASSUME NEW k \in 1..(Len(p) + Len(q))
          PROVE  /\ k <= Len(p) => (p \o q)[k] \in Range(p)
                 /\ k > Len(p) => (p \o q)[k] \in Range(q)
      <4>1. k <= Len(p) => k \in 1..Len(p)
        OBVIOUS
      <4>2. k > Len(p) => k - Len(p) \in 1..Len(q) /\ k \in (Len(p) + 1)..(Len(p) + Len(q))
        BY <1>1
      <4>3. QED
        BY <1>1, <4>1, <4>2 DEF Range
    <3>3. CASE i <= Len(p) /\ j > Len(p)
      BY <1>5, <2>1, <3>3, <3>2a
    <3>4. CASE i > Len(p) /\ j <= Len(p)
      BY <1>5, <2>1, <3>4, <3>2a
    <3>5. QED
      BY <1>1, <3>1, <3>2, <3>3, <3>4
  <2>2. QED
    BY <1>1, <2>1 DEF IsInjective
<1>6. QED
  BY <1>1, <1>3, <1>4, <1>5

\* A step of the receiver or a reader that leaves the CRB alone.
LEMMA OutputFrame ==
  ASSUME AnalysisInv, UNCHANGED <<crbVars, stateVars, consumerVars, writerVars, freed>>,
         stored \subseteq stored'
  PROVE  RingInv' /\ Ring' = Ring /\ ConsumerInv' /\ Left' = Left /\ WriterInv'
<1>1. RingInv' /\ Ring' = Ring /\ TailStays
  BY RingFrame DEF AnalysisInv, TailStays
<1>2. ConsumerInv' /\ Left' = Left
  BY <1>1, ConsumerFrame DEF AnalysisInv, stateVars
<1>3. WriterInv'
  BY <1>1, <1>2, WriterFrame DEF AnalysisInv, stateVars
<1>4. QED
  BY <1>1, <1>2, <1>3

LEMMA MakePrefetchIdInv ==
  ASSUME AnalysisInv, MakePrefetchId
  PROVE  AnalysisInv'
<1> USE DEF AnalysisInv, MakePrefetchId
<1>1. /\ recv_ids \in Seq(Blocks) /\ prefetch_id_array \in Seq(Blocks)
      /\ recv_tail \in Nat /\ recv_avail \in Nat
      /\ prefetch_id_array' = prefetch_id_array \o recv_ids
      /\ Len(recv_ids) \in Nat /\ recv_avail' = recv_avail + Len(recv_ids)
      /\ recv_tail' = recv_tail
      /\ Len(prefetch_id_array) = recv_tail + recv_avail
      /\ recv_ids' = <<>> /\ Range(<<>>) = {}
      /\ ~recv_exit /\ recv_item \notin Range(recv_ids)
  BY RangeOfSeq DEF TypeOK, IdInv, ReceiverInv
<1>2. /\ prefetch_id_array' \in Seq(Blocks)
      /\ Range(prefetch_id_array') = Range(prefetch_id_array) \cup Range(recv_ids)
      /\ IsInjective(prefetch_id_array')
  BY <1>1, ConcatOf DEF IdInv
<1>3. TypeOK'
  <2>1. /\ recv_avail' \in Nat /\ recv_ids' \in Seq(Blocks)
        /\ receiver_pc' \in {"recv", "ids", "put", "signal", "spin", "done"}
        /\ waiting' \in SUBSET Threads
    BY <1>1 DEF TypeOK
  <2>2. QED
    BY <1>2, <2>1 DEF TypeOK, streamVars, exitVars, readerVars, crbVars, stateVars, consumerVars,
       writerVars
<1>4. StreamInv' /\ AnnouncedBlocks' = AnnouncedBlocks
  BY StreamFrame DEF exitVars
<1>5. ReceiverInv'
  BY <1>1 DEF ReceiverInv, exitVars
<1>6. IdInv'
  <2>1. IsInjective(<<>>)
    BY DEF IsInjective
  <2> HIDE DEF AnalysisInv, MakePrefetchId
  <2>2. Len(prefetch_id_array') = recv_tail' + recv_avail'
    <3>1. Len(prefetch_id_array \o recv_ids) = Len(prefetch_id_array) + Len(recv_ids)
      BY <1>1, ConcatOf
    <3>2. QED
      BY <1>1, <3>1
  <2> USE DEF AnalysisInv
  <2>3. QED
    BY <1>1, <1>2, <1>4, <2>1, <2>2 DEF IdInv
<1>7. ReaderInv'
  BY <1>4, ReaderFrame DEF readerVars, stateVars
<1>8. RingInv' /\ Ring' = Ring /\ ConsumerInv' /\ Left' = Left /\ WriterInv'
  BY OutputFrame
<1>9. PlaceInv'
  <2>1. InReceiver = InReceiver' \cup Range(recv_ids) /\ InReceiver' \cap Range(recv_ids) = {}
    BY <1>1 DEF InReceiver
  <2>2. InArray' = InArray \cup Range(recv_ids)
    <3>1. \A k \in 1..recv_avail : k \in 1..recv_avail'
                                   /\ prefetch_id_array'[recv_tail + k] = prefetch_id_array[recv_tail + k]
      BY <1>1
    <3>2. \A k \in 1..Len(recv_ids) : recv_avail + k \in 1..recv_avail'
                                   /\ prefetch_id_array'[recv_tail + (recv_avail + k)] = recv_ids[k]
      BY <1>1
    <3>3. \A k \in 1..recv_avail' : k \in 1..recv_avail \/
             (k - recv_avail \in 1..Len(recv_ids) /\ k = recv_avail + (k - recv_avail))
      BY <1>1
    <3>4. Range(recv_ids) = {recv_ids[k] : k \in 1..Len(recv_ids)}
      BY <1>1, RangeOfSeq
    <3>5. InArray = {prefetch_id_array[recv_tail + k] : k \in 1..recv_avail}
          /\ InArray' = {prefetch_id_array'[recv_tail + k] : k \in 1..recv_avail'}
      BY <1>1 DEF InArray
    <3> HIDE DEF MakePrefetchId, AnalysisInv
    <3>6. InArray' \subseteq InArray \cup Range(recv_ids)
      BY <3>1, <3>2, <3>3, <3>4, <3>5
    <3>7. InArray \cup Range(recv_ids) \subseteq InArray'
      BY <3>1, <3>2, <3>4, <3>5
    <3>8. QED
      BY <3>6, <3>7
  <2>3. InReaders' = InReaders /\ HandedOver' = HandedOver
    BY DEF InReaders, HandedOver, streamVars, readerVars
  <2> HIDE DEF MakePrefetchId
  <2>4. QED
    BY <1>8, <2>1, <2>2, <2>3 DEF PlaceInv
<1>10. EndInv'
  BY <1>1 DEF EndInv, exitVars
<1>11. QED
  BY <1>3, <1>4, <1>5, <1>6, <1>7, <1>8, <1>9, <1>10

LEMMA WaitForReaderInv ==
  ASSUME AnalysisInv, SignalReader \/ ReaderExitSeen
  PROVE  AnalysisInv'
<1> USE DEF AnalysisInv
<1>1. /\ UNCHANGED <<streamVars, recv_item, recv_ids, num_exit_flag, idVars, exitVars,
                     readerVars, crbVars, stateVars>>
      /\ receiver_pc' \in {"spin", "put"}
  BY DEF SignalReader, ReaderExitSeen
<1>2. CoreInv' /\ Ring' = Ring /\ Left' = Left /\ AnnouncedBlocks' = AnnouncedBlocks
  BY CoreOf, WaitForReaderCore
<1>3. IdInv' /\ ReaderInv'
  BY <1>1, <1>2, IdFrame, ReaderFrame DEF readerVars, stateVars
<1>4. PlaceInv'
  BY <1>1, <1>2, PlaceFrame DEF streamVars, readerVars
<1>5. EndInv'
  BY <1>1 DEF EndInv, exitVars, idVars, readerVars, crbVars, Slot
<1>6. QED
  BY <1>2, <1>3, <1>4, <1>5 DEF CoreInv

LEMMA ReceiverPutInv ==
  ASSUME AnalysisInv, ReceiverPut
  PROVE  AnalysisInv'
<1>1. recv_item \notin Ring \cup Left
  BY ItemKinds DEF AnalysisInv, TypeOK, ReceiverInv, ReceiverPut, PlaceInv, InReceiver
<1>2. /\ CoreInv' /\ Ring' = Ring \cup {recv_item} /\ Left' = Left
      /\ AnnouncedBlocks' = AnnouncedBlocks
      /\ recv_item # None /\ recv_ids = <<>>
      /\ recv_exit => recv_item \in Exits
      /\ buffer'[Slot(num_avail_elements - 1)'] = recv_item
  BY <1>1, CoreOf, ReceiverPutCore
<1>3. /\ UNCHANGED <<streamVars, recv_ids, idVars, exitVars, readerVars, stateVars>>
      /\ recv_item' = None
      /\ receiver_pc' = IF recv_exit THEN "done" ELSE "recv"
  BY DEF ReceiverPut
<1>4. IdInv' /\ ReaderInv'
  BY <1>2, <1>3, IdFrame, ReaderFrame DEF AnalysisInv, readerVars, stateVars
<1>5. PlaceInv'
  <2>1. InReceiver = {recv_item} /\ InReceiver' = {}
    BY <1>2, <1>3 DEF InReceiver, Range
  <2>2. InArray' = InArray /\ InReaders' = InReaders /\ HandedOver' = HandedOver
    BY <1>3 DEF InArray, InReaders, HandedOver, idVars, readerVars, streamVars
  <2>3. QED
    BY <1>2, <2>1, <2>2 DEF AnalysisInv, PlaceInv
<1>6. EndInv'
  <2>1. UNCHANGED <<reader_exit, recv_exit, recv_avail, reader_item>>
    BY <1>3 DEF exitVars, idVars, readerVars
  <2>2. receiver_pc' = "done" => recv_item \in Exits
    BY <1>2, <1>3
  <2>3. QED
    BY <1>2, <2>1, <2>2 DEF AnalysisInv, EndInv
<1>7. QED
  BY <1>2, <1>4, <1>5, <1>6 DEF AnalysisInv, CoreInv

-----------------------------------------------------------------------------
(* A reader.                                                                *)

LEMMA ReaderStartInv ==
  ASSUME AnalysisInv, NEW r \in Readers, ReaderStart(r)
  PROVE  AnalysisInv'
<1> USE DEF AnalysisInv, ReaderStart, Goto
<1>1. reader_pc \in [Readers -> {"start", "top", "get", "check", "sleep", "read", "put", "done"}]
      /\ reader_exit \in BOOLEAN
  BY DEF TypeOK
<1>2. /\ reader_pc' \in [Readers -> {"start", "top", "get", "check", "sleep", "read", "put", "done"}]
      /\ \A q \in Readers : reader_pc'[q] \in {"read", "put"} <=> reader_pc[q] \in {"read", "put"}
      /\ \A q \in Readers : reader_pc'[q] = "put" => reader_pc[q] = "put"
  BY <1>1
<1>3. TypeOK'
  <2>1. reader_exit' \in BOOLEAN /\ UNCHANGED <<recv_exit, ana_writer_exit>>
    OBVIOUS
  <2>2. <<recv_exit, reader_exit, ana_writer_exit>>' \in BOOLEAN \X BOOLEAN \X BOOLEAN
    BY <2>1 DEF TypeOK
  <2>3. UNCHANGED <<streamVars, receiverVars, idVars, id_lock, reader_item, read_file_cnt, crbVars,
                    stateVars, consumerVars, writerVars, waiting, freed, stored>>
    OBVIOUS
  <2> HIDE DEF ReaderStart
  <2>4. QED
    BY <1>2, <2>2, <2>3 DEF TypeOK, streamVars, receiverVars, idVars, crbVars, stateVars,
       consumerVars, writerVars
<1>4. StreamInv' /\ AnnouncedBlocks' = AnnouncedBlocks
  BY StreamFrame DEF receiverVars
<1>5. ReceiverInv'
  BY ReceiverFrame DEF receiverVars
<1>6. IdInv'
  BY <1>4, IdFrame DEF receiverVars
<1>7. ReaderInv'
  BY <1>2, <1>4 DEF ReaderInv, stateVars
<1>8. RingInv' /\ Ring' = Ring /\ ConsumerInv' /\ Left' = Left /\ WriterInv'
  BY OutputFrame
<1>9. PlaceInv'
  BY <1>8, PlaceFrame DEF receiverVars, streamVars
<1>10. EndInv'
  <2>1. /\ UNCHANGED <<recv_exit, recv_avail, reader_item, receiver_pc, buffer, tail, num_avail_elements>>
        /\ reader_exit' = (reader_exit \/ reader_blk_num = 0)
    BY DEF idVars, receiverVars, crbVars
  <2> HIDE DEF ReaderStart
  <2>2. reader_blk_num = 0 => recv_avail = 0 /\ \A q \in Readers : reader_item[q] = None
    BY NoQuota
  <2>3. QED
    BY <2>1, <2>2 DEF EndInv, Slot
<1>11. QED
  BY <1>3, <1>4, <1>5, <1>6, <1>7, <1>8, <1>9, <1>10

LEMMA ReaderTakeInv ==
  ASSUME AnalysisInv, NEW r \in Readers, ReaderTake(r)
  PROVE  AnalysisInv'
<1> USE DEF AnalysisInv, ReaderTake, Goto
<1> DEFINE x == prefetch_id_array[recv_tail + 1]
<1>1. /\ reader_pc \in [Readers -> {"start", "top", "get", "check", "sleep", "read", "put", "done"}]
      /\ reader_item \in [Readers -> Blocks \cup {None}]
      /\ prefetch_id_array \in Seq(Blocks)
      /\ recv_tail \in Nat /\ recv_avail \in Nat \ {0}
      /\ Len(prefetch_id_array) = recv_tail + recv_avail
      /\ recv_tail' = recv_tail + 1 /\ recv_avail' = recv_avail - 1
      /\ reader_item' = [reader_item EXCEPT ![r] = x]
      /\ reader_pc' = [reader_pc EXCEPT ![r] = "read"]
      /\ reader_item[r] = None
  BY DEF TypeOK, IdInv, ReaderInv
<1>2. /\ x \in Blocks /\ x # None
      /\ x \in Range(prefetch_id_array)
      /\ x \in InArray
  <2>1. recv_tail + 1 \in 1..Len(prefetch_id_array) /\ 1 \in 1..recv_avail
    BY <1>1
  <2>2. x \in Blocks /\ x \in Range(prefetch_id_array)
    BY <1>1, <2>1 DEF Range
  <2>3. x \in InArray
    BY <2>1 DEF InArray
  <2>4. x # None
    BY <2>2, ItemKinds DEF Items
  <2>5. QED
    BY <2>2, <2>3, <2>4
<1>3. InArray' = InArray \ {x}
  <2>1. DOMAIN prefetch_id_array = 1..(recv_tail + recv_avail)
    BY <1>1
  <2>2. \A k \in 1..recv_avail' : k + 1 \in 1..recv_avail /\ recv_tail' + k = recv_tail + (k + 1)
                                  /\ recv_tail + (k + 1) \in 1..(recv_tail + recv_avail)
                                  /\ recv_tail + 1 \in 1..(recv_tail + recv_avail)
                                  /\ recv_tail + (k + 1) # recv_tail + 1
    BY <1>1
  <2>3. \A k \in 1..recv_avail : k = 1 \/ (k - 1 \in 1..recv_avail' /\ recv_tail + k = recv_tail' + (k - 1))
    BY <1>1
  <2>4. \A i, j \in 1..(recv_tail + recv_avail) :
          prefetch_id_array[i] = prefetch_id_array[j] => i = j
    BY <2>1 DEF IdInv, IsInjective
  <2>5. prefetch_id_array' = prefetch_id_array
    OBVIOUS
  <2> HIDE DEF AnalysisInv, ReaderTake
  <2>6. InArray' \subseteq InArray \ {x}
    BY <2>2, <2>4, <2>5 DEF InArray
  <2>7. InArray \ {x} \subseteq InArray'
    BY <2>3, <2>5 DEF InArray
  <2>8. QED
    BY <2>6, <2>7
<1> HIDE DEF x
<1>4. TypeOK'
  <2>1. /\ reader_pc' \in [Readers -> {"start", "top", "get", "check", "sleep", "read", "put", "done"}]
        /\ reader_item' \in [Readers -> Blocks \cup {None}]
        /\ recv_tail' \in Nat /\ recv_avail' \in Nat
    BY <1>1, <1>2
  <2>2. id_lock' \in Threads \cup {None}
    OBVIOUS
  <2>3. QED
    BY <2>1, <2>2 DEF TypeOK, streamVars, receiverVars, exitVars, crbVars, stateVars, consumerVars,
       writerVars
<1>5. StreamInv' /\ AnnouncedBlocks' = AnnouncedBlocks
  BY StreamFrame DEF receiverVars, exitVars
<1>6. ReceiverInv'
  BY ReceiverFrame DEF receiverVars, exitVars
<1>7. IdInv'
  BY <1>1, <1>5 DEF IdInv, receiverVars
<1>8. ReaderInv'
  <2>1. x \in AnnouncedBlocks
    BY <1>2 DEF IdInv
  <2>2. \A q \in Readers : reader_item[q] # x
    BY <1>1, <1>2 DEF PlaceInv, InReaders, Range
  <2>3. on_disk' = on_disk
    BY DEF stateVars
  <2>4. \A q \in Readers : /\ reader_item'[q] = IF q = r THEN x ELSE reader_item[q]
                           /\ reader_pc'[q] = IF q = r THEN "read" ELSE reader_pc[q]
    BY <1>1
  <2> HIDE DEF ReaderTake
  <2>5. QED
    BY <1>2, <1>5, <2>1, <2>2, <2>3, <2>4 DEF ReaderInv
<1>9. RingInv' /\ Ring' = Ring /\ ConsumerInv' /\ Left' = Left /\ WriterInv'
  BY OutputFrame
<1>10. PlaceInv'
  <2>1. InReaders' = InReaders \cup {x}
    <3>1. \A q \in Readers : reader_item'[q] = IF q = r THEN x ELSE reader_item[q]
      BY <1>1
    <3>2. DOMAIN reader_item = Readers /\ DOMAIN reader_item' = Readers
      BY <1>1
    <3> HIDE DEF ReaderTake, AnalysisInv
    <3>3. QED
      BY <1>1, <1>2, <3>1, <3>2 DEF InReaders, Range
  <2>2. InReceiver' = InReceiver /\ HandedOver' = HandedOver
    BY DEF InReceiver, HandedOver, receiverVars, streamVars
  <2> HIDE DEF ReaderTake
  <2>3. QED
    BY <1>2, <1>3, <1>9, <2>1, <2>2 DEF PlaceInv
<1>11. EndInv'
  BY <1>1 DEF EndInv, exitVars, receiverVars, crbVars, Slot
<1>12. QED
  BY <1>4, <1>5, <1>6, <1>7, <1>8, <1>9, <1>10, <1>11

LEMMA ReaderGivesUpInv ==
  ASSUME AnalysisInv, NEW r \in Readers, ReaderGivesUp(r)
  PROVE  AnalysisInv'
<1> USE DEF AnalysisInv, ReaderGivesUp, Goto
<1>1. reader_pc \in [Readers -> {"start", "top", "get", "check", "sleep", "read", "put", "done"}]
  BY DEF TypeOK
<1>2. /\ reader_pc' \in [Readers -> {"start", "top", "get", "check", "sleep", "read", "put", "done"}]
      /\ \A q \in Readers : reader_pc'[q] \in {"read", "put"} <=> reader_pc[q] \in {"read", "put"}
      /\ \A q \in Readers : reader_pc'[q] = "put" => reader_pc[q] = "put"
  BY <1>1
<1>3. TypeOK'
  <2>1. reader_exit' \in BOOLEAN /\ UNCHANGED <<recv_exit, ana_writer_exit>>
    OBVIOUS
  <2>2. <<recv_exit, reader_exit, ana_writer_exit>>' \in BOOLEAN \X BOOLEAN \X BOOLEAN
    BY <2>1 DEF TypeOK
  <2>3. UNCHANGED <<streamVars, receiverVars, idVars, id_lock, reader_item, read_file_cnt, crbVars,
                    stateVars, consumerVars, writerVars, waiting, freed, stored>>
    OBVIOUS
  <2>4. TypeOK
    OBVIOUS
  <2> HIDE DEF AnalysisInv, ReaderGivesUp, Goto
  <2>5. QED
    BY <1>2, <2>2, <2>3, <2>4 DEF TypeOK, streamVars, receiverVars, idVars, crbVars, stateVars,
       consumerVars, writerVars
<1>4. StreamInv' /\ AnnouncedBlocks' = AnnouncedBlocks
  BY StreamFrame DEF receiverVars
<1>5. ReceiverInv'
  BY ReceiverFrame DEF receiverVars
<1>6. IdInv'
  BY <1>4, IdFrame DEF receiverVars
<1>7. ReaderInv'
  BY <1>2, <1>4 DEF ReaderInv, stateVars
<1>8. RingInv' /\ Ring' = Ring /\ ConsumerInv' /\ Left' = Left /\ WriterInv'
  BY OutputFrame
<1>9. PlaceInv'
  BY <1>8, PlaceFrame DEF receiverVars, streamVars
<1>10. EndInv'
  <2>1. SingleReader => \A q \in Readers : reader_item[q] = None
    BY DEF SingleReader, ReaderInv
  <2>2. /\ recv_avail = 0 /\ recv_exit /\ reader_exit'
        /\ UNCHANGED <<recv_exit, recv_avail, reader_item, receiver_pc, buffer, tail, num_avail_elements>>
    BY DEF idVars, receiverVars, crbVars
  <2> HIDE DEF ReaderGivesUp
  <2>3. QED
    BY <2>1, <2>2 DEF EndInv, Slot
<1>11. QED
  BY <1>3, <1>4, <1>5, <1>6, <1>7, <1>8, <1>9, <1>10

LEMMA ReaderReadInv ==
  ASSUME AnalysisInv, NEW r \in Readers, ReaderRead(r)
  PROVE  AnalysisInv'
<1> USE DEF AnalysisInv, ReaderRead, Goto
<1> DEFINE x == reader_item[r]
<1>1. /\ reader_pc \in [Readers -> {"start", "top", "get", "check", "sleep", "read", "put", "done"}]
      /\ reader_item \in [Readers -> Blocks \cup {None}]
      /\ x \in Blocks /\ x # None /\ x \in AnnouncedBlocks
      /\ x \in InReaders
  BY DEF TypeOK, ReaderInv, InReaders, Range
<1>2. x \notin Ring /\ x \notin Left
  BY <1>1 DEF PlaceInv
<1>3. num_avail_elements > 0 => buffer[tail] \in Ring
  <2>1. num_avail_elements > 0 => 0 \in Filled
    BY DEF TypeOK, Filled
  <2>2. Slot(0) = tail
    BY Slots
  <2>3. QED
    BY <2>1, <2>2 DEF Ring
<1>4. x \notin calc_done
  BY <1>1, <1>2, <1>3 DEF ConsumerInv
<1>5. calc_done' = calc_done /\ on_disk' = on_disk \cup {x}
  BY <1>4
<1>6. /\ reader_pc' \in [Readers -> {"start", "top", "get", "check", "sleep", "read", "put", "done"}]
      /\ \A q \in Readers : reader_pc'[q] = IF q = r THEN "put" ELSE reader_pc[q]
  BY <1>1
<1>7. TypeOK'
  <2>1. on_disk' \subseteq Items /\ calc_done' \subseteq Items
    BY <1>1, <1>5 DEF TypeOK, Items
  <2>2. read_file_cnt' \in [Readers -> Nat]
    BY DEF TypeOK
  <2>3. QED
    BY <1>6, <2>1, <2>2 DEF TypeOK, streamVars, receiverVars, idVars, exitVars, crbVars, consumerVars,
       writerVars
<1> HIDE DEF x
<1>8. StreamInv' /\ AnnouncedBlocks' = AnnouncedBlocks
  BY StreamFrame DEF receiverVars, exitVars
<1>9. ReceiverInv' /\ IdInv'
  BY <1>8, ReceiverFrame, IdFrame DEF receiverVars, exitVars
<1>10. ReaderInv'
  <2>1. reader_item' = reader_item /\ reader_pc[r] = "read" /\ reader_item[r] = x
    BY DEF x
  <2> HIDE DEF ReaderRead
  <2>2. QED
    BY <1>5, <1>6, <1>8, <2>1 DEF ReaderInv
<1>11. RingInv' /\ Ring' = Ring /\ TailStays /\ EndInv'
  BY RingFrame, EndFrame DEF TailStays, exitVars, idVars, receiverVars
<1>12. ConsumerInv' /\ Left' = Left
  BY <1>5, <1>11, ConsumerFrame
<1>13. WriterInv'
  <2>1. x \in stored
    BY <1>1 DEF StreamInv
  <2>2. \A w \in Writers : SingleWriter /\ writer_item[w] # None => writer_item[w] # x
    BY <1>2, <1>3 DEF WriterInv
  <2>3. UNCHANGED <<writer_pc, writer_item, stored>>
    BY DEF writerVars
  <2> HIDE DEF ReaderRead
  <2>4. QED
    BY <1>5, <1>11, <1>12, <2>1, <2>2, <2>3 DEF WriterInv, TailStays
<1>14. PlaceInv'
  BY <1>11, <1>12, PlaceFrame DEF receiverVars, streamVars
<1>15. QED
  BY <1>7, <1>8, <1>9, <1>10, <1>11, <1>12, <1>13, <1>14

LEMMA ReaderPutInv ==
  ASSUME AnalysisInv, NEW r \in Readers, ReaderPut(r)
  PROVE  AnalysisInv'
<1> USE DEF AnalysisInv, ReaderPut, Goto
<1> DEFINE x == reader_item[r]
<1>1. /\ reader_pc \in [Readers -> {"start", "top", "get", "check", "sleep", "read", "put", "done"}]
      /\ reader_item \in [Readers -> Blocks \cup {None}]
      /\ x \in Blocks /\ x # None /\ x \in Items
      /\ x \in InReaders
      /\ Put(x)
  BY DEF TypeOK, ReaderInv, InReaders, Range, Items
<1>2. x \notin Ring
  BY <1>1 DEF PlaceInv
<1> HIDE DEF x
<1>3. /\ RingInv' /\ Ring' = Ring \cup {x} /\ TailStays
      /\ buffer' \in [0..(bufsize - 1) -> Items \cup {None}]
      /\ head' \in 0..(bufsize - 1) /\ tail' \in 0..(bufsize - 1)
      /\ num_avail_elements' \in 0..bufsize
      /\ waiting' \subseteq waiting
  <2> HIDE DEF AnalysisInv, ReaderPut
  <2>1. TypeOK /\ RingInv
    BY DEF AnalysisInv
  <2>2. QED
    BY <1>1, <1>2, <2>1, PutRing DEF TailStays
<1>4. /\ reader_pc' \in [Readers -> {"start", "top", "get", "check", "sleep", "read", "put", "done"}]
      /\ reader_item' \in [Readers -> Blocks \cup {None}]
      /\ \A q \in Readers : q # r => reader_pc'[q] = reader_pc[q] /\ reader_item'[q] = reader_item[q]
      /\ reader_pc'[r] \notin {"read", "put"} /\ reader_item'[r] = None
      /\ reader_item[r] = x
  BY <1>1 DEF x
<1>5. TypeOK'
  <2>1. waiting' \in SUBSET Threads /\ TypeOK
    BY <1>3 DEF TypeOK
  <2>2. UNCHANGED <<streamVars, receiverVars, idVars, id_lock, exitVars, read_file_cnt,
                    stateVars, consumerVars, writerVars, freed, stored>>
    OBVIOUS
  <2> HIDE DEF AnalysisInv, ReaderPut
  <2>3. QED
    BY <1>3, <1>4, <2>1, <2>2 DEF TypeOK, streamVars, receiverVars, idVars, exitVars, stateVars,
       consumerVars, writerVars
<1>6. StreamInv' /\ AnnouncedBlocks' = AnnouncedBlocks
  BY StreamFrame DEF receiverVars, exitVars
<1>7. ReceiverInv' /\ IdInv'
  BY <1>6, ReceiverFrame, IdFrame DEF receiverVars, exitVars
<1>8. ReaderInv'
  <2>1. on_disk' = on_disk
    BY DEF stateVars
  <2> HIDE DEF ReaderPut
  <2>2. QED
    BY <1>4, <1>6, <2>1 DEF ReaderInv
<1>9. ConsumerInv' /\ Left' = Left
  BY <1>3, ConsumerFrame DEF stateVars
<1>10. WriterInv'
  BY <1>3, <1>9, WriterFrame DEF stateVars
<1>11. PlaceInv'
  <2>1. InReaders' = InReaders \ {x}
    <3>1. \A q \in Readers : q # r => reader_item[q] # x
      BY <1>1, <1>4 DEF ReaderInv
    <3>2. DOMAIN reader_item = Readers /\ DOMAIN reader_item' = Readers
      BY <1>4, <1>1
    <3> HIDE DEF ReaderPut, AnalysisInv
    <3>3. QED
      BY <1>4, <3>1, <3>2 DEF InReaders, Range
  <2>2. InReceiver' = InReceiver /\ InArray' = InArray /\ HandedOver' = HandedOver
    BY DEF InReceiver, InArray, HandedOver, receiverVars, idVars, streamVars
  <2> HIDE DEF ReaderPut
  <2>3. QED
    BY <1>1, <1>3, <1>9, <2>1, <2>2 DEF PlaceInv
<1>12. EndInv'
  <2>1. UNCHANGED <<reader_exit, recv_exit, recv_avail, receiver_pc>>
    BY DEF exitVars, idVars, receiverVars
  <2>2. SingleReader => ~(reader_exit /\ recv_exit)
    BY <1>1 DEF EndInv, x
  <2>3. receiver_pc = "done" => recv_exit /\ reader_exit
    BY DEF ReceiverInv
  <2> HIDE DEF ReaderPut
  <2>4. QED
    BY <1>4, <2>1, <2>2, <2>3 DEF EndInv
<1>13. QED
  BY <1>3, <1>5, <1>6, <1>7, <1>8, <1>9, <1>10, <1>11, <1>12

-----------------------------------------------------------------------------
(* The consumer and the analysis writers.                                   *)

LEMMA OutputInv ==
  ASSUME AnalysisInv, OutputKept
  PROVE  AnalysisInv'
<1> USE DEF AnalysisInv
<1>1. /\ CoreInv' /\ Ring' \cup Left' = Ring \cup Left
      /\ UNCHANGED InputVars
      /\ stored \subseteq stored' /\ on_disk \subseteq on_disk'
      /\ num_avail_elements' > 0 =>
           /\ num_avail_elements > 0
           /\ buffer'[Slot(num_avail_elements - 1)'] = buffer[Slot(num_avail_elements - 1)]
  BY DEF OutputKept
<1>2. AnnouncedBlocks' = AnnouncedBlocks
  BY <1>1, CoreOf, InputFrame
<1>3. IdInv' /\ ReaderInv'
  BY <1>1, <1>2, IdFrame, ReaderFrame DEF InputVars, receiverVars
<1>4. PlaceInv'
  <2>1. InReceiver' = InReceiver /\ InArray' = InArray /\ InReaders' = InReaders
        /\ HandedOver' = HandedOver
    BY <1>1 DEF InReceiver, InArray, InReaders, HandedOver, InputVars, receiverVars, idVars, streamVars
  <2>2. Ring' \cap Left' = {}
    BY <1>1 DEF CoreInv
  <2>3. QED
    BY <1>1, <2>1, <2>2 DEF PlaceInv
<1>5. EndInv'
  <2>1. UNCHANGED <<reader_exit, recv_exit, recv_avail, reader_item, receiver_pc>>
    BY <1>1 DEF InputVars, idVars, receiverVars
  <2>2. QED
    BY <1>1, <2>1 DEF EndInv
<1>6. QED
  BY <1>1, <1>3, <1>4, <1>5 DEF CoreInv

-----------------------------------------------------------------------------
(* The invariant.                                                           *)

LEMMA InitInv == Init => AnalysisInv
<1> SUFFICES ASSUME Init PROVE AnalysisInv
  OBVIOUS
<1> USE DEF Init
<1>1. /\ Range(recv_ids) = {} /\ Range(prefetch_id_array) = {}
      /\ IsInjective(recv_ids) /\ IsInjective(prefetch_id_array)
      /\ Len(prefetch_id_array) = 0
  BY DEF Range, IsInjective
<1>2. Filled = {} /\ Ring = {}
  BY DEF Filled, Ring
<1>3. TypeOK
  <2>1. /\ 0 \in 0..computer_group_size /\ 0 \in 0..(bufsize - 1) /\ 0 \in 0..bufsize
    BY Bounds, GroupSize
  <2>2. recv_ids \in Seq(Blocks) /\ prefetch_id_array \in Seq(Blocks)
    OBVIOUS
  <2>3. /\ num_exit_flag \in 0..computer_group_size /\ exits_got \in 0..computer_group_size
        /\ head \in 0..(bufsize - 1) /\ tail \in 0..(bufsize - 1)
        /\ num_avail_elements \in 0..bufsize
        /\ recv_tail \in Nat /\ recv_avail \in Nat /\ calc_counter \in Nat
    BY <2>1
  <2>4. /\ pending \in [Sources -> SUBSET (0..(cpt_total_blks - 1))]
        /\ announced \in [Sources -> SUBSET (0..(cpt_total_blks - 1))]
        /\ phase \in [Sources -> {"open", "closed"}]
        /\ reader_pc \in [Readers -> {"start", "top", "get", "check", "sleep", "read", "put", "done"}]
        /\ reader_item \in [Readers -> Blocks \cup {None}]
        /\ read_file_cnt \in [Readers -> Nat]
        /\ buffer \in [0..(bufsize - 1) -> Items \cup {None}]
        /\ writer_pc \in [Writers -> {"read", "write", "mark", "check", "done"}]
        /\ writer_item \in [Writers -> Items \cup {None}]
    OBVIOUS
  <2>5. QED
    BY <2>2, <2>3, <2>4 DEF TypeOK
<1>4. AnnouncedBlocks = {} /\ Closed = {}
  <2>1. \A p \in Blocks : p[1] \in Sources
    BY ItemKinds DEF Items
  <2>2. QED
    BY <2>1 DEF AnnouncedBlocks, Closed
<1>5. StreamInv
  <2>1. Cardinality({}) = 0
    BY FS_EmptySet
  <2>2. QED
    BY <1>4, <2>1, Bounds, GroupSize DEF StreamInv
<1>6. ReceiverInv /\ ReaderInv
  BY DEF ReceiverInv, ReaderInv
<1>7. IdInv
  BY <1>1 DEF IdInv
<1>8. RingInv
  BY <1>2, Bounds DEF RingInv, Slot
<1>9. Left = {}
  BY DEF Left
<1>10. ConsumerInv
  <2>1. Cardinality({}) = 0
    BY FS_EmptySet
  <2>2. calc_done \cap Blocks = {} /\ freed \cap Exits = {} /\ Left \cap Blocks = {}
    BY <1>9
  <2>3. QED
    BY <1>9, <2>1, <2>2, GroupSize DEF ConsumerInv
<1>11. WriterInv
  BY <1>9 DEF WriterInv
<1>12. PlaceInv
  <2>1. InReceiver = {} /\ InReaders = {} /\ InArray = {}
    BY <1>1 DEF InReceiver, InReaders, InArray, Range
  <2>2. HandedOver = {}
    <3>1. ASSUME NEW p \in Items PROVE p \notin HandedOver
      <4>1. p[1] \in Sources
        BY ItemKinds
      <4>2. CASE p \in Exits
        BY <4>1, <4>2, ItemKinds DEF HandedOver
      <4>3. CASE p \in Blocks
        BY <4>1, <4>3, ItemKinds DEF HandedOver
      <4>4. QED
        BY <4>2, <4>3 DEF Items
    <3>2. QED
      BY <3>1 DEF HandedOver
  <2>3. QED
    BY <1>2, <1>9, <2>1, <2>2 DEF PlaceInv
<1>13. EndInv
  BY DEF EndInv
<1>14. QED
  BY <1>3, <1>5, <1>6, <1>7, <1>8, <1>10, <1>11, <1>12, <1>13 DEF AnalysisInv

LEMMA StepInv == AnalysisInv /\ [Next]_vars => AnalysisInv'
<1> SUFFICES ASSUME AnalysisInv, [Next]_vars PROVE AnalysisInv'
  OBVIOUS
<1>1. CASE Receiver
  BY <1>1, ReceiveBlockInv, ReceiveDiskInv, ReceiveExitInv, MakePrefetchIdInv, WaitForReaderInv,
     ReceiverPutInv, QuietSteps DEF Receiver
<1>2. ASSUME NEW r \in Readers, Reader(r) PROVE AnalysisInv'
  BY <1>2, ReaderStartInv, ReaderTakeInv, ReaderGivesUpInv, ReaderReadInv, ReaderPutInv,
     QuietSteps DEF Reader
<1>3. CASE Consumer
  <2>1. ConsumerMoveTail => MovesTail
    BY DEF ConsumerMoveTail, MovesTail
  <2>2. OutputKept
    BY <1>3, <2>1, CoreOf, OutputSteps DEF Consumer
  <2>3. QED
    BY <2>2, OutputInv
<1>4. ASSUME NEW w \in Writers, Writer(w) PROVE AnalysisInv'
  BY <1>4, CoreOf, OutputSteps, OutputInv
<1>5. CASE SpuriousWakeup
  BY <1>5, CoreOf, OutputSteps, OutputInv
<1>6. CASE UNCHANGED vars
  BY <1>6, QuietSteps
<1>7. QED
  BY <1>1, <1>2, <1>3, <1>4, <1>5, <1>6 DEF Next, Finished

\* Whatever the threads of the analysis process and the compute processes do,
\* the parts of AnalysisInv hold together.
THEOREM AnalysisInvariant_Holds == Spec => []AnalysisInv
<1>1. QED
  BY InitInv, StepInv, PTL DEF Spec

-----------------------------------------------------------------------------
(* What follows from it.                                                    *)

THEOREM AnalysisTypes == Spec => []TypeOK
<1>1. AnalysisInv => TypeOK
  BY DEF AnalysisInv
<1>2. QED
  BY <1>1, AnalysisInvariant_Holds, PTL

LEMMA WholeInv == ASSUME AnalysisInv PROVE ItemsConserved
<1>1. InRing = Ring /\ Cardinality(Ring) = num_avail_elements
  BY RingCount DEF AnalysisInv
<1>2. DOMAIN Places = 1..5
  BY DEF Places
<1>3. \A i \in 1..5 : i = 1 \/ i = 2 \/ i = 3 \/ i = 4 \/ i = 5
  OBVIOUS
<1>4. /\ Places[1] = InReceiver /\ Places[2] = InArray /\ Places[3] = InReaders
      /\ Places[4] = Ring /\ Places[5] = Left
  BY <1>1 DEF Places
<1>5. UNION {Places[i] : i \in DOMAIN Places} = InReceiver \cup InArray \cup InReaders \cup Ring \cup Left
  BY <1>2, <1>3, <1>4
<1>6. \A i, j \in DOMAIN Places : i # j => Places[i] \cap Places[j] = {}
  <2>1. ASSUME NEW i \in 1..5, NEW j \in 1..5, i # j PROVE Places[i] \cap Places[j] = {}
    BY <1>3, <1>4, <2>1 DEF AnalysisInv, PlaceInv
  <2>2. QED
    BY <1>2, <2>1
<1>7. QED
  BY <1>1, <1>5, <1>6 DEF ItemsConserved, AnalysisInv, PlaceInv

\* The receiver and the readers fill one ring buffer from two directions, and
\* no item is lost, kept twice or put twice.
THEOREM ItemsStayWhole == Spec => []ItemsConserved
<1>1. AnalysisInv => ItemsConserved
  BY WholeInv
<1>2. QED
  BY <1>1, AnalysisInvariant_Holds, PTL

\* A buffer is released only when it is on disk.
THEOREM Preserved == Spec => []PreservedBeforeFree
<1>1. AnalysisInv => PreservedBeforeFree
  BY DEF AnalysisInv, WriterInv, PreservedBeforeFree
<1>2. QED
  BY <1>1, AnalysisInvariant_Holds, PTL

\* With one analysis writer, as the job scripts configure it, nobody goes on
\* with a buffer that the consumer has given back.
THEOREM NoUse == ASSUME SingleWriter PROVE Spec => []NoUseAfterFree
<1>1. AnalysisInv => NoUseAfterFree
  <2> SUFFICES ASSUME AnalysisInv PROVE NoUseAfterFree
    OBVIOUS
  <2>1. InRing = Ring
    BY RingCount DEF AnalysisInv
  <2>2. /\ freed \subseteq Left /\ freed \cap (Range(writer_item) \ {None}) = {}
        /\ consumer_pc # "read" => pointer \notin freed
    BY CoreOf, NotAfterFree
  <2>3. freed \cap (Ring \cup InReceiver \cup InReaders) = {}
    BY <2>2 DEF AnalysisInv, PlaceInv
  <2>4. QED
    BY <2>1, <2>2, <2>3 DEF NoUseAfterFree
<1>2. QED
  BY <1>1, AnalysisInvariant_Holds, PTL

\* Once the consumer has released as many EXIT blocks as there are sources,
\* nothing is anywhere but among what it has released: the one reader has put
\* everything before the receiver puts the last EXIT block.
LEMMA LastExit ==
  ASSUME SingleReader, AnalysisInv, consumer_pc \in {"quit", "signal", "done"}
  PROVE  receiver_pc = "done" /\ freed = Items
<1> USE DEF AnalysisInv
<1>1. exits_got = computer_group_size /\ Left = freed
  BY GroupSize DEF ConsumerInv, TypeOK, Left
<1>2. freed \cap Exits = Exits
  <2>1. Cardinality(freed \cap Exits) = Cardinality(Exits)
    BY <1>1, ItemCount DEF ConsumerInv
  <2> HIDE DEF AnalysisInv
  <2>2. freed \cap Exits \subseteq Exits /\ IsFiniteSet(Exits)
    BY ItemCount
  <2>3. QED
    BY <2>1, <2>2, FS_Subset
<1>3. freed \subseteq HandedOver
  BY <1>1 DEF PlaceInv
<1>4. \A s \in Sources : phase[s] = "closed"
  <2>1. ASSUME NEW s \in Sources PROVE phase[s] = "closed"
    <3>1. <<s, EXIT_BLK_ID>> \in HandedOver /\ IsExit(<<s, EXIT_BLK_ID>>)
      BY <1>2, <1>3, ItemKinds DEF Items
    <3>2. QED
      BY <3>1 DEF HandedOver
  <2>2. QED
    BY <2>1
<1>5. recv_exit /\ HandedOver = Items
  <2>1. Closed = Sources
    BY <1>4 DEF Closed
  <2>2. recv_exit
    BY <2>1, GroupSize DEF StreamInv
  <2>3. \A p \in Items : p \in HandedOver
    <3>1. ASSUME NEW p \in Items PROVE p \in HandedOver
      <4>1. p[1] \in Sources
        BY ItemKinds
      <4>2. phase[p[1]] = "closed" /\ pending[p[1]] = {}
        BY <1>4, <4>1 DEF StreamInv
      <4>3. QED
        BY <4>2 DEF HandedOver
    <3>2. QED
      BY <3>1
  <2>4. QED
    BY <2>2, <2>3 DEF HandedOver
<1>6. recv_item = None
  <2>1. recv_item \in Exits => recv_item \in InReceiver /\ recv_item \in Left
    BY <1>1, <1>2, ItemKinds DEF InReceiver, Items
  <2>2. recv_item \notin Exits
    BY <2>1 DEF PlaceInv
  <2>3. QED
    BY <1>5, <2>2 DEF ReceiverInv
<1>7. receiver_pc = "done" /\ reader_exit /\ recv_ids = <<>>
  BY <1>5, <1>6 DEF ReceiverInv, TypeOK
<1>8. InReceiver = {} /\ InArray = {} /\ InReaders = {}
  <2>1. InReceiver = {}
    BY <1>6, <1>7, RangeOfSeq DEF InReceiver, Range
  <2>2. recv_avail = 0 /\ \A r \in Readers : reader_item[r] = None
    BY <1>5, <1>7, SingleReader DEF EndInv
  <2>3. InArray = {}
    BY <2>2 DEF InArray
  <2>4. InReaders = {}
    BY <2>2 DEF InReaders, Range, TypeOK
  <2>5. QED
    BY <2>1, <2>3, <2>4
<1>9. Ring = {}
  <2>1. num_avail_elements \in 0..bufsize /\ bufsize \in Nat \ {0}
    BY Bounds DEF TypeOK
  <2>2. ASSUME num_avail_elements > 0 PROVE FALSE
    <3>1. num_avail_elements - 1 \in Filled
      BY <2>1, <2>2 DEF Filled
    <3>2. buffer[Slot(num_avail_elements - 1)] \in Ring
      BY <3>1 DEF Ring
    <3>3. buffer[Slot(num_avail_elements - 1)] \in Exits
      BY <1>7, <2>2, SingleReader DEF EndInv
    <3>4. QED
      BY <1>1, <1>2, <3>2, <3>3 DEF PlaceInv
  <2>3. Filled = {}
    BY <2>1, <2>2 DEF Filled
  <2>4. QED
    BY <2>3 DEF Ring
<1>10. QED
  BY <1>1, <1>5, <1>7, <1>8, <1>9 DEF PlaceInv

\* With one reader, as the job scripts configure it, the consumer leaves when
\* every block of every source has been analysed and released, and the receiver
\* has left before it.
THEOREM LeavesLast == ASSUME SingleReader PROVE Spec => []ConsumerLeavesLast
<1>1. AnalysisInv => ConsumerLeavesLast
  <2> SUFFICES ASSUME AnalysisInv, consumer_pc \in {"quit", "signal", "done"}
               PROVE  calc_counter = ana_total_blks /\ freed = Items /\ receiver_pc = "done"
    BY DEF ConsumerLeavesLast
  <2>1. receiver_pc = "done" /\ freed = Items
    BY SingleReader, LastExit
  <2>2. Left = freed
    BY DEF Left
  <2>3. calc_done \cap Blocks = Blocks
    BY <2>1, <2>2 DEF AnalysisInv, ConsumerInv, Items
  <2>4. Cardinality(Blocks) = ana_total_blks /\ calc_counter = Cardinality(calc_done \cap Blocks) + 0
    BY ItemCount DEF AnalysisInv, ConsumerInv
  <2>5. Cardinality(Blocks) \in Nat
    BY ItemCount, FS_CardinalityType
  <2>6. calc_counter = ana_total_blks
    <3>1. calc_counter = Cardinality(Blocks) + 0
      BY <2>3, <2>4, Zenon
    <3>2. QED
      BY <2>4, <2>5, <3>1
  <2>7. QED
    BY <2>1, <2>6
<1>2. QED
  BY <1>1, AnalysisInvariant_Holds, PTL

\* prefetch_id_array has room for reader_blk_num identifiers and never needs
\* more: every identifier in it is a block its source has announced, at most
\* once, and a source announces at most its quota.
THEOREM ArrayFits == Spec => []PrefetchArrayFits
<1>1. AnalysisInv => PrefetchArrayFits
  <2> SUFFICES ASSUME AnalysisInv PROVE Len(prefetch_id_array) <= reader_blk_num
    BY DEF PrefetchArrayFits
  <2> DEFINE n == Len(prefetch_id_array)
             quota == 1..writer_blk_num
  <2>1. /\ prefetch_id_array \in Seq(Blocks) /\ IsInjective(prefetch_id_array)
        /\ Range(prefetch_id_array) \subseteq AnnouncedBlocks
        /\ n \in Nat /\ DOMAIN prefetch_id_array = 1..n
    BY DEF AnalysisInv, TypeOK, IdInv
  <2>2. IsFiniteSet(quota) /\ Cardinality(quota) = writer_blk_num
    BY Bounds, FS_Interval
  <2>3. \A s \in Sources : \E g \in [announced[s] -> quota] :
          \A b, c \in announced[s] : g[b] = g[c] => b = c
    <3>1. ASSUME NEW s \in Sources
          PROVE  \E g \in [announced[s] -> quota] : \A b, c \in announced[s] : g[b] = g[c] => b = c
      <4>1. announced[s] \subseteq 0..(cpt_total_blks - 1) /\ Cardinality(announced[s]) <= writer_blk_num
        BY DEF AnalysisInv, TypeOK, StreamInv
      <4>2. IsFiniteSet(0..(cpt_total_blks - 1))
        BY Bounds, FS_Interval
      <4>3. IsFiniteSet(announced[s]) /\ Cardinality(announced[s]) \in Nat
        BY <4>1, <4>2, FS_Subset, FS_CardinalityType
      <4>4. /\ IsFiniteSet(1..Cardinality(announced[s]))
            /\ Cardinality(1..Cardinality(announced[s])) = Cardinality(announced[s])
            /\ 1..Cardinality(announced[s]) \subseteq quota
        <5>1. \A a, q \in Nat : a <= q => 1..a \subseteq 1..q
          OBVIOUS
        <5>2. \A a \in Nat : IsFiniteSet(1..a) /\ Cardinality(1..a) = a
          BY FS_Interval
        <5>3. QED
          BY <4>1, <4>3, <5>1, <5>2, Bounds
      <4>5. ExistsBijection(announced[s], 1..Cardinality(announced[s]))
        BY <4>3, <4>4, FS_SameCardinalityBij
      <4>6. PICK g : g \in Bijection(announced[s], 1..Cardinality(announced[s]))
        BY <4>5 DEF ExistsBijection
      <4>7. g \in [announced[s] -> quota]
        BY <4>4, <4>6 DEF Bijection, Injection
      <4>8. \A b, c \in announced[s] : g[b] = g[c] => b = c
        BY <4>6 DEF Bijection, Injection, IsInjective
      <4>9. QED
        BY <4>7, <4>8
    <3>2. QED
      BY <3>1
  <2> HIDE DEF quota
  <2> DEFINE G == [s \in Sources |-> CHOOSE g \in [announced[s] -> quota] :
                      \A b, c \in announced[s] : g[b] = g[c] => b = c]
  <2>4. \A s \in Sources : /\ G[s] \in [announced[s] -> quota]
                           /\ \A b, c \in announced[s] : G[s][b] = G[s][c] => b = c
    BY <2>3
  <2> HIDE DEF G
  <2>5. \A k \in 1..n : /\ prefetch_id_array[k][1] \in Sources
                        /\ prefetch_id_array[k][2] \in announced[prefetch_id_array[k][1]]
                        /\ prefetch_id_array[k] = <<prefetch_id_array[k][1], prefetch_id_array[k][2]>>
    <3>1. ASSUME NEW k \in 1..n PROVE prefetch_id_array[k] \in AnnouncedBlocks
      BY <2>1 DEF Range
    <3>2. \A p \in AnnouncedBlocks : p[1] \in Sources /\ p[2] \in announced[p[1]] /\ p = <<p[1], p[2]>>
      BY ItemKinds DEF AnnouncedBlocks, Items
    <3>3. QED
      BY <3>1, <3>2
  <2> DEFINE f == [k \in 1..n |-> <<prefetch_id_array[k][1],
                                    G[prefetch_id_array[k][1]][prefetch_id_array[k][2]]>>]
  <2>6. f \in [1..n -> Sources \X quota]
    BY <2>4, <2>5
  <2>7. \A i, j \in 1..n : f[i] = f[j] => i = j
    <3>1. ASSUME NEW i \in 1..n, NEW j \in 1..n, f[i] = f[j] PROVE i = j
      <4>1. /\ prefetch_id_array[i][1] = prefetch_id_array[j][1]
            /\ G[prefetch_id_array[i][1]][prefetch_id_array[i][2]]
                 = G[prefetch_id_array[j][1]][prefetch_id_array[j][2]]
        BY <3>1
      <4>2. prefetch_id_array[i][2] = prefetch_id_array[j][2]
        BY <2>4, <2>5, <4>1
      <4>3. prefetch_id_array[i] = prefetch_id_array[j]
        BY <2>5, <4>1, <4>2
      <4>4. QED
        BY <2>1, <4>3 DEF IsInjective
    <3>2. QED
      BY <3>1
  <2> HIDE DEF f
  <2>8. f \in Injection(1..n, Sources \X quota)
    BY <2>6, <2>7 DEF Injection, IsInjective
  <2>9. /\ IsFiniteSet(Sources \X quota)
        /\ Cardinality(Sources \X quota) = Cardinality(Sources) * Cardinality(quota)
    BY <2>2, GroupSize, FS_Product
  <2>10. Cardinality(1..n) = n
    BY <2>1, FS_Interval
  <2>11. Cardinality(1..n) <= Cardinality(Sources \X quota)
    BY <2>8, <2>9, FS_Injection
  <2>12. QED
    BY <2>2, <2>9, <2>10, <2>11 DEF reader_blk_num, computer_group_size
<1>2. QED
  BY <1>1, AnalysisInvariant_Holds, PTL
=============================================================================
