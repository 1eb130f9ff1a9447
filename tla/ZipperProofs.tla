---------------------------- MODULE ZipperProofs ----------------------------
(***************************************************************************)
(* Proofs about Zipper: a compute process with one writer thread and its   *)
(* analysis process, joined by the messages and the file system.  The two  *)
(* inductive invariants, proved for each process in its own module, are    *)
(* kept here as well; what joins them is an invariant of the messages:     *)
(* each one can be taken after the ones before it, and the receiver knows  *)
(* of the stream what the messages it has taken say.                       *)
(***************************************************************************)
EXTENDS Zipper, AnalysisBrokerProofs

\* The proofs of ComputeBroker, about the compute process.
CP == INSTANCE ComputeBrokerProofs WITH
        Writers <- CptWriters, bufsize <- prb_size,
        buffer <- prb_buffer, head <- prb_head, tail <- prb_tail,
        num_avail_elements <- prb_avail, waiting <- cpt_waiting

\* Every job script configures one writer thread.
OneComputeWriter == CP!OneWriter

-----------------------------------------------------------------------------
(* The inductive invariant.                                                 *)

CptBlocks == 0..(cpt_total_blks - 1)

\* What the first n messages of s have handed over and announced, and
\* whether EXIT is among them.
Handed(s, n) == UNION {BlocksOf(s[i]) : i \in 1..n}
Told(s, n)   == UNION {Announced(s[i]) : i \in 1..n}
Phase(s, n)  == IF \E i \in 1..n : s[i].tag = "EXIT_MSG_TAG" THEN "closed" ELSE "open"

\* A stream with p to hand over, a announced and phase ph may go on with m.
Accepts(p, a, ph, m) ==
  CASE m.tag \in {"MPI_MSG_TAG", "MIX_MPI_DISK_TAG"} ->
         /\ MayHandOver(writer_blk_num, p, a, ph, m.blk, Announced(m))
         /\ Wellformed(m)
    [] m.tag = "DISK_TAG" ->
         /\ MayFlush(writer_blk_num, p, a, ph)
         /\ Announced(m) = p
         /\ Wellformed(m)
    [] OTHER -> MayClose(p, ph)

\* What m hands over by its tag.
FitsTag(m) ==
  /\ m.tag \in {"MPI_MSG_TAG", "MIX_MPI_DISK_TAG", "DISK_TAG", "EXIT_MSG_TAG"}
  /\ m.tag = "DISK_TAG" => BlocksOf(m) = Announced(m)
  /\ m.tag = "EXIT_MSG_TAG" => BlocksOf(m) = {}

Goes(s, n) == Accepts(CptBlocks \ Handed(s, n), Told(s, n), Phase(s, n), s[n + 1])

\* Each message can be taken after the ones before it.
MessagesInv == \A n \in 0..(Len(sent) - 1) : Goes(sent, n) /\ FitsTag(sent[n + 1])

\* The receiver's view of the stream is that of the messages it has taken.
ReceivedInv ==
  /\ received \in 0..Len(sent)
  /\ pending[source] = CptBlocks \ Handed(sent, received)
  /\ announced[source] = Told(sent, received)
  /\ phase[source] = Phase(sent, received)

ZipperInv == AnalysisInv /\ CP!IInv /\ MessagesInv /\ ReceivedInv

-----------------------------------------------------------------------------
(* The instance of the proofs of ComputeBroker speaks of the same things as *)
(* the instance of ComputeBroker that Zipper is made of.                    *)

LEMMA SameFiniteness ==
  ASSUME NEW S
  PROVE  /\ CP!IsFiniteSet(S) <=> IsFiniteSet(S)
         /\ CP!Cardinality(S) = Cardinality(S)
  BY DEF CP!IsFiniteSet, IsFiniteSet, CP!Cardinality, Cardinality

LEMMA ComputeHolds == CP!ComputeAssumption
  BY ZipperAssumption, AnalysisAssumption, SameFiniteness

LEMMA SameNext == CP!Next <=> Compute!Next
  BY DEF CP!Next, Compute!Next, CP!Generator, Compute!Generator, CP!Sender, Compute!Sender,
     CP!Writer, Compute!Writer, CP!SpuriousWakeup, Compute!SpuriousWakeup,
     CP!Finished, Compute!Finished, CP!Joined, Compute!Joined,
     CP!GeneratorPut, Compute!GeneratorPut, CP!GeneratorWait, Compute!GeneratorWait,
     CP!SenderGet, Compute!SenderGet, CP!SenderWait, Compute!SenderWait,
     CP!SenderGetNull, Compute!SenderGetNull, CP!SenderCheckIds, Compute!SenderCheckIds,
     CP!SenderSend, Compute!SenderSend, CP!SenderFinal, Compute!SenderFinal,
     CP!SenderDrain, Compute!SenderDrain, CP!SenderDisk, Compute!SenderDisk,
     CP!SenderExit, Compute!SenderExit, CP!WriterStart, Compute!WriterStart,
     CP!WriterGet, Compute!WriterGet, CP!WriterWait, Compute!WriterWait,
     CP!WriterGetNull, Compute!WriterGetNull, CP!WriterWrite, Compute!WriterWrite,
     CP!WriterAppend, Compute!WriterAppend, CP!WriterFinal, Compute!WriterFinal,
     CP!WriterLeave, Compute!WriterLeave, CP!prbVars, Compute!prbVars,
     CP!genVars, Compute!genVars, CP!senderVars, Compute!senderVars,
     CP!writerVars, Compute!writerVars, CP!idVars, Compute!idVars,
     CP!flagVars, Compute!flagVars, CP!vars, Compute!vars, CP!Signal, Compute!Signal,
     CP!Advance, Compute!Advance, CP!NextBlk, Compute!NextBlk, CP!Pop, Compute!Pop,
     CP!DropFinal, Compute!DropFinal, CP!WrittenIds, Compute!WrittenIds,
     CP!Enough, Compute!Enough, CP!writer_blk_num, Compute!writer_blk_num,
     CP!writer_on, Compute!writer_on, CP!LongMsg, Compute!LongMsg, CP!MixMsg, Compute!MixMsg,
     CP!DiskMsg, Compute!DiskMsg, CP!ExitMsg, Compute!ExitMsg,
     CP!EXIT_BLK_ID, Compute!EXIT_BLK_ID

LEMMA SameInit == CP!Init <=> Compute!Init
<1>1. CP!IdSlots = Compute!IdSlots
  BY DEF CP!IdSlots, Compute!IdSlots, CP!Cardinality, Compute!Cardinality,
     CP!writer_blk_num, Compute!writer_blk_num
<1>2. QED
  BY <1>1 DEF CP!Init, Compute!Init

LEMMA SameMessages ==
  /\ CP!Blocks = CptBlocks
  /\ CP!writer_blk_num = writer_blk_num
  /\ CP!EXIT_BLK_ID = EXIT_BLK_ID
  /\ \A m : /\ CP!BlocksOf(m) = BlocksOf(m)
            /\ CP!Announced(m) = Announced(m)
            /\ CP!Wellformed(m) <=> Wellformed(m)
  /\ \A s : /\ CP!DeliveredIn(s) = DeliveredIn(s)
            /\ CP!AnnouncedIn(s) = AnnouncedIn(s)
            /\ CP!ExitSentIn(s) <=> ExitSentIn(s)
<1>1. CP!EXIT_BLK_ID = EXIT_BLK_ID
  BY DEF CP!EXIT_BLK_ID, EXIT_BLK_ID
<1>2. ASSUME NEW m
      PROVE  /\ CP!BlocksOf(m) = BlocksOf(m)
             /\ CP!Announced(m) = Announced(m)
             /\ CP!Wellformed(m) <=> Wellformed(m)
  BY <1>1 DEF CP!BlocksOf, BlocksOf, CP!Payload, Payload, CP!Announced, Announced,
     CP!Wellformed, Wellformed
<1>3. ASSUME NEW s
      PROVE  /\ CP!DeliveredIn(s) = DeliveredIn(s)
             /\ CP!AnnouncedIn(s) = AnnouncedIn(s)
             /\ CP!ExitSentIn(s) <=> ExitSentIn(s)
  BY <1>2 DEF CP!DeliveredIn, DeliveredIn, CP!AnnouncedIn, AnnouncedIn, CP!ExitSentIn, ExitSentIn
<1>4. CP!Blocks = CptBlocks /\ CP!writer_blk_num = writer_blk_num
  BY DEF CP!Blocks, CptBlocks, CP!writer_blk_num, writer_blk_num
<1>5. QED
  BY <1>1, <1>2, <1>3, <1>4

-----------------------------------------------------------------------------
(* Prefixes of the messages.                                                *)

LEMMA NoMessages ==
  ASSUME NEW s
  PROVE  Handed(s, 0) = {} /\ Told(s, 0) = {} /\ Phase(s, 0) = "open"
<1>1. 1..0 = {}
  OBVIOUS
<1>2. QED
  BY <1>1 DEF Handed, Told, Phase

LEMMA OneMore ==
  ASSUME NEW s, NEW n \in Nat
  PROVE  /\ Handed(s, n + 1) = Handed(s, n) \cup BlocksOf(s[n + 1])
         /\ Told(s, n + 1) = Told(s, n) \cup Announced(s[n + 1])
         /\ Phase(s, n + 1) = IF s[n + 1].tag = "EXIT_MSG_TAG" THEN "closed" ELSE Phase(s, n)
<1>1. 1..(n + 1) = (1..n) \cup {n + 1}
  OBVIOUS
<1>2. Handed(s, n + 1) = Handed(s, n) \cup BlocksOf(s[n + 1])
  BY <1>1 DEF Handed
<1>3. Told(s, n + 1) = Told(s, n) \cup Announced(s[n + 1])
  BY <1>1 DEF Told
<1>4. QED
  BY <1>1, <1>2, <1>3 DEF Phase

LEMMA SamePrefix ==
  ASSUME NEW s, NEW t, NEW n \in Nat, \A i \in 1..n : t[i] = s[i]
  PROVE  Handed(t, n) = Handed(s, n) /\ Told(t, n) = Told(s, n) /\ Phase(t, n) = Phase(s, n)
<1>1. Handed(t, n) = Handed(s, n)
  BY DEF Handed
<1>2. Told(t, n) = Told(s, n)
  BY DEF Told
<1>3. QED
  BY <1>1, <1>2 DEF Phase

LEMMA WholeStream ==
  ASSUME NEW T, NEW s \in Seq(T)
  PROVE  /\ Handed(s, Len(s)) = DeliveredIn(s)
         /\ Told(s, Len(s)) = AnnouncedIn(s)
         /\ Phase(s, Len(s)) = IF ExitSentIn(s) THEN "closed" ELSE "open"
<1>1. DOMAIN s = 1..Len(s)
  OBVIOUS
<1>2. QED
  BY <1>1 DEF Handed, Told, Phase, DeliveredIn, AnnouncedIn, ExitSentIn

\* A longer prefix has handed over and announced more.
LEMMA PrefixGrows ==
  ASSUME NEW s, NEW n \in Nat, NEW m \in Nat, n <= m
  PROVE  Handed(s, n) \subseteq Handed(s, m) /\ Told(s, n) \subseteq Told(s, m)
<1>1. 1..n \subseteq 1..m
  OBVIOUS
<1>2. QED
  BY <1>1 DEF Handed, Told

-----------------------------------------------------------------------------
(* The initial state.                                                       *)

LEMMA ZipperInitInv == ASSUME OneComputeWriter, ZipperInit PROVE ZipperInv
<1>1. AnalysisInv
  BY InitInv DEF ZipperInit
<1>2. CP!IInv
  BY SameInit, ComputeHolds, CP!InitInv DEF ZipperInit, OneComputeWriter
<1>3. sent = <<>> /\ received = 0 /\ Len(sent) = 0
  BY SameInit DEF ZipperInit, CP!Init
<1>4. MessagesInv
  BY <1>3 DEF MessagesInv
<1>5. ReceivedInv
  BY <1>3, NoMessages, ZipperAssumption DEF ReceivedInv, ZipperInit, Init, CptBlocks
<1>6. QED
  BY <1>1, <1>2, <1>4, <1>5 DEF ZipperInv

-----------------------------------------------------------------------------
(* A step of the compute process.                                           *)

\* A message that ComputeBroker may send is one the stream goes on with.
LEMMA AllowedGoes ==
  ASSUME CP!IInv, NEW m, CP!Allowed(m), Wellformed(m)
  PROVE  Accepts(CptBlocks \ Handed(sent, Len(sent)), Told(sent, Len(sent)), Phase(sent, Len(sent)), m)
         /\ FitsTag(m)
<1> DEFINE p == CptBlocks \ Handed(sent, Len(sent))
           a == Told(sent, Len(sent))
           ph == Phase(sent, Len(sent))
<1>1. sent \in Seq(CP!Message)
  BY DEF CP!IInv, CP!TypeOK, CP!Message
<1>2. CP!Pending = p /\ CP!AnnouncedIn(sent) = a /\ CP!Phase = ph
  BY <1>1, WholeStream, SameMessages DEF CP!Pending, CP!Phase
<1> HIDE DEF p, a, ph
<1>3. CASE m.tag \in {"MPI_MSG_TAG", "MIX_MPI_DISK_TAG"}
  <2>1. CP!MayHandOver(writer_blk_num, p, a, ph, m.blk, Announced(m))
    BY <1>2, <1>3, SameMessages DEF CP!Allowed
  <2>2. MayHandOver(writer_blk_num, p, a, ph, m.blk, Announced(m))
    BY <2>1, SameFiniteness DEF CP!MayHandOver, MayHandOver
  <2>3. QED
    BY <1>3, <2>2 DEF Accepts, FitsTag, p, a, ph
<1>4. CASE m.tag = "DISK_TAG"
  <2>1. m.blk = EXIT_BLK_ID /\ CP!MayFlush(writer_blk_num, p, a, ph) /\ Announced(m) = p
    BY <1>2, <1>4, SameMessages DEF CP!Allowed
  <2>2. MayFlush(writer_blk_num, p, a, ph)
    BY <2>1, SameFiniteness DEF CP!MayFlush, MayFlush
  <2>3. BlocksOf(m) = Announced(m)
    BY <2>1 DEF BlocksOf, Payload
  <2>4. QED
    BY <1>4, <2>1, <2>2, <2>3 DEF Accepts, FitsTag, p, a, ph
<1>5. CASE m.tag = "EXIT_MSG_TAG"
  <2>1. BlocksOf(m) = {} /\ CP!MayClose(p, ph)
    BY <1>2, <1>5, SameMessages DEF CP!Allowed
  <2>2. MayClose(p, ph)
    BY <2>1 DEF CP!MayClose, MayClose
  <2>3. QED
    BY <1>5, <2>1, <2>2 DEF Accepts, FitsTag, p, a, ph
<1>6. m.tag \in {"MPI_MSG_TAG", "MIX_MPI_DISK_TAG", "DISK_TAG", "EXIT_MSG_TAG"}
  BY DEF CP!Allowed
<1>7. QED
  BY <1>3, <1>4, <1>5, <1>6

\* What the messages sent before say does not change when one more is sent.
LEMMA MessageSent ==
  ASSUME ZipperInv, CP!IInv', NEW m \in CP!Message, sent' = Append(sent, m), CP!Allowed(m),
         UNCHANGED <<received, pending, announced, phase>>
  PROVE  MessagesInv' /\ ReceivedInv'
<1> DEFINE t == Append(sent, m)
<1>1. sent \in Seq(CP!Message)
  BY DEF ZipperInv, CP!IInv, CP!TypeOK, CP!Message
<1>2. /\ Len(sent) \in Nat
      /\ Len(t) = Len(sent) + 1
      /\ t[Len(sent) + 1] = m
      /\ \A i \in 1..Len(sent) : t[i] = sent[i]
      /\ sent' = t
  BY <1>1
<1> HIDE DEF t
<1>3. \A n \in 0..Len(sent) :
        /\ Handed(t, n) = Handed(sent, n)
        /\ Told(t, n) = Told(sent, n)
        /\ Phase(t, n) = Phase(sent, n)
  <2>1. TAKE n \in 0..Len(sent)
  <2>2. n \in Nat /\ \A i \in 1..n : t[i] = sent[i]
    BY <1>2
  <2>3. QED
    BY <2>2, SamePrefix
<1>4. Wellformed(m)
  <2>1. \A i \in DOMAIN sent' : CP!Wellformed(sent'[i])
    BY DEF CP!IInv, CP!SentInv
  <2>2. Len(sent) + 1 \in DOMAIN sent'
    <3>1. DOMAIN t = 1..Len(t)
      BY <1>1 DEF t
    <3>2. QED
      BY <1>2, <3>1
  <2>3. QED
    BY <1>2, <2>1, <2>2, SameMessages
<1>5. ASSUME NEW n \in 0..(Len(t) - 1)
      PROVE  Goes(t, n) /\ FitsTag(t[n + 1])
  <2>1. n \in 0..Len(sent)
    BY <1>2
  <2>2. CASE n = Len(sent)
    <3>1. Accepts(CptBlocks \ Handed(sent, n), Told(sent, n), Phase(sent, n), m) /\ FitsTag(m)
      BY <1>4, <2>2, AllowedGoes DEF ZipperInv
    <3>2. t[n + 1] = m
      BY <1>2, <2>2
    <3>3. QED
      BY <1>3, <2>1, <3>1, <3>2 DEF Goes
  <2>3. CASE n # Len(sent)
    <3>1. n \in 0..(Len(sent) - 1) /\ n + 1 \in 1..Len(sent)
      BY <1>2, <2>1, <2>3
    <3>2. Goes(sent, n) /\ FitsTag(sent[n + 1])
      BY <3>1 DEF ZipperInv, MessagesInv
    <3>3. t[n + 1] = sent[n + 1]
      BY <1>2, <3>1
    <3>4. QED
      BY <1>3, <2>1, <3>2, <3>3 DEF Goes
  <2>4. QED
    BY <2>2, <2>3
<1>6. MessagesInv'
  BY <1>2, <1>5 DEF MessagesInv
<1>7. ReceivedInv'
  <2>1. received \in 0..Len(sent)
    BY DEF ZipperInv, ReceivedInv
  <2>2. received \in 0..Len(t)
    BY <1>2, <2>1
  <2>3. /\ Handed(t, received) = Handed(sent, received)
        /\ Told(t, received) = Told(sent, received)
        /\ Phase(t, received) = Phase(sent, received)
    BY <1>3, <2>1
  <2>4. QED
    BY <1>2, <2>2, <2>3 DEF ZipperInv, ReceivedInv, CptBlocks
<1>8. QED
  BY <1>6, <1>7

LEMMA ComputeStepInv ==
  ASSUME OneComputeWriter, ZipperInv, Compute!Next \/ UNCHANGED computeVars,
         UNCHANGED <<analysisVars, received>>
  PROVE  ZipperInv'
<1>1. [CP!Next]_(CP!vars)
  BY SameNext DEF computeVars, CP!vars, CP!prbVars, CP!genVars, CP!senderVars, CP!writerVars,
     CP!idVars, CP!flagVars
<1>2. CP!IInv'
  BY <1>1, ComputeHolds, CP!StepInv DEF ZipperInv, OneComputeWriter
<1>3. AnalysisInv'
  <2>1. [Next]_vars
    BY DEF analysisVars
  <2>2. QED
    BY <2>1, StepInv DEF ZipperInv
<1>4. UNCHANGED <<pending, announced, phase>>
  BY DEF analysisVars, vars, streamVars
<1>5. \/ sent' = sent
      \/ \E m \in CP!Message : sent' = Append(sent, m) /\ CP!Allowed(m)
  BY <1>1, ComputeHolds, CP!OnlyAllowed DEF ZipperInv, OneComputeWriter
<1>6. CASE sent' = sent
  BY <1>2, <1>3, <1>4, <1>6 DEF ZipperInv, MessagesInv, ReceivedInv, CptBlocks
<1>7. CASE \E m \in CP!Message : sent' = Append(sent, m) /\ CP!Allowed(m)
  BY <1>2, <1>3, <1>4, <1>7, MessageSent DEF ZipperInv
<1>8. QED
  BY <1>5, <1>6, <1>7

-----------------------------------------------------------------------------
(* A step of the analysis process.                                          *)

\* The receiver takes the next message m, of which it is told that H was
\* handed over and S announced.
LEMMA MessageTaken ==
  ASSUME OneComputeWriter, ZipperInv, TakeNext, AnalysisInv',
         NEW H, NEW S, NEW ph,
         pending' = [pending EXCEPT ![source] = @ \ H],
         announced' = [announced EXCEPT ![source] = @ \cup S],
         phase' = [phase EXCEPT ![source] = ph],
         H = BlocksOf(sent[received + 1]), S = Announced(sent[received + 1]),
         ph = IF sent[received + 1].tag = "EXIT_MSG_TAG" THEN "closed" ELSE phase[source]
  PROVE  ZipperInv'
<1>1. /\ received \in 0..Len(sent) /\ received < Len(sent) /\ received' = received + 1
      /\ UNCHANGED computeVars /\ sent' = sent
  BY DEF ZipperInv, ReceivedInv, TakeNext, computeVars
<1>2. Len(sent) \in Nat
  <2>1. sent \in Seq(CP!Message)
    BY DEF ZipperInv, CP!IInv, CP!TypeOK, CP!Message
  <2>2. QED
    BY <2>1
<1>3. received \in Nat /\ received' \in 0..Len(sent')
  BY <1>1, <1>2
<1>4. CP!IInv'
  <2>1. UNCHANGED CP!vars
    BY <1>1 DEF computeVars, CP!vars, CP!prbVars, CP!genVars, CP!senderVars, CP!writerVars,
       CP!idVars, CP!flagVars
  <2>2. QED
    BY <2>1, ComputeHolds, CP!StepInv DEF ZipperInv, OneComputeWriter
<1>5. MessagesInv'
  BY <1>1 DEF ZipperInv, MessagesInv
<1>6. /\ pending'[source] = pending[source] \ H
      /\ announced'[source] = announced[source] \cup S
      /\ phase'[source] = ph
  BY ZipperAssumption DEF ZipperInv, AnalysisInv, TypeOK
<1>7. /\ Handed(sent, received + 1) = Handed(sent, received) \cup H
      /\ Told(sent, received + 1) = Told(sent, received) \cup S
      /\ Phase(sent, received + 1) = IF sent[received + 1].tag = "EXIT_MSG_TAG" THEN "closed"
                                     ELSE Phase(sent, received)
  BY <1>3, OneMore
<1>8. ReceivedInv'
  <2>1. /\ pending[source] = CptBlocks \ Handed(sent, received)
        /\ announced[source] = Told(sent, received)
        /\ phase[source] = Phase(sent, received)
    BY DEF ZipperInv, ReceivedInv
  <2>2. /\ pending'[source] = CptBlocks \ Handed(sent, received + 1)
        /\ announced'[source] = Told(sent, received + 1)
        /\ phase'[source] = Phase(sent, received + 1)
    BY <1>6, <1>7, <2>1
  <2>3. QED
    BY <1>1, <1>3, <2>2 DEF ReceivedInv, CptBlocks
<1>9. QED
  BY <1>4, <1>5, <1>8 DEF ZipperInv

LEMMA AnnouncedOf ==
  ASSUME NEW m, NEW S \in SUBSET CptBlocks, IdsOf(m) \in Listings(source, S)
  PROVE  Announced(m) = S
<1>1. Range(IdsOf(m)) = {source} \X S
  BY ListingOf, ZipperAssumption DEF CptBlocks
<1>2. Range(IdsOf(m)) = {<<source, m.ids[k]>> : k \in DOMAIN m.ids}
  BY DEF Range, IdsOf
<1>3. \A b : <<source, b>> \in Range(IdsOf(m)) <=> b \in Announced(m)
  BY <1>2 DEF Announced
<1>4. \A b : <<source, b>> \in {source} \X S <=> b \in S
  OBVIOUS
<1>5. QED
  BY <1>1, <1>3, <1>4

\* The message the receiver takes is the next one to fit its tag.
LEMMA NextFits ==
  ASSUME ZipperInv, TakeNext
  PROVE  FitsTag(sent[received + 1])
<1>1. received \in 0..Len(sent) /\ received < Len(sent)
  BY DEF ZipperInv, ReceivedInv, TakeNext
<1>2. Len(sent) \in Nat
  <2>1. sent \in Seq(CP!Message)
    BY DEF ZipperInv, CP!IInv, CP!TypeOK, CP!Message
  <2>2. QED
    BY <2>1
<1>3. received \in 0..(Len(sent) - 1)
  BY <1>1, <1>2
<1>4. QED
  BY <1>3 DEF ZipperInv, MessagesInv

LEMMA ReceiveLongOrMixInv ==
  ASSUME OneComputeWriter, ZipperInv, ReceiveLongOrMix
  PROVE  ZipperInv'
<1> DEFINE m == sent[received + 1]
<1>1. /\ TakeNext
      /\ m.tag \in {"MPI_MSG_TAG", "MIX_MPI_DISK_TAG"}
      /\ ReceiveBlock(source)
      /\ recv_item' = <<source, m.blk>>
      /\ recv_ids' = IdsOf(m)
  BY DEF ReceiveLongOrMix
<1> HIDE DEF m
<1>2. AnalysisInv'
  BY <1>1, StepInv, ZipperAssumption DEF ZipperInv, Next, Receiver
<1>3. PICK b \in pending[source] : \E S \in SUBSET (pending[source] \ {b}) :
        /\ pending' = [pending EXCEPT ![source] = @ \ ({b} \cup S)]
        /\ announced' = [announced EXCEPT ![source] = @ \cup S]
        /\ recv_item' = <<source, b>>
        /\ recv_ids' \in Listings(source, S)
  BY <1>1 DEF ReceiveBlock
<1>4. PICK S \in SUBSET (pending[source] \ {b}) :
        /\ pending' = [pending EXCEPT ![source] = @ \ ({b} \cup S)]
        /\ announced' = [announced EXCEPT ![source] = @ \cup S]
        /\ recv_item' = <<source, b>>
        /\ recv_ids' \in Listings(source, S)
  BY <1>3
<1>5. pending[source] \in SUBSET CptBlocks
  BY ZipperAssumption DEF ZipperInv, AnalysisInv, TypeOK, CptBlocks
<1>6. b = m.blk
  BY <1>1, <1>4
<1>7. S = Announced(m)
  BY <1>1, <1>4, <1>5, AnnouncedOf
<1>8. {b} \cup S = BlocksOf(m)
  <2>1. b # EXIT_BLK_ID
    BY <1>5 DEF CptBlocks, EXIT_BLK_ID
  <2>2. QED
    BY <1>6, <1>7, <2>1 DEF BlocksOf, Payload
<1>9. phase' = [phase EXCEPT ![source] = phase[source]]
  BY <1>1 DEF ReceiveBlock, ZipperInv, AnalysisInv, TypeOK
<1>10. m.tag # "EXIT_MSG_TAG"
  BY <1>1
<1>11. QED
  BY <1>1, <1>2, <1>4, <1>7, <1>8, <1>9, <1>10, MessageTaken DEF m

LEMMA ReceiveDiskMsgInv ==
  ASSUME OneComputeWriter, ZipperInv, ReceiveDiskMsg
  PROVE  ZipperInv'
<1> DEFINE m == sent[received + 1]
<1>1. /\ TakeNext
      /\ m.tag = "DISK_TAG"
      /\ ReceiveDisk(source)
      /\ recv_ids' = IdsOf(m)
  BY DEF ReceiveDiskMsg
<1>2. FitsTag(m)
  BY <1>1, NextFits
<1> HIDE DEF m
<1>3. AnalysisInv'
  BY <1>1, StepInv, ZipperAssumption DEF ZipperInv, Next, Receiver
<1>4. pending[source] \in SUBSET CptBlocks
  BY ZipperAssumption DEF ZipperInv, AnalysisInv, TypeOK, CptBlocks
<1>5. PICK S \in SUBSET CptBlocks : S = pending[source]
  BY <1>4
<1>6. /\ pending' = [pending EXCEPT ![source] = @ \ S]
      /\ announced' = [announced EXCEPT ![source] = @ \cup S]
      /\ phase' = [phase EXCEPT ![source] = phase[source]]
      /\ recv_ids' \in Listings(source, S)
  BY <1>1, <1>5 DEF ReceiveDisk, ZipperInv, AnalysisInv, TypeOK
<1>7. S = Announced(m) /\ S = BlocksOf(m)
  BY <1>1, <1>2, <1>6, AnnouncedOf DEF FitsTag
<1>8. QED
  BY <1>1, <1>3, <1>6, <1>7, MessageTaken DEF m

LEMMA ReceiveExitMsgInv ==
  ASSUME OneComputeWriter, ZipperInv, ReceiveExitMsg
  PROVE  ZipperInv'
<1> DEFINE m == sent[received + 1]
<1>1. TakeNext /\ m.tag = "EXIT_MSG_TAG" /\ ReceiveExit(source)
  BY DEF ReceiveExitMsg
<1>2. FitsTag(m)
  BY <1>1, NextFits
<1> HIDE DEF m
<1>3. AnalysisInv'
  BY <1>1, StepInv, ZipperAssumption DEF ZipperInv, Next, Receiver
<1>4. BlocksOf(m) = {} /\ Announced(m) = {}
  BY <1>1, <1>2 DEF FitsTag, BlocksOf
<1>5. /\ pending' = [pending EXCEPT ![source] = @ \ {}]
      /\ announced' = [announced EXCEPT ![source] = @ \cup {}]
      /\ phase' = [phase EXCEPT ![source] = "closed"]
  BY <1>1 DEF ReceiveExit, ZipperInv, AnalysisInv, TypeOK
<1>6. QED
  BY <1>1, <1>3, <1>4, <1>5, MessageTaken DEF m

\* Nothing but a message changes what the receiver knows of the stream.
LEMMA StreamUntouched ==
  ASSUME \/ MakePrefetchId \/ SignalReader \/ ReaderExitSeen \/ ReceiverPut \/ ReceiverPutWait
         \/ (\E r \in Readers : Reader(r)) \/ Consumer \/ (\E w \in Writers : Writer(w))
         \/ SpuriousWakeup
  PROVE  Next /\ UNCHANGED streamVars
<1>1. CASE MakePrefetchId \/ SignalReader \/ ReaderExitSeen \/ ReceiverPut \/ ReceiverPutWait
  BY <1>1 DEF Next, Receiver, MakePrefetchId, SignalReader, ReaderExitSeen, ReceiverPut,
     ReceiverPutWait, streamVars
<1>2. ASSUME NEW r \in Readers, Reader(r)
      PROVE  Next /\ UNCHANGED streamVars
  BY <1>2 DEF Next, Reader, ReaderStart, ReaderTop, ReaderLock, ReaderTake, ReaderGivesUp,
     ReaderSeesNone, ReaderWait, ReaderRead, ReaderPut, ReaderPutWait, streamVars
<1>3. CASE Consumer
  BY <1>3 DEF Next, Consumer, ConsumerReadTail, ConsumerWait, ConsumerCalc, ConsumerMark,
     ConsumerMoveTail, ConsumerFree, ConsumerQuit, ConsumerSignal, streamVars
<1>4. ASSUME NEW w \in Writers, Writer(w)
      PROVE  Next /\ UNCHANGED streamVars
  BY <1>4 DEF Next, Writer, WriterReadNull, WriterReadTail, WriterWait, WriterWrite,
     WriterMark, WriterCheck, streamVars
<1>5. CASE SpuriousWakeup
  BY <1>5 DEF Next, SpuriousWakeup, streamVars
<1>6. QED
  BY <1>1, <1>2, <1>3, <1>4, <1>5

LEMMA AnalysisStepInv ==
  ASSUME OneComputeWriter, ZipperInv, Next, UNCHANGED streamVars,
         UNCHANGED <<computeVars, received>>
  PROVE  ZipperInv'
<1>1. AnalysisInv'
  BY StepInv DEF ZipperInv
<1>2. CP!IInv'
  <2>1. UNCHANGED CP!vars
    BY DEF computeVars, CP!vars, CP!prbVars, CP!genVars, CP!senderVars, CP!writerVars,
       CP!idVars, CP!flagVars
  <2>2. QED
    BY <2>1, ComputeHolds, CP!StepInv DEF ZipperInv, OneComputeWriter
<1>3. UNCHANGED <<sent, received, pending, announced, phase>>
  BY DEF computeVars, streamVars
<1>4. MessagesInv' /\ ReceivedInv'
  BY <1>3 DEF ZipperInv, MessagesInv, ReceivedInv, CptBlocks
<1>5. QED
  BY <1>1, <1>2, <1>4 DEF ZipperInv

-----------------------------------------------------------------------------
(* The invariant.                                                           *)

LEMMA ZipperStepInv ==
  ASSUME OneComputeWriter, ZipperInv, [ZipperNext]_zipperVars
  PROVE  ZipperInv'
<1>1. CASE GeneratorStep \/ SenderStep \/ WriterStep \/ ComputeWakeup
  <2>1. Compute!Next /\ UNCHANGED <<analysisVars, received>>
    BY <1>1 DEF GeneratorStep, SenderStep, WriterStep, ComputeWakeup, ComputeStep, Compute!Next
  <2>2. QED
    BY <2>1, ComputeStepInv
<1>2. CASE ReceiveLongOrMix \/ ReceiveDiskMsg \/ ReceiveExitMsg
  BY <1>2, ReceiveLongOrMixInv, ReceiveDiskMsgInv, ReceiveExitMsgInv
<1>3. CASE \/ AnalysisStep(MakePrefetchId \/ SignalReader \/ ReaderExitSeen)
           \/ AnalysisStep(ReceiverPut \/ ReceiverPutWait)
           \/ (\E r \in Readers : ReaderStep(r)) \/ ConsumerStep
           \/ (\E w \in Writers : AnaWriterStep(w)) \/ AnalysisWakeup
  <2>1. Next /\ UNCHANGED streamVars /\ UNCHANGED <<computeVars, received>>
    BY <1>3, StreamUntouched
       DEF AnalysisStep, ReaderStep, ConsumerStep, AnaWriterStep, AnalysisWakeup
  <2>2. QED
    BY <2>1, AnalysisStepInv
<1>4. CASE UNCHANGED zipperVars
  <2>1. UNCHANGED <<computeVars, analysisVars, received>>
    BY <1>4 DEF zipperVars
  <2>2. QED
    BY <2>1, ComputeStepInv
<1>5. QED
  BY <1>1, <1>2, <1>3, <1>4 DEF ZipperNext, ReceiverStep, BothFinished

\* The inductive invariant holds, for one writer thread on the compute side:
\* those of both processes, every message fits the ones before it, and the
\* receiver knows exactly what the messages it has taken say.
THEOREM ZipperInvariant == ASSUME OneComputeWriter PROVE ZipperSpec => []ZipperInv
<1>1. ZipperInit => ZipperInv
  BY ZipperInitInv
<1>2. ZipperInv /\ [ZipperNext]_zipperVars => ZipperInv'
  BY ZipperStepInv
<1>3. QED
  BY <1>1, <1>2, PTL DEF ZipperSpec

\* Whatever the sender has sent, the receiver can take when it gets there:
\* what AnalysisBroker assumes of a compute process, ComputeBroker does.
THEOREM Accepted == ASSUME OneComputeWriter PROVE ZipperSpec => []ReceiverAccepts
<1>1. ZipperInv => ReceiverAccepts
  <2>1. SUFFICES ASSUME ZipperInv, received < Len(sent)
                 PROVE  Acceptable(sent[received + 1])
    BY DEF ReceiverAccepts
  <2>2. Len(sent) \in Nat
    <3>1. sent \in Seq(CP!Message)
      BY <2>1 DEF ZipperInv, CP!IInv, CP!TypeOK, CP!Message
    <3>2. QED
      BY <3>1
  <2>3. received \in 0..(Len(sent) - 1)
    BY <2>1, <2>2 DEF ZipperInv, ReceivedInv
  <2>4. Accepts(pending[source], announced[source], phase[source], sent[received + 1])
    BY <2>1, <2>3 DEF ZipperInv, MessagesInv, ReceivedInv, Goes
  <2>5. QED
    BY <2>4 DEF Accepts, Acceptable
<1>2. QED
  BY <1>1, ZipperInvariant, PTL

\* A reader opens the file of a block only when the writer of the compute
\* process has put it there, three threads and two processes away.
THEOREM FileFound == ASSUME OneComputeWriter PROVE ZipperSpec => []ReaderFindsFile
<1>1. ZipperInv => ReaderFindsFile
  <2>1. SUFFICES ASSUME ZipperInv, NEW r \in Readers, reader_pc[r] = "read"
                 PROVE  reader_item[r][2] \in disk
    BY DEF ReaderFindsFile
  <2>2. reader_item[r] \in AnnouncedBlocks
    <3>1. reader_item[r] # None /\ reader_item[r] \in AnnouncedBlocks \cup {None}
      BY <2>1 DEF ZipperInv, AnalysisInv, ReaderInv
    <3>2. QED
      BY <3>1
  <2>3. reader_item[r][2] \in announced[source]
    BY <2>2, ZipperAssumption DEF AnnouncedBlocks, Blocks
  <2>4. Told(sent, received) \subseteq AnnouncedIn(sent)
    <3>1. sent \in Seq(CP!Message) /\ received \in 0..Len(sent)
      BY <2>1 DEF ZipperInv, CP!IInv, CP!TypeOK, CP!Message, ReceivedInv
    <3>2. Len(sent) \in Nat /\ received \in Nat /\ received <= Len(sent)
      BY <3>1
    <3>3. QED
      BY <3>1, <3>2, PrefixGrows, WholeStream
  <2>5. AnnouncedIn(sent) \subseteq disk
    BY <2>1, SameMessages DEF ZipperInv, CP!IInv, CP!SentInv
  <2>6. QED
    BY <2>1, <2>3, <2>4, <2>5 DEF ZipperInv, ReceivedInv
<1>2. QED
  BY <1>1, ZipperInvariant, PTL

-----------------------------------------------------------------------------
(* From the simulation to the analysis.                                     *)

\* The blocks of the messages not taken yet come after those taken.
LEMMA InFlightIsNew ==
  ASSUME ZipperInv
  PROVE  /\ DeliveredIn(sent) = Handed(sent, received) \cup InFlight
         /\ Handed(sent, received) \cap InFlight = {}
<1>1. sent \in Seq(CP!Message) /\ received \in 0..Len(sent)
  BY DEF ZipperInv, CP!IInv, CP!TypeOK, CP!Message, ReceivedInv
<1>2. Len(sent) \in Nat /\ received \in Nat
  BY <1>1
<1>3. DOMAIN sent = (1..received) \cup ((received + 1)..Len(sent))
  <2>1. DOMAIN sent = 1..Len(sent)
    BY <1>1
  <2>2. received <= Len(sent)
    BY <1>1, <1>2
  <2>3. 1..Len(sent) = (1..received) \cup ((received + 1)..Len(sent))
    BY <1>2, <2>2
  <2>4. QED
    BY <2>1, <2>3
<1>4. DeliveredIn(sent) = Handed(sent, received) \cup InFlight
  BY <1>3 DEF DeliveredIn, Handed, InFlight
<1>5. ASSUME NEW i \in (received + 1)..Len(sent)
      PROVE  Handed(sent, received) \cap BlocksOf(sent[i]) = {}
  <2>1. PICK n \in Nat : i = n + 1 /\ n \in 0..(Len(sent) - 1) /\ received <= n
    <3>1. i - 1 \in Nat /\ i = (i - 1) + 1 /\ i - 1 \in 0..(Len(sent) - 1) /\ received <= i - 1
      BY <1>2
    <3>2. QED
      BY <3>1
  <2>2. Goes(sent, n) /\ FitsTag(sent[i])
    BY <2>1 DEF ZipperInv, MessagesInv
  <2>3. BlocksOf(sent[i]) \subseteq CptBlocks \ Handed(sent, n)
    <3>1. CASE sent[i].tag \in {"MPI_MSG_TAG", "MIX_MPI_DISK_TAG"}
      <4>1. MayHandOver(writer_blk_num, CptBlocks \ Handed(sent, n), Told(sent, n), Phase(sent, n),
                        sent[i].blk, Announced(sent[i]))
        BY <2>1, <2>2, <3>1 DEF Goes, Accepts
      <4>2. QED
        BY <4>1 DEF MayHandOver, BlocksOf, Payload
    <3>2. CASE sent[i].tag = "DISK_TAG"
      BY <2>1, <2>2, <3>2 DEF Goes, Accepts, FitsTag
    <3>3. CASE sent[i].tag = "EXIT_MSG_TAG"
      BY <2>2, <3>3 DEF FitsTag
    <3>4. QED
      BY <2>2, <3>1, <3>2, <3>3 DEF FitsTag
  <2>4. Handed(sent, received) \subseteq Handed(sent, n)
    BY <1>2, <2>1, PrefixGrows
  <2>5. QED
    BY <2>3, <2>4
<1>6. Handed(sent, received) \cap InFlight = {}
  BY <1>5 DEF InFlight
<1>7. QED
  BY <1>4, <1>6

\* What the analysis process holds or has released is what it was handed.
LEMMA InAnalysisIsHanded ==
  ASSUME ZipperInv
  PROVE  InAnalysis = Handed(sent, received)
<1> DEFINE All == UNION {Places[i] : i \in DOMAIN Places}
<1>1. ItemsConserved
  BY WholeInv DEF ZipperInv
<1>2. All = HandedOver
  BY <1>1 DEF ItemsConserved
<1> HIDE DEF All
<1>3. InAnalysis = {p[2] : p \in HandedOver \cap Blocks}
  <2>1. InAnalysis = {p[2] : p \in All \cap Blocks}
    BY DEF InAnalysis, All
  <2>2. QED
    BY <1>2, <2>1
<1>4. Sources = {source} /\ Blocks = {source} \X CptBlocks /\ Blocks \subseteq Items
  BY ZipperAssumption DEF Blocks, CptBlocks, Items
<1>5. \A b \in CptBlocks : <<source, b>> \in HandedOver <=> b \notin pending[source]
  <2>1. TAKE b \in CptBlocks
  <2>2. <<source, b>> \in Items /\ ~IsExit(<<source, b>>)
    BY <1>4 DEF IsExit, EXIT_BLK_ID, CptBlocks
  <2>3. QED
    BY <2>2 DEF HandedOver
<1>6. InAnalysis = {b \in CptBlocks : b \notin pending[source]}
  <2>1. \A b : b \in InAnalysis <=> \E p \in HandedOver \cap Blocks : b = p[2]
    BY <1>3
  <2>2. \A b \in CptBlocks : <<source, b>> \in Blocks /\ <<source, b>>[2] = b
    BY <1>4
  <2>3. \A p \in Blocks : p[2] \in CptBlocks /\ p = <<source, p[2]>>
    BY <1>4
  <2>4. ASSUME NEW b, b \in InAnalysis
        PROVE  b \in CptBlocks /\ b \notin pending[source]
    <3>1. PICK p \in HandedOver \cap Blocks : b = p[2]
      BY <2>1, <2>4
    <3>2. b \in CptBlocks /\ p = <<source, b>>
      BY <2>3, <3>1
    <3>3. QED
      BY <1>5, <3>1, <3>2
  <2>5. ASSUME NEW b \in CptBlocks, b \notin pending[source]
        PROVE  b \in InAnalysis
    <3>1. <<source, b>> \in HandedOver \cap Blocks
      BY <1>5, <2>2, <2>5
    <3>2. QED
      BY <2>1, <2>2, <3>1
  <2>6. QED
    BY <2>4, <2>5
<1>7. Handed(sent, received) \subseteq CptBlocks
  <2>1. Handed(sent, received) \subseteq DeliveredIn(sent)
    BY InFlightIsNew
  <2>2. DeliveredIn(sent) \subseteq CptBlocks
    BY SameMessages DEF ZipperInv, CP!IInv, CP!PlaceInv
  <2>3. QED
    BY <2>1, <2>2
<1>8. pending[source] = CptBlocks \ Handed(sent, received)
  BY DEF ZipperInv, ReceivedInv
<1>9. QED
  BY <1>6, <1>7, <1>8

\* The places of the compute process, apart from the messages.
LEMMA ComputePlaces ==
  ASSUME OneComputeWriter, ZipperInv
  PROVE  /\ InCompute \cup DeliveredIn(sent) = 0..(data_id - 1)
         /\ InCompute \cap DeliveredIn(sent) = {}
<1>1. CP!BlocksConserved
  BY ComputeHolds, CP!ConservedInv DEF ZipperInv, OneComputeWriter
<1>2. /\ Compute!InRing = CP!InRing /\ Compute!InHand = CP!InHand
      /\ Compute!InArray = CP!InArray /\ Compute!Leaving = CP!Leaving
  BY DEF Compute!InRing, CP!InRing, Compute!InHand, CP!InHand, Compute!InArray, CP!InArray,
     Compute!Leaving, CP!Leaving, Compute!Announced, CP!Announced,
     Compute!WrittenIds, CP!WrittenIds, Compute!EXIT_BLK_ID, CP!EXIT_BLK_ID
<1>3. InCompute = CP!InRing \cup CP!InHand \cup CP!InArray \cup CP!Leaving
  BY <1>2 DEF InCompute
<1> DEFINE P == CP!Places
<1>4. /\ DOMAIN P = 1..5 /\ P[1] = CP!InRing /\ P[2] = CP!InHand /\ P[3] = CP!InArray
      /\ P[4] = CP!Leaving /\ P[5] = DeliveredIn(sent)
  BY SameMessages DEF CP!Places
<1>5. /\ UNION {P[i] : i \in DOMAIN P} = 0..(data_id - 1)
      /\ \A i, j \in DOMAIN P : i # j => P[i] \cap P[j] = {}
  BY <1>1 DEF CP!BlocksConserved
<1> HIDE DEF P
<1>6. UNION {P[i] : i \in DOMAIN P} = P[1] \cup P[2] \cup P[3] \cup P[4] \cup P[5]
  <2>1. \A i : i \in 1..5 <=> i = 1 \/ i = 2 \/ i = 3 \/ i = 4 \/ i = 5
    OBVIOUS
  <2>2. QED
    BY <1>4, <2>1
<1>7. P[1] \cap P[5] = {} /\ P[2] \cap P[5] = {} /\ P[3] \cap P[5] = {} /\ P[4] \cap P[5] = {}
  BY <1>4, <1>5
<1>8. QED
  BY <1>3, <1>4, <1>5, <1>6, <1>7

\* End to end: a block the simulation has generated is in the compute process,
\* in a message under way or in the analysis process, and in one of them only.
THEOREM NothingLostBetween == ASSUME OneComputeWriter PROVE ZipperSpec => []EndToEnd
<1>1. ZipperInv => EndToEnd
  <2>1. ASSUME ZipperInv
        PROVE  EndToEnd
    <3>1. /\ InCompute \cup DeliveredIn(sent) = 0..(data_id - 1)
          /\ InCompute \cap DeliveredIn(sent) = {}
      BY <2>1, ComputePlaces
    <3>2. /\ DeliveredIn(sent) = Handed(sent, received) \cup InFlight
          /\ Handed(sent, received) \cap InFlight = {}
      BY <2>1, InFlightIsNew
    <3>3. InAnalysis = Handed(sent, received)
      BY <2>1, InAnalysisIsHanded
    <3>4. QED
      BY <3>1, <3>2, <3>3 DEF EndToEnd
  <2>2. QED
    BY <2>1
<1>2. QED
  BY <1>1, ZipperInvariant, PTL

\* Each of the two processes, running with the other, behaves as it does by
\* itself with any peer: what is proved of AnalysisBroker for every stream,
\* and of ComputeBroker, holds in the composition.
THEOREM BothProcesses == ZipperSpec => Spec /\ Compute!Spec
<1>1. ZipperInit => Init /\ Compute!Init
  BY DEF ZipperInit
<1>2. [ZipperNext]_zipperVars => [Next]_vars /\ [Compute!Next]_(Compute!vars)
  <2>1. CASE GeneratorStep \/ SenderStep \/ WriterStep \/ ComputeWakeup
    BY <2>1 DEF GeneratorStep, SenderStep, WriterStep, ComputeWakeup, ComputeStep, Compute!Next,
       analysisVars
  <2>2. UNCHANGED computeVars => UNCHANGED Compute!vars
    BY DEF computeVars, Compute!vars, Compute!prbVars, Compute!genVars, Compute!senderVars,
       Compute!writerVars, Compute!idVars, Compute!flagVars
  <2>3. CASE ReceiveLongOrMix \/ ReceiveDiskMsg \/ ReceiveExitMsg
    <3>1. UNCHANGED computeVars
      BY <2>3 DEF ReceiveLongOrMix, ReceiveDiskMsg, ReceiveExitMsg, TakeNext
    <3>2. Next
      BY <2>3, ZipperAssumption DEF ReceiveLongOrMix, ReceiveDiskMsg, ReceiveExitMsg, Next, Receiver
    <3>3. QED
      BY <2>2, <3>1, <3>2
  <2>4. CASE \/ AnalysisStep(MakePrefetchId \/ SignalReader \/ ReaderExitSeen)
             \/ AnalysisStep(ReceiverPut \/ ReceiverPutWait)
             \/ (\E r \in Readers : ReaderStep(r)) \/ ConsumerStep
             \/ (\E w \in Writers : AnaWriterStep(w)) \/ AnalysisWakeup
    <3>1. Next /\ UNCHANGED computeVars
      BY <2>4, StreamUntouched
         DEF AnalysisStep, ReaderStep, ConsumerStep, AnaWriterStep, AnalysisWakeup
    <3>2. QED
      BY <2>2, <3>1
  <2>5. CASE UNCHANGED zipperVars
    BY <2>2, <2>5 DEF zipperVars, analysisVars
  <2>6. QED
    BY <2>1, <2>3, <2>4, <2>5 DEF ZipperNext, ReceiverStep, BothFinished
<1>3. QED
  BY <1>1, <1>2, PTL DEF ZipperSpec, Spec, Compute!Spec

\* With one reader and one analysis writer as well, as every job script has
\* them: no buffer is used after it was released, and the consumer leaves
\* only after the last block of the simulation was analysed.
THEOREM AnalysedAndReleased ==
  ASSUME SingleReader, SingleWriter
  PROVE  ZipperSpec => [](NoUseAfterFree /\ ConsumerLeavesLast /\ PreservedBeforeFree)
  BY BothProcesses, NoUse, LeavesLast, Preserved, PTL
=============================================================================
