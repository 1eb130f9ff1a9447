------------------------- MODULE ElasticBrokerProofs -------------------------
(***************************************************************************)
(* Proofs about ElasticBroker, for any ranks, records and queue length, in *)
(* both programs and modes, when the server refuses records and links      *)
(* break.  Once hiredis has failed the link of a pipelined client, which   *)
(* does not look, only the counters keep their order.                      *)
(***************************************************************************)
EXTENDS ElasticBroker, SequenceTheorems, TLAPS

-----------------------------------------------------------------------------
(* The inductive invariant.                                                 *)

Buffered(r) == Len(obuf[r])
OnWire(r)   == Len(wire[r])
Unread(r)   == Len(replies[r])
Kept(r)     == Len(stream[r])

\* No call has failed yet, whether or not the client has looked.
Trusted(r) == ~put_failed[r] /\ status[r] = 0 /\ link[r] # "failed"

\* Commands whose replies the client has not read, and those whose it has.
Pending(r) ==
  IF is_async THEN nr_queued[r] - synced[r] ELSE IF pc[r] = "command" THEN 1 ELSE 0
Acknowledged(r) == step[r] - Pending(r)

Progress(r) ==
  /\ is_async => pc[r] # "command"
  /\ ~is_async => pc[r] \notin {"drain", "sync"} /\ nr_queued[r] = 0 /\ synced[r] = 0
  /\ pc[r] \in {"command", "drain"} => ~put_failed[r] /\ step[r] > 0
  /\ pc[r] \in {"run", "command", "drain", "barrier", "sync"} => status[r] = 0
  /\ pc[r] \in {"run", "command", "drain", "barrier"} => synced[r] = 0
  /\ pc[r] \in {"stats", "done"} /\ Trusted(r) => Pending(r) = 0
  /\ ~is_async /\ link[r] = "failed" => put_failed[r]

\* The counter bounds what is outstanding until hiredis has failed the link, and
\* is exact while the link stands and nothing has failed.
Counts(r) ==
  /\ nr_queued[r] <= step[r] /\ nr_queued[r] <= queue_len
  /\ is_async => synced[r] <= nr_queued[r]
  /\ is_async /\ link[r] # "failed" => Outstanding(r) + synced[r] <= nr_queued[r]
  /\ is_async /\ pc[r] = "run" /\ ~put_failed[r] => nr_queued[r] < queue_len
  /\ pc[r] = "drain" => nr_queued[r] > 0
  /\ ~is_async => Outstanding(r) <= 1
  /\ ~is_async /\ Trusted(r) => Outstanding(r) <= Pending(r)
  /\ link[r] = "up" /\ Trusted(r) => Outstanding(r) = Pending(r)
  /\ link[r] # "up" => wire[r] = <<>>
  /\ link[r] = "failed" => replies[r] = <<>>

\* The first j replies the client can read are not errors.
Fine(r, j) == \A k \in 1..j : replies[r][k] = "id"

\* The server has the records of the replies the client has read, and of the
\* replies it can read before the first error.
Stored(r) ==
  /\ Kept(r) + OnWire(r) + Buffered(r) <= step[r]
  /\ Trusted(r) =>
       \A j \in 0..Unread(r) : Fine(r, j) =>
         /\ Acknowledged(r) + j <= Kept(r)
         /\ \A i \in 1..(Acknowledged(r) + j) : stream[r][i] = i - 1

\* Without an error the records on their way follow those that are stored.
Follow(r) ==
  link[r] = "up" /\ Trusted(r) /\ Fine(r, Unread(r)) =>
    /\ Kept(r) = Acknowledged(r) + Unread(r)
    /\ \A i \in 1..OnWire(r) : wire[r][i] = Kept(r) + i - 1
    /\ \A i \in 1..Buffered(r) : obuf[r][i] = Kept(r) + OnWire(r) + i - 1

RankInv(r) == Progress(r) /\ Counts(r) /\ Stored(r) /\ Follow(r)

ElasticInv == TypeOK /\ \A r \in Ranks : RankInv(r)

-----------------------------------------------------------------------------
(* What an action may assume of the rank it changes, and what it leaves.    *)

LEMMA ElasticTypes ==
  ASSUME ElasticInv
  PROVE  /\ nr_steps \in Nat /\ queue_len \in Nat \ {0} /\ is_async \in BOOLEAN
         /\ collective \in BOOLEAN /\ aborted \in BOOLEAN
         /\ pc \in [Ranks -> {"run", "command", "drain", "barrier", "sync", "stats", "done"}]
         /\ step \in [Ranks -> 0..nr_steps] /\ put_failed \in [Ranks -> BOOLEAN]
         /\ nr_queued \in [Ranks -> 0..nr_steps] /\ synced \in [Ranks -> 0..nr_steps]
         /\ status \in [Ranks -> {0, -1}]
         /\ obuf \in [Ranks -> Seq(Records)] /\ wire \in [Ranks -> Seq(Records)]
         /\ replies \in [Ranks -> Seq({"id", "error"})] /\ stream \in [Ranks -> Seq(Records)]
         /\ link \in [Ranks -> {"up", "down", "failed"}]
BY ElasticAssumption DEF ElasticInv, TypeOK

LEMMA RankNow ==
  ASSUME ElasticInv, NEW r \in Ranks
  PROVE  /\ step[r] \in 0..nr_steps /\ nr_steps \in Nat /\ queue_len \in Nat \ {0}
         /\ nr_queued[r] \in 0..nr_steps /\ synced[r] \in 0..nr_steps
         /\ obuf[r] \in Seq(Records) /\ wire[r] \in Seq(Records)
         /\ replies[r] \in Seq({"id", "error"}) /\ stream[r] \in Seq(Records)
         /\ Buffered(r) \in Nat /\ OnWire(r) \in Nat /\ Unread(r) \in Nat /\ Kept(r) \in Nat
         /\ Outstanding(r) = Buffered(r) + OnWire(r) + Unread(r)
         /\ RankInv(r)
         /\ Pending(r) \in 0..step[r]
         /\ Acknowledged(r) \in Nat /\ Acknowledged(r) = step[r] - Pending(r)
<1>1. /\ step[r] \in 0..nr_steps /\ nr_steps \in Nat /\ queue_len \in Nat \ {0}
      /\ nr_queued[r] \in 0..nr_steps /\ synced[r] \in 0..nr_steps
  BY ElasticTypes
<1>2. /\ obuf[r] \in Seq(Records) /\ wire[r] \in Seq(Records)
      /\ replies[r] \in Seq({"id", "error"}) /\ stream[r] \in Seq(Records)
  BY ElasticTypes
<1>3. Buffered(r) \in Nat /\ OnWire(r) \in Nat /\ Unread(r) \in Nat /\ Kept(r) \in Nat
  BY <1>2, LenProperties DEF Buffered, OnWire, Unread, Kept
<1>4. Outstanding(r) = Buffered(r) + OnWire(r) + Unread(r)
  BY DEF Outstanding, Buffered, OnWire, Unread
<1>5. RankInv(r)
  BY DEF ElasticInv
<1>6. Pending(r) \in 0..step[r]
  <2>1. CASE is_async
    <3>1. nr_queued[r] \in Nat /\ synced[r] \in Nat /\ step[r] \in Nat
      BY <1>1
    <3>2. synced[r] <= nr_queued[r] /\ nr_queued[r] <= step[r]
      BY <1>5, <2>1 DEF RankInv, Counts
    <3>3. nr_queued[r] - synced[r] \in 0..step[r]
      BY <3>1, <3>2
    <3>4. QED
      BY <2>1, <3>3 DEF Pending
  <2>2. CASE ~is_async
    BY <1>1, <1>5, <2>2 DEF RankInv, Progress, Pending
  <2>3. QED
    BY <2>1, <2>2
<1>7. Acknowledged(r) \in Nat /\ Acknowledged(r) = step[r] - Pending(r)
  BY <1>1, <1>6 DEF Acknowledged
<1>8. QED
  BY <1>1, <1>2, <1>3, <1>4, <1>5, <1>6, <1>7

\* The numbers among these facts, for the steps that are arithmetic.
LEMMA RankSizes ==
  ASSUME ElasticInv, NEW r \in Ranks
  PROVE  /\ step[r] \in Nat /\ nr_steps \in Nat /\ step[r] <= nr_steps
         /\ queue_len \in Nat /\ queue_len > 0
         /\ nr_queued[r] \in Nat /\ nr_queued[r] <= nr_steps
         /\ synced[r] \in Nat /\ synced[r] <= nr_steps
         /\ Buffered(r) \in Nat /\ OnWire(r) \in Nat /\ Unread(r) \in Nat /\ Kept(r) \in Nat
         /\ Outstanding(r) \in Nat /\ Outstanding(r) = Buffered(r) + OnWire(r) + Unread(r)
         /\ Pending(r) \in Nat /\ Pending(r) <= step[r]
         /\ Acknowledged(r) \in Nat /\ Acknowledged(r) = step[r] - Pending(r)
<1>1. /\ step[r] \in Nat /\ nr_steps \in Nat /\ step[r] <= nr_steps
      /\ queue_len \in Nat /\ queue_len > 0
      /\ nr_queued[r] \in Nat /\ nr_queued[r] <= nr_steps
      /\ synced[r] \in Nat /\ synced[r] <= nr_steps
  BY ElasticTypes
<1>2. /\ Buffered(r) \in Nat /\ OnWire(r) \in Nat /\ Unread(r) \in Nat /\ Kept(r) \in Nat
      /\ Outstanding(r) = Buffered(r) + OnWire(r) + Unread(r)
      /\ Acknowledged(r) \in Nat /\ Acknowledged(r) = step[r] - Pending(r)
      /\ Pending(r) \in 0..step[r]
  BY RankNow
<1>3. Outstanding(r) \in Nat
  BY <1>2
<1>4. Pending(r) \in Nat /\ Pending(r) <= step[r]
  BY <1>1, <1>2
<1>5. QED
  BY <1>1, <1>2, <1>3, <1>4

LEMMA RankQueues ==
  ASSUME ElasticInv, NEW r \in Ranks
  PROVE  /\ obuf[r] \in Seq(Records) /\ wire[r] \in Seq(Records)
         /\ replies[r] \in Seq({"id", "error"}) /\ stream[r] \in Seq(Records)
BY RankNow

LEMMA RankParts ==
  ASSUME ElasticInv, NEW r \in Ranks
  PROVE  Progress(r) /\ Counts(r) /\ Stored(r)
BY RankNow DEF RankInv

\* What one rank does is nothing to the others.
Same(r) ==
  /\ pc'[r] = pc[r] /\ step'[r] = step[r] /\ put_failed'[r] = put_failed[r]
  /\ nr_queued'[r] = nr_queued[r] /\ synced'[r] = synced[r] /\ status'[r] = status[r]
  /\ obuf'[r] = obuf[r] /\ wire'[r] = wire[r] /\ replies'[r] = replies[r]
  /\ stream'[r] = stream[r] /\ link'[r] = link[r]

LEMMA OneRank ==
  ASSUME ElasticInv, TypeOK', UNCHANGED is_async, NEW q \in Ranks,
         \A r \in Ranks : r # q => Same(r),
         RankInv(q)'
  PROVE  ElasticInv'
<1>1. ASSUME NEW r \in Ranks, r # q PROVE RankInv(r)'
  <2>1. Same(r) /\ RankInv(r) /\ is_async' = is_async
    BY <1>1 DEF ElasticInv
  <2>2. /\ Buffered(r)' = Buffered(r) /\ OnWire(r)' = OnWire(r) /\ Unread(r)' = Unread(r)
        /\ Kept(r)' = Kept(r) /\ Outstanding(r)' = Outstanding(r) /\ Pending(r)' = Pending(r)
    BY <2>1 DEF Same, Pending, Outstanding, Buffered, OnWire, Unread, Kept
  <2>3. Acknowledged(r)' = Acknowledged(r) /\ (Trusted(r)' <=> Trusted(r))
    BY <2>1, <2>2 DEF Same, Acknowledged, Trusted
  <2>4. \A j : Fine(r, j)' <=> Fine(r, j)
    BY <2>1 DEF Same, Fine
  <2>5. Progress(r)'
    BY <2>1, <2>2, <2>3 DEF Same, RankInv, Progress
  <2>6. Counts(r)'
    BY <2>1, <2>2, <2>3 DEF Same, RankInv, Counts
  <2>7. Stored(r)'
    BY <2>1, <2>2, <2>3, <2>4 DEF Same, RankInv, Stored
  <2>8. Follow(r)'
    <3>1. stream'[r] = stream[r] /\ wire'[r] = wire[r] /\ obuf'[r] = obuf[r] /\ link'[r] = link[r]
      BY <2>1 DEF Same
    <3>2. Fine(r, Unread(r))' <=> Fine(r, Unread(r))
      BY <2>1, <2>2 DEF Same, Fine
    <3>3. QED
      BY <2>1, <2>2, <2>3, <3>1, <3>2 DEF RankInv, Follow
  <2>9. QED
    BY <2>5, <2>6, <2>7, <2>8 DEF RankInv
<1>2. QED
  BY <1>1 DEF ElasticInv

\* hiredis fails a connection only when there is no reply to read.
LEMMA HasReply ==
  ASSUME ElasticInv, NEW q \in Ranks, replies[q] # <<>>
  PROVE  link[q] # "failed"
BY RankParts DEF Counts

-----------------------------------------------------------------------------
(* The records and replies, whatever the client's counters say.             *)

LEMMA NotTrusted ==
  ASSUME ElasticInv, NEW q \in Ranks, ~Trusted(q)',
         obuf'[q] = obuf[q], wire'[q] = wire[q], stream'[q] = stream[q], step'[q] = step[q]
  PROVE  Stored(q)' /\ Follow(q)'
<1>1. Buffered(q)' = Buffered(q) /\ OnWire(q)' = OnWire(q) /\ Kept(q)' = Kept(q)
  BY DEF Buffered, OnWire, Kept
<1>2. Kept(q) + OnWire(q) + Buffered(q) <= step[q]
  BY RankNow DEF RankInv, Stored
<1>3. QED
  BY <1>1, <1>2 DEF Stored, Follow

LEMMA LeftAlone ==
  ASSUME ElasticInv, NEW q \in Ranks, Trusted(q), Pending(q)' = Pending(q),
         obuf'[q] = obuf[q], wire'[q] = wire[q], stream'[q] = stream[q], replies'[q] = replies[q],
         step'[q] = step[q], link'[q] = link[q]
  PROVE  Stored(q)' /\ Follow(q)'
<1>1. /\ Buffered(q)' = Buffered(q) /\ OnWire(q)' = OnWire(q) /\ Kept(q)' = Kept(q)
      /\ Unread(q)' = Unread(q) /\ Acknowledged(q)' = Acknowledged(q)
  BY DEF Buffered, OnWire, Kept, Unread, Acknowledged
<1>2. \A j : Fine(q, j)' <=> Fine(q, j)
  BY DEF Fine
<1>3. Fine(q, Unread(q))' <=> Fine(q, Unread(q))
  BY <1>1 DEF Fine
<1>4. Stored(q) /\ Follow(q)
  BY RankNow DEF RankInv
<1>5. Stored(q)'
  BY <1>1, <1>2, <1>4 DEF Stored
<1>6. Follow(q)'
  BY <1>1, <1>3, <1>4 DEF Follow
<1>7. QED
  BY <1>5, <1>6

\* The client reads a reply that is not an error, or appends a record.
ReadsId(q) ==
  replies[q] # <<>> /\ Head(replies[q]) = "id" /\ replies'[q] = Tail(replies[q])
AddsRecord(q) == obuf'[q] = Append(obuf[q], step[q])

LEMMA ReplyTaken ==
  ASSUME ElasticInv, NEW q \in Ranks, Trusted(q), Pending(q)' = Pending(q) - 1,
         ReadsId(q),
         obuf'[q] = obuf[q], wire'[q] = wire[q], stream'[q] = stream[q],
         step'[q] = step[q], link'[q] = link[q]
  PROVE  /\ Stored(q)' /\ Follow(q)'
         /\ Unread(q)' = Unread(q) - 1 /\ Outstanding(q)' = Outstanding(q) - 1 /\ Unread(q) > 0
<1>1. /\ Buffered(q)' = Buffered(q) /\ OnWire(q)' = OnWire(q) /\ Kept(q)' = Kept(q)
  BY DEF Buffered, OnWire, Kept
<1>2. Unread(q)' = Unread(q) - 1 /\ Unread(q) > 0
  <2>1. Len(Tail(replies[q])) = Len(replies[q]) - 1 /\ Tail(replies[q]) \in Seq({"id", "error"})
    BY RankQueues, HeadTailProperties DEF ReadsId
  <2>2. Len(Tail(replies[q])) \in Nat /\ Len(replies[q]) \in Nat
    BY <2>1, RankNow, LenProperties
  <2>3. QED
    BY <2>1, <2>2 DEF Unread, ReadsId
<1>3. Outstanding(q)' = Buffered(q)' + OnWire(q)' + Unread(q)'
  BY DEF Outstanding, Buffered, OnWire, Unread
<1>4. Outstanding(q)' = Outstanding(q) - 1
  BY <1>1, <1>2, <1>3, RankSizes
<1>5. /\ Acknowledged(q)' = Acknowledged(q) + 1 /\ Acknowledged(q) \in Nat /\ Unread(q) \in Nat
      /\ Kept(q) \in Nat
  <2>1. Acknowledged(q)' = step[q] - (Pending(q) - 1)
    BY DEF Acknowledged
  <2>2. QED
    BY <2>1, RankSizes
<1>6. ASSUME NEW j \in 0..(Unread(q) - 1), Fine(q, j)'
      PROVE  j + 1 \in 0..Unread(q) /\ Fine(q, j + 1)
  <2>1. \A k \in 1..j : replies[q][k + 1] = "id"
    <3>1. \A k \in 1..(Unread(q) - 1) : Tail(replies[q])[k] = replies[q][k + 1]
      <4>1. Len(Tail(replies[q])) = Unread(q) - 1
        BY RankQueues, HeadTailProperties DEF Unread, ReadsId
      <4>2. QED
        BY <4>1, RankQueues, HeadTailProperties DEF ReadsId
    <3>2. \A k \in 1..j : k \in 1..(Unread(q) - 1)
      BY <1>5
    <3>3. \A k \in 1..j : Tail(replies[q])[k] = "id"
      BY <1>6 DEF Fine, ReadsId
    <3>4. QED
      BY <3>1, <3>2, <3>3
  <2>2. replies[q][1] = "id"
    BY RankNow DEF ReadsId
  <2>3. ASSUME NEW k \in 1..(j + 1) PROVE replies[q][k] = "id"
    <3>1. k = 1 \/ (k - 1 \in 1..j /\ k = (k - 1) + 1)
      BY <1>5
    <3>2. QED
      BY <2>1, <2>2, <3>1
  <2>4. QED
    BY <1>5, <2>3 DEF Fine
<1>7. Stored(q) /\ Follow(q)
  BY RankNow DEF RankInv
<1>8. Stored(q)'
  <2>1. ASSUME NEW j \in 0..(Unread(q) - 1), Fine(q, j)'
        PROVE  /\ Acknowledged(q) + 1 + j <= Kept(q)
               /\ \A i \in 1..(Acknowledged(q) + 1 + j) : stream[q][i] = i - 1
    <3>1. j + 1 \in 0..Unread(q) /\ Fine(q, j + 1)
      BY <1>6, <2>1
    <3>2. Acknowledged(q) + (j + 1) = Acknowledged(q) + 1 + j
      BY <1>5
    <3>3. /\ Acknowledged(q) + (j + 1) <= Kept(q)
          /\ \A i \in 1..(Acknowledged(q) + (j + 1)) : stream[q][i] = i - 1
      BY <1>7, <3>1 DEF Stored
    <3>4. QED
      BY <3>2, <3>3
  <2>2. Kept(q) + OnWire(q) + Buffered(q) <= step[q]
    BY <1>7 DEF Stored
  <2>3. QED
    BY <1>1, <1>2, <1>5, <2>1, <2>2 DEF Stored
<1>9. Follow(q)'
  <2>1. SUFFICES ASSUME link[q] = "up", Fine(q, Unread(q))'
                 PROVE  /\ Kept(q) = Acknowledged(q)' + Unread(q)'
                        /\ \A i \in 1..OnWire(q) : wire[q][i] = Kept(q) + i - 1
                        /\ \A i \in 1..Buffered(q) : obuf[q][i] = Kept(q) + OnWire(q) + i - 1
    BY <1>1 DEF Follow
  <2>2. Fine(q, Unread(q))
    <3> DEFINE j == Unread(q) - 1
    <3>1. j \in 0..(Unread(q) - 1) /\ j + 1 = Unread(q)
      BY <1>2, <1>5
    <3>2. \A k \in 1..j : replies'[q][k] = "id"
      BY <1>2, <2>1 DEF Fine
    <3>3. Fine(q, j + 1)
      BY <1>6, <3>1, <3>2 DEF Fine
    <3>4. QED
      BY <3>1, <3>3
  <2>3. /\ Kept(q) = Acknowledged(q) + Unread(q)
        /\ \A i \in 1..OnWire(q) : wire[q][i] = Kept(q) + i - 1
        /\ \A i \in 1..Buffered(q) : obuf[q][i] = Kept(q) + OnWire(q) + i - 1
    BY <1>7, <2>1, <2>2 DEF Follow
  <2>4. QED
    BY <1>2, <1>5, <2>3
<1>10. QED
  BY <1>2, <1>4, <1>8, <1>9

LEMMA RecordPut ==
  ASSUME ElasticInv, NEW q \in Ranks, Trusted(q), Pending(q)' = Pending(q) + 1,
         step[q] \in Records, step'[q] = step[q] + 1, AddsRecord(q),
         wire'[q] = wire[q], stream'[q] = stream[q], replies'[q] = replies[q],
         link'[q] = link[q]
  PROVE  Stored(q)' /\ Follow(q)' /\ Outstanding(q)' = Outstanding(q) + 1
<1>1. OnWire(q)' = OnWire(q) /\ Kept(q)' = Kept(q) /\ Unread(q)' = Unread(q)
  BY DEF OnWire, Kept, Unread
<1>2. /\ Buffered(q)' = Buffered(q) + 1
      /\ \A i \in 1..Buffered(q) : obuf'[q][i] = obuf[q][i]
      /\ obuf'[q][Buffered(q) + 1] = step[q]
  <2>1. obuf[q] \in Seq(Records) /\ step[q] \in Records /\ obuf'[q] = Append(obuf[q], step[q])
    BY RankQueues DEF AddsRecord
  <2>2. /\ Len(Append(obuf[q], step[q])) = Len(obuf[q]) + 1
        /\ \A i \in 1..Len(obuf[q]) : Append(obuf[q], step[q])[i] = obuf[q][i]
        /\ Append(obuf[q], step[q])[Len(obuf[q]) + 1] = step[q]
    BY <2>1, AppendProperties
  <2>3. QED
    BY <2>1, <2>2 DEF Buffered
<1>3. Outstanding(q)' = Buffered(q)' + OnWire(q)' + Unread(q)'
  BY DEF Outstanding, Buffered, OnWire, Unread
<1>4. Outstanding(q)' = Outstanding(q) + 1
  BY <1>1, <1>2, <1>3, RankSizes
<1>5. Acknowledged(q)' = Acknowledged(q)
  <2>1. Acknowledged(q)' = step'[q] - Pending(q)'
    BY DEF Acknowledged
  <2>2. step[q] \in Nat /\ Pending(q) \in Nat
    BY RankNow
  <2>3. step'[q] - Pending(q)' = step[q] - Pending(q)
    BY <2>2
  <2>4. QED
    BY <2>1, <2>3 DEF Acknowledged
<1>6. RankInv(q) /\ Stored(q) /\ Follow(q)
  BY RankNow DEF RankInv
<1>7. \A j : Fine(q, j)' <=> Fine(q, j)
  BY DEF Fine
<1>8. Stored(q)'
  <2>1. Kept(q) + OnWire(q) + (Buffered(q) + 1) <= step[q] + 1
    <3>1. Kept(q) + OnWire(q) + Buffered(q) <= step[q]
      BY <1>6 DEF Stored
    <3>2. QED
      BY <3>1, RankSizes
  <2>2. QED
    BY <1>1, <1>2, <1>5, <1>6, <1>7, <2>1 DEF Stored
<1>9. Follow(q)'
  <2>1. SUFFICES ASSUME link[q] = "up", Fine(q, Unread(q))'
                 PROVE  /\ Kept(q) = Acknowledged(q) + Unread(q)
                        /\ \A i \in 1..OnWire(q) : wire[q][i] = Kept(q) + i - 1
                        /\ \A i \in 1..(Buffered(q) + 1) : obuf'[q][i] = Kept(q) + OnWire(q) + i - 1
    BY <1>1, <1>2, <1>5 DEF Follow
  <2>2. Fine(q, Unread(q))
    BY <1>1, <2>1 DEF Fine
  <2>3. /\ Kept(q) = Acknowledged(q) + Unread(q)
        /\ \A i \in 1..OnWire(q) : wire[q][i] = Kept(q) + i - 1
        /\ \A i \in 1..Buffered(q) : obuf[q][i] = Kept(q) + OnWire(q) + i - 1
    BY <1>6, <2>1, <2>2 DEF Follow
  <2>4. Outstanding(q) = Pending(q)
    BY <1>6, <2>1 DEF RankInv, Counts
  <2>5. step[q] = Kept(q) + OnWire(q) + (Buffered(q) + 1) - 1
    <3>1. /\ step[q] \in Nat /\ Pending(q) \in Nat /\ Kept(q) \in Nat
          /\ Buffered(q) \in Nat /\ OnWire(q) \in Nat /\ Unread(q) \in Nat
      BY RankNow
    <3>2. Pending(q) = Buffered(q) + OnWire(q) + Unread(q)
      BY <2>4, RankNow
    <3>3. Kept(q) = (step[q] - Pending(q)) + Unread(q)
      BY <2>3, RankNow
    <3>4. QED
      BY <3>1, <3>2, <3>3
  <2>6. ASSUME NEW i \in 1..(Buffered(q) + 1) PROVE obuf'[q][i] = Kept(q) + OnWire(q) + i - 1
    <3>1. i \in 1..Buffered(q) \/ i = Buffered(q) + 1
      BY RankNow
    <3>2. QED
      BY <1>2, <2>3, <2>5, <3>1
  <2>7. QED
    BY <2>3, <2>6
<1>10. QED
  BY <1>4, <1>8, <1>9

\* After hiredis has failed the link the record stays in the output buffer.
LEMMA RecordPutBlindly ==
  ASSUME ElasticInv, NEW q \in Ranks, link[q] = "failed", link'[q] = link[q],
         step[q] \in Records, step'[q] = step[q] + 1, AddsRecord(q),
         wire'[q] = wire[q], stream'[q] = stream[q], replies'[q] = replies[q]
  PROVE  Stored(q)' /\ Follow(q)' /\ Outstanding(q)' = Outstanding(q) + 1
<1>1. OnWire(q)' = OnWire(q) /\ Kept(q)' = Kept(q) /\ Unread(q)' = Unread(q)
  BY DEF OnWire, Kept, Unread
<1>2. Buffered(q)' = Buffered(q) + 1
  <2>1. Len(Append(obuf[q], step[q])) = Len(obuf[q]) + 1
    BY RankQueues, AppendProperties
  <2>2. QED
    BY <2>1 DEF Buffered, AddsRecord
<1>3. Outstanding(q)' = Buffered(q)' + OnWire(q)' + Unread(q)'
  BY DEF Outstanding, Buffered, OnWire, Unread
<1>4. Outstanding(q)' = Outstanding(q) + 1
  BY <1>1, <1>2, <1>3, RankSizes
<1>5. ~Trusted(q)' /\ link'[q] # "up"
  BY DEF Trusted
<1>6. Kept(q) + OnWire(q) + (Buffered(q) + 1) <= step[q] + 1
  <2>1. Kept(q) + OnWire(q) + Buffered(q) <= step[q]
    BY RankParts DEF Stored
  <2>2. QED
    BY <2>1, RankSizes
<1>7. QED
  BY <1>1, <1>2, <1>4, <1>5, <1>6 DEF Stored, Follow

-----------------------------------------------------------------------------
(* hiredis and the server.                                                  *)

LEMMA FlushUpInv ==
  ASSUME ElasticInv, NEW q \in Ranks, Flush(q), link[q] = "up"
  PROVE  ElasticInv'
<1>1. /\ wire' = [wire EXCEPT ![q] = wire[q] \o obuf[q]] /\ obuf' = [obuf EXCEPT ![q] = <<>>]
      /\ UNCHANGED <<is_async, collective, pc, step, put_failed, nr_queued, synced, status,
                     replies, stream, link, aborted>>
      /\ link[q] = "up" /\ replies[q] = <<>>
  BY ElasticTypes DEF Flush, clientVars
<1>2. /\ wire'[q] \in Seq(Records) /\ OnWire(q)' = OnWire(q) + Buffered(q)
      /\ \A i \in 1..(OnWire(q) + Buffered(q)) :
           wire'[q][i] = IF i <= OnWire(q) THEN wire[q][i] ELSE obuf[q][i - OnWire(q)]
  <2>1. wire'[q] = wire[q] \o obuf[q]
    BY <1>1, ElasticTypes
  <2>2. /\ wire[q] \o obuf[q] \in Seq(Records)
        /\ Len(wire[q] \o obuf[q]) = OnWire(q) + Buffered(q)
        /\ \A i \in 1..(OnWire(q) + Buffered(q)) :
             (wire[q] \o obuf[q])[i] = IF i <= OnWire(q) THEN wire[q][i] ELSE obuf[q][i - OnWire(q)]
    <3>1. wire[q] \in Seq(Records) /\ obuf[q] \in Seq(Records)
      BY RankQueues
    <3>2. /\ wire[q] \o obuf[q] \in Seq(Records)
          /\ Len(wire[q] \o obuf[q]) = Len(wire[q]) + Len(obuf[q])
          /\ \A i \in 1..(Len(wire[q]) + Len(obuf[q])) :
               (wire[q] \o obuf[q])[i] = IF i <= Len(wire[q]) THEN wire[q][i]
                                                          ELSE obuf[q][i - Len(wire[q])]
      BY <3>1, ConcatProperties
    <3>3. QED
      BY <3>2 DEF OnWire, Buffered
  <2>3. OnWire(q)' = Len(wire'[q])
    BY DEF OnWire
  <2>4. QED
    BY <2>1, <2>2, <2>3
<1>3. obuf'[q] = <<>> /\ obuf'[q] \in Seq(Records) /\ Buffered(q)' = 0 /\ 1..Buffered(q)' = {}
  <2>1. obuf'[q] = <<>> /\ Len(<<>>) = 0 /\ <<>> \in Seq(Records)
    BY <1>1, ElasticTypes
  <2>2. QED
    BY <2>1 DEF Buffered
<1>4. Unread(q)' = Unread(q) /\ Kept(q)' = Kept(q) /\ Unread(q) = 0
  BY <1>1 DEF Unread, Kept
<1>5. TypeOK'
  <2>1. wire' \in [Ranks -> Seq(Records)] /\ obuf' \in [Ranks -> Seq(Records)]
    BY <1>1, <1>2, <1>3, ElasticTypes
  <2>2. QED
    BY <1>1, <2>1 DEF ElasticInv, TypeOK
<1>6. \A r \in Ranks : r # q => Same(r)
  BY <1>1, ElasticTypes DEF Same
<1>7. Outstanding(q)' = Outstanding(q) /\ Pending(q)' = Pending(q)
      /\ Acknowledged(q)' = Acknowledged(q) /\ (Trusted(q)' <=> Trusted(q))
  <2>1. Outstanding(q)' = Buffered(q)' + OnWire(q)' + Unread(q)'
    BY DEF Outstanding, Buffered, OnWire, Unread
  <2>2. Outstanding(q)' = Outstanding(q)
    BY <1>2, <1>3, <1>4, <2>1, RankSizes
  <2>3. QED
    BY <1>1, <2>2 DEF Pending, Acknowledged, Trusted
<1>8. RankInv(q)'
  <2>1. Progress(q)'
    BY <1>1, <1>7, RankNow DEF RankInv, Progress
  <2>2. Counts(q)'
    BY <1>1, <1>7, RankNow DEF RankInv, Counts
  <2>3. Stored(q)'
    <3>1. Kept(q) + (OnWire(q) + Buffered(q)) + 0 <= step[q]
      BY RankNow DEF RankInv, Stored
    <3>2. \A j : Fine(q, j)' <=> Fine(q, j)
      BY <1>1 DEF Fine
    <3>3. Stored(q)
      BY RankNow DEF RankInv
    <3>4. QED
      BY <1>1, <1>2, <1>3, <1>4, <1>7, <3>1, <3>2, <3>3 DEF Stored
  <2>4. Follow(q)'
    <3>1. SUFFICES ASSUME Trusted(q)
                   PROVE  /\ Kept(q) = Acknowledged(q) + Unread(q)
                          /\ \A i \in 1..(OnWire(q) + Buffered(q)) : wire'[q][i] = Kept(q) + i - 1
      <4>1. \A i \in 1..Buffered(q)' : FALSE
        BY <1>3
      <4>2. QED
        BY <1>2, <1>4, <1>7, <4>1 DEF Follow
    <3>2. Fine(q, Unread(q))
      BY <1>4 DEF Fine
    <3>3. /\ Kept(q) = Acknowledged(q) + Unread(q)
          /\ \A i \in 1..OnWire(q) : wire[q][i] = Kept(q) + i - 1
          /\ \A i \in 1..Buffered(q) : obuf[q][i] = Kept(q) + OnWire(q) + i - 1
      BY <1>1, <3>1, <3>2, RankNow DEF RankInv, Follow
    <3>4. OnWire(q) \in Nat /\ Buffered(q) \in Nat /\ Kept(q) \in Nat
      BY RankNow
    <3>5. ASSUME NEW i \in 1..(OnWire(q) + Buffered(q)) PROVE wire'[q][i] = Kept(q) + i - 1
      <4>1. CASE i <= OnWire(q)
        <5>1. i \in 1..OnWire(q)
          BY <3>4, <4>1
        <5>2. QED
          BY <1>2, <3>3, <4>1, <5>1
      <4>2. CASE ~(i <= OnWire(q))
        <5>1. i - OnWire(q) \in 1..Buffered(q)
          BY <3>4, <4>2
        <5>2. Kept(q) + OnWire(q) + (i - OnWire(q)) - 1 = Kept(q) + i - 1
          BY <3>4
        <5>3. wire'[q][i] = obuf[q][i - OnWire(q)]
          BY <1>2, <4>2
        <5>4. QED
          BY <3>3, <5>1, <5>2, <5>3
      <4>3. QED
        BY <4>1, <4>2
    <3>6. QED
      BY <3>3, <3>5
  <2>5. QED
    BY <2>1, <2>2, <2>3, <2>4 DEF RankInv
<1>9. QED
  BY <1>1, <1>5, <1>6, <1>8, OneRank

\* On a connection that is down the output buffer is emptied for nobody.
LEMMA FlushDownInv ==
  ASSUME ElasticInv, NEW q \in Ranks, Flush(q), link[q] = "down"
  PROVE  ElasticInv'
<1>1. /\ wire' = wire /\ obuf' = [obuf EXCEPT ![q] = <<>>]
      /\ UNCHANGED <<is_async, collective, pc, step, put_failed, nr_queued, synced, status,
                     replies, stream, link, aborted>>
      /\ link'[q] = "down"
  BY ElasticTypes DEF Flush, clientVars
<1> HIDE DEF Flush
<1>2. obuf'[q] = <<>> /\ obuf'[q] \in Seq(Records) /\ Buffered(q)' = 0
  <2>1. obuf'[q] = <<>> /\ Len(<<>>) = 0 /\ <<>> \in Seq(Records)
    BY <1>1, ElasticTypes
  <2>2. QED
    BY <2>1 DEF Buffered
<1>3. Unread(q)' = Unread(q) /\ Kept(q)' = Kept(q) /\ OnWire(q)' = OnWire(q)
  BY <1>1 DEF Unread, Kept, OnWire
<1>4. TypeOK'
  <2>1. obuf' \in [Ranks -> Seq(Records)]
    BY <1>1, <1>2, ElasticTypes
  <2>2. QED
    BY <1>1, <2>1 DEF ElasticInv, TypeOK
<1>5. \A r \in Ranks : r # q => Same(r)
  BY <1>1, ElasticTypes DEF Same
<1>6. Pending(q)' = Pending(q) /\ Acknowledged(q)' = Acknowledged(q) /\ (Trusted(q)' <=> Trusted(q))
  BY <1>1 DEF Pending, Acknowledged, Trusted
<1>7. Outstanding(q)' \in Nat /\ Outstanding(q)' <= Outstanding(q)
  <2>1. Outstanding(q)' = Buffered(q)' + OnWire(q)' + Unread(q)'
    BY DEF Outstanding, Buffered, OnWire, Unread
  <2>2. QED
    BY <1>2, <1>3, <2>1, RankSizes
<1>8. Progress(q)'
  BY <1>1, <1>6, RankParts DEF Progress
<1>9. Counts(q)'
  <2>1. /\ Outstanding(q) \in Nat /\ nr_queued[q] \in Nat /\ synced[q] \in Nat /\ Pending(q) \in Nat
    BY RankSizes
  <2>2. /\ Outstanding(q) + synced[q] <= nr_queued[q] => Outstanding(q)' + synced[q] <= nr_queued[q]
        /\ Outstanding(q) <= Pending(q) => Outstanding(q)' <= Pending(q)
        /\ Outstanding(q) <= 1 => Outstanding(q)' <= 1
    BY <1>7, <2>1
  <2>3. Counts(q)
    BY RankParts
  <2>4. QED
    BY <1>1, <1>6, <2>2, <2>3 DEF Counts
<1>10. Stored(q)' /\ Follow(q)'
  <2>1. Kept(q) + OnWire(q) + 0 <= step[q]
    <3>1. Kept(q) + OnWire(q) + Buffered(q) <= step[q]
      BY RankParts DEF Stored
    <3>2. QED
      BY <3>1, RankSizes
  <2>2. \A j : Fine(q, j)' <=> Fine(q, j)
    BY <1>1 DEF Fine
  <2>3. Stored(q)
    BY RankParts
  <2>4. Stored(q)'
    BY <1>1, <1>2, <1>3, <1>6, <2>1, <2>2, <2>3 DEF Stored
  <2>5. QED
    BY <1>1, <2>4 DEF Follow
<1>11. QED
  BY <1>1, <1>4, <1>5, <1>8, <1>9, <1>10, OneRank DEF RankInv

LEMMA FlushInv ==
  ASSUME ElasticInv, NEW q \in Ranks, Flush(q)
  PROVE  ElasticInv'
<1>1. link[q] \in {"up", "down", "failed"} /\ link[q] # "failed"
  BY ElasticTypes DEF Flush
<1>2. QED
  BY <1>1, FlushUpInv, FlushDownInv

LEMMA DisconnectInv ==
  ASSUME ElasticInv, NEW q \in Ranks, Disconnect(q)
  PROVE  ElasticInv'
<1>1. /\ link' = [link EXCEPT ![q] = "down"] /\ wire' = [wire EXCEPT ![q] = <<>>]
      /\ UNCHANGED <<is_async, collective, pc, step, put_failed, nr_queued, synced, status,
                     obuf, stream, aborted>>
      /\ link[q] = "up"
  BY ElasticTypes DEF Disconnect, clientVars
<1>2. PICK n \in 0..Unread(q) : replies' = [replies EXCEPT ![q] = SubSeq(replies[q], 1, n)]
  BY ElasticTypes DEF Disconnect, Unread
<1>3. /\ replies'[q] \in Seq({"id", "error"}) /\ Unread(q)' = n
      /\ \A k \in 1..n : replies'[q][k] = replies[q][k]
  <2>1. \A k \in 1..n : replies[q][k] \in {"id", "error"}
    <3>1. \A k \in 1..n : k \in 1..Len(replies[q])
      BY RankNow DEF Unread
    <3>2. \A k \in 1..Len(replies[q]) : replies[q][k] \in {"id", "error"}
      BY RankNow, ElementOfSeq
    <3>3. QED
      BY <3>1, <3>2
  <2> DEFINE p == SubSeq(replies[q], 1, n)
  <2>2. n \in Nat
    BY RankNow
  <2>3. /\ p \in Seq({"id", "error"}) /\ Len(p) = IF 1 <= n THEN n - 1 + 1 ELSE 0
        /\ \A k \in 1..(n - 1 + 1) : p[k] = replies[q][1 + k - 1]
    BY <2>1, <2>2, SubSeqProperties
  <2>4. replies'[q] = p
    BY <1>2, ElasticTypes
  <2> HIDE DEF p
  <2>5. Len(p) = n /\ \A k \in 1..n : p[k] = replies[q][k]
    BY <2>2, <2>3
  <2>6. QED
    BY <2>3, <2>4, <2>5 DEF Unread
<1>4. wire'[q] = <<>> /\ wire'[q] \in Seq(Records) /\ OnWire(q)' = 0 /\ link'[q] = "down"
  BY <1>1, ElasticTypes DEF OnWire
<1>5. Buffered(q)' = Buffered(q) /\ Kept(q)' = Kept(q)
  BY <1>1 DEF Buffered, Kept
<1>6. TypeOK'
  <2>1. /\ wire' \in [Ranks -> Seq(Records)] /\ link' \in [Ranks -> {"up", "down", "failed"}]
        /\ replies' \in [Ranks -> Seq({"id", "error"})]
    BY <1>1, <1>2, <1>3, <1>4, ElasticTypes
  <2>2. QED
    BY <1>1, <2>1 DEF ElasticInv, TypeOK
<1>7. \A r \in Ranks : r # q => Same(r)
  BY <1>1, <1>2, ElasticTypes DEF Same
<1>8. /\ Outstanding(q)' <= Outstanding(q) /\ Outstanding(q)' \in Nat /\ Pending(q)' = Pending(q)
      /\ Acknowledged(q)' = Acknowledged(q) /\ (Trusted(q)' <=> Trusted(q))
  <2>1. Outstanding(q)' = Buffered(q)' + OnWire(q)' + Unread(q)'
    BY DEF Outstanding, Buffered, OnWire, Unread
  <2>2. Outstanding(q)' <= Outstanding(q) /\ Outstanding(q)' \in Nat
    <3>1. /\ Buffered(q) \in Nat /\ OnWire(q) \in Nat /\ Unread(q) \in Nat
          /\ Outstanding(q) = Buffered(q) + OnWire(q) + Unread(q)
      BY RankSizes
    <3>2. n \in Nat /\ n <= Unread(q)
      BY <3>1
    <3>3. Outstanding(q)' = Buffered(q) + n
      BY <1>3, <1>4, <1>5, <2>1, <3>1, <3>2
    <3>4. QED
      BY <3>1, <3>2, <3>3
  <2>3. QED
    BY <1>1, <1>4, <2>2 DEF Pending, Acknowledged, Trusted
<1>9. RankInv(q)'
  <2>1. Progress(q)'
    BY <1>1, <1>4, <1>8, RankSizes, RankParts DEF Progress
  <2>2. Counts(q)'
    <3>1. /\ nr_queued'[q] = nr_queued[q] /\ synced'[q] = synced[q] /\ step'[q] = step[q]
          /\ pc'[q] = pc[q] /\ put_failed'[q] = put_failed[q] /\ is_async' = is_async
          /\ wire'[q] = <<>> /\ link'[q] = "down" /\ link[q] = "up"
      BY <1>1, <1>4
    <3>2. Counts(q)
      BY RankParts
    <3>3. /\ Outstanding(q) \in Nat /\ nr_queued[q] \in Nat /\ synced[q] \in Nat
          /\ Outstanding(q)' \in Nat /\ Outstanding(q)' <= Outstanding(q)
      BY <1>8, RankSizes
    <3>4. Outstanding(q) + synced[q] <= nr_queued[q]
             => Outstanding(q)' + synced[q] <= nr_queued[q]
      BY <3>3
    <3>5. Pending(q) \in Nat /\ Outstanding(q) <= Pending(q) => Outstanding(q)' <= Pending(q)
      BY <3>3
    <3>6. Outstanding(q) <= 1 => Outstanding(q)' <= 1
      BY <3>3
    <3>7. /\ Pending(q) \in Nat /\ Pending(q)' = Pending(q) /\ (Trusted(q)' <=> Trusted(q))
      BY <1>8, RankSizes
    <3>8. QED
      BY <3>1, <3>2, <3>4, <3>5, <3>6, <3>7 DEF Counts
  <2>3. Stored(q)'
    <3>1. Kept(q) + 0 + Buffered(q) <= step[q]
      <4>1. Kept(q) + OnWire(q) + Buffered(q) <= step[q]
        BY RankParts DEF Stored
      <4>2. QED
        BY <4>1, RankSizes
    <3>2. ASSUME NEW j \in 0..n, Fine(q, j)' PROVE j \in 0..Unread(q) /\ Fine(q, j)
      <4>1. \A k \in 1..j : k \in 1..n
        OBVIOUS
      <4>2. j \in 0..Unread(q)
        BY RankNow
      <4>3. QED
        BY <1>3, <3>2, <4>1, <4>2 DEF Fine
    <3>3. Stored(q)
      BY RankNow DEF RankInv
    <3>4. QED
      BY <1>1, <1>3, <1>4, <1>5, <1>8, <3>1, <3>2, <3>3 DEF Stored
  <2>4. Follow(q)'
    BY <1>4 DEF Follow
  <2>5. QED
    BY <2>1, <2>2, <2>3, <2>4 DEF RankInv
<1>10. QED
  BY <1>1, <1>6, <1>7, <1>9, OneRank

\* What the server takes is the record after those it has, unless a reply on
\* its way is an error already.
LEMMA ServeInv ==
  ASSUME ElasticInv, NEW q \in Ranks, Serve(q)
  PROVE  ElasticInv'
<1>1. /\ wire[q] # <<>> /\ wire' = [wire EXCEPT ![q] = Tail(wire[q])]
      /\ UNCHANGED <<is_async, collective, pc, step, put_failed, nr_queued, synced, status,
                     obuf, link, aborted>>
  BY ElasticTypes DEF Serve, clientVars
<1>2. /\ wire'[q] \in Seq(Records) /\ OnWire(q)' = OnWire(q) - 1 /\ OnWire(q) > 0
      /\ \A i \in 1..(OnWire(q) - 1) : wire'[q][i] = wire[q][i + 1]
      /\ Head(wire[q]) = wire[q][1] /\ Head(wire[q]) \in Records
  <2>1. wire'[q] = Tail(wire[q])
    BY <1>1, ElasticTypes
  <2>2. /\ Tail(wire[q]) \in Seq(Records) /\ Len(Tail(wire[q])) = Len(wire[q]) - 1
        /\ \A i \in 1..Len(Tail(wire[q])) : Tail(wire[q])[i] = wire[q][i + 1]
        /\ Head(wire[q]) \in Records
    BY <1>1, RankQueues, HeadTailProperties
  <2>3. Head(wire[q]) = wire[q][1] /\ Len(wire[q]) > 0
    BY <1>1, RankNow
  <2>4. QED
    BY <2>1, <2>2, <2>3 DEF OnWire
<1>3. PICK x \in {"id", "error"} :
        /\ replies' = [replies EXCEPT ![q] = Append(replies[q], x)]
        /\ x = "id" => stream' = [stream EXCEPT ![q] = Append(stream[q], Head(wire[q]))]
        /\ x = "error" => UNCHANGED stream
  BY ElasticTypes DEF Serve
<1>4. /\ replies'[q] \in Seq({"id", "error"}) /\ Unread(q)' = Unread(q) + 1
      /\ \A k \in 1..Unread(q) : replies'[q][k] = replies[q][k]
      /\ replies'[q][Unread(q) + 1] = x
  <2>1. replies'[q] = Append(replies[q], x)
    BY <1>3, ElasticTypes
  <2>2. QED
    BY <2>1, RankQueues, AppendProperties DEF Unread
<1>5. /\ stream' \in [Ranks -> Seq(Records)]
      /\ \A r \in Ranks : r # q => stream'[r] = stream[r]
      /\ Kept(q)' = Kept(q) + (IF x = "id" THEN 1 ELSE 0)
      /\ \A i \in 1..Kept(q) : stream'[q][i] = stream[q][i]
      /\ x = "id" => stream'[q][Kept(q) + 1] = wire[q][1]
  <2>1. CASE x = "id"
    <3>1. stream' = [stream EXCEPT ![q] = Append(stream[q], wire[q][1])]
      BY <1>2, <1>3, <2>1
    <3>2. stream'[q] = Append(stream[q], wire[q][1])
      BY <3>1, ElasticTypes
    <3>3. /\ stream'[q] \in Seq(Records) /\ Kept(q)' = Kept(q) + 1
          /\ \A i \in 1..Kept(q) : stream'[q][i] = stream[q][i]
          /\ stream'[q][Kept(q) + 1] = wire[q][1]
      <4>1. stream[q] \in Seq(Records) /\ wire[q][1] \in Records
        BY <1>2, RankQueues
      <4>2. /\ Append(stream[q], wire[q][1]) \in Seq(Records)
            /\ Len(Append(stream[q], wire[q][1])) = Len(stream[q]) + 1
            /\ \A i \in 1..Len(stream[q]) : Append(stream[q], wire[q][1])[i] = stream[q][i]
            /\ Append(stream[q], wire[q][1])[Len(stream[q]) + 1] = wire[q][1]
        BY <4>1, AppendProperties
      <4>3. QED
        BY <3>2, <4>2 DEF Kept
    <3>4. /\ stream' \in [Ranks -> Seq(Records)]
          /\ \A r \in Ranks : r # q => stream'[r] = stream[r]
      BY <3>1, <3>2, <3>3, ElasticTypes
    <3>5. QED
      BY <2>1, <3>3, <3>4
  <2>2. CASE x = "error"
    <3>1. stream' = stream
      BY <1>3, <2>2
    <3>2. Kept(q)' = Kept(q) + 0
      BY <3>1, RankNow DEF Kept
    <3>3. QED
      BY <2>2, <3>1, <3>2, ElasticTypes
  <2>3. QED
    BY <2>1, <2>2
<1>6. Buffered(q)' = Buffered(q)
  BY <1>1 DEF Buffered
<1>7. TypeOK'
  <2>1. /\ wire' \in [Ranks -> Seq(Records)]
        /\ replies' \in [Ranks -> Seq({"id", "error"})]
    BY <1>1, <1>2, <1>3, <1>4, ElasticTypes
  <2>2. QED
    BY <1>1, <1>5, <2>1 DEF ElasticInv, TypeOK
<1>8. \A r \in Ranks : r # q => Same(r)
  BY <1>1, <1>3, <1>5, ElasticTypes DEF Same
<1>9. /\ Outstanding(q)' = Outstanding(q) /\ Pending(q)' = Pending(q)
      /\ Acknowledged(q)' = Acknowledged(q) /\ (Trusted(q)' <=> Trusted(q))
  <2>1. Outstanding(q)' = Buffered(q)' + OnWire(q)' + Unread(q)'
    BY DEF Outstanding, Buffered, OnWire, Unread
  <2>2. Outstanding(q)' = Outstanding(q)
    BY <1>2, <1>4, <1>6, <2>1, RankSizes
  <2>3. QED
    BY <1>1, <2>2 DEF Pending, Acknowledged, Trusted
<1>10. /\ Progress(q) /\ Counts(q) /\ Stored(q) /\ Follow(q)
       /\ link[q] = "up" /\ Kept(q) \in Nat /\ Unread(q) \in Nat /\ Acknowledged(q) \in Nat
       /\ OnWire(q) \in Nat
  <2>1. RankInv(q)
    BY RankNow
  <2>2. link[q] = "up"
    BY <1>1, <2>1 DEF RankInv, Counts
  <2>3. QED
    BY <2>1, <2>2, RankNow DEF RankInv
<1> HIDE DEF Serve
<1>11. ASSUME NEW j \in 0..Unread(q), Fine(q, j)' PROVE Fine(q, j)
  <2>1. \A k \in 1..j : k \in 1..Unread(q)
    BY <1>10
  <2>2. QED
    BY <1>4, <1>11, <2>1 DEF Fine
<1>12. ASSUME NEW j, j = Unread(q) + 1, Fine(q, j)' PROVE x = "id" /\ Fine(q, Unread(q))
  <2>1. \A k \in 1..(Unread(q) + 1) : replies'[q][k] = "id"
    BY <1>12 DEF Fine
  <2>2. Unread(q) + 1 \in 1..(Unread(q) + 1) /\ \A k \in 1..Unread(q) : k \in 1..(Unread(q) + 1)
    BY <1>10
  <2>3. QED
    BY <1>4, <2>1, <2>2 DEF Fine
<1>13. ASSUME Trusted(q), Fine(q, Unread(q))
       PROVE  /\ Kept(q) = Acknowledged(q) + Unread(q)
              /\ \A i \in 1..OnWire(q) : wire[q][i] = Kept(q) + i - 1
              /\ \A i \in 1..Buffered(q) : obuf[q][i] = Kept(q) + OnWire(q) + i - 1
              /\ wire[q][1] = Kept(q)
  <2>1. /\ Kept(q) = Acknowledged(q) + Unread(q)
        /\ \A i \in 1..OnWire(q) : wire[q][i] = Kept(q) + i - 1
        /\ \A i \in 1..Buffered(q) : obuf[q][i] = Kept(q) + OnWire(q) + i - 1
    BY <1>10, <1>13 DEF Follow
  <2>2. 1 \in 1..OnWire(q) /\ Kept(q) + 1 - 1 = Kept(q)
    BY <1>2, <1>10
  <2>3. QED
    BY <2>1, <2>2
<1>14. Progress(q)'
  BY <1>1, <1>9, <1>10 DEF Progress
<1>15. Counts(q)'
  BY <1>1, <1>9, <1>10 DEF Counts
<1>16. Stored(q)'
  <2>1. Kept(q)' + (OnWire(q) - 1) + Buffered(q) <= step[q]
    <3>1. Kept(q) + OnWire(q) + Buffered(q) <= step[q]
      BY <1>10 DEF Stored
    <3>2. Kept(q)' \in Nat /\ Kept(q)' <= Kept(q) + 1
      BY <1>5, <1>10
    <3>3. Kept(q) \in Nat /\ OnWire(q) \in Nat /\ Buffered(q) \in Nat /\ step[q] \in Nat
      BY RankSizes
    <3>4. QED
      BY <3>1, <3>2, <3>3
  <2>2. ASSUME Trusted(q), NEW j \in 0..(Unread(q) + 1), Fine(q, j)'
        PROVE  /\ Acknowledged(q) + j <= Kept(q)'
               /\ \A i \in 1..(Acknowledged(q) + j) : stream'[q][i] = i - 1
    <3>1. CASE j \in 0..Unread(q)
      <4>1. /\ Acknowledged(q) + j <= Kept(q)
            /\ \A i \in 1..(Acknowledged(q) + j) : stream[q][i] = i - 1
        BY <1>10, <1>11, <2>2, <3>1 DEF Stored
      <4>2. \A i \in 1..(Acknowledged(q) + j) : i \in 1..Kept(q)
        BY <1>10, <3>1, <4>1
      <4>3. Acknowledged(q) + j <= Kept(q)'
        BY <1>5, <1>10, <3>1, <4>1
      <4>4. QED
        BY <1>5, <4>1, <4>2, <4>3
    <3>2. CASE j = Unread(q) + 1
      <4>1. x = "id" /\ Fine(q, Unread(q)) /\ Unread(q) \in 0..Unread(q)
        BY <1>10, <1>12, <2>2, <3>2
      <4>2. Kept(q) = Acknowledged(q) + Unread(q) /\ wire[q][1] = Kept(q)
        BY <1>13, <2>2, <4>1
      <4>3. \A i \in 1..(Acknowledged(q) + Unread(q)) : stream[q][i] = i - 1
        BY <1>10, <2>2, <4>1 DEF Stored
      <4>4. Acknowledged(q) + j = Kept(q) + 1 /\ Kept(q)' = Kept(q) + 1
        BY <1>5, <1>10, <3>2, <4>1, <4>2
      <4>5. ASSUME NEW i \in 1..(Kept(q) + 1) PROVE stream'[q][i] = i - 1
        <5>1. i \in 1..Kept(q) \/ (i = Kept(q) + 1 /\ i - 1 = Kept(q))
          BY <1>10
        <5>2. QED
          BY <1>5, <4>1, <4>2, <4>3, <5>1
      <4>6. QED
        BY <1>10, <4>4, <4>5
    <3>3. QED
      BY <1>10, <3>1, <3>2
  <2>3. QED
    BY <1>1, <1>2, <1>4, <1>6, <1>9, <2>1, <2>2 DEF Stored
<1>17. Follow(q)'
  <2>1. SUFFICES ASSUME Trusted(q), Fine(q, Unread(q))'
                 PROVE  /\ Kept(q)' = Acknowledged(q) + (Unread(q) + 1)
                        /\ \A i \in 1..(OnWire(q) - 1) : wire'[q][i] = Kept(q)' + i - 1
                        /\ \A i \in 1..Buffered(q) : obuf[q][i] = Kept(q)' + (OnWire(q) - 1) + i - 1
    BY <1>1, <1>2, <1>4, <1>6, <1>9 DEF Follow
  <2>2. x = "id" /\ Fine(q, Unread(q))
    <3>1. \A k \in 1..(Unread(q) + 1) : replies'[q][k] = "id"
      BY <1>4, <2>1 DEF Fine
    <3>2. QED
      BY <1>12, <3>1 DEF Fine
  <2>3. /\ Kept(q) = Acknowledged(q) + Unread(q) /\ Kept(q)' = Kept(q) + 1
        /\ \A i \in 1..OnWire(q) : wire[q][i] = Kept(q) + i - 1
        /\ \A i \in 1..Buffered(q) : obuf[q][i] = Kept(q) + OnWire(q) + i - 1
    BY <1>5, <1>13, <2>1, <2>2
  <2>4. ASSUME NEW i \in 1..(OnWire(q) - 1) PROVE wire'[q][i] = Kept(q)' + i - 1
    <3>1. i + 1 \in 1..OnWire(q) /\ Kept(q) + (i + 1) - 1 = (Kept(q) + 1) + i - 1
      BY <1>10
    <3>2. QED
      BY <1>2, <2>3, <3>1
  <2>5. ASSUME NEW i \in 1..Buffered(q) PROVE obuf[q][i] = Kept(q)' + (OnWire(q) - 1) + i - 1
    <3>1. Kept(q) + OnWire(q) + i - 1 = (Kept(q) + 1) + (OnWire(q) - 1) + i - 1
      BY <1>10, RankNow
    <3>2. QED
      BY <2>3, <3>1
  <2>6. QED
    BY <1>10, <2>3, <2>4, <2>5
<1>18. QED
  BY <1>1, <1>7, <1>8, <1>14, <1>15, <1>16, <1>17, OneRank DEF RankInv

-----------------------------------------------------------------------------
(* broker_put.                                                              *)

LEMMA ElasticInitInv == Init => ElasticInv
<1> SUFFICES ASSUME Init PROVE ElasticInv
  OBVIOUS
<1>1. nr_steps \in Nat /\ queue_len \in Nat \ {0}
  BY ElasticAssumption
<1>2. /\ <<>> \in Seq(Records) /\ <<>> \in Seq({"id", "error"}) /\ Len(<<>>) = 0
  OBVIOUS
<1>3. TypeOK
  <2>1. 0 \in 0..nr_steps
    BY <1>1
  <2>2. /\ is_async \in BOOLEAN /\ collective \in BOOLEAN /\ aborted \in BOOLEAN
        /\ pc \in [Ranks -> {"run", "command", "drain", "barrier", "sync", "stats", "done"}]
        /\ step \in [Ranks -> 0..nr_steps] /\ put_failed \in [Ranks -> BOOLEAN]
        /\ nr_queued \in [Ranks -> 0..nr_steps] /\ synced \in [Ranks -> 0..nr_steps]
        /\ status \in [Ranks -> {0, -1}] /\ link \in [Ranks -> {"up", "down", "failed"}]
    BY <2>1 DEF Init
  <2>3. /\ obuf \in [Ranks -> Seq(Records)] /\ wire \in [Ranks -> Seq(Records)]
        /\ replies \in [Ranks -> Seq({"id", "error"})] /\ stream \in [Ranks -> Seq(Records)]
    BY <1>2 DEF Init
  <2>4. QED
    BY <2>2, <2>3 DEF TypeOK
<1>4. ASSUME NEW r \in Ranks PROVE RankInv(r)
  <2>1. /\ pc[r] = "run" /\ step[r] = 0 /\ ~put_failed[r] /\ nr_queued[r] = 0
        /\ synced[r] = 0 /\ status[r] = 0 /\ link[r] = "up" /\ is_async \in BOOLEAN
    BY DEF Init
  <2>2. Buffered(r) = 0 /\ OnWire(r) = 0 /\ Unread(r) = 0 /\ Kept(r) = 0 /\ wire[r] = <<>>
    BY <1>2 DEF Init, Buffered, OnWire, Unread, Kept
  <2>3. Outstanding(r) = Buffered(r) + OnWire(r) + Unread(r)
    BY DEF Outstanding, Buffered, OnWire, Unread
  <2>4. Outstanding(r) = 0 /\ Pending(r) = 0 /\ Acknowledged(r) = 0 /\ Trusted(r)
    BY <2>1, <2>2, <2>3 DEF Pending, Acknowledged, Trusted
  <2>5. Progress(r)
    BY <2>1, <2>4 DEF Progress
  <2>6. Counts(r)
    BY <1>1, <2>1, <2>2, <2>4 DEF Counts
  <2>7. Stored(r)
    BY <2>1, <2>2, <2>4 DEF Stored
  <2>8. Follow(r)
    BY <2>2, <2>4 DEF Follow
  <2>9. QED
    BY <2>5, <2>6, <2>7, <2>8 DEF RankInv
<1>5. QED
  BY <1>3, <1>4 DEF ElasticInv

LEMMA PutAsyncInv ==
  ASSUME ElasticInv, NEW q \in Ranks, PutAsync(q), UNCHANGED <<is_async, collective, aborted>>
  PROVE  ElasticInv'
<1>1. /\ is_async /\ pc[q] = "run" /\ step[q] < nr_steps /\ ~put_failed[q]
      /\ obuf' = [obuf EXCEPT ![q] = Append(obuf[q], step[q])]
      /\ step' = [step EXCEPT ![q] = step[q] + 1]
      /\ nr_queued' = [nr_queued EXCEPT ![q] = nr_queued[q] + 1]
      /\ pc' = [pc EXCEPT ![q] = IF nr_queued[q] + 1 = queue_len THEN "drain" ELSE "run"]
      /\ UNCHANGED <<put_failed, synced, status, wire, replies, stream, link>>
  BY ElasticTypes DEF PutAsync, Goto
<1> HIDE DEF PutAsync
<1>2. /\ step[q] \in Records /\ step'[q] = step[q] + 1 /\ nr_queued'[q] = nr_queued[q] + 1
      /\ pc'[q] = IF nr_queued[q] + 1 = queue_len THEN "drain" ELSE "run"
  BY <1>1, ElasticTypes DEF Records
<1>3. AddsRecord(q)
  BY <1>1, ElasticTypes DEF AddsRecord
<1>4. obuf'[q] \in Seq(Records)
  BY <1>2, <1>3, RankQueues, AppendProperties DEF AddsRecord
<1>5. Progress(q) /\ Counts(q) /\ status[q] = 0
  BY <1>1, RankParts DEF Progress
<1>6. /\ nr_queued[q] < queue_len /\ nr_queued[q] <= step[q] /\ step[q] \in Nat
      /\ nr_queued[q] \in Nat /\ synced[q] \in Nat
  BY <1>1, <1>5, RankSizes DEF Counts
<1>7. TypeOK'
  <2>1. step' \in [Ranks -> 0..nr_steps]
    BY <1>1, <1>6, ElasticTypes
  <2>2. nr_queued' \in [Ranks -> 0..nr_steps]
    BY <1>1, <1>6, ElasticTypes
  <2>3. pc' \in [Ranks -> {"run", "command", "drain", "barrier", "sync", "stats", "done"}]
    BY <1>1, ElasticTypes
  <2>4. obuf' \in [Ranks -> Seq(Records)]
    BY <1>1, <1>4, ElasticTypes
  <2>5. QED
    BY <1>1, <2>1, <2>2, <2>3, <2>4 DEF ElasticInv, TypeOK
<1>8. \A r \in Ranks : r # q => Same(r)
  BY <1>1, ElasticTypes DEF Same
<1>9. Pending(q)' = Pending(q) + 1 /\ Pending(q) = nr_queued[q] - synced[q]
  BY <1>1, <1>2, <1>6 DEF Pending
<1>10. Stored(q)' /\ Follow(q)' /\ Outstanding(q)' = Outstanding(q) + 1
  <2>1. CASE link[q] # "failed"
    <3>1. Trusted(q)
      BY <1>1, <1>5, <2>1 DEF Trusted
    <3>2. QED
      BY <1>1, <1>2, <1>3, <1>9, <3>1, RecordPut
  <2>2. CASE link[q] = "failed"
    BY <1>1, <1>2, <1>3, <2>2, RecordPutBlindly
  <2>3. QED
    BY <2>1, <2>2
<1>11. (Trusted(q)' <=> Trusted(q)) /\ Outstanding(q) \in Nat
  BY <1>1, RankSizes DEF Trusted
<1>12. Progress(q)'
  BY <1>1, <1>2, <1>5, <1>6 DEF Progress
<1>13. Counts(q)'
  <2>1. /\ link[q] # "failed" => Outstanding(q) + synced[q] <= nr_queued[q]
        /\ synced[q] <= nr_queued[q]
    BY <1>1, <1>5 DEF Counts
  <2>2. /\ link[q] # "failed" => Outstanding(q) + 1 + synced[q] <= nr_queued[q] + 1
        /\ synced[q] <= nr_queued[q] + 1
    BY <1>6, <1>11, <2>1
  <2>3. link[q] = "up" => Outstanding(q) = Pending(q)
    BY <1>1, <1>5 DEF Counts, Trusted
  <2>4. (link[q] # "up" => wire[q] = <<>>) /\ (link[q] = "failed" => replies[q] = <<>>)
    BY <1>5 DEF Counts
  <2>5. nr_queued[q] + 1 <= step[q] + 1 /\ nr_queued[q] + 1 <= queue_len
    BY <1>6, RankSizes
  <2>6. pc'[q] = "run" => nr_queued[q] + 1 < queue_len
    BY <1>2, <1>6, RankSizes
  <2>7. link[q] = "up" => Outstanding(q) + 1 = Pending(q) + 1
    BY <2>3
  <2>8. nr_queued[q] + 1 > 0
    BY <1>6
  <2>9. /\ is_async' /\ link'[q] = link[q] /\ wire'[q] = wire[q] /\ synced'[q] = synced[q]
        /\ replies'[q] = replies[q]
    BY <1>1
  <2>10. QED
    BY <1>2, <1>9, <1>10, <2>2, <2>4, <2>5, <2>6, <2>7, <2>8, <2>9 DEF Counts
<1>14. QED
  BY <1>7, <1>8, <1>10, <1>12, <1>13, OneRank DEF RankInv

LEMMA PutSyncInv ==
  ASSUME ElasticInv, NEW q \in Ranks, PutSync(q), UNCHANGED <<is_async, collective, aborted>>
  PROVE  ElasticInv'
<1>1. /\ ~is_async /\ pc[q] = "run" /\ step[q] < nr_steps /\ ~put_failed[q]
      /\ obuf' = [obuf EXCEPT ![q] = Append(obuf[q], step[q])]
      /\ step' = [step EXCEPT ![q] = step[q] + 1]
      /\ pc' = [pc EXCEPT ![q] = "command"]
      /\ UNCHANGED <<put_failed, nr_queued, synced, status, wire, replies, stream, link>>
  BY ElasticTypes DEF PutSync, Goto
<1> HIDE DEF PutSync
<1>2. /\ step[q] \in Records /\ step'[q] = step[q] + 1 /\ pc'[q] = "command" /\ step[q] \in Nat
  BY <1>1, ElasticTypes DEF Records
<1>3. AddsRecord(q)
  BY <1>1, ElasticTypes DEF AddsRecord
<1>4. obuf'[q] \in Seq(Records)
  BY <1>2, <1>3, RankQueues, AppendProperties DEF AddsRecord
<1>5. Progress(q) /\ Counts(q) /\ Trusted(q)
  BY <1>1, RankParts DEF Progress, Trusted
<1>6. TypeOK'
  <2>1. step' \in [Ranks -> 0..nr_steps]
    BY <1>1, <1>2, ElasticTypes
  <2>2. pc' \in [Ranks -> {"run", "command", "drain", "barrier", "sync", "stats", "done"}]
    BY <1>1, ElasticTypes
  <2>3. obuf' \in [Ranks -> Seq(Records)]
    BY <1>1, <1>4, ElasticTypes
  <2>4. QED
    BY <1>1, <2>1, <2>2, <2>3 DEF ElasticInv, TypeOK
<1>7. \A r \in Ranks : r # q => Same(r)
  BY <1>1, ElasticTypes DEF Same
<1>8. Pending(q)' = Pending(q) + 1 /\ Pending(q) = 0
  BY <1>1, <1>2 DEF Pending
<1>9. Stored(q)' /\ Follow(q)' /\ Outstanding(q)' = Outstanding(q) + 1
  BY <1>1, <1>2, <1>3, <1>5, <1>8, RecordPut
<1>10. (Trusted(q)' <=> Trusted(q)) /\ Outstanding(q) \in Nat /\ Outstanding(q) = 0
  BY <1>1, <1>5, <1>8, RankSizes DEF Trusted, Counts
<1>11. Progress(q)'
  BY <1>1, <1>2, <1>5 DEF Progress
<1>12. Counts(q)'
  <2>1. nr_queued[q] = 0 /\ queue_len \in Nat
    BY <1>1, <1>5, RankSizes DEF Progress
  <2>2. QED
    BY <1>1, <1>2, <1>5, <1>8, <1>9, <1>10, <2>1 DEF Counts
<1>13. QED
  BY <1>6, <1>7, <1>9, <1>11, <1>12, OneRank DEF RankInv

\* Reading a reply shortens the queue of replies and nothing else.
LEMMA ReplyRead ==
  ASSUME ElasticInv, NEW q \in Ranks, TakeReply(q), replies[q] # <<>>, UNCHANGED <<obuf, wire>>
  PROVE  /\ replies' \in [Ranks -> Seq({"id", "error"})]
         /\ \A r \in Ranks : r # q => replies'[r] = replies[r]
         /\ replies'[q] = Tail(replies[q])
         /\ Outstanding(q)' \in Nat /\ Outstanding(q)' = Outstanding(q) - 1
         /\ Outstanding(q)' <= Outstanding(q)
<1>1. replies' = [replies EXCEPT ![q] = Tail(replies[q])] /\ replies'[q] = Tail(replies[q])
  BY ElasticTypes DEF TakeReply
<1>2. replies'[q] \in Seq({"id", "error"}) /\ Unread(q)' \in Nat /\ Unread(q)' = Unread(q) - 1
  <2>1. /\ Tail(replies[q]) \in Seq({"id", "error"})
        /\ Len(Tail(replies[q])) = Len(replies[q]) - 1
    BY RankQueues, HeadTailProperties
  <2>2. Len(Tail(replies[q])) \in Nat
    BY <2>1, LenProperties
  <2>3. QED
    BY <1>1, <2>1, <2>2 DEF Unread
<1>3. Outstanding(q)' = Buffered(q) + OnWire(q) + Unread(q)'
  BY DEF Outstanding, Buffered, OnWire, Unread
<1>4. /\ Outstanding(q)' \in Nat /\ Outstanding(q)' = Outstanding(q) - 1
      /\ Outstanding(q)' <= Outstanding(q)
  BY <1>2, <1>3, RankSizes
<1>5. QED
  BY <1>1, <1>2, <1>4, ElasticTypes

LEMMA DrainReplyInv ==
  ASSUME ElasticInv, NEW q \in Ranks, DrainReply(q), UNCHANGED <<is_async, collective, aborted>>
  PROVE  ElasticInv'
<1>1. /\ pc[q] = "drain" /\ replies[q] # <<>> /\ Head(replies[q]) = "id" /\ TakeReply(q)
      /\ nr_queued' = [nr_queued EXCEPT ![q] = nr_queued[q] - 1]
      /\ pc' = [pc EXCEPT ![q] = IF nr_queued[q] = 1 THEN "run" ELSE "drain"]
      /\ UNCHANGED <<step, put_failed, synced, status, obuf, wire, stream, link>>
  BY ElasticTypes DEF DrainReply, Goto, Answered
<1> HIDE DEF DrainReply
<1>2. /\ nr_queued'[q] = nr_queued[q] - 1
      /\ pc'[q] = IF nr_queued[q] = 1 THEN "run" ELSE "drain"
  BY <1>1, ElasticTypes
<1>3. /\ replies' \in [Ranks -> Seq({"id", "error"})] /\ ReadsId(q)
      /\ \A r \in Ranks : r # q => replies'[r] = replies[r]
  BY <1>1, ReplyRead DEF ReadsId
<1>4. Progress(q) /\ Counts(q) /\ Trusted(q) /\ is_async /\ link[q] # "failed"
  BY <1>1, RankParts, HasReply DEF Progress, Trusted
<1>5. /\ nr_queued[q] > 0 /\ nr_queued[q] \in 0..nr_steps /\ nr_queued[q] <= step[q]
      /\ synced[q] \in Nat /\ step[q] \in Nat /\ nr_queued[q] <= queue_len /\ queue_len \in Nat
  <2>1. /\ pc[q] = "drain" /\ nr_queued[q] > 0 /\ nr_queued[q] <= step[q] /\ nr_queued[q] <= queue_len
    BY <1>1, <1>4 DEF Counts
  <2>2. /\ nr_queued[q] \in Nat /\ nr_queued[q] <= nr_steps /\ nr_steps \in Nat
        /\ synced[q] \in Nat /\ step[q] \in Nat /\ queue_len \in Nat
    BY RankSizes
  <2>3. nr_queued[q] \in 0..nr_steps
    BY <2>2
  <2>4. QED
    BY <2>1, <2>2, <2>3
<1>6. TypeOK'
  <2>1. nr_queued' \in [Ranks -> 0..nr_steps]
    BY <1>1, <1>5, ElasticTypes
  <2>2. pc' \in [Ranks -> {"run", "command", "drain", "barrier", "sync", "stats", "done"}]
    BY <1>1, ElasticTypes
  <2>3. QED
    BY <1>1, <1>3, <2>1, <2>2 DEF ElasticInv, TypeOK
<1>7. \A r \in Ranks : r # q => Same(r)
  BY <1>1, <1>3, ElasticTypes DEF Same
<1>8. Pending(q)' = Pending(q) - 1 /\ Pending(q) = nr_queued[q] - synced[q]
  BY <1>1, <1>2, <1>4, <1>5 DEF Pending
<1>9. Stored(q)' /\ Follow(q)' /\ Outstanding(q)' = Outstanding(q) - 1
  BY <1>1, <1>3, <1>4, <1>8, ReplyTaken
<1>10. (Trusted(q)' <=> Trusted(q)) /\ Outstanding(q) \in Nat
  BY <1>1, RankSizes DEF Trusted
<1>11. Progress(q)'
  BY <1>1, <1>2, <1>4 DEF Progress
<1>12. Counts(q)'
  <2>1. Outstanding(q) + synced[q] <= nr_queued[q]
    BY <1>4 DEF Counts
  <2>2. Outstanding(q) - 1 + synced[q] <= nr_queued[q] - 1 /\ synced[q] <= nr_queued[q] - 1
    <3>1. synced[q] = 0
      BY <1>1, <1>4 DEF Progress
    <3>2. nr_queued[q] \in Nat
      BY RankSizes
    <3>3. QED
      BY <1>5, <1>10, <2>1, <3>1, <3>2
  <2>3. link[q] = "up" => Outstanding(q) - 1 = Pending(q) - 1
    BY <1>4 DEF Counts
  <2>4. link[q] # "up" => wire[q] = <<>>
    BY <1>4 DEF Counts
  <2>5. nr_queued[q] - 1 <= step[q] /\ nr_queued[q] - 1 < queue_len /\ nr_queued[q] - 1 <= queue_len
    BY <1>5
  <2>6. pc'[q] = "drain" => nr_queued[q] - 1 > 0
    BY <1>2, <1>5
  <2>7. is_async' /\ link'[q] = link[q] /\ wire'[q] = wire[q] /\ synced'[q] = synced[q]
        /\ step'[q] = step[q] /\ link[q] # "failed"
    BY <1>1, <1>4
  <2>8. QED
    BY <1>2, <1>8, <1>9, <1>10, <2>2, <2>3, <2>4, <2>5, <2>6, <2>7 DEF Counts
<1>13. QED
  BY <1>6, <1>7, <1>9, <1>11, <1>12, OneRank DEF RankInv

LEMMA DrainErrorInv ==
  ASSUME ElasticInv, NEW q \in Ranks, DrainError(q), UNCHANGED <<is_async, collective, aborted>>
  PROVE  ElasticInv'
<1>1. /\ pc[q] = "drain" /\ TakeReply(q) /\ replies[q] # <<>>
      /\ put_failed' = [put_failed EXCEPT ![q] = TRUE]
      /\ pc' = [pc EXCEPT ![q] = "run"]
      /\ UNCHANGED <<step, nr_queued, synced, status, obuf, wire, stream, link>>
  BY ElasticTypes DEF DrainError, Goto, Refused
<1> HIDE DEF DrainError
<1>2. put_failed'[q] /\ pc'[q] = "run" /\ ~Trusted(q)'
  BY <1>1, ElasticTypes DEF Trusted
<1>3. /\ replies' \in [Ranks -> Seq({"id", "error"})]
      /\ \A r \in Ranks : r # q => replies'[r] = replies[r]
      /\ Outstanding(q)' \in Nat /\ Outstanding(q)' <= Outstanding(q)
  BY <1>1, ReplyRead
<1>4. Progress(q) /\ Counts(q) /\ is_async /\ link[q] # "failed"
  BY <1>1, RankParts, HasReply DEF Progress
<1>5. TypeOK'
  <2>1. put_failed' \in [Ranks -> BOOLEAN]
    BY <1>1, ElasticTypes
  <2>2. pc' \in [Ranks -> {"run", "command", "drain", "barrier", "sync", "stats", "done"}]
    BY <1>1, ElasticTypes
  <2>3. QED
    BY <1>1, <1>3, <2>1, <2>2 DEF ElasticInv, TypeOK
<1>6. \A r \in Ranks : r # q => Same(r)
  BY <1>1, <1>3, ElasticTypes DEF Same
<1>7. Stored(q)' /\ Follow(q)'
  BY <1>1, <1>2, NotTrusted
<1>8. Progress(q)'
  BY <1>1, <1>2, <1>4 DEF Progress
<1>9. Counts(q)'
  <2>1. Outstanding(q)' + synced[q] <= nr_queued[q]
    <3>1. Outstanding(q) + synced[q] <= nr_queued[q]
      BY <1>4 DEF Counts
    <3>2. /\ Outstanding(q)' \in Nat /\ Outstanding(q)' <= Outstanding(q)
          /\ Outstanding(q) \in Nat /\ synced[q] \in Nat /\ nr_queued[q] \in Nat
      BY <1>3, RankSizes
    <3>3. QED
      BY <3>1, <3>2
  <2>2. QED
    BY <1>1, <1>2, <1>4, <2>1 DEF Counts
<1>10. QED
  BY <1>5, <1>6, <1>7, <1>8, <1>9, OneRank DEF RankInv

LEMMA CommandReplyInv ==
  ASSUME ElasticInv, NEW q \in Ranks, CommandReply(q), UNCHANGED <<is_async, collective, aborted>>
  PROVE  ElasticInv'
<1>1. /\ pc[q] = "command" /\ TakeReply(q) /\ replies[q] # <<>>
      /\ Answered(q) \/ Refused(q)
      /\ put_failed' = [put_failed EXCEPT ![q] = Refused(q)]
      /\ pc' = [pc EXCEPT ![q] = "run"]
      /\ UNCHANGED <<step, nr_queued, synced, status, obuf, wire, stream, link>>
  BY ElasticTypes DEF CommandReply, Goto, Answered, Refused
<1> HIDE DEF CommandReply
<1>2. put_failed'[q] = Refused(q) /\ pc'[q] = "run"
  BY <1>1, ElasticTypes
<1>3. /\ replies' \in [Ranks -> Seq({"id", "error"})]
      /\ \A r \in Ranks : r # q => replies'[r] = replies[r]
      /\ replies'[q] = Tail(replies[q])
      /\ Outstanding(q)' \in Nat /\ Outstanding(q)' <= Outstanding(q)
  BY <1>1, ReplyRead
<1>4. Progress(q) /\ Counts(q) /\ Trusted(q) /\ ~is_async /\ link[q] # "failed"
  BY <1>1, RankParts, HasReply DEF Progress, Trusted
<1>5. Refused(q) \in BOOLEAN
  BY ElasticTypes DEF Refused
<1>6. TypeOK'
  <2>1. put_failed' \in [Ranks -> BOOLEAN]
    BY <1>1, <1>5, ElasticTypes
  <2>2. pc' \in [Ranks -> {"run", "command", "drain", "barrier", "sync", "stats", "done"}]
    BY <1>1, ElasticTypes
  <2>3. QED
    BY <1>1, <1>3, <2>1, <2>2 DEF ElasticInv, TypeOK
<1>7. \A r \in Ranks : r # q => Same(r)
  BY <1>1, <1>3, ElasticTypes DEF Same
<1>8. Pending(q) = 1 /\ Pending(q)' = 0
  BY <1>1, <1>2, <1>4 DEF Pending
<1>9. Progress(q)'
  BY <1>1, <1>2, <1>4 DEF Progress
<1>10. /\ nr_queued[q] = 0 /\ Outstanding(q) <= 1 /\ Outstanding(q) \in Nat
       /\ nr_queued[q] <= step[q] /\ nr_queued[q] <= queue_len
       /\ link[q] # "up" => wire[q] = <<>>
       /\ link[q] = "up" => Outstanding(q) = 1
  BY <1>4, <1>8, RankNow DEF Progress, Counts
<1>11. CASE Refused(q)
  <2>1. ~Trusted(q)'
    BY <1>2, <1>11 DEF Trusted
  <2>2. Stored(q)' /\ Follow(q)'
    BY <1>1, <2>1, NotTrusted
  <2>3. Outstanding(q)' <= 1
    BY <1>3, <1>10
  <2>4. Counts(q)'
    BY <1>1, <1>2, <1>4, <1>10, <2>1, <2>3 DEF Counts
  <2>5. QED
    BY <1>6, <1>7, <1>9, <2>2, <2>4, OneRank DEF RankInv
<1>12. CASE ~Refused(q)
  <2>1. ReadsId(q)
    BY <1>1, <1>3, <1>12 DEF ReadsId, Answered
  <2>2. Stored(q)' /\ Follow(q)' /\ Outstanding(q)' = Outstanding(q) - 1
    BY <1>1, <1>4, <1>8, <2>1, ReplyTaken
  <2>3. Outstanding(q)' = 0
    BY <1>3, <1>10, <2>2
  <2>4. Counts(q)'
    BY <1>1, <1>2, <1>4, <1>8, <1>10, <2>3 DEF Counts
  <2>5. QED
    BY <1>6, <1>7, <1>9, <2>2, <2>4, OneRank DEF RankInv
<1>13. QED
  BY <1>11, <1>12

-----------------------------------------------------------------------------
(* broker_finalize.                                                         *)

LEMMA SyncReplyInv ==
  ASSUME ElasticInv, NEW q \in Ranks, SyncReply(q), UNCHANGED <<is_async, collective, aborted>>
  PROVE  ElasticInv'
<1>1. /\ pc[q] = "sync" /\ synced[q] < nr_queued[q]
      /\ replies[q] # <<>> /\ Head(replies[q]) = "id" /\ TakeReply(q)
      /\ synced' = [synced EXCEPT ![q] = synced[q] + 1]
      /\ UNCHANGED <<pc, step, put_failed, nr_queued, status, obuf, wire, stream, link>>
  BY ElasticTypes DEF SyncReply, Answered
<1> HIDE DEF SyncReply
<1>2. synced'[q] = synced[q] + 1
  BY <1>1, ElasticTypes
<1>3. /\ replies' \in [Ranks -> Seq({"id", "error"})] /\ ReadsId(q)
      /\ \A r \in Ranks : r # q => replies'[r] = replies[r]
      /\ Outstanding(q)' = Outstanding(q) - 1
  BY <1>1, ReplyRead DEF ReadsId
<1>4. /\ Progress(q) /\ Counts(q) /\ is_async /\ link[q] # "failed"
      /\ synced[q] \in Nat /\ nr_queued[q] \in 0..nr_steps /\ Outstanding(q) \in Nat
  <2>1. Progress(q) /\ Counts(q) /\ is_async /\ link[q] # "failed"
    BY <1>1, RankParts, HasReply DEF Progress
  <2>2. /\ synced[q] \in Nat /\ nr_queued[q] \in Nat /\ nr_steps \in Nat
        /\ nr_queued[q] <= nr_steps /\ Outstanding(q) \in Nat
    BY RankSizes
  <2>3. nr_queued[q] \in 0..nr_steps
    BY <2>2
  <2>4. QED
    BY <2>1, <2>2, <2>3
<1>5. TypeOK'
  <2>1. synced' \in [Ranks -> 0..nr_steps]
    BY <1>1, <1>4, ElasticTypes
  <2>2. QED
    BY <1>1, <1>3, <2>1 DEF ElasticInv, TypeOK
<1>6. \A r \in Ranks : r # q => Same(r)
  BY <1>1, <1>3, ElasticTypes DEF Same
<1>7. Pending(q)' = Pending(q) - 1 /\ (Trusted(q)' <=> Trusted(q))
  BY <1>1, <1>2, <1>4 DEF Pending, Trusted
<1>8. Stored(q)' /\ Follow(q)'
  <2>1. CASE Trusted(q)
    BY <1>1, <1>3, <1>7, <2>1, ReplyTaken
  <2>2. CASE ~Trusted(q)
    BY <1>1, <1>7, <2>2, NotTrusted
  <2>3. QED
    BY <2>1, <2>2
<1>9. Progress(q)'
  BY <1>1, <1>4 DEF Progress
<1>10. Counts(q)'
  <2>1. Outstanding(q) + synced[q] <= nr_queued[q]
    BY <1>4 DEF Counts
  <2>2. Outstanding(q) - 1 + (synced[q] + 1) <= nr_queued[q] /\ synced[q] + 1 <= nr_queued[q]
    BY <1>1, <1>4, <2>1
  <2>3. link[q] = "up" /\ Trusted(q) => Outstanding(q) - 1 = Pending(q) - 1
    BY <1>4 DEF Counts
  <2>4. QED
    BY <1>1, <1>2, <1>3, <1>4, <1>7, <2>2, <2>3 DEF Counts
<1>11. QED
  BY <1>5, <1>6, <1>8, <1>9, <1>10, OneRank DEF RankInv

LEMMA SyncErrorInv ==
  ASSUME ElasticInv, NEW q \in Ranks, SyncError(q), UNCHANGED <<is_async, collective, aborted>>
  PROVE  ElasticInv'
<1>1. /\ pc[q] = "sync" /\ TakeReply(q) /\ replies[q] # <<>>
      /\ status' = [status EXCEPT ![q] = -1]
      /\ pc' = [pc EXCEPT ![q] = "stats"]
      /\ UNCHANGED <<step, put_failed, nr_queued, synced, obuf, wire, stream, link>>
  BY ElasticTypes DEF SyncError, Goto, Refused
<1> HIDE DEF SyncError
<1>2. status'[q] = -1 /\ pc'[q] = "stats" /\ ~Trusted(q)'
  BY <1>1, ElasticTypes DEF Trusted
<1>3. /\ replies' \in [Ranks -> Seq({"id", "error"})]
      /\ \A r \in Ranks : r # q => replies'[r] = replies[r]
      /\ Outstanding(q)' \in Nat /\ Outstanding(q)' <= Outstanding(q)
  BY <1>1, ReplyRead
<1>4. Progress(q) /\ Counts(q) /\ is_async /\ link[q] # "failed"
  BY <1>1, RankParts, HasReply DEF Progress
<1>5. TypeOK'
  <2>1. status' \in [Ranks -> {0, -1}]
    BY <1>1, ElasticTypes
  <2>2. pc' \in [Ranks -> {"run", "command", "drain", "barrier", "sync", "stats", "done"}]
    BY <1>1, ElasticTypes
  <2>3. QED
    BY <1>1, <1>3, <2>1, <2>2 DEF ElasticInv, TypeOK
<1>6. \A r \in Ranks : r # q => Same(r)
  BY <1>1, <1>3, ElasticTypes DEF Same
<1>7. Stored(q)' /\ Follow(q)'
  BY <1>1, <1>2, NotTrusted
<1>8. Progress(q)'
  BY <1>1, <1>2, <1>4 DEF Progress
<1>9. Counts(q)'
  <2>1. Outstanding(q)' + synced[q] <= nr_queued[q]
    <3>1. Outstanding(q) + synced[q] <= nr_queued[q]
      BY <1>4 DEF Counts
    <3>2. /\ Outstanding(q)' \in Nat /\ Outstanding(q)' <= Outstanding(q)
          /\ Outstanding(q) \in Nat /\ synced[q] \in Nat /\ nr_queued[q] \in Nat
      BY <1>3, RankSizes
    <3>3. QED
      BY <3>1, <3>2
  <2>2. QED
    BY <1>1, <1>2, <1>4, <2>1 DEF Counts
<1>10. QED
  BY <1>5, <1>6, <1>7, <1>8, <1>9, OneRank DEF RankInv

\* A rank that only goes on to another phase leaves its records as they are.
LEMMA PhaseInv ==
  ASSUME ElasticInv, NEW q \in Ranks, NEW l \in {"barrier", "sync", "stats", "done"},
         pc[q] \in {"run", "barrier", "sync", "stats"}, pc' = [pc EXCEPT ![q] = l],
         UNCHANGED <<is_async, collective, step, put_failed, nr_queued, synced, status,
                     obuf, wire, replies, stream, link, aborted>>,
         Progress(q)'
  PROVE  ElasticInv'
<1>1. pc'[q] = l
  BY ElasticTypes
<1>2. TypeOK'
  <2>1. pc' \in [Ranks -> {"run", "command", "drain", "barrier", "sync", "stats", "done"}]
    BY ElasticTypes
  <2>2. QED
    BY <2>1 DEF ElasticInv, TypeOK
<1>3. \A r \in Ranks : r # q => Same(r)
  BY ElasticTypes DEF Same
<1>4. Pending(q)' = Pending(q) /\ Outstanding(q)' = Outstanding(q) /\ (Trusted(q)' <=> Trusted(q))
  BY <1>1 DEF Pending, Outstanding, Trusted
<1>5. Counts(q)'
  <2>1. Counts(q)
    BY RankNow DEF RankInv
  <2>2. QED
    BY <1>1, <1>4, <2>1 DEF Counts
<1>6. Stored(q)' /\ Follow(q)'
  <2>1. CASE Trusted(q)
    BY <1>4, <2>1, LeftAlone
  <2>2. CASE ~Trusted(q)
    BY <1>4, <2>2, NotTrusted
  <2>3. QED
    BY <2>1, <2>2
<1>7. QED
  BY <1>2, <1>3, <1>5, <1>6, OneRank DEF RankInv

LEMMA LoopEndsInv ==
  ASSUME ElasticInv, NEW q \in Ranks, LoopEnds(q), UNCHANGED <<is_async, collective, aborted>>
  PROVE  ElasticInv'
<1>1. /\ pc[q] = "run" /\ pc' = [pc EXCEPT ![q] = "barrier"] /\ pc'[q] = "barrier"
      /\ UNCHANGED <<step, put_failed, nr_queued, synced, status, obuf, wire, replies, stream, link>>
  BY ElasticTypes DEF LoopEnds, Goto, linkVars
<1>2. Progress(q)'
  <2>1. Progress(q)
    BY RankNow DEF RankInv
  <2>2. QED
    BY <1>1, <2>1 DEF Progress
<1>3. QED
  BY <1>1, <1>2, PhaseInv

LEMMA BarrierInv ==
  ASSUME ElasticInv, NEW q \in Ranks, Barrier(q), UNCHANGED <<is_async, collective, aborted>>
  PROVE  ElasticInv'
<1> DEFINE l == IF is_async THEN "sync" ELSE "stats"
<1>1. /\ pc[q] = "barrier" /\ pc' = [pc EXCEPT ![q] = l] /\ pc'[q] = l
      /\ UNCHANGED <<step, put_failed, nr_queued, synced, status, obuf, wire, replies, stream, link>>
  BY ElasticTypes DEF Barrier, Goto, linkVars
<1>2. Progress(q)'
  <2>1. Progress(q)
    BY RankNow DEF RankInv
  <2>2. ~is_async => Pending(q)' = 0
    BY <1>1 DEF Pending
  <2>3. QED
    BY <1>1, <2>1, <2>2 DEF Progress
<1>3. QED
  BY <1>1, <1>2, PhaseInv

\* After the last reply nothing is pending: there was one for every command.
LEMMA SyncEndsInv ==
  ASSUME ElasticInv, NEW q \in Ranks, SyncEnds(q), UNCHANGED <<is_async, collective, aborted>>
  PROVE  ElasticInv'
<1>1. /\ pc[q] = "sync" /\ pc' = [pc EXCEPT ![q] = "stats"] /\ pc'[q] = "stats"
      /\ synced[q] >= nr_queued[q]
      /\ UNCHANGED <<step, put_failed, nr_queued, synced, status, obuf, wire, replies, stream, link>>
  BY ElasticTypes DEF SyncEnds, Goto, linkVars
<1>2. Progress(q)'
  <2>1. Progress(q) /\ Counts(q) /\ is_async
    BY <1>1, RankParts, RankSizes DEF Progress
  <2>2. synced[q] <= nr_queued[q]
    BY <2>1 DEF Counts
  <2>3. Pending(q)' = nr_queued[q] - synced[q]
    BY <1>1, <2>1 DEF Pending
  <2>4. Pending(q)' = 0
    <3>1. synced[q] >= nr_queued[q] /\ synced[q] \in Nat /\ nr_queued[q] \in Nat
      BY <1>1, RankSizes
    <3>2. QED
      BY <2>2, <2>3, <3>1
  <2>5. QED
    BY <1>1, <2>1, <2>4 DEF Progress
<1>3. QED
  BY <1>1, <1>2, PhaseInv

LEMMA PrintStatsInv ==
  ASSUME ElasticInv, NEW q \in Ranks, PrintStats(q), UNCHANGED <<is_async, collective, aborted>>
  PROVE  ElasticInv'
<1>1. /\ pc[q] = "stats" /\ pc' = [pc EXCEPT ![q] = "done"] /\ pc'[q] = "done"
      /\ UNCHANGED <<step, put_failed, nr_queued, synced, status, obuf, wire, replies, stream, link>>
  BY ElasticTypes DEF PrintStats, Goto, linkVars
<1>2. Progress(q)'
  <2>1. Progress(q)
    BY RankNow DEF RankInv
  <2>2. Pending(q)' = Pending(q)
    BY <1>1 DEF Pending
  <2>3. QED
    BY <1>1, <2>1, <2>2 DEF Progress, Trusted
<1>3. QED
  BY <1>1, <1>2, PhaseInv

-----------------------------------------------------------------------------
(* A connection that hiredis has failed, whatever the client makes of it.   *)

\* Nobody trusts the client any more, and its records are where they were.
LEMMA LinkFailed ==
  ASSUME ElasticInv, NEW q \in Ranks, GetReplyFails(q)
  PROVE  /\ link' \in [Ranks -> {"up", "down", "failed"}] /\ link'[q] = "failed"
         /\ \A r \in Ranks : r # q => link'[r] = link[r]
         /\ UNCHANGED <<obuf, wire, replies, stream>>
         /\ wire'[q] = <<>> /\ replies'[q] = <<>>
         /\ ~Trusted(q)' /\ Outstanding(q)' = Outstanding(q)
<1>1. /\ link' = [link EXCEPT ![q] = "failed"] /\ UNCHANGED <<obuf, wire, replies, stream>>
      /\ replies[q] = <<>> /\ link[q] # "up"
  BY ElasticTypes DEF GetReplyFails
<1>2. /\ link' \in [Ranks -> {"up", "down", "failed"}] /\ link'[q] = "failed"
      /\ \A r \in Ranks : r # q => link'[r] = link[r]
  BY <1>1, ElasticTypes
<1>3. wire[q] = <<>>
  BY <1>1, RankParts DEF Counts
<1>4. Outstanding(q)' = Outstanding(q)
  BY <1>1 DEF Outstanding
<1>5. ~Trusted(q)'
  BY <1>2 DEF Trusted
<1>6. QED
  BY <1>1, <1>2, <1>3, <1>4, <1>5

\* So the client may go on as it likes, as long as its counters stay in order.
LEMMA LostInv ==
  ASSUME ElasticInv, NEW q \in Ranks, GetReplyFails(q),
         UNCHANGED <<is_async, collective, step>>, aborted' \in BOOLEAN,
         NEW l, l \in {"run", "drain", "sync", "stats"}, pc' = [pc EXCEPT ![q] = l],
         NEW f \in BOOLEAN, put_failed' = [put_failed EXCEPT ![q] = f],
         NEW n \in Nat, nr_queued' = [nr_queued EXCEPT ![q] = n], n <= nr_queued[q],
         NEW s \in Nat, synced' = [synced EXCEPT ![q] = s],
         NEW x \in {0, -1}, status' = [status EXCEPT ![q] = x],
         is_async, s <= n,
         l = "run" /\ ~f => n < queue_len,
         l = "drain" => n > 0 /\ ~f /\ step[q] > 0,
         l \in {"run", "drain", "sync"} => x = 0,
         l \in {"run", "drain"} => s = 0
  PROVE  ElasticInv'
<1>1. /\ pc'[q] = l /\ put_failed'[q] = f /\ nr_queued'[q] = n /\ synced'[q] = s /\ status'[q] = x
      /\ is_async' /\ step'[q] = step[q]
  BY ElasticTypes
<1>2. Counts(q) /\ Progress(q)
  BY RankParts
<1>3. /\ nr_queued[q] \in Nat /\ nr_queued[q] <= nr_steps /\ nr_steps \in Nat
      /\ nr_queued[q] <= step[q] /\ nr_queued[q] <= queue_len
      /\ step[q] \in Nat /\ queue_len \in Nat
  BY <1>2, RankSizes DEF Counts
<1>4. n <= step[q] /\ n <= queue_len /\ n \in 0..nr_steps /\ s \in 0..nr_steps
  BY <1>3
<1>5. TypeOK'
  <2>1. nr_queued' \in [Ranks -> 0..nr_steps] /\ synced' \in [Ranks -> 0..nr_steps]
    BY <1>4, ElasticTypes
  <2>2. pc' \in [Ranks -> {"run", "command", "drain", "barrier", "sync", "stats", "done"}]
    BY ElasticTypes
  <2>3. put_failed' \in [Ranks -> BOOLEAN] /\ status' \in [Ranks -> {0, -1}]
    BY ElasticTypes
  <2>4. link' \in [Ranks -> {"up", "down", "failed"}] /\ UNCHANGED <<obuf, wire, replies, stream>>
    BY LinkFailed
  <2>5. QED
    BY <2>1, <2>2, <2>3, <2>4 DEF ElasticInv, TypeOK
<1>6. \A r \in Ranks : r # q => Same(r)
  BY LinkFailed, ElasticTypes DEF Same
<1>7. ~Trusted(q)' /\ link'[q] = "failed" /\ wire'[q] = <<>> /\ replies'[q] = <<>>
  BY LinkFailed
<1>8. Stored(q)' /\ Follow(q)'
  BY <1>1, <1>7, LinkFailed, NotTrusted
<1>9. Progress(q)'
  BY <1>1, <1>7 DEF Progress
<1>10. Counts(q)'
  BY <1>1, <1>4, <1>7 DEF Counts
<1>11. QED
  BY <1>5, <1>6, <1>8, <1>9, <1>10, OneRank DEF RankInv

LEMMA DrainLostInv ==
  ASSUME ElasticInv, NEW q \in Ranks, DrainLost(q), UNCHANGED <<is_async, collective, aborted>>
  PROVE  ElasticInv'
<1> DEFINE n == nr_queued[q] - 1
<1>1. /\ pc[q] = "drain" /\ GetReplyFails(q)
      /\ nr_queued' = [nr_queued EXCEPT ![q] = n]
      /\ pc' = [pc EXCEPT ![q] = IF nr_queued[q] = 1 THEN "run" ELSE "drain"]
      /\ UNCHANGED <<step, put_failed, synced, status>>
  BY ElasticTypes DEF DrainLost, Goto
<1>2. /\ is_async /\ ~put_failed[q] /\ step[q] > 0 /\ status[q] = 0 /\ synced[q] = 0
      /\ nr_queued[q] > 0 /\ nr_queued[q] <= queue_len
  BY <1>1, RankParts DEF Progress, Counts
<1>3. /\ n \in Nat /\ n <= nr_queued[q] /\ n < queue_len /\ 0 <= n
      /\ nr_queued[q] # 1 => n > 0
  BY <1>2, RankSizes
<1>4. /\ put_failed' = [put_failed EXCEPT ![q] = put_failed[q]]
      /\ synced' = [synced EXCEPT ![q] = 0] /\ status' = [status EXCEPT ![q] = 0]
  BY <1>1, <1>2, ElasticTypes
<1>5. aborted' \in BOOLEAN /\ put_failed[q] \in BOOLEAN
  BY ElasticTypes
<1> HIDE DEF n
<1>6. CASE nr_queued[q] = 1
  <2>1. pc' = [pc EXCEPT ![q] = "run"]
    BY <1>1, <1>6
  <2>2. QED
    BY <1>1, <1>2, <1>3, <1>4, <1>5, <2>1, LostInv
<1>7. CASE nr_queued[q] # 1
  <2>1. pc' = [pc EXCEPT ![q] = "drain"]
    BY <1>1, <1>7
  <2>2. QED
    BY <1>1, <1>2, <1>3, <1>4, <1>5, <1>7, <2>1, LostInv
<1>8. QED
  BY <1>6, <1>7

LEMMA DrainLostFailsInv ==
  ASSUME ElasticInv, NEW q \in Ranks, DrainLostFails(q),
         UNCHANGED <<is_async, collective, aborted>>
  PROVE  ElasticInv'
<1>1. /\ pc[q] = "drain" /\ GetReplyFails(q)
      /\ put_failed' = [put_failed EXCEPT ![q] = TRUE]
      /\ pc' = [pc EXCEPT ![q] = "run"]
      /\ UNCHANGED <<step, nr_queued, synced, status>>
  BY ElasticTypes DEF DrainLostFails, Goto
<1>2. is_async /\ status[q] = 0 /\ synced[q] = 0 /\ nr_queued[q] \in Nat
  BY <1>1, RankParts, RankSizes DEF Progress
<1>3. /\ nr_queued' = [nr_queued EXCEPT ![q] = nr_queued[q]]
      /\ synced' = [synced EXCEPT ![q] = 0] /\ status' = [status EXCEPT ![q] = 0]
  BY <1>1, <1>2, ElasticTypes
<1>4. aborted' \in BOOLEAN /\ nr_queued[q] <= nr_queued[q] /\ 0 <= nr_queued[q]
  BY <1>2, ElasticTypes
<1>5. QED
  BY <1>1, <1>2, <1>3, <1>4, LostInv

LEMMA AbortInv ==
  ASSUME ElasticInv, NEW q \in Ranks, Abort(q)
  PROVE  ElasticInv'
<1>1. /\ pc[q] \in {"drain", "sync"} /\ GetReplyFails(q) /\ aborted' \in BOOLEAN
      /\ UNCHANGED <<is_async, collective, pc, step, put_failed, nr_queued, synced, status>>
  BY DEF Abort, Unset, clientVars
<1>2. Progress(q) /\ Counts(q) /\ is_async /\ status[q] = 0
  BY <1>1, RankParts DEF Progress
<1>3. /\ nr_queued[q] \in Nat /\ synced[q] \in Nat /\ nr_queued[q] <= nr_queued[q]
      /\ synced[q] <= nr_queued[q] /\ put_failed[q] \in BOOLEAN
  BY <1>2, RankSizes, ElasticTypes DEF Counts
<1>4. pc[q] = "drain" => nr_queued[q] > 0 /\ ~put_failed[q] /\ step[q] > 0 /\ synced[q] = 0
  BY <1>2 DEF Progress, Counts
<1>5. /\ pc' = [pc EXCEPT ![q] = pc[q]] /\ put_failed' = [put_failed EXCEPT ![q] = put_failed[q]]
      /\ nr_queued' = [nr_queued EXCEPT ![q] = nr_queued[q]]
      /\ synced' = [synced EXCEPT ![q] = synced[q]] /\ status' = [status EXCEPT ![q] = 0]
  BY <1>1, <1>2, ElasticTypes
<1>6. QED
  BY <1>1, <1>2, <1>3, <1>4, <1>5, LostInv

\* A client that waits for every reply is told: its put fails.
LEMMA CommandLostInv ==
  ASSUME ElasticInv, NEW q \in Ranks, CommandLost(q), UNCHANGED <<is_async, collective, aborted>>
  PROVE  ElasticInv'
<1>1. /\ pc[q] = "command" /\ GetReplyFails(q)
      /\ put_failed' = [put_failed EXCEPT ![q] = TRUE]
      /\ pc' = [pc EXCEPT ![q] = "run"]
      /\ UNCHANGED <<step, nr_queued, synced, status>>
  BY ElasticTypes DEF CommandLost, Goto
<1> HIDE DEF CommandLost
<1>2. put_failed'[q] /\ pc'[q] = "run"
  BY <1>1, ElasticTypes
<1>3. Progress(q) /\ Counts(q) /\ ~is_async
  BY <1>1, RankParts DEF Progress
<1>4. TypeOK'
  <2>1. put_failed' \in [Ranks -> BOOLEAN]
    BY <1>1, ElasticTypes
  <2>2. pc' \in [Ranks -> {"run", "command", "drain", "barrier", "sync", "stats", "done"}]
    BY <1>1, ElasticTypes
  <2>3. link' \in [Ranks -> {"up", "down", "failed"}] /\ UNCHANGED <<obuf, wire, replies, stream>>
    BY <1>1, LinkFailed
  <2>4. QED
    BY <1>1, <2>1, <2>2, <2>3 DEF ElasticInv, TypeOK
<1>5. \A r \in Ranks : r # q => Same(r)
  BY <1>1, LinkFailed, ElasticTypes DEF Same
<1>6. /\ ~Trusted(q)' /\ link'[q] = "failed" /\ wire'[q] = <<>> /\ replies'[q] = <<>>
      /\ Outstanding(q)' = Outstanding(q)
  BY <1>1, LinkFailed
<1>7. Stored(q)' /\ Follow(q)'
  BY <1>1, <1>6, LinkFailed, NotTrusted
<1>8. Progress(q)'
  BY <1>1, <1>2, <1>3, <1>6 DEF Progress
<1>9. Counts(q)'
  BY <1>1, <1>2, <1>3, <1>6 DEF Counts
<1>10. QED
  BY <1>4, <1>5, <1>7, <1>8, <1>9, OneRank DEF RankInv

LEMMA SyncLostInv ==
  ASSUME ElasticInv, NEW q \in Ranks, SyncLost(q), UNCHANGED <<is_async, collective, aborted>>
  PROVE  ElasticInv'
<1>1. /\ pc[q] = "sync" /\ synced[q] < nr_queued[q] /\ GetReplyFails(q)
      /\ synced' = [synced EXCEPT ![q] = synced[q] + 1]
      /\ UNCHANGED <<pc, step, put_failed, nr_queued, status>>
  BY ElasticTypes DEF SyncLost
<1>2. is_async /\ status[q] = 0
  BY <1>1, RankParts DEF Progress
<1>3. /\ nr_queued[q] \in Nat /\ synced[q] + 1 \in Nat /\ nr_queued[q] <= nr_queued[q]
      /\ synced[q] + 1 <= nr_queued[q]
  <2>1. nr_queued[q] \in Nat /\ synced[q] \in Nat
    BY RankSizes
  <2>2. QED
    BY <1>1, <2>1
<1>4. /\ pc' = [pc EXCEPT ![q] = "sync"] /\ put_failed' = [put_failed EXCEPT ![q] = put_failed[q]]
      /\ nr_queued' = [nr_queued EXCEPT ![q] = nr_queued[q]]
      /\ status' = [status EXCEPT ![q] = 0]
  BY <1>1, <1>2, ElasticTypes
<1>5. aborted' \in BOOLEAN /\ put_failed[q] \in BOOLEAN
  BY ElasticTypes
<1>6. QED
  BY <1>1, <1>2, <1>3, <1>4, <1>5, LostInv

LEMMA SyncLostFailsInv ==
  ASSUME ElasticInv, NEW q \in Ranks, SyncLostFails(q),
         UNCHANGED <<is_async, collective, aborted>>
  PROVE  ElasticInv'
<1>1. /\ pc[q] = "sync" /\ GetReplyFails(q)
      /\ status' = [status EXCEPT ![q] = -1]
      /\ pc' = [pc EXCEPT ![q] = "stats"]
      /\ UNCHANGED <<step, put_failed, nr_queued, synced>>
  BY ElasticTypes DEF SyncLostFails, Goto
<1>2. is_async /\ Counts(q)
  BY <1>1, RankParts DEF Progress
<1>3. /\ nr_queued[q] \in Nat /\ synced[q] \in Nat /\ nr_queued[q] <= nr_queued[q]
      /\ synced[q] <= nr_queued[q] /\ put_failed[q] \in BOOLEAN
  BY <1>2, RankSizes, ElasticTypes DEF Counts
<1>4. /\ put_failed' = [put_failed EXCEPT ![q] = put_failed[q]]
      /\ nr_queued' = [nr_queued EXCEPT ![q] = nr_queued[q]]
      /\ synced' = [synced EXCEPT ![q] = synced[q]]
  BY <1>1, ElasticTypes
<1>5. aborted' \in BOOLEAN
  BY ElasticTypes
<1>6. QED
  BY <1>1, <1>2, <1>3, <1>4, <1>5, LostInv

-----------------------------------------------------------------------------
(* The theorems.                                                            *)

LEMMA ClientInv ==
  ASSUME ElasticInv, NEW r \in Ranks, Client(r)
  PROVE  ElasticInv'
<1>1. UNCHANGED <<is_async, collective, aborted>>
  BY DEF Client
<1>2. CASE Flush(r)
  BY <1>2, FlushInv
<1>3. CASE PutAsync(r)
  BY <1>1, <1>3, PutAsyncInv
<1>4. CASE DrainReply(r)
  BY <1>1, <1>4, DrainReplyInv
<1>5. CASE DrainError(r)
  BY <1>1, <1>5, DrainErrorInv
<1>6. CASE DrainLost(r)
  BY <1>1, <1>6, DrainLostInv
<1>7. CASE DrainLostFails(r)
  BY <1>1, <1>7, DrainLostFailsInv
<1>8. CASE PutSync(r)
  BY <1>1, <1>8, PutSyncInv
<1>9. CASE CommandReply(r)
  BY <1>1, <1>9, CommandReplyInv
<1>10. CASE CommandLost(r)
  BY <1>1, <1>10, CommandLostInv
<1>11. CASE LoopEnds(r)
  BY <1>1, <1>11, LoopEndsInv
<1>12. CASE Barrier(r)
  BY <1>1, <1>12, BarrierInv
<1>13. CASE SyncReply(r)
  BY <1>1, <1>13, SyncReplyInv
<1>14. CASE SyncError(r)
  BY <1>1, <1>14, SyncErrorInv
<1>15. CASE SyncLost(r)
  BY <1>1, <1>15, SyncLostInv
<1>16. CASE SyncLostFails(r)
  BY <1>1, <1>16, SyncLostFailsInv
<1>17. CASE SyncEnds(r)
  BY <1>1, <1>17, SyncEndsInv
<1>18. CASE PrintStats(r)
  BY <1>1, <1>18, PrintStatsInv
<1>19. QED
  BY <1>2, <1>3, <1>4, <1>5, <1>6, <1>7, <1>8, <1>9, <1>10,
     <1>11, <1>12, <1>13, <1>14, <1>15, <1>16, <1>17, <1>18 DEF Client

LEMMA ElasticStepInv == ElasticInv /\ [Next]_vars => ElasticInv'
<1> SUFFICES ASSUME ElasticInv, [Next]_vars PROVE ElasticInv'
  OBVIOUS
<1>1. ASSUME NEW r \in Ranks, Client(r) \/ Abort(r) PROVE ElasticInv'
  BY <1>1, ClientInv, AbortInv
<1>2. ASSUME NEW r \in Ranks, Serve(r) PROVE ElasticInv'
  BY <1>2, ServeInv
<1>3. ASSUME NEW r \in Ranks, Disconnect(r) PROVE ElasticInv'
  BY <1>3, DisconnectInv
<1>4. CASE UNCHANGED vars
  <2>1. /\ UNCHANGED <<is_async, collective, pc, step, put_failed, nr_queued, synced, status>>
        /\ UNCHANGED <<obuf, wire, replies, stream, link, aborted>>
    BY <1>4 DEF vars, clientVars, linkVars
  <2>2. TypeOK'
    BY <2>1 DEF ElasticInv, TypeOK
  <2>3. \A r \in Ranks : Same(r)
    BY <2>1 DEF Same
  <2>4. ASSUME NEW r \in Ranks PROVE RankInv(r)'
    <3>1. RankInv(r)
      BY DEF ElasticInv
    <3>2. /\ Trusted(r)' = Trusted(r) /\ Pending(r)' = Pending(r) /\ Outstanding(r)' = Outstanding(r)
          /\ Buffered(r)' = Buffered(r) /\ OnWire(r)' = OnWire(r) /\ Unread(r)' = Unread(r)
          /\ Kept(r)' = Kept(r) /\ Acknowledged(r)' = Acknowledged(r)
      BY <2>1 DEF Trusted, Acknowledged, Pending, Outstanding, Buffered, OnWire, Unread, Kept
    <3>3. Progress(r)' /\ Counts(r)'
      BY <2>1, <3>1, <3>2 DEF RankInv, Progress, Counts
    <3>4. \A j : Fine(r, j)' <=> Fine(r, j)
      BY <2>1 DEF Fine
    <3>5. Stored(r)' /\ Follow(r)'
      BY <2>1, <3>1, <3>2, <3>4 DEF RankInv, Stored, Follow
    <3>6. QED
      BY <3>3, <3>5 DEF RankInv
  <2>5. QED
    BY <2>2, <2>4 DEF ElasticInv
<1>5. QED
  BY <1>1, <1>2, <1>3, <1>4 DEF Next

\* The counters, buffers and streams have their types, and every rank is as
\* RankInv says.  Until hiredis has failed the link, the counter of do_put_async
\* bounds what is outstanding, and as long as no call has failed either, the
\* stream holds the records of the replies the client has read.
THEOREM ElasticInvariant == Spec => []ElasticInv
BY ElasticInitInv, ElasticStepInv, PTL DEF Spec

\* Type correctness of the client, its connections and the streams.
THEOREM ElasticTypeOK == Spec => []TypeOK
<1>1. ElasticInv => TypeOK
  BY DEF ElasticInv
<1>2. QED
  BY <1>1, ElasticInvariant, PTL

\* Until something fails nr_queued less the replies broker_finalize has read
\* is what is outstanding: the loops of do_put_async and broker_finalize wait
\* for no reply that will not come.
THEOREM Counted == Spec => []CountedUntilFailure
<1>1. ElasticInv => CountedUntilFailure
  <2>1. ASSUME ElasticInv, NEW r \in Ranks, is_async, link[r] = "up", ~put_failed[r], status[r] = 0
        PROVE  nr_queued[r] - synced[r] = Outstanding(r)
    <3>1. Counts(r) /\ Trusted(r)
      BY <2>1, RankParts DEF Trusted
    <3>2. QED
      BY <2>1, <3>1 DEF Counts, Pending
  <2>2. QED
    BY <2>1 DEF CountedUntilFailure
<1>2. QED
  BY <1>1, ElasticInvariant, PTL

\* Until hiredis has failed the link of a pipelined client, no more than queue_len
\* commands of a connection are outstanding, and when every put waits for its
\* reply never more than one, whatever fails.
THEOREM Bounded == Spec => []QueueBounded
<1>1. ElasticInv => QueueBounded
  <2>1. ASSUME ElasticInv, NEW r \in Ranks, ~Blind(r)
        PROVE  Outstanding(r) <= IF is_async THEN queue_len ELSE 1
    <3>1. Counts(r)
      BY <2>1, RankNow DEF RankInv
    <3>2. CASE is_async
      <4>1. Outstanding(r) + synced[r] <= nr_queued[r] /\ nr_queued[r] <= queue_len
        BY <2>1, <3>1, <3>2 DEF Counts, Blind
      <4>2. Outstanding(r) \in Nat /\ synced[r] \in Nat /\ nr_queued[r] \in Nat /\ queue_len \in Nat
        BY <2>1, RankSizes
      <4>3. Outstanding(r) <= queue_len
        BY <4>1, <4>2
      <4>4. QED
        BY <3>2, <4>3
    <3>3. CASE ~is_async
      BY <3>1, <3>3 DEF Counts
    <3>4. QED
      BY <3>2, <3>3
  <2>2. QED
    BY <2>1 DEF QueueBounded
<1>2. QED
  BY <1>1, ElasticInvariant, PTL

\* A rank whose puts and whose broker_finalize report success, and whose link
\* hiredis had not failed behind a pipelined client, has its records in the stream
\* of the server: all it has put, once each and in order.
THEOREM StoredOnSuccess == Spec => []SuccessMeansStored
<1>1. ElasticInv => SuccessMeansStored
  <2>1. ASSUME ElasticInv, NEW r \in Ranks, pc[r] \in {"stats", "done"}, ~put_failed[r], status[r] = 0,
               ~Blind(r)
        PROVE  stream[r] = [k \in 1..step[r] |-> k - 1]
    <3>1. Progress(r) /\ Stored(r) /\ Trusted(r)
      BY <2>1, RankParts DEF Progress, Trusted, Blind
    <3>2. Pending(r) = 0
      BY <2>1, <3>1 DEF Progress
    <3>3. Acknowledged(r) = step[r]
      BY <2>1, <3>2, RankSizes
    <3>4. 0 \in 0..Unread(r) /\ Fine(r, 0)
      BY <2>1, RankNow DEF Fine
    <3>5. /\ Acknowledged(r) + 0 <= Kept(r)
          /\ \A i \in 1..(Acknowledged(r) + 0) : stream[r][i] = i - 1
          /\ Kept(r) + OnWire(r) + Buffered(r) <= step[r]
      BY <3>1, <3>4 DEF Stored
    <3>6. Kept(r) = step[r] /\ \A i \in 1..step[r] : stream[r][i] = i - 1
      BY <2>1, <3>2, <3>3, <3>5, RankSizes
    <3>7. DOMAIN stream[r] = 1..step[r] /\ stream[r] = [k \in DOMAIN stream[r] |-> stream[r][k]]
      BY <2>1, <3>6, RankNow, LenProperties DEF Kept
    <3>8. QED
      BY <3>6, <3>7
  <2>2. QED
    BY <2>1 DEF SuccessMeansStored
<1>2. QED
  BY <1>1, ElasticInvariant, PTL
=============================================================================
