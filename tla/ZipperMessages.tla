--------------------------- MODULE ZipperMessages ---------------------------
(***************************************************************************)
(* The MPI messages a compute process sends to its analysis process        *)
(* (concurrent.h, the *_TAG constants; compute_sender.c, the MPI_Send      *)
(* calls).  A message carries at most one block of data in memory ("blk")  *)
(* and the identifiers of blocks that were written to the parallel file    *)
(* system instead ("ids").  The data of a block, its step and its cube     *)
(* coordinates are abstracted to the block identifier.                     *)
(***************************************************************************)
EXTENDS Integers, Sequences, FiniteSets

EXIT_BLK_ID == -1

LongMsg(b)     == [tag |-> "MPI_MSG_TAG",      blk |-> b,           ids |-> <<>>]
MixMsg(b, ids) == [tag |-> "MIX_MPI_DISK_TAG", blk |-> b,           ids |-> ids]
DiskMsg(ids)   == [tag |-> "DISK_TAG",         blk |-> EXIT_BLK_ID, ids |-> ids]
ExitMsg        == [tag |-> "EXIT_MSG_TAG",     blk |-> EXIT_BLK_ID, ids |-> <<>>]

Payload(m)   == IF m.blk = EXIT_BLK_ID THEN {} ELSE {m.blk}
Announced(m) == {m.ids[k] : k \in DOMAIN m.ids}
BlocksOf(m)  == Payload(m) \cup Announced(m)

\* No identifier twice in one message, and the block in memory is not also
\* announced as a block on disk.
Wellformed(m) ==
  /\ \A i, j \in DOMAIN m.ids : m.ids[i] = m.ids[j] => i = j
  /\ m.blk \notin Announced(m)

\* What a sequence of messages has handed over so far.
AnnouncedIn(s) == UNION {Announced(s[i]) : i \in DOMAIN s}
DeliveredIn(s) == UNION {BlocksOf(s[i]) : i \in DOMAIN s}
ExitSentIn(s)  == \E i \in DOMAIN s : s[i].tag = "EXIT_MSG_TAG"

-----------------------------------------------------------------------------
(* The rules of the stream of one compute process, as conditions on what it *)
(* still has to hand over (p), what it has announced (a), its phase (ph)    *)
(* and the number of blocks that may travel through the file system (q).    *)

\* A message that carries block b and announces the blocks S.
MayHandOver(q, p, a, ph, b, S) ==
  /\ ph = "open"
  /\ b \in p
  /\ S \subseteq p \ {b}
  /\ Cardinality(a \cup S) <= q

\* The pure disk message: everything that is left is announced at once.
MayFlush(q, p, a, ph) ==
  /\ ph = "open"
  /\ p # {}
  /\ Cardinality(a \cup p) <= q

\* The EXIT message.
MayClose(p, ph) == ph = "open" /\ p = {}
=============================================================================
