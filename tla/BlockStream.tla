----------------------------- MODULE BlockStream -----------------------------
(***************************************************************************)
(* What a compute process promises to its analysis process: a stream of    *)
(* messages that hands over every block exactly once, either in memory or  *)
(* by announcing that it is on disk, announces at most "quota" blocks, and *)
(* ends with an EXIT message that comes after every block.                 *)
(* ComputeBroker implements this specification; AnalysisBroker assumes it. *)
(***************************************************************************)
EXTENDS ZipperMessages

CONSTANTS Blocks,   \* the blocks the process generates
          quota     \* how many of them may travel through the file system

VARIABLES pending,    \* blocks not handed over yet
          announced,  \* blocks announced as being on disk
          phase,      \* "open", then "closed" after EXIT
          messages    \* how many messages have been sent: a message that
                      \* hands over nothing new is not a stuttering step

streamVars == <<pending, announced, phase, messages>>

StreamInit ==
  /\ pending = Blocks
  /\ announced = {}
  /\ phase = "open"
  /\ messages = 0

\* A long message (S = {}) or a mixed one.
HandOver(b, S) ==
  /\ MayHandOver(quota, pending, announced, phase, b, S)
  /\ pending' = pending \ ({b} \cup S)
  /\ announced' = announced \cup S
  /\ phase' = phase
  /\ messages' = messages + 1

\* The pure disk message.
Flush ==
  /\ MayFlush(quota, pending, announced, phase)
  /\ pending' = {}
  /\ announced' = announced \cup pending
  /\ phase' = phase
  /\ messages' = messages + 1

Close ==
  /\ MayClose(pending, phase)
  /\ phase' = "closed"
  /\ messages' = messages + 1
  /\ UNCHANGED <<pending, announced>>

StreamNext ==
  \/ \E b \in pending : \E S \in SUBSET (pending \ {b}) : HandOver(b, S)
  \/ Flush
  \/ Close

StreamSpec == StreamInit /\ [][StreamNext]_streamVars
=============================================================================
