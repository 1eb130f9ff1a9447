---------------------- MODULE LammpsAnalysisInvariant ----------------------
(***************************************************************************)
(* The inductive invariant of LammpsAnalysis.  What its receiver, consumer *)
(* and analysis writers do to a buffer keeps the parts of AnalysisInvariant *)
(* that CoreInv collects; the identifiers and the readers are another      *)
(* matter.  LammpsAnalysisProofs proves that it is inductive, and          *)
(* MCLammpsAnalysis lets TLC check it first.                               *)
(***************************************************************************)
EXTENDS LammpsAnalysis, AnalysisInvariant

\* The receiver counts the entries of a message right, unless it looks for
\* them behind a block of another number of lines.
LinesInv ==
  /\ receiver_pc # "signal"
  /\ receiver_pc # "ids" => recv_int = 0
  /\ receiver_pc = "ids" /\ ~Misread => recv_int = Len(recv_ids)
  /\ reader_blk_num = 0 => recv_int = 0
  /\ Range(recv_ids) \subseteq AnnouncedBlocks

\* recv_tail never moves, so no reader ever takes an entry, and none of them
\* gives up while an entry is counted.
PollInv ==
  /\ recv_tail = 0
  /\ \A r \in Readers :
       /\ reader_item[r] = None
       /\ reader_pc[r] \in {"start", "top", "get", "check", "done"}
       /\ reader_pc[r] = "check" => recv_exit
  /\ reader_exit => recv_avail = 0 /\ (recv_exit \/ reader_blk_num = 0)
  /\ reader_blk_num = 0 => recv_avail = 0

\* CarriedConserved, with the slots counted without a modulus.
CarriedInv ==
  /\ ({recv_item} \ {None}) \cup Ring \cup Left = CarriedOver
  /\ recv_item \notin Ring \cup Left

LammpsAnalysisInv == LammpsTypeOK /\ CoreInv /\ LinesInv /\ PollInv /\ CarriedInv
=============================================================================
