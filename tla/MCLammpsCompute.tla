--------------------------- MODULE MCLammpsCompute ---------------------------
(* Instances of LammpsCompute for TLC.                                       *)
EXTENDS LammpsComputeInvariant
CONSTANT w1

OneWriterThread == {w1}
=============================================================================
