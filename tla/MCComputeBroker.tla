--------------------------- MODULE MCComputeBroker ---------------------------
(* Instances of ComputeBroker for TLC.                                       *)
EXTENDS ComputeInvariant
CONSTANT w1

OneWriterThread == {w1}
=============================================================================
