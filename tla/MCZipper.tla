------------------------------ MODULE MCZipper ------------------------------
(* Instances of Zipper for TLC.                                              *)
EXTENDS Zipper
CONSTANTS s1, r1, w1, cw1

OneSource        == {s1}
OneReader        == {r1}
OneWriter        == {w1}
OneComputeWriter == {cw1}
=============================================================================
