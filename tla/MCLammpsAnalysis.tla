-------------------------- MODULE MCLammpsAnalysis --------------------------
(* Instances of LammpsAnalysis for TLC.                                      *)
EXTENDS LammpsAnalysisInvariant
CONSTANTS s1, r1, w1

OneSource == {s1}
OneReader == {r1}
OneWriter == {w1}
=============================================================================
