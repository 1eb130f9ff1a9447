-------------------------- MODULE MCAnalysisBroker --------------------------
(* Instances of AnalysisBroker for TLC.                                      *)
EXTENDS AnalysisInvariant, TLC
CONSTANTS s1, s2, r1, w1

OneSource  == {s1}
TwoSources == {s1, s2}
OneReader  == {r1}
OneWriter  == {w1}

\* Nothing distinguishes two sources.
SymmetricSources == Permutations(Sources)
=============================================================================
