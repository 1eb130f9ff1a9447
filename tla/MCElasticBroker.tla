--------------------------- MODULE MCElasticBroker ---------------------------
(* Instances of ElasticBroker for TLC.                                       *)
EXTENDS ElasticBroker
CONSTANTS r1, r2

OneRank  == {r1}
TwoRanks == {r1, r2}
=============================================================================
