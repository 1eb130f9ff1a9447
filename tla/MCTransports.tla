---------------------------- MODULE MCTransports ----------------------------
(* Instances of Transports for TLC.                                          *)
EXTENDS Transports
CONSTANTS p1, p2, r1, r2

TwoProducers == {p1, p2}
TwoReaders   == {r1, r2}
=============================================================================
