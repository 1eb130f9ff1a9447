----------------------------- MODULE LocalClocks -----------------------------
(***************************************************************************)
(* What a halo exchange between neighbours promises: the processes are not *)
(* synchronised by a barrier, yet none finishes a step before each of its  *)
(* neighbours has finished the step before.                                *)
(***************************************************************************)
EXTENDS Naturals

CONSTANTS
  Processes,
  Neighbours,  \* Neighbours[p]: the processes p exchanges data with
  steps        \* number of steps

VARIABLE clock \* steps each process has finished

Init == clock = [p \in Processes |-> 0]

Tick(p) ==
  /\ clock[p] < steps
  /\ \A q \in Neighbours[p] : clock[q] >= clock[p]
  /\ clock' = [clock EXCEPT ![p] = @ + 1]

Next == \E p \in Processes : Tick(p)

Spec == Init /\ [][Next]_clock
=============================================================================
