----------------------------- MODULE StepChannel -----------------------------
(***************************************************************************)
(* What the step-by-step transports of all-transports/adios-all promise: a *)
(* producer publishes its time steps in order, and every reader consumes   *)
(* all of them in order, each once and only after it was published.        *)
(***************************************************************************)
EXTENDS Naturals

CONSTANTS
  steps,    \* number of time steps
  readers   \* processes that read every step

VARIABLES
  published,  \* steps the producer has made available
  consumed    \* steps each reader has read

channelVars == <<published, consumed>>

Init ==
  /\ published = 0
  /\ consumed = [r \in readers |-> 0]

Publish ==
  /\ published < steps
  /\ published' = published + 1
  /\ UNCHANGED consumed

Consume(r) ==
  /\ consumed[r] < published
  /\ consumed' = [consumed EXCEPT ![r] = @ + 1]
  /\ UNCHANGED published

Next == Publish \/ \E r \in readers : Consume(r)

Spec == Init /\ [][Next]_channelVars
=============================================================================
