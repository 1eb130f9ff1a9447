----------------------------- MODULE StepStream -----------------------------
(***************************************************************************)
(* The streaming transports.  ADIOS staging: the producer (run_lbm.c,      *)
(* lammps_adios_prod.cpp) writes every step to one stream, and the readers *)
(* (adios_staging_read.c, lammps_adios_con.cpp) go through it until its    *)
(* end.  Decaf (lbm_decaf.cpp, lammps_decaf.cpp): the producer puts every  *)
(* step, a dataflow task forwards it, the consumer gets it, and a quit     *)
(* message from terminate follows the last step.                           *)
(*                                                                         *)
(* ADIOS and Decaf are external.  Either delivers the steps in order with  *)
(* the end after them, and an ADIOS producer blocks while a reader has     *)
(* queue_size steps to release (QUEUE_SIZE of the Flexpath method).        *)
(* Writing a step is collective, so the producer is one process.           *)
(***************************************************************************)
EXTENDS Integers, Sequences

CONSTANTS
  StreamReaders,  \* ranks of the reader; the two Decaf programs have one here
  stream_steps,   \* number of steps, an argument of the producer
  queue_size,     \* steps the stream holds for a reader
  ExtractFails,   \* lammps_extract_atom may return NULL
  max_timeouts    \* bound of the model: time-outs between two steps

ASSUME StreamAssumption ==
  /\ StreamReaders # {}
  /\ stream_steps \in Nat
  /\ queue_size \in Nat \ {0}
  /\ ExtractFails \in BOOLEAN
  /\ max_timeouts \in Nat

VARIABLES
  program,      \* which pair of programs runs
  out_pc,       \* where the producer is
  out_step,     \* its timestep
  dflow,        \* what the dataflow task has to forward
  stream,       \* what each reader may read, the end after the last step
  in_pc,        \* where each reader is
  in_step,      \* its own step counter (timestep, ii, step)
  last_read,    \* the step it has read last, -1 at first
  timeouts      \* time-outs since then

outVars    == <<out_pc, out_step>>
inVars     == <<in_pc, in_step, last_read, timeouts>>
streamVars == <<program, outVars, dflow, stream, inVars>>

End == -1

Lammps == program \in {"lammps_adios", "lammps_decaf"}
Decaf  == program \in {"lbm_decaf", "lammps_decaf"}

StreamTypeOK ==
  /\ program \in {"lbm_adios", "lammps_adios", "lbm_decaf", "lammps_decaf"}
  /\ out_pc \in {"step", "put", "close", "done"}
  /\ out_step \in 0..stream_steps
  /\ dflow \in Seq({End} \cup 0..(stream_steps - 1))
  /\ stream \in [StreamReaders -> Seq({End} \cup 0..(stream_steps - 1))]
  /\ in_pc \in [StreamReaders -> {"open", "read", "advance", "again", "done"}]
  /\ in_step \in [StreamReaders -> 0..(stream_steps * (max_timeouts + 1))]
  /\ last_read \in [StreamReaders -> -1..(stream_steps - 1)]
  /\ timeouts \in [StreamReaders -> 0..max_timeouts]

StreamInit ==
  /\ program \in {"lbm_adios", "lammps_adios", "lbm_decaf", "lammps_decaf"}
  /\ out_pc = IF stream_steps > 0 THEN "step" ELSE "close"
  /\ out_step = 0
  /\ dflow = <<>>
  /\ stream = [r \in StreamReaders |-> <<>>]
  /\ in_pc = [r \in StreamReaders |-> "open"]
  /\ in_step = [r \in StreamReaders |-> 0]
  /\ last_read = [r \in StreamReaders |-> -1]
  /\ timeouts = [r \in StreamReaders |-> 0]

-----------------------------------------------------------------------------
(* The producer.                                                            *)

AdvanceStep ==
  /\ out_pc = "step"
  /\ out_pc' = "put"
  /\ UNCHANGED <<program, out_step, dflow, stream, inVars>>

\* The LAMMPS producers leave their loop when there are no positions.
ExtractFailed ==
  /\ ExtractFails /\ Lammps
  /\ out_pc = "step"
  /\ out_pc' = "close"
  /\ UNCHANGED <<program, out_step, dflow, stream, inVars>>

\* Sends x to the dataflow task, or to every reader.
SendOn(x) ==
  IF Decaf
  THEN dflow' = Append(dflow, x) /\ UNCHANGED stream
  ELSE /\ \A r \in StreamReaders : Len(stream[r]) < queue_size
       /\ stream' = [r \in StreamReaders |-> Append(stream[r], x)]
       /\ UNCHANGED dflow

\* adios_close or decaf->put; then the next step.
PutStep ==
  /\ out_pc = "put"
  /\ SendOn(out_step)
  /\ out_step' = out_step + 1
  /\ out_pc' = IF out_step + 1 < stream_steps THEN "step" ELSE "close"
  /\ UNCHANGED <<program, inVars>>

\* adios_finalize or decaf->terminate.
CloseStream ==
  /\ out_pc = "close"
  /\ SendOn(End)
  /\ out_pc' = "done"
  /\ UNCHANGED <<program, out_step, inVars>>

StreamProducer == AdvanceStep \/ ExtractFailed \/ PutStep \/ CloseStream

\* The dataflow function of the Decaf programs.
Forward ==
  /\ dflow # <<>>
  /\ stream' = [r \in StreamReaders |-> Append(stream[r], Head(dflow))]
  /\ dflow' = Tail(dflow)
  /\ UNCHANGED <<program, outVars, inVars>>

-----------------------------------------------------------------------------
(* A reader.                                                                *)

ReaderGoto(r, pc) == in_pc' = [in_pc EXCEPT ![r] = pc]

\* adios_read_open waits for the first step, and fails if there is none;
\* decaf->get waits for the next message.
OpenStream(r) ==
  /\ in_pc[r] = "open"
  /\ stream[r] # <<>>
  /\ ReaderGoto(r, IF Head(stream[r]) = End THEN "done" ELSE "read")
  /\ UNCHANGED <<program, outVars, dflow, stream, in_step, last_read, timeouts>>

\* Faulty variant: the step is not released.
ReadAndKeep(r) ==
  /\ in_pc[r] = "read"
  /\ last_read' = [last_read EXCEPT ![r] = Head(stream[r])]
  /\ in_step' = [in_step EXCEPT ![r] = @ + 1]
  /\ timeouts' = [timeouts EXCEPT ![r] = 0]
  /\ ReaderGoto(r, "advance")
  /\ UNCHANGED <<program, outVars, dflow, stream>>

\* Reads the step, releases it and analyses it.
ReadAndRelease(r) ==
  /\ in_pc[r] = "read"
  /\ last_read' = [last_read EXCEPT ![r] = Head(stream[r])]
  /\ stream' = [stream EXCEPT ![r] = Tail(@)]
  /\ in_step' = [in_step EXCEPT ![r] = @ + 1]
  /\ timeouts' = [timeouts EXCEPT ![r] = 0]
  /\ ReaderGoto(r, "advance")
  /\ UNCHANGED <<program, outVars, dflow>>

\* adios_advance_step or the next decaf->get, until the end of the stream.
Advanced(r) ==
  /\ in_pc[r] = "advance"
  /\ stream[r] # <<>>
  /\ ReaderGoto(r, IF Head(stream[r]) = End THEN "done" ELSE "read")
  /\ UNCHANGED <<program, outVars, dflow, stream, in_step, last_read, timeouts>>

\* lammps_adios_con.cpp waits 30 seconds for a step and takes every outcome
\* but the end of the stream for a new one.
AdvanceTimesOut(r) ==
  /\ program = "lammps_adios"
  /\ in_pc[r] = "advance"
  /\ stream[r] = <<>>
  /\ timeouts[r] < max_timeouts
  /\ timeouts' = [timeouts EXCEPT ![r] = @ + 1]
  /\ ReaderGoto(r, "again")
  /\ UNCHANGED <<program, outVars, dflow, stream, in_step, last_read>>

\* Faulty variant: the next step, there by now, is released instead.
ReadAgainReleases(r) ==
  /\ in_pc[r] = "again"
  /\ stream' = [stream EXCEPT ![r] = IF @ = <<>> THEN @ ELSE Tail(@)]
  /\ in_step' = [in_step EXCEPT ![r] = @ + 1]
  /\ ReaderGoto(r, "advance")
  /\ UNCHANGED <<program, outVars, dflow, last_read, timeouts>>

\* There is no step to read or to release; only ii is counted on.
ReadAgain(r) ==
  /\ in_pc[r] = "again"
  /\ in_step' = [in_step EXCEPT ![r] = @ + 1]
  /\ ReaderGoto(r, "advance")
  /\ UNCHANGED <<program, outVars, dflow, stream, last_read, timeouts>>

StreamReader(r) ==
  \/ OpenStream(r) \/ ReadAndRelease(r) \/ Advanced(r)
  \/ AdvanceTimesOut(r) \/ ReadAgain(r)

-----------------------------------------------------------------------------
StreamNext == StreamProducer \/ Forward \/ \E r \in StreamReaders : StreamReader(r)

StreamSpec == StreamInit /\ [][StreamNext]_streamVars

StreamFairness ==
  /\ WF_streamVars(StreamProducer)
  /\ WF_streamVars(Forward)
  /\ \A r \in StreamReaders : WF_streamVars(StreamReader(r))

-----------------------------------------------------------------------------
(* Properties.                                                              *)

\* The step counter of a reader names the step it is about to read, so that
\* lammps_decaf.cpp keeps the displacements of a step in the row of that step
\* (msd[step], nsteps rows).  lammps_adios_con.cpp, whose time-outs count too,
\* uses its counter for nothing.
CounterNamesStep ==
  \A r \in StreamReaders :
    in_pc[r] = "read" /\ program # "lammps_adios" => Head(stream[r]) = in_step[r]

\* The streams implement StepChannel: also after time-outs, and after a
\* producer that ended early, a reader has read a prefix of the steps put.
StreamChannel ==
  INSTANCE StepChannel WITH
    steps <- stream_steps, readers <- StreamReaders,
    published <- out_step,
    consumed <- [r \in StreamReaders |-> last_read[r] + 1]

ImplementsStreamChannel == StreamChannel!Spec

\* The readers end after the producer, having read every step that was put.
AllStepsStreamed ==
  <>(/\ out_pc = "done"
     /\ \A r \in StreamReaders : in_pc[r] = "done" /\ last_read[r] = out_step - 1)
=============================================================================
