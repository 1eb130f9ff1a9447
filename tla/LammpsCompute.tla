---------------------------- MODULE LammpsCompute ----------------------------
(***************************************************************************)
(* The compute process of Zipper for LAMMPS (lbm_adios/zipper_lammps).     *)
(* Its sender and writer are those of ComputeBroker but for one thing:     *)
(* both sleep on rb->empty, every put broadcasts it, and the thread that   *)
(* takes EXIT signals it.  The simulation is LAMMPS: how many blocks a     *)
(* step yields depends on where the atoms are, an extraction may fail, and *)
(* EXIT is put only when all steps that are to be dumped have been dumped. *)
(*                                                                         *)
(* The array of written blocks holds pairs of identifier and line count;   *)
(* a pair is one entry here, named by the identifier.                      *)
(***************************************************************************)
EXTENDS ComputeBroker

CONSTANTS
  nsteps,               \* steps the simulation runs (argv[1])
  total_num_dump_steps  \* steps it is expected to dump (main.cpp)

ASSUME LammpsAssumption ==
  /\ nsteps \in Nat \ {0}
  /\ total_num_dump_steps \in Nat

VARIABLES
  sim_pc,
  timestep,
  dump_step_cnt,
  blks_left      \* blocks of the current step that are not in the PRB

simVars    == <<sim_pc, timestep, dump_step_cnt, blks_left>>
lammpsVars == <<vars, simVars>>

LammpsTypeOK ==
  /\ TypeOK
  /\ sim_pc \in {"run", "insert", "exit", "done"}
  /\ timestep \in 0..nsteps
  /\ dump_step_cnt \in 0..timestep
  /\ blks_left \in 0..(cpt_total_blks - data_id)

LammpsInit ==
  /\ Init
  /\ sim_pc = "run"
  /\ timestep = 0
  /\ dump_step_cnt = 0
  /\ blks_left = 0

-----------------------------------------------------------------------------
(* The simulation thread: run_module_lammps.                                *)

WaitOnEmpty == Writers \cup {"sender"}

\* Faulty variant: a signal in place of the broadcast.
PutSignals(b) ==
  /\ "generator" \notin waiting
  /\ num_avail_elements < bufsize
  /\ buffer' = [buffer EXCEPT ![head] = b]
  /\ head' = Advance(head)
  /\ num_avail_elements' = num_avail_elements + 1
  /\ \E t \in Signal(WaitOnEmpty) : waiting' = waiting \ t
  /\ UNCHANGED tail

\* Faulty variant: one block more than the PRB has slots.
PutOneMore(b) ==
  /\ "generator" \notin waiting
  /\ num_avail_elements <= bufsize
  /\ buffer' = [buffer EXCEPT ![head] = b]
  /\ head' = Advance(head)
  /\ num_avail_elements' = num_avail_elements + 1
  /\ waiting' = waiting \ WaitOnEmpty
  /\ UNCHANGED tail

\* producer_ring_buffer_put when there is room.
Put(b) ==
  /\ "generator" \notin waiting
  /\ num_avail_elements < bufsize
  /\ buffer' = [buffer EXCEPT ![head] = b]
  /\ head' = Advance(head)
  /\ num_avail_elements' = num_avail_elements + 1
  /\ waiting' = waiting \ WaitOnEmpty
  /\ UNCHANGED tail

\* One step of the simulation.  The last one yields what is left: the number
\* of blocks of the run is a constant, their division into steps is not.
RunStep ==
  /\ sim_pc = "run"
  /\ \E n \in 0..(cpt_total_blks - data_id) :
       /\ timestep + 1 = nsteps => n = cpt_total_blks - data_id
       /\ blks_left' = n
  /\ sim_pc' = "insert"
  /\ UNCHANGED <<vars, timestep, dump_step_cnt>>

\* lammps_extract_atom returns NULL: no further step.
ExtractFails ==
  /\ sim_pc = "run"
  /\ sim_pc' = "exit"
  /\ UNCHANGED <<vars, timestep, dump_step_cnt, blks_left>>

InsertZipper ==
  /\ sim_pc = "insert"
  /\ blks_left > 0
  /\ Put(data_id)
  /\ data_id' = data_id + 1
  /\ blks_left' = blks_left - 1
  /\ UNCHANGED <<gen_done, senderVars, writerVars, idVars, flagVars,
                 sim_pc, timestep, dump_step_cnt>>

\* The end of insert_zipper and of the loop's body.
StepDumped ==
  /\ sim_pc = "insert"
  /\ blks_left = 0
  /\ dump_step_cnt' = dump_step_cnt + 1
  /\ timestep' = timestep + 1
  /\ sim_pc' = IF timestep + 1 < nsteps THEN "run" ELSE "exit"
  /\ UNCHANGED <<vars, blks_left>>

\* Faulty variant: EXIT after any number of steps.
AllDumpedAlways == TRUE

AllDumped == dump_step_cnt >= total_num_dump_steps

GenerateExitMsg ==
  /\ sim_pc = "exit"
  /\ AllDumped
  /\ Put(EXIT_BLK_ID)
  /\ gen_done' = TRUE
  /\ sim_pc' = "done"
  /\ UNCHANGED <<data_id, senderVars, writerVars, idVars, flagVars,
                 timestep, dump_step_cnt, blks_left>>

\* generate_exit_msg puts nothing: sender and writer are not told.
NoExitMsg ==
  /\ sim_pc = "exit"
  /\ ~AllDumped
  /\ sim_pc' = "done"
  /\ UNCHANGED <<vars, timestep, dump_step_cnt, blks_left>>

PutWait ==
  /\ (sim_pc = "insert" /\ blks_left > 0) \/ (sim_pc = "exit" /\ AllDumped)
  /\ GeneratorWait
  /\ UNCHANGED simVars

Simulation ==
  \/ RunStep \/ ExtractFails \/ InsertZipper \/ StepDumped
  \/ GenerateExitMsg \/ NoExitMsg \/ PutWait

-----------------------------------------------------------------------------
(* The sender and a writer: those of ComputeBroker, except when they take   *)
(* EXIT.                                                                    *)

LammpsSenderFinal ==
  /\ send_pc = "final"
  /\ flag_sender_get_finalblk' = TRUE
  /\ DropFinal
  /\ \E t \in Signal(WaitOnEmpty) : waiting' = waiting \ t
  /\ send_buf' = NoBlk
  /\ send_pc' = "drain"
  /\ UNCHANGED <<send_ids, remain_disk_id, sent, genVars, writerVars, idVars,
                 flag_writer_get_finalblk, writer_exit>>

LammpsSender ==
  \/ SenderGet \/ SenderWait \/ SenderGetNull
  \/ SenderCheckIds \/ SenderSend
  \/ LammpsSenderFinal \/ SenderDrain \/ SenderDisk \/ SenderExit

LammpsWriterFinal(w) ==
  /\ write_pc[w] = "final"
  /\ flag_writer_get_finalblk' = TRUE
  /\ DropFinal
  /\ \E t \in Signal(WaitOnEmpty) : waiting' = waiting \ t
  /\ write_buf' = [write_buf EXCEPT ![w] = NoBlk]
  /\ write_pc' = [write_pc EXCEPT ![w] = "leave"]
  /\ UNCHANGED <<my_count, disk, genVars, senderVars, idVars,
                 flag_sender_get_finalblk, writer_exit>>

LammpsWriter(w) ==
  \/ WriterStart(w) \/ WriterGet(w) \/ WriterWait(w) \/ WriterGetNull(w)
  \/ WriterWrite(w) \/ WriterAppend(w) \/ LammpsWriterFinal(w) \/ WriterLeave(w)

-----------------------------------------------------------------------------
LammpsJoined == sim_pc = "done" /\ send_pc = "done" /\ \A w \in Writers : write_pc[w] = "done"

LammpsNext ==
  \/ Simulation
  \/ LammpsSender /\ UNCHANGED simVars
  \/ \E w \in Writers : LammpsWriter(w) /\ UNCHANGED simVars
  \/ SpuriousWakeup /\ UNCHANGED simVars
  \/ LammpsJoined /\ UNCHANGED lammpsVars

LammpsSpec == LammpsInit /\ [][LammpsNext]_lammpsVars

\* As in ComputeBroker; LAMMPS goes on with its steps.
LammpsFairness ==
  /\ WF_lammpsVars(Simulation)
  /\ WF_lammpsVars(LammpsSender /\ UNCHANGED simVars)
  /\ \A w \in Writers : WF_lammpsVars(LammpsWriter(w) /\ UNCHANGED simVars)

LammpsFairSpec == LammpsSpec /\ LammpsFairness

-----------------------------------------------------------------------------
(* Properties, beside BlocksConserved, ExitComesLast and ImplementsStream   *)
(* of ComputeBroker.                                                        *)

\* Once LAMMPS has dumped the steps it was to dump, every thread returns:
\* broadcast and signals on the one condition "empty", which the sender and a
\* writer with a threshold wait on together, lose no wakeup that is needed.
EndsOnceAllDumped == AllDumped ~> LammpsJoined
=============================================================================
