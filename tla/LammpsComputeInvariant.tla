----------------------- MODULE LammpsComputeInvariant -----------------------
(***************************************************************************)
(* The inductive invariant of LammpsCompute for one writer thread: that of *)
(* ComputeBroker, and how far the simulation thread is.                    *)
(* LammpsComputeProofs proves that it is inductive; MCLammpsCompute lets   *)
(* TLC check it on an instance first.                                      *)
(***************************************************************************)
EXTENDS LammpsCompute, ComputeInvariant

\* EXIT is put only after the last step: no fewer steps are expected than the
\* simulation runs.  The job scripts pass the same number NSTOP for both, with
\* a dump at every step (zipper_lammps/scripts_stampede2/common.sh:101, :198).
AllStepsExpected == nsteps <= total_num_dump_steps

\* Every step the loop has finished is counted as dumped; the blocks of the
\* current step are the last ones of the run when it is the last step.
SimInv ==
  /\ sim_pc # "done" => ~gen_done
  /\ dump_step_cnt = timestep
  /\ sim_pc \in {"run", "insert"} => timestep < nsteps
  /\ sim_pc = "insert" /\ timestep + 1 = nsteps => blks_left = cpt_total_blks - data_id
  /\ timestep = nsteps => data_id = cpt_total_blks

LammpsComputeInv == IInv /\ LammpsTypeOK /\ SimInv
=============================================================================
