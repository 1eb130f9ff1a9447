------------------------ MODULE LammpsComputeProofs ------------------------
(***************************************************************************)
(* Proofs about LammpsCompute, for any number of steps, blocks, slots of   *)
(* the PRB, any quota and threshold, with one writer thread.               *)
(*                                                                         *)
(* Each step is one of ComputeBroker but for the threads it wakes, so the  *)
(* lemmas of ComputeBrokerProofs do most of the work; what is new is that  *)
(* the simulation thread puts EXIT after the last block.                   *)
(***************************************************************************)
EXTENDS LammpsComputeInvariant, ComputeBrokerProofs

-----------------------------------------------------------------------------
(* The simulation thread.                                                   *)

\* What the invariant says of the numbers the simulation thread works with.
LEMMA SimNumbers ==
  ASSUME LammpsComputeInv
  PROVE  /\ nsteps \in Nat /\ cpt_total_blks \in Nat
         /\ timestep \in Nat /\ timestep <= nsteps
         /\ data_id \in Nat /\ data_id <= cpt_total_blks
         /\ blks_left \in Nat /\ blks_left <= cpt_total_blks - data_id
         /\ dump_step_cnt = timestep
<1>1. /\ data_id \in 0..cpt_total_blks /\ timestep \in 0..nsteps
      /\ blks_left \in 0..(cpt_total_blks - data_id)
      /\ dump_step_cnt = timestep
  BY DEF LammpsComputeInv, LammpsTypeOK, TypeOK, SimInv
<1>2. QED
  BY <1>1, LammpsAssumption, BoundsNat

\* A step that changes nothing of ComputeBroker.
LEMMA SameVars ==
  ASSUME IInv, UNCHANGED vars
  PROVE  IInv'
  BY WaitingInv DEF vars, IInv, TypeOK

LEMMA RunStepInv ==
  ASSUME LammpsComputeInv, RunStep
  PROVE  LammpsComputeInv'
<1>1. IInv' /\ TypeOK'
  BY SameVars DEF LammpsComputeInv, RunStep, IInv
<1>2. data_id' = data_id /\ gen_done' = gen_done
  BY DEF RunStep, vars, genVars
<1>3. LammpsTypeOK'
  BY <1>1, <1>2 DEF LammpsComputeInv, LammpsTypeOK, RunStep
<1>4. SimInv'
  BY <1>2 DEF LammpsComputeInv, SimInv, RunStep
<1>5. QED
  BY <1>1, <1>3, <1>4 DEF LammpsComputeInv

LEMMA InsertZipperInv ==
  ASSUME OneWriter, LammpsComputeInv, InsertZipper
  PROVE  LammpsComputeInv'
<1>1. /\ sim_pc = "insert" /\ blks_left > 0 /\ ~gen_done
      /\ data_id < cpt_total_blks /\ data_id # cpt_total_blks
      /\ timestep < nsteps
      /\ blks_left - 1 \in 0..(cpt_total_blks - (data_id + 1))
  <2>1. sim_pc = "insert" /\ blks_left > 0 /\ ~gen_done /\ timestep < nsteps
    BY DEF LammpsComputeInv, SimInv, InsertZipper
  <2>2. QED
    BY <2>1, SimNumbers
<1>2. PutStep
  <2>1. gen_done' = gen_done /\ gen_done = FALSE
    BY <1>1 DEF LammpsComputeInv, LammpsTypeOK, TypeOK, InsertZipper
  <2>2. gen_done' = (data_id = cpt_total_blks)
    BY <1>1, <2>1
  <2>3. QED
    BY <1>1, <2>2 DEF InsertZipper, Put, PutStep, NextBlk
<1>3. IInv' /\ TypeOK'
  BY <1>2, PutStepInv DEF LammpsComputeInv, IInv
<1>4. /\ data_id' = data_id + 1 /\ blks_left' = blks_left - 1 /\ gen_done' = gen_done
      /\ UNCHANGED <<sim_pc, timestep, dump_step_cnt>>
  BY DEF InsertZipper
<1>5. LammpsTypeOK'
  BY <1>1, <1>3, <1>4 DEF LammpsComputeInv, LammpsTypeOK
<1>6. SimInv'
  <2>1. timestep # nsteps
    BY <1>1, SimNumbers
  <2>2. blks_left = cpt_total_blks - data_id => blks_left - 1 = cpt_total_blks - (data_id + 1)
    BY SimNumbers
  <2>3. QED
    BY <1>1, <1>4, <2>1, <2>2 DEF LammpsComputeInv, SimInv
<1>7. QED
  BY <1>3, <1>5, <1>6 DEF LammpsComputeInv

LEMMA StepDumpedInv ==
  ASSUME LammpsComputeInv, StepDumped
  PROVE  LammpsComputeInv'
<1>1. IInv' /\ TypeOK'
  BY SameVars DEF LammpsComputeInv, StepDumped, IInv
<1>2. /\ data_id' = data_id /\ gen_done' = gen_done /\ blks_left' = blks_left
      /\ sim_pc = "insert" /\ blks_left = 0
      /\ timestep' = timestep + 1 /\ dump_step_cnt' = dump_step_cnt + 1
      /\ sim_pc' = IF timestep + 1 < nsteps THEN "run" ELSE "exit"
  BY DEF StepDumped, vars, genVars
<1>3. timestep < nsteps /\ ~gen_done
  BY <1>2 DEF LammpsComputeInv, SimInv
<1>4. timestep + 1 \in 0..nsteps /\ dump_step_cnt + 1 \in 0..(timestep + 1)
  BY <1>3, SimNumbers
<1>5. LammpsTypeOK'
  BY <1>1, <1>2, <1>4 DEF LammpsComputeInv, LammpsTypeOK
<1>6. timestep + 1 = nsteps => data_id = cpt_total_blks
  <2>1. timestep + 1 = nsteps => blks_left = cpt_total_blks - data_id
    BY <1>2 DEF LammpsComputeInv, SimInv
  <2>2. QED
    BY <1>2, <2>1, SimNumbers
<1>7. SimInv'
  BY <1>2, <1>3, <1>6, SimNumbers DEF SimInv
<1>8. QED
  BY <1>1, <1>5, <1>7 DEF LammpsComputeInv

\* EXIT is put when every expected step was dumped, and so every block.
LEMMA GenerateExitMsgInv ==
  ASSUME OneWriter, AllStepsExpected, LammpsComputeInv, GenerateExitMsg
  PROVE  LammpsComputeInv'
<1>1. sim_pc = "exit" /\ ~gen_done /\ dump_step_cnt >= total_num_dump_steps
  BY DEF LammpsComputeInv, SimInv, GenerateExitMsg, AllDumped
<1>2. timestep = nsteps
  BY <1>1, SimNumbers, LammpsAssumption DEF AllStepsExpected
<1>3. data_id = cpt_total_blks
  BY <1>2 DEF LammpsComputeInv, SimInv
<1>4. PutStep
  <2>1. NextBlk = EXIT_BLK_ID
    BY <1>3, SimNumbers DEF NextBlk
  <2>2. ~(data_id < cpt_total_blks)
    BY <1>3, SimNumbers
  <2>3. QED
    BY <1>1, <1>3, <2>1, <2>2 DEF GenerateExitMsg, Put, PutStep
<1>5. IInv' /\ TypeOK'
  BY <1>4, PutStepInv DEF LammpsComputeInv, IInv
<1>6. UNCHANGED <<data_id, timestep, dump_step_cnt, blks_left>> /\ sim_pc' = "done"
  BY DEF GenerateExitMsg
<1>7. LammpsTypeOK' /\ SimInv'
  BY <1>5, <1>6 DEF LammpsComputeInv, LammpsTypeOK, SimInv
<1>8. QED
  BY <1>5, <1>7 DEF LammpsComputeInv

\* Steps that leave the PRB and what the simulation thread counts alone.
LEMMA QuietInv ==
  ASSUME OneWriter, LammpsComputeInv, IInv',
         UNCHANGED <<genVars, timestep, dump_step_cnt, blks_left>>,
         sim_pc' \in {sim_pc, "done"} \/ (sim_pc = "run" /\ sim_pc' = "exit")
  PROVE  LammpsComputeInv'
<1>1. TypeOK'
  BY DEF IInv
<1>2. LammpsTypeOK' /\ SimInv'
  BY <1>1 DEF LammpsComputeInv, LammpsTypeOK, SimInv, genVars
<1>3. QED
  BY <1>2 DEF LammpsComputeInv

LEMMA SimulationInv ==
  ASSUME OneWriter, AllStepsExpected, LammpsComputeInv, Simulation
  PROVE  LammpsComputeInv'
<1>1. CASE ExtractFails \/ NoExitMsg
  <2>1. IInv'
    BY <1>1, SameVars DEF LammpsComputeInv, ExtractFails, NoExitMsg
  <2>2. UNCHANGED <<genVars, timestep, dump_step_cnt, blks_left>>
    BY <1>1 DEF ExtractFails, NoExitMsg, vars, genVars
  <2>3. sim_pc' = "done" \/ (sim_pc = "run" /\ sim_pc' = "exit")
    BY <1>1 DEF ExtractFails, NoExitMsg
  <2>4. QED
    BY <2>1, <2>2, <2>3, QuietInv
<1>2. CASE PutWait
  <2>1. IInv'
    BY <1>2, WaitsInv DEF LammpsComputeInv, PutWait
  <2>2. UNCHANGED <<genVars, timestep, dump_step_cnt, blks_left, sim_pc>>
    BY <1>2 DEF PutWait, GeneratorWait, simVars, genVars
  <2>3. QED
    BY <2>1, <2>2, QuietInv
<1>3. QED
  BY <1>1, <1>2, RunStepInv, InsertZipperInv, StepDumpedInv, GenerateExitMsgInv DEF Simulation

-----------------------------------------------------------------------------
(* The other threads.                                                       *)

LEMMA ThreadsInv ==
  ASSUME OneWriter, LammpsComputeInv, UNCHANGED simVars,
         LammpsSender \/ (\E w \in Writers : LammpsWriter(w)) \/ SpuriousWakeup
  PROVE  LammpsComputeInv'
<1>1. IInv' /\ UNCHANGED genVars
  <2>1. CASE LammpsSender
    <3>1. CASE LammpsSenderFinal
      <4>1. SenderFinalStep
        BY <3>1 DEF LammpsSenderFinal, SenderFinalStep
      <4>2. QED
        BY <4>1, SenderFinalStepInv DEF LammpsComputeInv, SenderFinalStep, genVars
    <3>2. CASE SenderGet \/ SenderWait \/ SenderGetNull \/ SenderCheckIds
               \/ SenderSend \/ SenderDrain \/ SenderDisk \/ SenderExit
      <4>1. IInv'
        BY <3>2, SenderGetInv, WaitsInv, SenderGetNullInv, SenderCheckIdsInv, SenderSendInv,
           SenderDrainInv, SenderDiskInv, SenderExitInv DEF LammpsComputeInv
      <4>2. UNCHANGED genVars
        BY <3>2 DEF SenderGet, SenderWait, SenderGetNull, SenderCheckIds, SenderSend,
           SenderDrain, SenderDisk, SenderExit, genVars
      <4>3. QED
        BY <4>1, <4>2
    <3>3. QED
      BY <2>1, <3>1, <3>2 DEF LammpsSender
  <2>2. ASSUME NEW w \in Writers, LammpsWriter(w)
        PROVE  IInv' /\ UNCHANGED genVars
    <3>1. CASE LammpsWriterFinal(w)
      <4>1. WriterFinalStep(w)
        BY <3>1 DEF LammpsWriterFinal, WriterFinalStep
      <4>2. QED
        BY <4>1, WriterFinalStepInv DEF LammpsComputeInv, WriterFinalStep, genVars
    <3>2. CASE WriterStart(w) \/ WriterGet(w) \/ WriterWait(w) \/ WriterGetNull(w)
               \/ WriterWrite(w) \/ WriterAppend(w) \/ WriterLeave(w)
      <4>1. IInv'
        BY <3>2, WriterStartInv, WriterGetInv, WaitsInv, WriterGetNullInv, WriterWriteInv,
           WriterAppendInv, WriterLeaveInv DEF LammpsComputeInv
      <4>2. UNCHANGED genVars
        BY <3>2 DEF WriterStart, WriterGet, WriterWait, WriterGetNull, WriterWrite,
           WriterAppend, WriterLeave, genVars
      <4>3. QED
        BY <4>1, <4>2
    <3>3. QED
      BY <2>2, <3>1, <3>2 DEF LammpsWriter
  <2>3. CASE SpuriousWakeup
    BY <2>3, WaitsInv DEF LammpsComputeInv, SpuriousWakeup, genVars
  <2>4. QED
    BY <2>1, <2>2, <2>3
<1>2. QED
  BY <1>1, QuietInv DEF simVars

LEMMA LammpsStepInv ==
  ASSUME OneWriter, AllStepsExpected, LammpsComputeInv, [LammpsNext]_lammpsVars
  PROVE  LammpsComputeInv'
<1>1. CASE UNCHANGED lammpsVars
  <2>1. IInv' /\ UNCHANGED simVars /\ UNCHANGED genVars
    BY <1>1, SameVars DEF LammpsComputeInv, lammpsVars, vars
  <2>2. QED
    BY <2>1, QuietInv DEF simVars
<1>2. QED
  BY <1>1, SimulationInv, ThreadsInv DEF LammpsNext

LEMMA LammpsInitInv ==
  ASSUME OneWriter, LammpsInit
  PROVE  LammpsComputeInv
<1>1. IInv /\ TypeOK
  BY InitInv DEF LammpsInit, IInv
<1>2. ~gen_done /\ data_id = 0
  BY DEF LammpsInit, Init
<1>3. LammpsTypeOK /\ SimInv
  BY <1>1, <1>2, LammpsAssumption, BoundsNat DEF LammpsInit, LammpsTypeOK, SimInv
<1>4. QED
  BY <1>1, <1>3 DEF LammpsComputeInv

-----------------------------------------------------------------------------
(* The theorems.                                                            *)

\* The invariant of ComputeBroker survives the other simulation thread and
\* the shared condition "empty": EXIT is the last item of the PRB although an
\* extraction may fail at any step.
THEOREM LammpsInvariant ==
  ASSUME OneWriter, AllStepsExpected
  PROVE  LammpsSpec => []LammpsComputeInv
<1>1. LammpsInit => LammpsComputeInv
  BY LammpsInitInv
<1>2. LammpsComputeInv /\ [LammpsNext]_lammpsVars => LammpsComputeInv'
  BY LammpsStepInv
<1>3. QED
  BY <1>1, <1>2, PTL DEF LammpsSpec

\* No block is lost or duplicated between the simulation, the PRB, the
\* threads, the identifier array and the messages, and the identifiers fit.
THEOREM LammpsConservation ==
  ASSUME OneWriter, AllStepsExpected
  PROVE  LammpsSpec => [](BlocksConserved /\ AnnouncedIsOnDisk /\ IdArrayFits)
<1>1. LammpsComputeInv => BlocksConserved /\ AnnouncedIsOnDisk /\ IdArrayFits
  BY ConservedInv, PropertiesInv DEF LammpsComputeInv
<1>2. QED
  BY <1>1, LammpsInvariant, PTL

\* EXIT is sent only after every block of every step was handed over, and
\* never when an extraction failed.
THEOREM LammpsExitLast ==
  ASSUME OneWriter, AllStepsExpected
  PROVE  LammpsSpec => []ExitComesLast
<1>1. LammpsComputeInv => ExitComesLast
  BY PropertiesInv DEF LammpsComputeInv
<1>2. QED
  BY <1>1, LammpsInvariant, PTL

\* Whatever a step sends, the stream allows.
LEMMA LammpsOnlyAllowed ==
  ASSUME OneWriter, LammpsComputeInv, [LammpsNext]_lammpsVars
  PROVE  \/ sent' = sent
         \/ send_pc # "done" /\ \E m \in Message : sent' = Append(sent, m) /\ Allowed(m)
<1> USE DEF LammpsComputeInv
<1>1. CASE Simulation
  BY <1>1 DEF Simulation, RunStep, ExtractFails, InsertZipper, StepDumped, GenerateExitMsg,
     NoExitMsg, PutWait, GeneratorWait, vars, senderVars
<1>2. CASE LammpsSender
  <2>1. CASE SenderSend \/ SenderDisk \/ SenderExit
    <3>1. send_pc # "done"
      BY <2>1 DEF SenderSend, SenderDisk, SenderExit
    <3>2. QED
      BY <2>1, <3>1, SendAllowed, DiskAllowed, ExitAllowed
  <2>2. CASE SenderGet \/ SenderWait \/ SenderGetNull \/ SenderCheckIds \/ LammpsSenderFinal \/ SenderDrain
    BY <2>2 DEF SenderGet, SenderWait, SenderGetNull, SenderCheckIds, LammpsSenderFinal, SenderDrain,
       senderVars
  <2>3. QED
    BY <1>2, <2>1, <2>2 DEF LammpsSender
<1>3. ASSUME NEW w \in Writers, LammpsWriter(w)
      PROVE  sent' = sent
  BY <1>3 DEF LammpsWriter, WriterStart, WriterGet, WriterWait, WriterGetNull, WriterWrite,
     WriterAppend, LammpsWriterFinal, WriterLeave, senderVars
<1>4. CASE SpuriousWakeup \/ UNCHANGED lammpsVars
  BY <1>4 DEF SpuriousWakeup, lammpsVars, vars, senderVars
<1>5. QED
  BY <1>1, <1>2, <1>3, <1>4 DEF LammpsNext

\* The LAMMPS process keeps the promise of BlockStream, too.
THEOREM LammpsImplementation ==
  ASSUME OneWriter, AllStepsExpected
  PROVE  LammpsSpec => ImplementsStream
<1>1. LammpsInit => Stream!StreamInit
  BY StreamInitially DEF LammpsInit
<1>2. LammpsComputeInv /\ [LammpsNext]_lammpsVars => [Stream!StreamNext]_(Stream!streamVars)
  BY LammpsOnlyAllowed, AllowedIsStreamStep, StreamVariables DEF LammpsComputeInv
<1>3. QED
  BY <1>1, <1>2, LammpsInvariant, PTL DEF LammpsSpec, ImplementsStream, Stream!StreamSpec
=============================================================================
