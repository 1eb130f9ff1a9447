----------------------------- MODULE Transports -----------------------------
(***************************************************************************)
(* The programs that move the steps of a simulation without Zipper: the    *)
(* environment names a transport, and every step goes through it to a      *)
(* reader program of its own.  test_lbm.c runs the simulation without any  *)
(* transport ("none").                                                     *)
(***************************************************************************)
EXTENDS StepStamp, VersionLock, StepStream, LbmSolver

VARIABLE transport_major

vars == <<transport_major, stampVars, lockVars, streamVars, solverVars>>

TypeOK ==
  /\ transport_major \in {"none", "ADIOS_DISK", "NATIVE_STAGING", "STREAM"}
  /\ StampTypeOK
  /\ LockTypeOK
  /\ StreamTypeOK
  /\ SolverTypeOK

Init ==
  /\ transport_major \in {"none", "ADIOS_DISK", "NATIVE_STAGING", "STREAM"}
  /\ StampInit
  /\ LockInit
  /\ StreamInit
  /\ SolverInit
  \* What is chosen for a transport that is not used makes no difference.
  /\ transport_major = "NATIVE_STAGING" \/ ~dimes
  /\ transport_major = "STREAM" \/ program = "lbm_adios"
  /\ transport_major = "none" \/ buffered

\* The programs of one transport run; those of the others do not.
Next ==
  /\ UNCHANGED transport_major
  /\ \/ /\ transport_major = "ADIOS_DISK" /\ StampNext
        /\ UNCHANGED <<lockVars, streamVars, solverVars>>
     \/ /\ transport_major = "NATIVE_STAGING" /\ LockNext
        /\ UNCHANGED <<stampVars, streamVars, solverVars>>
     \/ /\ transport_major = "STREAM" /\ StreamNext
        /\ UNCHANGED <<stampVars, lockVars, solverVars>>
     \/ /\ transport_major = "none" /\ SolverNext
        /\ UNCHANGED <<stampVars, lockVars, streamVars>>

Spec == Init /\ [][Next]_vars

\* Every process of the programs that run keeps running.
Fairness ==
  /\ WF_stampVars(transport_major = "ADIOS_DISK" /\ Producer)
  /\ WF_stampVars(transport_major = "ADIOS_DISK" /\ Reader)
  /\ WF_lockVars(transport_major = "NATIVE_STAGING" /\ PutProcess)
  /\ WF_lockVars(transport_major = "NATIVE_STAGING" /\ GetProcess)
  /\ WF_streamVars(transport_major = "STREAM" /\ StreamProducer)
  /\ WF_streamVars(transport_major = "STREAM" /\ Forward)
  /\ \A r \in StreamReaders : WF_streamVars(transport_major = "STREAM" /\ StreamReader(r))
  /\ WF_solverVars(transport_major = "none" /\ Finalize)
  /\ \A r \in Ranks : WF_solverVars(transport_major = "none" /\ Rank(r))

FairSpec == Spec /\ Fairness

-----------------------------------------------------------------------------
(* Properties.                                                              *)

\* Whichever transport is chosen, both programs get through all steps, unless
\* the stamp file cannot be opened or the staging library reports an error;
\* and the simulation gets through them without any.
AllStepsThrough ==
  /\ transport_major = "ADIOS_DISK" => AllStepsRead
  /\ transport_major = "NATIVE_STAGING" => AllStepsGot
  /\ transport_major = "STREAM" => AllStepsStreamed
  /\ transport_major = "none" => AllStepsSolved
=============================================================================
