------------------------------ MODULE StepStamp ------------------------------
(***************************************************************************)
(* The MPI-IO transport (transport_major ADIOS_DISK).  The ranks of the    *)
(* producer (run_lbm.c) write each step to a file of its own; then rank 0  *)
(* writes the number of the step into a stamp file, -2 for the last step.  *)
(* Rank 0 of the reader (adios_disk_read.c) polls the stamp and broadcasts *)
(* it, and the ranks read every step up to it.                             *)
(*                                                                         *)
(* ADIOS is external: opening and closing a file is collective, so a rank  *)
(* returns from closing it when all ranks have written their parts.  Both  *)
(* programs are built with BARRIER_STAMP, the default.  A stamp file that  *)
(* was created but not yet written reads as no bytes, which leaves the     *)
(* reader's time_stamp alone, as a missing file does.                      *)
(***************************************************************************)
EXTENDS Integers, FiniteSets

CONSTANTS
  Producers,    \* ranks of the producer
  Readers,      \* ranks of the reader
  root,         \* rank 0 of the producer
  reader_root,  \* rank 0 of the reader
  nsteps,       \* number of steps, an argument of both programs
  OpenFails     \* the stamp file may not open

ASSUME StampAssumption ==
  /\ root \in Producers
  /\ reader_root \in Readers
  /\ nsteps \in Nat \ {0}
  /\ OpenFails \in BOOLEAN

VARIABLES
  prod_pc,     \* where each producer rank is
  timestep,    \* its current step
  parts,       \* the ranks that have written their part of each step's file
  stamp,       \* what the stamp file holds, NoStamp if nothing
  read_pc,     \* where each reader rank is
  time_stamp,  \* the newest step it may read, -1 at first
  has_more,    \* it has not seen the last stamp
  read_step    \* the last step it has read, -1 at first

prodVars  == <<prod_pc, timestep, parts, stamp>>
readVars  == <<read_pc, time_stamp, has_more, read_step>>
stampVars == <<prodVars, readVars>>

Steps   == 0..(nsteps - 1)
NoStamp == -1

StampTypeOK ==
  /\ prod_pc \in [Producers -> {"write", "close", "stamp", "barrier", "done", "aborted"}]
  /\ timestep \in [Producers -> 0..nsteps]
  /\ parts \in [Steps -> SUBSET Producers]
  /\ stamp \in {-2, NoStamp} \cup Steps
  /\ read_pc \in [Readers -> {"stamp", "bcast", "check", "read", "done"}]
  /\ time_stamp \in [Readers -> {-1} \cup Steps]
  /\ has_more \in [Readers -> BOOLEAN]
  /\ read_step \in [Readers -> {-1} \cup Steps]

\* Only rank 0 opens the stamp file; the others go to the broadcast.
PollFrom(r) == IF r = reader_root THEN "stamp" ELSE "bcast"

StampInit ==
  /\ prod_pc = [p \in Producers |-> "write"]
  /\ timestep = [p \in Producers |-> 0]
  /\ parts = [t \in Steps |-> {}]
  /\ stamp = NoStamp
  /\ read_pc = [r \in Readers |-> PollFrom(r)]
  /\ time_stamp = [r \in Readers |-> -1]
  /\ has_more = [r \in Readers |-> TRUE]
  /\ read_step = [r \in Readers |-> -1]

-----------------------------------------------------------------------------
(* The producer.                                                            *)

InsertIntoAdios(p) ==
  /\ prod_pc[p] = "write"
  /\ parts' = [parts EXCEPT ![timestep[p]] = @ \cup {p}]
  /\ prod_pc' = [prod_pc EXCEPT ![p] = "close"]
  /\ UNCHANGED <<timestep, stamp, readVars>>

Close(p) ==
  /\ prod_pc[p] = "close"
  /\ parts[timestep[p]] = Producers
  /\ prod_pc' = [prod_pc EXCEPT ![p] = IF p = root THEN "stamp" ELSE "barrier"]
  /\ UNCHANGED <<timestep, parts, stamp, readVars>>

\* Faulty variant: the last step is announced one step early.
StampOfEarly(t) == IF t + 2 >= nsteps THEN -2 ELSE t

\* What adios_adaptor_update_avail_version writes for step t.
StampOf(t) == IF t = nsteps - 1 THEN -2 ELSE t

UpdateAvailVersion ==
  /\ prod_pc[root] = "stamp"
  /\ stamp' = StampOf(timestep[root])
  /\ prod_pc' = [prod_pc EXCEPT ![root] = "barrier"]
  /\ UNCHANGED <<timestep, parts, readVars>>

\* Rank 0 reports the failure and MPI_Abort ends all ranks.
StampNotOpened ==
  /\ OpenFails
  /\ prod_pc[root] = "stamp"
  /\ prod_pc' = [p \in Producers |-> "aborted"]
  /\ UNCHANGED <<timestep, parts, stamp, readVars>>

NextStep ==
  /\ \A p \in Producers : prod_pc[p] = "barrier"
  /\ timestep' = [p \in Producers |-> timestep[p] + 1]
  /\ prod_pc' = [p \in Producers |-> IF timestep[p] + 1 < nsteps THEN "write" ELSE "done"]
  /\ UNCHANGED <<parts, stamp, readVars>>

Producer ==
  \/ \E p \in Producers : InsertIntoAdios(p) \/ Close(p)
  \/ UpdateAvailVersion \/ StampNotOpened \/ NextStep

-----------------------------------------------------------------------------
(* The reader.                                                              *)

\* Faulty variant: every stamp is taken as a step.
StampedVersionRaw(old) == IF stamp = NoStamp THEN old ELSE stamp

\* The version adios_adaptor_get_avail_version leaves in *p_max_version.
StampedVersion(old) ==
  IF stamp = NoStamp THEN old ELSE IF stamp = -2 THEN nsteps - 1 ELSE stamp

ReadStamp ==
  /\ read_pc[reader_root] = "stamp"
  /\ time_stamp' = [time_stamp EXCEPT ![reader_root] = StampedVersion(@)]
  /\ read_pc' = [read_pc EXCEPT ![reader_root] = "bcast"]
  /\ UNCHANGED <<prodVars, has_more, read_step>>

BroadcastStamp ==
  /\ \A r \in Readers : read_pc[r] = "bcast"
  /\ time_stamp' = [r \in Readers |-> time_stamp[reader_root]]
  /\ read_pc' = [r \in Readers |-> "check"]
  /\ UNCHANGED <<prodVars, has_more, read_step>>

CheckStamp(r) ==
  /\ read_pc[r] = "check"
  /\ IF time_stamp[r] = -1
     THEN /\ read_pc' = [read_pc EXCEPT ![r] = PollFrom(r)]
          /\ UNCHANGED has_more
     ELSE /\ read_pc' = [read_pc EXCEPT ![r] = "read"]
          /\ has_more' = [has_more EXCEPT ![r] = @ /\ time_stamp[r] # nsteps - 1]
  /\ UNCHANGED <<prodVars, time_stamp, read_step>>

\* Faulty variant: the reader goes to the newest step at once.
ReadNewest(r) ==
  /\ read_pc[r] = "read"
  /\ read_step[r] < time_stamp[r]
  /\ read_step' = [read_step EXCEPT ![r] = time_stamp[r]]
  /\ UNCHANGED <<prodVars, read_pc, time_stamp, has_more>>

ReadStep(r) ==
  /\ read_pc[r] = "read"
  /\ read_step[r] < time_stamp[r]
  /\ read_step' = [read_step EXCEPT ![r] = @ + 1]
  /\ UNCHANGED <<prodVars, read_pc, time_stamp, has_more>>

ReadAll(r) ==
  /\ read_pc[r] = "read"
  /\ read_step[r] >= time_stamp[r]
  /\ read_pc' = [read_pc EXCEPT ![r] = IF has_more[r] THEN PollFrom(r) ELSE "done"]
  /\ UNCHANGED <<prodVars, time_stamp, has_more, read_step>>

Reader ==
  \/ ReadStamp \/ BroadcastStamp
  \/ \E r \in Readers : CheckStamp(r) \/ ReadStep(r) \/ ReadAll(r)

-----------------------------------------------------------------------------
StampNext == Producer \/ Reader

StampSpec == StampInit /\ [][StampNext]_stampVars

StampFairness == WF_stampVars(Producer) /\ WF_stampVars(Reader)

-----------------------------------------------------------------------------
(* Properties.                                                              *)

\* A reader never has the file of a step open that a producer rank still
\* writes: whatever it has read was complete.
ReadsComplete ==
  \A r \in Readers : \A t \in 0..read_step[r] : parts[t] = Producers

\* No reader is ever sent back to an older step, whatever the stamp file goes
\* through: missing, empty, a step, -2.
VersionNeverGoesBack ==
  [][\A r \in Readers : time_stamp'[r] >= time_stamp[r]]_stampVars

\* The stamp protocol implements StepChannel.
StampedSteps ==
  IF stamp = NoStamp THEN 0 ELSE IF stamp = -2 THEN nsteps ELSE stamp + 1

StampChannel ==
  INSTANCE StepChannel WITH
    steps <- nsteps, readers <- Readers,
    published <- StampedSteps,
    consumed <- [r \in Readers |-> read_step[r] + 1]

ImplementsStampChannel == StampChannel!Spec

StampAborted == \E p \in Producers : prod_pc[p] = "aborted"

\* Unless the stamp file cannot be opened, all ranks of both programs end, and
\* every reader has read every step.
AllStepsRead ==
  (<>StampAborted) \/
  <>(/\ \A p \in Producers : prod_pc[p] = "done"
     /\ \A r \in Readers : read_pc[r] = "done" /\ read_step[r] = nsteps - 1)
=============================================================================
