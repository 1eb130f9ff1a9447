----------------------------- MODULE VersionLock -----------------------------
(***************************************************************************)
(* The native staging transport (transport_major NATIVE_STAGING, over      *)
(* DataSpaces or DIMES).  Each step is put and got as a version of one     *)
(* variable, under a lock named after the step modulo DS_MAX_VERSION       *)
(* (ds_adaptor.c, called by run_lbm.c and native_staging_read.c).          *)
(*                                                                         *)
(* The staging library is external.  Its locks (lock_type 2, as            *)
(* scripts/native_staging.sh sets it) pass from writer to reader and back; *)
(* taking one is collective over all ranks of a program, so each program   *)
(* is one process here.  A DataSpaces server keeps max_versions versions,  *)
(* a new one replacing the one max_versions before it.  DIMES keeps what a *)
(* producer put until the producer synchronises the group of the put or    *)
(* ends.                                                                   *)
(***************************************************************************)
EXTENDS Integers

CONSTANTS
  nstop,           \* number of steps, an argument of both programs
  DS_MAX_VERSION,  \* number of lock names
  max_versions,    \* versions a DataSpaces server keeps
  StagingFails     \* dimes_put_sync_group, put_set_group and put may fail

ASSUME LockAssumption ==
  /\ nstop \in Nat
  /\ DS_MAX_VERSION \in Nat \ {0}
  /\ max_versions \in Nat /\ max_versions >= DS_MAX_VERSION
  /\ StagingFails \in BOOLEAN

VARIABLES
  dimes,      \* transport_minor is DIMES
  put_pc,     \* where the producer is
  put_step,   \* its timestep
  flushed,    \* locks ds_adaptor_flush_dimes has gone through
  failed_at,  \* the first step the producer failed to put, nstop if none
  flush_failed, \* ds_adaptor_flush_dimes has failed
  get_pc,     \* where the reader is
  get_step,   \* its timestep
  lock,       \* what state each lock is in
  store       \* the versions that can be got

putVars  == <<put_pc, put_step, flushed, failed_at, flush_failed>>
getVars  == <<get_pc, get_step>>
lockVars == <<dimes, putVars, getVars, lock, store>>

\* Names of locks; DS_MAX_VERSION of them are in use.
Names == 0..(nstop + DS_MAX_VERSION)

LockTypeOK ==
  /\ dimes \in BOOLEAN
  /\ put_pc \in {"lock", "sync", "put", "unlock", "flush_lock", "flush", "flush_unlock", "done"}
  /\ put_step \in 0..nstop
  /\ flushed \in 0..DS_MAX_VERSION
  /\ failed_at \in 0..nstop
  /\ flush_failed \in BOOLEAN
  /\ get_pc \in {"lock", "get", "unlock", "done", "aborted"}
  /\ get_step \in 0..nstop
  /\ lock \in [Names -> {"to_write", "writing", "to_read", "reading"}]
  /\ store \subseteq 0..(nstop - 1)

LockInit ==
  /\ dimes \in BOOLEAN
  /\ put_pc = IF nstop > 0 THEN "lock" ELSE IF dimes THEN "flush_lock" ELSE "done"
  /\ put_step = 0
  /\ flushed = 0
  /\ failed_at = nstop
  /\ flush_failed = FALSE
  /\ get_pc = IF nstop > 0 THEN "lock" ELSE "done"
  /\ get_step = 0
  /\ lock = [k \in Names |-> "to_write"]
  /\ store = {}

-----------------------------------------------------------------------------
(* The staging library.                                                     *)

Pass(k, from, to) == lock[k] = from /\ lock' = [lock EXCEPT ![k] = to]

LockName(t) == t % DS_MAX_VERSION

\* What a put or the synchronisation of a group leaves in the store.
Kept(t)         == {v \in store : v % max_versions # t % max_versions}
Unsynced(group) == {v \in store : LockName(v) # group}

-----------------------------------------------------------------------------
(* The producer: put_common_buffer for each step.                           *)

\* The step after put_common_buffer has returned; its status is ignored.
AfterPut ==
  /\ put_step' = put_step + 1
  /\ put_pc' = IF put_step + 1 < nstop THEN "lock"
               ELSE IF dimes THEN "flush_lock" ELSE "done"

PutFailed == failed_at' = IF failed_at = nstop THEN put_step ELSE failed_at

LockOnWrite ==
  /\ put_pc = "lock"
  /\ Pass(LockName(put_step), "to_write", "writing")
  /\ put_pc' = IF dimes THEN "sync" ELSE "put"
  /\ UNCHANGED <<dimes, put_step, flushed, failed_at, flush_failed, getVars, store>>

PutSyncGroup ==
  /\ put_pc = "sync"
  /\ store' = Unsynced(LockName(put_step))
  /\ put_pc' = "put"
  /\ UNCHANGED <<dimes, put_step, flushed, failed_at, flush_failed, getVars, lock>>

\* Either of the two group calls fails; the return leaves the lock taken.
PutSyncFails ==
  /\ StagingFails
  /\ put_pc = "sync"
  /\ \E s \in {store, Unsynced(LockName(put_step))} : store' = s
  /\ AfterPut
  /\ PutFailed
  /\ UNCHANGED <<dimes, flushed, flush_failed, getVars, lock>>

Put ==
  /\ put_pc = "put"
  /\ store' = (IF dimes THEN store ELSE Kept(put_step)) \cup {put_step}
  /\ put_pc' = "unlock"
  /\ UNCHANGED <<dimes, put_step, flushed, failed_at, flush_failed, getVars, lock>>

PutFails ==
  /\ StagingFails
  /\ put_pc = "put"
  /\ PutFailed
  /\ put_pc' = "unlock"
  /\ UNCHANGED <<dimes, put_step, flushed, flush_failed, getVars, lock, store>>

UnlockOnWrite ==
  /\ put_pc = "unlock"
  /\ Pass(LockName(put_step), "writing", "to_read")
  /\ AfterPut
  /\ UNCHANGED <<dimes, flushed, failed_at, flush_failed, getVars, store>>

-----------------------------------------------------------------------------
(* ds_adaptor_flush_dimes, then the producer ends.                          *)

\* What a DIMES producer takes with it.
StoreAfterEnd == IF dimes THEN {} ELSE store

\* Faulty variant: one lock is left out.
FlushNameOnce == LockName(nstop + (IF flushed = 0 THEN 0 ELSE flushed - 1))

FlushName == LockName(nstop + flushed)

FlushLock ==
  /\ put_pc = "flush_lock"
  /\ Pass(FlushName, "to_write", "writing")
  /\ put_pc' = "flush"
  /\ UNCHANGED <<dimes, put_step, flushed, failed_at, flush_failed, getVars, store>>

FlushSync ==
  /\ put_pc = "flush"
  /\ store' = Unsynced(FlushName)
  /\ put_pc' = "flush_unlock"
  /\ UNCHANGED <<dimes, put_step, flushed, failed_at, flush_failed, getVars, lock>>

FlushFails ==
  /\ StagingFails
  /\ put_pc = "flush"
  /\ flush_failed' = TRUE
  /\ put_pc' = "done"
  /\ store' = StoreAfterEnd
  /\ UNCHANGED <<dimes, put_step, flushed, failed_at, getVars, lock>>

\* Faulty variant: every lock but the last is flushed.
FlushUnlockEarly ==
  /\ put_pc = "flush_unlock"
  /\ Pass(FlushName, "writing", "to_read")
  /\ flushed' = flushed + 1
  /\ IF flushed + 2 < DS_MAX_VERSION
     THEN put_pc' = "flush_lock" /\ UNCHANGED store
     ELSE put_pc' = "done" /\ store' = StoreAfterEnd
  /\ UNCHANGED <<dimes, put_step, failed_at, flush_failed, getVars>>

FlushUnlock ==
  /\ put_pc = "flush_unlock"
  /\ Pass(FlushName, "writing", "to_read")
  /\ flushed' = flushed + 1
  /\ IF flushed + 1 < DS_MAX_VERSION
     THEN put_pc' = "flush_lock" /\ UNCHANGED store
     ELSE put_pc' = "done" /\ store' = StoreAfterEnd
  /\ UNCHANGED <<dimes, put_step, failed_at, flush_failed, getVars>>

PutProcess ==
  \/ LockOnWrite \/ PutSyncGroup \/ PutSyncFails \/ Put \/ PutFails \/ UnlockOnWrite
  \/ FlushLock \/ FlushSync \/ FlushFails \/ FlushUnlock

-----------------------------------------------------------------------------
(* The reader: get_common_buffer for each step.                             *)

LockOnRead ==
  /\ get_pc = "lock"
  /\ Pass(LockName(get_step), "to_read", "reading")
  /\ get_pc' = "get"
  /\ UNCHANGED <<dimes, putVars, get_step, store>>

Get ==
  /\ get_pc = "get"
  /\ get_step \in store
  /\ get_pc' = "unlock"
  /\ UNCHANGED <<dimes, putVars, get_step, lock, store>>

\* Faulty variant: the reader goes on.
GetFailsIgnored ==
  /\ get_pc = "get"
  /\ get_step \notin store
  /\ get_pc' = "unlock"
  /\ UNCHANGED <<dimes, putVars, get_step, lock, store>>

\* The lock is released, then the failure ends the program.
GetFails ==
  /\ get_pc = "get"
  /\ get_step \notin store
  /\ Pass(LockName(get_step), "reading", "to_write")
  /\ get_pc' = "aborted"
  /\ UNCHANGED <<dimes, putVars, get_step, store>>

UnlockOnRead ==
  /\ get_pc = "unlock"
  /\ Pass(LockName(get_step), "reading", "to_write")
  /\ get_step' = get_step + 1
  /\ get_pc' = IF get_step + 1 < nstop THEN "lock" ELSE "done"
  /\ UNCHANGED <<dimes, putVars, store>>

GetProcess == LockOnRead \/ Get \/ GetFails \/ UnlockOnRead

-----------------------------------------------------------------------------
LockNext == PutProcess \/ GetProcess

LockSpec == LockInit /\ [][LockNext]_lockVars

LockFairness == WF_lockVars(PutProcess) /\ WF_lockVars(GetProcess)

-----------------------------------------------------------------------------
(* Properties.                                                              *)

NothingFailed == failed_at = nstop /\ ~flush_failed

\* The version a reader asks for is there: neither overwritten by a later put,
\* nor freed with the group of its lock, nor gone with the producer.
GetFinds ==
  get_pc = "get" /\ get_step < failed_at /\ ~flush_failed => get_step \in store

\* Unless the staging library fails, both programs end and every step is read.
AllStepsGot == []NothingFailed => <>(put_pc = "done" /\ get_pc = "done")

\* The version locks implement StepChannel up to the first step that failed.
LockedSteps == IF put_step < failed_at THEN put_step ELSE failed_at

LockChannel ==
  INSTANCE StepChannel WITH
    steps <- nstop, readers <- {"reader"},
    published <- LockedSteps,
    consumed <- [r \in {"reader"} |-> get_step]

ImplementsLockChannel == LockChannel!Spec
=============================================================================
