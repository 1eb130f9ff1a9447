------------------------- MODULE StepTransportProofs -------------------------
(***************************************************************************)
(* Proofs about the three ways in which steps travel to another program:   *)
(* StepStamp, for any number of steps and of ranks on either side;         *)
(* VersionLock, for any number of steps, locks and versions, for both      *)
(* staging libraries, also when the library reports failures; StepStream,  *)
(* for any number of steps, readers, queued steps and time-outs, for ADIOS *)
(* staging and for Decaf.                                                  *)
(***************************************************************************)
EXTENDS StepStamp, VersionLock, StepStream, TLAPS

-----------------------------------------------------------------------------
(* StepStamp: the inductive invariant.                                      *)

\* A rank inside the loop has a step to write.
InLoop ==
  \A p \in Producers :
    prod_pc[p] \in {"write", "close", "stamp", "barrier"} => timestep[p] \in Steps

\* How far the stamp is while rank 0 of the producer is in its loop.
StampInStep ==
  /\ prod_pc[root] \in {"write", "close", "stamp"} => StampedSteps = timestep[root]
  /\ prod_pc[root] = "barrier" => StampedSteps = timestep[root] + 1
  /\ prod_pc[root] = "stamp" => parts[timestep[root]] = Producers

\* The files up to the stamp are complete.
StampedComplete == \A t \in Steps : t < StampedSteps => parts[t] = Producers

\* No reader is ahead of the stamp, or of rank 0 of the reader.
ReadersBehind ==
  \A r \in Readers :
    /\ read_step[r] <= time_stamp[r]
    /\ time_stamp[r] <= time_stamp[reader_root]
    /\ time_stamp[r] < StampedSteps

StampInv == StampTypeOK /\ InLoop /\ StampInStep /\ StampedComplete /\ ReadersBehind

-----------------------------------------------------------------------------
LEMMA InitInv == StampInit => StampInv
BY StampAssumption
   DEF StampInit, StampInv, StampTypeOK, InLoop, StampInStep, StampedComplete, ReadersBehind,
       StampedSteps, Steps, NoStamp, PollFrom

\* The steps of the producer leave the readers alone and move the stamp by at
\* most one step.
LEMMA ProducerInv ==
  ASSUME StampInv, Producer
  PROVE  /\ StampInv'
         /\ UNCHANGED readVars
         /\ StampedSteps' = StampedSteps \/ StampedSteps' = StampedSteps + 1
<1> USE StampAssumption
        DEF StampInv, StampTypeOK, InLoop, StampInStep, StampedComplete, ReadersBehind,
            StampedSteps, Steps, NoStamp, readVars
<1>1. ASSUME NEW p \in Producers, InsertIntoAdios(p)
      PROVE  StampInv' /\ UNCHANGED readVars /\ StampedSteps' = StampedSteps
  <2>1. parts[timestep[p]]' = parts[timestep[p]] \cup {p}
    BY <1>1 DEF InsertIntoAdios
  <2>2. ASSUME NEW t \in Steps, parts[t] = Producers PROVE parts'[t] = Producers
    BY <1>1, <2>2 DEF InsertIntoAdios
  <2>3. StampTypeOK'
    BY <1>1 DEF InsertIntoAdios
  <2> QED
    BY <1>1, <2>2, <2>3 DEF InsertIntoAdios
<1>2. ASSUME NEW p \in Producers, Close(p)
      PROVE  StampInv' /\ UNCHANGED readVars /\ StampedSteps' = StampedSteps
  BY <1>2 DEF Close
<1>3. CASE UpdateAvailVersion
  <2>1. timestep[root] \in Steps /\ StampedSteps = timestep[root]
    BY <1>3 DEF UpdateAvailVersion
  <2>2. StampedSteps' = StampedSteps + 1
    BY <1>3, <2>1 DEF UpdateAvailVersion, StampOf
  <2>3. StampTypeOK'
    BY <1>3, <2>1 DEF UpdateAvailVersion, StampOf
  <2>4. StampedComplete'
    <3>1. UNCHANGED parts /\ parts[timestep[root]] = Producers /\ StampedComplete
      BY <1>3 DEF UpdateAvailVersion
    <3>2. StampedSteps \in Int
      BY <2>1
    <3> HIDE DEF StampInv, StampTypeOK, InLoop, StampInStep, ReadersBehind, StampedSteps
    <3> QED
      BY <2>1, <2>2, <3>1, <3>2
  <2>5. StampInStep' /\ InLoop'
    BY <1>3, <2>1, <2>2 DEF UpdateAvailVersion
  <2>6. ReadersBehind' /\ UNCHANGED readVars
    <3>1. UNCHANGED <<read_pc, time_stamp, has_more, read_step>> /\ ReadersBehind
      BY <1>3 DEF UpdateAvailVersion
    <3>2. time_stamp \in [Readers -> {-1} \cup Steps] /\ StampedSteps \in Int
      BY <2>1
    <3> HIDE DEF StampInv, StampTypeOK, InLoop, StampInStep, StampedComplete, StampedSteps
    <3> QED
      BY <2>2, <3>1, <3>2
  <2> HIDE DEF StampTypeOK, InLoop, StampInStep, StampedComplete, ReadersBehind, StampedSteps
  <2> QED
    BY <2>2, <2>3, <2>4, <2>5, <2>6
<1>4. CASE StampNotOpened
  BY <1>4 DEF StampNotOpened
<1>5. CASE NextStep
  <2>1. \A p \in Producers : timestep[p] \in Steps
    BY <1>5 DEF NextStep
  <2>2. StampTypeOK'
    BY <1>5, <2>1 DEF NextStep
  <2> QED
    BY <1>5, <2>1, <2>2 DEF NextStep
<1> QED
  BY <1>1, <1>2, <1>3, <1>4, <1>5 DEF Producer

\* The steps of the reader leave the producer alone; no reader goes back, and
\* one that goes on to the next step finds it stamped.
LEMMA ReaderInv ==
  ASSUME StampInv, Reader
  PROVE  /\ StampInv'
         /\ UNCHANGED prodVars
         /\ \A r \in Readers : time_stamp'[r] >= time_stamp[r]
         /\ \/ UNCHANGED read_step
            \/ \E r \in Readers :
                 /\ read_step[r] + 1 < StampedSteps
                 /\ read_step' = [read_step EXCEPT ![r] = @ + 1]
<1> USE StampAssumption
        DEF StampInv, StampTypeOK, InLoop, StampInStep, StampedComplete, ReadersBehind,
            StampedSteps, Steps, NoStamp, prodVars, PollFrom
<1>1. CASE ReadStamp
  <2>1. /\ StampedVersion(time_stamp[reader_root]) \in {-1} \cup Steps
        /\ StampedVersion(time_stamp[reader_root]) < StampedSteps
        /\ StampedVersion(time_stamp[reader_root]) >= time_stamp[reader_root]
    BY DEF StampedVersion
  <2>2. StampTypeOK'
    BY <1>1, <2>1 DEF ReadStamp
  <2>3. /\ UNCHANGED <<prodVars, read_step>>
        /\ \A r \in Readers : time_stamp'[r] =
             IF r = reader_root THEN StampedVersion(time_stamp[reader_root]) ELSE time_stamp[r]
    BY <1>1 DEF ReadStamp
  <2>4. StampedSteps' = StampedSteps
    BY <2>3
  <2>5. ReadersBehind'
    <3> HIDE DEF StampInv, StampTypeOK, InLoop, StampInStep, StampedComplete, StampedSteps
    <3>1. ReadersBehind /\ reader_root \in Readers
      BY DEF StampInv
    <3>2. time_stamp \in [Readers -> {-1} \cup Steps] /\ read_step \in [Readers -> {-1} \cup Steps]
      BY DEF StampInv, StampTypeOK
    <3> QED
      BY <2>1, <2>3, <2>4, <3>1, <3>2
  <2>6. InLoop' /\ StampInStep' /\ StampedComplete'
    BY <2>3
  <2>7. \A r \in Readers : time_stamp'[r] >= time_stamp[r]
    BY <2>1, <2>3
  <2> QED
    BY <2>2, <2>3, <2>5, <2>6, <2>7
<1>2. CASE BroadcastStamp
  <2>1. /\ UNCHANGED <<prodVars, read_step>>
        /\ \A r \in Readers : time_stamp'[r] = time_stamp[reader_root]
    BY <1>2 DEF BroadcastStamp
  <2>2. StampTypeOK'
    BY <1>2 DEF BroadcastStamp
  <2>3. StampedSteps' = StampedSteps
    BY <2>1
  <2>4. ReadersBehind'
    <3> HIDE DEF StampInv, StampTypeOK, InLoop, StampInStep, StampedComplete, StampedSteps
    <3>1. ReadersBehind /\ reader_root \in Readers
      BY DEF StampInv
    <3>2. time_stamp \in [Readers -> {-1} \cup Steps] /\ read_step \in [Readers -> {-1} \cup Steps]
      BY DEF StampInv, StampTypeOK
    <3> QED
      BY <2>1, <2>3, <3>1, <3>2
  <2>5. InLoop' /\ StampInStep' /\ StampedComplete'
    BY <2>1
  <2>6. \A r \in Readers : time_stamp'[r] >= time_stamp[r]
    BY <2>1
  <2> QED
    BY <2>1, <2>2, <2>4, <2>5, <2>6
<1>3. ASSUME NEW r \in Readers, CheckStamp(r)
      PROVE  StampInv' /\ UNCHANGED <<prodVars, time_stamp, read_step>>
  BY <1>3 DEF CheckStamp
<1>4. ASSUME NEW r \in Readers, ReadStep(r)
      PROVE  /\ StampInv'
             /\ UNCHANGED <<prodVars, time_stamp>>
             /\ read_step[r] + 1 < StampedSteps
             /\ read_step' = [read_step EXCEPT ![r] = @ + 1]
  <2>1. read_step[r] + 1 <= time_stamp[r] /\ read_step[r] + 1 \in Steps
    BY <1>4 DEF ReadStep
  <2>2. read_step[r] + 1 < StampedSteps
    BY <2>1
  <2> QED
    BY <1>4, <2>1, <2>2 DEF ReadStep
<1>5. ASSUME NEW r \in Readers, ReadAll(r)
      PROVE  StampInv' /\ UNCHANGED <<prodVars, time_stamp, read_step>>
  BY <1>5 DEF ReadAll
<1>6. ASSUME UNCHANGED time_stamp
      PROVE  \A r \in Readers : time_stamp'[r] >= time_stamp[r]
  BY <1>6
<1> QED
  <2>1. CASE ReadStamp
    BY <1>1, <2>1 DEF ReadStamp, StampedVersion
  <2>2. CASE BroadcastStamp
    BY <1>2, <2>2 DEF BroadcastStamp
  <2>3. CASE \E r \in Readers : CheckStamp(r) \/ ReadStep(r) \/ ReadAll(r)
    BY <1>3, <1>4, <1>5, <1>6, <2>3
  <2> QED
    BY <2>1, <2>2, <2>3 DEF Reader

LEMMA StepInv == StampInv /\ [StampNext]_stampVars => StampInv'
<1> SUFFICES ASSUME StampInv, [StampNext]_stampVars PROVE StampInv'
  OBVIOUS
<1>1. CASE UNCHANGED stampVars
  BY <1>1 DEF StampInv, StampTypeOK, InLoop, StampInStep, StampedComplete, ReadersBehind,
              StampedSteps, stampVars, prodVars, readVars
<1> QED
  BY <1>1, ProducerInv, ReaderInv DEF StampNext

-----------------------------------------------------------------------------
THEOREM StampInvariant == StampSpec => []StampInv
BY InitInv, StepInv, PTL DEF StampSpec

\* Whatever a rank of the reader has read was written by all ranks of the
\* producer.
THEOREM OnlyCompleteRead == StampSpec => []ReadsComplete
<1>1. StampInv => ReadsComplete
  BY StampAssumption
     DEF StampInv, StampTypeOK, StampedComplete, ReadersBehind, StampedSteps, Steps, NoStamp,
         ReadsComplete
<1> QED
  BY <1>1, StampInvariant, PTL

\* No reader is sent back.
THEOREM NeverBack == StampSpec => VersionNeverGoesBack
<1>1. StampInv /\ [StampNext]_stampVars =>
        [\A r \in Readers : time_stamp'[r] >= time_stamp[r]]_stampVars
  <2> SUFFICES ASSUME StampInv, StampNext
               PROVE  \A r \in Readers : time_stamp'[r] >= time_stamp[r]
    OBVIOUS
  <2>1. CASE Producer
    <3>1. UNCHANGED time_stamp
      BY <2>1, ProducerInv DEF readVars
    <3> QED
      BY <3>1, StampAssumption DEF StampInv, StampTypeOK, Steps
  <2> QED
    BY <2>1, ReaderInv DEF StampNext
<1> QED
  BY <1>1, StampInvariant, PTL DEF StampSpec, VersionNeverGoesBack

\* The protocol implements StepChannel.
THEOREM StampImplementation == StampSpec => ImplementsStampChannel
<1> DEFINE read == [r \in Readers |-> read_step[r] + 1]
<1>1. StampInit => StampChannel!Init
  BY DEF StampInit, StampChannel!Init, StampedSteps, NoStamp
<1>2. StampInv /\ StampInv' /\ [StampNext]_stampVars =>
        [StampChannel!Next]_(StampChannel!channelVars)
  <2> SUFFICES ASSUME StampInv, StampInv', [StampNext]_stampVars
               PROVE  [StampChannel!Next]_(StampChannel!channelVars)
    OBVIOUS
  <2>1. CASE UNCHANGED stampVars
    BY <2>1 DEF StampChannel!channelVars, StampedSteps, stampVars, prodVars, readVars
  <2>2. CASE Producer
    <3>1. read' = read
      BY <2>2, ProducerInv DEF readVars
    <3>2. CASE StampedSteps' = StampedSteps
      BY <3>1, <3>2 DEF StampChannel!channelVars
    <3>3. CASE StampedSteps' = StampedSteps + 1
      <4>1. StampedSteps < nsteps
        <5>1. StampedSteps \in Nat
          BY StampAssumption DEF StampInv, StampTypeOK, StampedSteps, Steps, NoStamp
        <5>2. StampedSteps' \in 0..nsteps
          <6>1. stamp' \in {-2, -1} \cup 0..(nsteps - 1)
            BY DEF StampInv, StampTypeOK, Steps, NoStamp
          <6>2. StampedSteps' = IF stamp' = -1 THEN 0 ELSE IF stamp' = -2 THEN nsteps ELSE stamp' + 1
            BY DEF StampedSteps, NoStamp
          <6> HIDE DEF StampedSteps
          <6>3. nsteps \in Nat
            BY StampAssumption
          <6>4. ASSUME NEW s \in {-2, -1} \cup 0..(nsteps - 1)
                PROVE  (IF s = -1 THEN 0 ELSE IF s = -2 THEN nsteps ELSE s + 1) \in 0..nsteps
            BY <6>3
          <6> QED
            BY <6>1, <6>2, <6>4
        <5> QED
          BY <3>3, <5>1, <5>2, StampAssumption
      <4> QED
        BY <3>1, <3>3, <4>1 DEF StampChannel!Next, StampChannel!Publish
    <3> QED
      BY <2>2, <3>2, <3>3, ProducerInv
  <2>3. CASE Reader
    <3>1. StampedSteps' = StampedSteps
      BY <2>3, ReaderInv DEF prodVars, StampedSteps
    <3>2. CASE UNCHANGED read_step
      BY <3>1, <3>2 DEF StampChannel!channelVars
    <3>3. ASSUME NEW r \in Readers,
                 read_step[r] + 1 < StampedSteps,
                 read_step' = [read_step EXCEPT ![r] = @ + 1]
          PROVE  StampChannel!Consume(r)
      <4>1. read' = [read EXCEPT ![r] = @ + 1]
        BY <3>3 DEF StampInv, StampTypeOK
      <4> QED
        BY <3>1, <3>3, <4>1 DEF StampChannel!Consume
    <3> QED
      BY <2>3, <3>2, <3>3, ReaderInv DEF StampChannel!Next
  <2> QED
    BY <2>1, <2>2, <2>3 DEF StampNext
<1> QED
  BY <1>1, <1>2, StampInvariant, PTL DEF StampSpec, ImplementsStampChannel, StampChannel!Spec

-----------------------------------------------------------------------------
(* VersionLock: the inductive invariant.                                    *)

HoldsForWriting == put_pc \in {"sync", "put", "unlock", "flush", "flush_unlock"}
HoldsForReading == get_pc \in {"get", "unlock"}

\* The lock the producer is at: of its step, and of flushed ones after the last.
PutLock == LockName(put_step + flushed)

PutPlace ==
  /\ put_pc \in {"lock", "sync", "put", "unlock"} => put_step < nstop
  /\ put_pc \in {"flush_lock", "flush", "flush_unlock", "done"} => put_step = nstop
  /\ put_pc \in {"sync", "flush_lock", "flush", "flush_unlock"} => dimes
  /\ put_pc \in {"flush_lock", "flush", "flush_unlock"} => flushed < DS_MAX_VERSION /\ ~flush_failed
  /\ put_step < nstop => flushed = 0 /\ ~flush_failed
  /\ put_pc = "done" /\ dimes /\ ~flush_failed => flushed = DS_MAX_VERSION
  /\ HoldsForWriting => lock[PutLock] = "writing"
  /\ failed_at < nstop => failed_at <= put_step
  /\ failed_at < nstop /\ failed_at = put_step => put_pc = "unlock"
  /\ put_pc = "unlock" /\ failed_at = nstop => put_step \in store

GetPlace ==
  /\ get_step <= put_step /\ get_step <= failed_at
  /\ get_pc \in {"lock", "get", "unlock"} => get_step < nstop
  /\ HoldsForReading => lock[LockName(get_step)] = "reading"
  /\ get_pc = "unlock" => get_step < put_step /\ get_step < failed_at
  /\ get_pc = "aborted" /\ ~flush_failed => get_step = failed_at

\* Only what was put can be got, never the step that failed first.
StoreInv ==
  /\ failed_at \notin store
  /\ \A v \in store : v < put_step \/ (v = put_step /\ put_pc = "unlock")

\* A step that is put and not yet read keeps its lock to be read and its
\* version in the store, and the producer at most DS_MAX_VERSION ahead.
UnreadInv ==
  ~flush_failed =>
    \A t \in 0..(nstop - 1) : get_step <= t /\ t < put_step /\ t < failed_at =>
      /\ lock[LockName(t)] = IF t = get_step /\ HoldsForReading THEN "reading" ELSE "to_read"
      /\ put_step + flushed <= t + DS_MAX_VERSION
      /\ t \in store \/ (t = get_step /\ get_pc = "unlock")

\* The locks of the next steps wait for the producer.
FreeInv ==
  put_step < nstop /\ failed_at = nstop =>
    \A t \in put_step..(get_step + DS_MAX_VERSION - 1) :
      lock[LockName(t)] = IF t = put_step /\ HoldsForWriting THEN "writing" ELSE "to_write"

LockInv == LockTypeOK /\ PutPlace /\ GetPlace /\ StoreInv /\ UnreadInv /\ FreeInv

-----------------------------------------------------------------------------
(* The names of the locks.                                                  *)

LEMMA Divide ==
  ASSUME NEW a \in Nat, NEW d \in Nat \ {0}
  PROVE  /\ a \div d \in Nat
         /\ a % d \in 0..(d - 1)
         /\ a = d * (a \div d) + (a % d)
OBVIOUS

LEMMA Multiples ==
  ASSUME NEW d \in Nat \ {0}, NEW k \in Int
  PROVE  /\ k >= 1 => d * k >= d
         /\ k <= -1 => d * k <= -d
         /\ k = 0 => d * k = 0
OBVIOUS

LEMMA SameRemainder ==
  ASSUME NEW a \in Nat, NEW b \in Nat, NEW d \in Nat \ {0}, a < b, a % d = b % d
  PROVE  a + d <= b
<1>1. /\ a = d * (a \div d) + (a % d) /\ a \div d \in Nat
      /\ b = d * (b \div d) + (b % d) /\ b \div d \in Nat
  BY Divide
<1> DEFINE k == (b \div d) - (a \div d)
<1>2. b - a = d * k /\ k \in Int
  BY <1>1
<1> HIDE DEF k
<1>3. k >= 1
  BY <1>2, Multiples
<1>4. d * k >= d
  BY <1>2, <1>3, Multiples
<1>5. QED
  BY <1>2, <1>4

LEMMA NextRemainder ==
  ASSUME NEW a \in Nat, NEW d \in Nat \ {0}
  PROVE  (a + d) % d = a % d
<1>1. a + d \in Nat
  OBVIOUS
<1>2. /\ a = d * (a \div d) + (a % d) /\ a % d \in 0..(d - 1) /\ a \div d \in Nat
      /\ a + d = d * ((a + d) \div d) + ((a + d) % d)
      /\ (a + d) % d \in 0..(d - 1) /\ (a + d) \div d \in Nat
  BY <1>1, Divide
<1> DEFINE k == ((a + d) \div d) - (a \div d) - 1
<1>3. k \in Int /\ (a % d) - ((a + d) % d) = d * k
  BY <1>2
<1> HIDE DEF k
<1>4. k = 0
  BY <1>2, <1>3, Multiples
<1>5. QED
  BY <1>2, <1>3, <1>4, Multiples

\* Steps less than DS_MAX_VERSION apart have locks of different names.
LEMMA NamesOfSteps ==
  /\ DS_MAX_VERSION \in Nat \ {0}
  /\ \A t \in Nat : LockName(t) \in Names /\ LockName(t + DS_MAX_VERSION) = LockName(t)
  /\ \A t, u \in Nat : t < u /\ u < t + DS_MAX_VERSION => LockName(t) # LockName(u)
<1>1. DS_MAX_VERSION \in Nat \ {0} /\ nstop \in Nat
  BY LockAssumption
<1>2. \A t \in Nat : LockName(t) \in Names
  BY <1>1, Divide DEF LockName, Names
<1>3. \A t \in Nat : LockName(t + DS_MAX_VERSION) = LockName(t)
  BY <1>1, NextRemainder DEF LockName
<1>4. ASSUME NEW t \in Nat, NEW u \in Nat, t < u, u < t + DS_MAX_VERSION
      PROVE  LockName(t) # LockName(u)
  <2>1. t % DS_MAX_VERSION = u % DS_MAX_VERSION => t + DS_MAX_VERSION <= u
    BY <1>1, <1>4, SameRemainder
  <2>2. QED
    BY <1>1, <1>4, <2>1 DEF LockName
<1>5. QED
  BY <1>1, <1>2, <1>3, <1>4

\* While the producer holds a lock, no step that is still to be read has it.
LEMMA HeldApart ==
  ASSUME LockInv, HoldsForWriting, ~flush_failed,
         NEW t \in 0..(nstop - 1), get_step <= t, t < put_step, t < failed_at
  PROVE  /\ LockName(t) # PutLock
         /\ put_step + flushed < t + DS_MAX_VERSION
<1>1. /\ put_step \in Nat /\ flushed \in Nat /\ t \in Nat /\ DS_MAX_VERSION \in Nat
      /\ lock[PutLock] = "writing"
      /\ lock[LockName(t)] \in {"to_read", "reading"}
      /\ put_step + flushed <= t + DS_MAX_VERSION
  BY LockAssumption DEF LockInv, LockTypeOK, PutPlace, UnreadInv
<1>2. LockName(t) # PutLock
  BY <1>1
<1>3. put_step + flushed # t + DS_MAX_VERSION
  BY <1>1, <1>2, NamesOfSteps DEF PutLock
<1>4. QED
  BY <1>1, <1>2, <1>3

-----------------------------------------------------------------------------
(* The steps preserve the invariant.                                        *)

LEMMA LockInitInv == LockInit => LockInv
<1> SUFFICES ASSUME LockInit PROVE LockInv
  OBVIOUS
<1> USE LockAssumption DEF LockInit
<1>1. LockTypeOK
  <2>1. /\ put_step \in 0..nstop /\ flushed \in 0..DS_MAX_VERSION /\ failed_at \in 0..nstop
        /\ get_step \in 0..nstop
    OBVIOUS
  <2>2. lock \in [Names -> {"to_write", "writing", "to_read", "reading"}]
    OBVIOUS
  <2>3. QED
    BY <2>1, <2>2 DEF LockTypeOK
<1>2. PutPlace /\ GetPlace
  BY DEF PutPlace, GetPlace, HoldsForWriting, HoldsForReading
<1>3. StoreInv /\ UnreadInv
  BY DEF StoreInv, UnreadInv
<1>4. FreeInv
  <2>1. \A t \in put_step..(get_step + DS_MAX_VERSION - 1) : LockName(t) \in Names
    BY NamesOfSteps
  <2>2. QED
    BY <2>1 DEF FreeInv, HoldsForWriting
<1>5. QED
  BY <1>1, <1>2, <1>3, <1>4 DEF LockInv

\* What an action may assume.
LEMMA Now ==
  ASSUME LockInv
  PROVE  /\ put_step \in 0..nstop /\ get_step \in 0..nstop /\ failed_at \in 0..nstop
         /\ flushed \in 0..DS_MAX_VERSION /\ nstop \in Nat /\ DS_MAX_VERSION \in Nat \ {0}
         /\ lock \in [Names -> {"to_write", "writing", "to_read", "reading"}]
         /\ store \subseteq 0..(nstop - 1)
         /\ LockName(put_step) \in Names /\ LockName(get_step) \in Names /\ PutLock \in Names
         /\ \A t \in 0..(nstop - 1) : LockName(t) \in Names
         /\ flushed = 0 => PutLock = LockName(put_step)
<1>1. /\ put_step \in 0..nstop /\ get_step \in 0..nstop /\ failed_at \in 0..nstop
      /\ flushed \in 0..DS_MAX_VERSION /\ nstop \in Nat /\ DS_MAX_VERSION \in Nat \ {0}
      /\ lock \in [Names -> {"to_write", "writing", "to_read", "reading"}]
      /\ store \subseteq 0..(nstop - 1)
  BY LockAssumption DEF LockInv, LockTypeOK
<1>2. put_step + flushed \in Nat /\ put_step \in Nat /\ get_step \in Nat
      /\ (flushed = 0 => put_step + flushed = put_step)
  BY <1>1
<1>3. QED
  BY <1>1, <1>2, NamesOfSteps DEF PutLock

LEMMA LockOnWriteInv ==
  ASSUME LockInv, LockOnWrite
  PROVE  LockInv'
<1> USE DEF LockInv, LockOnWrite, Pass, putVars, getVars
<1>1. /\ put_step < nstop /\ flushed = 0 /\ ~flush_failed
      /\ lock[LockName(put_step)] = "to_write"
      /\ lock' = [lock EXCEPT ![LockName(put_step)] = "writing"]
      /\ PutLock = LockName(put_step) /\ PutLock' = PutLock
  BY Now DEF PutPlace, PutLock
<1>2. LockTypeOK'
  BY Now DEF LockTypeOK
<1>3. PutPlace'
  BY <1>1, Now DEF PutPlace, HoldsForWriting
<1>4. GetPlace'
  BY <1>1, Now DEF GetPlace, HoldsForReading
<1>5. StoreInv'
  BY DEF StoreInv
<1>6. UnreadInv'
  BY <1>1, Now DEF UnreadInv, HoldsForReading
<1>7. FreeInv'
  <2>1. ASSUME NEW t \in put_step..(get_step + DS_MAX_VERSION - 1), t # put_step
        PROVE  LockName(t) # LockName(put_step) /\ LockName(t) \in Names
    BY <2>1, Now, NamesOfSteps DEF GetPlace
  <2>2. QED
    BY <1>1, <2>1, Now DEF FreeInv, HoldsForWriting
<1>8. QED
  BY <1>2, <1>3, <1>4, <1>5, <1>6, <1>7

LEMMA PutSyncGroupInv ==
  ASSUME LockInv, PutSyncGroup
  PROVE  LockInv'
<1> USE DEF LockInv, PutSyncGroup, getVars
<1>1. /\ put_step < nstop /\ flushed = 0 /\ ~flush_failed /\ HoldsForWriting
      /\ PutLock = LockName(put_step) /\ PutLock' = PutLock
      /\ store' = {v \in store : LockName(v) # PutLock}
  BY Now DEF PutPlace, PutLock, HoldsForWriting, Unsynced
<1>2. LockTypeOK'
  BY <1>1 DEF LockTypeOK
<1>3. PutPlace'
  BY <1>1 DEF PutPlace, HoldsForWriting
<1>4. GetPlace'
  BY DEF GetPlace, HoldsForReading
<1>5. StoreInv'
  BY <1>1 DEF StoreInv
<1>6. UnreadInv'
  BY <1>1, HeldApart DEF UnreadInv, HoldsForReading
<1>7. FreeInv'
  BY DEF FreeInv, HoldsForWriting
<1>8. QED
  BY <1>2, <1>3, <1>4, <1>5, <1>6, <1>7

\* The lock stays taken, and no later step with its name can be put.
LEMMA PutSyncFailsInv ==
  ASSUME LockInv, PutSyncFails
  PROVE  LockInv'
<1> USE DEF LockInv, PutSyncFails, AfterPut, PutFailed, getVars
<1>1. /\ put_step < nstop /\ flushed = 0 /\ ~flush_failed /\ HoldsForWriting /\ dimes
      /\ PutLock = LockName(put_step)
      /\ {v \in store : LockName(v) # PutLock} \subseteq store' /\ store' \subseteq store
      /\ put_step' = put_step + 1
      /\ failed_at' \in 0..put_step /\ (failed_at < nstop => failed_at' = failed_at)
      /\ (failed_at = nstop => failed_at' = put_step)
  BY Now DEF PutPlace, PutLock, HoldsForWriting, Unsynced
<1>2. LockTypeOK'
  BY <1>1, Now DEF LockTypeOK
<1>3. PutPlace'
  <2>1. /\ UNCHANGED <<dimes, flushed, flush_failed>> /\ put_step \in 0..nstop
        /\ put_pc' = IF put_step + 1 < nstop THEN "lock" ELSE "flush_lock"
        /\ DS_MAX_VERSION > 0
    BY <1>1, Now
  <2> HIDE DEF PutSyncFails, LockInv
  <2>2. QED
    BY <1>1, <2>1, Now DEF PutPlace, HoldsForWriting
<1>4. GetPlace'
  BY <1>1, Now DEF GetPlace, HoldsForReading
<1>5. StoreInv'
  BY <1>1, Now DEF StoreInv, PutPlace
<1>6. UnreadInv'
  <2>1. ASSUME NEW t \in 0..(nstop - 1), get_step <= t, t < put_step', t < failed_at'
        PROVE  t < put_step /\ t < failed_at /\ LockName(t) # PutLock
               /\ put_step' + flushed <= t + DS_MAX_VERSION
    <3>1. t < put_step /\ t < failed_at
      BY <1>1, <2>1, Now
    <3>2. LockName(t) # PutLock /\ put_step + flushed < t + DS_MAX_VERSION
      BY <1>1, <2>1, <3>1, HeldApart
    <3>3. QED
      BY <1>1, <3>1, <3>2, Now
  <2>2. QED
    BY <1>1, <2>1 DEF UnreadInv, HoldsForReading
<1>7. FreeInv'
  BY <1>1 DEF FreeInv
<1>8. QED
  BY <1>2, <1>3, <1>4, <1>5, <1>6, <1>7

LEMMA PutInv ==
  ASSUME LockInv, Put
  PROVE  LockInv'
<1> USE DEF LockInv, Put, getVars
<1>1. /\ put_step < nstop /\ flushed = 0 /\ ~flush_failed /\ HoldsForWriting
      /\ PutLock = LockName(put_step) /\ PutLock' = PutLock
      /\ store' = (IF dimes THEN store ELSE Kept(put_step)) \cup {put_step}
      /\ Kept(put_step) \subseteq store
      /\ failed_at # put_step
  BY Now DEF PutPlace, PutLock, HoldsForWriting, Kept
<1>2. LockTypeOK'
  <2>1. put_step \in 0..(nstop - 1)
    BY <1>1, Now
  <2>2. store' \subseteq 0..(nstop - 1)
    BY <1>1, <2>1, Now
  <2>3. QED
    BY <2>2 DEF LockTypeOK
<1>3. PutPlace'
  BY <1>1 DEF PutPlace, HoldsForWriting
<1>4. GetPlace'
  BY DEF GetPlace, HoldsForReading
<1>5. StoreInv'
  BY <1>1 DEF StoreInv
<1>6. UnreadInv'
  <2>1. ASSUME NEW t \in 0..(nstop - 1), get_step <= t, t < put_step, t < failed_at, t \in store
        PROVE  t \in Kept(put_step)
    <3>1. put_step < t + DS_MAX_VERSION
      BY <1>1, <2>1, HeldApart, Now
    <3>2. max_versions \in Nat \ {0} /\ max_versions >= DS_MAX_VERSION
      BY LockAssumption
    <3>3. t % max_versions = put_step % max_versions => t + max_versions <= put_step
      BY <2>1, <3>2, SameRemainder, Now
    <3>4. QED
      BY <2>1, <3>1, <3>2, <3>3, Now DEF Kept
  <2>2. QED
    BY <1>1, <2>1 DEF UnreadInv, HoldsForReading
<1>7. FreeInv'
  BY DEF FreeInv, HoldsForWriting
<1>8. QED
  BY <1>2, <1>3, <1>4, <1>5, <1>6, <1>7

LEMMA PutFailsInv ==
  ASSUME LockInv, PutFails
  PROVE  LockInv'
<1> USE DEF LockInv, PutFails, PutFailed, getVars
<1>1. /\ put_step < nstop /\ flushed = 0 /\ ~flush_failed /\ HoldsForWriting
      /\ PutLock' = PutLock
      /\ failed_at' \in 0..put_step /\ (failed_at < nstop => failed_at' = failed_at)
      /\ (failed_at = nstop => failed_at' = put_step)
  BY Now DEF PutPlace, PutLock, HoldsForWriting
<1>2. LockTypeOK'
  BY <1>1, Now DEF LockTypeOK
<1>3. PutPlace'
  BY <1>1, Now DEF PutPlace, HoldsForWriting
<1>4. GetPlace'
  BY <1>1, Now DEF GetPlace, HoldsForReading
<1>5. StoreInv'
  BY <1>1, Now DEF StoreInv, PutPlace
<1>6. UnreadInv'
  <2>1. \A t \in Int : t < failed_at' => t < failed_at
    BY <1>1, Now
  <2>2. QED
    BY <2>1 DEF UnreadInv, HoldsForReading
<1>7. FreeInv'
  BY <1>1 DEF FreeInv
<1>8. QED
  BY <1>2, <1>3, <1>4, <1>5, <1>6, <1>7

LEMMA UnlockOnWriteInv ==
  ASSUME LockInv, UnlockOnWrite
  PROVE  LockInv'
<1> USE DEF LockInv, UnlockOnWrite, Pass, AfterPut, getVars
<1>1. /\ put_step < nstop /\ flushed = 0 /\ ~flush_failed /\ HoldsForWriting
      /\ PutLock = LockName(put_step)
      /\ lock[PutLock] = "writing"
      /\ lock' = [lock EXCEPT ![PutLock] = "to_read"]
      /\ put_step' = put_step + 1
      /\ failed_at = nstop => put_step \in store
      /\ failed_at < nstop => failed_at <= put_step
  BY Now DEF PutPlace, PutLock, HoldsForWriting
<1>2. LockTypeOK'
  BY <1>1, Now DEF LockTypeOK
<1>3. PutPlace'
  <2>1. /\ UNCHANGED <<dimes, flushed, flush_failed, failed_at>> /\ put_step \in 0..nstop
        /\ put_pc' = IF put_step + 1 < nstop THEN "lock" ELSE IF dimes THEN "flush_lock" ELSE "done"
        /\ DS_MAX_VERSION > 0
    BY <1>1, Now
  <2> HIDE DEF UnlockOnWrite, LockInv
  <2>2. QED
    BY <1>1, <2>1, Now DEF PutPlace, HoldsForWriting
<1>4. GetPlace'
  <2>1. HoldsForReading => LockName(get_step) # PutLock
    BY <1>1 DEF GetPlace
  <2>2. QED
    BY <1>1, <2>1, Now DEF GetPlace, HoldsForReading
<1>5. StoreInv'
  BY <1>1, Now DEF StoreInv
<1>6. UnreadInv'
  <2>1. ASSUME NEW t \in 0..(nstop - 1), get_step <= t, t < put_step', t < failed_at, t # put_step
        PROVE  t < put_step /\ LockName(t) # PutLock
               /\ put_step' + flushed <= t + DS_MAX_VERSION
    <3>1. t < put_step
      BY <1>1, <2>1, Now
    <3>2. LockName(t) # PutLock /\ put_step + flushed < t + DS_MAX_VERSION
      BY <1>1, <2>1, <3>1, HeldApart
    <3>3. QED
      BY <1>1, <3>1, <3>2, Now
  <2>2. ~(put_step = get_step /\ HoldsForReading)
    BY <1>1 DEF GetPlace
  <2>3. put_step' + flushed <= put_step + DS_MAX_VERSION
    BY <1>1, Now
  <2>4. put_step < failed_at => put_step \in store
    BY <1>1, Now
  <2>5. \A t \in 0..(nstop - 1) : LockName(t) \in Names
    BY Now
  <2>6. UNCHANGED <<get_step, get_pc, failed_at, flush_failed, flushed, store>>
    OBVIOUS
  <2> HIDE DEF UnlockOnWrite, LockInv
  <2>7. UnreadInv
    BY DEF LockInv
  <2>8. ASSUME NEW t \in 0..(nstop - 1), get_step <= t, t < put_step', t < failed_at
        PROVE  /\ lock'[LockName(t)] = IF t = get_step /\ HoldsForReading THEN "reading" ELSE "to_read"
               /\ put_step' + flushed <= t + DS_MAX_VERSION
               /\ t \in store \/ (t = get_step /\ get_pc = "unlock")
    <3>1. CASE t = put_step
      BY <1>1, <2>2, <2>3, <2>4, <2>8, <3>1, Now
    <3>2. CASE t # put_step
      BY <1>1, <2>1, <2>5, <2>7, <2>8, <3>2, Now DEF UnreadInv
    <3>3. QED
      BY <3>1, <3>2
  <2>9. QED
    BY <2>6, <2>8 DEF UnreadInv, HoldsForReading
<1>7. FreeInv'
  <2>1. ASSUME NEW t \in put_step'..(get_step + DS_MAX_VERSION - 1), failed_at = nstop
        PROVE  lock'[LockName(t)] = "to_write" \/ (t = put_step' /\ FALSE)
    <3>1. t \in put_step..(get_step + DS_MAX_VERSION - 1) /\ t # put_step
          /\ LockName(t) \in Names /\ LockName(t) # LockName(put_step)
      BY <1>1, <2>1, Now, NamesOfSteps DEF GetPlace
    <3>2. lock[LockName(t)] = "to_write"
      BY <1>1, <2>1, <3>1 DEF FreeInv
    <3>3. QED
      BY <1>1, <3>1, <3>2, Now
  <2>2. put_step' < nstop => put_pc' = "lock"
    BY <1>1
  <2>3. QED
    BY <2>1, <2>2 DEF FreeInv, HoldsForWriting
<1>8. QED
  BY <1>2, <1>3, <1>4, <1>5, <1>6, <1>7

LEMMA FlushLockInv ==
  ASSUME LockInv, FlushLock
  PROVE  LockInv'
<1> USE DEF LockInv, FlushLock, Pass, getVars
<1>1. /\ put_step = nstop /\ ~flush_failed /\ dimes /\ flushed < DS_MAX_VERSION
      /\ FlushName = PutLock /\ PutLock' = PutLock
      /\ lock[PutLock] = "to_write"
      /\ lock' = [lock EXCEPT ![PutLock] = "writing"]
  BY Now DEF PutPlace, PutLock, FlushName
<1>2. LockTypeOK'
  BY <1>1, Now DEF LockTypeOK
<1>3. PutPlace'
  BY <1>1, Now DEF PutPlace, HoldsForWriting
<1>4. GetPlace'
  BY <1>1, Now DEF GetPlace, HoldsForReading
<1>5. StoreInv'
  BY DEF StoreInv
<1>6. UnreadInv'
  BY <1>1, Now DEF UnreadInv, HoldsForReading
<1>7. FreeInv'
  BY <1>1, Now DEF FreeInv
<1>8. QED
  BY <1>2, <1>3, <1>4, <1>5, <1>6, <1>7

LEMMA FlushSyncInv ==
  ASSUME LockInv, FlushSync
  PROVE  LockInv'
<1> USE DEF LockInv, FlushSync, getVars
<1>1. /\ put_step = nstop /\ ~flush_failed /\ dimes /\ HoldsForWriting
      /\ FlushName = PutLock /\ PutLock' = PutLock
      /\ store' = {v \in store : LockName(v) # PutLock}
  BY Now DEF PutPlace, PutLock, FlushName, HoldsForWriting, Unsynced
<1>2. LockTypeOK'
  BY <1>1 DEF LockTypeOK
<1>3. PutPlace'
  BY <1>1 DEF PutPlace, HoldsForWriting
<1>4. GetPlace'
  BY DEF GetPlace, HoldsForReading
<1>5. StoreInv'
  BY <1>1 DEF StoreInv
<1>6. UnreadInv'
  BY <1>1, HeldApart DEF UnreadInv, HoldsForReading
<1>7. FreeInv'
  BY <1>1 DEF FreeInv
<1>8. QED
  BY <1>2, <1>3, <1>4, <1>5, <1>6, <1>7

LEMMA FlushFailsInv ==
  ASSUME LockInv, FlushFails
  PROVE  LockInv'
<1> USE DEF LockInv, FlushFails, StoreAfterEnd, getVars
<1>1. put_step = nstop /\ dimes /\ flush_failed' /\ put_pc' = "done" /\ store' = {}
  BY DEF PutPlace
<1>2. LockTypeOK'
  BY <1>1 DEF LockTypeOK
<1>3. PutPlace'
  BY <1>1, Now DEF PutPlace, HoldsForWriting
<1>4. GetPlace'
  BY <1>1 DEF GetPlace, HoldsForReading
<1>5. StoreInv'
  BY <1>1 DEF StoreInv
<1>6. UnreadInv' /\ FreeInv'
  BY <1>1 DEF UnreadInv, FreeInv
<1>7. QED
  BY <1>2, <1>3, <1>4, <1>5, <1>6

\* When every lock has been flushed, every step has been read.
LEMMA FlushUnlockInv ==
  ASSUME LockInv, FlushUnlock
  PROVE  LockInv'
<1> USE DEF LockInv, FlushUnlock, Pass, StoreAfterEnd, getVars
<1>1. /\ put_step = nstop /\ ~flush_failed /\ dimes /\ HoldsForWriting
      /\ flushed < DS_MAX_VERSION /\ flushed' = flushed + 1
      /\ FlushName = PutLock
      /\ lock[PutLock] = "writing"
      /\ lock' = [lock EXCEPT ![PutLock] = "to_read"]
      /\ \/ flushed' < DS_MAX_VERSION /\ put_pc' = "flush_lock" /\ store' = store
         \/ flushed' = DS_MAX_VERSION /\ put_pc' = "done" /\ store' = {}
  BY Now DEF PutPlace, PutLock, FlushName, HoldsForWriting
<1>2. LockTypeOK'
  <2>1. flushed' \in 0..DS_MAX_VERSION
    BY <1>1, Now
  <2>2. lock' \in [Names -> {"to_write", "writing", "to_read", "reading"}]
    BY <1>1, Now
  <2>3. store' \subseteq 0..(nstop - 1) /\ put_pc' \in {"flush_lock", "done"}
    BY <1>1, Now
  <2>4. QED
    BY <2>1, <2>2, <2>3 DEF LockTypeOK
<1>3. PutPlace'
  BY <1>1, Now DEF PutPlace, HoldsForWriting
<1>4. GetPlace'
  <2>1. HoldsForReading => LockName(get_step) # PutLock
    BY <1>1 DEF GetPlace
  <2>2. QED
    BY <1>1, <2>1, Now DEF GetPlace, HoldsForReading
<1>5. StoreInv'
  BY <1>1, Now DEF StoreInv
<1>6. UnreadInv'
  <2>1. ASSUME NEW t \in 0..(nstop - 1), get_step <= t, t < put_step, t < failed_at
        PROVE  LockName(t) # PutLock /\ put_step + flushed' <= t + DS_MAX_VERSION
               /\ flushed' < DS_MAX_VERSION
    <3>1. LockName(t) # PutLock /\ put_step + flushed < t + DS_MAX_VERSION
      BY <1>1, <2>1, HeldApart
    <3>2. QED
      BY <1>1, <2>1, <3>1, Now
  <2>2. UNCHANGED <<get_step, get_pc, failed_at, flush_failed, put_step>>
    OBVIOUS
  <2> HIDE DEF FlushUnlock
  <2>3. QED
    BY <1>1, <2>1, <2>2, Now DEF UnreadInv, HoldsForReading
<1>7. FreeInv'
  BY <1>1 DEF FreeInv
<1>8. QED
  BY <1>2, <1>3, <1>4, <1>5, <1>6, <1>7

\* The reader waits only for a step that was put or is being put.
LEMMA ReaderBehind ==
  ASSUME LockInv, HoldsForReading, ~flush_failed, get_step < failed_at
  PROVE  get_step < put_step /\ (get_pc = "get" => get_step \in store)
<1> USE DEF LockInv
<1>1. get_step < put_step
  <2>1. CASE put_step < nstop /\ failed_at = nstop
    <3>1. get_step = put_step => lock[LockName(get_step)] # "reading"
      BY <2>1, Now DEF FreeInv
    <3>2. QED
      BY <3>1, Now DEF GetPlace
  <2>2. CASE put_step = nstop \/ failed_at < nstop
    BY <2>2, Now DEF GetPlace, PutPlace, HoldsForReading
  <2>3. QED
    BY <2>1, <2>2, Now
<1>2. get_pc = "get" => get_step \in store
  BY <1>1, Now DEF UnreadInv, GetPlace, HoldsForReading
<1>3. QED
  BY <1>1, <1>2

LEMMA LockOnReadInv ==
  ASSUME LockInv, LockOnRead
  PROVE  LockInv'
<1> USE DEF LockInv, LockOnRead, Pass, putVars
<1>1. /\ get_step < nstop /\ ~HoldsForReading /\ HoldsForReading'
      /\ lock[LockName(get_step)] = "to_read"
      /\ lock' = [lock EXCEPT ![LockName(get_step)] = "reading"]
      /\ PutLock' = PutLock
  BY DEF GetPlace, HoldsForReading, PutLock
<1>2. LockTypeOK'
  BY <1>1, Now DEF LockTypeOK
<1>3. PutPlace'
  BY <1>1, Now DEF PutPlace, HoldsForWriting
<1>4. GetPlace'
  BY <1>1, Now DEF GetPlace, HoldsForReading
<1>5. StoreInv'
  BY DEF StoreInv
<1>6. UnreadInv'
  <2>1. ASSUME NEW t \in 0..(nstop - 1), get_step <= t, t < put_step, t # get_step, ~flush_failed,
               t < failed_at
        PROVE  LockName(t) # LockName(get_step)
    <3>1. put_step + flushed <= get_step + DS_MAX_VERSION
      BY <1>1, <2>1, Now DEF UnreadInv
    <3>2. t \in Nat /\ get_step \in Nat /\ get_step < t /\ t < get_step + DS_MAX_VERSION
      BY <2>1, <3>1, Now
    <3>3. QED
      BY <3>2, NamesOfSteps
  <2>2. QED
    BY <1>1, <2>1, Now DEF UnreadInv
<1>7. FreeInv'
  <2>1. ASSUME NEW t \in put_step..(get_step + DS_MAX_VERSION - 1), put_step < nstop, failed_at = nstop
        PROVE  LockName(t) # LockName(get_step)
    <3>1. t = get_step => lock[LockName(t)] # "to_read"
      BY <2>1 DEF FreeInv
    <3>2. t # get_step
      BY <1>1, <3>1
    <3>3. t \in Nat /\ get_step \in Nat /\ get_step < t /\ t < get_step + DS_MAX_VERSION
      BY <2>1, <3>2, Now DEF GetPlace
    <3>4. QED
      BY <3>3, NamesOfSteps
  <2>2. \A t \in put_step..(get_step + DS_MAX_VERSION - 1) : LockName(t) \in Names
    BY Now, NamesOfSteps
  <2>3. QED
    BY <1>1, <2>1, <2>2, Now DEF FreeInv, HoldsForWriting
<1>8. QED
  BY <1>2, <1>3, <1>4, <1>5, <1>6, <1>7

LEMMA GetInv ==
  ASSUME LockInv, Get
  PROVE  LockInv' /\ get_step < put_step /\ get_step < failed_at
<1> USE DEF LockInv, Get, putVars
<1>1. /\ get_step < put_step /\ get_step < failed_at /\ HoldsForReading /\ HoldsForReading'
      /\ PutLock' = PutLock
  <2>1. HoldsForReading /\ lock[LockName(get_step)] = "reading"
    BY DEF GetPlace, HoldsForReading
  <2>2. get_step = put_step => put_pc # "unlock"
    BY <2>1, Now DEF PutPlace, HoldsForWriting
  <2>3. QED
    BY <2>1, <2>2, Now DEF StoreInv, GetPlace, HoldsForReading, PutLock
<1>2. LockTypeOK' /\ PutPlace' /\ StoreInv' /\ FreeInv'
  BY <1>1 DEF LockTypeOK, PutPlace, StoreInv, FreeInv, HoldsForWriting
<1>3. GetPlace'
  BY <1>1 DEF GetPlace
<1>4. UnreadInv'
  BY <1>1 DEF UnreadInv
<1>5. QED
  BY <1>1, <1>2, <1>3, <1>4

LEMMA GetFailsInv ==
  ASSUME LockInv, GetFails
  PROVE  LockInv'
<1> USE DEF LockInv, GetFails, Pass, putVars
<1>1. /\ HoldsForReading /\ ~HoldsForReading'
      /\ lock[LockName(get_step)] = "reading"
      /\ lock' = [lock EXCEPT ![LockName(get_step)] = "to_write"]
      /\ PutLock' = PutLock
      /\ get_step < nstop
  BY DEF GetPlace, HoldsForReading, PutLock
<1>2. ~flush_failed => get_step = failed_at
  BY <1>1, ReaderBehind, Now DEF GetPlace
<1>3. LockTypeOK'
  BY <1>1, Now DEF LockTypeOK
<1>4. PutPlace'
  BY <1>1, Now DEF PutPlace, HoldsForWriting
<1>5. GetPlace'
  BY <1>1, <1>2 DEF GetPlace
<1>6. StoreInv'
  BY DEF StoreInv
<1>7. UnreadInv' /\ FreeInv'
  BY <1>1, <1>2, Now DEF UnreadInv, FreeInv, PutPlace
<1>8. QED
  BY <1>3, <1>4, <1>5, <1>6, <1>7

LEMMA UnlockOnReadInv ==
  ASSUME LockInv, UnlockOnRead
  PROVE  LockInv' /\ get_step < put_step /\ get_step < failed_at
<1> USE DEF LockInv, UnlockOnRead, Pass, putVars
<1>1. /\ HoldsForReading /\ ~HoldsForReading'
      /\ lock[LockName(get_step)] = "reading"
      /\ lock' = [lock EXCEPT ![LockName(get_step)] = "to_write"]
      /\ PutLock' = PutLock
      /\ get_step < nstop /\ get_step < put_step /\ get_step < failed_at
      /\ get_step' = get_step + 1
      /\ get_pc' = IF get_step + 1 < nstop THEN "lock" ELSE "done"
  BY DEF GetPlace, HoldsForReading, PutLock
<1>2. LockTypeOK'
  BY <1>1, Now DEF LockTypeOK
<1>3. PutPlace'
  BY <1>1, Now DEF PutPlace, HoldsForWriting
<1>4. GetPlace'
  BY <1>1, Now DEF GetPlace, HoldsForReading
<1>5. StoreInv'
  BY DEF StoreInv
<1>6. UnreadInv'
  <2>1. ASSUME NEW t \in 0..(nstop - 1), get_step + 1 <= t, t < put_step, ~flush_failed,
               t < failed_at
        PROVE  LockName(t) # LockName(get_step) /\ get_step <= t /\ t # get_step
    <3>1. put_step + flushed <= get_step + DS_MAX_VERSION
      BY <1>1, <2>1, Now DEF UnreadInv
    <3>2. t \in Nat /\ get_step \in Nat /\ get_step < t /\ t < get_step + DS_MAX_VERSION
      BY <2>1, <3>1, Now
    <3>3. QED
      BY <3>2, NamesOfSteps
  <2>2. UNCHANGED <<flush_failed, put_step, failed_at, flushed, store>>
    OBVIOUS
  <2>3. UnreadInv
    OBVIOUS
  <2>4. ASSUME NEW t \in 0..(nstop - 1), get_step' <= t, t < put_step, ~flush_failed, t < failed_at
        PROVE  /\ lock'[LockName(t)] = "to_read"
               /\ put_step + flushed <= t + DS_MAX_VERSION
               /\ t \in store
    BY <1>1, <2>1, <2>3, <2>4, Now DEF UnreadInv
  <2> HIDE DEF UnlockOnRead, LockInv
  <2>5. QED
    BY <1>1, <2>2, <2>4 DEF UnreadInv
<1>7. FreeInv'
  <2>1. ASSUME NEW t \in put_step..(get_step + DS_MAX_VERSION - 1)
        PROVE  LockName(t) # LockName(get_step)
    <3>1. t \in Nat /\ get_step \in Nat /\ get_step < t /\ t < get_step + DS_MAX_VERSION
      BY <1>1, Now
    <3>2. QED
      BY <3>1, NamesOfSteps
  <2>2. \A t \in put_step..(get_step + DS_MAX_VERSION) : LockName(t) \in Names
    BY Now, NamesOfSteps
  <2>3. /\ LockName(get_step + DS_MAX_VERSION) = LockName(get_step)
        /\ \A t \in put_step..(get_step' + DS_MAX_VERSION - 1) :
             t \in put_step..(get_step + DS_MAX_VERSION - 1) \/ t = get_step + DS_MAX_VERSION
    BY <1>1, Now, NamesOfSteps, SMTT(30)
  <2>4. ~(get_step + DS_MAX_VERSION = put_step /\ HoldsForWriting /\ put_step < nstop)
    <3>1. ASSUME HoldsForWriting, put_step < nstop
          PROVE  put_step < get_step + DS_MAX_VERSION
      BY <1>1, <3>1, HeldApart, Now DEF PutPlace
    <3>2. QED
      BY <3>1, Now
  <2>5. UNCHANGED <<put_step, failed_at, put_pc>>
    OBVIOUS
  <2>6. FreeInv
    OBVIOUS
  <2> HIDE DEF UnlockOnRead, LockInv
  <2>7. ASSUME NEW t \in put_step..(get_step' + DS_MAX_VERSION - 1), put_step < nstop, failed_at = nstop
        PROVE  lock'[LockName(t)] = IF t = put_step /\ HoldsForWriting THEN "writing" ELSE "to_write"
    <3>1. CASE t \in put_step..(get_step + DS_MAX_VERSION - 1)
      BY <1>1, <2>1, <2>2, <2>6, <2>7, <3>1, Now DEF FreeInv
    <3>2. CASE t = get_step + DS_MAX_VERSION
      BY <1>1, <2>3, <2>4, <2>7, <3>2, Now
    <3>3. QED
      BY <2>3, <3>1, <3>2
  <2>8. QED
    BY <2>5, <2>7 DEF FreeInv, HoldsForWriting
<1>8. QED
  BY <1>1, <1>2, <1>3, <1>4, <1>5, <1>6, <1>7

-----------------------------------------------------------------------------
(* The theorems.                                                            *)

LEMMA LockStepInv == LockInv /\ [LockNext]_lockVars => LockInv'
<1> SUFFICES ASSUME LockInv, [LockNext]_lockVars PROVE LockInv'
  OBVIOUS
<1>1. CASE PutProcess
  BY <1>1, LockOnWriteInv, PutSyncGroupInv, PutSyncFailsInv, PutInv, PutFailsInv,
     UnlockOnWriteInv, FlushLockInv, FlushSyncInv, FlushFailsInv, FlushUnlockInv
     DEF PutProcess
<1>2. CASE GetProcess
  BY <1>2, LockOnReadInv, GetInv, GetFailsInv, UnlockOnReadInv DEF GetProcess
<1>3. CASE UNCHANGED lockVars
  BY <1>3 DEF lockVars, putVars, getVars, LockInv, LockTypeOK, PutPlace, GetPlace, StoreInv,
              UnreadInv, FreeInv, HoldsForWriting, HoldsForReading, PutLock
<1>4. QED
  BY <1>1, <1>2, <1>3 DEF LockNext

\* The locks keep a version from being put over or freed before it is read.
THEOREM LockInvariant == LockSpec => []LockInv
<1>1. QED
  BY LockInitInv, LockStepInv, PTL DEF LockSpec

\* A reader that holds the lock of a step finds its version, for any number of
\* locks and any server that keeps at least as many versions.
THEOREM VersionFound == LockSpec => []GetFinds
<1>1. LockInv => GetFinds
  BY ReaderBehind DEF GetFinds, HoldsForReading
<1>2. QED
  BY <1>1, LockInvariant, PTL

\* The version locks implement StepChannel up to the first step that failed,
\* whatever the staging library refuses.
THEOREM LockImplementation == LockSpec => ImplementsLockChannel
<1> DEFINE got == [r \in {"reader"} |-> get_step]
<1>1. LockInit => LockChannel!Init
  BY LockAssumption DEF LockInit, LockChannel!Init, LockedSteps
<1>2. LockInv /\ [LockNext]_lockVars => [LockChannel!Next]_(LockChannel!channelVars)
  <2> SUFFICES ASSUME LockInv, [LockNext]_lockVars
               PROVE  [LockChannel!Next]_(LockChannel!channelVars)
    OBVIOUS
  <2>1. CASE UNCHANGED lockVars
    BY <2>1 DEF LockChannel!channelVars, LockedSteps, lockVars, putVars, getVars
  <2>2. CASE PutProcess
    <3>1. got' = got
      BY <2>2 DEF PutProcess, LockOnWrite, PutSyncGroup, PutSyncFails, Put, PutFails, UnlockOnWrite,
                  FlushLock, FlushSync, FlushFails, FlushUnlock, getVars
    <3>2. CASE UNCHANGED LockedSteps
      BY <3>1, <3>2 DEF LockChannel!channelVars
    <3>3. CASE LockedSteps < nstop /\ LockedSteps' = LockedSteps + 1
      BY <3>1, <3>3 DEF LockChannel!Next, LockChannel!Publish
    <3>4. CASE LockOnWrite \/ PutSyncGroup \/ Put \/ FlushLock \/ FlushSync \/ FlushFails \/ FlushUnlock
      <4>1. UNCHANGED <<put_step, failed_at>>
        BY <3>4 DEF LockOnWrite, PutSyncGroup, Put, FlushLock, FlushSync, FlushFails, FlushUnlock
      <4>2. QED
        BY <3>2, <4>1 DEF LockedSteps
    <3>5. CASE PutSyncFails
      <4>1. /\ put_step < nstop /\ put_step' = put_step + 1
            /\ (failed_at < nstop => failed_at <= put_step)
            /\ failed_at' = IF failed_at = nstop THEN put_step ELSE failed_at
        BY <3>5 DEF PutSyncFails, AfterPut, PutFailed, LockInv, PutPlace
      <4>2. UNCHANGED LockedSteps
        BY <4>1, Now DEF LockedSteps
      <4>3. QED
        BY <3>2, <4>2
    <3>6. CASE PutFails
      <4>1. /\ put_step < nstop /\ put_step' = put_step
            /\ failed_at' = IF failed_at = nstop THEN put_step ELSE failed_at
        BY <3>6 DEF PutFails, PutFailed, LockInv, PutPlace
      <4>2. UNCHANGED LockedSteps
        BY <4>1, Now DEF LockedSteps
      <4>3. QED
        BY <3>2, <4>2
    <3>7. CASE UnlockOnWrite
      <4>1. /\ put_step < nstop /\ put_step' = put_step + 1 /\ failed_at' = failed_at
            /\ (failed_at < nstop => failed_at <= put_step)
        BY <3>7 DEF UnlockOnWrite, AfterPut, LockInv, PutPlace
      <4>2. UNCHANGED LockedSteps \/ (LockedSteps < nstop /\ LockedSteps' = LockedSteps + 1)
        BY <4>1, Now DEF LockedSteps
      <4>3. QED
        BY <3>2, <3>3, <4>2
    <3>8. QED
      BY <2>2, <3>4, <3>5, <3>6, <3>7 DEF PutProcess
  <2>3. CASE GetProcess
    <3>1. UNCHANGED LockedSteps
      BY <2>3 DEF GetProcess, LockOnRead, Get, GetFails, UnlockOnRead, putVars, LockedSteps
    <3>2. CASE LockOnRead \/ Get \/ GetFails
      <4>1. UNCHANGED get_step
        BY <3>2 DEF LockOnRead, Get, GetFails
      <4>2. QED
        BY <3>1, <4>1 DEF LockChannel!channelVars
    <3>3. CASE UnlockOnRead
      <4>1. get_step < LockedSteps
        BY <3>3, UnlockOnReadInv DEF LockedSteps
      <4>2. get_step' = get_step + 1
        BY <3>3 DEF UnlockOnRead
      <4>3. got' = [got EXCEPT !["reader"] = @ + 1]
        BY <4>2
      <4>4. LockChannel!Consume("reader")
        BY <3>1, <4>1, <4>3 DEF LockChannel!Consume
      <4>5. QED
        BY <4>4 DEF LockChannel!Next
    <3>4. QED
      BY <2>3, <3>2, <3>3 DEF GetProcess
  <2>4. QED
    BY <2>1, <2>2, <2>3 DEF LockNext
<1>3. QED
  BY <1>1, <1>2, LockInvariant, PTL DEF LockSpec, ImplementsLockChannel, LockChannel!Spec

-----------------------------------------------------------------------------
(* StepStream: the inductive invariant.                                     *)

\* The item a producer sends in place k, and the items it has sent so far.
Item(k) == IF k < out_step THEN k ELSE End
SentSteps == out_step + (IF out_pc = "done" THEN 1 ELSE 0)

\* The place of the next item the dataflow task forwards, as reader r sees it.
Reached(r) == last_read[r] + 1 + Len(stream[r])

\* What is on its way to a reader is what it has not read, in order, and the
\* end after it.
OnItsWay(r) ==
  /\ last_read[r] < out_step
  /\ Reached(r) + Len(dflow) = SentSteps
  /\ \A i \in 1..Len(stream[r]) : stream[r][i] = Item(last_read[r] + i)
  /\ \A i \in 1..Len(dflow) : dflow[i] = Item(last_read[r] + Len(stream[r]) + i)

InOrder ==
  /\ out_pc \in {"step", "put"} => out_step < stream_steps
  /\ ~Decaf => dflow = <<>>
  /\ \A r \in StreamReaders : OnItsWay(r)

\* Only where time-outs count too does a counter run ahead of the steps read,
\* by at most max_timeouts for each of them.
Ahead(r) == (last_read[r] + 1) * max_timeouts - max_timeouts + timeouts[r]

Count(r) ==
  /\ in_pc[r] = "read" => stream[r] # <<>> /\ Head(stream[r]) # End
  /\ in_pc[r] \in {"advance", "again"} => last_read[r] >= 0
  /\ in_pc[r] = "again" => program = "lammps_adios" /\ timeouts[r] > 0
  /\ program # "lammps_adios" => in_step[r] = last_read[r] + 1
  /\ last_read[r] = -1 => in_step[r] = 0 /\ timeouts[r] = 0
  /\ last_read[r] >= 0 =>
       in_step[r] + (IF in_pc[r] = "again" THEN 1 ELSE 0) <= last_read[r] + 1 + Ahead(r)

Counted == \A r \in StreamReaders : Count(r)

StreamInv == StreamTypeOK /\ InOrder /\ Counted

-----------------------------------------------------------------------------
(* Sequences.                                                               *)

LEMMA AppendOne ==
  ASSUME NEW S, NEW s \in Seq(S), NEW e \in S
  PROVE  /\ Append(s, e) \in Seq(S) /\ Append(s, e) # <<>>
         /\ Len(s) \in Nat /\ Len(Append(s, e)) = Len(s) + 1
         /\ \A i \in 1..Len(s) : Append(s, e)[i] = s[i]
         /\ Append(s, e)[Len(s) + 1] = e
         /\ s # <<>> => Head(Append(s, e)) = Head(s)
<1>1. /\ Append(s, e) \in Seq(S) /\ Len(s) \in Nat /\ Len(Append(s, e)) = Len(s) + 1
      /\ \A i \in 1..Len(s) : Append(s, e)[i] = s[i]
      /\ Append(s, e)[Len(s) + 1] = e
  OBVIOUS
<1>2. Append(s, e) # <<>>
  BY <1>1
<1>3. s # <<>> => Head(Append(s, e)) = Head(s)
  <2>1. s # <<>> => 1 \in 1..Len(s) /\ Head(s) = s[1]
    BY <1>1
  <2>2. Head(Append(s, e)) = Append(s, e)[1]
    BY <1>1, <1>2
  <2>3. QED
    BY <1>1, <2>1, <2>2
<1>4. QED
  BY <1>1, <1>2, <1>3

LEMMA TailOne ==
  ASSUME NEW S, NEW s \in Seq(S), s # <<>>
  PROVE  /\ Tail(s) \in Seq(S) /\ Len(s) \in Nat \ {0} /\ Len(Tail(s)) = Len(s) - 1
         /\ Head(s) = s[1] /\ Head(s) \in S
         /\ \A i \in 1..Len(Tail(s)) : Tail(s)[i] = s[i + 1]
OBVIOUS

-----------------------------------------------------------------------------
(* The steps preserve the invariant.                                        *)

Items == {End} \cup 0..(stream_steps - 1)

\* What an action may assume.
LEMMA StreamNow ==
  ASSUME StreamInv
  PROVE  /\ stream_steps \in Nat /\ max_timeouts \in Nat /\ queue_size \in Nat \ {0}
         /\ out_step \in 0..stream_steps /\ SentSteps \in Nat
         /\ dflow \in Seq(Items) /\ Len(dflow) \in Nat
         /\ stream \in [StreamReaders -> Seq(Items)]
         /\ in_pc \in [StreamReaders -> {"open", "read", "advance", "again", "done"}]
         /\ in_step \in [StreamReaders -> 0..(stream_steps * (max_timeouts + 1))]
         /\ last_read \in [StreamReaders -> -1..(stream_steps - 1)]
         /\ timeouts \in [StreamReaders -> 0..max_timeouts]
         /\ \A r \in StreamReaders :
              /\ stream[r] \in Seq(Items) /\ Len(stream[r]) \in Nat
              /\ last_read[r] \in -1..(stream_steps - 1) /\ last_read[r] < out_step
              /\ timeouts[r] \in 0..max_timeouts /\ in_step[r] \in Nat
              /\ Reached(r) \in Nat
<1>1. /\ stream_steps \in Nat /\ max_timeouts \in Nat /\ queue_size \in Nat \ {0}
      /\ out_step \in 0..stream_steps
      /\ dflow \in Seq(Items)
      /\ stream \in [StreamReaders -> Seq(Items)]
      /\ in_pc \in [StreamReaders -> {"open", "read", "advance", "again", "done"}]
      /\ in_step \in [StreamReaders -> 0..(stream_steps * (max_timeouts + 1))]
      /\ last_read \in [StreamReaders -> -1..(stream_steps - 1)]
      /\ timeouts \in [StreamReaders -> 0..max_timeouts]
  BY StreamAssumption DEF StreamInv, StreamTypeOK, Items
<1>2. SentSteps \in Nat /\ Len(dflow) \in Nat
  BY <1>1 DEF SentSteps
<1>3. ASSUME NEW r \in StreamReaders
      PROVE  /\ stream[r] \in Seq(Items) /\ Len(stream[r]) \in Nat
             /\ last_read[r] \in -1..(stream_steps - 1) /\ last_read[r] < out_step
             /\ timeouts[r] \in 0..max_timeouts /\ in_step[r] \in Nat
             /\ Reached(r) \in Nat
  <2>1. /\ stream[r] \in Seq(Items) /\ last_read[r] \in -1..(stream_steps - 1)
        /\ timeouts[r] \in 0..max_timeouts
        /\ in_step[r] \in 0..(stream_steps * (max_timeouts + 1))
    BY <1>1
  <2>2. Len(stream[r]) \in Nat
    BY <2>1
  <2>3. QED
    BY <2>1, <2>2 DEF Reached, StreamInv, InOrder, OnItsWay
<1>4. QED
  BY <1>1, <1>2, <1>3

\* The numbers of one reader among these facts.
LEMMA ReaderNow ==
  ASSUME StreamInv, NEW r \in StreamReaders
  PROVE  /\ stream_steps \in Nat /\ max_timeouts \in Nat
         /\ out_step \in Nat /\ out_step <= stream_steps
         /\ last_read[r] \in Int /\ -1 <= last_read[r]
         /\ last_read[r] < stream_steps /\ last_read[r] < out_step
         /\ timeouts[r] \in Nat /\ timeouts[r] <= max_timeouts /\ in_step[r] \in Nat
         /\ Len(stream[r]) \in Nat /\ Len(dflow) \in Nat
<1>1. /\ stream_steps \in Nat /\ max_timeouts \in Nat /\ out_step \in 0..stream_steps
      /\ last_read[r] \in -1..(stream_steps - 1) /\ last_read[r] < out_step
      /\ timeouts[r] \in 0..max_timeouts /\ in_step[r] \in Nat
      /\ Len(stream[r]) \in Nat /\ Len(dflow) \in Nat
  BY StreamNow
<1>2. QED
  BY <1>1

\* Arithmetic on the items of two queues one behind the other.
LEMMA Before ==
  ASSUME NEW l \in Int, NEW n \in Nat, NEW m \in Nat, NEW o \in Nat, l + 1 + n + m = o
  PROVE  /\ \A i \in 1..n : l + i < o
         /\ \A i \in 1..m : l + n + i < o
OBVIOUS

LEMMA StreamInitInv == StreamInit => StreamInv
<1> SUFFICES ASSUME StreamInit PROVE StreamInv
  OBVIOUS
<1> USE StreamAssumption DEF StreamInit
<1>1. StreamTypeOK
  <2>1. <<>> \in Seq(Items)
    OBVIOUS
  <2>2. 0 \in 0..(stream_steps * (max_timeouts + 1))
    <3>1. ASSUME NEW a \in Nat, NEW b \in Nat PROVE a * (b + 1) \in Nat
      OBVIOUS
    <3>2. QED
      BY <3>1
  <2>3. /\ in_step \in [StreamReaders -> 0..(stream_steps * (max_timeouts + 1))]
        /\ last_read \in [StreamReaders -> -1..(stream_steps - 1)]
        /\ timeouts \in [StreamReaders -> 0..max_timeouts]
        /\ in_pc \in [StreamReaders -> {"open", "read", "advance", "again", "done"}]
    BY <2>2
  <2>4. dflow \in Seq(Items) /\ stream \in [StreamReaders -> Seq(Items)]
    BY <2>1
  <2>5. out_pc \in {"step", "put", "close", "done"} /\ out_step \in 0..stream_steps
    OBVIOUS
  <2>6. QED
    BY <2>3, <2>4, <2>5 DEF StreamTypeOK, Items
<1>2. InOrder
  <2>1. ASSUME NEW r \in StreamReaders PROVE OnItsWay(r)
    <3>1. stream[r] = <<>> /\ last_read[r] = -1
      OBVIOUS
    <3>2. QED
      BY <3>1 DEF OnItsWay, Reached, SentSteps
  <2>2. QED
    BY <2>1 DEF InOrder
<1>3. Counted
  <2>1. ASSUME NEW r \in StreamReaders
        PROVE  in_pc[r] = "open" /\ last_read[r] = -1 /\ in_step[r] = 0 /\ timeouts[r] = 0
    BY <2>1
  <2>2. ASSUME NEW r \in StreamReaders PROVE Count(r)
    BY <2>1 DEF Count
  <2>3. QED
    BY <2>2 DEF Counted
<1>4. QED
  BY <1>1, <1>2, <1>3 DEF StreamInv

\* The producer or the dataflow task appends e, the next item, where it goes.
LEMMA SendOnInv ==
  ASSUME StreamInv, NEW e \in Items, SendOn(e), out_pc # "done", e = End \/ e = out_step
  PROVE  /\ dflow' \in Seq(Items) /\ stream' \in [StreamReaders -> Seq(Items)]
         /\ ~Decaf => dflow' = <<>>
         /\ \A r \in StreamReaders :
              /\ last_read[r] + 1 + Len(stream'[r]) + Len(dflow') = out_step + 1
              /\ \A i \in 1..Len(stream'[r]) :
                   stream'[r][i] = IF last_read[r] + i < out_step THEN last_read[r] + i ELSE e
              /\ \A i \in 1..Len(dflow') :
                   dflow'[i] = LET k == last_read[r] + Len(stream'[r]) + i
                               IN  IF k < out_step THEN k ELSE e
              /\ stream[r] # <<>> => stream'[r] # <<>> /\ Head(stream'[r]) = Head(stream[r])
<1> DEFINE S == Seq(Items)
<1>1. \A r \in StreamReaders :
        /\ last_read[r] + 1 + Len(stream[r]) + Len(dflow) = out_step
        /\ \A i \in 1..Len(stream[r]) :
             last_read[r] + i < out_step /\ stream[r][i] = last_read[r] + i
        /\ \A i \in 1..Len(dflow) :
             last_read[r] + Len(stream[r]) + i < out_step
             /\ dflow[i] = last_read[r] + Len(stream[r]) + i
  <2>1. ASSUME NEW r \in StreamReaders
        PROVE  /\ last_read[r] + 1 + Len(stream[r]) + Len(dflow) = out_step
               /\ \A i \in 1..Len(stream[r]) : stream[r][i] = Item(last_read[r] + i)
               /\ \A i \in 1..Len(dflow) : dflow[i] = Item(last_read[r] + Len(stream[r]) + i)
               /\ last_read[r] \in Int /\ Len(stream[r]) \in Nat /\ Len(dflow) \in Nat
               /\ out_step \in Nat
    <3>1. last_read[r] \in Int /\ Len(stream[r]) \in Nat /\ Len(dflow) \in Nat /\ out_step \in Nat
      BY StreamNow
    <3>2. OnItsWay(r) /\ SentSteps = out_step
      BY <3>1 DEF StreamInv, InOrder, SentSteps
    <3>3. QED
      BY <3>1, <3>2 DEF OnItsWay, Reached
  <2>2. ASSUME NEW r \in StreamReaders
        PROVE  /\ \A i \in 1..Len(stream[r]) : last_read[r] + i < out_step
               /\ \A i \in 1..Len(dflow) : last_read[r] + Len(stream[r]) + i < out_step
    <3>1. /\ last_read[r] + 1 + Len(stream[r]) + Len(dflow) = out_step
          /\ last_read[r] \in Int /\ Len(stream[r]) \in Nat /\ Len(dflow) \in Nat
          /\ out_step \in Nat
      BY <2>1
    <3>2. QED
      BY <3>1, Before
  <2>3. QED
    BY <2>1, <2>2 DEF Item
<1>2. CASE Decaf
  <2>1. dflow' = Append(dflow, e) /\ stream' = stream
    BY <1>2 DEF SendOn
  <2>2. /\ dflow' \in Seq(Items) /\ Len(dflow') = Len(dflow) + 1
        /\ \A i \in 1..Len(dflow) : dflow'[i] = dflow[i]
        /\ dflow'[Len(dflow) + 1] = e
    BY <2>1, AppendOne, StreamNow
  <2> HIDE DEF SendOn, Decaf
  <2>3. ASSUME NEW r \in StreamReaders, NEW i \in 1..Len(dflow')
        PROVE  dflow'[i] = LET k == last_read[r] + Len(stream'[r]) + i
                           IN  IF k < out_step THEN k ELSE e
    <3>1. CASE i \in 1..Len(dflow)
      BY <1>1, <2>1, <2>2, <3>1
    <3>2. CASE i = Len(dflow) + 1
      <4>1. last_read[r] + Len(stream[r]) + i = out_step /\ dflow'[i] = e
        <5>1. last_read[r] \in Int /\ Len(stream[r]) \in Nat /\ Len(dflow) \in Nat /\ out_step \in Nat
          BY StreamNow
        <5>2. last_read[r] + 1 + Len(stream[r]) + Len(dflow) = out_step
          BY <1>1
        <5> DEFINE n == Len(stream[r])
                   m == Len(dflow)
        <5>3. /\ last_read[r] \in Int /\ n \in Nat /\ m \in Nat /\ out_step \in Nat
              /\ last_read[r] + 1 + n + m = out_step /\ i = m + 1
          BY <3>2, <5>1, <5>2
        <5> HIDE DEF n, m
        <5>4. last_read[r] + n + i = out_step
          BY <5>3, SMTT(30)
        <5>5. QED
          BY <2>2, <3>2, <5>4 DEF n
      <4>2. last_read[r] + Len(stream'[r]) + i = out_step /\ ~(out_step < out_step)
        BY <2>1, <4>1, StreamNow
      <4>3. QED
        BY <4>1, <4>2
    <3>3. i \in 1..Len(dflow) \/ i = Len(dflow) + 1
      <4>1. Len(dflow') = Len(dflow) + 1 /\ Len(dflow) \in Nat
        BY <2>2, ReaderNow
      <4>2. QED
        BY <2>3, <4>1
    <3>4. QED
      BY <3>1, <3>2, <3>3
  <2>4. ASSUME NEW r \in StreamReaders
        PROVE  /\ last_read[r] + 1 + Len(stream'[r]) + Len(dflow') = out_step + 1
               /\ \A i \in 1..Len(stream'[r]) :
                    stream'[r][i] = IF last_read[r] + i < out_step THEN last_read[r] + i ELSE e
    <3>1. last_read[r] \in Int /\ Len(stream[r]) \in Nat /\ Len(dflow) \in Nat /\ out_step \in Nat
      BY StreamNow
    <3>2. /\ last_read[r] + 1 + Len(stream[r]) + Len(dflow) = out_step
          /\ \A i \in 1..Len(stream[r]) :
               last_read[r] + i < out_step /\ stream[r][i] = last_read[r] + i
      BY <1>1
    <3>3. stream' = stream /\ Len(dflow') = Len(dflow) + 1
      BY <2>1, <2>2
    <3>4. last_read[r] + 1 + Len(stream'[r]) + Len(dflow') = out_step + 1
      <4>1. last_read[r] + 1 + Len(stream[r]) + Len(dflow) = out_step
        BY <3>2
      <4>2. Len(stream'[r]) = Len(stream[r]) /\ Len(dflow') = Len(dflow) + 1
        BY <3>3
      <4>3. last_read[r] + 1 + Len(stream[r]) + (Len(dflow) + 1) = out_step + 1
        <5> DEFINE n == Len(stream[r])
                   m == Len(dflow)
        <5>1. /\ last_read[r] \in Int /\ n \in Nat /\ m \in Nat /\ out_step \in Nat
              /\ last_read[r] + 1 + n + m = out_step
          BY <3>1, <4>1
        <5> HIDE DEF n, m
        <5>2. last_read[r] + 1 + n + (m + 1) = out_step + 1
          BY <5>1
        <5>3. QED
          BY <5>2 DEF n, m
      <4>4. QED
        BY <4>2, <4>3
    <3>5. QED
      BY <3>2, <3>3, <3>4
  <2>5. stream' \in [StreamReaders -> Seq(Items)]
    BY <2>1, StreamNow
  <2>6. QED
    BY <1>2, <2>1, <2>2, <2>3, <2>4, <2>5
<1>3. CASE ~Decaf
  <2>1. dflow' = <<>> /\ dflow = <<>> /\ stream' = [r \in StreamReaders |-> Append(stream[r], e)]
    BY <1>3 DEF SendOn, StreamInv, InOrder
  <2>2. ASSUME NEW r \in StreamReaders
        PROVE  /\ stream'[r] \in Seq(Items) /\ Len(stream'[r]) = Len(stream[r]) + 1
               /\ \A i \in 1..Len(stream[r]) : stream'[r][i] = stream[r][i]
               /\ stream'[r][Len(stream[r]) + 1] = e
               /\ stream[r] # <<>> => stream'[r] # <<>> /\ Head(stream'[r]) = Head(stream[r])
    <3>1. stream'[r] = Append(stream[r], e) /\ stream[r] \in Seq(Items)
      BY <2>1, StreamNow
    <3>2. QED
      BY <3>1, AppendOne
  <2>3. ASSUME NEW r \in StreamReaders, NEW i \in 1..Len(stream'[r])
        PROVE  stream'[r][i] = IF last_read[r] + i < out_step THEN last_read[r] + i ELSE e
    <3>1. CASE i \in 1..Len(stream[r])
      BY <1>1, <2>2, <3>1
    <3>2. CASE i = Len(stream[r]) + 1
      <4>1. last_read[r] + i = out_step /\ stream'[r][i] = e
        <5>1. Len(dflow) = 0
          BY <2>1
        <5>2. last_read[r] \in Int /\ Len(stream[r]) \in Nat /\ out_step \in Nat
          BY StreamNow
        <5>3. last_read[r] + 1 + Len(stream[r]) + Len(dflow) = out_step
          BY <1>1
        <5>4. stream'[r][Len(stream[r]) + 1] = e
          BY <2>2
        <5>5. stream'[r][i] = e
          BY <3>2, <5>4
        <5>6. last_read[r] + i = out_step
          BY <3>2, <5>1, <5>2, <5>3
        <5>7. QED
          BY <5>5, <5>6
      <4>2. ~(last_read[r] + i < out_step)
        BY <4>1, StreamNow
      <4>3. (IF last_read[r] + i < out_step THEN last_read[r] + i ELSE e) = e
        BY <4>2
      <4>4. QED
        BY <4>1, <4>3
    <3>3. i \in 1..Len(stream[r]) \/ i = Len(stream[r]) + 1
      <4>1. Len(stream'[r]) = Len(stream[r]) + 1 /\ Len(stream[r]) \in Nat
        BY <2>2, StreamNow
      <4>2. QED
        BY <4>1
    <3>4. QED
      BY <3>1, <3>2, <3>3
  <2>4. Len(dflow) = 0 /\ dflow' = dflow /\ dflow' \in Seq(Items)
    BY <2>1
  <2>5. stream' \in [StreamReaders -> Seq(Items)]
    BY <2>1, <2>2
  <2>6. ASSUME NEW r \in StreamReaders
        PROVE  last_read[r] + 1 + Len(stream'[r]) + Len(dflow') = out_step + 1
    <3>1. last_read[r] + 1 + Len(stream[r]) + Len(dflow) = out_step
      BY <1>1
    <3>2. Len(stream'[r]) = Len(stream[r]) + 1 /\ Len(dflow') = Len(dflow)
      BY <2>2, <2>4
    <3>3. last_read[r] \in Int /\ Len(stream[r]) \in Nat /\ Len(dflow) \in Nat /\ out_step \in Nat
      BY ReaderNow
    <3>4. last_read[r] + 1 + (Len(stream[r]) + 1) + Len(dflow) = out_step + 1
      <4> DEFINE n == Len(stream[r])
                 m == Len(dflow)
      <4>1. /\ last_read[r] \in Int /\ n \in Nat /\ m \in Nat /\ out_step \in Nat
            /\ last_read[r] + 1 + n + m = out_step
        BY <3>1, <3>3
      <4> HIDE DEF n, m
      <4>2. last_read[r] + 1 + (n + 1) + m = out_step + 1
        BY <4>1
      <4>3. QED
        BY <4>2 DEF n, m
    <3>5. QED
      BY <3>2, <3>4
  <2>7. 1..Len(dflow') = {}
    BY <2>4
  <2> HIDE DEF SendOn, Decaf
  <2>8. QED
    BY <1>3, <2>1, <2>2, <2>3, <2>4, <2>5, <2>6, <2>7
<1>4. QED
  BY <1>2, <1>3

LEMMA AdvanceStepInv ==
  ASSUME StreamInv, AdvanceStep
  PROVE  StreamInv'
<1> USE DEF StreamInv, AdvanceStep, inVars
<1>1. StreamTypeOK'
  BY DEF StreamTypeOK
<1>2. InOrder'
  BY DEF InOrder, OnItsWay, Reached, SentSteps, Item, Decaf
<1>3. Counted'
  BY DEF Counted, Count, Ahead
<1>4. QED
  BY <1>1, <1>2, <1>3

LEMMA ExtractFailedInv ==
  ASSUME StreamInv, ExtractFailed
  PROVE  StreamInv'
<1> USE DEF StreamInv, ExtractFailed, inVars
<1>1. StreamTypeOK'
  BY DEF StreamTypeOK
<1>2. InOrder'
  BY DEF InOrder, OnItsWay, Reached, SentSteps, Item, Decaf
<1>3. Counted'
  BY DEF Counted, Count, Ahead
<1>4. QED
  BY <1>1, <1>2, <1>3

\* The counters of the readers do not depend on what is behind the first item.
LEMMA CountedKept ==
  ASSUME StreamInv, UNCHANGED <<program, inVars>>,
         \A r \in StreamReaders :
           stream[r] # <<>> => stream'[r] # <<>> /\ Head(stream'[r]) = Head(stream[r])
  PROVE  Counted'
<1>1. ASSUME NEW r \in StreamReaders PROVE Count(r)'
  BY DEF StreamInv, Counted, Count, Ahead, inVars, End
<1>2. QED
  BY <1>1 DEF Counted

LEMMA PutStepInv ==
  ASSUME StreamInv, PutStep
  PROVE  StreamInv' /\ out_step < stream_steps
<1> USE DEF PutStep
<1>1. out_step < stream_steps /\ out_pc # "done" /\ out_step' = out_step + 1 /\ out_pc' # "done"
  BY DEF StreamInv, InOrder
<1>2. out_step \in Items /\ out_step' \in 0..stream_steps
  BY <1>1, StreamNow DEF Items
<1>3. /\ dflow' \in Seq(Items) /\ stream' \in [StreamReaders -> Seq(Items)]
      /\ ~Decaf => dflow' = <<>>
      /\ \A r \in StreamReaders :
           /\ last_read[r] + 1 + Len(stream'[r]) + Len(dflow') = out_step + 1
           /\ \A i \in 1..Len(stream'[r]) :
                stream'[r][i] = IF last_read[r] + i < out_step THEN last_read[r] + i ELSE out_step
           /\ \A i \in 1..Len(dflow') :
                dflow'[i] = LET k == last_read[r] + Len(stream'[r]) + i
                            IN  IF k < out_step THEN k ELSE out_step
           /\ stream[r] # <<>> => stream'[r] # <<>> /\ Head(stream'[r]) = Head(stream[r])
  BY <1>1, <1>2, SendOnInv
<1>4. StreamTypeOK'
  BY <1>2, <1>3 DEF StreamInv, StreamTypeOK, inVars, Items
<1>5. InOrder'
  <2>1. ASSUME NEW r \in StreamReaders PROVE OnItsWay(r)'
    <3>1. last_read' = last_read /\ last_read[r] \in Int /\ last_read[r] < out_step
      BY StreamNow DEF inVars
    <3>2. Len(stream'[r]) \in Nat /\ Len(dflow') \in Nat /\ out_step \in Nat
      <4>1. stream'[r] \in Seq(Items) /\ dflow' \in Seq(Items) /\ out_step \in Nat
        BY <1>3, StreamNow
      <4>2. QED
        BY <4>1
    <3> HIDE DEF PutStep
    <3>4. last_read[r] + 1 + Len(stream'[r]) + Len(dflow') = out_step + 1
      BY <1>3
    <3>3. Reached(r)' + Len(dflow') = SentSteps'
      <4>1. Reached(r)' = last_read[r] + 1 + Len(stream'[r])
        BY <3>1 DEF Reached
      <4>2. SentSteps' = out_step + 1
        BY <1>1, <3>2 DEF SentSteps
      <4>3. QED
        BY <3>4, <4>1, <4>2
    <3>5. ASSUME NEW i \in 1..Len(stream'[r]) PROVE (stream[r][i] = Item(last_read[r] + i))'
      <4>1. last_read[r] + i <= out_step
        BY <3>1, <3>2, <3>4
      <4>2. stream'[r][i] = last_read[r] + i
        <5>1. stream'[r][i] = IF last_read[r] + i < out_step THEN last_read[r] + i ELSE out_step
          BY <1>3
        <5>2. QED
          BY <3>1, <3>2, <4>1, <5>1
      <4>3. QED
        BY <1>1, <3>1, <3>2, <4>1, <4>2 DEF Item
    <3>6. ASSUME NEW i \in 1..Len(dflow')
          PROVE  (dflow[i] = Item(last_read[r] + Len(stream[r]) + i))'
      <4> DEFINE n == Len(stream'[r])
                 m == Len(dflow')
                 k == last_read[r] + n + i
      <4>1. /\ last_read[r] \in Int /\ n \in Nat /\ m \in Nat /\ out_step \in Nat
            /\ last_read[r] + 1 + n + m = out_step + 1 /\ i \in 1..m
        BY <3>1, <3>2, <3>4
      <4>2. dflow'[i] = IF k < out_step THEN k ELSE out_step
        BY <1>3
      <4>3. last_read' = last_read
        BY <3>1
      <4> HIDE DEF n, m
      <4>4. k \in Int /\ k <= out_step
        BY <4>1
      <4> HIDE DEF k
      <4>5. dflow'[i] = k
        <5>1. k < out_step \/ k = out_step
          BY <4>1, <4>4
        <5>2. QED
          BY <4>2, <5>1
      <4>6. k < out_step'
        BY <1>1, <4>1, <4>4
      <4>7. QED
        BY <4>3, <4>5, <4>6 DEF Item, k, n
    <3>7. QED
      BY <1>1, <3>1, <3>2, <3>3, <3>5, <3>6 DEF OnItsWay
  <2>2. out_pc' \in {"step", "put"} => out_step' < stream_steps
    BY <1>1, StreamNow
  <2>3. QED
    BY <1>3, <2>1, <2>2 DEF InOrder, Decaf
<1>6. Counted'
  BY <1>3, CountedKept
<1>7. QED
  BY <1>1, <1>4, <1>5, <1>6 DEF StreamInv

LEMMA CloseStreamInv ==
  ASSUME StreamInv, CloseStream
  PROVE  StreamInv'
<1> USE DEF CloseStream
<1>1. out_pc # "done" /\ out_step' = out_step /\ out_pc' = "done" /\ End \in Items
  BY DEF Items
<1>2. /\ dflow' \in Seq(Items) /\ stream' \in [StreamReaders -> Seq(Items)]
      /\ ~Decaf => dflow' = <<>>
      /\ \A r \in StreamReaders :
           /\ last_read[r] + 1 + Len(stream'[r]) + Len(dflow') = out_step + 1
           /\ \A i \in 1..Len(stream'[r]) :
                stream'[r][i] = IF last_read[r] + i < out_step THEN last_read[r] + i ELSE End
           /\ \A i \in 1..Len(dflow') :
                dflow'[i] = LET k == last_read[r] + Len(stream'[r]) + i
                            IN  IF k < out_step THEN k ELSE End
           /\ stream[r] # <<>> => stream'[r] # <<>> /\ Head(stream'[r]) = Head(stream[r])
  BY <1>1, SendOnInv
<1>3. StreamTypeOK'
  BY <1>2 DEF StreamInv, StreamTypeOK, inVars, Items
<1>4. InOrder'
  <2>1. ASSUME NEW r \in StreamReaders PROVE OnItsWay(r)'
    <3>1. last_read' = last_read /\ last_read[r] \in Int /\ last_read[r] < out_step
      BY StreamNow DEF inVars
    <3>2. Reached(r)' + Len(dflow') = SentSteps'
      BY <1>1, <1>2, <3>1 DEF Reached, SentSteps
    <3>3. QED
      BY <1>1, <1>2, <3>1, <3>2 DEF OnItsWay, Item
  <2>2. QED
    BY <1>1, <1>2, <2>1 DEF InOrder, Decaf
<1>5. Counted'
  BY <1>2, CountedKept
<1>6. QED
  BY <1>3, <1>4, <1>5 DEF StreamInv

LEMMA ForwardInv ==
  ASSUME StreamInv, Forward
  PROVE  StreamInv'
<1> USE DEF Forward
<1>1. /\ dflow' \in Seq(Items) /\ Len(dflow) \in Nat \ {0} /\ Len(dflow') = Len(dflow) - 1
      /\ Head(dflow) = dflow[1] /\ Head(dflow) \in Items
      /\ \A i \in 1..Len(dflow') : dflow'[i] = dflow[i + 1]
  BY TailOne, StreamNow
<1>2. ASSUME NEW r \in StreamReaders
      PROVE  /\ stream'[r] \in Seq(Items) /\ Len(stream[r]) \in Nat
             /\ Len(stream'[r]) = Len(stream[r]) + 1
             /\ \A i \in 1..Len(stream[r]) : stream'[r][i] = stream[r][i]
             /\ stream'[r][Len(stream[r]) + 1] = dflow[1]
             /\ stream[r] # <<>> => stream'[r] # <<>> /\ Head(stream'[r]) = Head(stream[r])
  <2>1. stream'[r] = Append(stream[r], Head(dflow)) /\ stream[r] \in Seq(Items)
    BY StreamNow
  <2>2. QED
    BY <1>1, <2>1, AppendOne
<1>3. StreamTypeOK'
  <2>1. stream' \in [StreamReaders -> Seq(Items)]
    BY <1>2
  <2>2. QED
    BY <1>1, <2>1 DEF StreamInv, StreamTypeOK, outVars, inVars, Items
<1>4. InOrder'
  <2>1. ASSUME NEW r \in StreamReaders PROVE OnItsWay(r)'
    <3>1. UNCHANGED <<last_read, out_step, out_pc>> /\ last_read[r] \in Int /\ last_read[r] < out_step
      BY StreamNow DEF inVars, outVars
    <3>2. OnItsWay(r)
      BY DEF StreamInv, InOrder
    <3> HIDE DEF Forward
    <3>3. Reached(r)' + Len(dflow') = SentSteps'
      <4>1. /\ Len(stream'[r]) = Len(stream[r]) + 1 /\ Len(dflow') = Len(dflow) - 1
            /\ Len(stream[r]) \in Nat /\ Len(dflow) \in Nat
        BY <1>1, <1>2
      <4>2. last_read[r] + 1 + Len(stream[r]) + Len(dflow) = SentSteps /\ SentSteps' = SentSteps
        BY <3>1, <3>2 DEF OnItsWay, Reached, SentSteps
      <4>3. SentSteps \in Nat
        BY StreamNow
      <4>4. Reached(r)' = last_read[r] + 1 + (Len(stream[r]) + 1)
        BY <3>1, <4>1 DEF Reached
      <4>5. last_read[r] + 1 + (Len(stream[r]) + 1) + (Len(dflow) - 1) = SentSteps
        <5> DEFINE n == Len(stream[r])
                   m == Len(dflow)
        <5>1. /\ last_read[r] \in Int /\ n \in Nat /\ m \in Nat /\ SentSteps \in Nat
              /\ last_read[r] + 1 + n + m = SentSteps
          BY <3>1, <4>1, <4>2, <4>3
        <5> HIDE DEF n, m
        <5>2. last_read[r] + 1 + (n + 1) + (m - 1) = SentSteps
          BY <5>1
        <5>3. QED
          BY <5>2 DEF n, m
      <4>6. QED
        BY <4>1, <4>2, <4>4, <4>5
    <3>4. ASSUME NEW i \in 1..Len(stream'[r]) PROVE stream'[r][i] = Item(last_read[r] + i)
      <4>1. CASE i \in 1..Len(stream[r])
        BY <1>2, <3>2, <4>1 DEF OnItsWay
      <4>2. CASE i = Len(stream[r]) + 1
        <5>1. 1 \in 1..Len(dflow)
          BY <1>1
        <5>2. dflow[1] = Item(last_read[r] + Len(stream[r]) + 1)
          BY <3>2, <5>1 DEF OnItsWay
        <5>3. last_read[r] + i = last_read[r] + Len(stream[r]) + 1
          BY <1>2, <3>1, <4>2
        <5>4. QED
          BY <1>2, <4>2, <5>2, <5>3
      <4>3. i \in 1..Len(stream[r]) \/ i = Len(stream[r]) + 1
        <5>1. Len(stream'[r]) = Len(stream[r]) + 1 /\ Len(stream[r]) \in Nat
          BY <1>2
        <5>2. QED
          BY <5>1
      <4>4. QED
        BY <4>1, <4>2, <4>3
    <3>5. ASSUME NEW i \in 1..Len(dflow')
          PROVE  dflow'[i] = Item(last_read[r] + Len(stream'[r]) + i)
      <4>1. i + 1 \in 1..Len(dflow)
        BY <1>1
      <4>2. last_read[r] + Len(stream[r]) + (i + 1) = last_read[r] + Len(stream'[r]) + i
        <5> DEFINE n == Len(stream[r])
        <5>1. Len(stream'[r]) = n + 1 /\ n \in Nat /\ last_read[r] \in Int /\ i \in Nat
          BY <1>1, <1>2, <3>1
        <5> HIDE DEF n
        <5>2. last_read[r] + n + (i + 1) = last_read[r] + (n + 1) + i
          BY <5>1
        <5>3. QED
          BY <5>1, <5>2 DEF n
      <4>3. dflow[i + 1] = Item(last_read[r] + Len(stream[r]) + (i + 1))
        BY <3>2, <4>1 DEF OnItsWay
      <4>4. QED
        BY <1>1, <4>2, <4>3
    <3>6. QED
      BY <3>1, <3>3, <3>4, <3>5 DEF OnItsWay, Item
  <2>2. ~Decaf => dflow' = <<>>
    BY DEF StreamInv, InOrder
  <2>3. QED
    BY <2>1, <2>2 DEF StreamInv, InOrder, Decaf, outVars
<1>5. Counted'
  BY <1>2, CountedKept
<1>6. QED
  BY <1>3, <1>4, <1>5 DEF StreamInv

-----------------------------------------------------------------------------
(* The readers.                                                             *)

\* Only the place of reader q changes, to l.
LEMMA GotoInv ==
  ASSUME StreamInv, NEW q \in StreamReaders,
         NEW l \in {"open", "read", "advance", "again", "done"}, ReaderGoto(q, l),
         UNCHANGED <<program, outVars, dflow, stream, in_step, last_read, timeouts>>,
         l = "read" => stream[q] # <<>> /\ Head(stream[q]) # End,
         l # "advance", l # "again", in_pc[q] # "again"
  PROVE  StreamInv'
<1>1. in_pc' = [in_pc EXCEPT ![q] = l]
  BY DEF ReaderGoto
<1>2. StreamTypeOK'
  BY <1>1 DEF StreamInv, StreamTypeOK, outVars
<1>3. InOrder'
  BY DEF StreamInv, InOrder, OnItsWay, Reached, SentSteps, Item, Decaf, outVars
<1>4. ASSUME NEW r \in StreamReaders PROVE Count(r)'
  <2>1. Count(r) /\ Ahead(r)' = Ahead(r)
    BY DEF StreamInv, Counted, Ahead
  <2>2. in_pc'[r] = IF r = q THEN l ELSE in_pc[r]
    BY <1>1, StreamNow
  <2>3. QED
    BY <2>1, <2>2 DEF Count, End
<1>5. QED
  BY <1>2, <1>3, <1>4 DEF StreamInv, Counted

LEMMA OpenStreamInv ==
  ASSUME StreamInv, NEW q \in StreamReaders, OpenStream(q)
  PROVE  StreamInv'
<1>1. CASE Head(stream[q]) = End
  BY <1>1, GotoInv DEF OpenStream
<1>2. CASE Head(stream[q]) # End
  BY <1>2, GotoInv DEF OpenStream
<1>3. QED
  BY <1>1, <1>2

LEMMA AdvancedInv ==
  ASSUME StreamInv, NEW q \in StreamReaders, Advanced(q)
  PROVE  StreamInv'
<1>1. CASE Head(stream[q]) = End
  BY <1>1, GotoInv DEF Advanced
<1>2. CASE Head(stream[q]) # End
  BY <1>2, GotoInv DEF Advanced
<1>3. QED
  BY <1>1, <1>2

\* The counter of a reader never passes the number of steps and time-outs.
LEMMA CounterFits ==
  ASSUME NEW n \in Nat, NEW m \in Nat, NEW l \in Nat, l < n, NEW t \in 0..m
  PROVE  (l + 1) + ((l + 1) * m - m + t) <= n * (m + 1)
<1>1. (l + 1) * m <= n * m
  <2>1. \A d \in Nat : d * m >= 0
    OBVIOUS
  <2>2. (n - (l + 1)) * m >= 0
    BY <2>1
  <2>3. (n - (l + 1)) * m = n * m - (l + 1) * m
    OBVIOUS
  <2>4. QED
    BY <2>2, <2>3
<1>2. n * (m + 1) = n * m + n
  OBVIOUS
<1>3. QED
  BY <1>1, <1>2

\* What a reader reads is the step after the last one it has read.
LEMMA ReadAndReleaseInv ==
  ASSUME StreamInv, NEW q \in StreamReaders, ReadAndRelease(q)
  PROVE  /\ StreamInv'
         /\ last_read[q] + 1 < out_step
         /\ last_read' = [last_read EXCEPT ![q] = @ + 1]
<1> DEFINE l == last_read[q] + 1
<1>1. /\ stream[q] # <<>> /\ Head(stream[q]) # End /\ OnItsWay(q) /\ Count(q)
      /\ in_pc[q] = "read"
  BY DEF StreamInv, Counted, Count, InOrder, ReadAndRelease
<1>2. /\ Tail(stream[q]) \in Seq(Items) /\ Len(stream[q]) \in Nat \ {0}
      /\ Len(Tail(stream[q])) = Len(stream[q]) - 1
      /\ Head(stream[q]) = stream[q][1]
      /\ \A i \in 1..Len(Tail(stream[q])) : Tail(stream[q])[i] = stream[q][i + 1]
  BY <1>1, TailOne, StreamNow
<1>3. Head(stream[q]) = l /\ l < out_step /\ l \in 0..(stream_steps - 1)
  <2>1. 1 \in 1..Len(stream[q])
    BY <1>2
  <2>2. Head(stream[q]) = Item(l)
    BY <1>1, <1>2, <2>1 DEF OnItsWay
  <2>3. l < out_step /\ Head(stream[q]) = l
    BY <1>1, <2>2 DEF Item
  <2>4. QED
    BY <2>3, ReaderNow
<1>4. /\ last_read' = [last_read EXCEPT ![q] = l]
      /\ stream' = [stream EXCEPT ![q] = Tail(stream[q])]
      /\ in_step' = [in_step EXCEPT ![q] = in_step[q] + 1]
      /\ timeouts' = [timeouts EXCEPT ![q] = 0]
      /\ in_pc' = [in_pc EXCEPT ![q] = "advance"]
      /\ UNCHANGED <<program, out_pc, out_step, dflow>>
  BY <1>3, StreamNow DEF ReadAndRelease, ReaderGoto, outVars
<1>5. l \in Nat /\ in_step[q] + 1 <= (l + 1) + ((l + 1) * max_timeouts - max_timeouts)
  <2>1. CASE last_read[q] = -1
    <3>1. in_step[q] = 0 /\ l = 0
      BY <1>1, <2>1 DEF Count
    <3>2. l \in Nat /\ max_timeouts \in Nat
      BY <3>1, StreamNow
    <3> HIDE DEF l
    <3>3. (l + 1) * max_timeouts = max_timeouts
      <4>1. l + 1 = 1 /\ 1 * max_timeouts = max_timeouts
        BY <3>1, <3>2
      <4>2. QED
        BY <4>1
    <3>4. QED
      BY <3>1, <3>2, <3>3
  <2>2. CASE last_read[q] >= 0
    <3>1. in_step[q] <= l + (l * max_timeouts - max_timeouts + timeouts[q])
      BY <1>1, <2>2, StreamNow DEF Count, Ahead
    <3>2. l \in Nat /\ max_timeouts \in Nat /\ timeouts[q] \in 0..max_timeouts /\ in_step[q] \in Nat
      BY <2>2, StreamNow, SMTT(30)
    <3> HIDE DEF l
    <3> DEFINE a == l * max_timeouts
    <3>3. (l + 1) * max_timeouts = a + max_timeouts /\ a \in Nat
      BY <3>2
    <3>4. in_step[q] <= l + (a - max_timeouts + timeouts[q])
      BY <3>1
    <3> HIDE DEF a
    <3>5. /\ l \in Nat /\ max_timeouts \in Nat /\ in_step[q] \in Nat
          /\ timeouts[q] \in Nat /\ timeouts[q] <= max_timeouts
      BY <3>2
    <3>6. in_step[q] + 1 <= (l + 1) + ((a + max_timeouts) - max_timeouts)
      BY <3>3, <3>4, <3>5
    <3>7. QED
      BY <3>2, <3>3, <3>6
  <2>3. last_read[q] = -1 \/ last_read[q] >= 0
    BY StreamNow
  <2>4. QED
    BY <2>1, <2>2, <2>3
<1>6. StreamTypeOK'
  <2>1. in_step[q] + 1 \in 0..(stream_steps * (max_timeouts + 1))
    <3>1. /\ l \in Nat /\ l < stream_steps /\ stream_steps \in Nat /\ max_timeouts \in Nat
          /\ 0 \in 0..max_timeouts /\ in_step[q] \in Nat
      BY <1>3, <1>5, StreamNow
    <3> HIDE DEF l
    <3>2. (l + 1) + ((l + 1) * max_timeouts - max_timeouts + 0) <= stream_steps * (max_timeouts + 1)
      BY <3>1, CounterFits
    <3> DEFINE a == (l + 1) * max_timeouts
               b == stream_steps * (max_timeouts + 1)
    <3>3. a \in Int /\ b \in Int
      BY <3>1
    <3>4. in_step[q] + 1 <= (l + 1) + (a - max_timeouts) /\ (l + 1) + (a - max_timeouts + 0) <= b
      BY <1>5, <3>2
    <3> HIDE DEF a, b
    <3>5. in_step[q] + 1 \in 0..b
      BY <3>1, <3>3, <3>4
    <3>6. QED
      BY <3>5 DEF b
  <2>2. /\ in_step' \in [StreamReaders -> 0..(stream_steps * (max_timeouts + 1))]
        /\ in_pc' \in [StreamReaders -> {"open", "read", "advance", "again", "done"}]
    BY <1>4, <2>1, StreamNow
  <2>3. /\ last_read' \in [StreamReaders -> -1..(stream_steps - 1)]
        /\ timeouts' \in [StreamReaders -> 0..max_timeouts]
    <3>1. l \in -1..(stream_steps - 1)
      BY <1>3, <1>5, ReaderNow
    <3>2. 0 \in 0..max_timeouts
      BY ReaderNow
    <3> HIDE DEF l
    <3>3. QED
      BY <1>4, <3>1, <3>2, StreamNow
  <2>4. stream' \in [StreamReaders -> Seq(Items)]
    BY <1>2, <1>4, StreamNow
  <2>5. QED
    BY <1>4, <2>2, <2>3, <2>4 DEF StreamInv, StreamTypeOK, Items
<1>7. InOrder'
  <2>1. ASSUME NEW r \in StreamReaders, r # q PROVE OnItsWay(r)'
    <3>1. last_read'[r] = last_read[r] /\ stream'[r] = stream[r] /\ OnItsWay(r)
      BY <1>4, <2>1, StreamNow DEF StreamInv, InOrder
    <3>2. QED
      BY <1>4, <3>1 DEF OnItsWay, Reached, SentSteps, Item
  <2>2. OnItsWay(q)'
    <3> DEFINE n == Len(stream[q])
               m == Len(dflow)
    <3>1. last_read'[q] = l /\ stream'[q] = Tail(stream[q]) /\ dflow' = dflow /\ SentSteps' = SentSteps
      BY <1>3, <1>4, StreamNow DEF SentSteps
    <3>2. /\ l + n + m = SentSteps /\ Len(stream'[q]) = n - 1
          /\ l \in Nat /\ n \in Nat \ {0} /\ m \in Nat /\ SentSteps \in Nat
      BY <1>1, <1>2, <1>5, <3>1, StreamNow DEF OnItsWay, Reached
    <3>3. ASSUME NEW i \in 1..Len(stream'[q]) PROVE stream'[q][i] = Item(l + i)
      <4>1. i + 1 \in 1..n /\ last_read[q] + (i + 1) = l + i
        <5>1. i \in Nat /\ 1 <= i /\ i <= n - 1 /\ n \in Nat /\ last_read[q] \in Int
          BY <3>2, ReaderNow
        <5> HIDE DEF n
        <5>2. QED
          BY <5>1
      <4>2. stream'[q][i] = stream[q][i + 1]
        BY <1>2, <3>1
      <4>3. stream[q][i + 1] = Item(last_read[q] + (i + 1))
        BY <1>1, <4>1 DEF OnItsWay
      <4>4. QED
        BY <4>1, <4>2, <4>3
    <3>4. ASSUME NEW i \in 1..Len(dflow) PROVE dflow[i] = Item(l + Len(stream'[q]) + i)
      <4>1. dflow[i] = Item(last_read[q] + n + i)
        BY <1>1 DEF OnItsWay
      <4>2. last_read[q] \in Int /\ l = last_read[q] + 1 /\ i \in Int
        BY <3>2, StreamNow
      <4> HIDE DEF l, n
      <4>3. last_read[q] + n + i = l + (n - 1) + i
        BY <3>2, <4>2
      <4>4. QED
        BY <3>2, <4>1, <4>3
    <3>5. Reached(q)' + Len(dflow) = SentSteps
      <4>1. Reached(q)' = l + 1 + (n - 1)
        BY <3>1, <3>2 DEF Reached
      <4> HIDE DEF l, n, m
      <4>2. l + 1 + (n - 1) + m = SentSteps
        BY <3>2
      <4>3. QED
        BY <4>1, <4>2 DEF m
    <3>6. QED
      BY <1>3, <1>4, <3>1, <3>3, <3>4, <3>5 DEF OnItsWay, Item
  <2>3. QED
    BY <1>4, <2>1, <2>2 DEF StreamInv, InOrder, Decaf
<1>8. Counted'
  <2>1. ASSUME NEW r \in StreamReaders, r # q PROVE Count(r)'
    <3>1. /\ last_read'[r] = last_read[r] /\ stream'[r] = stream[r] /\ in_pc'[r] = in_pc[r]
          /\ in_step'[r] = in_step[r] /\ timeouts'[r] = timeouts[r] /\ Count(r)
      BY <1>4, <2>1, StreamNow DEF StreamInv, Counted
    <3>2. QED
      BY <1>4, <3>1 DEF Count, Ahead, End
  <2>2. Count(q)'
    <3>1. /\ last_read'[q] = l /\ in_pc'[q] = "advance" /\ in_step'[q] = in_step[q] + 1
          /\ timeouts'[q] = 0
      BY <1>3, <1>4, StreamNow
    <3>2. Ahead(q)' = (l + 1) * max_timeouts - max_timeouts
      <4>1. Ahead(q)' = (l + 1) * max_timeouts - max_timeouts + 0
        BY <3>1 DEF Ahead
      <4>2. l + 1 \in Int /\ max_timeouts \in Int
        BY <1>5, ReaderNow
      <4>3. QED
        BY <4>1, <4>2
    <3>3. l \in Nat /\ l # -1 /\ l >= 0
      BY <1>5
    <3>4. program # "lammps_adios" => in_step[q] = l
      BY <1>1 DEF Count
    <3>5. in_step[q] + 1 + 0 <= l + 1 + Ahead(q)'
      <4> DEFINE a == (l + 1) * max_timeouts
      <4>1. l \in Nat /\ max_timeouts \in Nat /\ in_step[q] \in Nat
        BY <1>5, ReaderNow
      <4> HIDE DEF l
      <4>2. a \in Int
        BY <4>1
      <4>3. in_step[q] + 1 <= (l + 1) + (a - max_timeouts) /\ Ahead(q)' = a - max_timeouts
        BY <1>5, <3>2
      <4> HIDE DEF a
      <4>4. QED
        BY <4>1, <4>2, <4>3
    <3> HIDE DEF l
    <3>6. QED
      BY <1>4, <3>1, <3>3, <3>4, <3>5 DEF Count, End
  <2>3. QED
    BY <2>1, <2>2 DEF Counted
<1>9. QED
  BY <1>3, <1>4, <1>6, <1>7, <1>8 DEF StreamInv

LEMMA AdvanceTimesOutInv ==
  ASSUME StreamInv, NEW q \in StreamReaders, AdvanceTimesOut(q)
  PROVE  StreamInv' /\ UNCHANGED <<last_read, out_step>>
<1>1. /\ timeouts' = [timeouts EXCEPT ![q] = timeouts[q] + 1]
      /\ timeouts[q] < max_timeouts /\ program = "lammps_adios"
      /\ in_pc[q] = "advance" /\ in_pc' = [in_pc EXCEPT ![q] = "again"]
      /\ UNCHANGED <<program, outVars, dflow, stream, in_step, last_read>>
  BY StreamNow DEF AdvanceTimesOut, ReaderGoto
<1>2. StreamTypeOK'
  <2>1. timeouts[q] + 1 \in 0..max_timeouts
    BY <1>1, ReaderNow
  <2>2. timeouts' \in [StreamReaders -> 0..max_timeouts]
    BY <1>1, <2>1, StreamNow
  <2>3. in_pc' \in [StreamReaders -> {"open", "read", "advance", "again", "done"}]
    BY <1>1, StreamNow
  <2>4. QED
    BY <1>1, <2>2, <2>3 DEF StreamInv, StreamTypeOK, outVars
<1>3. InOrder'
  BY <1>1 DEF StreamInv, InOrder, OnItsWay, Reached, SentSteps, Item, Decaf, outVars
<1>4. ASSUME NEW r \in StreamReaders, r # q PROVE Count(r)'
  <2>1. Count(r) /\ in_pc'[r] = in_pc[r] /\ timeouts'[r] = timeouts[r]
    BY <1>1, <1>4, StreamNow DEF StreamInv, Counted
  <2>2. QED
    BY <1>1, <2>1 DEF Count, Ahead, End
<1>5. Count(q)'
  <2> DEFINE a == (last_read[q] + 1) * max_timeouts
  <2>1. /\ Count(q) /\ in_pc'[q] = "again" /\ timeouts'[q] = timeouts[q] + 1
        /\ timeouts[q] \in Nat /\ last_read[q] \in Nat /\ in_step[q] \in Nat /\ max_timeouts \in Nat
    <3>1. Count(q)
      BY DEF StreamInv, Counted
    <3>2. last_read[q] >= 0
      BY <1>1, <3>1 DEF Count
    <3>3. in_pc'[q] = "again" /\ timeouts'[q] = timeouts[q] + 1
      BY <1>1, StreamNow
    <3>4. QED
      BY <3>1, <3>2, <3>3, StreamNow
  <2>2. a \in Int
    BY <2>1
  <2>3. in_step[q] + 0 <= last_read[q] + 1 + (a - max_timeouts + timeouts[q])
    BY <1>1, <2>1 DEF Count, Ahead
  <2>4. Ahead(q)' = a - max_timeouts + (timeouts[q] + 1)
    BY <1>1, <2>1 DEF Ahead
  <2> HIDE DEF a
  <2>5. in_step[q] + 1 <= last_read[q] + 1 + Ahead(q)'
    BY <2>1, <2>2, <2>3, <2>4
  <2>6. timeouts'[q] > 0 /\ last_read[q] # -1
    BY <2>1
  <2>7. QED
    BY <1>1, <2>1, <2>5, <2>6 DEF Count, End
<1>6. QED
  BY <1>1, <1>2, <1>3, <1>4, <1>5 DEF StreamInv, Counted, outVars

LEMMA ReadAgainInv ==
  ASSUME StreamInv, NEW q \in StreamReaders, ReadAgain(q)
  PROVE  StreamInv' /\ UNCHANGED <<last_read, out_step>>
<1>1. /\ in_step' = [in_step EXCEPT ![q] = in_step[q] + 1]
      /\ in_pc[q] = "again" /\ in_pc' = [in_pc EXCEPT ![q] = "advance"]
      /\ UNCHANGED <<program, outVars, dflow, stream, last_read, timeouts>>
  BY StreamNow DEF ReadAgain, ReaderGoto
<1>2. /\ Count(q) /\ program = "lammps_adios"
      /\ timeouts[q] \in 0..max_timeouts /\ last_read[q] \in Nat /\ in_step[q] \in Nat
      /\ max_timeouts \in Nat /\ stream_steps \in Nat /\ last_read[q] < stream_steps
  <2>1. Count(q) /\ last_read[q] # -1 /\ program = "lammps_adios"
    BY <1>1 DEF StreamInv, Counted, Count
  <2>2. QED
    BY <2>1, ReaderNow
<1>3. in_step[q] + 1 <= last_read[q] + 1 + Ahead(q)
  BY <1>1, <1>2 DEF Count
<1>4. StreamTypeOK'
  <2> DEFINE b == stream_steps * (max_timeouts + 1)
  <2>1. (last_read[q] + 1) + Ahead(q) <= b
    BY <1>2, CounterFits DEF Ahead
  <2>2. b \in Int /\ Ahead(q) \in Int
    BY <1>2 DEF Ahead
  <2> HIDE DEF b
  <2>3. in_step[q] + 1 \in 0..b
    BY <1>2, <1>3, <2>1, <2>2
  <2>4. in_step' \in [StreamReaders -> 0..(stream_steps * (max_timeouts + 1))]
    BY <1>1, <2>3, StreamNow DEF b
  <2>5. in_pc' \in [StreamReaders -> {"open", "read", "advance", "again", "done"}]
    BY <1>1, StreamNow
  <2>6. QED
    BY <1>1, <2>4, <2>5 DEF StreamInv, StreamTypeOK, outVars
<1>5. InOrder'
  BY <1>1 DEF StreamInv, InOrder, OnItsWay, Reached, SentSteps, Item, Decaf, outVars
<1>6. ASSUME NEW r \in StreamReaders, r # q PROVE Count(r)'
  <2>1. Count(r) /\ in_pc'[r] = in_pc[r] /\ in_step'[r] = in_step[r]
    BY <1>1, <1>6, StreamNow DEF StreamInv, Counted
  <2>2. QED
    BY <1>1, <2>1 DEF Count, Ahead, End
<1>7. Count(q)'
  <2>1. /\ in_pc'[q] = "advance" /\ in_step'[q] = in_step[q] + 1 /\ Ahead(q)' = Ahead(q)
        /\ last_read[q] >= 0 /\ last_read[q] # -1
    BY <1>1, <1>2, StreamNow DEF Ahead
  <2>2. in_step[q] + 1 + 0 <= last_read[q] + 1 + Ahead(q)'
    BY <1>2, <1>3, <2>1
  <2>3. QED
    BY <1>1, <1>2, <2>1, <2>2 DEF Count, End
<1>8. QED
  BY <1>1, <1>4, <1>5, <1>6, <1>7 DEF StreamInv, Counted, outVars

-----------------------------------------------------------------------------
(* The theorems.                                                            *)

LEMMA StreamStepInv == StreamInv /\ [StreamNext]_streamVars => StreamInv'
<1> SUFFICES ASSUME StreamInv, [StreamNext]_streamVars PROVE StreamInv'
  OBVIOUS
<1>1. CASE StreamProducer
  BY <1>1, AdvanceStepInv, ExtractFailedInv, PutStepInv, CloseStreamInv DEF StreamProducer
<1>2. CASE Forward
  BY <1>2, ForwardInv
<1>3. ASSUME NEW r \in StreamReaders, StreamReader(r) PROVE StreamInv'
  BY <1>3, OpenStreamInv, ReadAndReleaseInv, AdvancedInv, AdvanceTimesOutInv, ReadAgainInv
     DEF StreamReader
<1>4. CASE UNCHANGED streamVars
  BY <1>4 DEF streamVars, outVars, inVars, StreamInv, StreamTypeOK, InOrder, OnItsWay, Reached,
              SentSteps, Item, Decaf, Counted, Count, Ahead
<1>5. QED
  BY <1>1, <1>2, <1>3, <1>4 DEF StreamNext

\* What is on its way to a reader is what it has not read.
THEOREM StreamInvariant == StreamSpec => []StreamInv
<1>1. QED
  BY StreamInitInv, StreamStepInv, PTL DEF StreamSpec

\* The counter of a reader names the step it is about to read, so that
\* lammps_decaf.cpp writes the row of that step.
THEOREM CounterNames == StreamSpec => []CounterNamesStep
<1>1. StreamInv => CounterNamesStep
  <2> SUFFICES ASSUME StreamInv, NEW r \in StreamReaders, in_pc[r] = "read",
                      program # "lammps_adios"
               PROVE  Head(stream[r]) = in_step[r]
    BY DEF CounterNamesStep
  <2>1. /\ stream[r] # <<>> /\ Head(stream[r]) # End /\ in_step[r] = last_read[r] + 1
        /\ OnItsWay(r)
    BY DEF StreamInv, Counted, Count, InOrder
  <2>2. Head(stream[r]) = stream[r][1] /\ 1 \in 1..Len(stream[r])
    BY <2>1, TailOne, StreamNow
  <2>3. QED
    BY <2>1, <2>2 DEF OnItsWay, Item
<1>2. QED
  BY <1>1, StreamInvariant, PTL

\* The streams implement StepChannel, also with time-outs and when the
\* producer ends early.
THEOREM StreamImplementation == StreamSpec => ImplementsStreamChannel
<1> DEFINE read == [r \in StreamReaders |-> last_read[r] + 1]
<1>1. StreamInit => StreamChannel!Init
  BY DEF StreamInit, StreamChannel!Init
<1>2. StreamInv /\ [StreamNext]_streamVars => [StreamChannel!Next]_(StreamChannel!channelVars)
  <2> SUFFICES ASSUME StreamInv, [StreamNext]_streamVars
               PROVE  [StreamChannel!Next]_(StreamChannel!channelVars)
    OBVIOUS
  <2>1. CASE UNCHANGED <<last_read, out_step>>
    BY <2>1 DEF StreamChannel!channelVars
  <2>2. CASE PutStep
    <3>1. read' = read /\ out_step' = out_step + 1 /\ out_step < stream_steps
      BY <2>2, PutStepInv DEF PutStep, inVars
    <3>2. StreamChannel!Publish
      BY <3>1 DEF StreamChannel!Publish
    <3>3. QED
      BY <3>2 DEF StreamChannel!Next
  <2>3. ASSUME NEW q \in StreamReaders, ReadAndRelease(q)
        PROVE  StreamChannel!Next
    <3>1. /\ last_read[q] + 1 < out_step /\ out_step' = out_step
          /\ last_read' = [last_read EXCEPT ![q] = @ + 1]
      BY <2>3, ReadAndReleaseInv DEF ReadAndRelease, outVars
    <3>2. read' = [read EXCEPT ![q] = @ + 1]
      BY <3>1, StreamNow
    <3>3. StreamChannel!Consume(q)
      BY <3>1, <3>2 DEF StreamChannel!Consume
    <3>4. QED
      BY <3>3 DEF StreamChannel!Next
  <2>4. CASE AdvanceStep \/ ExtractFailed \/ CloseStream \/ Forward
    BY <2>1, <2>4 DEF AdvanceStep, ExtractFailed, CloseStream, Forward, inVars, outVars
  <2>5. ASSUME NEW q \in StreamReaders,
               OpenStream(q) \/ Advanced(q) \/ AdvanceTimesOut(q) \/ ReadAgain(q)
        PROVE  UNCHANGED <<last_read, out_step>>
    BY <2>5 DEF OpenStream, Advanced, AdvanceTimesOut, ReadAgain, outVars
  <2>6. CASE UNCHANGED streamVars
    BY <2>1, <2>6 DEF streamVars, inVars, outVars
  <2>7. QED
    BY <2>1, <2>2, <2>3, <2>4, <2>5, <2>6 DEF StreamNext, StreamProducer, StreamReader
<1>3. QED
  BY <1>1, <1>2, StreamInvariant, PTL DEF StreamSpec, ImplementsStreamChannel, StreamChannel!Spec
=============================================================================
