# Zipper, its transports and ElasticBroker: TLA+ models

Zipper couples a parallel simulation with its analysis while both run. A
*compute process* cuts every time step into blocks and hands each block to an
*analysis process*, over MPI or through the parallel file system, whichever is
free. The repository holds the runtime twice (for an LBM code and for LAMMPS),
a set of other transports it is compared with, and ElasticBroker, a client that
sends simulation records to Redis. This directory holds TLA+ modules that model
them, the TLC configurations that check them, and proofs for TLAPS.

Paths below are relative to the repository.

## 1. The system

| component | where | state | operations |
|---|---|---|---|
| compute process | `lbm_adios/zipper/run_module_lbm.c`, `compute_*.c` | producer ring buffer (PRB), `written_id_array`, exit flags, the file | generate and put a block, put EXIT; sender: get, attach identifiers, send, drain; writer: get, write, append identifier, leave |
| message protocol | `concurrent.h`, the `MPI_Send`/`MPI_Recv` calls | the messages in order | long, mixed, disk and EXIT message |
| analysis process | `analysis_*.c` | consumer ring buffer (CRB), `prefetch_id_array`, exit flags, two states per buffer | receiver: receive, announce, put; reader: fetch, put; consumer: analyse, move the tail, free; writer: write, mark |
| start and end of both | `main.c`, `do_thread.c` | parameters, threads | create, join |
| Zipper for LAMMPS | `lbm_adios/zipper_lammps` | as above, with line counts beside the identifiers | as above; extraction of a step, polling readers |
| ElasticBroker | `src/c-clients`, called from its test driver and from `simpleFoam` | one connection per rank, number of queued replies | init, asynchronous and synchronous put, finalize |
| stamp transport (MPI-IO) | `all-transports/adios-all`: `adios_adaptor.c`, `run_lbm.c`, `adios_disk_read.c` | one file per step, the stamp file | write a step, stamp it, poll, broadcast, read |
| lock transport (DataSpaces, DIMES) | the same: `ds_adaptor.c`, `run_lbm.c`, `native_staging_read.c` | `DS_MAX_VERSION` locks, versions kept | lock, put, unlock; lock, get, unlock; flush |
| stream transports (ADIOS staging with Flexpath, DataSpaces or DIMES; Decaf) | `adios_staging_read.c`, `lammps-adios`, `all-transports/decaf` | step counters; the stream is in the library | put a step, close; open, read, release, advance; forward |
| LBM solver | `lbm_adios/lbm` | the distribution before and after streaming, ghost columns, first and last column | collision, streaming, 18 exchanges, boundary conditions, update |
| analyses, utilities, Spark and Python consumers | `nmoments-anal`, `msd-anal`, `utils`, `python`, `tests` | arrays of numbers | numerics, I/O |

How the threads interact. A compute process has one simulation thread, one
sender and (in every job script) one writer. The simulation thread fills the
PRB; sender and writer compete for the block at its tail under
`lock_ringbuffer`, sleeping on `empty` and `writer_on`, the simulation thread on
`full`. The writer leaves identifiers in `written_id_array` under
`lock_disk_id_arr`, and the sender attaches them to the next block it sends.
Whoever takes the EXIT block raises a flag that makes the other return; the
sender then spins on `writer_exit` and sends what is left.

An analysis process serves `computer_group_size` compute processes. The receiver
and the reader both fill the CRB; the consumer and the analysis writer both look
at the block at its tail, which leaves the buffer when it is both analysed
(`CALC_DONE`) and on disk (`ON_DISK`). The reader takes identifiers under
`lock_recv_disk_id_arr` and sleeps on `reader_on`. At the end the receiver tells
the reader (`recv_exit`), waits for its answer (`reader_exit`), and puts the last
EXIT block; the consumer counts EXIT blocks and tells the analysis writer
(`ana_writer_exit`).

What is hard: the end. Every component is told to stop by a flag that some other
thread raises outside the lock under which the flag is tested, EXIT has to
overtake nothing on either of the two paths, and no wakeup may be lost on the
way.

The LAMMPS variant is a second copy of the same threads with other wakeups:
sender and writer sleep on one condition, which every put broadcasts; a step
yields as many blocks as there are atoms for, an extraction may fail, and then
EXIT is never put; readers poll in place of sleeping; and identifiers travel as
pairs with line counts, at a place in the message that depends on the length of
the block before them.

An ElasticBroker rank appends commands to its connection and, when `queue_len`
are outstanding, reads all replies. `broker_finalize` reads the rest, after
which all ranks meet in reductions. What is hard: the count and the connection
must agree after every kind of failure, or somebody waits for a reply that does
not come and everybody waits for him.

The comparison transports move whole steps. With the stamp file the producer's
rank 0 overwrites one number that the reader's rank 0 polls while files are
being written; with the locks, names are reused every `DS_MAX_VERSION` steps
while the server evicts versions and a DIMES producer takes its versions with it
when it ends. Over a stream the library delivers the steps in order; what is left
to the programs is to count them (the rows of the mean square displacement are
indexed by that count), to survive a time-out between two steps, and to end after
the last step even when the producer gave up early.

The simulation is a chain of ranks. All barriers of its step are commented out,
so that neighbours are held together only by `MPI_Sendrecv`; the columns that are
exchanged lie beside the border of a rank, in two arrays, and a wrong one would
silently leave a value of another step.

`PROJECT.json` lists each such place under `hazards`, with its line. What makes
each component correct:

- compute process: it hands over every block once and ends with EXIT
  (`BlockStream`); everything announced is on disk; all threads return;
- analysis process: what comes in on either way is analysed once; a buffer is
  freed after its last use; it leaves when all sources have ended;
- ElasticBroker: success means stored, as far as the client looks at its
  connection; it never waits for a reply that is not coming;
- both together: a compute process sends nothing the analysis process does not
  expect, and their full buffers do not block each other;
- step transports: each step is published once, in order, and read by all after
  it is complete and before it is gone (`StepChannel`);
- LBM solver: the ranks compute what one lattice would, and neighbours are never
  more than a step apart (`LocalClocks`).

## 2. The modules

| module | models | code it stands for |
|---|---|---|
| `ZipperMessages` | the four messages, what they carry, and the rules of a stream | tags in `concurrent.h`, sends in `compute_sender.c` |
| `BlockStream` | abstract specification: a stream that hands over every block once and ends with EXIT | |
| `ComputeBroker` | one compute process | `compute_generator.c`, `compute_sender.c`, `compute_writer.c`, `run_module_lbm.c` |
| `ComputeInvariant`, `ComputeBrokerProofs` | its inductive invariant; its theorems | |
| `AnalysisBroker`, `AnalysisInvariant`, `AnalysisBrokerProofs` | one analysis process with a group of streams as environment; its inductive invariant, of which `CoreInv` is shared with LAMMPS; its theorems | `analysis_receiver.c`, `analysis_reader.c`, `analysis_consumer.c`, `analysis_writer.c` |
| `LammpsCompute` | extends `ComputeBroker` by the LAMMPS simulation thread and the changed wakeups | `zipper_lammps/run_module_lammps.cpp`, `concurrent.c`, `compute_*.c` |
| `LammpsComputeInvariant`, `LammpsComputeProofs` | the inductive invariant of `LammpsCompute`; its theorems | |
| `LammpsAnalysis` | extends `AnalysisBroker` by line counts, the polling reader and the changed wakeups | `zipper_lammps/analysis_*.c` |
| `LammpsAnalysisInvariant`, `LammpsAnalysisProofs` | the inductive invariant of `LammpsAnalysis`; its theorems | |
| `ElasticBroker`, `ElasticBrokerProofs` | all ranks of a simulation with their connections | `elastic_broker.cpp` and the loops of its callers, `test_put_mpi_foam.cpp` and `mySimpleFoam.C` |
| `StepChannel` | abstract specification: steps published in order, consumed in order by all readers | |
| `StepStamp` | the stamp transport | `adios_adaptor.c`, `run_lbm.c`, `adios_disk_read.c` |
| `VersionLock` | the lock transport | `ds_adaptor.c`, `run_lbm.c`, `native_staging_read.c` |
| `StepStream` | the stream transports | `adios_staging_read.c`, `lammps_adios_prod.cpp`, `lammps_adios_con.cpp`, `lbm_decaf.cpp`, `lammps_decaf.cpp` |
| `StepTransportProofs` | the invariants and theorems of the three transports, each by itself | |
| `LocalClocks` | abstract specification: processes count to a number, neighbours stay within one of each other | |
| `LbmSolver` | the simulation, driven without a transport | `lbm.c`, `lbm_buffer.c`, `test_lbm.c` |
| `Transports`, `TransportsProofs` | extends the four; `main` chooses one; the proofs about `LbmSolver` too | `run_lbm.c` |
| `Zipper`, `ZipperProofs` | extends `AnalysisBroker` by an instance of `ComputeBroker`, with the messages and the file system between them | `main.c`, `do_thread.c` |
| `MC...` | model values for TLC | |

Two ways of composing. `AnalysisBroker` by itself takes each compute process to be
a `BlockStream` (the guards `MayHandOver`, `MayFlush` and `MayClose` of
`ZipperMessages` are shared), which is what `ComputeBroker` is shown to implement,
by TLC and by proof; so it is checked against everything a compute process may
send. `Zipper` runs the two programs side by side: its receiver takes the messages
the sender has really sent, with the order of their identifiers, the variables of
the stream (`pending`, `announced`, `phase`) record what the receiver has been told,
and `SendReturned` holds the sender back while `MPI_Send` waits for the receiver.
That the receiver's guards never refuse a message is then a property
(`ReceiverAccepts`), not an assumption.

**State.** Variables carry the names of the C fields. A thread is a program
counter (`send_pc`, `write_pc[w]`, `receiver_pc`, ...); `waiting` is the set of
threads asleep in `pthread_cond_wait`. A signal wakes one sleeper, chosen
freely, and is lost when there is none; a broadcast wakes all; `SpuriousWakeup`
wakes anyone at any time, as POSIX allows. A block is its identifier, and in
`AnalysisBroker` a buffer is the pair of source and identifier, so that `free`
and a later use of the same buffer can be told apart.

**Atomicity.** One action per critical section, and one per access to a variable
another thread may change outside a lock: the test of `recv_exit` and the wait
after it are two actions, as are the final copy of `send_tail` and the
unlocked send of `written_id_array`, and the raising of `ana_writer_exit` and the
signal after it. `lock_recv_disk_id_arr` has an explicit holder, because
`get_disk_blk` returns with it held in one case.

**LAMMPS.** `LammpsCompute` replaces the simulation thread (`RunStep` chooses how
many of the remaining blocks the step yields, `ExtractFails` ends the steps,
`InsertZipper` puts a block, `StepDumped` counts the step, `GenerateExitMsg` or
`NoExitMsg` ends) and the two actions in which a thread that took EXIT wakes the
other. `LammpsAnalysis` gives every block a length in lines (`msg_lines`); the
receiver looks for the identifiers behind `dump_lines_in_this_blk` lines, the
length it knows from the message before, and finds the true count only when the
two agree. Otherwise `recv_int` is any number up to `MaxGarbage` and the
identifiers are any blocks. What the program does with a count far outside its
array is not modelled. `make_prefetch_id` writes at `recv_tail` and does not move
it; the three `Poll...` actions are one iteration of the reader, whose fourth
branch (take an entry) needs `recv_tail > 0`.

**ElasticBroker.** A rank is a program counter, its count `nr_queued` and its
connection: output buffer, commands under way, replies. `PutAsync` appends;
`DrainReply` and `DrainError` are one turn of the loop that reads a batch;
`SyncReply`, `SyncError` and `SyncEnds` that of `broker_finalize`; `LoopEnds` and
`Barrier` are the caller's. `Flush`, `Serve` and `Disconnect` are hiredis, the
server and the network. A record is the number of its step. `collective` says which
program runs: the driver, whose ranks stop when their time is over, or the solver,
whose steps are collective (`Solved`), so that a rank that leaves its loop after a
failed put holds up all others for ever.

A connection is `up`, then `down`, which nobody knows yet, then `failed`: hiredis has
set `c->err`, returns at once from every call and sends nothing any more. In the step
from `down` to `failed` (`GetReplyFails`) `redisCommand` returns NULL, and the put fails
(`CommandLost`). `redisGetReply` returns `REDIS_ERR` and does not write the reply.
`do_put_async` and `broker_finalize` ignore that status and test the pointer
(`elastic_broker.cpp:136`, `:256`). After the first reply of a batch it still holds
the reply before, which was no error: the lost record counts as stored (`DrainLost`,
`SyncLost`). At the first reply it was never set (`Unset`), and then anything may
happen: the same, a failure (`DrainLostFails`, `SyncLostFails`), or the end of the MPI
job (`Abort`).

**Stamp transport.** `InsertIntoAdios` writes one rank's part of a step, `Close`
returns when all ranks have written theirs, `UpdateAvailVersion` is rank 0's
rewriting of the stamp file, `NextStep` the barrier that follows. `ReadStamp` is
rank 0's poll, `BroadcastStamp` and `CheckStamp` the ranks' view of it,
`ReadStep` one step read. **Lock transport.** `LockOnWrite`, `Put`,
`PutSyncGroup`, `UnlockOnWrite` are one `put_common_buffer`; the `Flush...`
actions one turn of `ds_adaptor_flush_dimes`; `LockOnRead`, `Get`,
`UnlockOnRead` one `get_common_buffer`. Each failing call has an action of its
own that does what the error path does, which leaves the lock taken.

**Stream transports.** `AdvanceStep`, `PutStep` and `CloseStream` are the loop of any
of the producers and what follows it, `ExtractFailed` the way out of it that the
LAMMPS ones have. `Forward` is the dataflow task of Decaf. `OpenStream` is
`adios_read_open` or the first `decaf->get`; `ReadAndRelease` the reading, the
release and the analysis of a step; `Advanced` the next one or the end of the
stream. `AdvanceTimesOut` and `ReadAgain` are `lammps_adios_con.cpp` only, whose
loop takes everything but the end for a new step. ADIOS and Decaf are external;
`queue_size` is the `QUEUE_SIZE` of Flexpath. The variable `program` says which
pair of programs runs.

**LBM solver.** A rank is a program counter, the exchange it is in (`at`), the
bounds `s` and `e` the code narrows and widens during a step, and its columns. A
value is the pair of the step and the site of the whole lattice at which
`collision` computed it: what the code does to the numbers is left out, where they
go is kept. `Exchanges` is the table of the 18 calls; one call is `SendrecvStart`,
`SendrecvReceive`, `SendrecvReturn`, since its two halves proceed independently.
`wall` records what the reflection at the walls took from the next column (the code
mixes it into `df2`). Messages with the same tag of two steps share a channel.

**Operators under a "Faulty variant" comment** are mutations of the operator that
follows; each breaks one of the properties, which shows that the property
depends on the code.

## 3. What TLC checks

All bounds are in the `.cfg` files; the state spaces are explored completely.
Two bounds are not sizes of the system: `MaxGarbage` of `LammpsAnalysis` and
`max_timeouts` of `StepStream`.

| run | instance | shows |
|---|---|---|
| `compute_eager` | 4 blocks, PRB of 2, quota 2, threshold 0 | `BlocksConserved`, `ExitComesLast`, `AnnouncedIsOnDisk`, `IdArrayFits`, that the process implements `BlockStream`, that every thread returns, and the inductive invariant `IInv` (with `TypeOK` and the form of messages) |
| `zipper` | 2 blocks, PRB of 2, CRB of 1, quota 1, threshold 2 (the writer helps only with a full buffer, as in the job scripts), `MPI_Send` buffered or not | `ReceiverAccepts`, `ReaderFindsFile`, `EndToEnd`, `EveryBlockThrough` |
| `analysis_one_source` | 1 source, 3 blocks, quota 3, CRB of 2 | `ItemsConserved`, `NoUseAfterFree`, `PreservedBeforeFree`, the inductive invariant `AnalysisInv`; every block is analysed; once `reader_exit` is up everything ends |
| `analysis_two_sources` | 2 sources with 2 blocks and quota 1 each, CRB of 2 | `ConsumerLeavesLast` with two EXIT blocks, `PrefetchArrayFits` |
| `lammps_compute` | 2 steps over 4 blocks, PRB of 2, quota 2, threshold 2 | `ImplementsStream`, also when a step fails; the inductive invariant `LammpsComputeInv`; every thread returns once all steps have been dumped |
| `lammps_analysis` | 1 source, 3 blocks of two lengths, quota 2, CRB of 1 | `CarriedConserved`, the inductive invariant `LammpsAnalysisInv`, termination without announcements, `NoAnswerOnceCounted` |
| `elastic` | 2 ranks of the driver, pipelined or not, or of the solver; 5 records, queue of 2, refusals, broken links | `CountedUntilFailure`; `QueueBounded` and `SuccessMeansStored` unless hiredis has failed the link of a pipelined client; `Terminates` unless a pipelined record is refused or a put of the solver fails |
| `transports` | stamp: 2 + 2 ranks, 4 steps, the file may not open; locks: 7 steps, 3 locks, 3 versions, calls may fail; streams: 2 readers, 4 steps, queue of 2, an extraction may fail, one time-out between two steps; solver: 3 ranks of 7 columns, 3 steps | `ReadsComplete`, `GetFinds`, `CounterNamesStep`, `LikeOneLattice`; the three transports implement `StepChannel`, the solver `LocalClocks`; `AllStepsThrough` unless a call fails |
| `analysis_quota` | quota reached | *violates* `LeavingReaderTells` |
| `analysis_wakeup` | signal before the wait | *violates* `ReaderIsReleased` |
| `elastic_count` | 1 rank, an error reply | *violates* `QueuedCountsQueue` |
| `lammps_lines` | blocks of two lengths | *violates* `RecvIntIsSendCounter` |

Why the bounds are enough. The ring buffers are smaller than the number of
items that pass through, so indices wrap, the buffers run full and empty, and
every thread waits on its condition; quotas lie below, at and above what the
other thread leaves; messages carry no, one and several identifiers, in every
order; with two sources the EXIT message of one overtakes blocks of the other.
With 5 records and a queue of 2 a pipelined rank drains twice and leaves one
reply to `broker_finalize`, and failures fall into each batch, between batches and
into `broker_finalize`. Seven steps reuse each of the three locks at least twice
and end away from lock 0, so that the flush wraps. Two ranks on each side of the
stamp file are a root and another. With `MaxGarbage` 2 a misread count is too
small, right or too large. In `zipper` the two blocks and EXIT do not fit into
either buffer at once, and the blocks travel both in memory, or one of them in a
mixed or a disk message. The streams hold fewer steps than there are, so that the
producer waits; a time-out can fall between any two steps, and more in a row change
nothing but a counter nobody reads. Three ranks of the simulation are a left end, a
right end and one with two neighbours; 7 columns are the least that leave the end
ranks a column of their own to update; with three steps a rank can be a step ahead
of a neighbour that is itself ahead of the third. What the instances cannot show
about sizes, the proofs cover for the safety properties of every module.

Some properties are conditional because the code is. `QueueBounded` and
`SuccessMeansStored` end where `Blind` begins, with a pipelined client whose link
hiredis has failed. Such a client counts lost records as stored, goes on appending
to an output buffer that is never sent, and may return 0 from every call: the
properties without the condition are false, as TLC shows at once. A client that
waits for every reply has them without it. `Terminates` claims nothing after a failed
put of the solver, whose other ranks are left in their collectives
(`mySimpleFoam.C:129-136`). The others are LAMMPS's
`EndsOnceAllDumped`, as without EXIT the sender waits for ever and
`run_module_lammps` gives up EXIT when an extraction fails; and
`EndsWithoutFiles`, as the receiver never gets an answer once an entry is counted
(`NoAnswerOnceCounted`): readers take entries only when `recv_tail > 0`, which only
a reader would make it. `cpt_total_blks` of the LAMMPS variant is a guess in the
code; here it is the number of blocks the simulation really yields, and the
thousandths make any quota up to it.

The four violations are disagreements of the code with its own comments, listed
in `PROJECT.json` under `findings`:

1. `zipper/analysis_receiver.c:306` waits "till reader finish". A reader that
   reaches its quota leaves at `analysis_reader.c:234`, before the lines that raise
   `reader_exit`; the receiver spins for ever.
2. The same wait: `recv_exit` is set and signalled without the lock, so the reader
   may miss the wakeup and sleep for ever (`ReaderIsReleased` allows the reader to
   leave as in 1). `EndsAfterReaderExit` shows that the
   end has no other hazard: once `reader_exit` is up all threads return. In `zipper`
   these two findings are why `EveryBlockThrough` promises the end of the compute
   program and the analysis of every block, but not the end of the analysis program.
3. `elastic_broker.h:41` says what `nr_queued` counts. On an error reply the loop
   breaks after the reply was taken and before it is counted
   (`elastic_broker.cpp:146`), and `broker_finalize` waits for one reply too many.
4. `zipper_lammps/analysis_receiver.c:184` expects the sender's count. It looks
   behind as many lines as the *previous* block had (line 183).

**Fairness.** Weak fairness for each thread: the operating system keeps running a
thread that can run. `AnalysisBroker` also has weak fairness for the environment
inside the receiver's actions (the compute processes do reach EXIT: that is
`Terminates` of `ComputeBroker`) and strong fairness for taking
`lock_recv_disk_id_arr`, which holds for the mutexes the code uses as long as a
waiter is not overtaken for ever. The LAMMPS modules are the same, with the
simulation thread in place of the generator. In `ElasticBroker` each client keeps
running, which includes that a call on a broken connection fails some time, and the
server keeps serving each connection that stands; nothing is assumed of refusals
and of when links break. In `Transports` every program, and every rank
of the simulation, keeps running, and Decaf's dataflow task keeps forwarding.
`Zipper` has the fairness of its two parts without that of the environment: the
messages are there because the compute process is. No fairness is assumed of wakeups, spurious or not, nor of
anything that fails.

Deadlock is checked except in `elastic` and `transports`: after a refusal a client may
wait in `broker_finalize` (finding 3), after a failed put the solver waits, and after a failed call of a transport one of
the two programs may wait for the other. `Finished` lets a process stutter after
`main` has joined all threads.

## 4. What is proved

`ComputeBrokerProofs` proves, for every number of blocks, buffer size, quota and
threshold, and for any one writer thread (`OneWriter`):

- `Invariant`: `Spec => []IInv`;
- `TypeCorrect`, `Conservation`, `ExitLast`, `AnnouncedOnDisk`,
  `IdArrayNeverOverflows`, `WellformedMessages`: the invariants TLC checks, by
  themselves or as parts of `IInv`;
- `Implementation`: `Spec => ImplementsStream`, the refinement of `BlockStream`.

The assumptions are those of `ComputeAssumption` (sizes are natural numbers, the
threads' names differ). `OneWriter` is needed: with several writers the first to
leave raises the one `writer_exit` flag while another may still hold a block, so
`ExitComesLast` is false. No job script starts more than one.

The argument. None of the properties is inductive. `IInv` adds, as named parts:

- `RingInv`: the PRB holds the items put and not yet taken, in order. Items
  are numbered by the puts, so that "what was taken" is an initial segment:
  `{b \in Blocks : b < Pops}`;
- `ExitInv`: who has the EXIT block, and that one thread only has it. This is
  where the double decrement matters: `num_avail_elements` is -1 exactly when
  EXIT has been counted twice, and then nobody takes anything any more;
- `HandInv`: what each thread holds at each program counter;
- `QuotaInv`: the writer's count bounds everything that was ever on disk, hence
  every use of `written_id_array`;
- `IdInv`: waiting identifiers are distinct and on disk;
- `PlaceInv`: the taken blocks are partitioned into the sender's hand, the
  writer's hand, the array, the copies of it and the messages;
- `SentInv`: the messages are well formed and EXIT is last.

There is one lemma per action; `StepInv` collects them. The refinement maps the
pending blocks to those no message delivers; each send is one step of the
stream, all other steps stutter.

`StepTransportProofs` has three parts, of which the first proves of `StepStamp`, for
every set of ranks on both sides and every number of steps, whether or not the stamp
file opens: `StampInvariant`, `OnlyCompleteRead` (`ReadsComplete`), `NeverBack`
(`VersionNeverGoesBack`) and `StampImplementation` (the refinement of `StepChannel`).
The assumptions are those of `StampAssumption`. `StampInv` strengthens `ReadsComplete`
by three facts: a rank is in the loop only while it has steps left (`InLoop`); the
stamp has followed rank 0 of the producer up to its current step (`StampInStep`), and
everything up to the stamp is complete (`StampedComplete`), because closing a file is
collective; and the readers are behind the stamp and behind their rank 0
(`ReadersBehind`). The delicate point is the stamp -2 of the last step, which reads as
`nsteps - 1`.

`AnalysisBrokerProofs` proves, for every number of sources, blocks, slots of the
CRB, readers and analysis writers, every quota, with and without KEEP:
`AnalysisInvariant_Holds`, `AnalysisTypes`, `ItemsStayWhole` (`ItemsConserved`),
`Preserved` (`PreservedBeforeFree`) and `ArrayFits` (`PrefetchArrayFits`). Two need
what the job scripts configure: `NoUse` (`NoUseAfterFree`) at most one analysis
writer, since a second one could free the buffer the first still writes
(`SingleWriter`); `LeavesLast` (`ConsumerLeavesLast`) at most one reader, since the
first to leave raises the one `reader_exit` flag (`SingleReader`). The invariant is
proved without them: they guard the two conjuncts that depend on them. Its parts:

- `StreamInv` and `ReceiverInv`: what the sources have done, and what the receiver
  holds at each program counter; after `recv_exit` that is an EXIT or nothing;
- `IdInv`: an identifier is in `prefetch_id_array` at most once, and its length is the
  entries taken plus those available, hence at most the quota;
- `ReaderInv`: no two readers hold the same block;
- `RingInv`: the CRB holds items, each once;
- `ConsumerInv`, `WriterInv`: the pointer of the consumer is the tail, and so is what a
  writer holds; what is `CALC_DONE` has left the ring or is about to, what has left it is
  `ON_DISK`. From these two follows that a buffer is released once and not used after;
- `PlaceInv`: the items handed over are partitioned into the hands, array and ring;
- `EndInv`: the one reader leaves nothing behind, so the last EXIT is put last.

`ZipperProofs` composes the two processes, for one writer thread on the compute side
(`OneComputeWriter`). `AnalysisBroker` assumes that its environment sends what
`BlockStream` allows; `ComputeBrokerProofs` has a lemma for that
(`OnlyAllowed`), but a receiver sees a message long after it was sent. So
`ZipperInv` is the two inductive invariants, with two parts about the channel:
`MessagesInv`, each message sent can be taken once those before it have been, and
`ReceivedInv`, the receiver's variables `pending`, `announced` and `phase` are what the
messages it has taken say. A send extends the first by `OnlyAllowed`, a receive
moves the second on by the first, all other steps are those of one process. From it
follow `Accepted` (`ReceiverAccepts`), `FileFound` (`ReaderFindsFile`),
`NothingLostBetween` (`EndToEnd`) and `BothProcesses`: the composition implements
both of its parts, so that their theorems carry over (`AnalysedAndReleased` says so for
two of them). `ZipperAssumption` repeats what `ComputeBroker` assumes of its constants.

`ElasticBrokerProofs` proves, for any number of ranks and records and any queue
length, for driver and solver, whatever the server refuses and whichever links break:
`ElasticInvariant`, `ElasticTypeOK`, `Counted` (`CountedUntilFailure`), `Bounded`
(`QueueBounded`) and `StoredOnSuccess` (`SuccessMeansStored`), the last two with their
condition `Blind`. `RankInv` has four parts for each rank: where it
can be (`Progress`); that `nr_queued` less the replies `broker_finalize` has read
bounds what is outstanding until hiredis has failed the link, and equals it while the
link stands and nothing has failed (`Counts`); that, as long as no call has failed,
noticed or not (`Trusted`), the stream holds the records of the replies read,
and of those that can be read before the first error (`Stored`); and that without an
error the commands under way are the next records (`Follow`). After a failed link only
the order of the counters remains (`LostInv`), whatever the pointer was. A link of a
client that waits for its replies fails only with a put, hence its properties need no
condition. `Stored` is the delicate one: it holds past errors, when the
replies and the records no longer match.

The part on `VersionLock` proves, for any number of steps and lock names and at least as many
versions as names, for DataSpaces and DIMES, when any call may fail: `LockInvariant`,
`VersionFound` (`GetFinds`) and `LockImplementation` (`StepChannel`). A lock is
named by a step modulo `DS_MAX_VERSION`, so what is proved is arithmetic on remainders
(`SameRemainder`, `NextRemainder`) under `UnreadInv`: a step that is put and not read
keeps its lock to be read and its version in the store, and the producer is at most
`DS_MAX_VERSION` ahead of it. `FreeInv` says which locks wait for the producer.

The part on `StepStream` proves, for any number of readers, steps, queued steps and
time-outs: `StreamInvariant`, `CounterNames` (`CounterNamesStep`) and
`StreamImplementation` (`StepChannel`). `OnItsWay` is the order of everything between the
producer and a reader, through the dataflow task if there is one; `Count` bounds how
far the counter of `lammps_adios_con.cpp` runs ahead of the steps it has read.

`TransportsProofs` proves, for any number of ranks, any width from 7 columns on and any
number of steps: `SolverInvariant`, `OneLattice` (`LikeOneLattice`) and
`SolverImplementation` (`LocalClocks`). `OnItsLink` is the heart: the messages on a
link with one tag are those of the steps the sender has reached and the receiver has
not, in order, although messages of two steps share a tag. `Halo`, `Streamed` and
`Collided` follow the columns through the phases. `TransportsTypes`, `TransportsSafe`
and `TransportsImplementation` put the invariants of the three transports and the
solver together: in the composition they share no variable, so each step is a step
of one part and a stutter of the others.

`LammpsComputeProofs` proves, for any sizes, quota and threshold, whatever number of
blocks a step yields and whether or not an extraction fails: `LammpsInvariant`,
`LammpsConservation` (`BlocksConserved`, `AnnouncedIsOnDisk`, `IdArrayFits`),
`LammpsExitLast` (`ExitComesLast`) and
`LammpsImplementation` (`ImplementsStream`). Each step of `LammpsCompute` is one of
`ComputeBroker` but for the threads it wakes, so the lemmas of `ComputeBrokerProofs` are
stated without the wakeups and hold for both. What is new is the simulation thread,
which puts EXIT itself: by `SimInv` it does so only after the last block. That takes
two assumptions: `OneWriter`, as before, and `AllStepsExpected`,
`nsteps <= total_num_dump_steps`. The first counts the steps LAMMPS runs, the
second those EXIT is put after; with fewer of the latter EXIT would come too early. The
job scripts justify it: `zipper_lammps/scripts_stampede2/common.sh` passes the same
`NSTOP` for both (lines 101 and 198), with a dump at every step.

`LammpsAnalysisProofs` proves, for any number of sources, blocks, slots, readers and
writers, every quota and any misread count: `LammpsAnalysisInvariant_Holds`,
`CarriedStaysWhole` (`CarriedConserved`), `LammpsPreserved` (`PreservedBeforeFree`),
`CountedIsNeverAnswered` (`NoAnswerOnceCounted`) and, with at most one writer
(`SingleWriter`), `LammpsNoUse` (`NoUseAfterFree`). `CoreInv` is what the invariant
shares with `AnalysisInv`: the streams, the ring, the consumer and the writers; the lemmas
on it in `AnalysisBrokerProofs` hold for any step that hands over or takes out
an item as both copies do. The identifiers cannot be shared, since a misread count
puts more or fewer of them into the array than were announced. `PollInv` takes their
place: `recv_tail` stays 0, so no reader ever takes an entry, and what gets
into the ring came over MPI (`CarriedInv`). For the same reason `reader_exit` implies
that nothing is counted, and what is counted stays counted.

Only model-checked: the liveness properties (`Terminates` of `ComputeBroker` and of
`ElasticBroker`, `EveryBlockThrough`, `EndsAfterReaderExit`, `EveryBlockAnalysed`,
`AllStepsThrough`, `EndsOnceAllDumped`, `EndsWithoutFiles`), as liveness under fairness
and ENABLED are out of the prover's reach. Every safety property of a passing run is
stated by a theorem. Not proved, because false, are the properties that name one writer or
one reader when there are several of them. No theorem rests on an induction over data: ring
buffers and queues are described by what is at each place, not by a recursive function.

## 5. What is not modelled

- The data of a block, its step and cube coordinates, timing, statistics and
  printing; `malloc` never fails; the file is the set of blocks in it.
- MPI: messages of one source arrive in order and are not lost, as MPI guarantees.
  Where it matters whether a send waits for its receiver, both cases are checked
  (`buffered` in `Zipper` and `LbmSolver`); a library that buffers some messages and
  not others is not.
- `Zipper` has one compute process. What several of them send is covered by
  `AnalysisBroker`, whose streams are independent of each other.
- In the solver: the numbers, the directions that do not cross a rank's columns, and
  the lines of a plane. A ghost column of `df1` stands for the wall lines of it that are
  exchanged, the only ones that are read.
- `lbm_init` succeeds. (A rank on which it fails goes to its cleanup before the first step.)
- In the transports: the keep option of the readers, which writes the steps they read
  to a file of their own; the part of the array each reader rank selects; an extraction
  that fails on some ranks only, which leaves the collective calls of the others to ADIOS
  and Decaf. The LAMMPS producer over the stamp transport calls the functions modelled in
  `StepStamp`; after a failed extraction it stamps no last step, and its reader polls for
  ever, as after `StampNotOpened`.
- More than one writer thread of either kind, or reader: the parameters allow it,
  the job scripts do not use it, and the code is not made for it (`hazards`).
- 32-bit overflow of `cpt_total_blks*writer_thousandth` (`main.c:129`).
- The components marked `not_modelled` in `PROJECT.json`: the analyses are sequential
  arithmetic on one block or step, the Spark and Python consumers numerical
  post-processing without a protocol of their own, utilities and scripts I/O and
  configuration.

What is assumed of code outside the repository. *hiredis and Redis*: commands are
answered in order, one reply each; replies that have arrived can be read after a break;
without one `redisCommand` returns NULL, `redisGetReply` leaves the reply pointer as it
is, and after the first failure (`c->err`) nothing is sent or read. *MPI*: the barrier
a rank of the solver enters after a failed put and the collectives the others are in
do not match, which is taken for waiting for ever. The driver is built without
`APP_HAS_BARRIER`.
*DataSpaces*: locks are of type 2 (`scripts/native_staging.sh`), which alternate
between writer and reader; `max_versions` is 3 there and `DS_MAX_VERSION` 3 in
`CMakeLists.txt`; taking a lock is collective, so a program is one process; a
DIMES producer keeps its versions until it synchronises their group or ends.
*ADIOS*: opening and closing a file is
collective; a stream delivers its steps in order to each reader, then its end, and its
producer waits while a reader has `queue_size` steps to release; after a time-out
there is no current step, so that reading and releasing once more do nothing. A get of
DataSpaces fails only when its version is not there. *Decaf*: `put` and
`get` keep the order, and `get` returns false after the quit message of `terminate`. `BARRIER_STAMP` is on, as in
`CMakeLists.txt`. An empty stamp file reads like a missing one, and no stamp of an
earlier run is there.

## 6. Plan

1. Compute process and its stream, analysis process, `Zipper`: done, with proofs.
2. `ElasticBroker`: done, with proofs.
3. The three transports and the solver: done, with proofs.
4. LAMMPS variant: done, with proofs on the lemmas of 1.
