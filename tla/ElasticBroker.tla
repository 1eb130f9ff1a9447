---------------------------- MODULE ElasticBroker ----------------------------
(***************************************************************************)
(* The ElasticBroker client (src/c-clients/elastic_broker.cpp): every MPI  *)
(* rank of a simulation writes one record per step to a Redis stream of    *)
(* its own.  With a queue length the writes are pipelined: commands are    *)
(* appended to the output buffer of the connection, and once queue_len of  *)
(* them are outstanding the client reads all their replies.                *)
(*                                                                         *)
(* hiredis and the Redis server are external.  A command appended stays in *)
(* the output buffer until the client waits for a reply; the server takes  *)
(* commands in order and answers each, with an error where it cannot store *)
(* the record.  On a broken connection redisCommand returns NULL, but      *)
(* redisGetReply returns a status, which the client ignores, and leaves    *)
(* the pointer it should set to the reply as it was.                       *)
(*                                                                         *)
(* Two programs use the client: a solver whose loop is full of collective  *)
(* calls (mySimpleFoam.C), and a test driver whose ranks run on their own  *)
(* for a given time (test_put_mpi_foam.cpp).                               *)
(***************************************************************************)
EXTENDS Integers, Sequences, FiniteSets, Functions

CONSTANTS
  Ranks,        \* the MPI ranks, each with its own connection and stream
  nr_steps,     \* records each rank writes, at most
  queue_len,    \* the queue length of an asynchronous connection
  ServerFails,  \* the server may answer a command with an error
  LinkFails     \* a connection may break

ASSUME ElasticAssumption ==
  /\ Ranks # {} /\ IsFiniteSet(Ranks)
  /\ nr_steps \in Nat
  /\ queue_len \in Nat \ {0}
  /\ ServerFails \in BOOLEAN
  /\ LinkFails \in BOOLEAN

VARIABLES
  is_async,    \* broker_init_async was used, as the environment says
  collective,  \* the program is the solver
  pc,          \* where each rank is
  step,        \* records it has put so far
  put_failed,  \* broker_put has returned -1
  nr_queued,   \* context->nr_queued
  synced,      \* replies broker_finalize has read
  status,      \* what broker_finalize returns
  obuf,        \* commands in the output buffer
  wire,        \* commands on their way to the server
  replies,     \* replies the client has not read
  stream,      \* the records the server has stored
  link,        \* the connection: up, down, or failed once hiredis has set c->err
  aborted      \* a rank has used a pointer that was never set

clientVars == <<is_async, collective, pc, step, put_failed, nr_queued, synced, status>>
linkVars   == <<obuf, wire, replies, stream, link>>
vars       == <<clientVars, linkVars, aborted>>

Records == 0..(nr_steps - 1)

TypeOK ==
  /\ is_async \in BOOLEAN /\ collective \in BOOLEAN /\ aborted \in BOOLEAN
  /\ pc \in [Ranks -> {"run", "command", "drain", "barrier", "sync", "stats", "done"}]
  /\ step \in [Ranks -> 0..nr_steps]
  /\ put_failed \in [Ranks -> BOOLEAN]
  /\ nr_queued \in [Ranks -> 0..nr_steps]
  /\ synced \in [Ranks -> 0..nr_steps]
  /\ status \in [Ranks -> {0, -1}]
  /\ obuf \in [Ranks -> Seq(Records)]
  /\ wire \in [Ranks -> Seq(Records)]
  /\ replies \in [Ranks -> Seq({"id", "error"})]
  /\ stream \in [Ranks -> Seq(Records)]
  /\ link \in [Ranks -> {"up", "down", "failed"}]

\* The solver calls broker_init, the driver one or the other.
Init ==
  /\ is_async \in BOOLEAN
  /\ collective \in BOOLEAN
  /\ collective => ~is_async
  /\ aborted = FALSE
  /\ pc = [r \in Ranks |-> "run"]
  /\ step = [r \in Ranks |-> 0]
  /\ put_failed = [r \in Ranks |-> FALSE]
  /\ nr_queued = [r \in Ranks |-> 0]
  /\ synced = [r \in Ranks |-> 0]
  /\ status = [r \in Ranks |-> 0]
  /\ obuf = [r \in Ranks |-> <<>>]
  /\ wire = [r \in Ranks |-> <<>>]
  /\ replies = [r \in Ranks |-> <<>>]
  /\ stream = [r \in Ranks |-> <<>>]
  /\ link = [r \in Ranks |-> "up"]

Goto(r, l) == pc' = [pc EXCEPT ![r] = l]

-----------------------------------------------------------------------------
(* hiredis and the server.                                                  *)

\* redisGetReply with nothing to read sends the whole output buffer first; on
\* a connection that is down nobody gets it.
Flush(r) ==
  /\ pc[r] \in {"command", "drain", "sync"}
  /\ link[r] # "failed"
  /\ replies[r] = <<>>
  /\ obuf[r] # <<>>
  /\ wire' = [wire EXCEPT ![r] = IF link[r] = "up" THEN @ \o obuf[r] ELSE @]
  /\ obuf' = [obuf EXCEPT ![r] = <<>>]
  /\ UNCHANGED <<clientVars, replies, stream, link, aborted>>

Serve(r) ==
  /\ wire[r] # <<>>
  /\ wire' = [wire EXCEPT ![r] = Tail(@)]
  /\ \/ /\ stream' = [stream EXCEPT ![r] = Append(@, Head(wire[r]))]
        /\ replies' = [replies EXCEPT ![r] = Append(@, "id")]
     \/ /\ ServerFails
        /\ replies' = [replies EXCEPT ![r] = Append(@, "error")]
        /\ UNCHANGED stream
  /\ UNCHANGED <<clientVars, obuf, link, aborted>>

\* What was under way is lost.
Disconnect(r) ==
  /\ LinkFails
  /\ link[r] = "up"
  /\ link' = [link EXCEPT ![r] = "down"]
  /\ wire' = [wire EXCEPT ![r] = <<>>]
  /\ \E n \in 0..Len(replies[r]) : replies' = [replies EXCEPT ![r] = SubSeq(@, 1, n)]
  /\ UNCHANGED <<clientVars, obuf, stream, aborted>>

\* redisGetReply has a reply to return.
Answered(r) == replies[r] # <<>> /\ Head(replies[r]) = "id"
Refused(r)  == replies[r] # <<>> /\ Head(replies[r]) = "error"

\* redisGetReply has none and never will: it cannot write, or cannot read.
\* From then on it fails at once, and the output buffer is never sent.
GetReplyFails(r) ==
  /\ replies[r] = <<>>
  /\ link[r] # "up"
  /\ link' = [link EXCEPT ![r] = "failed"]
  /\ UNCHANGED <<obuf, wire, replies, stream>>

TakeReply(r) == replies' = [replies EXCEPT ![r] = Tail(@)]

-----------------------------------------------------------------------------
(* The simulation and broker_put.                                           *)

\* Faulty variant: the count is tested before it is raised.
PutAsyncDrainsLate(r) ==
  /\ is_async
  /\ pc[r] = "run"
  /\ step[r] < nr_steps
  /\ ~put_failed[r]
  /\ obuf' = [obuf EXCEPT ![r] = Append(@, step[r])]
  /\ step' = [step EXCEPT ![r] = @ + 1]
  /\ nr_queued' = [nr_queued EXCEPT ![r] = @ + 1]
  /\ Goto(r, IF nr_queued[r] = queue_len THEN "drain" ELSE "run")
  /\ UNCHANGED <<put_failed, synced, status, wire, replies, stream, link>>

\* do_put_async, up to the test of the queue length.
PutAsync(r) ==
  /\ is_async
  /\ pc[r] = "run"
  /\ step[r] < nr_steps
  /\ ~put_failed[r]
  /\ obuf' = [obuf EXCEPT ![r] = Append(@, step[r])]
  /\ step' = [step EXCEPT ![r] = @ + 1]
  /\ nr_queued' = [nr_queued EXCEPT ![r] = @ + 1]
  /\ Goto(r, IF nr_queued[r] + 1 = queue_len THEN "drain" ELSE "run")
  /\ UNCHANGED <<put_failed, synced, status, wire, replies, stream, link>>

\* Faulty variant: the counter is reset after the first reply.
DrainReplyResets(r) ==
  /\ pc[r] = "drain"
  /\ Answered(r)
  /\ TakeReply(r)
  /\ nr_queued' = [nr_queued EXCEPT ![r] = 0]
  /\ Goto(r, "run")
  /\ UNCHANGED <<step, put_failed, synced, status, obuf, wire, stream, link>>

\* Faulty variant: one reply too many is waited for.
DrainReplyOneMore(r) ==
  /\ pc[r] = "drain"
  /\ Answered(r)
  /\ TakeReply(r)
  /\ nr_queued' = [nr_queued EXCEPT ![r] = IF @ = 0 THEN 0 ELSE @ - 1]
  /\ Goto(r, IF nr_queued[r] = 0 THEN "run" ELSE "drain")
  /\ UNCHANGED <<step, put_failed, synced, status, obuf, wire, stream, link>>

DrainReply(r) ==
  /\ pc[r] = "drain"
  /\ Answered(r)
  /\ TakeReply(r)
  /\ nr_queued' = [nr_queued EXCEPT ![r] = @ - 1]
  /\ Goto(r, IF nr_queued[r] = 1 THEN "run" ELSE "drain")
  /\ UNCHANGED <<step, put_failed, synced, status, obuf, wire, stream, link>>

\* Faulty variant: an error counts as a reply.
DrainErrorIgnored(r) ==
  /\ pc[r] = "drain"
  /\ Refused(r)
  /\ TakeReply(r)
  /\ nr_queued' = [nr_queued EXCEPT ![r] = @ - 1]
  /\ Goto(r, IF nr_queued[r] = 1 THEN "run" ELSE "drain")
  /\ UNCHANGED <<step, put_failed, synced, status, obuf, wire, stream, link>>

\* The refused command is not counted down.
DrainError(r) ==
  /\ pc[r] = "drain"
  /\ Refused(r)
  /\ TakeReply(r)
  /\ put_failed' = [put_failed EXCEPT ![r] = TRUE]
  /\ Goto(r, "run")
  /\ UNCHANGED <<step, nr_queued, synced, status, obuf, wire, stream, link>>

\* The pointer `reply' of do_put_async is not initialised and the status of
\* redisGetReply not looked at.  After a failure it is what it was: the reply
\* before, which was no error and was not freed, or, at the first reply of a
\* batch, anything.
Unset(r) ==
  \/ pc[r] = "drain" /\ nr_queued[r] = queue_len
  \/ pc[r] = "sync" /\ synced[r] = 0 /\ nr_queued[r] > 0

\* It passes for a reply.
DrainLost(r) ==
  /\ pc[r] = "drain"
  /\ GetReplyFails(r)
  /\ nr_queued' = [nr_queued EXCEPT ![r] = @ - 1]
  /\ Goto(r, IF nr_queued[r] = 1 THEN "run" ELSE "drain")
  /\ UNCHANGED <<step, put_failed, synced, status>>

\* It is NULL or passes for an error.
DrainLostFails(r) ==
  /\ pc[r] = "drain"
  /\ Unset(r)
  /\ GetReplyFails(r)
  /\ put_failed' = [put_failed EXCEPT ![r] = TRUE]
  /\ Goto(r, "run")
  /\ UNCHANGED <<step, nr_queued, synced, status>>

\* It points nowhere, and the rank takes the whole MPI job with it.
Abort(r) ==
  /\ ~aborted
  /\ Unset(r)
  /\ GetReplyFails(r)
  /\ aborted' = TRUE
  /\ UNCHANGED clientVars

\* All ranks have got through the solver's step, which is collective; one that
\* has left the loop never does.
Solved(r) ==
  \A q \in Ranks :
    step[q] > step[r] \/ (step[q] = step[r] /\ pc[q] = "run" /\ ~put_failed[q])

\* redisCommand appends and waits for the reply.
PutSync(r) ==
  /\ ~is_async
  /\ collective => Solved(r)
  /\ pc[r] = "run"
  /\ step[r] < nr_steps
  /\ ~put_failed[r]
  /\ obuf' = [obuf EXCEPT ![r] = Append(@, step[r])]
  /\ step' = [step EXCEPT ![r] = @ + 1]
  /\ Goto(r, "command")
  /\ UNCHANGED <<put_failed, nr_queued, synced, status, wire, replies, stream, link>>

CommandReply(r) ==
  /\ pc[r] = "command"
  /\ Answered(r) \/ Refused(r)
  /\ TakeReply(r)
  /\ put_failed' = [put_failed EXCEPT ![r] = Refused(r)]
  /\ Goto(r, "run")
  /\ UNCHANGED <<step, nr_queued, synced, status, obuf, wire, stream, link>>

\* redisCommand returns NULL.
CommandLost(r) ==
  /\ pc[r] = "command"
  /\ GetReplyFails(r)
  /\ put_failed' = [put_failed EXCEPT ![r] = TRUE]
  /\ Goto(r, "run")
  /\ UNCHANGED <<step, nr_queued, synced, status>>

\* A rank leaves its loop when broker_put has failed, at the last step of the
\* solver, or when the time of the driver is over.
LoopEnds(r) ==
  /\ pc[r] = "run"
  /\ put_failed[r] \/ step[r] = nr_steps \/ ~collective
  /\ Goto(r, "barrier")
  /\ UNCHANGED <<step, put_failed, nr_queued, synced, status, linkVars>>

-----------------------------------------------------------------------------
(* broker_finalize, which every caller enters after a barrier.              *)

Barrier(r) ==
  /\ pc[r] = "barrier"
  /\ \A q \in Ranks : pc[q] \notin {"run", "command", "drain"}
  /\ Goto(r, IF is_async THEN "sync" ELSE "stats")
  /\ UNCHANGED <<step, put_failed, nr_queued, synced, status, linkVars>>

SyncReply(r) ==
  /\ pc[r] = "sync"
  /\ synced[r] < nr_queued[r]
  /\ Answered(r)
  /\ TakeReply(r)
  /\ synced' = [synced EXCEPT ![r] = @ + 1]
  /\ UNCHANGED <<pc, step, put_failed, nr_queued, status, obuf, wire, stream, link>>

SyncError(r) ==
  /\ pc[r] = "sync"
  /\ synced[r] < nr_queued[r]
  /\ Refused(r)
  /\ TakeReply(r)
  /\ status' = [status EXCEPT ![r] = -1]
  /\ Goto(r, "stats")
  /\ UNCHANGED <<step, put_failed, nr_queued, synced, obuf, wire, stream, link>>

\* The same pointer in broker_finalize.
SyncLost(r) ==
  /\ pc[r] = "sync"
  /\ synced[r] < nr_queued[r]
  /\ GetReplyFails(r)
  /\ synced' = [synced EXCEPT ![r] = @ + 1]
  /\ UNCHANGED <<pc, step, put_failed, nr_queued, status>>

SyncLostFails(r) ==
  /\ pc[r] = "sync"
  /\ Unset(r)
  /\ GetReplyFails(r)
  /\ status' = [status EXCEPT ![r] = -1]
  /\ Goto(r, "stats")
  /\ UNCHANGED <<step, put_failed, nr_queued, synced>>

SyncEnds(r) ==
  /\ pc[r] = "sync"
  /\ synced[r] >= nr_queued[r]
  /\ Goto(r, "stats")
  /\ UNCHANGED <<step, put_failed, nr_queued, synced, status, linkVars>>

\* broker_print_stats is collective: it reduces over all ranks.
PrintStats(r) ==
  /\ pc[r] = "stats"
  /\ \A q \in Ranks : pc[q] \in {"stats", "done"}
  /\ Goto(r, "done")
  /\ UNCHANGED <<step, put_failed, nr_queued, synced, status, linkVars>>

-----------------------------------------------------------------------------
Client(r) ==
  /\ ~aborted
  /\ \/ Flush(r)
     \/ PutAsync(r) \/ DrainReply(r) \/ DrainError(r) \/ DrainLost(r) \/ DrainLostFails(r)
     \/ PutSync(r) \/ CommandReply(r) \/ CommandLost(r)
     \/ LoopEnds(r) \/ Barrier(r)
     \/ SyncReply(r) \/ SyncError(r) \/ SyncLost(r) \/ SyncLostFails(r) \/ SyncEnds(r)
     \/ PrintStats(r)
  /\ UNCHANGED <<is_async, collective, aborted>>

AllDone == \A r \in Ranks : pc[r] = "done"
Ended   == AllDone \/ aborted

Next ==
  \/ \E r \in Ranks : Client(r) \/ Abort(r) \/ Serve(r) \/ Disconnect(r)
  \/ Ended /\ UNCHANGED vars

Spec == Init /\ [][Next]_vars

\* Ranks keep running and the server keeps answering.
FairSpec == Spec /\ \A r \in Ranks : WF_vars(Client(r)) /\ WF_vars(Serve(r))

-----------------------------------------------------------------------------
(* Properties.                                                              *)

Outstanding(r) == Len(obuf[r]) + Len(wire[r]) + Len(replies[r])

\* nr_queued counts "items [that have] been put into the queue": the commands
\* whose replies have not been read, whenever the simulation is running.
QueuedCountsQueue ==
  \A r \in Ranks : is_async /\ link[r] = "up" /\ pc[r] \in {"run", "barrier"} =>
    nr_queued[r] = Outstanding(r)

\* The same as long as no put has failed, also while replies are being read:
\* both loops read exactly as many replies as there are commands, so neither
\* waits for a reply that does not come.
CountedUntilFailure ==
  \A r \in Ranks : is_async /\ link[r] = "up" /\ ~put_failed[r] /\ status[r] = 0 =>
    nr_queued[r] - synced[r] = Outstanding(r)

\* hiredis has set c->err in a pipelined client, which never looks at it: such a
\* client may count lost records as stored and append on to a buffer that is
\* never sent.
Blind(r) == is_async /\ link[r] = "failed"

\* Until then the pipeline holds no more than queue_len commands, also when
\* records are refused and while a break is not noticed.  A client that waits for
\* every reply never holds more than one.
QueueBounded ==
  \A r \in Ranks : ~Blind(r) => Outstanding(r) <= IF is_async THEN queue_len ELSE 1

\* If every put has returned 0, broker_finalize returns 0, and c->err was not
\* set in a pipelined client before broker_finalize frees the context, the
\* server has all records the rank has put, once each and in order.
SuccessMeansStored ==
  \A r \in Ranks :
    pc[r] \in {"stats", "done"} /\ ~put_failed[r] /\ status[r] = 0 /\ ~Blind(r) =>
      stream[r] = [k \in 1..step[r] |-> k - 1]

NoneRefused == \A r \in Ranks : "error" \notin Range(replies[r])
NoneFails   == \A r \in Ranks : ~put_failed[r]

\* Every rank gets through the barrier, the replies and the collectives of
\* broker_finalize, or the job is aborted, unless the server refuses a record of
\* a pipelined client or a put of the solver fails.  So a broken link makes no
\* driver hang.
Terminates ==
  []((is_async => NoneRefused) /\ (collective => NoneFails)) => <>Ended
=============================================================================
