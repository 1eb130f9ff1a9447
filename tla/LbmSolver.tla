------------------------------ MODULE LbmSolver ------------------------------
(***************************************************************************)
(* The LBM simulation itself (lbm.c, driven by test_lbm.c, which has no    *)
(* transport).  The ranks form a chain along x; each holds nx columns, the *)
(* real ones 2..n1-2 between ghost columns.  A step is collision,          *)
(* streaming with 18 MPI_Sendrecv calls to the two neighbours, the         *)
(* boundary conditions and the update; no barrier separates the ranks.     *)
(*                                                                         *)
(* A column stands for its plane of lattice sites, and only the ten        *)
(* directions m with a component along x are kept.  A distribution value   *)
(* is named by the step and the site of the whole lattice at which         *)
(* collision computed it.  In the ghost columns of df1 only the wall lines *)
(* are exchanged and read, so a ghost entry stands for its wall line.      *)
(*                                                                         *)
(* MPI is external: a message goes to the receive with its source and tag, *)
(* in order; the library may or may not buffer it (buffered).              *)
(***************************************************************************)
EXTENDS Integers, Sequences

CONSTANTS
  nprocs,  \* ranks of the simulation
  nx,      \* columns of a rank, ghost columns included
  step_stop  \* number of steps, the argument of the program

ASSUME SolverAssumption ==
  /\ nprocs \in Nat \ {0}
  /\ nx \in Nat /\ nx >= 7
  /\ step_stop \in Nat \ {0}

VARIABLES
  buffered,  \* MPI buffers a message: its send returns before the receive
  pc,        \* where each rank is
  at,        \* which of the exchanges it is in
  s, e,      \* first and last column it works on
  df1, df2,  \* the distribution, before and after streaming
  wall,      \* what the boundary conditions took from a neighbouring column
  step,      \* steps it has finished
  chan       \* messages on their way, by link and tag

solverVars == <<buffered, pc, at, s, e, df1, df2, wall, step, chan>>

Ranks   == 0..(nprocs - 1)
n1      == nx - 1
Columns == 0..n1

left_most  == 0
right_most == nprocs - 1

\* What MPI_Cart_shift gives: no neighbour beyond either end.
Neighbours == [r \in Ranks |-> {r - 1, r + 1} \cap Ranks]
Links      == {l \in Ranks \X Ranks : l[2] \in Neighbours[l[1]]}

ToRight    == {1, 7, 9, 15, 17}
ToLeft     == {2, 8, 10, 16, 18}
Directions == ToRight \cup ToLeft

\* The site of the whole lattice in column i of rank r.
Site(r, i) == r * (nx - 4) + i - 2

None  == <<>>
Inout == <<"df_inout">>

-----------------------------------------------------------------------------
(* The exchanges of a step, in order.  Each sends column out to the peer at *)
(* to (-1 left, 1 right) and receives column in from the other side;        *)
(* columns are relative to s or e.                                          *)

\* Faulty variant: the last real column is sent instead of the one after it.
Stream2RightReal(m) == [df |-> 2, m |-> m, to |-> 1, out |-> <<"e", 0>>, in |-> <<"s", 0>>]

Stream2Right(m) == [df |-> 2, m |-> m, to |-> 1,  out |-> <<"e", 1>>,  in |-> <<"s", 0>>]
Stream2Left(m)  == [df |-> 2, m |-> m, to |-> -1, out |-> <<"s", -1>>, in |-> <<"e", 0>>]
Wall1Right(m)   == [df |-> 1, m |-> m, to |-> 1,  out |-> <<"e", 0>>,  in |-> <<"s", -1>>]
Wall1Left(m)    == [df |-> 1, m |-> m, to |-> -1, out |-> <<"s", 0>>,  in |-> <<"e", 1>>]

\* Faulty variant: nothing is sent to the left.
ExchangesOneWay ==
  << Stream2Right(1), Stream2Right(7), Stream2Right(9), Stream2Right(15), Stream2Right(17),
     Wall1Right(9), Wall1Right(7), Wall1Right(15), Wall1Right(17) >>

Exchanges ==
  << Stream2Right(1), Stream2Right(7), Stream2Right(9), Stream2Right(15), Stream2Right(17),
     Stream2Left(2), Stream2Left(8), Stream2Left(10), Stream2Left(16), Stream2Left(18),
     Wall1Right(9), Wall1Right(7), Wall1Right(15), Wall1Right(17),
     Wall1Left(8), Wall1Left(10), Wall1Left(18), Wall1Left(16) >>

Tags == DOMAIN Exchanges

Col(r, c) == (IF c[1] = "s" THEN s[r] ELSE e[r]) + c[2]

SolverTypeOK ==
  LET Value == {None, Inout} \cup ((-1..(step_stop - 1)) \X (Site(0, 0)..Site(right_most, n1)))
  IN  /\ buffered \in BOOLEAN
      /\ pc \in [Ranks -> {"collision", "streaming", "send", "recv", "return",
                           "boundry", "update", "finalize", "done"}]
      /\ at \in [Ranks -> Tags]
      /\ s \in [Ranks -> Columns] /\ e \in [Ranks -> Columns]
      /\ df1 \in [Ranks -> [Columns -> [Directions -> Value]]]
      /\ df2 \in [Ranks -> [Columns -> [Directions -> Value]]]
      /\ wall \in [Ranks -> [Columns -> [Directions -> Value]]]
      /\ step \in [Ranks -> 0..step_stop]
      /\ chan \in [Links -> [Tags -> Seq(Value)]]

FirstOf(r, at_end) == IF r = left_most THEN at_end ELSE 2
LastOf(r, at_end)  == IF r = right_most THEN at_end ELSE n1 - 2

Blank == [i \in Columns |-> [m \in Directions |-> None]]

\* lbm_init, which leaves s and e at the borders of the end ranks.
SolverInit ==
  /\ buffered \in BOOLEAN
  /\ pc = [r \in Ranks |-> "collision"]
  /\ at = [r \in Ranks |-> 1]
  /\ s = [r \in Ranks |-> FirstOf(r, 1)]
  /\ e = [r \in Ranks |-> LastOf(r, n1 - 1)]
  /\ df1 = [r \in Ranks |-> [i \in Columns |-> [m \in Directions |->
              IF i \in s[r]..e[r] THEN <<-1, Site(r, i)>> ELSE None]]]
  /\ df2 = [r \in Ranks |-> Blank]
  /\ wall = [r \in Ranks |-> Blank]
  /\ step = [r \in Ranks |-> 0]
  /\ chan = [l \in Links |-> [t \in Tags |-> <<>>]]

-----------------------------------------------------------------------------
(* The local phases of a step.                                              *)

Goto(r, to) == pc' = [pc EXCEPT ![r] = to]

\* The start of lbm_advance_step and its collision.
Collision(r) ==
  /\ pc[r] = "collision"
  /\ s' = [s EXCEPT ![r] = 2]
  /\ e' = [e EXCEPT ![r] = n1 - 2]
  /\ df1' = [df1 EXCEPT ![r] = [i \in Columns |->
               IF i \in 2..(n1 - 2) THEN [m \in Directions |-> <<step[r], Site(r, i)>>]
                                    ELSE @[i]]]
  /\ Goto(r, "streaming")
  /\ UNCHANGED <<buffered, at, df2, wall, step, chan>>

\* Every value moves one column along its direction.
Streaming(r) ==
  /\ pc[r] = "streaming"
  /\ df2' = [df2 EXCEPT ![r] = [i \in Columns |-> [m \in Directions |->
               LET from == IF m \in ToRight THEN i - 1 ELSE i + 1
               IN  IF from \in s[r]..e[r] THEN df1[r][from][m] ELSE @[i][m]]]]
  /\ at' = [at EXCEPT ![r] = 1]
  /\ Goto(r, "send")
  /\ UNCHANGED <<buffered, s, e, df1, wall, step, chan>>

\* Reflection at the walls: the value of direction m comes from the site one
\* column back along m, out of the direction m becomes at the wall.
Mirror == [m \in {7, 8, 9, 10, 15, 16, 17, 18} |->
             CASE m = 7 -> 9 [] m = 9 -> 7 [] m = 8 -> 10 [] m = 10 -> 8
               [] m = 15 -> 17 [] m = 17 -> 15 [] m = 16 -> 18 [] OTHER -> 16]

Boundry(r) ==
  /\ pc[r] = "boundry"
  /\ wall' = [wall EXCEPT ![r] = [i \in Columns |-> [m \in Directions |->
                IF i \in s[r]..e[r] /\ m \in DOMAIN Mirror
                THEN df1[r][IF m \in ToRight THEN i - 1 ELSE i + 1][Mirror[m]]
                ELSE @[i][m]]]]
  /\ s' = [s EXCEPT ![r] = FirstOf(r, 3)]
  /\ e' = [e EXCEPT ![r] = LastOf(r, n1 - 3)]
  /\ Goto(r, "update")
  /\ UNCHANGED <<buffered, at, df1, df2, step, chan>>

\* df2 with the inlet and the outlet columns put back.
WithInout(r) ==
  [i \in Columns |->
     IF (r = left_most /\ i = 2) \/ (r = right_most /\ i = n1 - 2)
     THEN [m \in Directions |-> Inout] ELSE df2[r][i]]

\* update_rho_u_v, the end of the step and of the loop body.
Update(r) ==
  /\ pc[r] = "update"
  /\ df2' = [df2 EXCEPT ![r] = WithInout(r)]
  /\ s' = [s EXCEPT ![r] = FirstOf(r, 1)]
  /\ e' = [e EXCEPT ![r] = LastOf(r, n1 - 1)]
  /\ df1' = [df1 EXCEPT ![r] = [i \in Columns |->
               IF i \in s'[r]..e'[r] THEN df2'[r][i] ELSE @[i]]]
  /\ step' = [step EXCEPT ![r] = @ + 1]
  /\ Goto(r, IF step'[r] < step_stop THEN "collision" ELSE "finalize")
  /\ UNCHANGED <<buffered, at, wall, chan>>

-----------------------------------------------------------------------------
(* MPI_Sendrecv: both halves are started at once, and the call returns when *)
(* both are complete.  A half without a peer (MPI_PROC_NULL) does nothing.  *)

Exch(r)       == Exchanges[at[r]]
SendLink(r)   == <<r, r + Exch(r).to>>
RecvLink(r)   == <<r - Exch(r).to, r>>
Sent(r, x)    == (IF x.df = 1 THEN df1 ELSE df2)[r][Col(r, x.out)][x.m]
Stored(d, r, x, v) == [d EXCEPT ![r][Col(r, x.in)][x.m] = v]

\* A buffered message leaves the sender alone.
SendComplete(r) ==
  ~buffered /\ SendLink(r) \in Links => chan[SendLink(r)][at[r]] = <<>>

SendrecvStart(r) ==
  /\ pc[r] = "send"
  /\ chan' = IF SendLink(r) \in Links
             THEN [chan EXCEPT ![SendLink(r)][at[r]] = Append(@, Sent(r, Exch(r)))]
             ELSE chan
  /\ Goto(r, IF RecvLink(r) \in Links THEN "recv" ELSE "return")
  /\ UNCHANGED <<buffered, at, s, e, df1, df2, wall, step>>

SendrecvReceive(r) ==
  /\ pc[r] = "recv"
  /\ chan[RecvLink(r)][at[r]] # <<>>
  /\ LET x == Exch(r)
         v == Head(chan[RecvLink(r)][at[r]])
     IN  /\ df1' = IF x.df = 1 THEN Stored(df1, r, x, v) ELSE df1
         /\ df2' = IF x.df = 2 THEN Stored(df2, r, x, v) ELSE df2
  /\ chan' = [chan EXCEPT ![RecvLink(r)][at[r]] = Tail(@)]
  /\ Goto(r, "return")
  /\ UNCHANGED <<buffered, at, s, e, wall, step>>

\* The call returns; after the last one the end ranks leave out their inlet
\* and outlet columns.
SendrecvReturn(r) ==
  /\ pc[r] = "return"
  /\ SendComplete(r)
  /\ IF at[r] < Len(Exchanges)
     THEN /\ at' = [at EXCEPT ![r] = @ + 1]
          /\ Goto(r, "send")
          /\ UNCHANGED <<s, e>>
     ELSE /\ s' = [s EXCEPT ![r] = FirstOf(r, 3)]
          /\ e' = [e EXCEPT ![r] = LastOf(r, n1 - 3)]
          /\ Goto(r, "boundry")
          /\ UNCHANGED at
  /\ UNCHANGED <<buffered, df1, df2, wall, step, chan>>

\* lbm_finalize, the MPI_Reduce of lbm_free_buffer and the last barrier.
Finalize ==
  /\ \A r \in Ranks : pc[r] = "finalize"
  /\ pc' = [r \in Ranks |-> "done"]
  /\ UNCHANGED <<buffered, at, s, e, df1, df2, wall, step, chan>>

-----------------------------------------------------------------------------
Rank(r) ==
  \/ Collision(r) \/ Streaming(r)
  \/ SendrecvStart(r) \/ SendrecvReceive(r) \/ SendrecvReturn(r)
  \/ Boundry(r) \/ Update(r)

SolverNext == Finalize \/ \E r \in Ranks : Rank(r)

SolverSpec == SolverInit /\ [][SolverNext]_solverVars

SolverFairness == WF_solverVars(Finalize) /\ \A r \in Ranks : WF_solverVars(Rank(r))

-----------------------------------------------------------------------------
(* Properties.                                                              *)

\* The ranks together compute what one lattice would: when a rank goes into
\* its update, every value streamed to a fluid site, and every value the wall
\* reflection took from the column next to it, was computed in this very step
\* at the neighbouring site, on whichever rank that site lies.  (All 18 calls
\* of streaming: the column, the direction, the peer and the tag of each.)
LikeOneLattice ==
  \A r \in Ranks : pc[r] = "update" =>
    \A i \in s[r]..e[r], m \in Directions :
      LET value == <<step[r], Site(r, i) + (IF m \in ToRight THEN -1 ELSE 1)>>
      IN  /\ df2[r][i][m] = value
          /\ m \in DOMAIN Mirror => wall[r][i][m] = value

\* Without any barrier ("// MPI_Barrier(comm1d);" after each call) neighbours
\* stay within a step of each other: the solver implements LocalClocks.
Clocks == INSTANCE LocalClocks WITH Processes <- Ranks, steps <- step_stop, clock <- step

ImplementsLocalClocks == Clocks!Spec

\* All ranks get through all steps, whether MPI buffers messages or not.
AllStepsSolved == <>(\A r \in Ranks : pc[r] = "done" /\ step[r] = step_stop)
=============================================================================
