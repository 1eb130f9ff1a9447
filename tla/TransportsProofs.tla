-------------------------- MODULE TransportsProofs --------------------------
(***************************************************************************)
(* Proofs about LbmSolver, for any number of ranks, columns and steps,     *)
(* whether MPI buffers messages or not, and about Transports, which runs   *)
(* it and the three comparison transports.                                 *)
(***************************************************************************)
EXTENDS Transports, StepTransportProofs, SequenceTheorems

-----------------------------------------------------------------------------
(* The solver: columns, sites and exchanges.                                *)

\* Every value that travels is that of a real column at the border of a rank;
\* it arrives as the column before or after the real ones of the receiver.
OutSite(r, x) == Site(r, IF x.to = 1 THEN n1 - 2 ELSE 2)
InSite(r, x)  == Site(r, IF x.to = 1 THEN 1 ELSE n1 - 1)

InCol(x) == IF x.df = 2 THEN (IF x.to = 1 THEN 2 ELSE n1 - 2)
                        ELSE (IF x.to = 1 THEN 1 ELSE n1 - 1)
OutCol(x) == IF x.df = 2 THEN (IF x.to = 1 THEN n1 - 1 ELSE 1)
                         ELSE (IF x.to = 1 THEN n1 - 2 ELSE 2)

LEMMA SolverConstants ==
  /\ nprocs \in Nat \ {0} /\ nx \in Nat /\ nx >= 7 /\ n1 \in Nat /\ n1 = nx - 1 /\ n1 >= 6
  /\ step_stop \in Nat \ {0} /\ Ranks = 0..(nprocs - 1) /\ Columns = 0..n1
  /\ left_most = 0 /\ right_most = nprocs - 1 /\ left_most \in Ranks /\ right_most \in Ranks
BY SolverAssumption DEF n1, Ranks, Columns, left_most, right_most

LEMMA Sites ==
  ASSUME NEW r \in Int, NEW i \in Int
  PROVE  /\ Site(r, i) \in Int
         /\ Site(r, i + 1) = Site(r, i) + 1 /\ Site(r, i - 1) = Site(r, i) - 1
         /\ Site(r + 1, 2) = Site(r, n1 - 1) /\ Site(r - 1, n1 - 2) = Site(r, 1)
<1> DEFINE w == nx - 4
           a == r * w
<1>1. w \in Int /\ nx \in Int /\ n1 = nx - 1
  BY SolverConstants
<1>2. a \in Int
  BY <1>1
<1>3. (r + 1) * w = a + w /\ (r - 1) * w = a - w
  BY <1>1
<1>4. \A j : Site(r, j) = a + j - 2 /\ Site(r + 1, j) = (r + 1) * w + j - 2
             /\ Site(r - 1, j) = (r - 1) * w + j - 2
  BY DEF Site
<1> HIDE DEF a
<1>5. QED
  BY <1>1, <1>2, <1>3, <1>4

LEMMA SiteInRange ==
  ASSUME NEW r \in Ranks, NEW i \in Columns
  PROVE  Site(r, i) \in Site(0, 0)..Site(right_most, n1)
<1> DEFINE w == nx - 4
           a == r * w
           b == (right_most - r) * w
           d == right_most * w
<1>1. /\ w \in Nat /\ r \in Nat /\ right_most - r \in Nat /\ i \in 0..n1 /\ n1 \in Nat
      /\ right_most \in Nat
  BY SolverConstants
<1>2. a \in Nat /\ b \in Nat /\ d \in Nat /\ a + b = d
  <2>1. a \in Nat
    BY <1>1
  <2>2. b \in Nat
    BY <1>1
  <2>3. d \in Nat
    BY <1>1
  <2>4. a + b = d
    BY <1>1
  <2>5. QED
    BY <2>1, <2>2, <2>3, <2>4
<1>3. Site(r, i) = a + i - 2 /\ Site(right_most, n1) = d + n1 - 2
  BY DEF Site
<1>4. Site(0, 0) = 0 - 2
  BY <1>1 DEF Site
<1> HIDE DEF a, b, d
<1>5. QED
  BY <1>1, <1>2, <1>3, <1>4

\* The eighteen calls, one by one: what each is and which there are.
LEMMA TagRange == Tags = 1..18 /\ 1 \in Tags /\ 6 \in Tags
<1>1. Tags = 1..18
  BY DEF Tags, Exchanges
<1>2. QED
  BY <1>1

LEMMA ExchangeList ==
  /\ Tags = 1..18 /\ Len(Exchanges) = 18
  /\ \A t \in Tags :
       LET x == Exchanges[t] IN
       /\ x.df \in {1, 2} /\ x.to \in {1, -1} /\ x.m \in Directions
       /\ x.to = 1 <=> x.m \in ToRight
       /\ x.to = -1 <=> x.m \in ToLeft
       /\ x.out[1] = IF x.to = 1 THEN "e" ELSE "s"
       /\ x.out[2] = IF x.df = 2 THEN x.to ELSE 0
       /\ x.in[1] = IF x.to = 1 THEN "s" ELSE "e"
       /\ x.in[2] = IF x.df = 2 THEN 0 ELSE -x.to
  /\ \A m \in Directions : \E t \in Tags : Exchanges[t].m = m /\ Exchanges[t].df = 2
  /\ \A m \in DOMAIN Mirror : \E t \in Tags : Exchanges[t].m = m /\ Exchanges[t].df = 1
<1>1. Tags = 1..18 /\ Len(Exchanges) = 18
  BY DEF Tags, Exchanges
<1>2. /\ \A t \in {1, 2, 3, 4, 5} : Exchanges[t].df = 2 /\ Exchanges[t].to = 1 /\ Exchanges[t].out = <<"e", 1>> /\ Exchanges[t].in = <<"s", 0>>
      /\ \A t \in {6, 7, 8, 9, 10} : Exchanges[t].df = 2 /\ Exchanges[t].to = -1 /\ Exchanges[t].out = <<"s", -1>> /\ Exchanges[t].in = <<"e", 0>>
      /\ \A t \in {11, 12, 13, 14} : Exchanges[t].df = 1 /\ Exchanges[t].to = 1 /\ Exchanges[t].out = <<"e", 0>> /\ Exchanges[t].in = <<"s", -1>>
      /\ \A t \in {15, 16, 17, 18} : Exchanges[t].df = 1 /\ Exchanges[t].to = -1 /\ Exchanges[t].out = <<"s", 0>> /\ Exchanges[t].in = <<"e", 1>>
  BY DEF Exchanges, Stream2Right, Stream2Left, Wall1Right, Wall1Left
<1>3. /\ Exchanges[1].m = 1 /\ Exchanges[2].m = 7 /\ Exchanges[3].m = 9 /\ Exchanges[4].m = 15
      /\ Exchanges[5].m = 17 /\ Exchanges[6].m = 2 /\ Exchanges[7].m = 8 /\ Exchanges[8].m = 10
      /\ Exchanges[9].m = 16 /\ Exchanges[10].m = 18 /\ Exchanges[11].m = 9 /\ Exchanges[12].m = 7
      /\ Exchanges[13].m = 15 /\ Exchanges[14].m = 17 /\ Exchanges[15].m = 8 /\ Exchanges[16].m = 10
      /\ Exchanges[17].m = 18 /\ Exchanges[18].m = 16
  BY DEF Exchanges, Stream2Right, Stream2Left, Wall1Right, Wall1Left
<1>4. \A t \in Tags : t \in {1, 2, 3, 4, 5} \/ t \in {6, 7, 8, 9, 10}
                   \/ t \in {11, 12, 13, 14} \/ t \in {15, 16, 17, 18}
  BY <1>1
<1>5. \A t \in Tags : /\ Exchanges[t].df \in {1, 2} /\ Exchanges[t].to \in {1, -1}
                      /\ Exchanges[t].out[1] = IF Exchanges[t].to = 1 THEN "e" ELSE "s"
                      /\ Exchanges[t].out[2] = IF Exchanges[t].df = 2 THEN Exchanges[t].to ELSE 0
                      /\ Exchanges[t].in[1] = IF Exchanges[t].to = 1 THEN "s" ELSE "e"
                      /\ Exchanges[t].in[2] = IF Exchanges[t].df = 2 THEN 0 ELSE -Exchanges[t].to
  BY <1>2, <1>4
<1>6. /\ \A t \in {1, 2, 3, 4, 5} \cup {11, 12, 13, 14} : Exchanges[t].m \in ToRight
      /\ \A t \in {6, 7, 8, 9, 10} \cup {15, 16, 17, 18} : Exchanges[t].m \in ToLeft
  BY <1>3 DEF ToRight, ToLeft
<1>7. \A t \in Tags : /\ Exchanges[t].m \in Directions
                      /\ Exchanges[t].to = 1 <=> Exchanges[t].m \in ToRight
                      /\ Exchanges[t].to = -1 <=> Exchanges[t].m \in ToLeft
  <2>1. ToRight \cap ToLeft = {} /\ Directions = ToRight \cup ToLeft
    BY DEF ToRight, ToLeft, Directions
  <2>2. QED
    BY <1>2, <1>4, <1>6, <2>1
<1>8. \A m \in Directions : \E t \in {1, 2, 3, 4, 5, 6, 7, 8, 9, 10} : Exchanges[t].m = m
  BY <1>3 DEF Directions, ToRight, ToLeft
<1>9. \A m \in DOMAIN Mirror : \E t \in {11, 12, 13, 14, 15, 16, 17, 18} : Exchanges[t].m = m
  BY <1>3 DEF Mirror
<1>10. QED
  <2>1. \A t \in {1, 2, 3, 4, 5, 6, 7, 8, 9, 10} : t \in Tags /\ Exchanges[t].df = 2
    BY <1>1, <1>2
  <2>2. \A t \in {11, 12, 13, 14, 15, 16, 17, 18} : t \in Tags /\ Exchanges[t].df = 1
    BY <1>1, <1>2
  <2>3. \A m \in Directions : \E t \in Tags : Exchanges[t].m = m /\ Exchanges[t].df = 2
    BY <1>8, <2>1
  <2>4. \A m \in DOMAIN Mirror : \E t \in Tags : Exchanges[t].m = m /\ Exchanges[t].df = 1
    BY <1>9, <2>2
  <2>5. QED
    BY <1>1, <1>5, <1>7, <2>3, <2>4

LEMMA Mirrored ==
  /\ DOMAIN Mirror \subseteq Directions
  /\ \A m \in DOMAIN Mirror : Mirror[m] \in DOMAIN Mirror /\ (Mirror[m] \in ToRight <=> m \in ToRight)
  /\ ToRight \cap ToLeft = {} /\ Directions = ToRight \cup ToLeft
BY DEF Mirror, Directions, ToRight, ToLeft

\* Whom a rank sends to and whom it hears from in call t.
Peer(r, t)   == r + Exchanges[t].to
Source(r, t) == r - Exchanges[t].to

LEMMA Peers ==
  ASSUME NEW r \in Ranks, NEW t \in Tags
  PROVE  /\ Peer(r, t) \in Ranks <=> <<r, Peer(r, t)>> \in Links
         /\ Source(r, t) \in Ranks <=> <<Source(r, t), r>> \in Links
         /\ Peer(Source(r, t), t) = r
         /\ Source(Peer(r, t), t) = r
         /\ Peer(r, t) # r /\ Source(r, t) # r
         /\ Source(r, t) \in Ranks => OutSite(Source(r, t), Exchanges[t]) = InSite(r, Exchanges[t])
<1> DEFINE d == Exchanges[t].to
<1>1. /\ r \in Int /\ d \in {1, -1} /\ Peer(r, t) = r + d /\ Source(r, t) = r - d
  <2>1. d \in {1, -1}
    BY ExchangeList
  <2>2. r \in Int
    BY SolverConstants
  <2>3. QED
    BY <2>1, <2>2 DEF Peer, Source
<1>2. \A p \in Ranks, q \in Ranks : <<p, q>> \in Links <=> q \in {p - 1, p + 1}
  BY DEF Links, Neighbours
<1>3. \A p, q : <<p, q>> \in Links => p \in Ranks /\ q \in Ranks
  BY DEF Links
<1>4. Peer(Source(r, t), t) = (r - d) + d /\ Source(Peer(r, t), t) = (r + d) - d
  BY DEF Peer, Source
<1>5. OutSite(Source(r, t), Exchanges[t]) = InSite(r, Exchanges[t])
  <2>1. Site(r + 1, 2) = Site(r, n1 - 1) /\ Site(r - 1, n1 - 2) = Site(r, 1)
    <3>1. 0 \in Int
      OBVIOUS
    <3>2. QED
      BY <1>1, <3>1, Sites
  <2>2. Source(r, t) = IF d = 1 THEN r - 1 ELSE r + 1
    BY <1>1
  <2>3. QED
    BY <2>1, <2>2 DEF OutSite, InSite
<1> HIDE DEF d
<1>6. QED
  BY <1>1, <1>2, <1>3, <1>4, <1>5

-----------------------------------------------------------------------------
(* The solver: the inductive invariant.                                     *)

SolverValue ==
  {None, Inout} \cup ((-1..(step_stop - 1)) \X (Site(0, 0)..Site(right_most, n1)))
Grid == [Columns -> [Directions -> SolverValue]]

\* The calls of a step whose message a rank has sent, and has received.
SentInStep(r, t) ==
  \/ pc[r] \in {"boundry", "update"}
  \/ pc[r] = "send" /\ t < at[r]
  \/ pc[r] \in {"recv", "return"} /\ t <= at[r]
ReadInStep(r, t) ==
  \/ pc[r] \in {"boundry", "update"}
  \/ pc[r] \in {"send", "recv"} /\ t < at[r]
  \/ pc[r] = "return" /\ t <= at[r]

SentBy(r, t) == step[r] + (IF SentInStep(r, t) THEN 1 ELSE 0)
ReadBy(r, t) == step[r] + (IF ReadInStep(r, t) THEN 1 ELSE 0)

Place(r) ==
  /\ IF pc[r] \in {"finalize", "done"} THEN step[r] = step_stop ELSE step[r] < step_stop
  /\ pc[r] \in {"streaming", "send", "recv", "return"} => s[r] = 2 /\ e[r] = n1 - 2
  /\ pc[r] \in {"boundry", "update"} => s[r] = FirstOf(r, 3) /\ e[r] = LastOf(r, n1 - 3)
  /\ pc[r] = "recv" => Source(r, at[r]) \in Ranks

Collided(r) ==
  pc[r] \in {"streaming", "send", "recv", "return", "boundry"} =>
    \A i \in 2..(n1 - 2), m \in Directions : df1[r][i][m] = <<step[r], Site(r, i)>>

\* Streaming within a rank fills all but the column at the border it comes from.
Streamed(r) ==
  pc[r] \in {"send", "recv", "return", "boundry", "update"} =>
    /\ \A i \in 3..(n1 - 1), m \in ToRight : df2[r][i][m] = <<step[r], Site(r, i) - 1>>
    /\ \A i \in 1..(n1 - 3), m \in ToLeft : df2[r][i][m] = <<step[r], Site(r, i) + 1>>

\* What a call has received is the neighbour's value of this very step.
Halo(r) ==
  \A t \in Tags : ReadInStep(r, t) /\ Source(r, t) \in Ranks =>
    LET x == Exchanges[t]
    IN  (IF x.df = 1 THEN df1 ELSE df2)[r][InCol(x)][x.m] = <<step[r], InSite(r, x)>>

Walls(r) ==
  pc[r] = "update" =>
    \A i \in s[r]..e[r], m \in DOMAIN Mirror :
      wall[r][i][m] = <<step[r], Site(r, i) + (IF m \in ToRight THEN -1 ELSE 1)>>

RankSolver(r) == Place(r) /\ Collided(r) /\ Streamed(r) /\ Halo(r) /\ Walls(r)

\* On the link and tag of a call are the values sent and not received yet, one
\* of each step, in the order of the steps.
Wire(r, t) == chan[<<r, Peer(r, t)>>][t]
OnItsLink(r, t) ==
  Peer(r, t) \in Ranks =>
    /\ Len(Wire(r, t)) = SentBy(r, t) - ReadBy(Peer(r, t), t)
    /\ \A k \in 1..Len(Wire(r, t)) :
         Wire(r, t)[k] = <<ReadBy(Peer(r, t), t) + k - 1, OutSite(r, Exchanges[t])>>

SolverInv ==
  /\ SolverTypeOK
  /\ \A r \in Ranks : RankSolver(r)
  /\ \A r \in Ranks, t \in Tags : OnItsLink(r, t)

LEMMA SolverTyped ==
  SolverTypeOK <=>
      /\ buffered \in BOOLEAN
      /\ pc \in [Ranks -> {"collision", "streaming", "send", "recv", "return",
                           "boundry", "update", "finalize", "done"}]
      /\ at \in [Ranks -> Tags]
      /\ s \in [Ranks -> Columns] /\ e \in [Ranks -> Columns]
      /\ df1 \in [Ranks -> Grid] /\ df2 \in [Ranks -> Grid] /\ wall \in [Ranks -> Grid]
      /\ step \in [Ranks -> 0..step_stop]
      /\ chan \in [Links -> [Tags -> Seq(SolverValue)]]
BY DEF SolverTypeOK, Grid, SolverValue

LEMMA SolverTypes ==
  ASSUME SolverInv
  PROVE  /\ buffered \in BOOLEAN
         /\ pc \in [Ranks -> {"collision", "streaming", "send", "recv", "return",
                              "boundry", "update", "finalize", "done"}]
         /\ at \in [Ranks -> Tags]
         /\ s \in [Ranks -> Columns] /\ e \in [Ranks -> Columns]
         /\ df1 \in [Ranks -> Grid] /\ df2 \in [Ranks -> Grid] /\ wall \in [Ranks -> Grid]
         /\ step \in [Ranks -> 0..step_stop]
         /\ chan \in [Links -> [Tags -> Seq(SolverValue)]]
BY SolverTyped DEF SolverInv

LEMMA ValueOf ==
  ASSUME NEW r \in Ranks, NEW i \in Columns, NEW n \in Int, n >= -1, n < step_stop
  PROVE  <<n, Site(r, i)>> \in SolverValue
<1>1. n \in -1..(step_stop - 1)
  BY SolverConstants
<1>2. Site(r, i) \in Site(0, 0)..Site(right_most, n1)
  BY SiteInRange
<1>3. QED
  BY <1>1, <1>2 DEF SolverValue

\* Where a rank is, in numbers.
LEMMA RankAt ==
  ASSUME SolverInv, NEW r \in Ranks
  PROVE  /\ RankSolver(r) /\ Place(r)
         /\ step[r] \in Nat /\ step[r] <= step_stop /\ at[r] \in 1..18 /\ at[r] \in Tags
         /\ pc[r] \notin {"finalize", "done"} => step[r] \in 0..(step_stop - 1)
         /\ \A t \in Tags : /\ SentBy(r, t) \in {step[r], step[r] + 1}
                            /\ ReadBy(r, t) \in {step[r], step[r] + 1}
<1>1. RankSolver(r) /\ Place(r)
  BY DEF SolverInv, RankSolver
<1>2. step[r] \in 0..step_stop /\ at[r] \in Tags /\ step_stop \in Nat
  BY SolverTypes, SolverConstants
<1>3. at[r] \in 1..18
  BY <1>2, ExchangeList
<1>4. pc[r] \notin {"finalize", "done"} => step[r] < step_stop
  BY <1>1 DEF Place
<1>5. \A t \in Tags : /\ SentBy(r, t) \in {step[r], step[r] + 1}
                      /\ ReadBy(r, t) \in {step[r], step[r] + 1}
  BY <1>2 DEF SentBy, ReadBy
<1>6. QED
  BY <1>1, <1>2, <1>3, <1>4, <1>5

\* What one rank does leaves the columns of the others alone.
Alike(r) ==
  /\ pc'[r] = pc[r] /\ at'[r] = at[r] /\ s'[r] = s[r] /\ e'[r] = e[r]
  /\ df1'[r] = df1[r] /\ df2'[r] = df2[r] /\ wall'[r] = wall[r] /\ step'[r] = step[r]

LEMMA SolverOneRank ==
  ASSUME SolverInv, SolverTypeOK', NEW q \in Ranks,
         \A r \in Ranks : r # q => Alike(r),
         RankSolver(q)',
         \A r \in Ranks, t \in Tags : OnItsLink(r, t)'
  PROVE  SolverInv'
<1>1. ASSUME NEW r \in Ranks, r # q PROVE RankSolver(r)'
  <2>1. Alike(r) /\ RankSolver(r)
    BY <1>1 DEF SolverInv
  <2>2. \A t : ReadInStep(r, t)' <=> ReadInStep(r, t)
    BY <2>1 DEF Alike, ReadInStep
  <2>3. Place(r)'
    BY <2>1 DEF Alike, RankSolver, Place
  <2>4. Collided(r)'
    BY <2>1 DEF Alike, RankSolver, Collided
  <2>5. Streamed(r)'
    BY <2>1 DEF Alike, RankSolver, Streamed
  <2>6. Halo(r)'
    <3>1. /\ Halo(r) /\ step'[r] = step[r] /\ df1'[r] = df1[r] /\ df2'[r] = df2[r]
      BY <2>1 DEF Alike, RankSolver
    <3>2. QED
      BY <2>2, <3>1 DEF Halo
  <2>7. Walls(r)'
    BY <2>1 DEF Alike, RankSolver, Walls
  <2>8. QED
    BY <2>3, <2>4, <2>5, <2>6, <2>7 DEF RankSolver
<1>2. QED
  BY <1>1 DEF SolverInv

LEMMA QuietLinks ==
  ASSUME SolverInv, NEW q \in Ranks, chan' = chan,
         \A r \in Ranks : r # q => Alike(r),
         \A t \in Tags : Peer(q, t) \in Ranks => SentBy(q, t)' = SentBy(q, t),
         \A t \in Tags : Source(q, t) \in Ranks => ReadBy(q, t)' = ReadBy(q, t)
  PROVE  \A r \in Ranks, t \in Tags : OnItsLink(r, t)'
<1>1. SUFFICES ASSUME NEW r \in Ranks, NEW t \in Tags, Peer(r, t) \in Ranks
               PROVE  OnItsLink(r, t)'
  BY DEF OnItsLink, Peer
<1>2. SentBy(r, t)' = SentBy(r, t)
  <2>1. CASE r = q
    BY <1>1, <2>1
  <2>2. CASE r # q
    BY <2>2 DEF Alike, SentBy, SentInStep
  <2>3. QED
    BY <2>1, <2>2
<1>3. ReadBy(Peer(r, t), t)' = ReadBy(Peer(r, t), t)
  <2>1. CASE Peer(r, t) = q
    BY <2>1, Peers
  <2>2. CASE Peer(r, t) # q
    <3> DEFINE p == Peer(r, t)
    <3>1. Alike(p)
      BY <1>1, <2>2
    <3>2. ReadBy(p, t)' = ReadBy(p, t)
      BY <3>1 DEF Alike, ReadBy, ReadInStep, Peer
    <3>3. QED
      BY <3>2
  <2>3. QED
    BY <2>1, <2>2
<1>4. Wire(r, t)' = Wire(r, t) /\ Peer(r, t)' = Peer(r, t)
  BY DEF Wire, Peer
<1>5. OnItsLink(r, t)
  BY DEF SolverInv
<1>6. QED
  BY <1>2, <1>3, <1>4, <1>5 DEF OnItsLink

-----------------------------------------------------------------------------
(* The solver: the local phases.                                            *)

LEMMA SolverInitInv == SolverInit => SolverInv
<1> SUFFICES ASSUME SolverInit PROVE SolverInv
  OBVIOUS
<1>1. None \in SolverValue
  BY DEF SolverValue
<1>2. \A r \in Ranks, i \in Columns : <<-1, Site(r, i)>> \in SolverValue
  BY ValueOf, SolverConstants
<1>3. Blank \in Grid
  BY <1>1 DEF Blank, Grid
<1>4. df1 \in [Ranks -> Grid]
  <2>1. df1 = [r \in Ranks |-> [i \in Columns |-> [m \in Directions |->
                 IF i \in s[r]..e[r] THEN <<-1, Site(r, i)>> ELSE None]]]
    BY DEF SolverInit
  <2>2. ASSUME NEW r \in Ranks
        PROVE  [i \in Columns |-> [m \in Directions |->
                  IF i \in s[r]..e[r] THEN <<-1, Site(r, i)>> ELSE None]] \in Grid
    BY <1>1, <1>2 DEF Grid
  <2>3. QED
    BY <2>1, <2>2
<1>5. \A r \in Ranks : FirstOf(r, 1) \in Columns /\ LastOf(r, n1 - 1) \in Columns
  BY SolverConstants DEF FirstOf, LastOf
<1>6. 1 \in Tags /\ <<>> \in Seq(SolverValue) /\ Len(<<>>) = 0 /\ 0 \in 0..step_stop /\ 0 < step_stop
  <2>1. 1 \in Tags /\ step_stop \in Nat /\ step_stop > 0
    BY TagRange, SolverConstants
  <2>2. <<>> \in Seq(SolverValue) /\ Len(<<>>) = 0
    OBVIOUS
  <2>3. QED
    BY <2>1, <2>2
<1>7. SolverTypeOK
  BY <1>3, <1>4, <1>5, <1>6, SolverTyped DEF SolverInit
<1>8. ASSUME NEW r \in Ranks PROVE RankSolver(r)
  <2>1. pc[r] = "collision" /\ step[r] = 0
    BY DEF SolverInit
  <2>2. QED
    BY <1>6, <2>1 DEF RankSolver, Place, Collided, Streamed, Halo, Walls, ReadInStep
<1>9. ASSUME NEW r \in Ranks, NEW t \in Tags, Peer(r, t) \in Ranks PROVE OnItsLink(r, t)
  <2>1. /\ pc[r] = "collision" /\ step[r] = 0
        /\ pc[Peer(r, t)] = "collision" /\ step[Peer(r, t)] = 0
    BY <1>9 DEF SolverInit
  <2>2. SentBy(r, t) = 0 /\ ReadBy(Peer(r, t), t) = 0
    BY <2>1 DEF SentBy, ReadBy, SentInStep, ReadInStep
  <2>3. Wire(r, t) = <<>>
    BY <1>9, Peers DEF SolverInit, Wire
  <2>4. QED
    BY <1>6, <2>2, <2>3 DEF OnItsLink
<1>10. QED
  BY <1>7, <1>8, <1>9 DEF SolverInv, OnItsLink

LEMMA CollisionInv ==
  ASSUME SolverInv, NEW q \in Ranks, Collision(q)
  PROVE  SolverInv'
<1> DEFINE d == [i \in Columns |->
                   IF i \in 2..(n1 - 2) THEN [m \in Directions |-> <<step[q], Site(q, i)>>]
                                        ELSE df1[q][i]]
<1>1. /\ pc[q] = "collision" /\ pc' = [pc EXCEPT ![q] = "streaming"]
      /\ s' = [s EXCEPT ![q] = 2] /\ e' = [e EXCEPT ![q] = n1 - 2]
      /\ df1' = [df1 EXCEPT ![q] = d]
      /\ UNCHANGED <<buffered, at, df2, wall, step, chan>>
  BY SolverTypes DEF Collision, Goto
<1>2. pc'[q] = "streaming" /\ s'[q] = 2 /\ e'[q] = n1 - 2 /\ df1'[q] = d
  BY <1>1, SolverTypes
<1>3. step[q] \in 0..(step_stop - 1) /\ step[q] < step_stop
  BY <1>1, RankAt DEF Place
<1>4. d \in Grid
  <2>1. df1[q] \in [Columns -> [Directions -> SolverValue]]
    BY SolverTypes DEF Grid
  <2>2. \A i \in Columns : <<step[q], Site(q, i)>> \in SolverValue
    BY <1>3, ValueOf
  <2>3. QED
    BY <2>1, <2>2 DEF Grid
<1>5. \A i \in 2..(n1 - 2), m \in Directions : d[i][m] = <<step[q], Site(q, i)>>
  BY SolverConstants
<1> HIDE DEF d
<1>6. SolverTypeOK'
  <2>1. 2 \in Columns /\ n1 - 2 \in Columns
    BY SolverConstants
  <2>2. /\ pc' \in [Ranks -> {"collision", "streaming", "send", "recv", "return",
                              "boundry", "update", "finalize", "done"}]
        /\ s' \in [Ranks -> Columns] /\ e' \in [Ranks -> Columns] /\ df1' \in [Ranks -> Grid]
    BY <1>1, <1>4, <2>1, SolverTypes
  <2>3. /\ buffered' \in BOOLEAN /\ at' \in [Ranks -> Tags] /\ df2' \in [Ranks -> Grid]
        /\ wall' \in [Ranks -> Grid] /\ step' \in [Ranks -> 0..step_stop]
        /\ chan' \in [Links -> [Tags -> Seq(SolverValue)]]
    BY <1>1, SolverTypes
  <2>4. QED
    BY <2>2, <2>3 DEF SolverTypeOK, Grid, SolverValue
<1>7. \A r \in Ranks : r # q => Alike(r)
  BY <1>1, SolverTypes DEF Alike
<1>8. RankSolver(q)'
  <2>1. Place(q)'
    BY <1>1, <1>2, <1>3 DEF Place
  <2>2. Collided(q)'
    BY <1>1, <1>2, <1>5 DEF Collided
  <2>3. Streamed(q)' /\ Halo(q)' /\ Walls(q)'
    BY <1>2 DEF Streamed, Halo, Walls, ReadInStep
  <2>4. QED
    BY <2>1, <2>2, <2>3 DEF RankSolver
<1>9. \A r \in Ranks, t \in Tags : OnItsLink(r, t)'
  <2>1. \A t : SentBy(q, t)' = SentBy(q, t) /\ ReadBy(q, t)' = ReadBy(q, t)
    BY <1>1, <1>2 DEF SentBy, ReadBy, SentInStep, ReadInStep
  <2>2. QED
    BY <1>1, <1>7, <2>1, QuietLinks
<1>10. QED
  BY <1>6, <1>7, <1>8, <1>9, SolverOneRank

LEMMA StreamingInv ==
  ASSUME SolverInv, NEW q \in Ranks, Streaming(q)
  PROVE  SolverInv'
<1> DEFINE From(i, m) == IF m \in ToRight THEN i - 1 ELSE i + 1
           d == [i \in Columns |-> [m \in Directions |->
                   IF From(i, m) \in s[q]..e[q] THEN df1[q][From(i, m)][m] ELSE df2[q][i][m]]]
<1>1. /\ pc[q] = "streaming" /\ pc' = [pc EXCEPT ![q] = "send"] /\ at' = [at EXCEPT ![q] = 1]
      /\ df2' = [df2 EXCEPT ![q] = d]
      /\ UNCHANGED <<buffered, s, e, df1, wall, step, chan>>
  BY SolverTypes DEF Streaming, Goto
<1>2. pc'[q] = "send" /\ at'[q] = 1 /\ df2'[q] = d
  BY <1>1, SolverTypes
<1>3. s[q] = 2 /\ e[q] = n1 - 2 /\ step[q] < step_stop
  BY <1>1, RankAt DEF Place
<1>4. \A i \in 2..(n1 - 2), m \in Directions : df1[q][i][m] = <<step[q], Site(q, i)>>
  BY <1>1, RankAt DEF RankSolver, Collided
<1>5. d \in Grid
  <2>1. df1[q] \in [Columns -> [Directions -> SolverValue]] /\ df2[q] \in [Columns -> [Directions -> SolverValue]]
    BY SolverTypes DEF Grid
  <2>2. \A i \in s[q]..e[q] : i \in Columns
    BY <1>3, SolverConstants
  <2>3. QED
    BY <2>1, <2>2 DEF Grid
<1>6. ASSUME NEW i \in 3..(n1 - 1), NEW m \in ToRight PROVE d[i][m] = <<step[q], Site(q, i) - 1>>
  <2>1. i \in Columns /\ m \in Directions /\ i - 1 \in 2..(n1 - 2) /\ i \in Int /\ q \in Int
    BY SolverConstants DEF Directions
  <2>2. d[i][m] = df1[q][i - 1][m]
    BY <1>3, <2>1
  <2>3. df1[q][i - 1][m] = <<step[q], Site(q, i - 1)>>
    BY <1>4, <2>1
  <2>4. Site(q, i - 1) = Site(q, i) - 1
    BY <2>1, Sites
  <2>5. QED
    BY <2>2, <2>3, <2>4
<1>7. ASSUME NEW i \in 1..(n1 - 3), NEW m \in ToLeft PROVE d[i][m] = <<step[q], Site(q, i) + 1>>
  <2>1. i \in Columns /\ m \in Directions /\ i + 1 \in 2..(n1 - 2) /\ i \in Int /\ q \in Int
        /\ m \notin ToRight
    BY SolverConstants, Mirrored
  <2>2. d[i][m] = df1[q][i + 1][m]
    BY <1>3, <2>1
  <2>3. df1[q][i + 1][m] = <<step[q], Site(q, i + 1)>>
    BY <1>4, <2>1
  <2>4. Site(q, i + 1) = Site(q, i) + 1
    BY <2>1, Sites
  <2>5. QED
    BY <2>2, <2>3, <2>4
<1> HIDE DEF d
<1>8. SolverTypeOK'
  <2>1. 1 \in Tags
    BY TagRange
  <2>2. /\ pc' \in [Ranks -> {"collision", "streaming", "send", "recv", "return",
                              "boundry", "update", "finalize", "done"}]
        /\ at' \in [Ranks -> Tags] /\ df2' \in [Ranks -> Grid]
    BY <1>1, <1>5, <2>1, SolverTypes
  <2>3. /\ buffered' \in BOOLEAN /\ s' \in [Ranks -> Columns] /\ e' \in [Ranks -> Columns]
        /\ df1' \in [Ranks -> Grid] /\ wall' \in [Ranks -> Grid] /\ step' \in [Ranks -> 0..step_stop]
        /\ chan' \in [Links -> [Tags -> Seq(SolverValue)]]
    BY <1>1, SolverTypes
  <2>4. QED
    BY <2>2, <2>3 DEF SolverTypeOK, Grid, SolverValue
<1>9. \A r \in Ranks : r # q => Alike(r)
  BY <1>1, SolverTypes DEF Alike
<1>10. \A t \in Tags : ~SentInStep(q, t)' /\ ~ReadInStep(q, t)' /\ ~SentInStep(q, t) /\ ~ReadInStep(q, t)
  BY <1>1, <1>2, TagRange DEF SentInStep, ReadInStep
<1>11. RankSolver(q)'
  <2>1. Place(q)'
    BY <1>1, <1>2, <1>3 DEF Place
  <2>2. Collided(q)'
    BY <1>1, <1>4 DEF Collided
  <2>3. Streamed(q)'
    BY <1>1, <1>2, <1>6, <1>7 DEF Streamed
  <2>4. Halo(q)'
    BY <1>10 DEF Halo
  <2>5. Walls(q)'
    BY <1>2 DEF Walls
  <2>6. QED
    BY <2>1, <2>2, <2>3, <2>4, <2>5 DEF RankSolver
<1>12. \A r \in Ranks, t \in Tags : OnItsLink(r, t)'
  <2>1. \A t \in Tags : SentBy(q, t)' = SentBy(q, t) /\ ReadBy(q, t)' = ReadBy(q, t)
    BY <1>1, <1>10 DEF SentBy, ReadBy
  <2>2. QED
    BY <1>1, <1>9, <2>1, QuietLinks
<1>13. QED
  BY <1>8, <1>9, <1>11, <1>12, SolverOneRank

\* After the exchanges: the columns a rank works on, and the values it has
\* next to them.
LEMMA WorkColumns ==
  ASSUME SolverInv, NEW q \in Ranks, pc[q] \in {"boundry", "update"}, NEW i \in s[q]..e[q]
  PROVE  /\ i \in 2..(n1 - 2) /\ i \in Columns /\ i \in Int /\ q \in Int
         /\ i = 2 => q - 1 \in Ranks
         /\ i = n1 - 2 => q + 1 \in Ranks
<1>1. s[q] = FirstOf(q, 3) /\ e[q] = LastOf(q, n1 - 3)
  BY RankAt DEF Place
<1>2. q \in 0..(nprocs - 1) /\ nprocs \in Nat /\ n1 \in Nat /\ n1 >= 6
  BY SolverConstants
<1>3. s[q] = (IF q = 0 THEN 3 ELSE 2) /\ e[q] = (IF q = nprocs - 1 THEN n1 - 3 ELSE n1 - 2)
  BY <1>1, SolverConstants DEF FirstOf, LastOf
<1>4. Ranks = 0..(nprocs - 1) /\ Columns = 0..n1
  BY SolverConstants
<1>5. QED
  BY <1>2, <1>3, <1>4

LEMMA HaloValues ==
  ASSUME SolverInv, NEW q \in Ranks, pc[q] \in {"boundry", "update"}, NEW m \in Directions
  PROVE  /\ m \in ToRight /\ q - 1 \in Ranks =>
              /\ df2[q][2][m] = <<step[q], Site(q, 2) - 1>>
              /\ m \in DOMAIN Mirror => df1[q][1][m] = <<step[q], Site(q, 2) - 1>>
         /\ m \in ToLeft /\ q + 1 \in Ranks =>
              /\ df2[q][n1 - 2][m] = <<step[q], Site(q, n1 - 2) + 1>>
              /\ m \in DOMAIN Mirror => df1[q][n1 - 1][m] = <<step[q], Site(q, n1 - 2) + 1>>
<1>1. q \in Int /\ n1 \in Int /\ Site(q, 1) = Site(q, 2) - 1 /\ Site(q, n1 - 1) = Site(q, n1 - 2) + 1
  <2>1. q \in Int /\ n1 \in Int /\ 2 \in Int /\ 2 - 1 = 1 /\ n1 - 2 \in Int /\ (n1 - 2) + 1 = n1 - 1
    BY SolverConstants
  <2>2. QED
    BY <2>1, Sites
<1>2. Halo(q) /\ \A t \in Tags : ReadInStep(q, t)
  BY RankAt DEF RankSolver, ReadInStep
<1>3. ASSUME NEW t \in Tags, Exchanges[t].m = m
      PROVE  /\ m \in ToRight => Exchanges[t].to = 1 /\ Source(q, t) = q - 1
             /\ m \in ToLeft => Exchanges[t].to = -1 /\ Source(q, t) = q + 1
  <2>1. /\ m \in ToRight => Exchanges[t].to = 1
        /\ m \in ToLeft => Exchanges[t].to = -1
    BY <1>3, ExchangeList
  <2>2. q - 1 = q + (-1) /\ q - (-1) = q + 1
    BY <1>1
  <2>3. QED
    BY <2>1, <2>2 DEF Source
<1>4. PICK t \in Tags : Exchanges[t].m = m /\ Exchanges[t].df = 2
  BY ExchangeList
<1>5. Source(q, t) \in Ranks => df2[q][InCol(Exchanges[t])][m] = <<step[q], InSite(q, Exchanges[t])>>
  BY <1>2, <1>4 DEF Halo
<1>6. /\ m \in ToRight /\ q - 1 \in Ranks => df2[q][2][m] = <<step[q], Site(q, 2) - 1>>
      /\ m \in ToLeft /\ q + 1 \in Ranks => df2[q][n1 - 2][m] = <<step[q], Site(q, n1 - 2) + 1>>
  BY <1>1, <1>3, <1>4, <1>5 DEF InCol, InSite
<1>7. ASSUME m \in DOMAIN Mirror
      PROVE  /\ m \in ToRight /\ q - 1 \in Ranks => df1[q][1][m] = <<step[q], Site(q, 2) - 1>>
             /\ m \in ToLeft /\ q + 1 \in Ranks => df1[q][n1 - 1][m] = <<step[q], Site(q, n1 - 2) + 1>>
  <2>1. PICK u \in Tags : Exchanges[u].m = m /\ Exchanges[u].df = 1
    BY <1>7, ExchangeList
  <2>2. Source(q, u) \in Ranks => df1[q][InCol(Exchanges[u])][m] = <<step[q], InSite(q, Exchanges[u])>>
    BY <1>2, <2>1 DEF Halo
  <2>3. QED
    BY <1>1, <1>3, <2>1, <2>2 DEF InCol, InSite
<1>8. QED
  BY <1>6, <1>7

LEMMA BoundryInv ==
  ASSUME SolverInv, NEW q \in Ranks, Boundry(q)
  PROVE  SolverInv'
<1> DEFINE w == [i \in Columns |-> [m \in Directions |->
                  IF i \in s[q]..e[q] /\ m \in DOMAIN Mirror
                  THEN df1[q][IF m \in ToRight THEN i - 1 ELSE i + 1][Mirror[m]]
                  ELSE wall[q][i][m]]]
<1>1. /\ pc[q] = "boundry" /\ pc' = [pc EXCEPT ![q] = "update"]
      /\ s' = [s EXCEPT ![q] = FirstOf(q, 3)] /\ e' = [e EXCEPT ![q] = LastOf(q, n1 - 3)]
      /\ wall' = [wall EXCEPT ![q] = w]
      /\ UNCHANGED <<buffered, at, df1, df2, step, chan>>
  BY SolverTypes DEF Boundry, Goto
<1>2. /\ pc'[q] = "update" /\ wall'[q] = w /\ s'[q] = FirstOf(q, 3) /\ e'[q] = LastOf(q, n1 - 3)
      /\ s'[q] = s[q] /\ e'[q] = e[q] /\ step[q] < step_stop
  BY <1>1, SolverTypes, RankAt DEF Place
<1>3. ASSUME NEW i \in s[q]..e[q], NEW m \in DOMAIN Mirror
      PROVE  /\ w[i][m] = <<step[q], Site(q, i) + (IF m \in ToRight THEN -1 ELSE 1)>>
  <2>1. /\ i \in 2..(n1 - 2) /\ i \in Columns /\ i \in Int /\ q \in Int
        /\ i = 2 => q - 1 \in Ranks
        /\ i = n1 - 2 => q + 1 \in Ranks
    BY <1>1, WorkColumns
  <2>2. /\ m \in Directions /\ Mirror[m] \in DOMAIN Mirror /\ Mirror[m] \in Directions
        /\ Mirror[m] \in ToRight <=> m \in ToRight
        /\ m \notin ToRight => Mirror[m] \in ToLeft
    BY Mirrored
  <2>3. w[i][m] = df1[q][IF m \in ToRight THEN i - 1 ELSE i + 1][Mirror[m]]
    BY <2>1, <2>2
  <2>4. Collided(q)
    BY RankAt DEF RankSolver
  <2>5. Site(q, i - 1) = Site(q, i) - 1 /\ Site(q, i + 1) = Site(q, i) + 1 /\ Site(q, i) \in Int
    BY <2>1, Sites
  <2> HIDE DEF w
  <2>6. CASE m \in ToRight
    <3>1. CASE i = 2
      <4>1. df1[q][1][Mirror[m]] = <<step[q], Site(q, 2) - 1>>
        BY <1>1, <2>1, <2>2, <2>6, <3>1, HaloValues
      <4>2. QED
        BY <2>3, <2>5, <2>6, <3>1, <4>1
    <3>2. CASE i # 2
      <4>1. i - 1 \in 2..(n1 - 2)
        BY <2>1, <3>2, SolverConstants
      <4>2. df1[q][i - 1][Mirror[m]] = <<step[q], Site(q, i - 1)>>
        BY <1>1, <2>2, <2>4, <4>1 DEF Collided
      <4>3. QED
        BY <2>3, <2>5, <2>6, <4>2
    <3>3. QED
      BY <3>1, <3>2
  <2>7. CASE m \notin ToRight
    <3>1. CASE i = n1 - 2
      <4>1. df1[q][n1 - 1][Mirror[m]] = <<step[q], Site(q, n1 - 2) + 1>>
        BY <1>1, <2>1, <2>2, <2>7, <3>1, HaloValues
      <4>2. i + 1 = n1 - 1
        BY <2>1, <3>1, SolverConstants
      <4>3. QED
        BY <2>3, <2>5, <2>7, <3>1, <4>1, <4>2
    <3>2. CASE i # n1 - 2
      <4>1. i + 1 \in 2..(n1 - 2)
        BY <2>1, <3>2, SolverConstants
      <4>2. df1[q][i + 1][Mirror[m]] = <<step[q], Site(q, i + 1)>>
        BY <1>1, <2>2, <2>4, <4>1 DEF Collided
      <4>3. QED
        BY <2>3, <2>5, <2>7, <4>2
    <3>3. QED
      BY <3>1, <3>2
  <2>8. QED
    BY <2>6, <2>7
<1>4. w \in Grid
  <2>1. /\ df1[q] \in [Columns -> [Directions -> SolverValue]]
        /\ wall[q] \in [Columns -> [Directions -> SolverValue]]
    BY SolverTypes DEF Grid
  <2>2. ASSUME NEW i \in s[q]..e[q] PROVE i - 1 \in Columns /\ i + 1 \in Columns
    <3>1. i \in 2..(n1 - 2)
      BY <1>1, WorkColumns
    <3>2. QED
      BY <3>1, SolverConstants
  <2>3. \A m \in DOMAIN Mirror : Mirror[m] \in Directions
    BY Mirrored
  <2>4. ASSUME NEW i \in Columns, NEW m \in Directions
        PROVE  (IF i \in s[q]..e[q] /\ m \in DOMAIN Mirror
                THEN df1[q][IF m \in ToRight THEN i - 1 ELSE i + 1][Mirror[m]]
                ELSE wall[q][i][m]) \in SolverValue
    BY <2>1, <2>2, <2>3
  <2>5. QED
    BY <2>4 DEF Grid
<1> HIDE DEF w
<1>5. SolverTypeOK'
  <2>1. FirstOf(q, 3) \in Columns /\ LastOf(q, n1 - 3) \in Columns
    BY SolverConstants DEF FirstOf, LastOf
  <2>2. /\ pc' \in [Ranks -> {"collision", "streaming", "send", "recv", "return",
                              "boundry", "update", "finalize", "done"}]
        /\ s' \in [Ranks -> Columns] /\ e' \in [Ranks -> Columns] /\ wall' \in [Ranks -> Grid]
    BY <1>1, <1>4, <2>1, SolverTypes
  <2>3. /\ buffered' \in BOOLEAN /\ at' \in [Ranks -> Tags] /\ df1' \in [Ranks -> Grid]
        /\ df2' \in [Ranks -> Grid] /\ step' \in [Ranks -> 0..step_stop]
        /\ chan' \in [Links -> [Tags -> Seq(SolverValue)]]
    BY <1>1, SolverTypes
  <2>4. QED
    BY <2>2, <2>3 DEF SolverTypeOK, Grid, SolverValue
<1>6. \A r \in Ranks : r # q => Alike(r)
  BY <1>1, SolverTypes DEF Alike
<1>7. \A t : SentInStep(q, t)' /\ ReadInStep(q, t)' /\ SentInStep(q, t) /\ ReadInStep(q, t)
  BY <1>1, <1>2 DEF SentInStep, ReadInStep
<1>8. RankSolver(q)'
  <2>1. RankSolver(q)
    BY RankAt
  <2>2. Place(q)'
    BY <1>1, <1>2 DEF Place
  <2>3. Collided(q)'
    BY <1>2 DEF Collided
  <2>4. Streamed(q)'
    BY <1>1, <2>1 DEF RankSolver, Streamed
  <2>5. Halo(q)'
    <3>1. Halo(q)
      BY <2>1 DEF RankSolver
    <3>2. QED
      BY <1>1, <1>7, <3>1 DEF Halo
  <2>6. Walls(q)'
    BY <1>1, <1>2, <1>3 DEF Walls
  <2>7. QED
    BY <2>2, <2>3, <2>4, <2>5, <2>6 DEF RankSolver
<1>9. \A r \in Ranks, t \in Tags : OnItsLink(r, t)'
  <2>1. \A t \in Tags : SentBy(q, t)' = SentBy(q, t) /\ ReadBy(q, t)' = ReadBy(q, t)
    BY <1>1, <1>7 DEF SentBy, ReadBy
  <2>2. QED
    BY <1>1, <1>6, <2>1, QuietLinks
<1>10. QED
  BY <1>5, <1>6, <1>8, <1>9, SolverOneRank

LEMMA UpdateInv ==
  ASSUME SolverInv, NEW q \in Ranks, Update(q)
  PROVE  SolverInv'
<1> DEFINE d == [i \in Columns |-> IF i \in s'[q]..e'[q] THEN df2'[q][i] ELSE df1[q][i]]
<1>1. /\ pc[q] = "update"
      /\ pc' = [pc EXCEPT ![q] = IF step'[q] < step_stop THEN "collision" ELSE "finalize"]
      /\ s' = [s EXCEPT ![q] = FirstOf(q, 1)] /\ e' = [e EXCEPT ![q] = LastOf(q, n1 - 1)]
      /\ df2' = [df2 EXCEPT ![q] = WithInout(q)]
      /\ df1' = [df1 EXCEPT ![q] = d]
      /\ step' = [step EXCEPT ![q] = step[q] + 1]
      /\ UNCHANGED <<buffered, at, wall, chan>>
  BY SolverTypes DEF Update, Goto
<1>2. /\ pc'[q] = (IF step[q] + 1 < step_stop THEN "collision" ELSE "finalize")
      /\ step'[q] = step[q] + 1 /\ df2'[q] = WithInout(q)
  BY <1>1, SolverTypes
<1>3. step[q] \in 0..(step_stop - 1) /\ step_stop \in Nat
  BY <1>1, RankAt, SolverConstants
<1>4. WithInout(q) \in Grid
  <2>1. df2[q] \in [Columns -> [Directions -> SolverValue]] /\ Inout \in SolverValue
    BY SolverTypes DEF Grid, SolverValue
  <2>2. QED
    BY <2>1 DEF Grid, WithInout
<1>5. d \in Grid
  <2>1. df1[q] \in [Columns -> [Directions -> SolverValue]] /\ df2'[q] \in [Columns -> [Directions -> SolverValue]]
    BY <1>2, <1>4, SolverTypes DEF Grid
  <2>2. QED
    BY <2>1 DEF Grid
<1> HIDE DEF d
<1>6. SolverTypeOK'
  <2>1. FirstOf(q, 1) \in Columns /\ LastOf(q, n1 - 1) \in Columns /\ step[q] + 1 \in 0..step_stop
    BY <1>3, SolverConstants DEF FirstOf, LastOf
  <2>2. /\ pc' \in [Ranks -> {"collision", "streaming", "send", "recv", "return",
                              "boundry", "update", "finalize", "done"}]
        /\ s' \in [Ranks -> Columns] /\ e' \in [Ranks -> Columns] /\ step' \in [Ranks -> 0..step_stop]
    BY <1>1, <2>1, SolverTypes
  <2>3. df1' \in [Ranks -> Grid] /\ df2' \in [Ranks -> Grid]
    BY <1>1, <1>4, <1>5, SolverTypes
  <2>4. /\ buffered' \in BOOLEAN /\ at' \in [Ranks -> Tags] /\ wall' \in [Ranks -> Grid]
        /\ chan' \in [Links -> [Tags -> Seq(SolverValue)]]
    BY <1>1, SolverTypes
  <2>5. QED
    BY <2>2, <2>3, <2>4 DEF SolverTypeOK, Grid, SolverValue
<1>7. \A r \in Ranks : r # q => Alike(r)
  BY <1>1, SolverTypes DEF Alike
<1>8. \A t : ~SentInStep(q, t)' /\ ~ReadInStep(q, t)' /\ SentInStep(q, t) /\ ReadInStep(q, t)
  BY <1>1, <1>2 DEF SentInStep, ReadInStep
<1>9. RankSolver(q)'
  <2>1. Place(q)'
    BY <1>2, <1>3 DEF Place
  <2>2. Collided(q)' /\ Streamed(q)' /\ Walls(q)'
    BY <1>2 DEF Collided, Streamed, Walls
  <2>3. Halo(q)'
    BY <1>8 DEF Halo
  <2>4. QED
    BY <2>1, <2>2, <2>3 DEF RankSolver
<1>10. \A r \in Ranks, t \in Tags : OnItsLink(r, t)'
  <2>1. \A t \in Tags : SentBy(q, t)' = SentBy(q, t) /\ ReadBy(q, t)' = ReadBy(q, t)
    BY <1>2, <1>3, <1>8 DEF SentBy, ReadBy
  <2>2. QED
    BY <1>1, <1>7, <2>1, QuietLinks
<1>11. QED
  BY <1>6, <1>7, <1>9, <1>10, SolverOneRank

-----------------------------------------------------------------------------
(* The solver: the calls of MPI_Sendrecv.                                   *)

LEMMA Elsewhere ==
  ASSUME NEW r \in Ranks, Alike(r), NEW t
  PROVE  SentBy(r, t)' = SentBy(r, t) /\ ReadBy(r, t)' = ReadBy(r, t)
BY DEF Alike, SentBy, ReadBy, SentInStep, ReadInStep

LEMMA LinkLeft ==
  ASSUME SolverInv, NEW r \in Ranks, NEW t \in Tags,
         Peer(r, t) \in Ranks =>
           /\ Wire(r, t)' = Wire(r, t)
           /\ SentBy(r, t)' = SentBy(r, t)
           /\ ReadBy(Peer(r, t), t)' = ReadBy(Peer(r, t), t)
  PROVE  OnItsLink(r, t)'
<1>1. OnItsLink(r, t) /\ Peer(r, t)' = Peer(r, t)
  BY DEF SolverInv, Peer
<1>2. QED
  BY <1>1 DEF OnItsLink

\* The columns of a call while s and e are at the first and last real column.
LEMMA CallColumns ==
  ASSUME SolverInv, NEW q \in Ranks, pc[q] \in {"send", "recv", "return"}, NEW t \in Tags
  PROVE  /\ Col(q, Exchanges[t].out) = OutCol(Exchanges[t]) /\ OutCol(Exchanges[t]) \in Columns
         /\ Col(q, Exchanges[t].in) = InCol(Exchanges[t]) /\ InCol(Exchanges[t]) \in Columns
<1> DEFINE x == Exchanges[t]
<1>1. s[q] = 2 /\ e[q] = n1 - 2
  BY RankAt DEF Place
<1>2. /\ x.df \in {1, 2} /\ x.to \in {1, -1}
      /\ x.out[1] = IF x.to = 1 THEN "e" ELSE "s"
      /\ x.out[2] = IF x.df = 2 THEN x.to ELSE 0
      /\ x.in[1] = IF x.to = 1 THEN "s" ELSE "e"
      /\ x.in[2] = IF x.df = 2 THEN 0 ELSE -x.to
  BY ExchangeList
<1>3. n1 \in Nat /\ n1 >= 6 /\ Columns = 0..n1
  BY SolverConstants
<1> HIDE DEF x
<1>4. Col(q, x.out) = OutCol(x) /\ OutCol(x) \in Columns
  BY <1>1, <1>2, <1>3 DEF Col, OutCol
<1>5. Col(q, x.in) = InCol(x) /\ InCol(x) \in Columns
  BY <1>1, <1>2, <1>3 DEF Col, InCol
<1>6. QED
  BY <1>4, <1>5 DEF x

\* What a call sends is the value collision computed, in this step, at the
\* border of the rank.
LEMMA SentValue ==
  ASSUME SolverInv, NEW q \in Ranks, pc[q] = "send"
  PROVE  /\ Sent(q, Exchanges[at[q]]) = <<step[q], OutSite(q, Exchanges[at[q]])>>
         /\ <<step[q], OutSite(q, Exchanges[at[q]])>> \in SolverValue
<1> DEFINE x == Exchanges[at[q]]
<1>1. at[q] \in Tags /\ Collided(q) /\ Streamed(q) /\ step[q] \in 0..(step_stop - 1)
  BY RankAt DEF RankSolver
<1>2. /\ x.df \in {1, 2} /\ x.to \in {1, -1} /\ x.m \in Directions
      /\ x.to = 1 <=> x.m \in ToRight
      /\ x.to = -1 <=> x.m \in ToLeft
  BY <1>1, ExchangeList
<1>3. Col(q, x.out) = OutCol(x)
  BY <1>1, CallColumns
<1>4. n1 \in Nat /\ n1 >= 6 /\ q \in Int /\ Columns = 0..n1
  BY SolverConstants
<1>5. Site(q, 2) = Site(q, 1) + 1 /\ Site(q, n1 - 2) = Site(q, n1 - 1) - 1
  <2>1. 2 - 1 = 1 /\ (n1 - 1) - 1 = n1 - 2 /\ 1 + 1 = 2 /\ 1 \in Int /\ n1 - 1 \in Int
    BY <1>4
  <2>2. QED
    BY <1>4, <2>1, Sites
<1>6. /\ \A i \in 2..(n1 - 2), m \in Directions : df1[q][i][m] = <<step[q], Site(q, i)>>
      /\ \A i \in 3..(n1 - 1), m \in ToRight : df2[q][i][m] = <<step[q], Site(q, i) - 1>>
      /\ \A i \in 1..(n1 - 3), m \in ToLeft : df2[q][i][m] = <<step[q], Site(q, i) + 1>>
  BY <1>1 DEF Collided, Streamed
<1>7. OutSite(q, x) = Site(q, IF x.to = 1 THEN n1 - 2 ELSE 2)
  BY DEF OutSite
<1>8. Sent(q, x) = (IF x.df = 1 THEN df1 ELSE df2)[q][OutCol(x)][x.m]
  BY <1>3 DEF Sent
<1> HIDE DEF x
<1>9. ASSUME x.df = 1 PROVE Sent(q, x) = <<step[q], OutSite(q, x)>>
  <2>1. OutCol(x) = (IF x.to = 1 THEN n1 - 2 ELSE 2) /\ OutCol(x) \in 2..(n1 - 2)
    BY <1>4, <1>9 DEF OutCol
  <2>2. QED
    BY <1>2, <1>6, <1>7, <1>8, <1>9, <2>1
<1>10. ASSUME x.df = 2, x.to = 1 PROVE Sent(q, x) = <<step[q], OutSite(q, x)>>
  <2>1. OutCol(x) = n1 - 1 /\ n1 - 1 \in 3..(n1 - 1) /\ x.m \in ToRight
    BY <1>2, <1>4, <1>10 DEF OutCol
  <2>2. QED
    BY <1>5, <1>6, <1>7, <1>8, <1>10, <2>1
<1>11. ASSUME x.df = 2, x.to = -1 PROVE Sent(q, x) = <<step[q], OutSite(q, x)>>
  <2>1. OutCol(x) = 1 /\ 1 \in 1..(n1 - 3) /\ x.m \in ToLeft
    BY <1>2, <1>4, <1>11 DEF OutCol
  <2>2. QED
    BY <1>5, <1>6, <1>7, <1>8, <1>11, <2>1
<1>12. <<step[q], OutSite(q, x)>> \in SolverValue
  <2>1. (IF x.to = 1 THEN n1 - 2 ELSE 2) \in Columns
    BY <1>4
  <2>2. step[q] \in Int /\ step[q] >= -1 /\ step[q] < step_stop
    BY <1>1, SolverConstants
  <2>3. QED
    BY <1>7, <2>1, <2>2, ValueOf
<1>13. QED
  BY <1>2, <1>9, <1>10, <1>11, <1>12 DEF x

LEMMA SendrecvStartInv ==
  ASSUME SolverInv, NEW q \in Ranks, SendrecvStart(q)
  PROVE  SolverInv'
<1>0. PICK u \in Tags : u = at[q]
  BY RankAt
<1> DEFINE x == Exchanges[u]
           l == <<q, Peer(q, u)>>
           v == <<step[q], OutSite(q, x)>>
<1>1. /\ pc[q] = "send"
      /\ chan' = IF l \in Links THEN [chan EXCEPT ![l][u] = Append(chan[l][u], Sent(q, x))] ELSE chan
      /\ pc' = [pc EXCEPT ![q] = IF <<Source(q, u), q>> \in Links THEN "recv" ELSE "return"]
      /\ UNCHANGED <<buffered, at, s, e, df1, df2, wall, step>>
  BY <1>0, SolverTypes DEF SendrecvStart, Goto, SendLink, RecvLink, Exch, Peer, Source
<1>2. /\ u \in Tags /\ u \in 1..18 /\ Sent(q, x) = v /\ v \in SolverValue
      /\ step[q] \in 0..(step_stop - 1) /\ RankSolver(q)
  BY <1>0, <1>1, SentValue, RankAt
<1>3. /\ pc'[q] = (IF <<Source(q, u), q>> \in Links THEN "recv" ELSE "return")
      /\ at'[q] = u /\ step'[q] = step[q]
      /\ \A r \in Ranks : r # q => Alike(r)
  BY <1>0, <1>1, SolverTypes DEF Alike
<1>4. Source(q, u) \in Ranks <=> <<Source(q, u), q>> \in Links
  BY <1>2, Peers
<1>5. Peer(q, u) \in Ranks <=> l \in Links
  BY <1>2, Peers
<1> HIDE DEF v, x
<1>6. l \in Links => Append(chan[l][u], v) \in Seq(SolverValue)
  <2>1. l \in Links => chan[l][u] \in Seq(SolverValue)
    BY <1>2, SolverTypes
  <2>2. QED
    BY <1>2, <2>1, AppendProperties
<1>7. /\ \A r \in Ranks, t \in Tags : <<r, Peer(r, t)>> \in Links /\ (r # q \/ t # u) =>
                                        Wire(r, t)' = Wire(r, t)
      /\ l \in Links => Wire(q, u)' = Append(Wire(q, u), v)
      /\ chan' \in [Links -> [Tags -> Seq(SolverValue)]]
  <2>1. CASE l \notin Links
    BY <1>1, <2>1, SolverTypes DEF Wire, Peer
  <2>2. CASE l \in Links
    <3> DEFINE c == Append(chan[l][u], v)
    <3>1. chan' = [chan EXCEPT ![l] = [chan[l] EXCEPT ![u] = c]]
      BY <1>1, <1>2, <2>2, SolverTypes
    <3>2. chan[l] \in [Tags -> Seq(SolverValue)] /\ c \in Seq(SolverValue)
      BY <1>6, <2>2, SolverTypes
    <3> HIDE DEF c
    <3>3. [chan[l] EXCEPT ![u] = c] \in [Tags -> Seq(SolverValue)]
      BY <3>2
    <3>4. chan' \in [Links -> [Tags -> Seq(SolverValue)]]
      BY <3>1, <3>3, SolverTypes
    <3>5. chan'[l][u] = c /\ \A t \in Tags : t # u => chan'[l][t] = chan[l][t]
      BY <1>2, <2>2, <3>1, <3>2, SolverTypes
    <3>6. \A k \in Links : k # l => chan'[k] = chan[k]
      BY <3>1, SolverTypes
    <3>7. \A r \in Ranks, t \in Tags : r # q => <<r, Peer(r, t)>> # l
      OBVIOUS
    <3>8. Wire(q, u)' = chan'[l][u]
      BY DEF Wire, Peer
    <3>9. ASSUME NEW r \in Ranks, NEW t \in Tags, <<r, Peer(r, t)>> \in Links, r # q \/ t # u
          PROVE  Wire(r, t)' = Wire(r, t)
      <4>1. Wire(r, t)' = chan'[<<r, Peer(r, t)>>][t]
        BY DEF Wire, Peer
      <4>2. CASE <<r, Peer(r, t)>> = l
        BY <3>5, <3>9, <4>1, <4>2 DEF Wire
      <4>3. CASE <<r, Peer(r, t)>> # l
        BY <3>6, <3>9, <4>1, <4>3 DEF Wire
      <4>4. QED
        BY <4>2, <4>3
    <3>10. QED
      BY <3>4, <3>5, <3>8, <3>9 DEF c, Wire
  <2>3. QED
    BY <2>1, <2>2
<1>8. SolverTypeOK'
  <2>1. /\ pc' \in [Ranks -> {"collision", "streaming", "send", "recv", "return",
                              "boundry", "update", "finalize", "done"}]
    BY <1>1, SolverTypes
  <2>2. /\ buffered' \in BOOLEAN /\ at' \in [Ranks -> Tags] /\ s' \in [Ranks -> Columns]
        /\ e' \in [Ranks -> Columns] /\ df1' \in [Ranks -> Grid] /\ df2' \in [Ranks -> Grid]
        /\ wall' \in [Ranks -> Grid] /\ step' \in [Ranks -> 0..step_stop]
    BY <1>1, SolverTypes
  <2>3. QED
    BY <1>7, <2>1, <2>2 DEF SolverTypeOK, Grid, SolverValue
<1>9. \A t \in Tags : /\ t \in 1..18
                      /\ Source(q, t) \in Ranks => (ReadInStep(q, t)' <=> ReadInStep(q, t))
                      /\ t # u => (SentInStep(q, t)' <=> SentInStep(q, t))
                      /\ SentInStep(q, u)' /\ ~SentInStep(q, u)
  <2>1. Tags = 1..18
    BY TagRange
  <2>2. \A t \in Tags : t # u => (t <= u <=> t < u)
    BY <1>2, <2>1
  <2>3. ASSUME NEW t \in Tags, Source(q, t) \in Ranks PROVE ReadInStep(q, t)' <=> ReadInStep(q, t)
    <3>1. CASE t = u
      BY <1>0, <1>1, <1>2, <1>3, <1>4, <2>3, <3>1 DEF ReadInStep
    <3>2. CASE t # u
      BY <1>0, <1>1, <1>3, <2>2, <3>2 DEF ReadInStep
    <3>3. QED
      BY <3>1, <3>2
  <2>4. \A t \in Tags : t # u => (SentInStep(q, t)' <=> SentInStep(q, t))
    BY <1>0, <1>1, <1>3, <2>2 DEF SentInStep
  <2>5. SentInStep(q, u)' /\ ~SentInStep(q, u)
    <3>1. u \in Nat
      BY <1>2
    <3>2. u <= u /\ ~(u < u)
      BY <3>1
    <3>3. QED
      BY <1>0, <1>1, <1>3, <3>2 DEF SentInStep
  <2>6. QED
    BY <2>1, <2>3, <2>4, <2>5
<1>10. RankSolver(q)'
  <2>1. Place(q)'
    <3>1. Source(q, at[q])' = Source(q, u)
      BY <1>3 DEF Source
    <3>2. QED
      BY <1>1, <1>2, <1>3, <1>4, <3>1 DEF RankSolver, Place
  <2>2. Collided(q)' /\ Streamed(q)' /\ Walls(q)'
    BY <1>1, <1>2, <1>3 DEF RankSolver, Collided, Streamed, Walls
  <2>3. Halo(q)'
    <3>1. \A t : Source(q, t)' = Source(q, t)
      BY DEF Source
    <3>2. QED
      BY <1>1, <1>2, <1>9, <3>1 DEF RankSolver, Halo
  <2>4. QED
    BY <2>1, <2>2, <2>3 DEF RankSolver
<1>11. \A t \in Tags : /\ Source(q, t) \in Ranks => ReadBy(q, t)' = ReadBy(q, t)
                       /\ t # u => SentBy(q, t)' = SentBy(q, t)
  BY <1>1, <1>9 DEF ReadBy, SentBy
<1>12. SentBy(q, u)' = step[q] + 1 /\ SentBy(q, u) = step[q]
  BY <1>1, <1>2, <1>9 DEF SentBy
<1>13. ASSUME NEW r \in Ranks, NEW t \in Tags PROVE OnItsLink(r, t)'
  <2>1. Peer(r, t) \in Ranks => ReadBy(Peer(r, t), t)' = ReadBy(Peer(r, t), t)
    <3>1. CASE Peer(r, t) = q
      <4>1. Source(q, t) = r
        BY <3>1, Peers
      <4>2. ReadBy(Peer(r, t), t)' = ReadBy(q, t)'
        BY <3>1 DEF ReadBy, ReadInStep, Peer
      <4>3. QED
        BY <1>11, <3>1, <4>1, <4>2
    <3>2. CASE Peer(r, t) # q
      <4> DEFINE p == Peer(r, t)
      <4>1. p \in Ranks => ReadBy(p, t)' = ReadBy(p, t)
        BY <1>3, <3>2, Elsewhere
      <4>2. ReadBy(Peer(r, t), t)' = ReadBy(p, t)'
        BY DEF Peer
      <4>3. QED
        BY <4>1, <4>2
    <3>3. QED
      BY <3>1, <3>2
  <2>2. CASE r # q \/ t # u
    <3>1. SentBy(r, t)' = SentBy(r, t)
      BY <1>3, <1>11, <2>2, Elsewhere
    <3>2. Peer(r, t) \in Ranks => Wire(r, t)' = Wire(r, t)
      BY <1>7, <2>2, Peers
    <3>3. QED
      BY <2>1, <3>1, <3>2, LinkLeft
  <2>3. CASE r = q /\ t = u
    <3> DEFINE p == Peer(q, u)
    <3>1. SUFFICES ASSUME p \in Ranks PROVE OnItsLink(q, u)'
      <4>1. p \notin Ranks => OnItsLink(q, u)'
        BY DEF OnItsLink, Peer
      <4>2. OnItsLink(r, t)' <=> OnItsLink(q, u)'
        BY <2>3 DEF OnItsLink, Wire, SentBy, SentInStep, ReadBy, ReadInStep, Peer
      <4>3. QED
        BY <4>1, <4>2
    <3>2. /\ Len(Wire(q, u)) = SentBy(q, u) - ReadBy(p, u)
          /\ \A k \in 1..Len(Wire(q, u)) :
               Wire(q, u)[k] = <<ReadBy(p, u) + k - 1, OutSite(q, x)>>
      BY <1>2, <3>1 DEF SolverInv, OnItsLink, x
    <3>3. Wire(q, u) \in Seq(SolverValue) /\ l \in Links
      BY <1>2, <1>5, <3>1, SolverTypes DEF Wire
    <3> DEFINE n == Len(Wire(q, u))
    <3>4. /\ Len(Wire(q, u)') = n + 1 /\ n \in Nat
          /\ \A k \in 1..n : Wire(q, u)'[k] = Wire(q, u)[k]
          /\ Wire(q, u)'[n + 1] = v
      BY <1>2, <1>7, <3>3, AppendProperties, LenProperties
    <3>5. ReadBy(p, u)' = ReadBy(p, u) /\ ReadBy(p, u) \in Nat
      <4>1. ReadBy(p, u)' = ReadBy(p, u)
        BY <2>1, <2>3, <3>1
      <4>2. step[p] \in Nat /\ ReadBy(p, u) \in {step[p], step[p] + 1}
        BY <1>2, <3>1, RankAt
      <4>3. QED
        BY <4>1, <4>2
    <3> HIDE DEF n, p
    <3>6. n = step[q] - ReadBy(p, u) /\ n + 1 = (step[q] + 1) - ReadBy(p, u)
      BY <1>2, <1>12, <3>2, <3>4, <3>5 DEF n
    <3>7. ASSUME NEW k \in 1..(n + 1) PROVE Wire(q, u)'[k] = <<ReadBy(p, u) + k - 1, OutSite(q, x)>>
      <4>1. k \in 1..n \/ k = n + 1
        BY <3>4
      <4>2. ReadBy(p, u) + (n + 1) - 1 = step[q]
        BY <1>2, <3>4, <3>5, <3>6
      <4>3. QED
        BY <3>2, <3>4, <4>1, <4>2 DEF n, v
    <3>8. /\ Peer(q, u) = p /\ Len(Wire(q, u)') = SentBy(q, u)' - ReadBy(p, u)'
          /\ \A k \in 1..Len(Wire(q, u)') : Wire(q, u)'[k] = <<ReadBy(p, u)' + k - 1, OutSite(q, x)>>
      BY <1>12, <3>4, <3>5, <3>6, <3>7 DEF p
    <3>9. QED
      BY <3>8 DEF OnItsLink, x, p, Peer
  <2>4. QED
    BY <2>2, <2>3
<1>14. QED
  BY <1>3, <1>8, <1>10, <1>13, SolverOneRank

LEMMA SendrecvReceiveInv ==
  ASSUME SolverInv, NEW q \in Ranks, SendrecvReceive(q)
  PROVE  SolverInv'
<1>0. PICK u \in Tags : u = at[q]
  BY RankAt
<1> DEFINE x == Exchanges[u]
           p == Source(q, u)
           l == <<p, q>>
           v == Head(chan[l][u])
<1>1. /\ pc[q] = "recv" /\ chan[l][u] # <<>>
      /\ df1' = IF x.df = 1 THEN Stored(df1, q, x, v) ELSE df1
      /\ df2' = IF x.df = 2 THEN Stored(df2, q, x, v) ELSE df2
      /\ chan' = [chan EXCEPT ![l][u] = Tail(chan[l][u])]
      /\ pc' = [pc EXCEPT ![q] = "return"]
      /\ UNCHANGED <<buffered, at, s, e, wall, step>>
  BY <1>0, SolverTypes DEF SendrecvReceive, Goto, RecvLink, Exch, Source
<1>2. /\ u \in 1..18 /\ step[q] \in 0..(step_stop - 1) /\ RankSolver(q) /\ Place(q)
  BY <1>0, <1>1, RankAt
<1>3. p \in Ranks /\ l \in Links /\ Peer(p, u) = q /\ p # q /\ OutSite(p, x) = InSite(q, x)
  BY <1>0, <1>1, <1>2, Peers DEF Place
<1>4. /\ x.df \in {1, 2} /\ x.to \in {1, -1} /\ x.m \in Directions
      /\ x.to = 1 <=> x.m \in ToRight
      /\ x.to = -1 <=> x.m \in ToLeft
  BY ExchangeList
<1>5. Col(q, x.in) = InCol(x) /\ InCol(x) \in Columns
  BY <1>1, CallColumns
<1>6. \A t \in Tags : /\ t \in 1..18
                      /\ SentInStep(q, t)' <=> SentInStep(q, t)
                      /\ t # u => (ReadInStep(q, t)' <=> ReadInStep(q, t))
                      /\ ReadInStep(q, u)' /\ ~ReadInStep(q, u)
  <2>1. Tags = 1..18 /\ pc'[q] = "return" /\ at'[q] = u
    BY <1>0, <1>1, TagRange, SolverTypes
  <2>2. \A t \in Tags : t # u => (t <= u <=> t < u)
    BY <1>2, <2>1
  <2>3. \A t \in Tags : SentInStep(q, t)' <=> SentInStep(q, t)
    BY <1>0, <1>1, <2>1 DEF SentInStep
  <2>4. \A t \in Tags : t # u => (ReadInStep(q, t)' <=> ReadInStep(q, t))
    BY <1>0, <1>1, <2>1, <2>2 DEF ReadInStep
  <2>5. ReadInStep(q, u)' /\ ~ReadInStep(q, u)
    <3>1. pc[q] = "recv" /\ at[q] = u /\ u \in Nat
      BY <1>0, <1>1, <1>2
    <3>2. u <= u /\ ~(u < u)
      BY <3>1
    <3>3. ReadInStep(q, u)'
      BY <2>1, <3>2 DEF ReadInStep
    <3>4. ~ReadInStep(q, u)
      BY <3>1, <3>2 DEF ReadInStep
    <3>5. QED
      BY <3>3, <3>4
  <2>6. QED
    BY <2>1, <2>3, <2>4, <2>5
\* The message is that of this step.
<1>7. /\ Wire(p, u) = chan[l][u] /\ Wire(p, u) \in Seq(SolverValue) /\ Len(Wire(p, u)) \in Nat \ {0}
      /\ \A k \in 1..Len(Wire(p, u)) : Wire(p, u)[k] = <<ReadBy(q, u) + k - 1, OutSite(p, x)>>
      /\ Len(Wire(p, u)) = SentBy(p, u) - ReadBy(q, u)
      /\ ReadBy(q, u) = step[q]
  <2>1. Wire(p, u) = chan[l][u]
    BY <1>3 DEF Wire
  <2>2. chan[l][u] \in Seq(SolverValue)
    BY <1>3, SolverTypes
  <2>3. Len(chan[l][u]) \in Nat \ {0}
    BY <1>1, <2>2, LenProperties
  <2>4. OnItsLink(p, u)
    BY <1>3 DEF SolverInv
  <2>5. ReadBy(q, u) = step[q]
    BY <1>2, <1>6 DEF ReadBy
  <2> HIDE DEF x, p, l, v
  <2>6. QED
    BY <1>3, <2>1, <2>2, <2>3, <2>4, <2>5 DEF OnItsLink, x
<1>8. v = <<step[q], InSite(q, x)>> /\ v \in SolverValue
  <2>1. v = Wire(p, u)[1]
    BY <1>7
  <2> HIDE DEF x, p, l, v
  <2>2. 1 \in 1..Len(Wire(p, u)) /\ step[q] + 1 - 1 = step[q]
    BY <1>2, <1>7
  <2>3. Wire(p, u)[1] \in SolverValue
    BY <1>7, <2>2, ElementOfSeq
  <2>4. QED
    BY <1>3, <1>7, <2>1, <2>2, <2>3
<1> HIDE DEF x, p, l, v
<1>9. /\ \A i \in Columns, m \in Directions :
           /\ df1'[q][i][m] = IF x.df = 1 /\ i = InCol(x) /\ m = x.m THEN v ELSE df1[q][i][m]
           /\ df2'[q][i][m] = IF x.df = 2 /\ i = InCol(x) /\ m = x.m THEN v ELSE df2[q][i][m]
      /\ df1' \in [Ranks -> Grid] /\ df2' \in [Ranks -> Grid]
      /\ \A r \in Ranks : r # q => df1'[r] = df1[r] /\ df2'[r] = df2[r]
  <2>1. ASSUME NEW g \in [Ranks -> Grid]
        PROVE  /\ Stored(g, q, x, v) \in [Ranks -> Grid]
               /\ \A r \in Ranks : r # q => Stored(g, q, x, v)[r] = g[r]
               /\ \A i \in Columns, m \in Directions :
                    Stored(g, q, x, v)[q][i][m] = IF i = InCol(x) /\ m = x.m THEN v ELSE g[q][i][m]
    <3> DEFINE c == InCol(x)
               row == [g[q][c] EXCEPT ![x.m] = v]
               grid == [g[q] EXCEPT ![c] = row]
    <3>1. Stored(g, q, x, v) = [g EXCEPT ![q] = grid]
      BY <1>5 DEF Stored
    <3>2. g[q] \in [Columns -> [Directions -> SolverValue]] /\ g[q][c] \in [Directions -> SolverValue]
      BY <1>5 DEF Grid
    <3> HIDE DEF c
    <3>3. /\ row \in [Directions -> SolverValue]
          /\ \A m \in Directions : row[m] = IF m = x.m THEN v ELSE g[q][c][m]
      BY <1>4, <1>8, <3>2
    <3> HIDE DEF row
    <3>4. /\ grid \in Grid
          /\ \A i \in Columns : grid[i] = IF i = c THEN row ELSE g[q][i]
      BY <1>5, <3>2, <3>3 DEF c, Grid
    <3> HIDE DEF grid
    <3>5. QED
      BY <3>1, <3>3, <3>4 DEF c
  <2>2. df1 \in [Ranks -> Grid] /\ df2 \in [Ranks -> Grid]
    BY SolverTypes
  <2>3. CASE x.df = 1
    <3>1. df1' = Stored(df1, q, x, v) /\ df2' = df2
      BY <1>1, <2>3
    <3>2. QED
      BY <2>1, <2>2, <2>3, <3>1
  <2>4. CASE x.df = 2
    <3>1. df2' = Stored(df2, q, x, v) /\ df1' = df1
      BY <1>1, <2>4
    <3>2. QED
      BY <2>1, <2>2, <2>4, <3>1
  <2>5. QED
    BY <1>4, <2>3, <2>4
<1>10. /\ chan' \in [Links -> [Tags -> Seq(SolverValue)]]
       /\ Wire(p, u)' = Tail(Wire(p, u))
       /\ \A r \in Ranks, t \in Tags : <<r, Peer(r, t)>> \in Links /\ (r # p \/ t # u) =>
                                         Wire(r, t)' = Wire(r, t)
  <2> DEFINE c == Tail(chan[l][u])
  <2>1. chan' = [chan EXCEPT ![l] = [chan[l] EXCEPT ![u] = c]]
    BY <1>1
  <2>2. chan[l] \in [Tags -> Seq(SolverValue)] /\ chan[l][u] \in Seq(SolverValue) /\ chan[l][u] # <<>>
    BY <1>1, <1>3, SolverTypes
  <2>3. c \in Seq(SolverValue)
    BY <2>2, HeadTailProperties
  <2> HIDE DEF c
  <2>4. [chan[l] EXCEPT ![u] = c] \in [Tags -> Seq(SolverValue)]
    BY <2>2, <2>3
  <2>5. chan' \in [Links -> [Tags -> Seq(SolverValue)]]
    BY <2>1, <2>4, SolverTypes
  <2>6. chan'[l][u] = c /\ \A t \in Tags : t # u => chan'[l][t] = chan[l][t]
    BY <1>3, <2>1, <2>2, SolverTypes
  <2>7. \A k \in Links : k # l => chan'[k] = chan[k]
    BY <2>1, SolverTypes
  <2>8. Wire(p, u)' = Tail(Wire(p, u))
    <3>1. Wire(p, u)' = chan'[<<p, Peer(p, u)>>][u]
      BY DEF Wire, Peer, p, Source
    <3>2. <<p, Peer(p, u)>> = l
      BY <1>3 DEF l
    <3>3. QED
      BY <1>7, <2>6, <3>1, <3>2 DEF c
  <2>9. ASSUME NEW r \in Ranks, NEW t \in Tags, <<r, Peer(r, t)>> \in Links, r # p \/ t # u
        PROVE  Wire(r, t)' = Wire(r, t)
    <3>1. Wire(r, t)' = chan'[<<r, Peer(r, t)>>][t]
      BY DEF Wire, Peer
    <3>2. CASE <<r, Peer(r, t)>> = l
      <4>1. r = p
        BY <3>2 DEF l
      <4>2. QED
        BY <2>6, <2>9, <3>1, <3>2, <4>1 DEF Wire
    <3>3. CASE <<r, Peer(r, t)>> # l
      BY <2>7, <2>9, <3>1, <3>3 DEF Wire
    <3>4. QED
      BY <3>2, <3>3
  <2>10. QED
    BY <2>5, <2>8, <2>9
<1>11. pc'[q] = "return" /\ at'[q] = u /\ \A r \in Ranks : r # q => Alike(r)
  BY <1>0, <1>1, <1>9, SolverTypes DEF Alike
<1>12. SolverTypeOK'
  <2>1. /\ pc' \in [Ranks -> {"collision", "streaming", "send", "recv", "return",
                              "boundry", "update", "finalize", "done"}]
    BY <1>1, SolverTypes
  <2>2. /\ buffered' \in BOOLEAN /\ at' \in [Ranks -> Tags] /\ s' \in [Ranks -> Columns]
        /\ e' \in [Ranks -> Columns] /\ wall' \in [Ranks -> Grid] /\ step' \in [Ranks -> 0..step_stop]
    BY <1>1, SolverTypes
  <2>3. QED
    BY <1>9, <1>10, <2>1, <2>2 DEF SolverTypeOK, Grid, SolverValue
<1>13. RankSolver(q)'
  <2>1. Place(q)'
    BY <1>1, <1>2, <1>11 DEF Place
  <2>2. n1 \in Nat /\ n1 >= 6 /\ Columns = 0..n1
    BY SolverConstants
  <2>3. Collided(q)'
    <3>1. x.df = 1 => InCol(x) \notin 2..(n1 - 2)
      BY <1>4, <2>2 DEF InCol
    <3>2. \A i \in 2..(n1 - 2) : i \in Columns
      BY <2>2
    <3>3. \A i \in 2..(n1 - 2), m \in Directions : df1[q][i][m] = <<step[q], Site(q, i)>>
      BY <1>1, <1>2 DEF RankSolver, Collided
    <3>4. \A i \in 2..(n1 - 2), m \in Directions : df1'[q][i][m] = <<step[q], Site(q, i)>>
      BY <1>9, <3>1, <3>2, <3>3
    <3>5. QED
      BY <1>1, <3>4 DEF Collided
  <2>4. Streamed(q)'
    <3>1. /\ \A i \in 3..(n1 - 1), m \in ToRight : df2[q][i][m] = <<step[q], Site(q, i) - 1>>
          /\ \A i \in 1..(n1 - 3), m \in ToLeft : df2[q][i][m] = <<step[q], Site(q, i) + 1>>
      BY <1>1, <1>2 DEF RankSolver, Streamed
    <3>2. \A i \in 3..(n1 - 1), m \in ToRight : df2'[q][i][m] = df2[q][i][m]
      <4>1. \A i \in 3..(n1 - 1) : i \in Columns /\ (x.df = 2 /\ x.to = 1 => i # InCol(x))
        BY <2>2 DEF InCol
      <4>2. \A m \in ToRight : m \in Directions /\ (m = x.m => x.to = 1)
        BY <1>4, Mirrored
      <4>3. QED
        BY <1>9, <4>1, <4>2
    <3>3. \A i \in 1..(n1 - 3), m \in ToLeft : df2'[q][i][m] = df2[q][i][m]
      <4>1. \A i \in 1..(n1 - 3) : i \in Columns /\ (x.df = 2 /\ x.to = -1 => i # InCol(x))
        BY <2>2 DEF InCol
      <4>2. \A m \in ToLeft : m \in Directions /\ (m = x.m => x.to = -1)
        BY <1>4, Mirrored
      <4>3. QED
        BY <1>9, <4>1, <4>2
    <3>4. QED
      BY <1>1, <3>1, <3>2, <3>3 DEF Streamed
  <2>5. Halo(q)'
    <3>1. ASSUME NEW t \in Tags, ReadInStep(q, t)', Source(q, t) \in Ranks
          PROVE  (IF Exchanges[t].df = 1 THEN df1' ELSE df2')[q][InCol(Exchanges[t])][Exchanges[t].m]
                    = <<step[q], InSite(q, Exchanges[t])>>
      <4> DEFINE y == Exchanges[t]
      <4>1. /\ y.df \in {1, 2} /\ y.to \in {1, -1} /\ y.m \in Directions
            /\ y.to = 1 <=> y.m \in ToRight
            /\ y.to = -1 <=> y.m \in ToLeft
        BY ExchangeList
      <4>2. InCol(y) \in Columns
        BY <1>1, CallColumns
      <4>3. t # u => (IF y.df = 1 THEN df1 ELSE df2)[q][InCol(y)][y.m] = <<step[q], InSite(q, y)>>
        BY <1>2, <1>6, <3>1 DEF RankSolver, Halo
      <4>4. t = u => y = x
        BY DEF x
      <4> HIDE DEF y
      <4>5. CASE y.df = x.df /\ y.m = x.m
        <5>1. y.to = x.to
          BY <1>4, <4>1, <4>5
        <5>2. InCol(y) = InCol(x) /\ InSite(q, y) = InSite(q, x)
          BY <4>5, <5>1 DEF InCol, InSite
        <5>3. QED
          BY <1>4, <1>8, <1>9, <4>1, <4>2, <4>5, <5>2 DEF y
      <4>6. CASE ~(y.df = x.df /\ y.m = x.m)
        <5>1. t # u
          BY <4>4, <4>6
        <5>2. QED
          BY <1>4, <1>9, <4>1, <4>2, <4>3, <4>6, <5>1 DEF y
      <4>7. QED
        BY <4>5, <4>6
    <3>2. \A t : Source(q, t)' = Source(q, t)
      BY DEF Source
    <3>3. QED
      BY <1>1, <3>1, <3>2 DEF Halo
  <2>6. Walls(q)'
    BY <1>11 DEF Walls
  <2>7. QED
    BY <2>1, <2>3, <2>4, <2>5, <2>6 DEF RankSolver
<1>14. \A t \in Tags : SentBy(q, t)' = SentBy(q, t) /\ (t # u => ReadBy(q, t)' = ReadBy(q, t))
  BY <1>1, <1>6 DEF ReadBy, SentBy
<1>15. ReadBy(q, u)' = step[q] + 1
  BY <1>1, <1>6 DEF ReadBy
<1>16. ASSUME NEW r \in Ranks, NEW t \in Tags PROVE OnItsLink(r, t)'
  <2>1. SentBy(r, t)' = SentBy(r, t)
    BY <1>11, <1>14, Elsewhere
  <2>2. CASE r # p \/ t # u
    <3>1. Peer(r, t) \in Ranks => ReadBy(Peer(r, t), t)' = ReadBy(Peer(r, t), t)
      <4> DEFINE z == Peer(r, t)
      <4>1. z \in Ranks => ReadBy(z, t)' = ReadBy(z, t)
        <5>1. CASE z = q /\ t = u
          <6>1. Source(q, u) = r
            BY <5>1, Peers
          <6>2. QED
            BY <2>2, <5>1, <6>1 DEF p
        <5>2. CASE z = q /\ t # u
          <6>1. ReadBy(q, t)' = ReadBy(q, t)
            BY <1>14, <5>2
          <6>2. ReadBy(z, t)' = ReadBy(q, t)'
            BY <5>2 DEF ReadBy, ReadInStep, Peer
          <6>3. QED
            BY <5>2, <6>1, <6>2
        <5>3. CASE z # q
          BY <1>11, <5>3, Elsewhere
        <5>4. QED
          BY <5>1, <5>2, <5>3
      <4>2. ReadBy(Peer(r, t), t)' = ReadBy(z, t)'
        BY DEF Peer
      <4>3. QED
        BY <4>1, <4>2
    <3>2. Peer(r, t) \in Ranks => Wire(r, t)' = Wire(r, t)
      BY <1>10, <2>2, Peers
    <3>3. QED
      BY <2>1, <3>1, <3>2, LinkLeft
  <2>3. CASE r = p /\ t = u
    <3> DEFINE n == Len(Wire(p, u))
    <3>1. /\ Len(Wire(p, u)') = n - 1 /\ n \in Nat \ {0}
          /\ \A k \in 1..(n - 1) : Wire(p, u)'[k] = Wire(p, u)[k + 1]
      <4>1. Wire(p, u) # <<>>
        BY <1>1, <1>7
      <4>2. /\ Tail(Wire(p, u)) \in Seq(SolverValue) /\ Len(Tail(Wire(p, u))) = n - 1
            /\ \A k \in 1..Len(Tail(Wire(p, u))) : Tail(Wire(p, u))[k] = Wire(p, u)[k + 1]
        BY <1>7, <4>1, HeadTailProperties
      <4>3. QED
        BY <1>7, <1>10, <4>2
    <3> HIDE DEF n
    <3>2. n = SentBy(p, u) - step[q] /\ step[q] \in Int /\ SentBy(p, u) \in Int
      <4>1. step[p] \in Nat /\ SentBy(p, u) \in {step[p], step[p] + 1}
        BY <1>3, RankAt
      <4>2. QED
        BY <1>2, <1>7, <4>1 DEF n
    <3>3. n - 1 = SentBy(p, u) - (step[q] + 1)
      BY <3>2
    <3>4. ASSUME NEW k \in 1..(n - 1) PROVE Wire(p, u)'[k] = <<(step[q] + 1) + k - 1, OutSite(p, x)>>
      <4>1. k + 1 \in 1..n /\ step[q] + (k + 1) - 1 = (step[q] + 1) + k - 1
        BY <3>1, <3>2
      <4>2. Wire(p, u)[k + 1] = <<step[q] + (k + 1) - 1, OutSite(p, x)>>
        BY <1>7, <4>1 DEF n
      <4>3. QED
        BY <3>1, <4>1, <4>2
    <3>5. /\ Len(Wire(r, t)') = SentBy(r, t)' - (step[q] + 1)
          /\ \A k \in 1..Len(Wire(r, t)') :
               Wire(r, t)'[k] = <<(step[q] + 1) + k - 1, OutSite(r, Exchanges[t])>>
      <4>1. Wire(r, t)' = Wire(p, u)' /\ SentBy(r, t)' = SentBy(p, u)
        <5>1. Wire(r, t)' = chan'[<<r, Peer(r, t)>>][t] /\ Wire(p, u)' = chan'[<<p, Peer(p, u)>>][u]
          BY DEF Wire, Peer, p, Source
        <5>2. QED
          BY <2>1, <2>3, <5>1
      <4>2. QED
        BY <2>3, <3>1, <3>3, <3>4, <4>1 DEF x
    <3>6. ReadBy(Peer(r, t), t)' = step[q] + 1
      <4>1. Peer(r, t) = q
        BY <1>3, <2>3
      <4>2. ReadBy(Peer(r, t), t)' = ReadBy(q, u)'
        BY <2>3, <4>1 DEF ReadBy, ReadInStep, Peer
      <4>3. QED
        BY <1>15, <4>2
    <3>7. QED
      BY <3>5, <3>6 DEF OnItsLink
  <2>4. QED
    BY <2>2, <2>3
<1>17. QED
  BY <1>11, <1>12, <1>13, <1>16, SolverOneRank

LEMMA SendrecvReturnInv ==
  ASSUME SolverInv, NEW q \in Ranks, SendrecvReturn(q)
  PROVE  SolverInv'
<1>0. PICK u \in Tags : u = at[q]
  BY RankAt
<1>1. /\ pc[q] = "return"
      /\ IF u < 18
         THEN at' = [at EXCEPT ![q] = u + 1] /\ pc' = [pc EXCEPT ![q] = "send"] /\ UNCHANGED <<s, e>>
         ELSE /\ s' = [s EXCEPT ![q] = FirstOf(q, 3)] /\ e' = [e EXCEPT ![q] = LastOf(q, n1 - 3)]
              /\ pc' = [pc EXCEPT ![q] = "boundry"] /\ UNCHANGED at
      /\ UNCHANGED <<buffered, df1, df2, wall, step, chan>>
  BY <1>0, SolverTypes, ExchangeList DEF SendrecvReturn, Goto
<1>2. Tags = 1..18 /\ u \in 1..18 /\ RankSolver(q) /\ Place(q)
  BY ExchangeList, RankAt
<1>3. \A r \in Ranks : r # q => Alike(r)
  BY <1>1, SolverTypes DEF Alike
<1>4. IF u < 18 THEN pc'[q] = "send" /\ at'[q] = u + 1 /\ s'[q] = s[q] /\ e'[q] = e[q]
                ELSE pc'[q] = "boundry" /\ s'[q] = FirstOf(q, 3) /\ e'[q] = LastOf(q, n1 - 3)
  BY <1>1, SolverTypes
<1>5. \A t \in Tags : (SentInStep(q, t)' <=> SentInStep(q, t)) /\ (ReadInStep(q, t)' <=> ReadInStep(q, t))
  <2>1. \A t \in Tags : (SentInStep(q, t) <=> t <= u) /\ (ReadInStep(q, t) <=> t <= u)
    BY <1>0, <1>1 DEF SentInStep, ReadInStep
  <2>2. CASE u < 18
    <3>1. \A t \in Tags : t < u + 1 <=> t <= u
      BY <1>2
    <3>2. QED
      BY <1>4, <2>1, <2>2, <3>1 DEF SentInStep, ReadInStep
  <2>3. CASE ~(u < 18)
    <3>1. \A t \in Tags : t <= u
      BY <1>2, <2>3
    <3>2. QED
      BY <1>4, <2>1, <2>3, <3>1 DEF SentInStep, ReadInStep
  <2>4. QED
    BY <2>2, <2>3
<1>6. SolverTypeOK'
  <2>1. pc' \in [Ranks -> {"collision", "streaming", "send", "recv", "return",
                           "boundry", "update", "finalize", "done"}]
    BY <1>1, SolverTypes
  <2>2. at' \in [Ranks -> Tags]
    <3>1. u < 18 => u + 1 \in Tags
      BY <1>2
    <3>2. QED
      BY <1>1, <3>1, SolverTypes
  <2>3. s' \in [Ranks -> Columns] /\ e' \in [Ranks -> Columns]
    <3>1. FirstOf(q, 3) \in Columns /\ LastOf(q, n1 - 3) \in Columns
      BY SolverConstants DEF FirstOf, LastOf
    <3>2. s \in [Ranks -> Columns] /\ e \in [Ranks -> Columns]
      BY SolverTypes
    <3>3. QED
      BY <1>1, <3>1, <3>2
  <2>4. /\ buffered' \in BOOLEAN /\ df1' \in [Ranks -> Grid] /\ df2' \in [Ranks -> Grid]
        /\ wall' \in [Ranks -> Grid] /\ step' \in [Ranks -> 0..step_stop]
        /\ chan' \in [Links -> [Tags -> Seq(SolverValue)]]
    BY <1>1, SolverTypes
  <2>5. QED
    BY <2>1, <2>2, <2>3, <2>4 DEF SolverTypeOK, Grid, SolverValue
<1>7. RankSolver(q)'
  <2>1. Place(q)'
    BY <1>1, <1>2, <1>4 DEF Place
  <2>2. Collided(q)'
    BY <1>1, <1>2 DEF RankSolver, Collided
  <2>3. Streamed(q)'
    BY <1>1, <1>2 DEF RankSolver, Streamed
  <2>4. Halo(q)'
    <3>1. \A t : Source(q, t)' = Source(q, t)
      BY DEF Source
    <3>2. QED
      BY <1>1, <1>2, <1>5, <3>1 DEF RankSolver, Halo
  <2>5. Walls(q)'
    BY <1>4 DEF Walls
  <2>6. QED
    BY <2>1, <2>2, <2>3, <2>4, <2>5 DEF RankSolver
<1>8. \A r \in Ranks, t \in Tags : OnItsLink(r, t)'
  <2>1. \A t \in Tags : SentBy(q, t)' = SentBy(q, t) /\ ReadBy(q, t)' = ReadBy(q, t)
    BY <1>1, <1>5 DEF SentBy, ReadBy
  <2>2. QED
    BY <1>1, <1>3, <2>1, QuietLinks
<1>9. QED
  BY <1>3, <1>6, <1>7, <1>8, SolverOneRank

LEMMA FinalizeInv ==
  ASSUME SolverInv, Finalize
  PROVE  SolverInv'
<1>1. /\ \A r \in Ranks : pc[r] = "finalize" /\ pc'[r] = "done"
      /\ pc' = [r \in Ranks |-> "done"]
      /\ UNCHANGED <<buffered, at, s, e, df1, df2, wall, step, chan>>
  BY DEF Finalize
<1>2. SolverTypeOK'
  <2>1. pc' \in [Ranks -> {"collision", "streaming", "send", "recv", "return",
                           "boundry", "update", "finalize", "done"}]
    BY <1>1
  <2>2. /\ buffered' \in BOOLEAN /\ at' \in [Ranks -> Tags]
        /\ s' \in [Ranks -> Columns] /\ e' \in [Ranks -> Columns]
        /\ df1' \in [Ranks -> Grid] /\ df2' \in [Ranks -> Grid]
        /\ wall' \in [Ranks -> Grid] /\ step' \in [Ranks -> 0..step_stop]
        /\ chan' \in [Links -> [Tags -> Seq(SolverValue)]]
    BY <1>1, SolverTypes
  <2>3. QED
    BY <2>1, <2>2 DEF SolverTypeOK, Grid, SolverValue
<1>3. \A r \in Ranks, t \in Tags :
        /\ ~SentInStep(r, t)' /\ ~ReadInStep(r, t)'
        /\ ~SentInStep(r, t) /\ ~ReadInStep(r, t)
  BY <1>1 DEF SentInStep, ReadInStep
<1>4. ASSUME NEW r \in Ranks PROVE RankSolver(r)'
  <2>1. Place(r)'
    BY <1>1, RankAt DEF Place
  <2>2. QED
    BY <1>1, <1>3, <2>1 DEF RankSolver, Collided, Streamed, Halo, Walls
<1>5. ASSUME NEW r \in Ranks, NEW t \in Tags PROVE OnItsLink(r, t)'
  <2>1. \A p \in Ranks : SentBy(p, t)' = SentBy(p, t) /\ ReadBy(p, t)' = ReadBy(p, t)
    BY <1>1, <1>3 DEF SentBy, ReadBy
  <2>2. Wire(r, t)' = Wire(r, t)
    BY <1>1 DEF Wire, Peer
  <2> DEFINE z == Peer(r, t)
  <2>3. ReadBy(Peer(r, t), t)' = ReadBy(z, t)'
    BY DEF Peer
  <2>4. QED
    BY <2>1, <2>2, <2>3, LinkLeft
<1>6. QED
  BY <1>2, <1>4, <1>5 DEF SolverInv

LEMMA SolverStepInv == SolverInv /\ [SolverNext]_solverVars => SolverInv'
<1> SUFFICES ASSUME SolverInv, [SolverNext]_solverVars PROVE SolverInv'
  OBVIOUS
<1>1. CASE Finalize
  BY <1>1, FinalizeInv
<1>2. ASSUME NEW r \in Ranks, Rank(r) PROVE SolverInv'
  <2>1. CASE Collision(r)
    BY <2>1, CollisionInv
  <2>2. CASE Streaming(r)
    BY <2>2, StreamingInv
  <2>3. CASE SendrecvStart(r)
    BY <2>3, SendrecvStartInv
  <2>4. CASE SendrecvReceive(r)
    BY <2>4, SendrecvReceiveInv
  <2>5. CASE SendrecvReturn(r)
    BY <2>5, SendrecvReturnInv
  <2>6. CASE Boundry(r)
    BY <2>6, BoundryInv
  <2>7. CASE Update(r)
    BY <2>7, UpdateInv
  <2>8. QED
    BY <1>2, <2>1, <2>2, <2>3, <2>4, <2>5, <2>6, <2>7 DEF Rank
<1>3. CASE UNCHANGED solverVars
  <2>1. UNCHANGED <<buffered, pc, at, s, e, df1, df2, wall, step, chan>>
    BY <1>3 DEF solverVars
  <2>2. SolverTypeOK'
    <3>1. SolverTypeOK
      BY DEF SolverInv
    <3>2. QED
      BY <2>1, <3>1 DEF SolverTypeOK
  <2>3. \A r \in Ranks : Alike(r)
    BY <2>1 DEF Alike
  <2>4. \A r \in Ranks, t \in Tags : SentBy(r, t)' = SentBy(r, t) /\ ReadBy(r, t)' = ReadBy(r, t)
    BY <2>3, Elsewhere
  <2>5. PICK q \in Ranks : TRUE
    BY SolverConstants
  <2>6. \A r \in Ranks, t \in Tags : OnItsLink(r, t)'
    BY <2>1, <2>3, <2>4, <2>5, QuietLinks
  <2>7. RankSolver(q)'
    <3>1. RankSolver(q)
      BY RankAt
    <3>2. QED
      BY <2>1, <3>1 DEF RankSolver, Place, Collided, Streamed, Halo, Walls, ReadInStep, Source
  <2>8. QED
    BY <2>2, <2>3, <2>6, <2>7, SolverOneRank
<1>4. QED
  BY <1>1, <1>2, <1>3 DEF SolverNext

-----------------------------------------------------------------------------
(* The solver: what the invariant gives.                                    *)

\* The columns, the messages and the places of the ranks are as SolverInv says,
\* for any number of ranks, columns and steps.
THEOREM SolverInvariant == SolverSpec => []SolverInv
BY SolverInitInv, SolverStepInv, PTL DEF SolverSpec

\* The parallel program computes what one lattice would: every value a rank
\* works on in its update is of this step and of the neighbouring site.
THEOREM OneLattice == SolverSpec => []LikeOneLattice
<1>1. SolverInv => LikeOneLattice
  <2>1. SUFFICES ASSUME SolverInv, NEW q \in Ranks, pc[q] = "update",
                        NEW i \in s[q]..e[q], NEW m \in Directions
                 PROVE  LET value == <<step[q], Site(q, i) + (IF m \in ToRight THEN -1 ELSE 1)>>
                        IN  /\ df2[q][i][m] = value
                            /\ m \in DOMAIN Mirror => wall[q][i][m] = value
    BY DEF LikeOneLattice
  <2>2. /\ i \in 2..(n1 - 2) /\ i \in Columns /\ i \in Int /\ q \in Int
        /\ i = 2 => q - 1 \in Ranks
        /\ i = n1 - 2 => q + 1 \in Ranks
    BY <2>1, WorkColumns
  <2>3. Streamed(q) /\ Walls(q)
    BY <2>1, RankAt DEF RankSolver
  <2>4. Site(q, i) - 1 = Site(q, i) + (-1)
    BY <2>2, Sites
  <2>5. CASE m \in ToRight
    <3>1. df2[q][i][m] = <<step[q], Site(q, i) - 1>>
      <4>1. CASE i = 2
        BY <2>1, <2>2, <2>5, <4>1, HaloValues
      <4>2. CASE i # 2
        <5>1. i \in 3..(n1 - 1)
          BY <2>2, <4>2, SolverConstants
        <5>2. QED
          BY <2>1, <2>3, <2>5, <5>1 DEF Streamed
      <4>3. QED
        BY <4>1, <4>2
    <3>2. m \in DOMAIN Mirror => wall[q][i][m] = <<step[q], Site(q, i) + (-1)>>
      BY <2>1, <2>3, <2>5 DEF Walls
    <3>3. QED
      BY <2>4, <2>5, <3>1, <3>2
  <2>6. CASE m \notin ToRight
    <3>1. m \in ToLeft
      BY <2>6, Mirrored
    <3>2. df2[q][i][m] = <<step[q], Site(q, i) + 1>>
      <4>1. CASE i = n1 - 2
        BY <2>1, <2>2, <3>1, <4>1, HaloValues
      <4>2. CASE i # n1 - 2
        <5>1. i \in 1..(n1 - 3)
          BY <2>2, <4>2, SolverConstants
        <5>2. QED
          BY <2>1, <2>3, <3>1, <5>1 DEF Streamed
      <4>3. QED
        BY <4>1, <4>2
    <3>3. m \in DOMAIN Mirror => wall[q][i][m] = <<step[q], Site(q, i) + 1>>
      BY <2>1, <2>3, <2>6 DEF Walls
    <3>4. QED
      BY <2>6, <3>2, <3>3
  <2>7. QED
    BY <2>5, <2>6
<1>2. QED
  BY <1>1, SolverInvariant, PTL

\* The last tag of a step a rank has received was sent by its neighbour in
\* that step, which the neighbour has therefore reached.
LEMMA NeighbourReached ==
  ASSUME SolverInv, NEW q \in Ranks, pc[q] = "update", NEW p \in Neighbours[q]
  PROVE  step[p] >= step[q]
<1>1. p \in Ranks /\ p \in {q - 1, q + 1} /\ q \in Int
  BY SolverConstants DEF Neighbours
<1>2. PICK t \in Tags : Peer(p, t) = q
  <2>1. 1 \in Tags /\ 6 \in Tags
    BY TagRange
  <2>2. Exchanges[1].to = 1 /\ Exchanges[6].to = -1
    BY DEF Exchanges, Stream2Right, Stream2Left
  <2>3. Peer(p, 1) = p + 1 /\ Peer(p, 6) = p + (-1)
    BY <2>2 DEF Peer
  <2>4. QED
    BY <1>1, <2>1, <2>3
<1>3. Len(Wire(p, t)) = SentBy(p, t) - ReadBy(q, t)
  BY <1>1, <1>2 DEF SolverInv, OnItsLink
<1>4. Wire(p, t) \in Seq(SolverValue) /\ Len(Wire(p, t)) \in Nat
  <2>1. <<p, Peer(p, t)>> \in Links
    BY <1>1, <1>2, Peers
  <2>2. Wire(p, t) \in Seq(SolverValue)
    BY <2>1, SolverTypes DEF Wire
  <2>3. QED
    BY <2>2, LenProperties
<1>5. ReadBy(q, t) = step[q] + 1
  BY DEF ReadBy, ReadInStep
<1>6. step[p] \in Nat /\ step[q] \in Nat /\ SentBy(p, t) \in {step[p], step[p] + 1}
  BY <1>1, RankAt
<1> DEFINE n == Len(Wire(p, t))
<1> HIDE DEF n
<1>7. n \in Nat /\ n = SentBy(p, t) - (step[q] + 1)
  BY <1>3, <1>4, <1>5 DEF n
<1>8. QED
  BY <1>6, <1>7

\* No barrier holds the ranks together, yet the solver implements LocalClocks:
\* no rank finishes a step before its neighbours have finished the one before.
THEOREM SolverImplementation == SolverSpec => ImplementsLocalClocks
<1>1. SolverInit => Clocks!Init
  BY DEF SolverInit, Clocks!Init
<1>2. SolverInv /\ [SolverNext]_solverVars => [Clocks!Next]_step
  <2> SUFFICES ASSUME SolverInv, [SolverNext]_solverVars, step' # step
               PROVE  Clocks!Next
    OBVIOUS
  <2>1. PICK q \in Ranks : Update(q)
    BY DEF SolverNext, Rank, Finalize, Collision, Streaming, SendrecvStart, SendrecvReceive,
           SendrecvReturn, Boundry, solverVars
  <2>2. pc[q] = "update" /\ step' = [step EXCEPT ![q] = step[q] + 1]
    BY <2>1 DEF Update
  <2>3. step[q] < step_stop
    BY <2>2, RankAt DEF Place
  <2>4. \A p \in Neighbours[q] : step[p] >= step[q]
    BY <2>2, NeighbourReached
  <2>5. QED
    BY <2>2, <2>3, <2>4 DEF Clocks!Next, Clocks!Tick
<1>3. QED
  BY <1>1, <1>2, SolverInvariant, PTL DEF SolverSpec, ImplementsLocalClocks, Clocks!Spec

-----------------------------------------------------------------------------
(* The transports together: one transport runs and the programs of the      *)
(* others stand still, so what is proved of each alone holds of Transports. *)

LEMMA EachAlone == Spec => StampSpec /\ LockSpec /\ StreamSpec /\ SolverSpec
<1>1. Init => StampInit /\ LockInit /\ StreamInit /\ SolverInit
  BY DEF Init
<1>2. [Next]_vars => /\ [StampNext]_stampVars /\ [LockNext]_lockVars
                     /\ [StreamNext]_streamVars /\ [SolverNext]_solverVars
  BY DEF Next, vars
<1>3. QED
  BY <1>1, <1>2, PTL DEF Spec, StampSpec, LockSpec, StreamSpec, SolverSpec

\* Type correctness of the programs of all transports and of the simulation.
THEOREM TransportsTypes == Spec => []TypeOK
<1> DEFINE Chosen == transport_major \in {"none", "ADIOS_DISK", "NATIVE_STAGING", "STREAM"}
<1>1. Spec => []Chosen
  <2>1. Init => Chosen
    BY DEF Init
  <2>2. Chosen /\ [Next]_vars => Chosen'
    BY DEF Next, vars
  <2>3. QED
    BY <2>1, <2>2, PTL DEF Spec
<1>2. Chosen /\ StampInv /\ LockInv /\ StreamInv /\ SolverInv => TypeOK
  BY DEF TypeOK, StampInv, LockInv, StreamInv, SolverInv
<1>3. QED
  BY <1>1, <1>2, EachAlone, StampInvariant, LockInvariant, StreamInvariant, SolverInvariant, PTL

\* Whichever transport is chosen: a reader only reads steps all producers have
\* written, gets only versions that are there, attaches the counter to the step
\* it came with; and the simulation computes what one lattice would.
THEOREM TransportsSafe ==
  Spec => []ReadsComplete /\ []GetFinds /\ []CounterNamesStep /\ []LikeOneLattice
BY EachAlone, OnlyCompleteRead, VersionFound, CounterNames, OneLattice, PTL

\* Every transport delivers the steps like the channel it stands for, and the
\* ranks of the simulation keep time as neighbours do.
THEOREM TransportsImplementation ==
  Spec => /\ ImplementsStampChannel /\ ImplementsLockChannel
          /\ ImplementsStreamChannel /\ ImplementsLocalClocks
BY EachAlone, StampImplementation, LockImplementation, StreamImplementation, SolverImplementation, PTL
=============================================================================
