------------------------- MODULE RepartitionProofs -------------------------
(***************************************************************************)
(* Whatever the costs and however the climb moves the cuts, every node has *)
(* one worker.  The cuts under construction never decrease, because each   *)
(* is pushed from a boundary that only advances, and a cut that moves      *)
(* stays between its neighbours.  Every cut lies where its share of the    *)
(* cost ends, and a climb goes from there to a peak.                       *)
(***************************************************************************)
EXTENDS Repartition, DataLemmas, TLAPS, WellFoundedInduction

\* The cuts c, of which n + 1 are known, begin at block 0 and never decrease.
Ascending(c, n) ==
    /\ c \in [0 .. n -> 0 .. Blocks]
    /\ c[0] = 0
    /\ \A i, j \in 0 .. n : i <= j => c[i] <= c[j]

Covering(c) == Ascending(c, Threads) /\ c[Threads] = Blocks

Building ==
    /\ k \in 1 .. Threads + 1
    /\ Ascending(new, k - 1)
    /\ k <= Threads => new[k - 1] <= b
    /\ k = Threads + 1 => new[Threads] = Blocks

IInv ==
    /\ pc \in {"idle", "cut", "climb", "run"}
    /\ b \in 0 .. Blocks
    /\ cuts = NoCuts \/ Covering(cuts)
    /\ pc = "run" => Covering(cuts)
    /\ pc = "cut" => Building
    /\ pc = "climb" => k \in 1 .. Threads /\ Covering(new)

\* The number of blocks is a natural number, and the blocks reach the last node.
LEMMA BlocksNat ==
    /\ Blocks \in Nat
    /\ Blocks * Block >= Nodes
    /\ \A x \in Nat : x * Block < Nodes => x < Blocks
  BY SizeAssumption DEF Blocks

\* A nonempty set of naturals has a least element.
LEMMA Least ==
  ASSUME NEW S \in SUBSET Nat, S # {}
  PROVE  \E x \in S : \A y \in S : x <= y
<1>1. IsWellFoundedOn(OpToRel(<, Nat), Nat)
  BY NatLessThanWellFounded
<1>2. PICK x \in S : \A y \in S : ~(<<y, x>> \in OpToRel(<, Nat))
  BY <1>1, WFMin
<1>3. \A y \in S : ~(y < x)
  BY <1>2 DEF OpToRel
<1> QED
  BY <1>3

\* The cuts a pool starts with cover all blocks.
LEMMA EqualCutsCover == Covering(EqualCuts)
<1>1. ASSUME NEW i \in 0 .. Threads PROVE (i * Blocks) \div Threads \in 0 .. Blocks
  BY BlocksNat, SizeAssumption
<1> QED
  BY <1>1, BlocksNat, SizeAssumption DEF Covering, Ascending, EqualCuts

\* A climb that moves one cut between its neighbours keeps the cuts covering.
LEMMA MovedCovers ==
  ASSUME NEW c, Covering(c), NEW i \in 1 .. Threads - 1, NEW fwd \in BOOLEAN,
         CanMove(c, i, fwd)
  PROVE  Covering(Moved(c, i, fwd))
<1> DEFINE d == Moved(c, i, fwd)
<1>1. /\ d = [c EXCEPT ![i] = IF fwd THEN c[i] + 1 ELSE c[i] - 1]
      /\ c \in [0 .. Threads -> 0 .. Blocks]
      /\ \A j, l \in 0 .. Threads : j <= l => c[j] <= c[l]
      /\ c[0] = 0 /\ c[Threads] = Blocks
  BY DEF Moved, Covering, Ascending
<1>2. /\ i - 1 \in 0 .. Threads /\ i \in 0 .. Threads /\ i + 1 \in 0 .. Threads
      /\ 0 # i /\ Threads # i
  BY SizeAssumption
<1>3. d[i] \in 0 .. Blocks /\ c[i - 1] <= d[i] /\ d[i] <= c[i + 1]
  BY <1>1, <1>2, BlocksNat DEF CanMove
<1>4. \A j \in 0 .. Threads : j # i => d[j] = c[j]
  BY <1>1
<1>5. ASSUME NEW j \in 0 .. Threads, NEW l \in 0 .. Threads, j <= l
      PROVE  d[j] <= d[l]
  <2>1. j < i => c[j] <= c[i - 1]
    BY <1>1, <1>2
  <2>2. i < l => c[i + 1] <= c[l]
    BY <1>1, <1>2
  <2>3. d[j] \in Int /\ d[l] \in Int /\ c[i - 1] \in Int /\ c[i + 1] \in Int
    BY <1>1, <1>2, <1>3, <1>4, BlocksNat
  <2> QED
    BY <1>1, <1>3, <1>4, <1>5, <2>1, <2>2, <2>3
<1>6. d \in [0 .. Threads -> 0 .. Blocks]
  BY <1>1, <1>3
<1> HIDE DEF d
<1>7. Covering(d)
  BY <1>1, <1>2, <1>4, <1>5, <1>6, SizeAssumption DEF Covering, Ascending
<1> QED
  BY <1>7 DEF d

\* A boundary at or after the last cut may be pushed.
LEMMA PushAscends ==
  ASSUME NEW c, k \in 1 .. Threads, Ascending(c, k - 1),
         NEW x \in 0 .. Blocks, c[k - 1] <= x
  PROVE  Ascending(Push(c, x), k) /\ Push(c, x)[k] = x
<1>1. /\ c \in [0 .. k - 1 -> 0 .. Blocks] /\ c[0] = 0
      /\ \A i, j \in 0 .. k - 1 : i <= j => c[i] <= c[j]
  BY DEF Ascending
<1>2. \A i \in 0 .. k - 1 : Push(c, x)[i] = c[i] /\ c[i] <= c[k - 1] /\ c[i] \in 0 .. Blocks
  BY <1>1, SizeAssumption DEF Push
<1>3. Push(c, x)[k] = x
  BY SizeAssumption DEF Push
<1>4. Push(c, x) \in [0 .. k -> 0 .. Blocks]
  BY <1>1, SizeAssumption DEF Push
<1>5. ASSUME NEW i \in 0 .. k, NEW j \in 0 .. k, i <= j
      PROVE  Push(c, x)[i] <= Push(c, x)[j]
  <2>1. i = k \/ i \in 0 .. k - 1
    BY SizeAssumption
  <2>2. j = k \/ j \in 0 .. k - 1
    BY SizeAssumption
  <2> QED
    BY <1>1, <1>2, <1>3, <1>5, <2>1, <2>2, BlocksNat, SizeAssumption
<1>6. 0 \in 0 .. k - 1
  BY SizeAssumption
<1> QED
  BY <1>1, <1>2, <1>3, <1>4, <1>5, <1>6 DEF Ascending

\* The invariant holds at first,
LEMMA InitInv == Init => IInv
  BY BlocksNat DEF Init, IInv

\* every step keeps it,
LEMMA StepInv == IInv /\ [Next]_vars => IInv'
<1> SUFFICES ASSUME IInv, [Next]_vars PROVE IInv'
  OBVIOUS
<1> USE DEF IInv
<1>1. CASE Keep
  <2>1. pc' = "run" /\ cuts # NoCuts /\ UNCHANGED <<cuts, b>>
    BY <1>1 DEF Keep, Due, Start, local
  <2> QED
    BY <2>1 DEF Covering, Ascending
<1>2. CASE CutEqually
  <2>1. pc' = "run" /\ cuts' = EqualCuts /\ b' = b
    BY <1>2 DEF CutEqually, Adopt, Start, local
  <2>2. Covering(cuts')
    BY <2>1, EqualCutsCover
  <2> QED
    BY <2>1, <2>2 DEF Covering, Ascending
<1>3. CASE CutByCost
  <2>1. /\ pc' = "cut" /\ new' = [i \in {0} |-> 0] /\ k' = 1 /\ b' = 0 /\ UNCHANGED cuts
    BY <1>3 DEF CutByCost
  <2>2. Building'
    BY <2>1, BlocksNat, SizeAssumption DEF Building, Ascending
  <2> QED
    BY <2>1, <2>2, BlocksNat DEF Covering, Ascending
<1>4. CASE TakeBlock
  <2>1. /\ pc = "cut" /\ k < Threads /\ b < Blocks /\ b' = b + 1
        /\ UNCHANGED <<cuts, pc, new, k>>
    BY <1>4 DEF TakeBlock, Below
  <2>2. Building'
    BY <2>1, BlocksNat, SizeAssumption DEF Building, Ascending
  <2> QED
    BY <2>1, <2>2, BlocksNat DEF Covering, Ascending
<1>5. CASE PushCut
  <2>1. /\ pc = "cut" /\ k < Threads /\ k' = k + 1 /\ new' = Push(new, b')
        /\ b' \in {b, b + 1} /\ b' \in 0 .. Blocks /\ UNCHANGED <<cuts, pc>>
    BY <1>5, BlocksNat DEF PushCut, RoundsUp
  <2>2. k \in 1 .. Threads /\ Ascending(new, k - 1) /\ new[k - 1] <= b'
        /\ new[k - 1] \in 0 .. Blocks
    BY <2>1, BlocksNat, SizeAssumption DEF Building, Ascending
  <2>3. Ascending(new', k) /\ new'[k] = b'
    BY <2>1, <2>2, PushAscends
  <2>4. Building'
    BY <2>1, <2>2, <2>3, BlocksNat, SizeAssumption DEF Building, Ascending
  <2> QED
    BY <2>1, <2>4 DEF Covering, Ascending
<1>6. CASE PushLast
  <2>1. /\ pc = "cut" /\ k = Threads /\ k' = k + 1 /\ new' = Push(new, Blocks)
        /\ UNCHANGED <<cuts, pc, b>>
    BY <1>6 DEF PushLast
  <2>2. k \in 1 .. Threads /\ Ascending(new, k - 1) /\ new[k - 1] <= Blocks
    BY <2>1, BlocksNat, SizeAssumption DEF Building, Ascending
  <2>3. Ascending(new', k) /\ new'[k] = Blocks
    BY <2>1, <2>2, PushAscends, BlocksNat
  <2>4. Building'
    BY <2>1, <2>2, <2>3, SizeAssumption DEF Building, Ascending
  <2> QED
    BY <2>1, <2>4 DEF Covering, Ascending
<1>7. CASE StartClimb
  <2>1. /\ pc = "cut" /\ k > Threads /\ pc' = "climb" /\ k' = 1 /\ b' = 0
        /\ UNCHANGED <<cuts, new>>
    BY <1>7 DEF StartClimb
  <2>2. Covering(new)
    BY <2>1, SizeAssumption DEF Building, Covering
  <2> QED
    BY <2>1, <2>2, BlocksNat, SizeAssumption DEF Covering, Ascending
<1>8. CASE MoveCut
  <2>1. /\ pc = "climb" /\ k \in 1 .. Threads - 1 /\ CanMove(new, k, forward)
        /\ new' = Moved(new, k, forward) /\ UNCHANGED <<cuts, pc, k, b>>
    BY <1>8, SizeAssumption DEF MoveCut, Lowers
  <2>2. Covering(new')
    <3>1. CASE forward
      <4>1. CanMove(new, k, TRUE) /\ new' = Moved(new, k, TRUE)
        BY <2>1, <3>1 DEF CanMove, Moved
      <4> QED
        BY <2>1, <4>1, MovedCovers
    <3>2. CASE ~forward
      <4>1. CanMove(new, k, FALSE) /\ new' = Moved(new, k, FALSE)
        BY <2>1, <3>2 DEF CanMove, Moved
      <4> QED
        BY <2>1, <4>1, MovedCovers
    <3> QED
      BY <3>1, <3>2
  <2> QED
    BY <2>1, <2>2 DEF Covering, Ascending
<1>9. CASE LeaveCut
  BY <1>9, SizeAssumption DEF LeaveCut, Covering, Ascending
<1>10. CASE NextPass
  BY <1>10, SizeAssumption DEF NextPass, Covering, Ascending
<1>11. CASE EndClimb
  BY <1>11 DEF EndClimb, Adopt, Start, Covering, Ascending
<1>12. CASE RunShares
  BY <1>12 DEF RunShares, local, Covering, Ascending
<1>13. CASE Done \/ UNCHANGED vars
  BY <1>13 DEF Done, vars, local, Building, Covering, Ascending
<1> QED
  BY <1>1, <1>2, <1>3, <1>4, <1>5, <1>6, <1>7, <1>8, <1>9, <1>10, <1>11, <1>12, <1>13
  DEF Next, Compute

\* and so it always holds.
LEMMA Invariance == Spec => []IInv
  BY InitInv, StepInv, PTL DEF Spec

-----------------------------------------------------------------------------
\* The first node of a block grows with the block, up to the number of nodes.
LEMMA NodeAtAscends ==
  /\ NodeAt(0) = 0 /\ NodeAt(Blocks) = Nodes
  /\ \A x, y \in 0 .. Blocks : NodeAt(x) \in 0 .. Nodes /\ (x <= y => NodeAt(x) <= NodeAt(y))
<1>1. \A x, y \in Nat : x <= y => x * Block <= y * Block
  BY SizeAssumption
<1>2. \A x \in Nat : x * Block \in Nat
  BY SizeAssumption
<1> QED
  BY <1>1, <1>2, BlocksNat, SizeAssumption DEF NodeAt

\* Cuts that cover the blocks give every node to exactly one worker.
LEMMA CoveringTiles ==
  ASSUME Covering(cuts)
  PROVE  /\ \A n \in 0 .. Nodes - 1 : \E i \in 0 .. Threads - 1 : n \in Share(i)
         /\ \A i, j \in 0 .. Threads - 1 : i # j => Share(i) \intersect Share(j) = {}
         /\ \A i \in 0 .. Threads - 1 : Share(i) \subseteq 0 .. Nodes - 1
<1> DEFINE at(i) == NodeAt(cuts[i])
<1>1. /\ at(0) = 0 /\ at(Threads) = Nodes
      /\ \A i, j \in 0 .. Threads : at(i) \in 0 .. Nodes /\ (i <= j => at(i) <= at(j))
  BY NodeAtAscends, SizeAssumption DEF Covering, Ascending
<1>2. \A i \in 0 .. Threads - 1 : Share(i) = at(i) .. at(i + 1) - 1
  BY DEF Share
<1> HIDE DEF at
<1>3. ASSUME NEW n \in 0 .. Nodes - 1
      PROVE  \E i \in 0 .. Threads - 1 : n \in Share(i)
  <2> DEFINE S == {i \in 0 .. Threads : n < at(i)}
  <2>1. Threads \in S /\ S \in SUBSET Nat
    BY <1>1, SizeAssumption
  <2>2. PICK x \in S : \A y \in S : x <= y
    BY <2>1, Least
  <2>3. x # 0
    BY <1>1, <2>2, SizeAssumption
  <2>4. x - 1 \in 0 .. Threads - 1 /\ x - 1 \notin S
    BY <2>2, <2>3, SizeAssumption
  <2>5. at(x - 1) <= n /\ n < at(x)
    BY <1>1, <2>2, <2>4, SizeAssumption
  <2>6. at((x - 1) + 1) = at(x)
    BY <2>2
  <2> QED
    BY <1>1, <1>2, <2>4, <2>5, <2>6, SizeAssumption
<1>4. ASSUME NEW i \in 0 .. Threads - 1, NEW j \in 0 .. Threads - 1, i < j
      PROVE  Share(i) \intersect Share(j) = {}
  <2>1. at(i + 1) <= at(j)
    BY <1>1, <1>4, SizeAssumption
  <2> QED
    BY <1>1, <1>2, <2>1, SizeAssumption
<1>5. ASSUME NEW i \in 0 .. Threads - 1 PROVE Share(i) \subseteq 0 .. Nodes - 1
  BY <1>1, <1>2, SizeAssumption
<1>6. ASSUME NEW i \in 0 .. Threads - 1, NEW j \in 0 .. Threads - 1, i # j
      PROVE  Share(i) \intersect Share(j) = {}
  <2>1. i < j \/ j < i
    BY <1>6, SizeAssumption
  <2> QED
    BY <1>4, <2>1
<1> QED
  BY <1>3, <1>5, <1>6

\* Every node has one worker while the workers run, for any number of nodes,
\* blocks and workers and any costs.
THEOREM EveryNodeHasOneWorker == Spec => []OneWorkerPerNode
<1>1. IInv => OneWorkerPerNode
  BY CoveringTiles DEF IInv, OneWorkerPerNode
<1> QED
  BY <1>1, Invariance, PTL

-----------------------------------------------------------------------------
(* The cost of a range.  A cut below its target is short of it by at most  *)
(* half a block, since a shorter overshoot would have been taken; a cut    *)
(* above it is past it by at most half a block, unless it stayed on the    *)
(* boundary of the cut before.                                             *)

SumsInv ==
    /\ \A p \in Phases : IsPrefixSum(blockNs[p])
    /\ pc = "cut" => \A p \in Phases : IsPrefixSum(cost[p])

MaxStep(m) == \A x \in 0 .. Blocks - 1 : Summed(x + 1) - Summed(x) <= m

NearTarget(x, before, i, m) ==
    /\ 2 * (Target(i) - Summed(x)) <= m
    /\ x = before \/ 2 * (Summed(x) - Target(i)) <= m

NearInv ==
    pc = "cut" =>
        /\ \A m \in Nat : MaxStep(m) =>
             \A i \in 1 .. k - 1 : i < Threads => NearTarget(new[i], new[i - 1], i, m)
        /\ b = new[k - 1] \/ k > Threads \/ Summed(b) <= Target(k)

\* No time at all is a prefix sum,
LEMMA NoTimeSums == \A p \in Phases : IsPrefixSum(NoTime[p])
  BY BlocksNat DEF NoTime, IsPrefixSum, Vectors

\* and so is the estimate from the cars of each block.
LEMMA CarCostSums ==
  ASSUME NEW cars \in CarSums, NEW p \in Phases
  PROVE  IsPrefixSum(CarCosts(cars)[p])
<1>1. IsPrefixSum(cars)
  BY SumsAssumption
<1>2. \A i \in 0 .. Blocks : NodeAt(i) \in Nat /\ cars[i] \in Nat
  BY <1>1, NodeAtAscends, SizeAssumption DEF IsPrefixSum, Vectors
<1>3. \A i \in 0 .. Blocks - 1 : i \in 0 .. Blocks /\ i + 1 \in 0 .. Blocks /\ i <= i + 1
  BY BlocksNat
<1>4. \A i \in 0 .. Blocks - 1 : NodeAt(i) <= NodeAt(i + 1) /\ cars[i] <= cars[i + 1]
  BY <1>1, <1>3, NodeAtAscends DEF IsPrefixSum
<1>5. CASE p = "a"
  <2>1. CarCosts(cars)[p] = [i \in 0 .. Blocks |-> NodeAt(i) + cars[i]]
    BY <1>5 DEF CarCosts
  <2>2. cars[0] = 0 /\ NodeAt(0) = 0
    BY <1>1, NodeAtAscends DEF IsPrefixSum
  <2> QED
    <3>1. \A i \in 0 .. Blocks : CarCosts(cars)[p][i] = NodeAt(i) + cars[i]
      BY <2>1
    <3>2. CarCosts(cars)[p] \in Vectors
      BY <1>2, <2>1 DEF Vectors
    <3>3. CarCosts(cars)[p][0] = 0
      BY <2>2, <3>1, BlocksNat
    <3>4. \A i \in 0 .. Blocks - 1 : CarCosts(cars)[p][i] <= CarCosts(cars)[p][i + 1]
      BY <1>2, <1>3, <1>4, <3>1
    <3> QED
      BY <3>2, <3>3, <3>4 DEF IsPrefixSum
<1>6. CASE p = "b"
  <2>1. CarCosts(cars)[p] = [i \in 0 .. Blocks |-> 5 * NodeAt(i)]
    BY <1>6 DEF CarCosts
  <2>2. 5 * NodeAt(0) = 0
    BY NodeAtAscends
  <2> QED
    <3>1. \A i \in 0 .. Blocks : CarCosts(cars)[p][i] = 5 * NodeAt(i)
      BY <2>1
    <3>2. CarCosts(cars)[p] \in Vectors
      BY <1>2, <2>1 DEF Vectors
    <3>3. CarCosts(cars)[p][0] = 0
      BY <2>2, <3>1, BlocksNat
    <3>4. \A i \in 0 .. Blocks - 1 : CarCosts(cars)[p][i] <= CarCosts(cars)[p][i + 1]
      BY <1>2, <1>3, <1>4, <3>1
    <3> QED
      BY <3>2, <3>3, <3>4 DEF IsPrefixSum
<1> QED
  BY <1>5, <1>6 DEF Phases

\* Every estimate the code cuts by is a pair of prefix sums.
LEMMA SumsStep == SumsInv /\ [Next]_vars => SumsInv'
<1> SUFFICES ASSUME SumsInv, [Next]_vars PROVE SumsInv'
  OBVIOUS
<1>1. CASE Keep \/ CutEqually \/ EndClimb
  <2>1. pc' = "run" /\ blockNs' = NoTime
    BY <1>1 DEF Keep, CutEqually, EndClimb, Start
  <2> QED
    BY <2>1, NoTimeSums DEF SumsInv
<1>2. CASE CutByCost
  <2>1. cost' \in BlockCosts /\ UNCHANGED blockNs
    BY <1>2 DEF CutByCost
  <2>2. \A p \in Phases : IsPrefixSum(cost'[p])
    BY <2>1, CarCostSums DEF BlockCosts, SumsInv
  <2> QED
    BY <2>1, <2>2 DEF SumsInv
<1>3. CASE TakeBlock \/ PushCut \/ PushLast
  BY <1>3 DEF TakeBlock, PushCut, PushLast, SumsInv
<1>4. CASE StartClimb \/ MoveCut \/ LeaveCut \/ NextPass
  <2>1. pc' = "climb" /\ UNCHANGED blockNs
    BY <1>4 DEF StartClimb, MoveCut, LeaveCut, NextPass
  <2> QED
    BY <2>1 DEF SumsInv
<1>5. CASE RunShares
  <2>1. pc' = "idle"
    BY <1>5 DEF RunShares
  <2>2. CASE TimesRead
    <3>1. PICK x \in TimeSumsA, y \in TimeSumsB :
            blockNs' = [p \in Phases |-> IF p = "a" THEN x ELSE y]
      BY <1>5, <2>2 DEF RunShares
    <3> QED
      BY <2>1, <3>1, SumsAssumption DEF SumsInv
  <2>3. CASE ~TimesRead
    BY <1>5, <2>1, <2>3 DEF RunShares, SumsInv
  <2> QED
    BY <2>2, <2>3
<1>6. CASE Done \/ UNCHANGED vars
  BY <1>6 DEF Done, vars, local, SumsInv
<1> QED
  BY <1>1, <1>2, <1>3, <1>4, <1>5, <1>6 DEF Next, Compute

\* The summed costs are prefix sums, and the targets share them out.
LEMMA SummedFacts ==
  ASSUME \A p \in Phases : IsPrefixSum(cost[p])
  PROVE  /\ \A x \in 0 .. Blocks : Summed(x) \in Nat
         /\ Summed(0) = 0
         /\ Total \in Nat
         /\ Target(0) = 0 /\ Target(Threads) = Total
         /\ \A i \in 0 .. Threads : Target(i) \in Nat /\ Target(i) <= Total
         /\ \A i \in 1 .. Threads :
              Target(i) - Target(i - 1) <= (Total + Threads - 1) \div Threads
<1>1. \A x \in 0 .. Blocks : cost["a"][x] \in Nat /\ cost["b"][x] \in Nat
  BY DEF Phases, IsPrefixSum, Vectors
<1>2. cost["a"][0] = 0 /\ cost["b"][0] = 0
  BY DEF Phases, IsPrefixSum
<1>3. (\A x \in 0 .. Blocks : Summed(x) \in Nat) /\ Summed(0) = 0 /\ Total \in Nat
  BY <1>1, <1>2, BlocksNat DEF Summed, Total
<1>4. Target(0) = 0 /\ Target(Threads) = Total
  <2>1. (Total * 0) \div Threads = 0
    BY <1>3, SizeAssumption
  <2>2. (Total * Threads) \div Threads = Total
    BY <1>3, SizeAssumption
  <2> QED
    BY <2>1, <2>2 DEF Target
<1>5. ASSUME NEW i \in 0 .. Threads
      PROVE  /\ Target(i) \in Nat
             /\ Threads * Target(i) <= Total * i
             /\ Total * i < Threads * (Target(i) + 1)
  BY <1>3, SizeAssumption DEF Target
<1>6. ASSUME NEW i \in 0 .. Threads PROVE Target(i) <= Total
  <2>1. Total * i <= Total * Threads
    BY <1>3, SizeAssumption
  <2>2. Threads * Target(i) <= Threads * Total
    <3>1. Total * Threads = Threads * Total /\ Total * i \in Int /\ Total * Threads \in Int
      BY <1>3, SizeAssumption
    <3>2. Threads * Target(i) <= Total * i /\ Threads * Target(i) \in Int
      BY <1>5, SizeAssumption
    <3> QED
      BY <2>1, <3>1, <3>2
  <2> QED
    BY <1>3, <1>5, <2>2, SizeAssumption
<1>7. ASSUME NEW i \in 1 .. Threads
      PROVE  Target(i) - Target(i - 1) <= (Total + Threads - 1) \div Threads
  <2> DEFINE c == (Total + Threads - 1) \div Threads
             x == Target(i)
             y == Target(i - 1)
  <2>1. c \in Nat /\ Total <= Threads * c
    BY <1>3, SizeAssumption
  <2>2. x \in Nat /\ Threads * x <= Total * i
    BY <1>5, SizeAssumption
  <2>3. y \in Nat /\ Total * (i - 1) < Threads * (y + 1)
    BY <1>5, SizeAssumption
  <2>4. Total * i = Total * (i - 1) + Total
    BY <1>3
  <2> HIDE DEF c, x, y
  <2>5. Threads * x < Threads * (y + 1) + Threads * c
    <3>1. Total * i \in Int /\ Total * (i - 1) \in Int /\ Threads * x \in Int
          /\ Threads * (y + 1) \in Int /\ Threads * c \in Int
      BY <1>3, <2>1, <2>2, <2>3, SizeAssumption
    <3> QED
      BY <1>3, <2>1, <2>2, <2>3, <2>4, <3>1
  <2>6. Threads * (y + 1) + Threads * c = Threads * (y + 1 + c)
    BY <2>1, <2>3, SizeAssumption
  <2>7. x < y + 1 + c
    BY <2>1, <2>2, <2>3, <2>5, <2>6, SizeAssumption
  <2>8. x - y <= c
    BY <2>1, <2>2, <2>3, <2>7
  <2> QED
    BY <2>8 DEF c, x, y
<1> QED
  BY <1>3, <1>4, <1>5, <1>6, <1>7

\* The boundary PushCut takes is near the target.
LEMMA PushIsNear ==
  ASSUME \A p \in Phases : IsPrefixSum(cost[p]),
         k \in 1 .. Threads - 1, b \in 0 .. Blocks, ~Below,
         NEW before, b = before \/ Summed(b) <= Target(k),
         NEW m \in Nat, MaxStep(m)
  PROVE  NearTarget(IF RoundsUp THEN b + 1 ELSE b, before, k, m)
<1>1. /\ Summed(b) \in Nat /\ Target(k) \in Nat /\ Target(k) <= Total
      /\ Total = Summed(Blocks)
  BY SummedFacts, SizeAssumption DEF Total
<1>2. b < Blocks => /\ Summed(b + 1) \in Nat
                    /\ Summed(b + 1) > Target(k)
                    /\ Summed(b + 1) - Summed(b) <= m
  <2> SUFFICES ASSUME b < Blocks
               PROVE  /\ Summed(b + 1) \in Nat
                      /\ Summed(b + 1) > Target(k)
                      /\ Summed(b + 1) - Summed(b) <= m
    OBVIOUS
  <2>1. b + 1 \in 0 .. Blocks /\ b \in 0 .. Blocks - 1
    BY BlocksNat
  <2>2. Summed(b + 1) \in Nat
    BY <2>1, SummedFacts
  <2> QED
    BY <1>1, <2>1, <2>2 DEF Below, MaxStep
<1>3. CASE RoundsUp
  BY <1>1, <1>2, <1>3 DEF RoundsUp, NearTarget
<1>4. CASE ~RoundsUp
  <2>1. b = Blocks \/ b < Blocks
    BY BlocksNat
  <2> QED
    BY <1>1, <1>2, <1>4, <2>1 DEF RoundsUp, NearTarget
<1> QED
  BY <1>3, <1>4

\* Every cut pushed stays within half a block of its target.
LEMMA NearStep == IInv /\ SumsInv /\ NearInv /\ [Next]_vars => NearInv'
<1> SUFFICES ASSUME IInv, SumsInv, NearInv, [Next]_vars, pc' = "cut" PROVE NearInv'
  BY DEF NearInv
<1>1. CASE CutByCost
  <2>1. k' = 1 /\ b' = 0 /\ new' = [i \in {0} |-> 0]
    BY <1>1 DEF CutByCost
  <2> QED
    BY <2>1 DEF NearInv
<1>2. ASSUME pc = "cut", UNCHANGED cost PROVE NearInv'
  <2>1. /\ \A x : Summed(x)' = Summed(x)
        /\ \A i : Target(i)' = Target(i)
        /\ \A m : MaxStep(m)' = MaxStep(m)
    BY <1>2 DEF Summed, Total, Target, MaxStep
  <2>2. /\ Building /\ b \in 0 .. Blocks /\ k \in 1 .. Threads + 1
        /\ \A p \in Phases : IsPrefixSum(cost[p])
    BY <1>2 DEF IInv, Building, SumsInv
  <2>3. ASSUME NEW m \in Nat, MaxStep(m), NEW i \in 1 .. k - 1, i < Threads
        PROVE  NearTarget(new[i], new[i - 1], i, m)
    BY <1>2, <2>3 DEF NearInv
  <2>4. CASE TakeBlock
    BY <1>2, <2>1, <2>3, <2>4 DEF TakeBlock, Below, NearInv, NearTarget
  <2>5. CASE PushCut
    <3>1. /\ k \in 1 .. Threads - 1 /\ ~Below /\ k' = k + 1
          /\ b' = (IF RoundsUp THEN b + 1 ELSE b) /\ new' = Push(new, b')
      BY <2>2, <2>5, SizeAssumption DEF PushCut
    <3>2. b = new[k - 1] \/ Summed(b) <= Target(k)
      BY <1>2, <3>1, SizeAssumption DEF NearInv
    <3>3. new'[k] = b' /\ \A i \in 0 .. k - 1 : new'[i] = new[i]
      BY <3>1, SizeAssumption DEF Push
    <3>4. ASSUME NEW m \in Nat, MaxStep(m), NEW i \in 1 .. k
          PROVE  NearTarget(new'[i], new'[i - 1], i, m)
      <4>1. CASE i = k
        <5>1. NearTarget(b', new[k - 1], k, m)
          BY <2>2, <3>1, <3>2, <3>4, PushIsNear
        <5>2. k - 1 \in 0 .. k - 1
          BY <3>1, SizeAssumption
        <5> QED
          BY <3>3, <4>1, <5>1, <5>2
      <4>2. CASE i # k
        <5>1. i \in 1 .. k - 1 /\ i < Threads /\ i \in 0 .. k - 1 /\ i - 1 \in 0 .. k - 1
          BY <3>1, <4>2, SizeAssumption
        <5> QED
          BY <2>3, <3>3, <3>4, <5>1
      <4> QED
        BY <4>1, <4>2
    <3>5. k' - 1 = k /\ b' = new'[k' - 1]
      BY <3>1, <3>3, SizeAssumption
    <3> QED
      BY <2>1, <3>4, <3>5 DEF NearInv, NearTarget
  <2>6. CASE PushLast
    <3>1. k = Threads /\ k' = k + 1 /\ new' = Push(new, Blocks)
      BY <2>6 DEF PushLast
    <3>2. \A i \in 0 .. k - 1 : new'[i] = new[i]
      BY <3>1, SizeAssumption DEF Push
    <3>3. ASSUME NEW m \in Nat, MaxStep(m), NEW i \in 1 .. k' - 1, i < Threads
          PROVE  NearTarget(new'[i], new'[i - 1], i, m)
      <4>1. i \in 1 .. k - 1 /\ i \in 0 .. k - 1 /\ i - 1 \in 0 .. k - 1
        BY <3>1, <3>3, SizeAssumption
      <4> QED
        BY <2>3, <3>2, <3>3, <4>1
    <3>4. k' > Threads
      BY <3>1, SizeAssumption
    <3> QED
      BY <2>1, <3>3, <3>4 DEF NearInv, NearTarget
  <2>7. CASE UNCHANGED <<new, k, b>>
    BY <1>2, <2>1, <2>7 DEF NearInv, NearTarget
  <2> QED
    <3>1. TakeBlock \/ PushCut \/ PushLast \/ UNCHANGED vars
      BY <1>2 DEF Next, Compute, Keep, CutEqually, CutByCost, Calling, Start, StartClimb,
                  MoveCut, LeaveCut, NextPass, EndClimb, RunShares, Done
    <3> QED
      BY <2>4, <2>5, <2>6, <2>7, <3>1 DEF vars, local
<1>3. CutByCost \/ (pc = "cut" /\ UNCHANGED cost)
  BY DEF Next, Compute, Keep, CutEqually, Start, TakeBlock, PushCut, PushLast, StartClimb,
         MoveCut, LeaveCut, NextPass, EndClimb, RunShares, Done, vars, local
<1> QED
  BY <1>1, <1>2, <1>3

\* Cuts near their targets bound every range.
LEMMA NearBounds == IInv /\ SumsInv /\ NearInv => RangesBounded
<1> SUFFICES ASSUME IInv, SumsInv, NearInv, pc = "cut",
                    NEW m \in 0 .. Total, MaxStep(m), NEW i \in 1 .. k - 1
             PROVE  Summed(new[i]) - Summed(new[i - 1])
                      <= (Total + Threads - 1) \div Threads + m
  BY DEF RangesBounded, MaxStep
<1>1. /\ Building /\ k \in 1 .. Threads + 1
      /\ \A p \in Phases : IsPrefixSum(cost[p])
  BY DEF IInv, SumsInv, Building
<1>2. m \in Nat /\ Total \in Nat /\ i \in 1 .. Threads
  BY <1>1, SummedFacts, SizeAssumption
<1>3. /\ new[i] \in 0 .. Blocks /\ new[i - 1] \in 0 .. Blocks /\ new[0] = 0
      /\ i = Threads => new[i] = Blocks
  BY <1>1, <1>2, SizeAssumption DEF Building, Ascending
<1> DEFINE s == Summed(new[i])
           r == Summed(new[i - 1])
           t == Target(i)
           u == Target(i - 1)
           c == (Total + Threads - 1) \div Threads
<1>4. s \in Nat /\ r \in Nat /\ t \in Nat /\ u \in Nat /\ c \in Nat /\ t - u <= c
  BY <1>1, <1>2, <1>3, SummedFacts, SizeAssumption
<1>5. s = r \/ 2 * (s - t) <= m
  <2>1. CASE i = Threads
    BY <1>1, <1>2, <1>3, <2>1, SummedFacts DEF Total
  <2>2. CASE i # Threads
    BY <1>2, <2>2, SizeAssumption DEF NearInv, NearTarget
  <2> QED
    BY <2>1, <2>2
<1>6. 2 * (u - r) <= m
  <2>1. CASE i = 1
    BY <1>1, <1>2, <1>3, <2>1, SummedFacts
  <2>2. CASE i # 1
    <3>1. i - 1 \in 1 .. k - 1 /\ i - 1 < Threads
      BY <1>1, <1>2, <2>2, SizeAssumption
    <3> QED
      BY <1>2, <3>1 DEF NearInv, NearTarget
  <2> QED
    BY <2>1, <2>2
<1> HIDE DEF s, r, t, u, c
<1>7. s - r <= c + m
  BY <1>2, <1>4, <1>5, <1>6
<1> QED
  BY <1>7 DEF s, r, c

\* However uneven the blocks, no range costs more than its equal share and
\* one block more, for any number of workers.
THEOREM EveryRangeIsBounded == Spec => []RangesBounded
<1>1. Init => SumsInv /\ NearInv
  BY NoTimeSums DEF Init, SumsInv, NearInv
<1>2. Spec => [](IInv /\ SumsInv /\ NearInv)
  BY <1>1, InitInv, StepInv, SumsStep, NearStep, PTL DEF Spec
<1> QED
  BY <1>2, NearBounds, PTL

-----------------------------------------------------------------------------
(* The boundary nearest to the target.  Prefix sums never fall, so that    *)
(* the nearest one is the last at or below the target or the next, unless  *)
(* the cut before already lies past it.                                    *)

\* A prefix sum never falls.
LEMMA SumsAscend ==
  ASSUME NEW v, IsPrefixSum(v), NEW x \in 0 .. Blocks, NEW y \in 0 .. Blocks, x <= y
  PROVE  v[x] <= v[y]
<1> DEFINE S == {z \in 0 .. Blocks : x <= z /\ ~(v[x] <= v[z])}
<1>1. v \in Vectors /\ \A i \in 0 .. Blocks - 1 : v[i] <= v[i + 1]
  BY DEF IsPrefixSum
<1>2. ASSUME S # {} PROVE FALSE
  <2>1. S \in SUBSET Nat
    BY BlocksNat
  <2>2. PICK z \in S : \A u \in S : z <= u
    BY <1>2, <2>1, Least
  <2>3. z # x /\ z - 1 \in 0 .. Blocks - 1 /\ z - 1 \in 0 .. Blocks /\ x <= z - 1
    BY <1>1, <2>2, BlocksNat DEF Vectors
  <2>4. z - 1 \notin S
    <3> HIDE DEF S
    <3> QED BY <2>1, <2>2, <2>3
  <2>5. v[x] <= v[z - 1]
    BY <2>3, <2>4
  <2>6. v[z - 1] <= v[z - 1 + 1] /\ z - 1 + 1 = z
    BY <1>1, <2>2, <2>3, BlocksNat
  <2>7. v[x] \in Nat /\ v[z - 1] \in Nat /\ v[z] \in Nat
    BY <1>1, <2>2, <2>3 DEF Vectors
  <2> QED BY <2>2, <2>5, <2>6, <2>7
<1> QED BY <1>2

\* Neither does the summed cost of both phases.
LEMMA SummedAscends ==
  ASSUME \A p \in Phases : IsPrefixSum(cost[p]),
         NEW x \in 0 .. Blocks, NEW y \in 0 .. Blocks, x <= y
  PROVE  Summed(x) <= Summed(y) /\ Summed(x) \in Nat /\ Summed(y) \in Nat
<1>1. /\ cost["a"][x] \in Nat /\ cost["b"][x] \in Nat
      /\ cost["a"][y] \in Nat /\ cost["b"][y] \in Nat
  BY DEF Phases, IsPrefixSum, Vectors
<1>2. cost["a"][x] <= cost["a"][y] /\ cost["b"][x] <= cost["b"][y]
  BY SumsAscend DEF Phases
<1> QED BY <1>1, <1>2 DEF Summed

Nearest(c, i) ==
    /\ c[i] = NearestFrom(c[i - 1], i)
    /\ \A x \in c[i - 1] .. Blocks : Distance(c[i], i) <= Distance(x, i)

NearestInv ==
    pc = "cut" =>
        /\ \A i \in 1 .. k - 1 : i < Threads => Nearest(new, i)
        /\ b = new[k - 1] \/ k > Threads \/ Summed(b) <= Target(k)

\* The boundary PushCut takes is the nearest that is left.
LEMMA PushIsNearest ==
  ASSUME \A p \in Phases : IsPrefixSum(cost[p]),
         k \in 1 .. Threads - 1, b \in 0 .. Blocks, ~Below,
         NEW before \in 0 .. Blocks, before <= b, b = before \/ Summed(b) <= Target(k),
         NEW x \in before .. Blocks
  PROVE  Distance(IF RoundsUp THEN b + 1 ELSE b, k) <= Distance(x, k)
<1>1. /\ Summed(b) \in Nat /\ Target(k) \in Nat
      /\ x \in 0 .. Blocks /\ Summed(x) \in Nat /\ Blocks \in Nat
  BY SummedFacts, BlocksNat, SizeAssumption
<1>2. b < Blocks => b + 1 \in 0 .. Blocks /\ Summed(b + 1) \in Nat /\ Summed(b + 1) > Target(k)
  <2>1. b < Blocks => b + 1 \in 0 .. Blocks
    BY BlocksNat
  <2> QED BY <1>1, <2>1, SummedFacts DEF Below
<1>3. CASE x <= b
  <2>1. Summed(x) <= Summed(b)
    BY <1>1, <1>3, SummedAscends
  <2>2. x = b \/ Summed(b) <= Target(k)
    BY <1>1, <1>3
  <2>3. Distance(b, k) <= Distance(x, k)
    BY <1>1, <2>1, <2>2 DEF Distance
  <2>4. RoundsUp => Distance(b + 1, k) <= Distance(b, k)
    BY <1>1, <1>2 DEF RoundsUp, Distance
  <2>5. Distance(b, k) \in Int /\ Distance(x, k) \in Int /\ (b < Blocks => Distance(b + 1, k) \in Int)
    BY <1>1, <1>2 DEF Distance
  <2> QED BY <2>3, <2>4, <2>5 DEF RoundsUp
<1>4. CASE x > b
  <2>1. b < Blocks /\ b + 1 <= x
    BY <1>1, <1>4
  <2>2. Summed(b + 1) <= Summed(x)
    BY <1>1, <1>2, <2>1, SummedAscends
  <2>3. Distance(b + 1, k) <= Distance(x, k)
    BY <1>1, <1>2, <2>1, <2>2 DEF Distance
  <2>4. Summed(b) <= Summed(b + 1)
    BY <1>2, <2>1, SummedAscends
  <2>5. ~RoundsUp => Distance(b, k) <= Distance(b + 1, k)
    BY <1>1, <1>2, <2>1, <2>4 DEF RoundsUp, Distance
  <2>6. Distance(b, k) \in Int /\ Distance(x, k) \in Int /\ Distance(b + 1, k) \in Int
    BY <1>1, <1>2, <2>1 DEF Distance
  <2> QED BY <2>3, <2>5, <2>6
<1> QED BY <1>1, <1>3, <1>4

\* The least element of a set of integers,
LEMMA MinIs ==
  ASSUME NEW S \in SUBSET Int, NEW x \in S, \A y \in S : x <= y
  PROVE  Min(S) = x
<1>1. \A y \in S : (\A z \in S : y <= z) => y = x
  OBVIOUS
<1> QED BY <1>1 DEF Min

\* and the greatest
LEMMA MaxIs ==
  ASSUME NEW S \in SUBSET Int, NEW x \in S, \A y \in S : y <= x
  PROVE  Max(S) = x
<1>1. \A y \in S : (\A z \in S : y >= z) => y = x
  OBVIOUS
<1> QED BY <1>1 DEF Max

\* and, of several nearest ones, the one that NearestFrom names.
LEMMA PushIsChosen ==
  ASSUME \A p \in Phases : IsPrefixSum(cost[p]),
         k \in 1 .. Threads - 1, b \in 0 .. Blocks, ~Below,
         NEW before \in 0 .. Blocks, before <= b, b = before \/ Summed(b) <= Target(k)
  PROVE  (IF RoundsUp THEN b + 1 ELSE b) = NearestFrom(before, k)
<1> DEFINE cut    == IF RoundsUp THEN b + 1 ELSE b
           near   == {y \in before .. Blocks : \A z \in before .. Blocks : Distance(y, k) <= Distance(z, k)}
           within == {y \in near : Summed(y) <= Target(k)}
<1>1. /\ Summed(b) \in Nat /\ Target(k) \in Nat /\ Blocks \in Nat
      /\ \A y \in before .. Blocks : y \in 0 .. Blocks /\ Summed(y) \in Nat /\ Distance(y, k) \in Int
  BY SummedFacts, BlocksNat, SizeAssumption DEF Distance
<1>2. cut \in before .. Blocks
  BY <1>1 DEF RoundsUp
<1>3. cut \in near
  BY <1>2, PushIsNearest
<1>4. near \subseteq before .. Blocks /\ near \in SUBSET Int /\ within \in SUBSET Int
  OBVIOUS
<1>5. NearestFrom(before, k) = IF within = {} THEN Min(near) ELSE Max(within)
  BY DEF NearestFrom
<1>6. \A y \in before .. Blocks : y <= b => Summed(y) <= Summed(b)
  BY <1>1, SummedAscends
<1>7. \A y \in before .. Blocks : y > b => b < Blocks /\ Summed(y) > Target(k)
  <2> SUFFICES ASSUME NEW y \in before .. Blocks, y > b PROVE b < Blocks /\ Summed(y) > Target(k)
    OBVIOUS
  <2>1. b < Blocks /\ b + 1 \in 0 .. Blocks /\ b + 1 <= y /\ y \in 0 .. Blocks
    BY <1>1
  <2>2. Summed(b + 1) <= Summed(y) /\ Summed(b + 1) \in Nat /\ Summed(y) \in Nat
    BY <2>1, SummedAscends
  <2> QED BY <1>1, <2>1, <2>2 DEF Below
<1>8. CASE RoundsUp
  <2>1. /\ b < Blocks /\ b + 1 \in before .. Blocks /\ b \in before .. Blocks /\ cut = b + 1
        /\ Summed(b) < Target(k) /\ Summed(b + 1) > Target(k)
        /\ Summed(b + 1) - Target(k) < Target(k) - Summed(b)
    BY <1>1, <1>7, <1>8 DEF RoundsUp
  <2>2. ASSUME NEW y \in near, y <= b PROVE FALSE
    <3>1. y \in before .. Blocks /\ Summed(y) <= Summed(b) /\ Distance(y, k) <= Distance(b + 1, k)
      BY <1>6, <2>1, <2>2
    <3> QED BY <1>1, <2>1, <3>1 DEF Distance
  <2>3. within = {}
    BY <1>1, <1>4, <1>7, <2>2
  <2>4. \A y \in near : cut <= y
    BY <1>4, <2>1, <2>2
  <2>5. Min(near) = cut
    BY <1>3, <1>4, <2>4, MinIs
  <2> QED BY <1>5, <2>3, <2>5
<1>9. CASE ~RoundsUp /\ Summed(b) <= Target(k)
  <2>1. cut = b /\ b \in within
    BY <1>3, <1>9
  <2>2. \A y \in within : y <= b
    BY <1>1, <1>4, <1>7
  <2>3. Max(within) = b
    BY <1>4, <2>1, <2>2, MaxIs
  <2> QED BY <1>5, <2>1, <2>3
<1>10. CASE ~RoundsUp /\ Summed(b) > Target(k)
  <2>1. cut = b /\ b = before
    BY <1>1, <1>10
  <2>2. ASSUME NEW y \in near PROVE b <= y /\ Summed(y) > Target(k)
    <3>1. y \in 0 .. Blocks /\ b <= y
      BY <1>1, <1>4, <2>1
    <3>2. Summed(b) <= Summed(y) /\ Summed(y) \in Nat
      BY <3>1, SummedAscends
    <3> QED BY <1>1, <1>10, <3>1, <3>2
  <2>3. within = {}
    <3>1. \A y \in near : ~(Summed(y) <= Target(k))
      BY <1>1, <1>4, <2>2
    <3> QED BY <3>1
  <2>4. Min(near) = cut
    BY <1>3, <1>4, <2>1, <2>2, MinIs
  <2> QED BY <1>5, <2>3, <2>4
<1> QED BY <1>1, <1>8, <1>9, <1>10

\* Every step keeps the cuts pushed so far nearest to their targets.
LEMMA NearestStep == IInv /\ SumsInv /\ NearestInv /\ [Next]_vars => NearestInv'
<1> SUFFICES ASSUME IInv, SumsInv, NearestInv, [Next]_vars, pc' = "cut" PROVE NearestInv'
  BY DEF NearestInv
<1>1. CASE CutByCost
  <2>1. k' = 1 /\ b' = 0 /\ new' = [i \in {0} |-> 0]
    BY <1>1 DEF CutByCost
  <2> QED BY <2>1 DEF NearestInv
<1>2. ASSUME pc = "cut", UNCHANGED cost PROVE NearestInv'
  <2>1. /\ \A x : Summed(x)' = Summed(x)
        /\ \A i : Target(i)' = Target(i)
        /\ \A x, i : Distance(x, i)' = Distance(x, i)
        /\ \A x, i : NearestFrom(x, i)' = NearestFrom(x, i)
    BY <1>2 DEF Summed, Total, Target, Distance, NearestFrom
  <2>2. /\ Building /\ b \in 0 .. Blocks /\ k \in 1 .. Threads + 1
        /\ \A p \in Phases : IsPrefixSum(cost[p])
    BY <1>2 DEF IInv, Building, SumsInv
  <2>3. ASSUME NEW i \in 1 .. k - 1, i < Threads PROVE Nearest(new, i)
    BY <1>2, <2>3 DEF NearestInv
  <2>4. CASE TakeBlock
    BY <1>2, <2>1, <2>3, <2>4 DEF TakeBlock, Below, NearestInv, Nearest
  <2>5. CASE PushCut
    <3>1. /\ k \in 1 .. Threads - 1 /\ ~Below /\ k' = k + 1
          /\ b' = (IF RoundsUp THEN b + 1 ELSE b) /\ new' = Push(new, b')
      BY <2>2, <2>5, SizeAssumption DEF PushCut
    <3>2. b = new[k - 1] \/ Summed(b) <= Target(k)
      BY <1>2, <3>1, SizeAssumption DEF NearestInv
    <3>3. new'[k] = b' /\ \A i \in 0 .. k - 1 : new'[i] = new[i]
      BY <3>1, SizeAssumption DEF Push
    <3>4. new[k - 1] \in 0 .. Blocks /\ new[k - 1] <= b /\ k - 1 \in 0 .. k - 1
      BY <2>2, <3>1, SizeAssumption DEF Building, Ascending
    <3>5. ASSUME NEW i \in 1 .. k, NEW x \in new'[i - 1] .. Blocks
          PROVE  Distance(new'[i], i) <= Distance(x, i)
      <4>1. CASE i = k
        <5>1. x \in new[k - 1] .. Blocks
          BY <3>3, <3>4, <3>5, <4>1
        <5>2. Distance(IF RoundsUp THEN b + 1 ELSE b, k) <= Distance(x, k)
          BY <2>2, <3>1, <3>2, <3>4, <5>1, PushIsNearest
        <5> QED BY <3>1, <3>3, <4>1, <5>2
      <4>2. CASE i # k
        <5>1. i \in 1 .. k - 1 /\ i < Threads /\ i \in 0 .. k - 1 /\ i - 1 \in 0 .. k - 1
          BY <3>1, <4>2, SizeAssumption
        <5>2. Nearest(new, i)
          BY <2>3, <5>1
        <5> QED BY <3>3, <3>5, <5>1, <5>2 DEF Nearest
      <4> QED BY <4>1, <4>2
    <3>6. ASSUME NEW i \in 1 .. k PROVE new'[i] = NearestFrom(new'[i - 1], i)
      <4>1. CASE i = k
        BY <2>2, <3>1, <3>2, <3>3, <3>4, <4>1, PushIsChosen
      <4>2. CASE i # k
        <5>1. i \in 1 .. k - 1 /\ i < Threads /\ i \in 0 .. k - 1 /\ i - 1 \in 0 .. k - 1
          BY <3>1, <4>2, SizeAssumption
        <5>2. Nearest(new, i)
          BY <2>3, <5>1
        <5> QED BY <3>3, <5>1, <5>2 DEF Nearest
      <4> QED BY <4>1, <4>2
    <3>7. k' - 1 = k /\ b' = new'[k' - 1]
      BY <3>1, <3>3, SizeAssumption
    <3> QED BY <2>1, <3>5, <3>6, <3>7 DEF NearestInv, Nearest
  <2>6. CASE PushLast
    <3>1. k = Threads /\ k' = k + 1 /\ new' = Push(new, Blocks)
      BY <2>6 DEF PushLast
    <3>2. \A i \in 0 .. k - 1 : new'[i] = new[i]
      BY <3>1, SizeAssumption DEF Push
    <3>3. ASSUME NEW i \in 1 .. k' - 1, i < Threads, NEW x \in new'[i - 1] .. Blocks
          PROVE  Distance(new'[i], i) <= Distance(x, i)
      <4>1. i \in 1 .. k - 1 /\ i \in 0 .. k - 1 /\ i - 1 \in 0 .. k - 1
        BY <3>1, <3>3, SizeAssumption
      <4>2. Nearest(new, i)
        BY <2>3, <3>3, <4>1
      <4> QED BY <3>2, <3>3, <4>1, <4>2 DEF Nearest
    <3>4. ASSUME NEW i \in 1 .. k' - 1, i < Threads PROVE new'[i] = NearestFrom(new'[i - 1], i)
      <4>1. i \in 1 .. k - 1 /\ i \in 0 .. k - 1 /\ i - 1 \in 0 .. k - 1
        BY <3>1, <3>4, SizeAssumption
      <4>2. Nearest(new, i)
        BY <2>3, <3>4, <4>1
      <4> QED BY <3>2, <4>1, <4>2 DEF Nearest
    <3>5. k' > Threads
      BY <3>1, SizeAssumption
    <3> QED BY <2>1, <3>3, <3>4, <3>5 DEF NearestInv, Nearest
  <2>7. CASE UNCHANGED <<new, k, b>>
    BY <1>2, <2>1, <2>7 DEF NearestInv, Nearest
  <2> QED
    <3>1. TakeBlock \/ PushCut \/ PushLast \/ UNCHANGED vars
      BY <1>2 DEF Next, Compute, Keep, CutEqually, CutByCost, Calling, Start, StartClimb,
                  MoveCut, LeaveCut, NextPass, EndClimb, RunShares, Done
    <3> QED BY <2>4, <2>5, <2>6, <2>7, <3>1 DEF vars, local
<1>3. CutByCost \/ (pc = "cut" /\ UNCHANGED cost)
  BY DEF Next, Compute, Keep, CutEqually, Start, TakeBlock, PushCut, PushLast, StartClimb,
         MoveCut, LeaveCut, NextPass, EndClimb, RunShares, Done, vars, local
<1> QED BY <1>1, <1>2, <1>3

\* Of the boundaries left to it, each cut takes the one whose prefix cost is
\* nearest to its target, the integer k * total / parts that cost_cuts computes
\* (rounded down, where its doc says k/parts of the total), for any costs, zero
\* ones among them.
THEOREM EveryCutIsNearest == Spec => []NearestBoundary
<1>1. Init => SumsInv /\ NearestInv
  BY NoTimeSums DEF Init, SumsInv, NearestInv
<1>2. NearestInv => NearestBoundary
  BY DEF NearestInv, NearestBoundary, Nearest
<1>3. Spec => [](IInv /\ SumsInv /\ NearestInv)
  BY <1>1, InitInv, StepInv, SumsStep, NearestStep, PTL DEF Spec
<1> QED BY <1>2, <1>3, PTL

-----------------------------------------------------------------------------
(* The climb                                                               *)

\* Functions with the same values are equal.
LEMMA SameValues ==
  ASSUME NEW S, NEW T, NEW f \in [S -> T], NEW g \in [S -> T], \A x \in S : f[x] = g[x]
  PROVE  f = g
OBVIOUS

\* A cut is determined by the one before it, and so are all of them.
LEMMA CostCutsAre ==
  ASSUME NEW c, Covering(c), \A i \in 1 .. Threads - 1 : c[i] = NearestFrom(c[i - 1], i)
  PROVE  CostCuts = c
<1> DEFINE Is(d) == /\ d[0] = 0 /\ d[Threads] = Blocks
                    /\ \A i \in 1 .. Threads - 1 : d[i] = NearestFrom(d[i - 1], i)
<1>1. c \in Cuts /\ Is(c)
  BY DEF Covering, Ascending, Cuts
<1>2. ASSUME NEW d \in Cuts, Is(d) PROVE d = c
  <2> DEFINE bad == {i \in 0 .. Threads : d[i] # c[i]}
  <2>1. ASSUME bad # {} PROVE FALSE
    <3>1. bad \in SUBSET Nat
      BY SizeAssumption
    <3>2. PICK i \in bad : \A j \in bad : i <= j
      BY <2>1, <3>1, Least
    <3>3. i \in 1 .. Threads - 1 /\ i - 1 \in 0 .. Threads /\ i - 1 \notin bad
      BY <1>1, <1>2, <3>2, SizeAssumption
    <3>4. d[i - 1] = c[i - 1]
      BY <3>3
    <3> QED BY <1>1, <1>2, <3>2, <3>3, <3>4
  <2>2. \A i \in 0 .. Threads : d[i] = c[i]
    BY <2>1
  <2>3. c \in [0 .. Threads -> 0 .. Blocks] /\ d \in [0 .. Threads -> 0 .. Blocks]
    BY <1>1, <1>2 DEF Cuts
  <2> HIDE DEF bad, Is
  <2> DEFINE D == 0 .. Threads
             E == 0 .. Blocks
  <2>4. c \in [D -> E] /\ d \in [D -> E] /\ \A x \in D : d[x] = c[x]
    BY <2>2, <2>3
  <2> HIDE DEF D, E
  <2> QED BY <2>4, SameValues
<1>3. CostCuts = CHOOSE d \in Cuts : Is(d)
  BY DEF CostCuts
<1> HIDE DEF Is
<1> QED BY <1>1, <1>2, <1>3

\* The cost of a range is a natural number, at most that of all blocks.
LEMMA RangeCosts ==
  ASSUME \A p \in Phases : IsPrefixSum(cost[p]), NEW c, Covering(c),
         NEW p \in Phases, NEW i \in 0 .. Threads - 1
  PROVE  RangeCost(p, c, i) \in Nat /\ cost[p][Blocks] \in Nat /\ RangeCost(p, c, i) <= cost[p][Blocks]
<1>1. /\ i \in 0 .. Threads /\ i + 1 \in 0 .. Threads /\ i <= i + 1
      /\ c[i] \in 0 .. Blocks /\ c[i + 1] \in 0 .. Blocks /\ c[i] <= c[i + 1]
  BY SizeAssumption DEF Covering, Ascending
<1>2. /\ cost[p][c[i]] <= cost[p][c[i + 1]] /\ cost[p][c[i + 1]] <= cost[p][Blocks]
  BY <1>1, SumsAscend, BlocksNat
<1>3. cost[p][c[i]] \in Nat /\ cost[p][c[i + 1]] \in Nat /\ cost[p][Blocks] \in Nat
  BY <1>1, BlocksNat DEF IsPrefixSum, Vectors
<1> QED BY <1>2, <1>3 DEF RangeCost

\* The busiest range costs what one of the ranges does,
LEMMA BusiestIsNat ==
  ASSUME \A p \in Phases : IsPrefixSum(cost[p]), NEW c, Covering(c), NEW p \in Phases
  PROVE  Busiest(p, c) \in Nat
<1> DEFINE S == {RangeCost(p, c, i) : i \in 0 .. Threads - 1}
           m == cost[p][Blocks]
           T == {m - x : x \in S}
<1>1. S \in SUBSET Nat /\ \A x \in S : x <= m
  BY RangeCosts
<1>2. S # {} /\ m \in Nat
  BY RangeCosts, SizeAssumption
<1> HIDE DEF S, m
<1>3. T \in SUBSET Nat /\ T # {}
  <2>1. T # {}
    BY <1>2
  <2>2. ASSUME NEW t \in T PROVE t \in Nat
    BY <1>1, <1>2
  <2> QED BY <2>1, <2>2
<1>4. PICK t \in T : \A u \in T : t <= u
  BY <1>3, Least
<1>5. PICK x \in S : t = m - x
  BY <1>4
<1>6. ASSUME NEW y \in S PROVE y <= x
  <2>1. m - y \in T
    OBVIOUS
  <2>2. m - x <= m - y
    BY <1>4, <1>5, <2>1
  <2>3. x \in Nat /\ y \in Nat
    BY <1>1
  <2> QED BY <1>2, <2>2, <2>3
<1>7. Max(S) = x
  BY <1>1, <1>6, MaxIs
<1> QED BY <1>1, <1>7 DEF Busiest, S

\* and the squared costs of the ranges add up to a natural number:
LEMMA SquaresAreNat ==
  ASSUME \A p \in Phases : IsPrefixSum(cost[p]), NEW c, Covering(c), NEW p \in Phases
  PROVE  Squares(p, c) \in Nat
<1> DEFINE S == 0 .. Threads - 1
           F(i) == RangeCost(p, c, i) * RangeCost(p, c, i)
           w == [i \in S |-> F(i)]
           Q(g) == g = [s \in SUBSET S |-> IF s = {} THEN 0 ELSE F(FirstOf(s)) + g[s \ {FirstOf(s)}]]
<1>1. Squares(p, c) = (CHOOSE g : Q(g))[S]
  BY DEF Squares, MapThenSumSet, MapThenFoldSet, FirstOf
<1>2. \A g : Q(g) <=> IsFold(g, w, S)
  <2> SUFFICES ASSUME NEW g PROVE Q(g) <=> IsFold(g, w, S)
    OBVIOUS
  <2> HIDE DEF F
  <2>1. \A s \in SUBSET S : s # {} => F(FirstOf(s)) = w[FirstOf(s)]
    BY FirstIsIn
  <2> QED BY <2>1 DEF IsFold
<1>3. IsFiniteSet(S)
  BY FS_Interval, SizeAssumption
<1>4. \A i \in S : w[i] \in Nat
  <2>1. ASSUME NEW i \in S PROVE F(i) \in Nat
    <3>1. RangeCost(p, c, i) \in Nat
      BY RangeCosts
    <3> QED BY <3>1
  <2> HIDE DEF F
  <2> QED BY <2>1
<1> HIDE DEF Q, w, S, F
<1>5. (CHOOSE g : Q(g)) = (CHOOSE g : IsFold(g, w, S))
  BY <1>2
<1>6. Squares(p, c) = SumFunctionOnSet(w, S)
  BY <1>1, <1>5, SumIsFold
<1>7. 0 \in Nat /\ \A x \in Nat, y \in Nat : x + y \in Nat
  OBVIOUS
<1>8. SumFunctionOnSet(w, S) \in Nat
  BY <1>3, <1>4, <1>7, SumIsIn, Zenon
<1> QED BY <1>6, <1>8

\* scores are pairs of naturals,
LEMMA ScoreType ==
  ASSUME \A p \in Phases : IsPrefixSum(cost[p]), NEW c, Covering(c)
  PROVE  TickScore(c) \in Nat \X Nat
<1>1. "a" \in Phases /\ "b" \in Phases
  BY DEF Phases
<1>2. /\ Busiest("a", c) \in Nat /\ Busiest("b", c) \in Nat
      /\ Squares("a", c) \in Nat /\ Squares("b", c) \in Nat
  BY <1>1, BusiestIsNat, SquaresAreNat
<1> QED BY <1>2 DEF TickScore

\* and their order is a strict one.
LEMMA LessIsOrder ==
  ASSUME NEW x \in Nat \X Nat, NEW y \in Nat \X Nat
  PROVE  /\ ~Less(x, x)
         /\ \A z \in Nat \X Nat : Less(x, y) /\ Less(y, z) => Less(x, z)
BY DEF Less

\* Cut i could move by one block and score better.
Better(i, fwd) == CanMove(new, i, fwd) /\ Less(TickScore(Moved(new, i, fwd)), TickScore(new))

\* A pass that moved no cut so far has tried those before k, and k backward
\* once it goes forward.
Settled ==
    /\ \A i \in 1 .. k - 1, fwd \in BOOLEAN : ~Better(i, fwd)
    /\ forward => ~Better(k, FALSE)

\* At the start of a pass nothing has been tried.
LEMMA NothingTried ==
  ASSUME k' = 1, ~forward'
  PROVE  Settled'
<1>1. 1 .. k' - 1 = {}
  OBVIOUS
<1>2. (\A i \in 1 .. k - 1, fwd \in BOOLEAN : ~Better(i, fwd))'
  BY <1>1
<1>3. (forward => ~Better(k, FALSE))'
  OBVIOUS
<1> QED BY <1>2, <1>3 DEF Settled

ClimbInv ==
    /\ forward \in BOOLEAN /\ improved \in BOOLEAN
    /\ pc # "climb" => ~forward /\ ~improved
    /\ pc = "climb" =>
        /\ \A p \in Phases : IsPrefixSum(cost[p])
        /\ Covering(CostCuts)
        /\ best = TickScore(new) /\ ~Less(TickScore(CostCuts), best)
        /\ k = Threads => ~forward
        /\ ~improved => Settled

\* tick_score of the cuts c for a given cost
ScoreWith(v, c) ==
    <<Max({v["a"][c[i + 1]] - v["a"][c[i]] : i \in 0 .. Threads - 1})
        + Max({v["b"][c[i + 1]] - v["b"][c[i]] : i \in 0 .. Threads - 1}),
      MapThenSumSet(LAMBDA i : (v["a"][c[i + 1]] - v["a"][c[i]]) * (v["a"][c[i + 1]] - v["a"][c[i]]),
                    0 .. Threads - 1)
        + MapThenSumSet(LAMBDA i : (v["b"][c[i + 1]] - v["b"][c[i]]) * (v["b"][c[i + 1]] - v["b"][c[i]]),
                        0 .. Threads - 1)>>

\* Steps of the climb leave the costs and what depends on them alone.
LEMMA ScoresStay ==
  ASSUME UNCHANGED cost
  PROVE  /\ CostCuts' = CostCuts /\ TickScore(CostCuts)' = TickScore(CostCuts)
         /\ TickScore(new)' = TickScore(new')
         /\ \A c : TickScore(c)' = TickScore(c)
<1>1. \A x, i : NearestFrom(x, i)' = NearestFrom(x, i)
  BY DEF NearestFrom, Distance, Summed, Target, Total
<1>2. CostCuts' = CostCuts
  <2> DEFINE Is(c) == /\ c[0] = 0 /\ c[Threads] = Blocks
                      /\ \A i \in 1 .. Threads - 1 : c[i] = NearestFrom(c[i - 1], i)
             IsNext(c) == /\ c[0] = 0 /\ c[Threads] = Blocks
                          /\ \A i \in 1 .. Threads - 1 : c[i] = NearestFrom(c[i - 1], i)'
  <2>1. \A c : Is(c) <=> IsNext(c)
    BY <1>1
  <2>2. CostCuts = (CHOOSE c \in Cuts : Is(c)) /\ CostCuts' = (CHOOSE c \in Cuts : IsNext(c))
    BY DEF CostCuts, Cuts
  <2> HIDE DEF Is, IsNext
  <2> QED BY <2>1, <2>2
<1>3. ASSUME NEW c PROVE TickScore(c) = ScoreWith(cost, c)
  BY DEF TickScore, Busiest, Squares, RangeCost, ScoreWith, MapThenSumSet, MapThenFoldSet
<1>4. ASSUME NEW c PROVE TickScore(c)' = ScoreWith(cost', c)
  BY DEF TickScore, Busiest, Squares, RangeCost, ScoreWith, MapThenSumSet, MapThenFoldSet
<1>5. TickScore(new)' = ScoreWith(cost', new')
  BY DEF TickScore, Busiest, Squares, RangeCost, ScoreWith, MapThenSumSet, MapThenFoldSet
<1>6. TickScore(new') = ScoreWith(cost, new')
  BY DEF TickScore, Busiest, Squares, RangeCost, ScoreWith, MapThenSumSet, MapThenFoldSet
<1>7. TickScore(CostCuts)' = ScoreWith(cost', CostCuts')
  BY DEF TickScore, Busiest, Squares, RangeCost, ScoreWith, MapThenSumSet, MapThenFoldSet
<1> QED BY <1>2, <1>3, <1>4, <1>5, <1>6, <1>7

\* The climb begins with the cuts of cost_cuts and their score.
LEMMA StartKeepsClimb ==
  ASSUME IInv, SumsInv, NearestInv, ClimbInv, StartClimb
  PROVE  ClimbInv' /\ best' \in Nat \X Nat
<1>1. /\ pc = "cut" /\ k > Threads /\ pc' = "climb" /\ k' = 1 /\ best' = TickScore(new)
      /\ UNCHANGED <<cost, new, forward, improved>>
  BY DEF StartClimb
<1>2. k = Threads + 1 /\ Covering(new) /\ \A p \in Phases : IsPrefixSum(cost[p])
  BY <1>1, SizeAssumption DEF IInv, Building, Covering, SumsInv
<1>3. \A i \in 1 .. Threads - 1 : new[i] = NearestFrom(new[i - 1], i)
  BY <1>1, <1>2, SizeAssumption DEF NearestInv, Nearest
<1>4. CostCuts = new
  BY <1>2, <1>3, CostCutsAre
<1>5. best' \in Nat \X Nat
  BY <1>1, <1>2, ScoreType
<1>6. ~Less(best', best')
  BY <1>5, LessIsOrder
<1>7. CostCuts' = CostCuts /\ TickScore(new)' = TickScore(new) /\ TickScore(CostCuts)' = TickScore(new)
  <2>1. new' = new
    BY <1>1
  <2> QED BY <1>1, <1>4, <2>1, ScoresStay
<1>8. ~forward' /\ ~improved'
  BY <1>1 DEF ClimbInv
<1>9. Covering(CostCuts)' /\ \A p \in Phases : IsPrefixSum(cost'[p])
  BY <1>1, <1>2, <1>4, <1>7 DEF Covering, Ascending
<1>10. Settled'
  BY <1>1, <1>8, NothingTried
<1> QED BY <1>1, <1>5, <1>6, <1>7, <1>8, <1>9, <1>10 DEF ClimbInv

\* A move lowers the score.
LEMMA MoveKeepsClimb ==
  ASSUME IInv, ClimbInv, MoveCut
  PROVE  ClimbInv' /\ best' \in Nat \X Nat
<1>1. /\ pc = "climb" /\ pc' = "climb" /\ k < Threads /\ Lowers
      /\ new' = Moved(new, k, forward) /\ best' = TickScore(new') /\ improved' = TRUE
      /\ UNCHANGED <<cost, k, forward>>
  BY DEF MoveCut
<1>2. /\ \A p \in Phases : IsPrefixSum(cost[p])
      /\ Covering(CostCuts) /\ best = TickScore(new) /\ ~Less(TickScore(CostCuts), best)
      /\ Covering(new) /\ k \in 1 .. Threads - 1 /\ forward \in BOOLEAN
  BY <1>1, SizeAssumption DEF ClimbInv, IInv
<1>3. Covering(new')
  BY <1>1, <1>2, MovedCovers DEF Lowers
<1>4. TickScore(CostCuts) \in Nat \X Nat /\ best \in Nat \X Nat /\ best' \in Nat \X Nat
  BY <1>1, <1>2, <1>3, ScoreType
<1>5. Less(best', best)
  BY <1>1 DEF Lowers
<1>6. ~Less(TickScore(CostCuts), best')
  BY <1>2, <1>4, <1>5, LessIsOrder
<1>7. /\ CostCuts' = CostCuts /\ TickScore(CostCuts)' = TickScore(CostCuts)
      /\ TickScore(new)' = TickScore(new')
  BY <1>1, ScoresStay
<1>8. Covering(CostCuts)' /\ \A p \in Phases : IsPrefixSum(cost'[p])
  BY <1>1, <1>2, <1>7 DEF Covering, Ascending
<1> QED BY <1>1, <1>2, <1>4, <1>6, <1>7, <1>8 DEF ClimbInv

\* A cut that is left has been tried in the direction it is left in.
LEMMA LeaveKeepsClimb ==
  ASSUME IInv, ClimbInv, LeaveCut \/ NextPass
  PROVE  ClimbInv'
<1>1. pc = "climb" /\ pc' = "climb" /\ UNCHANGED <<cost, new, best>>
  BY DEF LeaveCut, NextPass
<1>2. /\ \A p \in Phases : IsPrefixSum(cost[p])
      /\ Covering(CostCuts) /\ best = TickScore(new) /\ ~Less(TickScore(CostCuts), best)
      /\ k \in 1 .. Threads /\ forward \in BOOLEAN /\ improved \in BOOLEAN
  BY <1>1 DEF ClimbInv, IInv
<1>3. /\ CostCuts' = CostCuts /\ TickScore(CostCuts)' = TickScore(CostCuts)
      /\ TickScore(new)' = TickScore(new') /\ \A c : TickScore(c)' = TickScore(c)
  BY <1>1, ScoresStay
<1>4. Covering(CostCuts)' /\ \A p \in Phases : IsPrefixSum(cost'[p])
  BY <1>1, <1>2, <1>3 DEF Covering, Ascending
<1>5. \A i, fwd : Better(i, fwd)' <=> Better(i, fwd)
  BY <1>1, <1>3 DEF Better, CanMove, Moved, Less
<1>6. (k = Threads)' => ~forward'
  <2>1. CASE NextPass
    BY <1>1, <2>1 DEF NextPass, ClimbInv
  <2>2. CASE LeaveCut
    <3>1. k < Threads /\ forward' = ~forward /\ k' = (IF forward THEN k + 1 ELSE k)
      BY <2>2 DEF LeaveCut
    <3>2. forward \/ k' # Threads
      BY <1>2, <3>1, SizeAssumption
    <3> QED BY <1>1, <3>1, <3>2
  <2> QED BY <2>1, <2>2
<1>7. forward' \in BOOLEAN /\ improved' \in BOOLEAN
  BY <1>2 DEF LeaveCut, NextPass
<1>8. ~improved' => Settled'
  <2>1. CASE NextPass
    <3>1. k' = 1 /\ ~forward'
      BY <1>1, <2>1 DEF NextPass, ClimbInv
    <3> QED BY <3>1, NothingTried
  <2>2. CASE LeaveCut
    <3> SUFFICES ASSUME ~improved PROVE Settled'
      BY <2>2 DEF LeaveCut
    <3>1. ~Better(k, forward)
      BY <1>2, <2>2 DEF LeaveCut, Lowers, Better
    <3>2. Settled
      BY <1>1 DEF ClimbInv
    <3>3. CASE ~forward
      <4>1. forward' /\ k' = k
        BY <2>2, <3>3 DEF LeaveCut
      <4>2. ~Better(k, FALSE)
        BY <1>2, <3>1, <3>3
      <4> QED BY <1>5, <3>2, <4>1, <4>2 DEF Settled
    <3>4. CASE forward
      <4>1. ~forward' /\ k' = k + 1
        BY <2>2, <3>4 DEF LeaveCut
      <4>2. ~Better(k, FALSE) /\ ~Better(k, TRUE)
        BY <1>2, <3>1, <3>2, <3>4 DEF Settled
      <4>3. ASSUME NEW i \in 1 .. k' - 1, NEW fwd \in BOOLEAN PROVE ~Better(i, fwd)
        <5>1. i = k \/ i \in 1 .. k - 1
          BY <1>2, <4>1
        <5> QED BY <3>2, <4>2, <5>1 DEF Settled
      <4> QED BY <1>5, <4>1, <4>3 DEF Settled
    <3> QED BY <3>3, <3>4
  <2> QED BY <2>1, <2>2
<1> QED BY <1>1, <1>2, <1>3, <1>4, <1>6, <1>7, <1>8 DEF ClimbInv

\* Outside of the climb there is nothing to keep.
LEMMA StepClimb == IInv /\ SumsInv /\ NearestInv /\ ClimbInv /\ [Next]_vars => ClimbInv'
<1> SUFFICES ASSUME IInv, SumsInv, NearestInv, ClimbInv, [Next]_vars PROVE ClimbInv'
  OBVIOUS
<1>1. CASE Keep \/ CutEqually \/ CutByCost \/ TakeBlock \/ PushCut \/ PushLast \/ RunShares
  <2>1. pc # "climb" /\ pc' # "climb" /\ UNCHANGED <<forward, improved>>
    BY <1>1 DEF Keep, CutEqually, CutByCost, Calling, Start, TakeBlock, PushCut, PushLast, RunShares, local
  <2> QED BY <2>1 DEF ClimbInv
<1>2. CASE EndClimb
  <2>1. pc = "climb" /\ k = Threads /\ ~improved /\ pc' = "run" /\ UNCHANGED <<forward, improved>>
    BY <1>2 DEF EndClimb, Start
  <2> QED BY <2>1 DEF ClimbInv
<1>3. CASE Done \/ UNCHANGED vars
  <2>1. UNCHANGED <<pc, cost, new, k, forward, improved, best>>
    BY <1>3 DEF Done, vars, local
  <2>2. CASE pc # "climb"
    BY <2>1, <2>2 DEF ClimbInv
  <2>3. CASE pc = "climb"
    <3>1. /\ CostCuts' = CostCuts /\ TickScore(CostCuts)' = TickScore(CostCuts)
          /\ TickScore(new)' = TickScore(new') /\ \A c : TickScore(c)' = TickScore(c)
      BY <2>1, ScoresStay
    <3>2. Covering(CostCuts)' <=> Covering(CostCuts)
      BY <3>1 DEF Covering, Ascending
    <3>3. \A i, fwd : Better(i, fwd)' <=> Better(i, fwd)
      BY <2>1, <3>1 DEF Better, CanMove, Moved, Less
    <3>4. Settled => Settled'
      BY <2>1, <3>3 DEF Settled
    <3> QED BY <2>1, <2>3, <3>1, <3>2, <3>4 DEF ClimbInv
  <2> QED BY <2>2, <2>3
<1> QED BY <1>1, <1>2, <1>3, StartKeepsClimb, MoveKeepsClimb, LeaveKeepsClimb DEF Next, Compute

\* What TypeOK says of the variables that IInv is silent about, and that a call
\* under way has been allowed for.
TypeInv ==
    /\ policy.every \in 0 .. MaxEvery
    /\ calls \in 0 .. MaxCalls /\ (pc \in {"cut", "climb"} => calls < MaxCalls)
    /\ blockNs \in [Phases -> Vectors] /\ cost \in [Phases -> Vectors]
    /\ pc \in {"idle", "run"} => new = NoCuts /\ k = 0
    /\ best \in Nat \X Nat
    /\ migrated \in 0 .. 2 * Blocks /\ repartitions \in {0, 1}

\* No more blocks change their worker than there are.
LEMMA AdoptCounts ==
  ASSUME NEW c, Adopt(c)
  PROVE  migrated' \in 0 .. 2 * Blocks /\ repartitions' \in {0, 1}
<1> DEFINE M == {x \in 0 .. Blocks - 1 : Owner(cuts, x) # Owner(c, x)}
<1>1. /\ IsFiniteSet(0 .. Blocks - 1) /\ Blocks \in Nat
      /\ Cardinality(0 .. Blocks - 1) = Blocks
  <2>1. Blocks \in Nat /\ 0 \in Int /\ Blocks - 1 \in Int
    BY BlocksNat
  <2>2. /\ IsFiniteSet(0 .. Blocks - 1)
        /\ Cardinality(0 .. Blocks - 1) = IF 0 > Blocks - 1 THEN 0 ELSE (Blocks - 1) - 0 + 1
    BY <2>1, FS_Interval
  <2> QED BY <2>1, <2>2
<1>2. M \in SUBSET (0 .. Blocks - 1)
  OBVIOUS
<1> HIDE DEF M
<1>3. Cardinality(M) \in Nat /\ Cardinality(M) <= Blocks
  BY <1>1, <1>2, FS_Subset, FS_CardinalityType
<1>4. MovedBlocks(cuts, c) = Cardinality(M)
  BY DEF MovedBlocks, M
<1>5. migrated' = 0 \/ migrated' = 2 * Cardinality(M)
  BY <1>4 DEF Adopt
<1>6. migrated' \in 0 .. 2 * Blocks
  BY <1>1, <1>3, <1>5
<1> QED BY <1>6 DEF Adopt

\* The invariant holds at first,
LEMMA InitTypes == Init => TypeInv
<1> SUFFICES ASSUME Init PROVE TypeInv
  OBVIOUS
<1>1. policy.every \in 0 .. MaxEvery
  <2>1. 0 \in 0 .. MaxEvery
    BY SizeAssumption
  <2> QED BY <2>1 DEF Init
<1>2. NoTime \in [Phases -> Vectors]
  BY BlocksNat DEF NoTime, Vectors
<1>3. NoScore \in Nat \X Nat
  BY DEF NoScore
<1> QED BY <1>1, <1>2, <1>3, BlocksNat, SizeAssumption DEF Init, TypeInv

\* every step keeps it,
LEMMA StepTypes == IInv /\ SumsInv /\ NearestInv /\ ClimbInv /\ TypeInv /\ [Next]_vars => TypeInv'
<1> SUFFICES ASSUME IInv, SumsInv, NearestInv, ClimbInv, TypeInv, [Next]_vars PROVE TypeInv'
  OBVIOUS
<1>0. /\ NoTime \in [Phases -> Vectors] /\ NoScore \in Nat \X Nat
      /\ Blocks \in Nat /\ 0 \in 0 .. 2 * Blocks
  BY BlocksNat DEF NoTime, Vectors, NoScore
<1>1. CASE Keep
  <2>1. /\ calls' = calls + 1 /\ calls < MaxCalls /\ pc = "idle" /\ pc' = "run" /\ blockNs' = NoTime
        /\ migrated' = 0 /\ repartitions' = 0 /\ UNCHANGED <<policy, cost, new, k, best>>
    BY <1>1 DEF Keep, Calling, Start, local
  <2> QED BY <1>0, <2>1, SizeAssumption DEF TypeInv
<1>2. CASE CutEqually
  <2>1. /\ calls' = calls + 1 /\ calls < MaxCalls /\ pc = "idle" /\ pc' = "run" /\ blockNs' = NoTime
        /\ Adopt(EqualCuts) /\ UNCHANGED <<policy, cost, new, k, best>>
    BY <1>2 DEF CutEqually, Calling, Start, local
  <2>2. migrated' \in 0 .. 2 * Blocks /\ repartitions' \in {0, 1}
    BY <2>1, AdoptCounts
  <2> QED BY <1>0, <2>1, <2>2, SizeAssumption DEF TypeInv
<1>3. CASE EndClimb
  <2>1. /\ calls' = calls + 1 /\ pc = "climb" /\ pc' = "run" /\ blockNs' = NoTime
        /\ Adopt(new) /\ cost' = NoTime /\ new' = NoCuts /\ k' = 0 /\ best' = NoScore /\ policy' = policy
    BY <1>3 DEF EndClimb, Start
  <2>2. migrated' \in 0 .. 2 * Blocks /\ repartitions' \in {0, 1}
    BY <2>1, AdoptCounts
  <2> QED BY <1>0, <2>1, <2>2, SizeAssumption DEF TypeInv
<1>4. CASE CutByCost
  <2>1. /\ cost' \in BlockCosts /\ calls < MaxCalls /\ pc' = "cut"
        /\ UNCHANGED <<policy, calls, blockNs, best, migrated, repartitions>>
    BY <1>4 DEF CutByCost, Calling, stats
  <2>2. \A p \in Phases : IsPrefixSum(cost'[p])
    BY <2>1, CarCostSums DEF BlockCosts, SumsInv
  <2>3. cost' = blockNs \/ \E cars \in CarSums : cost' = CarCosts(cars)
    BY <2>1 DEF BlockCosts
  <2>4. cost' \in [Phases -> Vectors]
    <3>1. CASE cost' = blockNs
      BY <3>1 DEF TypeInv
    <3>2. CASE \E cars \in CarSums : cost' = CarCosts(cars)
      <4>1. PICK cars \in CarSums : cost' = CarCosts(cars)
        BY <3>2
      <4>2. \A p \in Phases : CarCosts(cars)[p] \in Vectors
        BY CarCostSums DEF IsPrefixSum
      <4>3. CarCosts(cars) = [p \in Phases |-> CarCosts(cars)[p]]
        BY DEF CarCosts
      <4> HIDE DEF CarCosts
      <4> QED BY <4>1, <4>2, <4>3
    <3> QED BY <2>3, <3>1, <3>2
  <2> QED BY <2>1, <2>4 DEF TypeInv
<1>5. CASE TakeBlock \/ PushCut \/ PushLast
  <2>1. /\ pc = "cut" /\ pc' = "cut"
        /\ UNCHANGED <<policy, calls, blockNs, cost, best, migrated, repartitions>>
    BY <1>5 DEF TakeBlock, PushCut, PushLast, stats
  <2> QED BY <2>1 DEF TypeInv
<1>6. CASE StartClimb \/ MoveCut
  <2>1. /\ pc \in {"cut", "climb"} /\ pc' = "climb"
        /\ UNCHANGED <<policy, calls, blockNs, cost, migrated, repartitions>>
    BY <1>6 DEF StartClimb, MoveCut, stats
  <2>2. best' \in Nat \X Nat
    BY <1>6, StartKeepsClimb, MoveKeepsClimb
  <2> QED BY <2>1, <2>2 DEF TypeInv
<1>7. CASE LeaveCut \/ NextPass
  <2>1. /\ pc = "climb" /\ pc' = "climb"
        /\ UNCHANGED <<policy, calls, blockNs, cost, best, migrated, repartitions>>
    BY <1>7 DEF LeaveCut, NextPass, stats
  <2> QED BY <2>1 DEF TypeInv
<1>8. CASE RunShares
  <2>1. /\ pc = "run" /\ pc' = "idle"
        /\ UNCHANGED <<policy, calls, cost, new, k, best, migrated, repartitions>>
    BY <1>8 DEF RunShares, local, stats
  <2>2. blockNs' \in [Phases -> Vectors]
    <3>1. CASE TimesRead
      <4>1. PICK x \in TimeSumsA, y \in TimeSumsB :
              blockNs' = [p \in Phases |-> IF p = "a" THEN x ELSE y]
        BY <1>8, <3>1 DEF RunShares
      <4>2. x \in Vectors /\ y \in Vectors
        BY SumsAssumption DEF IsPrefixSum
      <4> QED BY <4>1, <4>2
    <3>2. CASE ~TimesRead
      BY <1>8, <3>2 DEF RunShares, TypeInv
    <3> QED BY <3>1, <3>2
  <2> QED BY <2>1, <2>2 DEF TypeInv
<1>9. CASE Done \/ UNCHANGED vars
  <2>1. UNCHANGED <<policy, calls, blockNs, pc, cost, new, k, best, migrated, repartitions>>
    BY <1>9 DEF Done, vars, local, stats
  <2> QED BY <2>1 DEF TypeInv
<1> QED BY <1>1, <1>2, <1>3, <1>4, <1>5, <1>6, <1>7, <1>8, <1>9 DEF Next, Compute

\* and it implies, with the others, that the types are right.
LEMMA TypesAreRight == IInv /\ ClimbInv /\ TypeInv => TypeOK
<1> SUFFICES ASSUME IInv, ClimbInv, TypeInv PROVE TypeOK
  OBVIOUS
<1>1. cuts \in Cuts \union {NoCuts}
  BY DEF IInv, Covering, Ascending, Cuts
<1>2. new \in [0 .. k - 1 -> 0 .. Blocks] \union Cuts /\ k \in 0 .. Threads + 1
  <2>1. CASE pc \in {"idle", "run"}
    <3>1. new = NoCuts /\ k = 0
      BY <2>1 DEF TypeInv
    <3>2. 0 .. k - 1 = {} /\ NoCuts \in [{} -> 0 .. Blocks]
      BY <3>1 DEF NoCuts
    <3> QED BY <3>1, <3>2, SizeAssumption
  <2>2. CASE pc = "cut"
    BY <2>2 DEF IInv, Building, Ascending
  <2>3. CASE pc = "climb"
    BY <2>3, SizeAssumption DEF IInv, Covering, Ascending, Cuts
  <2> QED BY <2>1, <2>2, <2>3 DEF IInv
<1> QED BY <1>1, <1>2 DEF TypeOK, TypeInv, IInv, ClimbInv

\* A climb ends with cuts that score no worse than those of cost_cuts, and that
\* no move of a single cut betters, for any costs, nodes and workers.
THEOREM EveryClimbEndsAtPeak == Spec => []ClimbEndsAtPeak
<1>1. Init => IInv /\ SumsInv /\ NearestInv /\ ClimbInv /\ TypeInv
  <2>1. Init => SumsInv /\ NearestInv /\ ClimbInv
    BY NoTimeSums DEF Init, SumsInv, NearestInv, ClimbInv
  <2> QED BY <2>1, InitInv, InitTypes
<1>2. IInv /\ SumsInv /\ NearestInv /\ ClimbInv /\ TypeInv => ClimbEndsAtPeak
  <2> SUFFICES ASSUME IInv, ClimbInv, TypeInv PROVE ClimbEndsAtPeak
    OBVIOUS
  <2>1. TypeOK
    BY TypesAreRight
  <2>2. ASSUME pc = "climb", k = Threads, ~improved
        PROVE  /\ ~Less(TickScore(CostCuts), TickScore(new))
               /\ \A i \in 1 .. Threads - 1, fwd \in BOOLEAN :
                    CanMove(new, i, fwd) => ~Less(TickScore(Moved(new, i, fwd)), TickScore(new))
    BY <2>2 DEF ClimbInv, Settled, Better
  <2> QED BY <2>1, <2>2 DEF ClimbEndsAtPeak
<1>3. IInv /\ SumsInv /\ NearestInv /\ ClimbInv /\ TypeInv /\ [Next]_vars
        => (IInv /\ SumsInv /\ NearestInv /\ ClimbInv /\ TypeInv)'
  BY StepInv, SumsStep, NearestStep, StepClimb, StepTypes
<1> QED BY <1>1, <1>2, <1>3, PTL DEF Spec
=============================================================================
