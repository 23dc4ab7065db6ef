---------------------------- MODULE Repartition ----------------------------
(***************************************************************************)
(* The cuts of the partitioned backend of citysim                          *)
(* (m4t1d/src/sched/partitioned.rs): which worker owns which nodes, over a *)
(* sequence of run_ticks calls.  A call keeps its cuts or computes new     *)
(* ones.  `static' cuts into equal block counts.  `balanced' cuts at equal *)
(* shares of a cost estimate, either the cars on each block or the time    *)
(* each block took in the previous call, then climbs: it moves one cut at  *)
(* a time by one block while the predicted tick time falls.                *)
(*                                                                         *)
(* A cost vector is held as its prefix sums, one vector per phase, and a   *)
(* Vec as a function from 0.  The workers' loop is module SpinBarrier.     *)
(***************************************************************************)
EXTENDS Integers, FiniteSets, FiniteSetsExt

CONSTANTS
    Nodes,      \* nodes of the city
    Block,      \* nodes per block
    Threads,    \* workers
    CarSums,    \* the cars on the blocks' approaches, as prefix sums
    TimeSumsA,  \* the phase A step times of the blocks over a call, likewise
    TimeSumsB,  \* and the phase B ones
    MaxEvery,   \* bound on --rebalance-every
    MaxCalls    \* bound on the calls of run_ticks

ASSUME SizeAssumption ==
    /\ Nodes \in Nat \ {0}
    /\ Block \in Nat \ {0}
    /\ Threads \in Nat \ {0}
    /\ MaxEvery \in Nat /\ MaxCalls \in Nat

\* Blocks needed to cover the nodes; the last may be short.
Blocks == (Nodes + Block - 1) \div Block

\* Mutant: the last block is taken to be full.
NodeAtFull(b) == b * Block

\* The first node of block b, or the end of the city.
NodeAt(b) == IF b * Block < Nodes THEN b * Block ELSE Nodes

Phases == {"a", "b"}
Vectors == [0 .. Blocks -> Nat]

\* The prefix sums of a cost vector: entry b is the cost of blocks 0 .. b - 1.
IsPrefixSum(v) ==
    /\ v \in Vectors
    /\ v[0] = 0
    /\ \A i \in 0 .. Blocks - 1 : v[i] <= v[i + 1]

ASSUME SumsAssumption ==
    \A v \in CarSums \union TimeSumsA \union TimeSumsB : IsPrefixSum(v)

NoTime == [p \in Phases |-> [b \in 0 .. Blocks |-> 0]]
NoCuts == [k \in {} |-> 0]
NoScore == <<0, 0>>

VARIABLES
    policy,       \* the backend: kind, cost estimate, calls between cuts
    calls,        \* run_ticks calls so far
    cuts,         \* worker k owns blocks cuts[k] .. cuts[k + 1] - 1
    blockNs,      \* prefix sums of the block times of the last call
    pc,           \* "idle", "cut" (cost_cuts), "climb" (phase_cuts), "run"
    cost,         \* prefix sums of the estimate being cut by
    new,          \* the cuts being computed
    k, b,         \* the next cut, and the block boundary it has reached
    forward,      \* the direction the climb tries next
    improved,     \* a cut moved in this pass of the climb
    best,         \* tick_score of new
    migrated,     \* TickStats of the call
    repartitions

local == <<cost, new, k, b, forward, improved, best>>
stats == <<migrated, repartitions>>
vars == <<policy, calls, cuts, blockNs, pc, local, stats>>

-----------------------------------------------------------------------------
(* Cutting by cost                                                         *)

EqualCuts == [i \in 0 .. Threads |-> (i * Blocks) \div Threads]

Summed(i) == cost["a"][i] + cost["b"][i]
Total == Summed(Blocks)

\* Mutant: the shares are counted from zero.
TargetBefore(i) == (Total * (i - 1)) \div Threads

Target(i) == (Total * i) \div Threads

\* The boundary is at or below the target after one more block.
Below == b < Blocks /\ Summed(b + 1) <= Target(k)

\* Mutant: a cut never goes past its target.
RoundsNever == FALSE

\* One more block overshoots the target by less than stopping falls short.
RoundsUp ==
    /\ b < Blocks
    /\ Summed(b) < Target(k)
    /\ Summed(b + 1) - Target(k) < Target(k) - Summed(b)

Push(v, x) == [i \in 0 .. k |-> IF i = k THEN x ELSE v[i]]

-----------------------------------------------------------------------------
(* Scoring and moving cuts                                                 *)

RangeCost(p, c, i) == cost[p][c[i + 1]] - cost[p][c[i]]
Busiest(p, c) == Max({RangeCost(p, c, i) : i \in 0 .. Threads - 1})
Squares(p, c) ==
    MapThenSumSet(LAMBDA i : RangeCost(p, c, i) * RangeCost(p, c, i), 0 .. Threads - 1)

\* Predicted tick time, then the squared range costs to break ties.
TickScore(c) ==
    <<Busiest("a", c) + Busiest("b", c), Squares("a", c) + Squares("b", c)>>

\* Mutant: a move that changes nothing is kept.
LessOrEqual(x, y) == x[1] < y[1] \/ (x[1] = y[1] /\ x[2] <= y[2])

Less(x, y) == x[1] < y[1] \/ (x[1] = y[1] /\ x[2] < y[2])

\* Cut i may move one block in a direction: it stays between its neighbours.
CanMove(c, i, fwd) == IF fwd THEN c[i] < c[i + 1] ELSE c[i - 1] < c[i]
Moved(c, i, fwd) == [c EXCEPT ![i] = IF fwd THEN @ + 1 ELSE @ - 1]

Lowers == CanMove(new, k, forward) /\ Less(TickScore(Moved(new, k, forward)), best)

-----------------------------------------------------------------------------
(* Migration between the calls of one engine                               *)

\* partition_point counts the cuts at or before block x.
Owner(c, x) == Cardinality({i \in 0 .. Threads : c[i] <= x}) - 1

MovedBlocks(old, c) ==
    Cardinality({x \in 0 .. Blocks - 1 : Owner(old, x) # Owner(c, x)})

\* run_ticks takes the cuts c: both phases of a moved block change worker.
Adopt(c) ==
    /\ cuts' = c
    /\ migrated' = IF cuts = NoCuts THEN 0 ELSE 2 * MovedBlocks(cuts, c)
    /\ repartitions' = IF cuts = NoCuts THEN 0 ELSE 1

\* run_ticks counts the call and clears the block times before the workers start.
Start ==
    /\ calls' = calls + 1
    /\ blockNs' = NoTime
    /\ pc' = "run"

-----------------------------------------------------------------------------
Init ==
    /\ policy \in {[kind |-> "static", by |-> "cars", every |-> 0]}
         \union [kind : {"balanced"}, by : {"cars", "time"}, every : 0 .. MaxEvery]
    /\ calls = 0 /\ cuts = NoCuts /\ blockNs = NoTime
    /\ pc = "idle"
    /\ cost = NoTime /\ new = NoCuts /\ k = 0 /\ b = 0
    /\ forward = FALSE /\ improved = FALSE /\ best = NoScore
    /\ migrated = 0 /\ repartitions = 0

\* next_cuts answers Some: there are no cuts yet, or the interval is up.
Due ==
    \/ cuts = NoCuts
    \/ policy.kind = "balanced" /\ policy.every > 0 /\ calls % policy.every = 0

Calling == pc = "idle" /\ calls < MaxCalls

\* run_ticks keeps the cuts of the previous call.
Keep ==
    /\ Calling /\ ~Due
    /\ Start
    /\ migrated' = 0 /\ repartitions' = 0
    /\ UNCHANGED <<policy, cuts, local>>

CutEqually ==
    /\ Calling /\ Due /\ policy.kind = "static"
    /\ Adopt(EqualCuts)
    /\ Start
    /\ UNCHANGED <<policy, local>>

\* car_costs: one per node and car for phase A, five per node for phase B.
CarCosts(cars) ==
    [p \in Phases |-> [i \in 0 .. Blocks |->
        IF p = "a" THEN NodeAt(i) + cars[i] ELSE 5 * NodeAt(i)]]

\* block_costs: the times of the last call, if it measured any.
BlockCosts ==
    IF policy.by = "time" /\ blockNs["a"][Blocks] + blockNs["b"][Blocks] > 0
    THEN {blockNs}
    ELSE {CarCosts(cars) : cars \in CarSums}

\* phase_cuts begins with cost_cuts of the summed phase costs.  Their total is
\* not zero: a node costs one at least, and times of zero are not used.
CutByCost ==
    /\ Calling /\ Due /\ policy.kind = "balanced"
    /\ cost' \in BlockCosts
    /\ pc' = "cut"
    /\ new' = [i \in {0} |-> 0]
    /\ k' = 1 /\ b' = 0
    /\ UNCHANGED <<policy, calls, cuts, blockNs, forward, improved, best, stats>>

TakeBlock ==
    /\ pc = "cut" /\ k < Threads /\ Below
    /\ b' = b + 1
    /\ UNCHANGED <<policy, calls, cuts, blockNs, pc, cost, new, k, forward, improved, best, stats>>

PushCut ==
    /\ pc = "cut" /\ k < Threads /\ ~Below
    /\ b' = IF RoundsUp THEN b + 1 ELSE b
    /\ new' = Push(new, b')
    /\ k' = k + 1
    /\ UNCHANGED <<policy, calls, cuts, blockNs, pc, cost, forward, improved, best, stats>>

PushLast ==
    /\ pc = "cut" /\ k = Threads
    /\ new' = Push(new, Blocks)
    /\ k' = k + 1
    /\ UNCHANGED <<policy, calls, cuts, blockNs, pc, cost, b, forward, improved, best, stats>>

StartClimb ==
    /\ pc = "cut" /\ k > Threads
    /\ pc' = "climb"
    /\ best' = TickScore(new)
    /\ k' = 1 /\ b' = 0
    /\ UNCHANGED <<policy, calls, cuts, blockNs, cost, new, forward, improved, stats>>

\* The move is kept and the same cut tried again.
MoveCut ==
    /\ pc = "climb" /\ k < Threads /\ Lowers
    /\ new' = Moved(new, k, forward)
    /\ best' = TickScore(new')
    /\ improved' = TRUE
    /\ UNCHANGED <<policy, calls, cuts, blockNs, pc, cost, k, b, forward, stats>>

\* Mutant: a cut is only ever tried backward.
LeaveCutBackward ==
    /\ pc = "climb" /\ k < Threads /\ ~Lowers
    /\ k' = k + 1
    /\ UNCHANGED <<policy, calls, cuts, blockNs, pc, cost, new, b, forward, improved, best, stats>>

\* The move is undone: backward, then forward, then the next cut.
LeaveCut ==
    /\ pc = "climb" /\ k < Threads /\ ~Lowers
    /\ forward' = ~forward
    /\ k' = IF forward THEN k + 1 ELSE k
    /\ UNCHANGED <<policy, calls, cuts, blockNs, pc, cost, new, b, improved, best, stats>>

NextPass ==
    /\ pc = "climb" /\ k = Threads /\ improved
    /\ k' = 1
    /\ improved' = FALSE
    /\ UNCHANGED <<policy, calls, cuts, blockNs, pc, cost, new, b, forward, best, stats>>

EndClimb ==
    /\ pc = "climb" /\ k = Threads /\ ~improved
    /\ Adopt(new)
    /\ Start
    /\ cost' = NoTime /\ new' = NoCuts /\ k' = 0 /\ best' = NoScore
    /\ UNCHANGED <<policy, b, forward, improved>>

\* Block times are kept only for an engine that reads them again.
TimesRead == policy.by = "time" /\ policy.every > 0

\* The workers run their shares and add up each block's step time.
RunShares ==
    /\ pc = "run"
    /\ IF TimesRead
       THEN \E x \in TimeSumsA, y \in TimeSumsB :
              blockNs' = [p \in Phases |-> IF p = "a" THEN x ELSE y]
       ELSE UNCHANGED blockNs
    /\ pc' = "idle"
    /\ UNCHANGED <<policy, calls, cuts, local, stats>>

Compute ==
    \/ TakeBlock \/ PushCut \/ PushLast
    \/ StartClimb \/ MoveCut \/ LeaveCut \/ NextPass \/ EndClimb

\* The caller makes no further call: the run is over.
Done == pc = "idle" /\ calls = MaxCalls /\ UNCHANGED vars

Next == Keep \/ CutEqually \/ CutByCost \/ Compute \/ RunShares \/ Done

Spec == Init /\ [][Next]_vars /\ WF_vars(Compute) /\ WF_vars(RunShares)

-----------------------------------------------------------------------------
(* Properties                                                              *)

Cuts == [0 .. Threads -> 0 .. Blocks]

\* Every cut is a block boundary, and the statistics count what a call can move.
TypeOK ==
    /\ policy.every \in 0 .. MaxEvery
    /\ calls \in 0 .. MaxCalls
    /\ cuts \in Cuts \union {NoCuts}
    /\ blockNs \in [Phases -> Vectors]
    /\ pc \in {"idle", "cut", "climb", "run"}
    /\ cost \in [Phases -> Vectors]
    /\ new \in [0 .. k - 1 -> 0 .. Blocks] \union Cuts
    /\ k \in 0 .. Threads + 1 /\ b \in 0 .. Blocks
    /\ forward \in BOOLEAN /\ improved \in BOOLEAN
    /\ best \in Nat \X Nat
    /\ migrated \in 0 .. 2 * Blocks /\ repartitions \in {0, 1}

Share(i) == NodeAt(cuts[i]) .. NodeAt(cuts[i + 1]) - 1

\* While the workers run, every node of the city is in exactly one worker's
\* share, whatever the cost estimate was and however the climb moved the cuts;
\* no share reaches past the last node (run_ticks, split_lengths).
OneWorkerPerNode ==
    pc = "run" =>
        /\ \A n \in 0 .. Nodes - 1 : \E i \in 0 .. Threads - 1 : n \in Share(i)
        /\ \A i, j \in 0 .. Threads - 1 : i # j => Share(i) \intersect Share(j) = {}
        /\ \A i \in 0 .. Threads - 1 : Share(i) \subseteq 0 .. Nodes - 1

Distance(x, i) == LET d == Summed(x) - Target(i) IN IF d < 0 THEN -d ELSE d

\* A cut is the boundary with the prefix cost nearest to its target, k/parts of
\* the total rounded down, among those that do not move back past the cut
\* before (cost_cuts; its doc says k/parts of the total: where the division
\* leaves a remainder the boundary nearest to that may be the next one).
NearestBoundary ==
    pc = "cut" =>
        \A i \in 1 .. k - 1 : i < Threads =>
            \A x \in new[i - 1] .. Blocks : Distance(new[i], i) <= Distance(x, i)

\* No range costs more than an equal share of the total rounded up plus the
\* heaviest block: m is any bound on the cost of a block (cost_cuts).
RangesBounded ==
    pc = "cut" =>
        \A m \in 0 .. Total :
            (\A x \in 0 .. Blocks - 1 : Summed(x + 1) - Summed(x) <= m) =>
                \A i \in 1 .. k - 1 :
                    Summed(new[i]) - Summed(new[i - 1])
                        <= (Total + Threads - 1) \div Threads + m

\* The nearest boundary at or after x. Of several, it is the last one that the
\* share i reaches, or else the first one beyond it.
NearestFrom(x, i) ==
    LET near   == {y \in x .. Blocks : \A z \in x .. Blocks : Distance(y, i) <= Distance(z, i)}
        within == {y \in near : Summed(y) <= Target(i)}
    IN  IF within = {} THEN Min(near) ELSE Max(within)

\* What cost_cuts answers, without its loops.
CostCuts ==
    CHOOSE c \in Cuts :
        /\ c[0] = 0 /\ c[Threads] = Blocks
        /\ \A i \in 1 .. Threads - 1 : c[i] = NearestFrom(c[i - 1], i)

\* The cuts a climb ends with score no worse than those it started from, and
\* no single cut could move by one block and score better (phase_cuts).  On the
\* way there every cut is a boundary of blocks (TypeOK).
ClimbEndsAtPeak ==
    /\ TypeOK
    /\ pc = "climb" /\ k = Threads /\ ~improved =>
        /\ ~Less(TickScore(CostCuts), TickScore(new))
        /\ \A i \in 1 .. Threads - 1, fwd \in BOOLEAN :
             CanMove(new, i, fwd) => ~Less(TickScore(Moved(new, i, fwd)), TickScore(new))

\* Every call ends: the climb cannot move cuts back and forth for ever.
CallEnds == pc # "idle" ~> pc = "idle"
=============================================================================
