------------------------- MODULE SpinBarrierProofs -------------------------
(***************************************************************************)
(* Proofs about SpinBarrier, for any number of workers, any number of      *)
(* ticks and any wrap-around of the generation.                            *)
(*                                                                         *)
(* The argument is the round r the barrier is in: the number of times it   *)
(* has released its waiters.  Every worker has computed r or r + 1 shares, *)
(* those with r + 1 are on their way into the barrier or wait in it, and   *)
(* one with r that still stands in the loop of wait holds a generation     *)
(* that is not the current one, so it can only leave.                      *)
(***************************************************************************)
EXTENDS SpinBarrier, FiniteSetTheorems, TLAPS

\* The workers whose arrival the counter holds in round r.
ArrivedIn(r) ==
    {w \in Workers : done[w] = r + 1 /\ pc[w] \in {"reset", "publish", "spin", "check"} \union Dead}

\* Where a worker can stand in round r.
Place(r, w) ==
    /\ done[w] \in {r, r + 1}
    /\ pc[w] \in {"spawning", "unborn", "refused"} => r = 0 /\ done[w] = 0
    /\ pc[w] = "share" => done[w] = r /\ r < Phases
    /\ pc[w] = "finished" => done[w] = r /\ r = Phases
    /\ pc[w] \in {"load", "add", "reset", "publish"} => done[w] = r + 1

\* Which generation a worker inside wait has read.
Ticket(r, w) ==
    /\ pc[w] = "add" => gen[w] = generation
    /\ pc[w] \in {"reset", "publish", "spin", "check"} =>
          (gen[w] = generation <=> done[w] = r + 1)

\* The last worker to arrive is alone, and everybody has arrived.
LastArrival(r) ==
    \A w \in Workers : pc[w] \in {"reset", "publish"} =>
        \A v \in Workers : done[v] = r + 1 /\ (v # w => pc[v] \in {"spin", "check"} \union Dead)

Counter(r) ==
    arrived = IF \E w \in Workers : pc[w] = "publish" THEN 0 ELSE Cardinality(ArrivedIn(r))

\* Whoever panicked in its share never arrives.
Culprit(r) ==
    poisoned \/ (\E w \in Workers : pc[w] \in Dead) =>
        \E v \in Workers : pc[v] \in Dead /\ done[v] = r /\ r < Phases

Ending ==
    /\ outcome # "running" => \A w \in Workers : pc[w] \in Ended
    /\ outcome = "returned" => \A w \in Workers : pc[w] = "finished"

\* What the views hold in round r.
Views(r) ==
    /\ \A v \in Workers : generationView[v] >= r
    /\ \A v \in Workers : seen[v][v] >= done[v]
    /\ \A w \in Workers : pc[w] \in {"spawning", "unborn", "share", "finished"} =>
          \A v \in Workers : seen[w][v] >= r
    /\ \A w \in Workers : pc[w] \in {"reset", "publish"} =>
          \A v \in Workers : seen[w][v] >= r + 1
    /\ (\A w \in Workers : pc[w] # "publish") =>
          \A v \in ArrivedIn(r) : arrivedView[v] >= r + 1

Round(r) ==
    /\ \A w \in Workers : Place(r, w) /\ Ticket(r, w)
    /\ LastArrival(r)
    /\ Counter(r)
    /\ Culprit(r)
    /\ Views(r)

IInv == TypeOK /\ Ending /\ \E r \in 0 .. Phases : Round(r)

-----------------------------------------------------------------------------
\* The numbers of phases and of threads are natural numbers.
LEMMA PhasesNat == Phases \in Nat
BY TicksAssumption DEF Phases

LEMMA PartiesNat == Parties \in Nat
BY WorkersAssumption, FS_CardinalityType DEF Parties

\* Joining two views keeps what either of them holds.
LEMMA JoinView ==
    ASSUME NEW f \in [Workers -> Nat], NEW g \in [Workers -> Nat]
    PROVE  /\ Join(f, g) \in [Workers -> Nat]
           /\ \A v \in Workers : Join(f, g)[v] >= f[v] /\ Join(f, g)[v] >= g[v]
BY DEF Join

\* The threads that have arrived are finitely many.
LEMMA ArrivedFinite ==
    ASSUME NEW r \in Nat
    PROVE  /\ IsFiniteSet(ArrivedIn(r))
           /\ Cardinality(ArrivedIn(r)) \in 0 .. Parties
           /\ Cardinality(ArrivedIn(r)) = Parties => ArrivedIn(r) = Workers
<1>1. ArrivedIn(r) \in SUBSET Workers
  BY DEF ArrivedIn
<1> QED
  BY <1>1, PartiesNat, WorkersAssumption, FS_Subset, FS_CardinalityType DEF Parties

\* One lemma for each action: it keeps the invariant. Threads start or fail to,
LEMMA SpawnKeeps ==
    ASSUME TypeOK, Ending, NEW r \in 0 .. Phases, Round(r), NEW w \in Workers, Spawn(w)
    PROVE  (TypeOK /\ Ending /\ Round(r))'
<1> USE PhasesNat, GenModAssumption, WorkersAssumption DEF TypeOK, Round, Spawn, Goto, barrierVars, workerVars, PCs, Waiting, Dead, Ended, LoopHead
<1>1. TypeOK'
  BY SMTT(20)
<1>2. Ending'
  BY DEF Ending
<1>3. (\A v \in Workers : Place(r, v) /\ Ticket(r, v))'
  BY DEF Place, Ticket
<1>4. LastArrival(r)'
  BY DEF LastArrival, Place
<1>5. Counter(r)'
  <2>1. ArrivedIn(r)' = ArrivedIn(r)
    BY DEF ArrivedIn, Place
  <2> QED
    BY <2>1 DEF Counter
<1>6. Culprit(r)'
  BY DEF Culprit, Place
<1>7. Views(r)'
  BY DEF Views, Place, ArrivedIn, Join, NoView
<1> QED
  BY <1>1, <1>2, <1>3, <1>4, <1>5, <1>6, <1>7

LEMMA SpawnFailsKeeps ==
    ASSUME TypeOK, Ending, NEW r \in 0 .. Phases, Round(r), SpawnFails
    PROVE  (TypeOK /\ Ending /\ Round(r))'
<1> USE PhasesNat, GenModAssumption, WorkersAssumption DEF TypeOK, Round, SpawnFails, Goto, barrierVars, workerVars, PCs, Waiting, Dead, Ended, LoopHead
<1>1. TypeOK'
  BY SMTT(20)
<1>2. Ending'
  BY DEF Ending
<1>3. (\A v \in Workers : Place(r, v) /\ Ticket(r, v))'
  BY DEF Place, Ticket
<1>4. LastArrival(r)'
  BY DEF LastArrival, Place
<1>5. Counter(r)'
  <2>1. ArrivedIn(r)' = ArrivedIn(r)
    BY DEF ArrivedIn, Place
  <2> QED
    BY <2>1 DEF Counter
<1>6. Culprit(r)'
  BY DEF Culprit, Place
<1>7. Views(r)'
  BY DEF Views, Place, ArrivedIn, Join, NoView
<1> QED
  BY <1>1, <1>2, <1>3, <1>4, <1>5, <1>6, <1>7

LEMMA StartOwnKeeps ==
    ASSUME TypeOK, Ending, NEW r \in 0 .. Phases, Round(r), StartOwn
    PROVE  (TypeOK /\ Ending /\ Round(r))'
<1> USE PhasesNat, GenModAssumption, WorkersAssumption DEF TypeOK, Round, StartOwn, Goto, barrierVars, workerVars, PCs, Waiting, Dead, Ended, LoopHead
<1>1. TypeOK'
  BY SMTT(20)
<1>2. Ending'
  BY DEF Ending
<1>3. (\A v \in Workers : Place(r, v) /\ Ticket(r, v))'
  BY DEF Place, Ticket
<1>4. LastArrival(r)'
  BY DEF LastArrival, Place
<1>5. Counter(r)'
  <2>1. ArrivedIn(r)' = ArrivedIn(r)
    BY DEF ArrivedIn, Place
  <2> QED
    BY <2>1 DEF Counter
<1>6. Culprit(r)'
  BY DEF Culprit, Place
<1>7. Views(r)'
  BY DEF Views, Place, ArrivedIn, Join, NoView
<1> QED
  BY <1>1, <1>2, <1>3, <1>4, <1>5, <1>6, <1>7

\* compute or panic in their share,
LEMMA ComputeKeeps ==
    ASSUME TypeOK, Ending, NEW r \in 0 .. Phases, Round(r), NEW w \in Workers, Compute(w)
    PROVE  (TypeOK /\ Ending /\ Round(r))'
<1> USE PhasesNat, GenModAssumption, WorkersAssumption DEF TypeOK, Round, Compute, Goto, barrierVars, workerVars, PCs, Waiting, Dead, Ended, LoopHead
<1>1. TypeOK'
  <2>1. done' \in [Workers -> 0 .. Phases]
    BY DEF Place
  <2>2. seen' \in [Workers -> [Workers -> Nat]]
    OBVIOUS
  <2> QED
    BY <2>1, <2>2
<1>2. Ending'
  BY DEF Ending
<1>3. (\A v \in Workers : Place(r, v) /\ Ticket(r, v))'
  BY DEF Place, Ticket
<1>4. LastArrival(r)'
  BY DEF LastArrival, Place
<1>5. Counter(r)'
  <2>1. ArrivedIn(r)' = ArrivedIn(r)
    BY DEF ArrivedIn, Place
  <2> QED
    BY <2>1 DEF Counter
<1>6. Culprit(r)'
  BY DEF Culprit, Place
<1>7. Views(r)'
  BY DEF Views, Place, ArrivedIn, Join, NoView
<1> QED
  BY <1>1, <1>2, <1>3, <1>4, <1>5, <1>6, <1>7

LEMMA ComputePanicsKeeps ==
    ASSUME TypeOK, Ending, NEW r \in 0 .. Phases, Round(r), NEW w \in Workers, ComputePanics(w)
    PROVE  (TypeOK /\ Ending /\ Round(r))'
<1> USE PhasesNat, GenModAssumption, WorkersAssumption DEF TypeOK, Round, ComputePanics, Goto, barrierVars, workerVars, PCs, Waiting, Dead, Ended, LoopHead
<1>1. TypeOK'
  BY SMTT(20)
<1>2. Ending'
  BY DEF Ending
<1>3. (\A v \in Workers : Place(r, v) /\ Ticket(r, v))'
  BY DEF Place, Ticket
<1>4. LastArrival(r)'
  BY DEF LastArrival, Place
<1>5. Counter(r)'
  <2>1. ArrivedIn(r)' = ArrivedIn(r)
    BY DEF ArrivedIn, Place
  <2> QED
    BY <2>1 DEF Counter
<1>6. Culprit(r)'
  BY DEF Culprit, Place
<1>7. Views(r)'
  BY DEF Views, Place, ArrivedIn, Join, NoView
<1> QED
  BY <1>1, <1>2, <1>3, <1>4, <1>5, <1>6, <1>7

\* arrive at the barrier,
LEMMA LoadKeeps ==
    ASSUME TypeOK, Ending, NEW r \in 0 .. Phases, Round(r), NEW w \in Workers, Load(w)
    PROVE  (TypeOK /\ Ending /\ Round(r))'
<1> USE PhasesNat, GenModAssumption, WorkersAssumption DEF TypeOK, Round, Load, Goto, barrierVars, workerVars, PCs, Waiting, Dead, Ended, LoopHead
<1>1. TypeOK'
  <2>1. seen' \in [Workers -> [Workers -> Nat]]
    BY JoinView
  <2> QED
    BY <2>1
<1>2. Ending'
  BY DEF Ending
<1>3. (\A v \in Workers : Place(r, v) /\ Ticket(r, v))'
  BY DEF Place, Ticket
<1>4. LastArrival(r)'
  BY DEF LastArrival, Place
<1>5. Counter(r)'
  <2>1. ArrivedIn(r)' = ArrivedIn(r)
    BY DEF ArrivedIn, Place
  <2> QED
    BY <2>1 DEF Counter
<1>6. Culprit(r)'
  BY DEF Culprit, Place
<1>7. Views(r)'
  BY DEF Views, Place, ArrivedIn, Join, NoView
<1> QED
  BY <1>1, <1>2, <1>3, <1>4, <1>5, <1>6, <1>7

LEMMA FetchAddKeeps ==
    ASSUME TypeOK, Ending, NEW r \in 0 .. Phases, Round(r), NEW w \in Workers, FetchAdd(w)
    PROVE  (TypeOK /\ Ending /\ Round(r))'
<1> USE PhasesNat, GenModAssumption, WorkersAssumption DEF TypeOK, Round, FetchAdd, LastToArrive, Goto, barrierVars, workerVars, PCs, Waiting, Dead, Ended, LoopHead
<1>0. done[w] = r + 1
  BY DEF Place
<1>1. \A v \in Workers : pc[v] \notin {"reset", "publish"}
  BY DEF LastArrival
<1>2. arrived = Cardinality(ArrivedIn(r))
  BY <1>1 DEF Counter
<1>3. ArrivedIn(r)' = ArrivedIn(r) \union {w}
  BY <1>0 DEF ArrivedIn
<1>4. Cardinality(ArrivedIn(r)') = arrived + 1
  <2>1. w \notin ArrivedIn(r)
    BY DEF ArrivedIn
  <2>2. IsFiniteSet(ArrivedIn(r))
    BY ArrivedFinite
  <2> QED
    BY <2>1, <2>2, <1>2, <1>3, FS_AddElement
<1>5. arrived + 1 <= Parties /\ (arrived + 1 = Parties => ArrivedIn(r)' = Workers)
  <2>1. ArrivedIn(r)' \in SUBSET Workers
    BY <1>3 DEF ArrivedIn
  <2>2. /\ Cardinality(ArrivedIn(r)') <= Parties
        /\ Cardinality(ArrivedIn(r)') = Parties => ArrivedIn(r)' = Workers
    BY <2>1, WorkersAssumption, FS_Subset DEF Parties
  <2> QED
    BY <2>2, <1>4
<1>6. seen'[w] \in [Workers -> Nat] /\ \A v \in Workers : seen'[w][v] >= seen[w][v] /\ seen'[w][v] >= arrivedView[v]
  BY JoinView
<1>7. TypeOK'
  <2>1. seen' \in [Workers -> [Workers -> Nat]]
    BY JoinView
  <2>2. arrived' \in 0 .. Parties
    BY <1>5, PartiesNat
  <2> QED
    BY <2>1, <2>2, <1>6
<1>8. Ending'
  BY DEF Ending
<1>9. (\A v \in Workers : Place(r, v) /\ Ticket(r, v))'
  BY DEF Place, Ticket
<1>10. LastArrival(r)'
  <2>1. CASE arrived + 1 = Parties
    <3>1. ArrivedIn(r) \union {w} = Workers
      BY <2>1, <1>3, <1>5
    <3>2. \A v \in Workers : v # w => v \in ArrivedIn(r) /\ pc[v] \notin {"reset", "publish"}
      BY <3>1, <1>1
    <3> QED
      BY <3>2, <1>0 DEF LastArrival, ArrivedIn
  <2>2. CASE arrived + 1 # Parties
    BY <2>2, <1>1 DEF LastArrival
  <2> QED
    BY <2>1, <2>2
<1>11. Counter(r)'
  BY <1>1, <1>4 DEF Counter
<1>12. Culprit(r)'
  BY DEF Culprit, Place
<1>13. Views(r)'
  <2>1. \A v \in ArrivedIn(r) \union {w} : seen'[w][v] >= r + 1
    <3>1. \A v \in ArrivedIn(r) : arrivedView[v] >= r + 1
      BY <1>1 DEF Views
    <3>2. seen[w][w] >= r + 1
      BY <1>0 DEF Views
    <3>3. ASSUME NEW v \in ArrivedIn(r) \union {w} PROVE seen'[w][v] >= r + 1
      <4>1. /\ v \in Workers
            /\ arrivedView[v] \in Nat /\ seen[w][v] \in Nat /\ seen'[w][v] \in Nat
            /\ seen'[w][v] >= seen[w][v] /\ seen'[w][v] >= arrivedView[v]
        BY <1>6 DEF ArrivedIn
      <4> HIDE DEF FetchAdd
      <4>2. CASE v = w
        BY <4>1, <4>2, <3>2
      <4>3. CASE v \in ArrivedIn(r)
        BY <4>1, <4>3, <3>1
      <4> QED
        BY <4>2, <4>3
    <3> QED
      BY <3>3
  <2>2. pc'[w] = "reset" => \A v \in Workers : seen'[w][v] >= r + 1
    BY <2>1, <1>3, <1>5
  <2>3. \A v \in Workers : seen'[v][v] >= done'[v]
    <3>1. ASSUME NEW v \in Workers PROVE seen'[v][v] >= done[v]
      <4>1. CASE v = w
        <5>1. seen[w][w] >= done[w] /\ seen'[w][w] >= seen[w][w]
          BY <1>6 DEF Views
        <5>2. seen[w][w] \in Nat /\ done[w] \in Nat
          OBVIOUS
        <5>3. seen'[w][w] \in Nat
          BY <1>6
        <5> QED
          BY <4>1, <5>1, <5>2, <5>3
      <4>2. CASE v # w
        BY <4>2 DEF Views
      <4> QED
        BY <4>1, <4>2
    <3> QED
      BY <3>1
  <2> QED
    BY <2>1, <2>2, <2>3, <1>1, <1>3 DEF Views
<1> QED
  BY <1>7, <1>8, <1>9, <1>10, <1>11, <1>12, <1>13

\* reset its counter,
LEMMA ResetKeeps ==
    ASSUME TypeOK, Ending, NEW r \in 0 .. Phases, Round(r), NEW w \in Workers, Reset(w)
    PROVE  (TypeOK /\ Ending /\ Round(r))'
<1> USE PhasesNat, GenModAssumption, WorkersAssumption DEF TypeOK, Round, Reset, Goto, barrierVars, workerVars, PCs, Waiting, Dead, Ended, LoopHead
<1>1. TypeOK'
  BY PartiesNat DEF NoView
<1>2. Ending'
  BY DEF Ending
<1>3. (\A v \in Workers : Place(r, v) /\ Ticket(r, v))'
  BY DEF Place, Ticket
<1>4. LastArrival(r)'
  BY DEF LastArrival, Place
<1>5. Counter(r)'
  <2>1. ArrivedIn(r)' = ArrivedIn(r)
    BY DEF ArrivedIn, Place
  <2> QED
    BY <2>1 DEF Counter
<1>6. Culprit(r)'
  BY DEF Culprit, Place
<1>7. Views(r)'
  BY DEF Views, Place, ArrivedIn, Join, NoView
<1> QED
  BY <1>1, <1>2, <1>3, <1>4, <1>5, <1>6, <1>7

\* wait, look at the flag,
LEMMA SpinKeeps ==
    ASSUME TypeOK, Ending, NEW r \in 0 .. Phases, Round(r), NEW w \in Workers, Spin(w)
    PROVE  (TypeOK /\ Ending /\ Round(r))'
<1> USE PhasesNat, GenModAssumption, WorkersAssumption DEF TypeOK, Round, Spin, Goto, barrierVars, workerVars, PCs, Waiting, Dead, Ended, LoopHead
<1>1. TypeOK'
  <2>1. seen' \in [Workers -> [Workers -> Nat]]
    BY JoinView
  <2> QED
    BY <2>1
<1>2. Ending'
  BY DEF Ending
<1>3. (\A v \in Workers : Place(r, v) /\ Ticket(r, v))'
  BY DEF Place, Ticket
<1>4. LastArrival(r)'
  BY DEF LastArrival, Place, Ticket
<1>5. Counter(r)'
  <2>1. ArrivedIn(r)' = ArrivedIn(r)
    BY DEF ArrivedIn, Place, Ticket
  <2> QED
    BY <2>1 DEF Counter
<1>6. Culprit(r)'
  BY DEF Culprit, Place
<1>7. Views(r)'
  BY DEF Views, Place, ArrivedIn, Join, NoView
<1> QED
  BY <1>1, <1>2, <1>3, <1>4, <1>5, <1>6, <1>7

LEMMA CheckKeeps ==
    ASSUME TypeOK, Ending, NEW r \in 0 .. Phases, Round(r), NEW w \in Workers, Check(w)
    PROVE  (TypeOK /\ Ending /\ Round(r))'
<1> USE PhasesNat, GenModAssumption, WorkersAssumption DEF TypeOK, Round, Check, AfterPoison, Goto, barrierVars, workerVars, PCs, Waiting, Dead, Ended, LoopHead
<1>1. TypeOK'
  BY SMTT(20)
<1>2. Ending'
  BY DEF Ending
<1>3. (\A v \in Workers : Place(r, v) /\ Ticket(r, v))'
  BY DEF Place, Ticket
<1>4. LastArrival(r)'
  BY DEF LastArrival, Place
<1>5. Counter(r)'
  <2>1. ArrivedIn(r)' = ArrivedIn(r)
    BY DEF ArrivedIn, Place
  <2> QED
    BY <2>1 DEF Counter
<1>6. Culprit(r)'
  BY DEF Culprit, Place
<1>7. Views(r)'
  BY DEF Views, Place, ArrivedIn, Join, NoView
<1> QED
  BY <1>1, <1>2, <1>3, <1>4, <1>5, <1>6, <1>7

\* raise it when they panic,
LEMMA PoisonKeeps ==
    ASSUME TypeOK, Ending, NEW r \in 0 .. Phases, Round(r), NEW w \in Workers, Poison(w)
    PROVE  (TypeOK /\ Ending /\ Round(r))'
<1> USE PhasesNat, GenModAssumption, WorkersAssumption DEF TypeOK, Round, Poison, Goto, barrierVars, workerVars, PCs, Waiting, Dead, Ended, LoopHead
<1>1. TypeOK'
  BY SMTT(20)
<1>2. Ending'
  BY DEF Ending
<1>3. (\A v \in Workers : Place(r, v) /\ Ticket(r, v))'
  BY DEF Place, Ticket
<1>4. LastArrival(r)'
  BY DEF LastArrival, Place
<1>5. Counter(r)'
  <2>1. ArrivedIn(r)' = ArrivedIn(r)
    BY DEF ArrivedIn, Place
  <2> QED
    BY <2>1 DEF Counter
<1>6. Culprit(r)'
  BY DEF Culprit, Place
<1>7. Views(r)'
  BY DEF Views, Place, ArrivedIn, Join, NoView
<1> QED
  BY <1>1, <1>2, <1>3, <1>4, <1>5, <1>6, <1>7

\* and the scope ends.
LEMMA EndScopeKeeps ==
    ASSUME TypeOK, Ending, NEW r \in 0 .. Phases, Round(r), EndScope
    PROVE  (TypeOK /\ Ending /\ Round(r))'
<1> USE PhasesNat, GenModAssumption, WorkersAssumption DEF TypeOK, Round, EndScope, ScopeResult, Goto, barrierVars, workerVars, PCs, Waiting, Dead, Ended, LoopHead
<1>1. TypeOK'
  BY SMTT(20)
<1>2. Ending'
  BY DEF Ending
<1>3. (\A v \in Workers : Place(r, v) /\ Ticket(r, v))'
  BY DEF Place, Ticket
<1>4. LastArrival(r)'
  BY DEF LastArrival, Place
<1>5. Counter(r)'
  <2>1. ArrivedIn(r)' = ArrivedIn(r)
    BY DEF ArrivedIn, Place
  <2> QED
    BY <2>1 DEF Counter
<1>6. Culprit(r)'
  BY DEF Culprit, Place
<1>7. Views(r)'
  BY DEF Views, Place, ArrivedIn, Join, NoView
<1> QED
  BY <1>1, <1>2, <1>3, <1>4, <1>5, <1>6, <1>7
\* Publish is the one step that takes everyone to the next round.
LEMMA PublishAdvances ==
    ASSUME TypeOK, Ending, NEW r \in 0 .. Phases, Round(r), NEW w \in Workers, Publish(w)
    PROVE  r + 1 \in 0 .. Phases /\ (TypeOK /\ Ending /\ Round(r + 1))'
<1> USE PhasesNat, GenModAssumption, WorkersAssumption DEF TypeOK, Round, Publish, Goto, barrierVars, workerVars, PCs, Waiting, Dead, Ended, LoopHead
<1>0. gen[w] = generation /\ \A v \in Workers : done[v] = r + 1 /\ (v # w => pc[v] \in {"spin", "check"})
  <2>1. \A v \in Workers : done[v] = r + 1 /\ (v # w => pc[v] \in {"spin", "check"} \union Dead)
    BY DEF LastArrival
  <2>2. \A v \in Workers : pc[v] \notin Dead
    BY <2>1 DEF Culprit
  <2> QED
    BY <2>1, <2>2 DEF Ticket
<1>1. r + 1 \in 0 .. Phases
  BY <1>0
<1>2. generation' \in 0 .. GenMod - 1 /\ generation' # generation
  BY <1>0 DEF NextGen
<1>3. TypeOK'
  BY <1>2
<1>4. Ending'
  BY DEF Ending
<1>5. (\A v \in Workers : Place(r + 1, v) /\ Ticket(r + 1, v))'
  <2>1. \A v \in Workers : Place(r + 1, v)'
    BY <1>0, <1>1 DEF Place
  <2>2. \A v \in Workers : Ticket(r + 1, v)'
    BY <1>0, <1>2 DEF Ticket
  <2> QED
    BY <2>1, <2>2
<1>6. LastArrival(r + 1)'
  BY <1>0 DEF LastArrival
<1>7. Counter(r + 1)'
  <2>1. arrived' = 0
    BY DEF Counter
  <2>2. ArrivedIn(r + 1)' = {}
    BY <1>0 DEF ArrivedIn
  <2>3. \A v \in Workers : pc'[v] # "publish"
    BY <1>0
  <2> QED
    BY <2>1, <2>2, <2>3, FS_EmptySet DEF Counter
<1>8. Culprit(r + 1)'
  <2>1. ~poisoned
    BY <1>0 DEF Culprit
  <2> QED
    BY <1>0, <2>1 DEF Culprit
<1>9. Views(r + 1)'
  <2>1. \A v \in Workers : seen[w][v] >= r + 1
    BY DEF Views
  <2> QED
    BY <1>0, <2>1 DEF Views, ArrivedIn
<1> QED
  BY <1>1, <1>3, <1>4, <1>5, <1>6, <1>7, <1>8, <1>9

-----------------------------------------------------------------------------
\* The invariant is inductive.
LEMMA InitIInv == Init => IInv
<1> SUFFICES ASSUME Init PROVE IInv
  OBVIOUS
<1> USE PhasesNat, GenModAssumption, WorkersAssumption, PartiesNat DEF Init, NoView, PCs, Dead
<1>1. TypeOK
  <2>1. 0 \in 0 .. Phases /\ 0 \in 0 .. Parties /\ 0 \in 0 .. GenMod - 1
    OBVIOUS
  <2>2. pc \in [Workers -> PCs] /\ seen \in [Workers -> [Workers -> Nat]]
    OBVIOUS
  <2> QED
    BY <2>1, <2>2 DEF TypeOK
<1>2. Ending
  BY DEF Ending
<1>3. Round(0)
  <2>1. ArrivedIn(0) = {}
    BY DEF ArrivedIn
  <2>2. Counter(0)
    BY <2>1, FS_EmptySet DEF Counter
  <2>3. \A w \in Workers : Place(0, w) /\ Ticket(0, w)
    BY DEF Place, Ticket
  <2>4. LastArrival(0) /\ Culprit(0)
    BY DEF LastArrival, Culprit
  <2>5. Views(0)
    BY DEF Views, ArrivedIn
  <2> QED
    BY <2>2, <2>3, <2>4, <2>5 DEF Round
<1> QED
  BY <1>1, <1>2, <1>3 DEF IInv

\* Every step keeps the invariant,
LEMMA StepIInv == IInv /\ [Next]_vars => IInv'
<1> SUFFICES ASSUME IInv, [Next]_vars PROVE IInv'
  OBVIOUS
<1>1. PICK r \in 0 .. Phases : Round(r)
  BY DEF IInv
<1>2. TypeOK /\ Ending
  BY DEF IInv
<1>3. ASSUME (TypeOK /\ Ending /\ Round(r))' PROVE IInv'
  BY <1>3 DEF IInv
<1>4. ASSUME NEW w \in Workers, Spawn(w) PROVE IInv'
  BY <1>1, <1>2, <1>3, <1>4, SpawnKeeps
<1>5. CASE SpawnFails
  BY <1>1, <1>2, <1>3, <1>5, SpawnFailsKeeps
<1>6. CASE StartOwn
  BY <1>1, <1>2, <1>3, <1>6, StartOwnKeeps
<1>7. CASE EndScope
  BY <1>1, <1>2, <1>3, <1>7, EndScopeKeeps
<1>8. ASSUME NEW w \in Workers, Compute(w) PROVE IInv'
  BY <1>1, <1>2, <1>3, <1>8, ComputeKeeps
<1>9. ASSUME NEW w \in Workers, ComputePanics(w) PROVE IInv'
  BY <1>1, <1>2, <1>3, <1>9, ComputePanicsKeeps
<1>10. ASSUME NEW w \in Workers, Load(w) PROVE IInv'
  BY <1>1, <1>2, <1>3, <1>10, LoadKeeps
<1>11. ASSUME NEW w \in Workers, FetchAdd(w) PROVE IInv'
  BY <1>1, <1>2, <1>3, <1>11, FetchAddKeeps
<1>12. ASSUME NEW w \in Workers, Reset(w) PROVE IInv'
  BY <1>1, <1>2, <1>3, <1>12, ResetKeeps
<1>13. ASSUME NEW w \in Workers, Publish(w) PROVE IInv'
  <2>1. r + 1 \in 0 .. Phases /\ (TypeOK /\ Ending /\ Round(r + 1))'
    BY <1>1, <1>2, <1>13, PublishAdvances
  <2> QED
    BY <2>1 DEF IInv
<1>14. ASSUME NEW w \in Workers, Spin(w) PROVE IInv'
  BY <1>1, <1>2, <1>3, <1>14, SpinKeeps
<1>15. ASSUME NEW w \in Workers, Check(w) PROVE IInv'
  BY <1>1, <1>2, <1>3, <1>15, CheckKeeps
<1>16. ASSUME NEW w \in Workers, Poison(w) PROVE IInv'
  BY <1>1, <1>2, <1>3, <1>16, PoisonKeeps
<1>17. CASE Over \/ UNCHANGED vars
  <2>1. UNCHANGED vars
    BY <1>17 DEF Over
  <2> USE <2>1 DEF vars, workerVars, barrierVars
  <2>2. TypeOK'
    BY <1>2 DEF TypeOK
  <2>3. Ending'
    BY <1>2 DEF Ending
  <2>4. ArrivedIn(r)' = ArrivedIn(r)
    BY DEF ArrivedIn
  <2>5. (\A v \in Workers : Place(r, v) /\ Ticket(r, v))'
    BY <1>1 DEF Round, Place, Ticket
  <2>6. (LastArrival(r) /\ Counter(r) /\ Culprit(r))'
    BY <1>1, <2>4 DEF Round, LastArrival, Counter, Culprit
  <2>7. Views(r)'
    BY <1>1, <2>4 DEF Round, Views
  <2> QED
    BY <1>3, <2>2, <2>3, <2>5, <2>6, <2>7 DEF Round
<1> QED
  BY <1>4, <1>5, <1>6, <1>7, <1>8, <1>9, <1>10, <1>11, <1>12, <1>13, <1>14, <1>15, <1>16, <1>17
  DEF Next, MainStep, WorkerStep, Wait

\* and so it always holds.
LEMMA Invariance == Spec => []IInv
BY InitIInv, StepIInv, PTL DEF Spec

-----------------------------------------------------------------------------
(* The barrier's counter and every worker's place stay within their types: *)
(* no arrival is counted twice and no worker computes a share too many.    *)
THEOREM TypeCorrect == Spec => []TypeOK
<1>1. IInv => TypeOK
  BY DEF IInv
<1> QED
  BY <1>1, Invariance, PTL

(* No two workers are inside shares of different phases, with any number   *)
(* of workers and whichever of them panic.                                 *)
THEOREM PhasesSeparated == Spec => []PhaseSeparation
<1>1. IInv => PhaseSeparation
  BY DEF IInv, Round, Place, PhaseSeparation
<1> QED
  BY <1>1, Invariance, PTL

(* The happens-before promise of SpinBarrier, from the orderings the code  *)
(* gives its atomics.                                                      *)
THEOREM VisibleAfterWait == Spec => []WritesVisible
<1>1. IInv => WritesVisible
  BY DEF IInv, Round, Place, Views, WritesVisible
<1> QED
  BY <1>1, Invariance, PTL

(* A panic takes the whole call down.                                      *)
THEOREM PanicStopsAll == Spec => []NoFinishAfterPanic
<1>1. IInv => NoFinishAfterPanic
  <2> SUFFICES ASSUME IInv, Phases > 0, NEW v \in Workers, NEW w \in Workers,
                      pc[v] \in Dead \union {"refused"}
               PROVE  pc[w] # "finished"
    BY DEF NoFinishAfterPanic
  <2>1. PICK r \in 0 .. Phases : Round(r)
    BY DEF IInv
  <2>2. pc[v] \in Dead => r < Phases
    BY <2>1, PhasesNat DEF Round, Culprit
  <2>3. pc[v] = "refused" => r = 0
    BY <2>1 DEF Round, Place
  <2>4. pc[w] = "finished" => r = Phases
    BY <2>1 DEF Round, Place
  <2> QED
    BY <2>2, <2>3, <2>4, PhasesNat DEF Dead
<1> QED
  BY <1>1, Invariance, PTL

(* Every call implements Lockstep.                                         *)
THEOREM ImplementsLockstep == Spec => LockstepSpec
<1>1. Init => LS!Init
  BY DEF Init, LS!Init
<1>2. IInv /\ [Next]_vars => [LS!Next]_(LS!vars)
  <2> SUFFICES ASSUME IInv, [Next]_vars PROVE [LS!Next]_(LS!vars)
    OBVIOUS
  <2>1. PICK r \in 0 .. Phases : Round(r)
    BY DEF IInv
  <2>2. ASSUME NEW w \in Workers, Compute(w) PROVE LS!Compute(w)
    <3>1. outcome = "running"
      BY <2>2 DEF IInv, Ending, Compute, Ended
    <3>2. done[w] = r /\ r < Phases /\ \A v \in Workers : done[v] \in {r, r + 1}
      BY <2>1, <2>2 DEF Round, Place, Compute
    <3> QED
      BY <2>2, <3>1, <3>2, PhasesNat DEF LS!Compute, Compute
  <2>3. CASE EndScope
    <3>1. CASE \A w \in Workers : pc[w] = "finished"
      <4>1. \A w \in Workers : done[w] = Phases
        BY <2>1, <3>1 DEF Round, Place
      <4> QED
        BY <2>3, <3>1, <4>1 DEF EndScope, ScopeResult, LS!Next, LS!Return, LS!vars, workerVars
    <3>2. CASE ~\A w \in Workers : pc[w] = "finished"
      BY <2>3, <3>2 DEF EndScope, ScopeResult, LS!Next, LS!Panic, LS!vars, workerVars
    <3> QED
      BY <3>1, <3>2
  <2>4. ASSUME UNCHANGED <<done, outcome>> PROVE [LS!Next]_(LS!vars)
    BY <2>4 DEF LS!vars
  <2>5. ASSUME NEW w \in Workers,
               Spawn(w) \/ ComputePanics(w) \/ Wait(w) \/ Poison(w)
        PROVE  UNCHANGED <<done, outcome>>
    BY <2>5 DEF Spawn, ComputePanics, Wait, Load, FetchAdd, Reset, Publish, Spin, Check, Poison
  <2>6. SpawnFails \/ StartOwn \/ Over \/ UNCHANGED vars => UNCHANGED <<done, outcome>>
    BY DEF SpawnFails, StartOwn, Over, vars, workerVars
  <2> QED
    BY <2>2, <2>3, <2>4, <2>5, <2>6 DEF Next, MainStep, WorkerStep, LS!Next
<1> QED
  BY <1>1, <1>2, Invariance, PTL DEF Spec, LockstepSpec, LS!Spec
=============================================================================
