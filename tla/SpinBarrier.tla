---------------------------- MODULE SpinBarrier ----------------------------
(***************************************************************************)
(* One call of Partitioned::run_ticks (m4t1d/src/sched/partitioned.rs):    *)
(* the workers it spawns, the work loop of each one and the SpinBarrier    *)
(* they share.  A step is one access to an atomic of the barrier, or the   *)
(* computation of one worker's share of a phase, so that every             *)
(* interleaving of those accesses is a behaviour.                          *)
(*                                                                         *)
(* The orderings of the atomics are modelled by views: seen[w][v] is how   *)
(* many shares of v have writes that happen before what w does next.  A    *)
(* store publishes a view with the value when it is a Release, a load      *)
(* takes over the published view when it is an Acquire, and a Relaxed      *)
(* access does neither.                                                    *)
(***************************************************************************)
EXTENDS Naturals, FiniteSets

CONSTANTS Workers,       \* the threads of the call
          Main,          \* the caller, worker 0
          Ticks,         \* ticks in the call
          GenMod,        \* values of the usize generation before it wraps
          SpawnMayFail   \* whether the system can refuse to create a thread

ASSUME WorkersAssumption == IsFiniteSet(Workers) /\ Main \in Workers
ASSUME TicksAssumption == Ticks \in Nat
ASSUME GenModAssumption == GenMod \in Nat /\ GenMod >= 2
ASSUME SpawnAssumption == SpawnMayFail \in BOOLEAN

VARIABLES pc,              \* where each worker stands
          done,            \* done[w]: shares w has computed
          gen,             \* gen[w]: the generation w read on entering wait
          seen,            \* seen[w][v]: shares of v visible to w
          arrived,         \* the barrier's arrival counter ...
          arrivedView,     \* ... and the view published with its value
          generation,      \* the barrier's generation ...
          generationView,  \* ... and the view published with its value
          poisoned,        \* the barrier's poison flag
          outcome          \* how the call ended

workerVars  == <<pc, done, gen, seen>>
barrierVars == <<arrived, arrivedView, generation, generationView, poisoned>>
vars        == <<workerVars, barrierVars, outcome>>

-----------------------------------------------------------------------------
Phases  == 2 * Ticks          \* phase A and phase B of each tick
Parties == Cardinality(Workers)

NoView == [v \in Workers |-> 0]

\* Mutant: every access of the barrier is Relaxed.
JoinRelaxed(f, g) == f

\* What is visible to f after an Acquire of a value published with view g.
Join(f, g) == [v \in Workers |-> IF f[v] >= g[v] THEN f[v] ELSE g[v]]

\* Mutant: the addition does not wrap.
NextGenUnbounded(g) == g + 1

\* generation.wrapping_add(1)
NextGen(g) == IF g + 1 = GenMod THEN 0 ELSE g + 1

\* The head of the loop over ticks and phases, after n shares.
LoopHead(n) == IF n = Phases THEN "finished" ELSE "share"

\* Mutant: one arrival too few opens the barrier.
LastToArriveEarly == arrived + 2 >= Parties

\* The fetch_add that makes the count complete
LastToArrive == arrived + 1 = Parties

\* Mutant: a waiter that finds the barrier poisoned leaves it and goes on.
AfterPoisonLeaves(w) == LoopHead(done[w])

\* Where the failed assertion of wait takes a worker
AfterPoison(w) == "unwind"

Waiting == {"load", "add", "reset", "publish", "spin", "check"}
Dead    == {"unwind", "panicked"}
Ended   == {"finished", "panicked", "refused"}
PCs     == {"spawning", "unborn", "share", "finished", "refused"} \union Waiting \union Dead

Goto(w, l) == pc' = [pc EXCEPT ![w] = l]

-----------------------------------------------------------------------------
Init ==
    /\ pc = [w \in Workers |-> IF w = Main THEN "spawning" ELSE "unborn"]
    /\ done = [w \in Workers |-> 0]
    /\ gen = [w \in Workers |-> 0]
    /\ seen = [w \in Workers |-> NoView]
    /\ arrived = 0
    /\ arrivedView = NoView
    /\ generation = 0
    /\ generationView = NoView
    /\ poisoned = FALSE
    /\ outcome = "running"

\* scope.spawn of one worker.
Spawn(w) ==
    /\ pc[Main] = "spawning"
    /\ pc[w] = "unborn"
    /\ Goto(w, LoopHead(0))
    /\ UNCHANGED <<done, gen, seen, barrierVars, outcome>>

\* scope.spawn panics in the caller, which holds no PoisonOnPanic guard yet.
\* "refused" is that caller, blocked at the end of the scope.
SpawnFails ==
    /\ SpawnMayFail
    /\ pc[Main] = "spawning"
    /\ \E w \in Workers : pc[w] = "unborn"
    /\ pc' = [w \in Workers |->
                IF w = Main \/ pc[w] = "unborn" THEN "refused" ELSE pc[w]]
    /\ UNCHANGED <<done, gen, seen, barrierVars, outcome>>

\* The caller starts work() on its own share.
StartOwn ==
    /\ pc[Main] = "spawning"
    /\ \A w \in Workers : pc[w] # "unborn"
    /\ Goto(Main, LoopHead(0))
    /\ UNCHANGED <<done, gen, seen, barrierVars, outcome>>

\* run_share to its end: every node of the share is written.
Compute(w) ==
    /\ pc[w] = "share"
    /\ done' = [done EXCEPT ![w] = @ + 1]
    /\ seen' = [seen EXCEPT ![w][w] = @ + 1]
    /\ Goto(w, "load")
    /\ UNCHANGED <<gen, barrierVars, outcome>>

\* A node's step panics: the guard of work() is dropped while unwinding.
ComputePanics(w) ==
    /\ pc[w] = "share"
    /\ Goto(w, "unwind")
    /\ UNCHANGED <<done, gen, seen, barrierVars, outcome>>

\* generation.load(Acquire) at the start of wait
Load(w) ==
    /\ pc[w] = "load"
    /\ gen' = [gen EXCEPT ![w] = generation]
    /\ seen' = [seen EXCEPT ![w] = Join(@, generationView)]
    /\ Goto(w, "add")
    /\ UNCHANGED <<done, barrierVars, outcome>>

\* arrived.fetch_add(1, AcqRel), and the test for the last arrival
FetchAdd(w) ==
    /\ pc[w] = "add"
    /\ arrived' = arrived + 1
    /\ seen' = [seen EXCEPT ![w] = Join(@, arrivedView)]
    /\ arrivedView' = seen'[w]
    /\ Goto(w, IF LastToArrive THEN "reset" ELSE "spin")
    /\ UNCHANGED <<done, gen, generation, generationView, poisoned, outcome>>

\* arrived.store(0, Relaxed)
Reset(w) ==
    /\ pc[w] = "reset"
    /\ arrived' = 0
    /\ arrivedView' = NoView
    /\ Goto(w, "publish")
    /\ UNCHANGED <<done, gen, seen, generation, generationView, poisoned, outcome>>

\* generation.store(_, Release), and return
Publish(w) ==
    /\ pc[w] = "publish"
    /\ generation' = NextGen(gen[w])
    /\ generationView' = seen[w]
    /\ Goto(w, LoopHead(done[w]))
    /\ UNCHANGED <<done, gen, seen, arrived, arrivedView, poisoned, outcome>>

\* generation.load(Acquire) in the loop of wait
Spin(w) ==
    /\ pc[w] = "spin"
    /\ seen' = [seen EXCEPT ![w] = Join(@, generationView)]
    /\ Goto(w, IF generation = gen[w] THEN "check" ELSE LoopHead(done[w]))
    /\ UNCHANGED <<done, gen, barrierVars, outcome>>

\* Mutant: the loop of wait does not look at the flag.
CheckNothing(w) ==
    /\ pc[w] = "check"
    /\ Goto(w, "spin")
    /\ UNCHANGED <<done, gen, seen, barrierVars, outcome>>

\* assert!(!poisoned.load(Relaxed))
Check(w) ==
    /\ pc[w] = "check"
    /\ Goto(w, IF poisoned THEN AfterPoison(w) ELSE "spin")
    /\ UNCHANGED <<done, gen, seen, barrierVars, outcome>>

\* The drop of PoisonOnPanic
Poison(w) ==
    /\ pc[w] = "unwind"
    /\ poisoned' = TRUE
    /\ Goto(w, "panicked")
    /\ UNCHANGED <<done, gen, seen, arrived, arrivedView, generation, generationView, outcome>>

\* Mutant: a caller that could not spawn its workers returns all the same.
ScopeResultUnchecked ==
    IF \E w \in Workers : pc[w] = "panicked" THEN "panicked" ELSE "returned"

ScopeResult == IF \A w \in Workers : pc[w] = "finished" THEN "returned" ELSE "panicked"

\* The end of the scope, once every thread in it ended: a panic of the caller
\* goes on, a panic of another worker becomes one of the caller at join.
EndScope ==
    /\ outcome = "running"
    /\ \A w \in Workers : pc[w] \in Ended
    /\ outcome' = ScopeResult
    /\ UNCHANGED <<workerVars, barrierVars>>

\* The call is over.
Over == outcome # "running" /\ UNCHANGED vars

Wait(w) == Load(w) \/ FetchAdd(w) \/ Reset(w) \/ Publish(w) \/ Spin(w) \/ Check(w)

WorkerStep(w) == Compute(w) \/ ComputePanics(w) \/ Wait(w) \/ Poison(w)

MainStep == (\E w \in Workers : Spawn(w)) \/ StartOwn \/ EndScope

Next == MainStep \/ SpawnFails \/ Over \/ \E w \in Workers : WorkerStep(w)

Spec == Init /\ [][Next]_vars

\* The operating system runs every runnable thread again and again (waiters
\* that spun long enough yield).
Fairness == WF_vars(MainStep) /\ \A w \in Workers : WF_vars(WorkerStep(w))

FairSpec == Spec /\ Fairness

-----------------------------------------------------------------------------
\* The counter never exceeds the parties, the generation wraps, and no worker
\* computes more shares than the call has.
TypeOK ==
    /\ pc \in [Workers -> PCs]
    /\ done \in [Workers -> 0 .. Phases]
    /\ gen \in [Workers -> 0 .. GenMod - 1]
    /\ seen \in [Workers -> [Workers -> Nat]]
    /\ arrived \in 0 .. Parties
    /\ arrivedView \in [Workers -> Nat]
    /\ generation \in 0 .. GenMod - 1
    /\ generationView \in [Workers -> Nat]
    /\ poisoned \in BOOLEAN
    /\ outcome \in {"running", "returned", "panicked"}

(* Two workers are never inside shares of different phases: phase A of     *)
(* step_a and phase B of step_b, which read what the other one writes in   *)
(* other workers' nodes, never overlap.                                    *)
PhaseSeparation ==
    \A v, w \in Workers :
        pc[v] = "share" /\ pc[w] = "share" => done[v] = done[w]

(* "Every write a thread makes before wait happens-before every read any   *)
(* participating thread makes after that wait returns": a worker inside    *)
(* a share, or past its last one, sees every share of the phases before,   *)
(* of every worker.                                                        *)
WritesVisible ==
    \A w \in Workers :
        pc[w] \in {"share", "finished"} => \A v \in Workers : seen[w][v] >= done[w]

(* A worker that panics takes the call down: no worker can finish its      *)
(* ticks once another one is unwinding, and none finishes when a thread    *)
(* could not be created.                                                   *)
NoFinishAfterPanic ==
    \A v, w \in Workers :
        Phases > 0 /\ pc[v] \in Dead \union {"refused"} => pc[w] # "finished"

(* Every call of run_ticks that can create its threads ends, by a return   *)
(* or by a panic: no worker waits for ever in the barrier, whichever       *)
(* worker panicked, and when.                                              *)
CallEnds == <>(outcome # "running" \/ pc[Main] = "refused")

(* The call computes the phases in lockstep and returns exactly when every *)
(* worker has computed every share.                                        *)
LS == INSTANCE Lockstep
LockstepSpec == LS!Spec
=============================================================================
