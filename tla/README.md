# TLA+ models of the SIT315 programs

The repository holds the work of a unit on concurrent and distributed
programming: some dozen programs, from an Arduino sketch to MPI and OpenCL
sorts, and one larger system, the traffic simulation `citysim` (m4t1d). This
directory models the ones whose difficulty is concurrency, order or failure,
checks the models with TLC on small instances and proves the results that
matter most with TLAPS for every instance.

Contents: the inventory, the modules and how they correspond to the code, what
each run shows and within which bounds, fairness, proofs, what is not modelled,
and the plan.

## 1. Inventory

### citysim (`m4t1d/src`)

A city is a grid of intersections ("nodes"). A node owns four approach links,
rings of cars, a signal and counters (`city.rs`: `City`, `NodeMeta`). A tick is
phase A for every node (`step_a`: divert blocked heads, move the cars of the
links, resolve the heads that ask to cross, put what crosses into the outbox)
and then phase B for every node (`step_b`: take arrivals from the neighbours'
outboxes, spawn, publish the entry gaps, advance the signal). The halo (outboxes
and gaps) is the only state one node writes and another one reads.

- *Engines* (`sched/`): `seq` runs the nodes in index order, `rayon` in any
  order, `partitioned` gives every thread a contiguous range of blocks and
  separates the phases with its own `SpinBarrier`; the GPU engine keeps the city in
  flat device arrays and puts kernels, one thread a node, on a stream. All promise
  identical results. Correct when phases never overlap, what a phase
  wrote is visible to the next, a panic of one thread ends the call, and the
  order of nodes in a phase has no effect.
- *City state*: correct when cars are conserved, never share a cell, keep their
  order, and a car handed over finds its landing cell free; signals must serve
  a red approach within the maximum green time.
- *Cuts* (`partitioned.rs`): which thread owns which blocks: equal counts, or
  equal cost with a climb that moves single cuts, again every so many calls.
  Correct when every node has one owner at every tick, ranges stay near the equal
  cost, and the climb ends.
- *Sensor writer* (`sensors.rs`, `main.rs`, the frame pool of `gpu/mod.rs`):
  main runs a window of ticks, sends the frame through a bounded channel to a
  writer thread that sums it, writes a row and confirms it. With `--pipeline`
  main goes on, without it main waits for the confirmation. Correct when every
  window is written once and in order, buffers are never lost, and a failing
  writer never leaves main waiting.
- *Checksum, compare, stats, parameters, Philox*: pure functions.

### Traffic simulator (`m2t3d/traffic_sim.cpp`)

main probes the first and last lines for the hours the file covers and then counts
it alone (mode seq) or in parallel. Producers read byte ranges of one file, parse
lines into blocks of records and push them through a mutex and two condition
variables (`BoundedBuffer`) to consumers, which add the records to shared or
private totals. A refused line stops the run (`RunContext::fail`,
`BoundedBuffer::stop`). A monitor thread prints progress. main joins, closes
the buffer, ranks the lights of each hour and reports; mode gen writes such a file.
Correct when each record counts once, whichever interleaving, split of the file
and summary mode, the ranking is the file's, and every run ends.

### MapReduce over MPI (`m3t3d/traffic_mr.cpp`)

Every rank maps its byte range of the file (`forEachLine`), a partitioner
chooses the reducer of every key, an all-to-all shuffles, each rank reduces and
the root gathers, ranks and reports, with traces, statistics and a shuffle matrix
on request. Correct when every key has one reducer, the report equals a
sequential count, traces and statistics say the same, the ranks agree before each
collective whether to go on, and so none waits in a collective that another one left.
Its test files come from `traffic_gen_skew.cpp`, whose keys are uneven on purpose:
correct when the incident hour holds the share asked for.

### Parallel quicksorts (`m2t2c`)

One Hoare partition in three programs: a loop that recurses into the smaller
half, threads forked to a fixed depth, and OpenMP tasks. The array is shared and
unlocked. Correct when calls that run at once share no element, the unchecked
scans stay in their range, the result is the input in order once all children
have joined, and threads and stack are bounded.

### Distributed sorts (`m3t2c`)

PSRS over MPI (`psrs.h`): scatter, local sort, samples, pivots, an exchange of
buckets, merge, gather, between barriers; `quicksort_mpi` sorts a chunk with the
quicksort, `quicksort_mpi_ocl` on a device with a bitonic network (`bitonic.cl`) on
an array padded to a power of two. Correct when the output is a sorted permutation
of the input whatever the duplicates and the sizes of the parts, the exchange
leaves the parts in rank order, and a failing device ends the job everywhere.

### Room monitor (`task-m1/taskM1.cpp`)

Three interrupt handlers set flags; the super loop drains them, debounces the
buttons and drives the alarm. Correct when no announced change is lost and
the alarm follows what the header says.

### Exercises

Vector and matrix programs with threads, OpenMP, MPI and OpenCL: data-parallel
loops over disjoint ranges, one order of blocking collectives. Nothing in them
interleaves in a way a model would reveal.

### What is hard

Each place is listed under `hazards` in PROJECT.json, with its line: the order
of two stores in the barrier; a cut that falls on the one before it; scans without
a bound; a panic, failed spawn, refused line or failing
disk while others wait; notifications sent after the mutex is released; a
neighbour's link that was measured a phase earlier; a car between two owners; a
`u16` that saturates below the limit it is compared with; a line that straddles two
byte ranges; equal keys on both sides of a pivot; padding among the keys; interrupts
between any two statements.

## 2. Modules

| module | models | steps |
|---|---|---|
| `SpinBarrier` | one call of `Partitioned::run_ticks` | one access to an atomic of the barrier, or one share |
| `Lockstep` | what `run_ticks` promises | one share; return; panic |
| `SpinBarrierProofs` | proofs about both | |
| `Repartition` | the cuts over a sequence of `run_ticks` calls | one turn of a loop of `cost_cuts` or `phase_cuts`, or the rest of a call |
| `RepartitionProofs` | proofs about it | |
| `CityTick` | city state, tick, window, snapshot | `step_a` or `step_b` of one node |
| `CityTickProofs` | proofs about it | |
| `DataLemmas` | lemmas about sums, recursive functions, folds, orders and shares | |
| `Signal`, `SignalTimer` | one actuated signal; its proofs are in `CityTickProofs` | one tick |
| `SensorPipeline`, `SensorPipelineProofs` | window loop, channel, writer, frame pool; proofs | one call on the channel, the pool or the file |
| `GpuTick` | the GPU engine: device arrays, kernels, stream | one thread of a kernel, one copy, one call of the host |
| `TrafficFile` | lines, calendar, probe, byte ranges, ranking, generator | operators |
| `TrafficPipeline`, `TrafficPipelineProofs` | main, producers, buffer, consumers, monitor; proofs | one critical section, notification or record |
| `SkewedFile` | the file of traffic_gen_skew | operators |
| `CountOnce` | what the pipeline promises | one record; report; abort |
| `ByteRanges` | `forEachLine`: the lines of a byte range | one read or one line, in a recursive function |
| `KeyTotals` | combiner, merge, totals, candidates, ranking, report and trace text | operators |
| `Partitioner` | the owners of the hours under each partition | operators |
| `MapReduce`, `MapReduceProofs` | the ranks of an MPI job, from the command line to finalize; proofs | one collective, or a rank's work between two |
| `Quicksort`, `QuicksortProofs` | the calls of `quicksort` on one array, in three programs; proofs | one round of a partition, one inserted key, one split or join |
| `Bitonic` | the network: work-items, padding, the pairs of a pass | operators |
| `Psrs` | the ranks of a distributed sort, and their devices | a rank's work between two waits, or one work-item |
| `SecurityMonitor` | handlers, setup, super loop; its proof is in `SensorPipelineProofs` | one handler, or the loop up to its next shared access |

`MC*` modules give TLC its instances. A definition whose comment starts with
"Mutant:" is never used by a specification: it is a plausible mistake in the
definition that follows it, and PROJECT.json lists which property catches it.

**SpinBarrier.** `pc` is where a worker stands; `Load`, `FetchAdd`, `Reset`,
`Publish`, `Spin` and `Check` are the atomics of `wait` in their order,
`Compute` is `run_share`, `Poison` the drop of the guard, `Spawn`, `SpawnFails`,
`StartOwn` and `EndScope` the scope in `run_ticks`. Memory orderings are views:
`seen[w][v]` counts the shares of v whose writes happen before w's next step; a
Release store publishes the view, an Acquire load joins it, a Relaxed access
does neither. A `Reset` stores a fresh (empty) view, as a Relaxed store
ends the release sequence of the counter. Generation and wrap: modulo `GenMod`.

**Lockstep** is refined by SpinBarrier with `done` and `outcome` as they are and
two phases a tick.

**Repartition.** A cost vector is its prefix sums, one per phase, and `cuts` a
function from 0. `CutByCost`, `TakeBlock`, `PushCut` and `PushLast` are the loops
of `cost_cuts`; `StartClimb`, `MoveCut`, `LeaveCut`, `NextPass` and `EndClimb` those
of `phase_cuts`, where a move that is undone leaves no trace; `Keep`, `CutEqually`
and `EndClimb` adopt and start the call, with `moved_blocks`. What the workers do is
SpinBarrier's; here `RunShares` leaves behind the block times, any of a set, that
the next estimate may use. `--rebalance-every` and the estimate are chosen at the
start. The reset of the block times comes before the workers start, as in the code.

**CityTick.** `road[n][d]` is the ring of a link from its head, `pending` the
nodes a phase has not run yet, so that every order of the nodes is a behaviour;
that a phase ends before the next starts is what SpinBarrier establishes.
`AfterA` and `AfterB` translate `step_a` and `step_b` with `divert`,
`head_extra`, `advance_link`, `resolve`, `route_turn` and `next_signal`. Draws of
the random generator (brake, spawn, turn) are free choices: each property holds
for every generator. Timed events only change thresholds and are covered by
those choices. `Resume` is a run that saves its state and another that loads it.

**SensorPipeline.** `options` holds `--pipeline`, whether a file is written, and
whether the frames come from the GPU engine's pool; it never changes. Main:
`RunWindow` (with `FramePool::take` on the GPU), `Send`, `Wait`, `Close`,
`Join`, and `RunFails`, an error in a window that returns without joining the
writer. Writer: `Open`, `Recv`, `Write`, `DropFrame`, `Confirm`, `Flush`, each of
which may fail where the code's call can; `Leave` drops the writer's ends of
both channels and the frames still queued, whose `Drop` gives their buffers back.

**GpuTick.** The variables are the arrays of `gpu/mod.rs`: `cars[n][d][s]` is a
slot of a ring with its start in `meta`, an outbox slot without its valid flag is
empty. `stream` holds the commands that have not finished and `threads` the nodes
the first of them still has to run: the threads of a kernel run in any order and
the next kernel waits for all. `RunTicks`, `Harvest` and `Census` are the host's
calls and what they enqueue; a step of a thread is the whole body of the kernel
for its node. `CitySpec` says that the arrays, read as rings and mapped to
CityTick's `road`, outbox and counters, take CityTick's steps or none, and that
the copied frames and reduced totals are those of the state.

**TrafficFile, TrafficPipeline.** A file is its lines, each with a length in bytes
and a text (a record with its date, light and cars, a blank line, or junk), and
whether a newline ends the last one. `run` is the file, the options and the faults of
one run, chosen at the start, and `input` what `probeFile` and the options make of
it. `Reject` is main giving up before a thread starts; `CountLine` is mode seq;
`Monitor` runs until main stops it. A critical section of the buffer's mutex is one
step; `notFull` and `notEmpty` are the threads parked on the condition variables,
notifications are steps of their own since the code sends them after the unlock, and
waits may end spuriously. A record is the number of its line, and a total is the bag
of records added to it: equal bags have equal sums. Failing to open the file
(`broken`) takes the same `fail()` as a refused line; `unreadable` lines are those
the disk no longer gives. Lengths of a few bytes stand for real ones: what matters is
where a range's first byte falls in a line.

**SkewedFile** is the second writer of such files: the lights that report in an hour,
the temporary counters of the incident, and the file of both. Its lights are not
contiguous and its last line need not hold the highest one, which is why the
simulator reads it with `--lights MaxLights` and refuses it otherwise.

**CountOnce** is refined with the totals over all arrays as the abstract tally.

**ByteRanges, KeyTotals, Partitioner, MapReduce.** A file is its size and its newlines;
`Want`, `Hand` and `Refill` are the read and the two ends of the loops of
`forEachLine`. A rank's work between two collectives is one step (`Map` and
`Combine` are the two halves of `mapRange`), and a collective is a step of all
ranks, possible once each of them stands before it (`Open`, `Agree`, `Weigh`,
`TraceMap`, `Shuffle`, `TraceReduce`, `Gather`, `Verify`, `Finish`); a rank that never comes leaves the
others there. `fatal` ends every rank from any place, on a refused line, a failed
read or lack of memory. `mix64` is an arbitrary function of the job. Sums
and counts have no width: a total would need 2^64 cars to wrap. A heap is the set
of totals in it, since the lights of one hour are distinct by then. `Reduce` takes
the reduce trace before it merges the runs where they lie, as the code does: from
then on `received` is one run, and nothing tells who sent what. `Collect` gathers
the counters, and `printed` holds what rank 0 prints, without labels and columns.
A word that is no number ends every rank, since nothing catches what `std::stoi`
throws. The barriers that end a phase are part of the collective next to them.

**Quicksort.** A call is a path in the tree of calls (`<<0>>` the left half of the
first call, `<<1>>` the right one), with its range, depth and the state of its
partition. `Enter` picks the pivot and swaps it to the front, `SwapPair` is one
round of the two scans, `Split` the return of the partition and the start of one
half or, in a fork, of both; `CallRight` the second plain call, `Join` the join,
the taskwait or a return, `LoopOn` the sequential program's loop. A call in the
tree that is not waiting for another one is at work, and any of them may step
next: that is the freest schedule of threads, and OpenMP's queue a part of it.
A forked half and its caller's own half are both open, as they run at once.

**Psrs, Bitonic.** `done[r]` counts the stages rank r has finished: a barrier lets
it on when no rank has finished fewer, a collective when those it takes data from
have. What a rank hands to a collective stays in its variables until the others have
read it. A chunk is sorted in one step on the CPU (what a quicksort does is
Quicksort's) and on a device work-item by work-item, any of them next within a pass;
a device call may fail, which aborts the job. The exit codes, `Refused` settings and
repeated runs with their verification are in it.

**SecurityMonitor.** A pin is TRUE when low. The loop's steps end at its next
access to something a handler writes, so a handler comes between any two such
accesses. `Copy` is the masked section of `processPinChange`, `Process` the rest
of it with the two debounced buttons and the call of `evaluateAlarm`. The copy
is reset when the call ends, as it is local.

## 3. Runs

All twelve finish in about two minutes or less each with two workers, most in a few
seconds.

| run | question | instance and why it is enough |
|---|---|---|
| `barrier` | lockstep, visibility, panics, end of the call | 3 workers (the last arrival, an early one and one still in the round before), 2 ticks = 4 barriers, so that the generation (modulo 2) returns to its start twice; a panic in any share; any spawn refused |
| `repartition` | one worker a node, cuts near the equal cost, a climb that ends at a peak | 3 workers, 7 nodes in 4 blocks, the last one short; car counts 0 or 9 and step times 0 or 7, 1 or 3 on each block, so that there are free blocks, blocks heavier than a share, fewer heavy blocks than workers, and cuts that coincide; 3 calls with cuts kept, recut once a call and every second call |
| `pipeline` | each record once, ranked as the file says, no lost wakeup, end of the run | 2 producers, 2 consumers, capacity 1, and mode seq: files of up to four lines of 1 to 4 bytes, good, blank and refused, ended or not, so that the ranges meet at every place of a line and one may hold none; partial blocks, ties, capacity 0, private and shared totals, the progress monitor; files the probe or the options turn down, files that do not open, files of mode gen, files of traffic_gen_skew with the `--lights` they need; an ASSUME checks the incident's share for small networks; about 235,000 states |
| `pipeline_readerror` | "Every line is read exactly once" | violation: a read error is taken for the end of the range |
| `signal_u16` | a red approach is served within the maximum green time, with a maximum above the counter's limit | violation |
| `city_street` | cells, conservation, landing room, order of the nodes | 1 by 2 intersections, links of 3 cells, every car turns left or right, demand on two red approaches of one node, 3 cars, 5 ticks, 2-tick windows: a diversion, two heads for one port, a full target link, a light that changes and a snapshot all happen |
| `gpu_street` | the device arrays implement CityTick | the same street with links of 2 slots, so that rings wrap: 3 cars, 4 ticks, every order of the threads of a kernel |
| `sensors` | order and completeness of the output, buffers, end of the run | 5 windows through a channel of 2 and 2 buffers, all options, failures at any call; 5 exceeds what channel, hands and buffers hold together |
| `mapreduce` | each line read once, one reducer a key, the sequential count, an end on every rank | 3 ranks with chunks of 4 bytes and lines of at most 3: all files of up to three lines, from blank to over-long, ended or not, with refused lines, so that ranges begin and end everywhere and several may lie in one line; and files of 4 entries over 2 hours and 2 lights, one without cars, under every partition, with and without combiner and matrix, for 2 reducers and top 1 and for 3, top 2 and a trace; the command line, good and refused |
| `quicksort` | disjoint ranges, scans that stop, order kept between halves, sorted result, bounded threads and stack, an end | every array of 6 elements of 3 values, so with every pattern of duplicates; cutoff 2 instead of 32 and fork cutoff 2, so that calls fork, recurse plainly and insertion sort; 3 threads, fork depth 2; median of three and the last element, which needs the swap to the front |
| `psrs` | parts in rank order, the sorted data set, an end on every rank | 1 to 3 processes, equal and unequal chunks, all data sets of 4 or 5 keys for 2 processes and all contents of the chunks of 9 or 10 for 3, one value throughout among them; two runs of one job; 1 or 2 devices of up to 8 elements with the padding's value among the keys; settings the program refuses |
| `monitor` | no change lost, everything answered | 2 pins, clock modulo 2 with a window of 0, so that a press is sometimes let through and the clock wraps; status every 2 ticks |

Every module with variables has a type invariant TypeOK. It is an invariant of its
own where proofs begin with it (`barrier`), and elsewhere the first conjunct of an
invariant about the same state (ClimbEndsAtPeak, StateChecks, NoLostWakeup,
BuffersAccounted, LinesOnce, NoChangeLost, ScansStayInside, PartsInOrder);
SignalTimer's is proved inside `TimerInv`, and GpuTick's is part of `CitySpec`. `OutcomeExplained`, `OwnersSound` and
`ResourcesBounded` are two named parts each.

Bounds are constants: `GenMod`, `Ticks`, `MaxTick`, `MaxCars`, `ElapsedMax`,
`ClockMod`, `Windows`, `MaxEvery`, `MaxCalls`, `TailBytes`, `WordBits`, `MaxKey`.
`ElapsedMax`, `GenMod`, `ClockMod`, `WordBits` and `MaxKey` stand for 65535, 2^64, 2^32,
32 and INT32_MAX and keep the code's saturation, wrap or padding; only `MaxTick`,
`MaxCars` and `MaxCalls` cut behaviours off, and they bound a run's length and its
demand. `TailBytes` stands for the 4096 that `probeFile` reads at the end of a file.
In `Quicksort` `N` is the array and `InsertionCutoff` stands for 32.

### Fairness

- `SpinBarrier!Fairness`: every started thread runs again and again; waiters
  yield after spinning. `CallEnds` speaks of calls that create their threads.
  A refused spawn unwinds the caller before it holds a guard, and the
  scope then waits for workers that wait for a party that never comes; the safety
  properties cover that case too.
- `TrafficPipeline!Fairness`: weak fairness of each thread's own steps, the monitor
  among them, which main joins. A parked thread has none, so nothing but a notification ends its wait: spurious wakeups
  are possible and never relied on.
- `SensorPipeline!FairSpec`: both threads run; failures are never obliged.
- `Repartition!Spec`: the caller's thread runs and the workers' call ends, which is
  `CallEnds` of SpinBarrier. No caller is obliged to make another call.
- `Quicksort!Spec`: some call that can step does; which one is the scheduler's.
- `MapReduce!FairSpec`: every process runs, and a collective that all ranks called
  ends. A rank's own fairness is stated over its place alone (`Moves`): it leaves
  a place where it waits for nobody, which every such place allows. Failures are
  never obliged. Deadlock is not checked in this run, as its jobs end.
- `Psrs!Spec`: every process runs, the work-items of its device among its steps; a
  failing device is never obliged. Its jobs end too, so deadlock is not checked.
- `GpuTick` and `CityTick` state safety only and assume no fairness.
- `SecurityMonitor!FairSpec`: the loop runs between handlers and a pending pin
  change interrupt is served. Nothing says that pins rest, yet every flag is
  answered. Motion and timer may fire at any time or never.

### Findings

Two places where the code departs from what its documentation says, each a run
that expects a violation; PROJECT.json quotes the lines. They are the read error
in `producerThread` and the unbounded `--max-green` against a `u16`.

Smaller ones have no run:

- `poison` "makes every current and later `wait` panic" (partitioned.rs:80), but a
  waiter whose generation was released before tests the generation first and returns.
- `cost_cuts` aims at "k/parts of the total cost" (partitioned.rs:125) with the
  quotient rounded down, so that NearestBoundary and the theorem about it are stated
  with the rounded target, as their comments say.
- "Alarm condition: armed && (motion || doorOpen)" (taskM1.cpp:15), but the alarm is
  only evaluated on an event: arming with the door open raises none.
- `formatHour` of an hour before 1970 prints a negative hour of the day, as the
  remainder keeps its sign; nothing but the wording depends on it.

## 4. Proofs

`SpinBarrierProofs` assumes only the constants' assumptions: a finite set of
workers, any number of ticks, any generation modulus of at least 2. PhaseSeparation
is not inductive: it says nothing of waiters, the counter or the generation. The
invariant is `IInv`: types, how the call ended, and that there is a round r such
that `Round(r)`:

- every worker has computed r or r + 1 shares and stands where that allows (`Place`);
- a waiter with r + 1 shares holds the current generation and one with r an old
  one (`Ticket`), which is why a modulus of 2 is enough;
- the last to arrive is alone in `reset` and `publish` (`LastArrival`), and until
  then the counter is the number of arrivals of the round (`Counter`);
- if anyone is dead, someone died inside its share of round r and never arrives,
  so the round never advances (`Culprit`);
- what the views hold (`Views`).

Every action keeps r except `Publish`, which moves to r + 1. There is a
lemma per action; `TypeCorrect`, `PhasesSeparated`, `VisibleAfterWait` and
`PanicStopsAll` follow, and `ImplementsLockstep` maps each step to one of
Lockstep or a stutter.

`RepartitionProofs` proves, for any number of nodes, workers, blocks and any costs:

- `EveryNodeHasOneWorker`. OneWorkerPerNode speaks of running workers only; `IInv`
  adds that cuts under construction never decrease and stop at the boundary `b`
  reached so far (`Building`), that a climb keeps complete cuts complete (`Covering`,
  by `MovedCovers`: a cut moves only while it stays between its neighbours), and
  that adopted cuts cover. That covering cuts of blocks tile the nodes, the short
  last block included, is `CoveringTiles`.
- `EveryRangeIsBounded`. `SumsInv` says that the estimate is a pair of prefix sums,
  `NearInv` that every cut pushed lies below its target or within half a block of it,
  and that `b` has not overshot. Two neighbouring cuts are then at most a share and
  one heaviest block apart.
- `EveryCutIsNearest` (NearestBoundary). Prefix sums never fall (`SumsAscend`), so the
  nearest boundary is the last one at or below the target or the one after it;
  `NearestInv` says that every cut pushed is nearest and that the advance towards the
  next one has not passed its target, so that it stops exactly between those two. It
  also says which of several nearest boundaries it is (`NearestFrom`), so that the cuts
  are determined (`CostCutsAre`).
- `EveryClimbEndsAtPeak` (ClimbEndsAtPeak). `ClimbInv` says that `best` is the score of
  the cuts, never above that of `cost_cuts`, and which moves a pass has tried without
  success (`Settled`): when a pass ends without a move these are all, and the cuts are
  still those they were tried on. `TypeInv` adds the types. That scores are naturals rests on
  sums of squares (`SquaresAreNat`).

One lemma (`Least`) takes the least element of a set of naturals from the
well-foundedness of <, in the place of an induction.

`CityTickProofs` proves the four properties of the run `city_street` for any grid,
link length, speed limit, demand and window, whatever is drawn:

- `StateIsChecked` (StateChecks), `HandedCarsLand` (LandingRoom) and
  `OrderMakesNoDifference` (OrderIndependent) follow from `Inv`. Types and the order of
  the cars on a link are not inductive: a car handed over may land on another unless
  there is room for it at the end of phase A. `Inv` adds that no published gap is longer
  than the gap there is (`PublishedGaps`: between the two phases a link only loses its
  head, so that its last car stays or moves away from the entry), that at
  the end of phase B and between ticks it is exactly that gap (`CurrentGaps`), that
  every car in flight has a node to go to and stands before the gap published there
  (`HandedRoom`), and which phases a tick may be in (`Phases`).
- The links: a speed never exceeds the room measured before any car moved
  (`SpeedsAreSafe`), so that every car stays behind where the one ahead was
  (`MovedCars`); a head moves, stops or leaves (`MovedIsBehind`, `StoppedIsBehind`,
  `TailIsBehind`); a car enters behind the last one (`CarEnters`). The grid:
  `NeighbourBack`, a neighbour's neighbour on the opposite side is oneself.
- `CarsAreConserved` (Conserved) rests on a second invariant, `Kept`: the balance of the
  counters, no car in two places (`Distinct`), and that a node has not yet spawned
  the cars it spawns in this tick (`Fresh`), without which a new car could be one that
  is there already. For every step it maps each place after it to the place the
  car was in (`StepAKept`, `StepBKept`); `IdsAfterA`, `PortsAfterA`, `CountAfterA`,
  `IdsAfterB`, `CountAfterB` and `ArrivalsAreInFlight` say what a step does to queues,
  ports and counters.

At its end the module proves `RedIsServed` of SignalTimer for all green times with
`MaxGreen <= ElapsedMax`: `TimerInv` says that the wait never exceeds the
counter of green ticks nor the maximum green time. No passing run repeats it; the
run `signal_u16` shows that the hypothesis is needed.

`TrafficPipelineProofs` proves three properties of the run `pipeline`, for any set of
files, options and faults, and any number of producers and consumers:

- `NoWakeupIsLost` (NoLostWakeup). That nobody is parked for good is not inductive, since
  a notification wakes one thread, which may park again; NoLostWakeup counts instead:
  while a consumer is parked, every block in the queue has a producer about to notify
  or a consumer about to take the mutex (`QueueCovered`), the same holds of free slots and
  producers (`SlotsCovered`), and after a close or a stop someone is about to wake all
  (`CloseWakes`, `StopWakes`). It is inductive together with `TypeInv`, which adds to
  TypeOK what determines the capacity, who has started, and that only main closes.
- `CountsOnce` (CountOnceSpec): if no read fails (`ReadsSucceed`), every step is a step of
  CountOnce or a stutter. `CountInv` says that a record that was read is in one place, a
  producer's block, the queue, a consumer's hand or the totals, and any other in none
  (`Placed`);
  how far a producer has read (`ReadingInv`: its position is the first byte of a line,
  by `FirstLineFound` for the first one), who may fail or be done and what is
  then left (`FailingInv`, `DrainingInv`), and what main has seen (`MainInv`). Byte ranges
  partition the lines, so that a record is read by one producer, and when main
  reports, all places but the totals are empty. TLC checked `CountInv` on the instances of
  `pipeline` first. Without `ReadsSucceed` the theorem is false: that is the finding
  of `pipeline_readerror`. The proof needs that a line with a text has a byte, which
  `RunsAssumption` says of the files.
- `OutcomeIsExplained` (OutcomeExplained): if no read fails and every run is `Regular`,
  a run that reports has ranked every hour of the file by the file's own counts, with
  counters that agree, and a run that aborts has a reason, which its message names.
  To `TypeInv` and `CountInv` it adds that the counters account for the blocks pushed,
  popped and at hand, and those of a producer that is done for its whole range
  (`CountersInv`; the ranges share no record, so the counts of all producers add up to
  the file by `SumOfSizes`), that the text of a failure is there before its flag and
  names a refused line or a missing file (`ErrorInv`), and what the end of a run leaves
  (`EndInv`). The ranking is then one of totals in which every record counts once: a
  cell of the totals is a date and a light (`CellNames`), the place of a light in its
  list is the number of busier ones (`EntriesBefore`, `ListIsTrue`), and an hour's label
  is the date of its records because the calendar gives a date back (`LabelOf`).
- `Regular` is the hypothesis under which a report can be true at all: the records
  carry dates of the Gregorian calendar from 1970 on (the code takes 31 February and
  labels its hour 3 March), and what the run says a generator wrote is `Written`:
  records hour by hour that the options have room for. TLC evaluates it for every run
  of `pipeline` (`RegularAssumption`). `GeneratedIsWritten` proves the second half for
  mode gen, for any number of lights and hours, if the options are left to the probe
  and the last line fits the tail that the probe reads; for the skewed generator it is
  evaluated on the instances only.
- `CalendarIsGregorian`: `daysFromCivil` numbers the days of the Gregorian calendar,
  1 January 1970 with 0 and each day one above the day before, through leap years and
  centuries, and `civilFromDays` gives every number its date back. The proof goes by
  eras of 400 years that begin in March (`YearIs`, `YearFrom`, `MonthIs`, `MonthFrom`).
  The runs cross one end of a February; the theorem covers every other date.

`DataLemmas` is about what the models compute with. `SumFunctionOnSet`, with which
CityTick adds up its counters and TrafficPipeline its totals, is a recursive function
with a CHOOSE. No induction theorem can be cited, so its value is found through the
least set on which two such functions differ, which exists because proper inclusion of
finite sets is well-founded (`FoldUnique`, `FoldExists`). Then any element can be taken
out of a sum first (`SumWithout`) and a sum changes by what one value changes
(`SumChanges`). The same argument on a least counterexample gives that a recursive
function defined along a measure exists, is unique and keeps its type
(`RecursionDefines`, `RecursionIsOne`), that a fold goes through its places in
order (`FoldRuns`), that the sizes of disjoint parts add up (`SumOfSizes`), that a
finite set of a total order can be listed (`PlacesInOrder`, `ListIs`), and that shares
of a range tile it (`ShareOf`, `SharesGrow`). These are tools, true of any program; what
they say of this one is in the theorems that cite them.

`SensorPipelineProofs` proves the three safety properties of SensorPipeline for any
number of windows, depth of the channel and number of buffers. None is inductive:
that the output has every window, in order, needs to know where the windows that are
not yet in it are. The invariant says what the places of the two threads imply about
the ends of the channels (`Places`), that every buffer is home or in one frame
(`Buffers`), that the windows run from the file over the writer's hand and the channel
to main without a gap (`InOrder`), and that confirmations count the frames done with
(`Confirmations`).

At its end the module proves `NoChangeLost` of SecurityMonitor for any clock and debounce
window (one module extends both, so the definitions of SecurityMonitor begin with
Monitor where they would clash): the port's state is in the snapshot while its flag is set, then in the copy, then in
`lastPortB` (`OnItsWay`), and before the interrupt is enabled none of this has begun
(`SetupFirst`).

`MapReduceProofs` proves three properties of MapReduce, for any number of ranks and any
jobs. Of a job it assumes what JobsAssumption says: that the lines of a file are those
its newlines make (`LinesOf`), and that the two hashes of an entry are naturals.

- `EveryLineOnce` (LinesOnce). `ForEachLine` is a recursive function over the states of
  the loop; a measure (`LoopEnds`) shows that it is defined, and `LoopInv`, a loop
  invariant, that the lines handed over so far are those from the first one that
  begins in the range up to the one at the read position, with the carried bytes in the
  buffer (`TurnKeeps`). So a range gets the lines that begin in it, `ForEachLineHands`.
  `RangesAre` says that the ranges tile the bytes and `CutIs` how many lines begin
  before a byte; the lines of all ranks in rank order are then those of the file
  (`GatheredLines`).
- `OwnersAgree` (OwnersSound). An entry has one destination, computed from its key and
  the plan (`OneDestination`), all ranks have one plan, and every destination is a
  reducer (`DestinationIs`). The three plans are folds and recursions over the
  hours: `BlockIs`, `WeightedIs` (a running weight never passes the last reducer's share)
  and `HybridIs` (after the last hour is split, those that stay whole fit, although each
  split shrinks the room of the others).
- `Ends` (EndExplained). Ranks that do not wait in the same collective are in
  places one step apart (`Together`, `Groups`), so that all leave with one code; a rank
  is killed by one of the faults (`StepIs`), and a line that is refused or too long is
  one of the file's.
- The invariant behind the first two, `JobInv`, says what a rank holds at its place
  (`RankInv`): the lines of its range, entries that some line of the file has the key
  of, hours within the agreed view, the owners of the plan, and only entries that are
  its own. Combiner, merge, totals, candidates and ranking keep this by `CombinedIs`,
  `MergedIs`, `TotalsAre`, `CandidatesAre` and `RankedAre`.

`QuicksortProofs` proves, for any array, pivot rule, cutoffs and number of threads:

- `ElementsHaveOneWorker` (WorkIsDisjoint), `ScansNeedNoBound` (ScansStayInside) and
  `HalvesOrdered` (HalvesStayOrdered). They hold only together: the unchecked scans
  stop because the elements that stop them stay, these stay because no other call at
  work shares them, and that is so because every partition so far split its range,
  which is where its scans stopped.
- `IInv`: whoever is above an open call waits for its halves (`Waiting`), a call lies
  in one half of every call above it (`Nested`) and apart from all others
  (`Unrelated`), and each call knows what its scans have passed (`Progress`).
- A step of a call at work is `Local`: it moves elements about in the call's own range,
  which lies within one half of every waiting call, so that no order between halves
  breaks (`LocalKeepsInv`). A split, second call, join or turn of the loop `Regrows` the
  tree below one call and moves nothing (`RegrowsKeepsInv`).
- `ScansStop`: from the pivot in front, or from the pair swapped last, each scan meets
  an element that stops it before it leaves the range, and a partition never returns
  the whole range.
- `SortIsCorrect` (ReturnsSorted): when the first call returns it is the only one, the
  array is in order and it is a permutation of the input. `SortInv` adds to `IInv` that
  every pair of elements is in order or some call has yet to sort it (`PairsKept`),
  that the calls below one that has a half left to sort are not in that half
  (`Elsewhere`; the sequential program sorts the smaller half first and loops on the
  other), and that every value occurs as often as in the input (`SameValues`). A
  call at work is then the only one that has to sort its elements (`OnlyTheWorker`), so
  a swap within its range breaks no pair that someone relies on (`WorkInOrder`), and a
  partition only gives up the pairs across its halves, which are in order
  (`SplitInOrder`). A swap and an insertion permute (`SwapPermutes`,
  `InsertionPermutes`), by a bijection between the places of a value before and after.
- `ResourcesAreBounded` (ResourcesBounded). The number of live threads is not inductive:
  it needs to know what the open calls may still fork. `ForksAddUp` gives a call that
  waits for forked halves the weight 1, any other one that waits 0, and a call with
  depth `d` left that does not wait `2^d - 1`; the weights of all open calls add up to
  `2^ForkDepth - 1` from the first step to the last, since two halves one deeper weigh
  what their caller did (`ForkWeighs`), and a thread is a call of weight 1. For the
  stack, `Shallow` says that a call at depth `k` of the sequential program has at most
  the `2^k`th part of the array (`FirstIsHalf`). Powers of two come from the number of
  subsets of a set (`PowerStep` of DataLemmas).

Only model-checked: ReportIsCount of MapReduce (the values of the sorts, merges and folds, of which only
what they range over is proved); everything of GpuTick, and of Psrs with Bitonic;
and every liveness property (temporal properties under fairness are outside the
prover's reach).

## 5. Not modelled

- Of the GPU engine the Philox and checksum kernels, device selection and error
  wording; the CUDA stream is external and taken to run its commands in order.
- Checksums, statistics, Philox, parsing of options, CSV and log wording.
- Of the traffic simulator the merge of large private totals split over threads
  (disjoint ranges), the summary file, the checksum and the wording of options.
- Of MapReduce times, the wording and columns of what is printed, and the
  hash of the verified totals: what goes into the hash, in which order, is there.
- Of the distributed sorts the data generators, files and timing.
- Of the engines the split of a window into single ticks under `--check`.
- Of the skewed data generator the rounding of its doubles (the fractions are exact
  in the model), the random numbers (one for all) and what it prints.
- Errors nobody looks at: the return codes that the MPI programs and some OpenCL calls
  ignore, the work-group size that `--local` asks of the device, and a `std::thread`
  constructor that throws in the threaded quicksort.
- Of a refused spawn in `run_ticks` the end: the workers already started wait for ever,
  which the safety properties allow and `CallEnds` leaves out.
- The exercises and the benchmark scripts.

## 6. Plan

Done, in this order: the barrier and its abstract specification, the pipeline
and its own, the city's tick and signal, the sensor pipeline, the room monitor,
the MapReduce job, the cuts, the quicksorts, the distributed sorts, the rest of the
traffic simulator, the GPU engine, and the proofs about the sensor pipeline, the
monitor, the quicksort, the city, the traffic simulator and the MapReduce job. Left:

1. `run_window` with `--check` on top of Repartition.
2. Proofs: that MapReduce's report is the sequential count; the order of the parts for
   Psrs.

Invariants are conjunctions of named parts and no module declares a RECURSIVE
operator, so that each can be extended by a proof module.
