------------------------------ MODULE GpuTick ------------------------------
(***************************************************************************)
(* The GPU engine of citysim (m4t1d/src/gpu): the device code of           *)
(* kernels.cu on the arrays it keeps, and the stream the host puts its     *)
(* kernels on (gpu/mod.rs).  A link is a ring of slots, an empty outbox    *)
(* slot a zeroed car without FLAG_VALID, and a turn a number.              *)
(*                                                                         *)
(* A command starts when the one before it on the stream has finished; the *)
(* threads of a kernel, one for each node, run in any order.  One thread   *)
(* is one step: step_a writes what only its own node reads in that kernel, *)
(* and so does step_b.  A random draw is a free choice.                    *)
(*                                                                         *)
(* Every backend computes the state of CityTick: CitySpec says so of this  *)
(* one.                                                                    *)
(***************************************************************************)
EXTENDS Integers, Sequences, FiniteSetsExt, SequencesExt

CONSTANTS Rows, Cols, LinkCells, VMax, Detector, MinGreen, MaxGreen, ElapsedMax,
          TurnShares, Demand, WindowTicks, MaxTick, MaxCars,   \* as in CityTick
          CallTicks   \* the ticks of a run_ticks call: one with --check, else a window

Nodes == 0 .. Rows * Cols - 1
Dirs  == 0 .. 3
Slots == 0 .. LinkCells - 1

STRAIGHT == 0
LEFT     == 1
RIGHT    == 2
PARK     == 3

ASSUME GpuAssumption ==
    /\ TurnShares \subseteq STRAIGHT .. PARK
    /\ MaxTick % CallTicks = 0 /\ CallTicks \in {1, WindowTicks}

VARIABLES
    host,     \* what the host does next: "run", "wait", "harvest", "census", "read" or "failed"
    tick,     \* city.tick, which run_ticks adds to
    stream,   \* the commands that have not finished
    threads,  \* the nodes whose thread the first of them has not run yet
    cars,     \* cars[n][d][s]: slot s of link d of node n
    meta,     \* NodeMeta of every node
    outbox, gaps, counts, totals,
    frames    \* what has been copied into the frames of each node

deviceVars == <<cars, meta, outbox, gaps, counts, totals>>
vars == <<host, tick, stream, threads, frames, deviceVars>>

-----------------------------------------------------------------------------
(* car, grid, signal *)

\* What the device draws a car's numbers from is its link and its tick.
Spawned(link, t, turn) == [link |-> link, tick |-> t, pos |-> 0, vel |-> 0, turn |-> turn, valid |-> FALSE]
ZeroCar == Spawned(0, 0, 0)

Slot(start, i) == (start + i) % LinkCells
Opposite(d) == (d + 2) % 4
LinkId(n, d) == 4 * n + d

NeighbourNode(n, d) ==
    LET r == n \div Cols
        c == n % Cols
    IN  CASE d = 0 -> IF r > 0 THEN n - Cols ELSE -1
          [] d = 1 -> IF c + 1 < Cols THEN n + 1 ELSE -1
          [] d = 2 -> IF r + 1 < Rows THEN n + Cols ELSE -1
          [] OTHER -> IF c > 0 THEN n - 1 ELSE -1

ExitPort(approach, turn) == (approach + (IF turn = STRAIGHT THEN 2 ELSE IF turn = LEFT THEN 1 ELSE 3)) % 4

IsGreen(phase, approach) == approach % 2 = phase

NextSignal(m, greenWaiting, redWaiting) ==
    LET held == IF m.elapsed = ElapsedMax THEN ElapsedMax ELSE m.elapsed + 1
    IN  IF held >= MinGreen /\ redWaiting /\ (held >= MaxGreen \/ ~greenWaiting)
        THEN [m EXCEPT !.phase = 1 - @, !.elapsed = 0]
        ELSE [m EXCEPT !.elapsed = held]

-----------------------------------------------------------------------------
(* A link: a ring of slots, its start and its length *)

EntryGap(ring, start, len) == IF len = 0 THEN LinkCells ELSE ring[Slot(start, len - 1)].pos

NaschSpeed(vel, gap, brakes) ==
    LET safe == Min({vel + 1, VMax, gap})
    IN  IF safe > 0 /\ brakes THEN safe - 1 ELSE safe

StopLine == LinkCells - 1

\* A car moves into the gap to where the one ahead of it was; a head that
\* passes its stop line asks, and stays where it is.
AdvanceLink(ring, start, len, extra, brake) ==
    LET car(i) == ring[Slot(start, i)]
        gap(i) == IF i = 0 THEN StopLine - car(0).pos + extra ELSE car(i - 1).pos - car(i).pos - 1
        v(i)   == NaschSpeed(car(i).vel, gap(i), <<car(i).link, car(i).tick>> \in brake)
        asks   == car(0).pos + v(0) > StopLine
    IN  [valid |-> asks, from |-> car(0).pos, vel |-> v(0),
         ring |-> [s \in Slots |->
                     LET i == (s + LinkCells - start) % LinkCells
                     IN  IF i >= len \/ (i = 0 /\ asks) THEN ring[s]
                         ELSE [ring[s] EXCEPT !.pos = @ + v(i), !.vel = v(i)]]]

PopHead(m, d) == [m EXCEPT !.start[d] = (@ + 1) % LinkCells, !.len[d] = @ - 1]

\* Mutant: the new car goes to the slot its place in the line has.
TailSlotUnwrapped(start, len) == len

TailSlot(start, len) == Slot(start, len)

\* A detector covers the last cells of its approach.
DetectorOccupied(ring, start, len) ==
    len > 0 /\ ring[start].pos >= LinkCells - Min({Detector, LinkCells})

-----------------------------------------------------------------------------
(* step_a *)

PortRoom(n, port) ==
    LET next == NeighbourNode(n, port)
    IN  IF next < 0 THEN VMax ELSE gaps[next][Opposite(port)]

HeadExtra(n, d, head, green) ==
    IF head.turn = PARK THEN VMax ELSE IF ~green THEN 0 ELSE PortRoom(n, ExitPort(d, head.turn))

\* The first turn with room in the order straight, left, right.
Divert(n, d, head, green) ==
    LET room(turn) == PortRoom(n, ExitPort(d, turn))
        open == {turn \in {STRAIGHT, LEFT, RIGHT} \ {head.turn} : room(turn) > 0}
    IN  IF /\ green /\ head.turn # PARK /\ head.vel = 0 /\ head.pos + 1 = LinkCells
           /\ room(head.turn) = 0 /\ open # {}
        THEN Min(open) ELSE head.turn

NoWant == [valid |-> FALSE, turn |-> 0, port |-> 0]

WantOf(approach, head) ==
    [valid |-> TRUE, turn |-> head.turn, port |-> IF head.turn = PARK THEN 0 ELSE ExitPort(approach, head.turn)]

\* A parking head is granted, and of the heads for one port the first of the
\* smallest turn.
Resolve(wants) ==
    LET takes(best, a) ==
            LET holder == best[wants[a].port]
            IN  IF wants[a].valid /\ wants[a].turn # PARK /\ (holder < 0 \/ wants[a].turn < wants[holder].turn)
                THEN [best EXCEPT ![wants[a].port] = a] ELSE best
        best == FoldLeft(takes, [p \in Dirs |-> -1], <<0, 1, 2, 3>>)
    IN  {a \in Dirs : wants[a].valid /\ (wants[a].turn = PARK \/ a = best[wants[a].port])}

\* The outbox of a node is written whole, empty slots too.
Posted(n, sent) == [port \in Dirs |-> IF port \in DOMAIN sent THEN sent[port] ELSE ZeroCar]

StepA(n, brake) ==
    LET m == meta[n]
        busy == {d \in Dirs : m.len[d] > 0}
        green(d) == IsGreen(m.phase, d)
        turned(d) == [cars[n][d] EXCEPT ![m.start[d]].turn = Divert(n, d, cars[n][d][m.start[d]], green(d))]
        head(d) == turned(d)[m.start[d]]
        request == [d \in busy |-> AdvanceLink(turned(d), m.start[d], m.len[d], HeadExtra(n, d, head(d), green(d)), brake)]
        wants == [d \in Dirs |-> IF d \in busy /\ request[d].valid THEN WantOf(d, head(d)) ELSE NoWant]
        grants == Resolve(wants)
        crossing == {d \in grants : wants[d].turn # PARK}
        leaving == {d \in crossing : NeighbourNode(n, wants[d].port) < 0}
        sender(port) == CHOOSE d \in crossing : wants[d].port = port
        stopped(d) == [request[d].ring EXCEPT ![m.start[d]].pos = StopLine, ![m.start[d]].vel = StopLine - request[d].from]
    IN  [cars |-> [d \in Dirs |->
                     IF d \notin busy THEN cars[n][d]
                     ELSE IF request[d].valid /\ d \notin grants THEN stopped(d) ELSE request[d].ring],
         meta |-> [FoldSet(LAMBDA d, popped : PopHead(popped, d), m, grants) EXCEPT
                     !.parked  = @ + Cardinality(grants \ crossing),
                     !.sensor  = @ + Cardinality(crossing),
                     !.crossed = @ + Cardinality(crossing),
                     !.exited  = @ + Cardinality(leaving)],
         outbox |-> Posted(n, [port \in {wants[d].port : d \in crossing \ leaving} |->
                      LET r == request[sender(port)]
                      IN  [head(sender(port)) EXCEPT !.pos = r.from + r.vel - LinkCells, !.vel = r.vel, !.valid = TRUE]])]

-----------------------------------------------------------------------------
(* step_b *)

Incoming(n, d) ==
    LET upstream == NeighbourNode(n, d)
    IN  IF upstream < 0 THEN ZeroCar ELSE outbox[upstream][Opposite(d)]

\* The links that draw a turn for the car that enters them.
Entered(n, spawn) ==
    {d \in Dirs : \/ Incoming(n, d).valid
                  \/ d \in spawn /\ EntryGap(cars[n][d], meta[n].start[d], meta[n].len[d]) > 0}

StepB(n, t, spawn, turns) ==
    LET m == meta[n]
        entered == Entered(n, spawn)
        arrives(d) == Incoming(n, d).valid
        car(d) == IF arrives(d) THEN [Incoming(n, d) EXCEPT !.turn = turns[d], !.valid = FALSE]
                  ELSE Spawned(LinkId(n, d), t, turns[d])
        rings == [d \in Dirs |-> IF d \notin entered THEN cars[n][d]
                                 ELSE [cars[n][d] EXCEPT ![TailSlot(m.start[d], m.len[d])] = car(d)]]
        lens == [d \in Dirs |-> IF d \in entered THEN m.len[d] + 1 ELSE m.len[d]]
        waiting(green) == \E d \in Dirs : IsGreen(m.phase, d) = green /\ DetectorOccupied(rings[d], m.start[d], lens[d])
        counted == [m EXCEPT !.len = lens, !.spawned = @ + Cardinality({d \in entered : ~arrives(d)})]
    IN  [cars |-> rings,
         gaps |-> [d \in Dirs |-> EntryGap(rings[d], m.start[d], lens[d])],
         meta |-> NextSignal(counted, waiting(TRUE), waiting(FALSE))]

-----------------------------------------------------------------------------
(* The stream *)

NoTotals == [spawned |-> 0, exited |-> 0, parked |-> 0, active |-> 0]
NoCars == [n \in Nodes |-> [d \in Dirs |-> ZeroCar]]

\* init_state on zeroed arrays
Init ==
    /\ host = "run" /\ tick = 0
    /\ stream = <<>> /\ threads = Nodes
    /\ cars = [n \in Nodes |-> [d \in Dirs |-> [s \in Slots |-> ZeroCar]]]
    /\ meta = [n \in Nodes |->
         [start |-> [d \in Dirs |-> 0], len |-> [d \in Dirs |-> 0],
          phase |-> ((n \div Cols) + (n % Cols)) % 2, elapsed |-> 0,
          sensor |-> 0, spawned |-> 0, exited |-> 0, parked |-> 0, crossed |-> 0]]
    /\ outbox = NoCars /\ gaps = [n \in Nodes |-> [d \in Dirs |-> LinkCells]]
    /\ counts = [n \in Nodes |-> 0] /\ totals = NoTotals
    /\ frames = [n \in Nodes |-> 0]

Command(name, t) == [name |-> name, tick |-> t]
Running(name) == stream # <<>> /\ Head(stream).name = name

\* A thread of the running kernel has finished; the last one ends the kernel.
ThreadEnds(n) ==
    IF threads = {n} THEN threads' = Nodes /\ stream' = Tail(stream)
    ELSE threads' = threads \ {n} /\ UNCHANGED stream

\* The cars on the links of node n
LiveCars(n) ==
    UNION {{cars[n][d][Slot(meta[n].start[d], i)] : i \in 0 .. meta[n].len[d] - 1} : d \in Dirs}
Ids(n) == {<<car.link, car.tick>> : car \in LiveCars(n)}
SpawnedCars == MapThenSumSet(LAMBDA n : meta[n].spawned, Nodes)

ThreadA(n) ==
    /\ Running("step_a") /\ n \in threads
    /\ \E brake \in SUBSET Ids(n) :
          LET after == StepA(n, brake)
          IN  /\ cars' = [cars EXCEPT ![n] = after.cars]
              /\ meta' = [meta EXCEPT ![n] = after.meta]
              /\ outbox' = [outbox EXCEPT ![n] = after.outbox]
    /\ ThreadEnds(n)
    /\ UNCHANGED <<host, tick, frames, gaps, counts, totals>>

ThreadB(n) ==
    /\ Running("step_b") /\ n \in threads
    /\ \E spawn \in SUBSET {d \in Dirs : <<n, d>> \in Demand} :
       \E turns \in [Entered(n, spawn) -> TurnShares] :
          LET after == StepB(n, Head(stream).tick, spawn, turns)
          IN  /\ SpawnedCars + Cardinality(spawn) <= MaxCars
              /\ cars' = [cars EXCEPT ![n] = after.cars]
              /\ meta' = [meta EXCEPT ![n] = after.meta]
              /\ gaps' = [gaps EXCEPT ![n] = after.gaps]
    /\ ThreadEnds(n)
    /\ UNCHANGED <<host, tick, frames, outbox, counts, totals>>

ThreadHarvest(n) ==
    /\ Running("harvest") /\ n \in threads
    /\ counts' = [counts EXCEPT ![n] = meta[n].sensor]
    /\ meta' = [meta EXCEPT ![n].sensor = 0]
    /\ ThreadEnds(n)
    /\ UNCHANGED <<host, tick, frames, cars, outbox, gaps, totals>>

ThreadCensus(n) ==
    /\ Running("census") /\ n \in threads
    /\ totals' = [spawned |-> totals.spawned + meta[n].spawned,
                  exited  |-> totals.exited + meta[n].exited,
                  parked  |-> totals.parked + meta[n].parked,
                  active  |-> totals.active + MapThenSumSet(LAMBDA d : meta[n].len[d], Dirs)]
    /\ ThreadEnds(n)
    /\ UNCHANGED <<host, tick, frames, cars, meta, outbox, gaps, counts>>

\* The sensor counts go to the page-locked buffer of a frame.
CopyCounts ==
    /\ Running("copy")
    /\ frames' = [n \in Nodes |-> frames[n] + counts[n]]
    /\ stream' = Tail(stream)
    /\ UNCHANGED <<host, tick, threads, deviceVars>>

-----------------------------------------------------------------------------
(* The host *)

Idle == stream = <<>>

\* run_ticks: the kernels of every tick are put on the stream at once.
RunTicks ==
    /\ host = "run"
    /\ stream' = stream \o FlattenSeq([t \in 1 .. CallTicks |->
                   <<Command("step_a", tick + t - 1), Command("step_b", tick + t - 1)>>])
    /\ tick' = tick + CallTicks
    /\ host' = "wait"
    /\ UNCHANGED <<frames, threads, deviceVars>>

\* synchronize, at the end of run_ticks
TicksDone ==
    /\ host = "wait" /\ Idle /\ tick < MaxTick
    /\ host' = IF tick % WindowTicks = 0 THEN "harvest" ELSE "run"
    /\ UNCHANGED <<tick, frames, stream, threads, deviceVars>>

\* harvest: the counts follow the kernel on the stream, and nothing waits.
Harvest ==
    /\ host = "harvest"
    /\ stream' = stream \o <<Command("harvest", tick), Command("copy", tick)>>
    /\ host' = "census"
    /\ UNCHANGED <<tick, frames, threads, deviceVars>>

\* reduce, with its zeroed totals
Census ==
    /\ host = "census"
    /\ stream' = stream \o <<Command("zero", tick), Command("census", tick)>>
    /\ host' = "read"
    /\ UNCHANGED <<tick, frames, threads, deviceVars>>

ZeroTotals ==
    /\ Running("zero")
    /\ totals' = NoTotals
    /\ stream' = Tail(stream)
    /\ UNCHANGED <<host, tick, frames, threads, cars, meta, outbox, gaps, counts>>

\* check_conservation ends a run whose totals do not add up.
ReadTotals ==
    /\ host = "read" /\ Idle
    /\ host' = IF totals.spawned = totals.active + totals.exited + totals.parked THEN "run" ELSE "failed"
    /\ UNCHANGED <<tick, frames, stream, threads, deviceVars>>

\* The run ends with --save-state, after download, and another one starts with
\* --load-state and uploads the snapshot: cars, metadata, and the gaps the host
\* publishes from them.
Resume ==
    /\ host = "run" /\ tick % WindowTicks = 0 /\ tick > 0
    /\ gaps' = [n \in Nodes |-> [d \in Dirs |-> EntryGap(cars[n][d], meta[n].start[d], meta[n].len[d])]]
    /\ outbox' = NoCars /\ counts' = [n \in Nodes |-> 0] /\ totals' = NoTotals
    /\ UNCHANGED <<host, tick, stream, threads, cars, meta, frames>>

\* The bound: what follows the last tick is not looked at.
Over == host = "wait" /\ Idle /\ tick = MaxTick /\ UNCHANGED vars

Next ==
    \/ \E n \in Nodes : ThreadA(n) \/ ThreadB(n) \/ ThreadHarvest(n) \/ ThreadCensus(n)
    \/ CopyCounts \/ ZeroTotals
    \/ RunTicks \/ TicksDone \/ Harvest \/ Census \/ ReadTotals \/ Resume \/ Over

Spec == Init /\ [][Next]_vars

-----------------------------------------------------------------------------
DeviceCars == [link : 0 .. 4 * Rows * Cols - 1, tick : 0 .. MaxTick, pos : Slots, vel : 0 .. VMax,
               turn : STRAIGHT .. PARK, valid : BOOLEAN]

NodeMetas == [start : [Dirs -> Slots], len : [Dirs -> 0 .. LinkCells], phase : {0, 1}, elapsed : 0 .. ElapsedMax,
              sensor : Nat, spawned : Nat, exited : Nat, parked : Nat, crossed : Nat]

\* The bytes of the rings stay in range, those of freed slots too.
TypeOK ==
    /\ host \in {"run", "wait", "harvest", "census", "read"}
    /\ threads \in SUBSET Nodes /\ threads # {}
    /\ cars \in [Nodes -> [Dirs -> [Slots -> DeviceCars]]]
    /\ meta \in [Nodes -> NodeMetas]
    /\ outbox \in [Nodes -> [Dirs -> DeviceCars]]
    /\ gaps \in [Nodes -> [Dirs -> 0 .. LinkCells]]
    /\ counts \in [Nodes -> Nat] /\ frames \in [Nodes -> Nat]

-----------------------------------------------------------------------------
(* What the arrays stand for                                               *)

Name == <<"straight", "left", "right", "park">>

CityCar(car) ==
    [id |-> <<car.link \div 4, car.link % 4, car.tick>>, pos |-> car.pos, vel |-> car.vel, turn |-> Name[car.turn + 1]]

CityRoad == [n \in Nodes |-> [d \in Dirs |->
    [i \in 1 .. meta[n].len[d] |-> CityCar(cars[n][d][Slot(meta[n].start[d], i - 1)])]]]

CityCount == [n \in Nodes |->
    [spawned |-> meta[n].spawned, exited |-> meta[n].exited, parked |-> meta[n].parked, crossed |-> meta[n].crossed,
     sensor |-> IF Running("harvest") /\ n \notin threads THEN counts[n] ELSE meta[n].sensor]]

Stepping == Running("step_a") \/ Running("step_b")

City == INSTANCE CityTick WITH
    TurnShares <- {Name[turn + 1] : turn \in TurnShares},
    tick    <- IF Stepping THEN Head(stream).tick ELSE tick,
    stage   <- IF Running("step_b") THEN "b"
               ELSE IF Running("harvest") \/ (Idle /\ tick > 0 /\ tick % WindowTicks = 0 /\ host \in {"wait", "harvest"})
               THEN "harvest" ELSE "a",
    pending <- IF Stepping THEN threads ELSE Nodes,
    road    <- CityRoad,
    signal  <- [n \in Nodes |-> [phase |-> meta[n].phase, elapsed |-> meta[n].elapsed]],
    count   <- CityCount,
    outbox  <- [n \in Nodes |-> [p \in Dirs |->
                  IF outbox[n][p].valid THEN CityCar(outbox[n][p])
                  ELSE [id |-> <<>>, pos |-> 0, vel |-> 0, turn |-> "park"]]],
    gap     <- gaps,
    frames  <- [n \in Nodes |-> frames[n] + (IF Running("copy") THEN counts[n] ELSE 0)]

(* "Each device function has the name and the integer arithmetic of the    *)
(* Rust function it mirrors" (kernels.cu): in whatever order the threads   *)
(* of a kernel run, the arrays hold the state of CityTick, a frame the     *)
(* counts of its window and no other.  No byte of the rings leaves its     *)
(* range, and the totals reduced on the device add up whenever the host    *)
(* looks at them, so a run never fails (TypeOK).                           *)
CitySpec == City!Spec /\ []TypeOK
=============================================================================
