------------------------------ MODULE CityTick ------------------------------
(***************************************************************************)
(* The city of citysim (m4t1d/src/city.rs and the modules it calls): every *)
(* intersection owns its four approach links, its signal and its counters, *)
(* and a tick runs step_a for every node and then step_b for every node.   *)
(*                                                                         *)
(* An action is one node's step.  The nodes of a phase run in any order,   *)
(* which covers the engines seq, static, balanced and rayon; that a phase  *)
(* ends before the next one starts is what SpinBarrier shows.  The ring of *)
(* a link is the sequence of its cars from the head, and a random draw is  *)
(* a free choice.                                                          *)
(***************************************************************************)
EXTENDS Signal, Integers, Sequences, FiniteSets, Functions

CONSTANTS Rows, Cols, LinkCells, VMax,
          Detector,     \* --detector, in cells
          TurnShares,   \* the turns route_turn can draw
          Demand,       \* the links <<n, d>> with a spawn threshold above 0
          WindowTicks,  \* ticks per sensor window
          MaxTick,      \* bound: the tick the last run ends at
          MaxCars       \* bound: the cars the demand spawns

Nodes == 0 .. Rows * Cols - 1
Dirs  == 0 .. 3   \* north, east, south, west
Turns == {"straight", "left", "right", "park"}

ASSUME GridAssumption  == Rows \in Nat \ {0} /\ Cols \in Nat \ {0}
ASSUME LinkAssumption  == VMax \in Nat \ {0} /\ LinkCells \in Nat /\ LinkCells > VMax
ASSUME DetectorAssumption == Detector \in 0 .. LinkCells
ASSUME DrawAssumption  == TurnShares \subseteq Turns /\ Demand \subseteq Nodes \X Dirs
ASSUME BoundAssumption == WindowTicks \in Nat \ {0} /\ MaxTick \in Nat /\ MaxCars \in Nat

VARIABLES tick, stage, pending,  \* the phase that runs, and the nodes it has not run yet
          road,       \* road[n][d]: the cars of approach d of node n, from the head
          signal,     \* signal[n]: phase and elapsed
          count,      \* count[n]: the counters of n
          outbox,     \* Halo: the car n hands out through each port
          gap,        \* Halo: the published entry gap of every link
          frames      \* frames[n]: the sum of n's harvested sensor counts

vars == <<tick, stage, pending, road, signal, count, outbox, gap, frames>>

-----------------------------------------------------------------------------
(* Grid *)

NoNode == -1
NoCar  == [id |-> <<>>, pos |-> 0, vel |-> 0, turn |-> "park"]

Opposite(d) == (d + 2) % 4

Neighbour(n, d) ==
    LET r == n \div Cols
        c == n % Cols
    IN  CASE d = 0 /\ r > 0        -> n - Cols
          [] d = 1 /\ c + 1 < Cols -> n + 1
          [] d = 2 /\ r + 1 < Rows -> n + Cols
          [] d = 3 /\ c > 0        -> n - 1
          [] OTHER -> NoNode

\* Traffic keeps left.
ExitPort(d, turn) ==
    CASE turn = "straight" -> (d + 2) % 4
      [] turn = "left"     -> (d + 1) % 4
      [] OTHER             -> (d + 3) % 4

Rank(turn) == CASE turn = "straight" -> 0 [] turn = "left" -> 1 [] turn = "right" -> 2 [] OTHER -> 3

-----------------------------------------------------------------------------
(* Links *)

EntryGap(link) == IF link = <<>> THEN LinkCells ELSE link[Len(link)].pos

\* Mutant: a neighbour's link is read as it is now, not as it was published.
PortRoomLive(n, port) ==
    LET next == Neighbour(n, port)
    IN  IF next = NoNode THEN VMax ELSE EntryGap(road[next][Opposite(port)])

PortRoom(n, port) ==
    LET next == Neighbour(n, port)
    IN  IF next = NoNode THEN VMax ELSE gap[next][Opposite(port)]

\* The turn of the head car of approach d.
Divert(n, d, head) ==
    LET blocked(turn) == PortRoom(n, ExitPort(d, turn)) = 0
        open == {turn \in Turns \ {"park", head.turn} : ~blocked(turn)}
    IN  IF /\ IsGreen(signal[n].phase, d) /\ head.turn # "park"
           /\ head.vel = 0 /\ head.pos + 1 = LinkCells
           /\ blocked(head.turn) /\ open # {}
        THEN CHOOSE turn \in open : \A other \in open : Rank(turn) <= Rank(other)
        ELSE head.turn

\* Mutant: the light alone lets the head cross.
HeadExtraFull(n, d, head) ==
    IF head.turn = "park" \/ IsGreen(signal[n].phase, d) THEN VMax ELSE 0

\* Cells the head may use past its stop line.
HeadExtra(n, d, head) ==
    IF head.turn = "park" THEN VMax
    ELSE IF ~IsGreen(signal[n].phase, d) THEN 0
    ELSE PortRoom(n, ExitPort(d, head.turn))

Smaller(a, b) == IF a < b THEN a ELSE b

NaschSpeed(vel, room, brakes) ==
    LET safe == Smaller(Smaller(vel + 1, VMax), room)
    IN  IF safe > 0 /\ brakes THEN safe - 1 ELSE safe

\* Mutant: a car may drive into the cell of the car ahead.
GapTooLong(link, i, extra) ==
    IF i = 1 THEN LinkCells - 1 - link[1].pos + extra ELSE link[i - 1].pos - link[i].pos

\* Free cells before car i, up to where the car ahead was.
GapAhead(link, i, extra) ==
    IF i = 1 THEN LinkCells - 1 - link[1].pos + extra ELSE link[i - 1].pos - link[i].pos - 1

\* The links of n after divert, and the speeds of their cars when the cars in
\* brake draw the brake.
Links(n) ==
    [d \in Dirs |-> IF road[n][d] = <<>> THEN <<>>
                    ELSE [road[n][d] EXCEPT ![1].turn = Divert(n, d, road[n][d][1])]]

Speeds(n, links, brake) ==
    [d \in Dirs |->
        [i \in DOMAIN links[d] |->
            NaschSpeed(links[d][i].vel, GapAhead(links[d], i, HeadExtra(n, d, links[d][1])),
                       links[d][i].id \in brake)]]

\* The approaches whose head advance_link lets ask instead of moving it.
Asking(links, speeds) ==
    {d \in Dirs : links[d] # <<>> /\ links[d][1].pos + speeds[d][1] > LinkCells - 1}

-----------------------------------------------------------------------------
(* Junction *)

Port(d, link) == ExitPort(d, link[1].turn)
Parks(link) == link[1].turn = "park"

\* The head of d goes before the head of e.
Beats(d, e, links) ==
    LET r == Rank(links[d][1].turn)
        q == Rank(links[e][1].turn)
    IN  r < q \/ (r = q /\ d < e)

\* Mutant: every head that asks crosses.
GrantsAll(links, asking) == asking

\* resolve: the parking heads, and the best head for each port.
Grants(links, asking) ==
    {d \in asking :
        Parks(links[d]) \/ \A e \in asking \ {d} :
            Parks(links[e]) \/ Port(e, links[e]) # Port(d, links[d]) \/ Beats(d, e, links)}

\* step_a of node n: its links, outbox and counters after it.
AfterA(n, brake) ==
    LET links    == Links(n)
        speeds   == Speeds(n, links, brake)
        asking   == Asking(links, speeds)
        granted  == Grants(links, asking)
        crossing == {d \in granted : ~Parks(links[d])}
        leaving  == {d \in crossing : Neighbour(n, Port(d, links[d])) = NoNode}
        moved(d) == [i \in DOMAIN links[d] |->
                        [links[d][i] EXCEPT !.pos = @ + speeds[d][i], !.vel = speeds[d][i]]]
        stopped(d) == [links[d][1] EXCEPT !.pos = LinkCells - 1, !.vel = LinkCells - 1 - links[d][1].pos]
        handed(d)  == [moved(d)[1] EXCEPT !.pos = @ - LinkCells]
        sent(port) == {d \in crossing \ leaving : Port(d, links[d]) = port}
    IN  [road |-> [d \in Dirs |->
                     IF d \in granted THEN Tail(moved(d))
                     ELSE IF d \in asking THEN [moved(d) EXCEPT ![1] = stopped(d)]
                     ELSE moved(d)],
         outbox |-> [port \in Dirs |->
                       IF sent(port) = {} THEN NoCar
                       ELSE handed(CHOOSE d \in sent(port) : \A e \in sent(port) : e <= d)],
         count |-> [count[n] EXCEPT !.parked  = @ + Cardinality(granted \ crossing),
                                    !.sensor  = @ + Cardinality(crossing),
                                    !.crossed = @ + Cardinality(crossing),
                                    !.exited  = @ + Cardinality(leaving)]]

-----------------------------------------------------------------------------
(* Arrivals *)

Incoming(n, d) ==
    LET upstream == Neighbour(n, d)
    IN  IF upstream = NoNode THEN NoCar ELSE outbox[upstream][Opposite(d)]

\* The links of n that spawn a car when the draws of spawn say so.
Spawns(n, d, spawn) ==
    d \in spawn /\ Incoming(n, d) = NoCar /\ EntryGap(road[n][d]) > 0

\* The links a car enters, which draws its turn there.
Entered(n, spawn) == {d \in Dirs : Incoming(n, d) # NoCar \/ Spawns(n, d, spawn)}

RoadAfterB(n, d, spawn, route) ==
    LET arrived == IF Incoming(n, d) = NoCar THEN <<>>
                   ELSE <<[Incoming(n, d) EXCEPT !.turn = route[d]]>>
        born    == IF ~Spawns(n, d, spawn) THEN <<>>
                   ELSE <<[id |-> <<n, d, tick>>, pos |-> 0, vel |-> 0, turn |-> route[d]]>>
    IN  road[n][d] \o arrived \o born

\* The detector covers the last cells of an approach.
Occupied(link) == link # <<>> /\ link[1].pos >= LinkCells - Detector

Published(n, d, spawn, route) == EntryGap(RoadAfterB(n, d, spawn, route))

AfterB(n, spawn, route) ==
    LET links == [d \in Dirs |-> RoadAfterB(n, d, spawn, route)]
        waiting(green) == \E d \in Dirs : IsGreen(signal[n].phase, d) = green /\ Occupied(links[d])
    IN  [road   |-> links,
         gap    |-> [d \in Dirs |-> Published(n, d, spawn, route)],
         signal |-> NextSignal(signal[n].phase, signal[n].elapsed, waiting(TRUE), waiting(FALSE)),
         count  |-> [count[n] EXCEPT !.spawned = @ + Cardinality({d \in Dirs : Spawns(n, d, spawn)})]]

-----------------------------------------------------------------------------
NoCounts == [spawned |-> 0, exited |-> 0, parked |-> 0, crossed |-> 0, sensor |-> 0]
EmptyOutbox == [n \in Nodes |-> [p \in Dirs |-> NoCar]]

\* An empty city, its signals in a chequerboard.
Init ==
    /\ tick = 0 /\ stage = "a" /\ pending = Nodes
    /\ road = [n \in Nodes |-> [d \in Dirs |-> <<>>]]
    /\ signal = [n \in Nodes |-> [phase |-> ((n \div Cols) + (n % Cols)) % 2, elapsed |-> 0]]
    /\ count = [n \in Nodes |-> NoCounts]
    /\ outbox = EmptyOutbox
    /\ gap = [n \in Nodes |-> [d \in Dirs |-> LinkCells]]
    /\ frames = [n \in Nodes |-> 0]

Total(field) == SumFunction([n \in Nodes |-> count[n][field]])
IdsAt(n) == UNION {{road[n][d][i].id : i \in DOMAIN road[n][d]} : d \in Dirs}

\* step_a of node n; the last one of the phase opens phase B.
StepA(n) ==
    /\ stage = "a" /\ n \in pending /\ tick < MaxTick
    /\ \E brake \in SUBSET IdsAt(n) :
          LET after == AfterA(n, brake)
          IN  /\ road' = [road EXCEPT ![n] = after.road]
              /\ outbox' = [outbox EXCEPT ![n] = after.outbox]
              /\ count' = [count EXCEPT ![n] = after.count]
    /\ pending' = IF pending = {n} THEN Nodes ELSE pending \ {n}
    /\ stage' = IF pending = {n} THEN "b" ELSE "a"
    /\ UNCHANGED <<tick, signal, gap, frames>>

\* step_b of node n; the last one ends the tick, and the window when it is over.
StepB(n) ==
    /\ stage = "b" /\ n \in pending
    /\ \E spawn \in SUBSET {d \in Dirs : <<n, d>> \in Demand} :
       \E route \in [Entered(n, spawn) -> TurnShares] :
          LET after == AfterB(n, spawn, route)
          IN  /\ Total("spawned") + Cardinality(spawn) <= MaxCars
              /\ road' = [road EXCEPT ![n] = after.road]
              /\ gap' = [gap EXCEPT ![n] = after.gap]
              /\ signal' = [signal EXCEPT ![n] = after.signal]
              /\ count' = [count EXCEPT ![n] = after.count]
    /\ IF pending = {n}
       THEN /\ pending' = Nodes
            /\ tick' = tick + 1
            /\ stage' = IF tick' % WindowTicks = 0 THEN "harvest" ELSE "a"
       ELSE pending' = pending \ {n} /\ UNCHANGED <<tick, stage>>
    /\ UNCHANGED <<outbox, frames>>

\* The end of a window: the frame takes every sensor count.
Harvest ==
    /\ stage = "harvest"
    /\ frames' = [n \in Nodes |-> frames[n] + count[n].sensor]
    /\ count' = [n \in Nodes |-> [count[n] EXCEPT !.sensor = 0]]
    /\ stage' = "a"
    /\ UNCHANGED <<tick, pending, road, signal, outbox, gap>>

BetweenTicks == stage = "harvest" \/ (stage = "a" /\ pending = Nodes)

\* A run ends here with --save-state and another one starts with --load-state:
\* the snapshot holds neither half of the halo.
Resume ==
    /\ stage = "a" /\ pending = Nodes /\ tick % WindowTicks = 0 /\ tick > 0
    /\ gap' = [n \in Nodes |-> [d \in Dirs |-> EntryGap(road[n][d])]]
    /\ outbox' = EmptyOutbox
    /\ UNCHANGED <<tick, stage, pending, road, signal, count, frames>>

Over == stage = "a" /\ tick = MaxTick /\ UNCHANGED vars

Next == (\E n \in Nodes : StepA(n) \/ StepB(n)) \/ Harvest \/ Resume \/ Over

Spec == Init /\ [][Next]_vars

-----------------------------------------------------------------------------
CarIds == Nodes \X Dirs \X (0 .. MaxTick)
Cars == [id : CarIds, pos : 0 .. LinkCells - 1, vel : 0 .. VMax, turn : Turns]

\* Cars stand inside their link within the speed limit, and a light's counter saturates.
TypeOK ==
    /\ tick \in 0 .. MaxTick
    /\ stage \in {"a", "b", "harvest"}
    /\ pending \in SUBSET Nodes /\ pending # {}
    /\ road \in [Nodes -> [Dirs -> Seq(Cars)]]
    /\ signal \in [Nodes -> [phase : {0, 1}, elapsed : 0 .. ElapsedMax]]
    /\ count \in [Nodes -> [spawned : Nat, exited : Nat, parked : Nat, crossed : Nat, sensor : Nat]]
    /\ outbox \in [Nodes -> [Dirs -> Cars \union {NoCar}]]
    /\ gap \in [Nodes -> [Dirs -> 0 .. LinkCells]]
    /\ frames \in [Nodes -> Nat]

\* check_link: the cars of a link stand in distinct cells, in order.
CheckLink(link) == \A i \in 1 .. Len(link) - 1 : link[i + 1].pos < link[i].pos

(* check_state, which verify() runs between ticks under --check, and more: *)
(* no two cars of a link share a cell at any step, and the gaps published  *)
(* for the next phase A are those of the cars on the links.  Cells,        *)
(* speeds, gaps and counters of green ticks are in range (TypeOK).         *)
StateChecks ==
    /\ TypeOK
    /\ \A n \in Nodes, d \in Dirs : CheckLink(road[n][d])
    /\ \A n \in Nodes, d \in Dirs :
          BetweenTicks \/ (stage = "b" /\ n \notin pending) => gap[n][d] = EntryGap(road[n][d])

\* The cars handed over that their next node has not taken yet.
InFlight ==
    {x \in Nodes \X Dirs :
        /\ outbox[x[1]][x[2]] # NoCar
        /\ \/ stage = "a" /\ x[1] \notin pending
           \/ stage = "b" /\ Neighbour(x[1], x[2]) \in pending}

(* A car handed over lands on a free cell: whatever the spawns and moves   *)
(* of the node it enters, its cell is behind that link's last car.         *)
LandingRoom ==
    \A x \in InFlight :
        outbox[x[1]][x[2]].pos < EntryGap(road[Neighbour(x[1], x[2])][Opposite(x[2])])

Places ==
    {x \in Nodes \X Dirs \X (1 .. LinkCells) : x[3] <= Len(road[x[1]][x[2]])}

(* check_conservation, at every step: a car that was spawned is on a link, *)
(* handed over, exited or parked, and no car is in two places; and every   *)
(* crossing is in a frame or in the sensor count of the window.            *)
Conserved ==
    /\ Total("spawned") = Cardinality(Places) + Cardinality(InFlight)
                          + Total("exited") + Total("parked")
    /\ \A x, y \in Places : x # y => road[x[1]][x[2]][x[3]].id # road[y[1]][y[2]][y[3]].id
    /\ \A x \in Places, y \in InFlight : road[x[1]][x[2]][x[3]].id # outbox[y[1]][y[2]].id
    /\ \A n \in Nodes : frames[n] + count[n].sensor = count[n].crossed

\* Everything the step of node n in a phase reads.
ReadsA(n) == <<road[n], signal[n], count[n], [port \in Dirs |-> PortRoom(n, port)]>>
ReadsB(n) == <<road[n], signal[n], count[n], [d \in Dirs |-> Incoming(n, d)]>>

(* "Every backend computes bit-identical results": what the step of a node *)
(* reads is not changed by the step of any other node of its phase, nor by *)
(* a snapshot, so that every order of the nodes ends in one state.         *)
OrderIndependent ==
    [][\A n \in pending \intersect pending' :
          /\ stage = "a" /\ stage' = "a" => ReadsA(n)' = ReadsA(n)
          /\ stage = "b" /\ stage' = "b" => ReadsB(n)' = ReadsB(n)]_vars
=============================================================================
