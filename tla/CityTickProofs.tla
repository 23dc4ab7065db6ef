--------------------------- MODULE CityTickProofs ---------------------------
(***************************************************************************)
(* Proofs about CityTick, for every grid, length of the links, speed limit *)
(* and demand, and whatever is drawn: the inductive invariant Inv behind   *)
(* check_state and the landing of handed-over cars, the independence of    *)
(* the order of the nodes, and the conservation of cars (Kept).  At the    *)
(* end, the timing of one signal.                                          *)
(***************************************************************************)
EXTENDS CityTick, DataLemmas, SequenceTheorems, TLAPS

\* Rows and columns
LEMMA RowAndColumn ==
  ASSUME NEW n \in Nodes
  PROVE  /\ n \div Cols \in 0 .. Rows - 1
         /\ n % Cols \in 0 .. Cols - 1
         /\ n = ((n \div Cols) * Cols) + (n % Cols)
<1>1. n \in Nat /\ n < Rows * Cols /\ Cols \in Nat /\ Cols > 0 /\ Rows \in Nat
  BY GridAssumption DEF Nodes
<1>2. n % Cols \in 0 .. Cols - 1 /\ n \div Cols \in Int /\ n = ((n \div Cols) * Cols) + (n % Cols)
  BY <1>1
<1>3. ASSUME NEW q \in Int, q < 0, NEW c \in 0 .. Cols - 1 PROVE q * Cols + c < 0
  BY <1>1, <1>3
<1>4. ASSUME NEW q \in Int, q >= Rows, NEW c \in 0 .. Cols - 1 PROVE q * Cols + c >= Rows * Cols
  BY <1>1, <1>4
<1> QED
  BY <1>1, <1>2, <1>3, <1>4

\* The node in a given row and column
LEMMA PlaceOf ==
  ASSUME NEW r \in 0 .. Rows - 1, NEW c \in 0 .. Cols - 1
  PROVE  /\ r * Cols + c \in Nodes
         /\ (r * Cols + c) \div Cols = r
         /\ (r * Cols + c) % Cols = c
<1>1. Cols \in Nat /\ Cols > 0 /\ Rows \in Nat
  BY GridAssumption
<1>2. r * Cols + c \in Nodes
  BY <1>1 DEF Nodes
<1>3. PICK q \in Int, s \in 0 .. Cols - 1 :
        /\ r * Cols + c = q * Cols + s
        /\ q = (r * Cols + c) \div Cols /\ s = (r * Cols + c) % Cols
  BY <1>1, <1>2, RowAndColumn
<1>4. (r - q) * Cols = s - c
  BY <1>1, <1>3
<1>5. ~(r - q > 0)
  BY <1>1, <1>3, <1>4
<1>6. ~(r - q < 0)
  BY <1>1, <1>3, <1>4
<1> QED
  BY <1>1, <1>2, <1>3, <1>4, <1>5, <1>6

\* The neighbour on side d has its neighbour on the opposite side.
LEMMA NeighbourBack ==
  ASSUME NEW n \in Nodes, NEW d \in Dirs, Neighbour(n, d) # NoNode
  PROVE  /\ Neighbour(n, d) \in Nodes
         /\ Neighbour(Neighbour(n, d), Opposite(d)) = n
<1> DEFINE r == n \div Cols
           c == n % Cols
<1>1. /\ r \in 0 .. Rows - 1 /\ c \in 0 .. Cols - 1
      /\ n = r * Cols + c /\ Cols \in Nat /\ Cols > 0 /\ Rows \in Nat
  BY RowAndColumn, GridAssumption
<1>2. CASE d = 0
  <2>1. r > 0 /\ Neighbour(n, d) = n - Cols /\ Opposite(d) = 2
    BY <1>2 DEF Neighbour, Opposite, NoNode
  <2>2. n - Cols = (r - 1) * Cols + c /\ r - 1 \in 0 .. Rows - 1
    BY <1>1, <2>1
  <2>3. n - Cols \in Nodes /\ (n - Cols) \div Cols = r - 1
    BY <2>2, <1>1, PlaceOf
  <2>4. Neighbour(n - Cols, 2) = n - Cols + Cols
    BY <2>3, <1>1 DEF Neighbour
  <2> QED
    BY <2>1, <2>3, <2>4, <1>1
<1>3. CASE d = 1
  <2>1. c + 1 < Cols /\ Neighbour(n, d) = n + 1 /\ Opposite(d) = 3
    BY <1>3 DEF Neighbour, Opposite, NoNode
  <2>2. n + 1 = r * Cols + (c + 1) /\ c + 1 \in 0 .. Cols - 1
    BY <1>1, <2>1
  <2>3. n + 1 \in Nodes /\ (n + 1) % Cols = c + 1
    BY <2>2, <1>1, PlaceOf
  <2>4. Neighbour(n + 1, 3) = n + 1 - 1
    BY <2>3, <1>1 DEF Neighbour
  <2> QED
    BY <2>1, <2>3, <2>4, <1>1
<1>4. CASE d = 2
  <2>1. r + 1 < Rows /\ Neighbour(n, d) = n + Cols /\ Opposite(d) = 0
    BY <1>4 DEF Neighbour, Opposite, NoNode
  <2>2. n + Cols = (r + 1) * Cols + c /\ r + 1 \in 0 .. Rows - 1
    <3>1. (r + 1) * Cols = r * Cols + Cols
      BY <1>1
    <3> QED
      BY <1>1, <2>1, <3>1
  <2>3. n + Cols \in Nodes /\ (n + Cols) \div Cols = r + 1
    BY <2>2, <1>1, PlaceOf
  <2>4. Neighbour(n + Cols, 0) = n + Cols - Cols
    BY <2>3, <1>1 DEF Neighbour
  <2> QED
    BY <2>1, <2>3, <2>4, <1>1
<1>5. CASE d = 3
  <2>1. c > 0 /\ Neighbour(n, d) = n - 1 /\ Opposite(d) = 1
    BY <1>5 DEF Neighbour, Opposite, NoNode
  <2>2. n - 1 = r * Cols + (c - 1) /\ c - 1 \in 0 .. Cols - 1
    BY <1>1, <2>1
  <2>3. n - 1 \in Nodes /\ (n - 1) % Cols = c - 1
    BY <2>2, <1>1, PlaceOf
  <2>4. Neighbour(n - 1, 1) = n - 1 + 1
    BY <2>3, <1>1 DEF Neighbour
  <2> QED
    BY <2>1, <2>3, <2>4, <1>1
<1> QED
  BY <1>2, <1>3, <1>4, <1>5 DEF Dirs

-----------------------------------------------------------------------------
(* One link                                                                *)

\* The fields of a car
LEMMA CarFields ==
  ASSUME NEW car
  PROVE  car \in Cars <=>
           /\ car = [id |-> car.id, pos |-> car.pos, vel |-> car.vel, turn |-> car.turn]
           /\ car.id \in CarIds /\ car.pos \in 0 .. LinkCells - 1
           /\ car.vel \in 0 .. VMax /\ car.turn \in Turns
  BY DEF Cars

\* The cars of a link, field by field
LEMMA CarsOfLink ==
  ASSUME NEW link \in Seq(Cars)
  PROVE  /\ Len(link) \in Nat /\ DOMAIN link = 1 .. Len(link)
         /\ \A i \in 1 .. Len(link) :
              /\ link[i] \in Cars
              /\ link[i] = [id |-> link[i].id, pos |-> link[i].pos, vel |-> link[i].vel, turn |-> link[i].turn]
              /\ link[i].id \in CarIds /\ link[i].pos \in 0 .. LinkCells - 1
              /\ link[i].vel \in 0 .. VMax /\ link[i].turn \in Turns
         /\ link # <<>> => Len(link) > 0
<1>1. Len(link) \in Nat /\ DOMAIN link = 1 .. Len(link)
  BY LenProperties
<1>2. \A i \in 1 .. Len(link) : link[i] \in Cars
  BY ElementOfSeq
<1>3. link # <<>> => Len(link) > 0
  BY EmptySeq
<1> QED
  BY <1>1, <1>2, <1>3, CarFields

\* Every car of a link knows the room before it, and drives no further.
Safe(link, extra, speed) ==
  /\ speed \in [DOMAIN link -> 0 .. VMax]
  /\ \A i \in DOMAIN link : speed[i] <= GapAhead(link, i, extra)

Moved(link, speed) ==
  [i \in DOMAIN link |-> [link[i] EXCEPT !.pos = @ + speed[i], !.vel = speed[i]]]

\* A new speed is within the limit and the room.
LEMMA SpeedIsSafe ==
  ASSUME NEW vel \in 0 .. VMax, NEW room \in Nat, NEW brakes \in BOOLEAN
  PROVE  NaschSpeed(vel, room, brakes) \in 0 .. VMax /\ NaschSpeed(vel, room, brakes) <= room
  BY LinkAssumption DEF NaschSpeed, Smaller

\* The gap before a car of a link in order is no negative number.
LEMMA GapIsNat ==
  ASSUME NEW link \in Seq(Cars), CheckLink(link), NEW extra \in Nat, NEW i \in DOMAIN link
  PROVE  GapAhead(link, i, extra) \in Nat
<1>1. i \in 1 .. Len(link) /\ Len(link) \in Nat /\ \A k \in 1 .. Len(link) : link[k].pos \in 0 .. LinkCells - 1
  BY CarsOfLink
<1>2. CASE i = 1
  BY <1>1, <1>2, LinkAssumption DEF GapAhead
<1>3. CASE i # 1
  <2>1. i - 1 \in 1 .. Len(link) - 1 /\ i - 1 + 1 = i /\ i - 1 \in 1 .. Len(link)
    BY <1>1, <1>3
  <2>2. link[i].pos < link[i - 1].pos
    BY <2>1 DEF CheckLink
  <2> QED
    BY <1>1, <1>3, <2>1, <2>2 DEF GapAhead
<1> QED
  BY <1>2, <1>3

\* The cars behind the head stay behind where the car ahead was.
LEMMA MovedCars ==
  ASSUME NEW link \in Seq(Cars), CheckLink(link), link # <<>>, NEW extra \in Nat,
         NEW speed, Safe(link, extra, speed)
  PROVE  LET m == Moved(link, speed)
         IN  /\ Len(link) \in Nat /\ 1 \in 1 .. Len(link) /\ DOMAIN link = 1 .. Len(link)
             /\ DOMAIN m = 1 .. Len(link)
             /\ \A i \in 1 .. Len(link) :
                   /\ link[i].pos \in 0 .. LinkCells - 1 /\ link[i].vel \in 0 .. VMax
                   /\ m[i] = [id |-> link[i].id, pos |-> link[i].pos + speed[i],
                              vel |-> speed[i], turn |-> link[i].turn]
                   /\ link[i].id \in CarIds /\ link[i].turn \in Turns
                   /\ speed[i] \in 0 .. VMax
                   /\ m[i].pos \in Nat /\ m[i].pos >= link[i].pos
             /\ \A i \in 2 .. Len(link) : /\ m[i] \in Cars /\ m[i].pos < link[i - 1].pos
                                          /\ m[i].pos < m[i - 1].pos
             /\ m[1].pos <= LinkCells - 1 + extra
<1> DEFINE m == Moved(link, speed)
<1>1. Len(link) \in Nat /\ 1 \in 1 .. Len(link) /\ DOMAIN link = 1 .. Len(link) /\ DOMAIN m = 1 .. Len(link)
  BY CarsOfLink DEF Moved
<1>2. \A i \in 1 .. Len(link) :
        /\ link[i] = [id |-> link[i].id, pos |-> link[i].pos, vel |-> link[i].vel, turn |-> link[i].turn]
        /\ link[i].id \in CarIds /\ link[i].pos \in 0 .. LinkCells - 1
        /\ link[i].vel \in 0 .. VMax /\ link[i].turn \in Turns
  BY CarsOfLink
<1>3. \A i \in 1 .. Len(link) : speed[i] \in 0 .. VMax /\ speed[i] <= GapAhead(link, i, extra)
  BY <1>1 DEF Safe
<1>4. \A i \in 1 .. Len(link) :
        m[i] = [id |-> link[i].id, pos |-> link[i].pos + speed[i], vel |-> speed[i], turn |-> link[i].turn]
  <2> SUFFICES ASSUME NEW i \in 1 .. Len(link)
               PROVE  m[i] = [id |-> link[i].id, pos |-> link[i].pos + speed[i], vel |-> speed[i], turn |-> link[i].turn]
    OBVIOUS
  <2>1. m[i] = [link[i] EXCEPT !.pos = @ + speed[i], !.vel = speed[i]]
    BY <1>1 DEF Moved
  <2> QED
    BY <2>1, <1>2
<1> HIDE DEF m
<1>5. \A i \in 1 .. Len(link) :
        /\ m[i].id = link[i].id /\ m[i].vel = speed[i] /\ m[i].turn = link[i].turn
        /\ m[i].pos = link[i].pos + speed[i]
        /\ m[i].pos \in Nat /\ m[i].pos >= link[i].pos
  <2> SUFFICES ASSUME NEW i \in 1 .. Len(link)
               PROVE  /\ m[i].id = link[i].id /\ m[i].vel = speed[i] /\ m[i].turn = link[i].turn
                      /\ m[i].pos = link[i].pos + speed[i]
                      /\ m[i].pos \in Nat /\ m[i].pos >= link[i].pos
    OBVIOUS
  <2>1. link[i].pos \in Nat /\ speed[i] \in Nat
    <3>1. link[i].pos \in 0 .. LinkCells - 1 /\ speed[i] \in 0 .. VMax
      BY <1>2, <1>3
    <3> QED
      BY <3>1
  <2>2. m[i] = [id |-> link[i].id, pos |-> link[i].pos + speed[i], vel |-> speed[i], turn |-> link[i].turn]
    BY <1>4
  <2>3. /\ m[i].id = link[i].id /\ m[i].vel = speed[i] /\ m[i].turn = link[i].turn
        /\ m[i].pos = link[i].pos + speed[i]
    BY <2>2
  <2> QED
    BY <2>1, <2>3
<1>6. ASSUME NEW i \in 2 .. Len(link)
      PROVE  m[i] \in Cars /\ m[i].pos < link[i - 1].pos /\ m[i].pos < m[i - 1].pos
  <2>1. i \in 1 .. Len(link) /\ i - 1 \in 1 .. Len(link) /\ i # 1
    BY <1>1
  <2>2. speed[i] <= link[i - 1].pos - link[i].pos - 1
    BY <1>3, <2>1 DEF GapAhead
  <2>3. /\ link[i - 1].pos \in 0 .. LinkCells - 1 /\ link[i].pos \in 0 .. LinkCells - 1
        /\ speed[i] \in 0 .. VMax /\ link[i].id \in CarIds /\ link[i].turn \in Turns
    BY <1>2, <1>3, <2>1
  <2>4. m[i].pos = link[i].pos + speed[i] /\ m[i - 1].pos >= link[i - 1].pos /\ m[i - 1].pos \in Nat
    BY <1>5, <2>1
  <2>5. m[i].pos \in 0 .. LinkCells - 1 /\ m[i].pos < link[i - 1].pos /\ m[i].pos < m[i - 1].pos
    <3> DEFINE ahead == link[i - 1].pos
               from == link[i].pos
               to == m[i].pos
               before == m[i - 1].pos
               jump == speed[i]
    <3>1. /\ ahead \in 0 .. LinkCells - 1 /\ from \in 0 .. LinkCells - 1 /\ jump \in 0 .. VMax
          /\ jump <= (ahead - from) - 1 /\ to = from + jump /\ before >= ahead /\ before \in Nat
      BY <2>2, <2>3, <2>4
    <3> HIDE DEF ahead, from, to, before, jump
    <3>2. to \in 0 .. LinkCells - 1 /\ to < ahead /\ to < before
      BY <3>1, LinkAssumption
    <3> QED
      BY <3>2 DEF ahead, to, before
  <2>6. m[i] = [id |-> m[i].id, pos |-> m[i].pos, vel |-> m[i].vel, turn |-> m[i].turn]
    <3>1. m[i] = [id |-> link[i].id, pos |-> link[i].pos + speed[i], vel |-> speed[i], turn |-> link[i].turn]
      BY <1>4, <2>1
    <3> QED
      BY <3>1
  <2>7. m[i] \in Cars
    BY <1>5, <2>1, <2>3, <2>5, <2>6, CarFields
  <2> QED
    BY <2>5, <2>7
<1>7. m[1].pos <= LinkCells - 1 + extra
  <2>1. speed[1] <= LinkCells - 1 - link[1].pos + extra
    BY <1>1, <1>3 DEF GapAhead
  <2>2. link[1].pos \in 0 .. LinkCells - 1 /\ speed[1] \in 0 .. VMax /\ m[1].pos = link[1].pos + speed[1]
    BY <1>1, <1>2, <1>3, <1>5
  <2> QED
    BY <2>1, <2>2, LinkAssumption
<1> QED
  BY <1>1, <1>2, <1>3, <1>4, <1>5, <1>6, <1>7 DEF m

\* A link in order whose last car is not behind where the last car of another one is
Behind(link, other) ==
  /\ other \in Seq(Cars) /\ CheckLink(other)
  /\ EntryGap(link) <= EntryGap(other)

\* Every link of the city is a sequence of cars.
LEMMA RoadsHoldCars ==
  ASSUME TypeOK, NEW n \in Nodes, NEW d \in Dirs
  PROVE  road[n][d] \in Seq(Cars)
  BY DEF TypeOK

\* The entry gap of a link
LEMMA EntryGapRange ==
  ASSUME NEW link \in Seq(Cars)
  PROVE  EntryGap(link) \in 0 .. LinkCells
<1>1. CASE link = <<>>
  BY <1>1, LinkAssumption DEF EntryGap
<1>2. CASE link # <<>>
  <2>1. Len(link) \in 1 .. Len(link)
    BY <1>2, CarsOfLink
  <2>2. link[Len(link)].pos \in 0 .. LinkCells - 1
    BY <2>1, CarsOfLink
  <2> QED
    BY <1>2, <2>2, LinkAssumption DEF EntryGap
<1> QED
  BY <1>1, <1>2

\* No car asks: the head stays on the link.
LEMMA MovedIsBehind ==
  ASSUME NEW link \in Seq(Cars), CheckLink(link), link # <<>>, NEW extra \in Nat,
         NEW speed, Safe(link, extra, speed), link[1].pos + speed[1] <= LinkCells - 1
  PROVE  Behind(link, Moved(link, speed))
<1> DEFINE m == Moved(link, speed)
<1>1. /\ Len(link) \in Nat /\ 1 \in 1 .. Len(link) /\ DOMAIN link = 1 .. Len(link)
      /\ DOMAIN m = 1 .. Len(link) /\ m = [i \in 1 .. Len(link) |-> m[i]]
      /\ \A i \in 1 .. Len(link) : m[i].pos \in Nat /\ m[i].pos >= link[i].pos /\ link[i].pos \in 0 .. LinkCells - 1
      /\ \A i \in 2 .. Len(link) : m[i] \in Cars /\ m[i].pos < m[i - 1].pos
      /\ m[1] = [id |-> link[1].id, pos |-> link[1].pos + speed[1], vel |-> speed[1], turn |-> link[1].turn]
      /\ link[1].id \in CarIds /\ link[1].turn \in Turns /\ speed[1] \in 0 .. VMax
  <2>1. m = [i \in 1 .. Len(link) |-> m[i]]
    BY CarsOfLink DEF Moved
  <2>2. /\ Len(link) \in Nat /\ 1 \in 1 .. Len(link) /\ DOMAIN link = 1 .. Len(link)
        /\ DOMAIN m = 1 .. Len(link)
        /\ \A i \in 1 .. Len(link) : m[i].pos \in Nat /\ m[i].pos >= link[i].pos /\ link[i].pos \in 0 .. LinkCells - 1
        /\ \A i \in 2 .. Len(link) : m[i] \in Cars /\ m[i].pos < m[i - 1].pos
    BY MovedCars
  <2>3. \A i \in 1 .. Len(link) :
          /\ m[i] = [id |-> link[i].id, pos |-> link[i].pos + speed[i], vel |-> speed[i], turn |-> link[i].turn]
          /\ link[i].id \in CarIds /\ link[i].turn \in Turns /\ speed[i] \in 0 .. VMax
    BY MovedCars
  <2> HIDE DEF m
  <2> QED
    BY <2>1, <2>2, <2>3
<1>2. m[1] \in Cars
  <2>1. link[1].pos + speed[1] \in 0 .. LinkCells - 1
    BY <1>1, LinkAssumption
  <2> QED
    BY <1>1, <2>1 DEF Cars
<1> HIDE DEF m
<1>3. ASSUME NEW i \in 1 .. Len(link) PROVE m[i] \in Cars
  <2>1. i = 1 \/ i \in 2 .. Len(link)
    BY <1>1
  <2> QED
    BY <1>1, <1>2, <2>1
<1>4. m \in Seq(Cars) /\ Len(m) = Len(link)
  <2>1. m \in [1 .. Len(link) -> Cars]
    BY <1>1, <1>3
  <2> QED
    BY <1>1, <2>1, LenProperties
<1>5. CheckLink(m)
  <2> SUFFICES ASSUME NEW i \in 1 .. Len(m) - 1 PROVE m[i + 1].pos < m[i].pos
    BY DEF CheckLink
  <2>1. i + 1 \in 2 .. Len(link) /\ (i + 1) - 1 = i
    BY <1>1, <1>4
  <2> QED
    BY <1>1, <2>1
<1>6. EntryGap(link) <= EntryGap(m)
  <2>1. m # <<>> /\ Len(link) \in 1 .. Len(link)
    BY <1>1, <1>4
  <2> QED
    BY <1>1, <1>4, <2>1 DEF EntryGap
<1> QED
  BY <1>4, <1>5, <1>6 DEF m, Behind

Stopped(link) == [link[1] EXCEPT !.pos = LinkCells - 1, !.vel = LinkCells - 1 - link[1].pos]

\* The head asks in vain: it stops at its line.
LEMMA StoppedIsBehind ==
  ASSUME NEW link \in Seq(Cars), CheckLink(link), link # <<>>, NEW extra \in Nat,
         NEW speed, Safe(link, extra, speed), link[1].pos + speed[1] > LinkCells - 1
  PROVE  Behind(link, [Moved(link, speed) EXCEPT ![1] = Stopped(link)])
<1> DEFINE m == Moved(link, speed)
           s == [m EXCEPT ![1] = Stopped(link)]
<1>1. /\ Len(link) \in Nat /\ 1 \in 1 .. Len(link) /\ DOMAIN link = 1 .. Len(link)
      /\ DOMAIN m = 1 .. Len(link) /\ m = [i \in 1 .. Len(link) |-> m[i]]
      /\ \A i \in 1 .. Len(link) : m[i].pos \in Nat /\ m[i].pos >= link[i].pos /\ link[i].pos \in 0 .. LinkCells - 1
      /\ \A i \in 2 .. Len(link) : /\ m[i] \in Cars /\ m[i].pos < m[i - 1].pos
                                   /\ m[i].pos < link[i - 1].pos
      /\ link[1].id \in CarIds /\ link[1].turn \in Turns /\ speed[1] \in 0 .. VMax
  BY MovedCars DEF Moved
<1>2. Stopped(link) \in Cars /\ Stopped(link).pos = LinkCells - 1
  <2>1. Stopped(link) = [id |-> link[1].id, pos |-> LinkCells - 1, vel |-> LinkCells - 1 - link[1].pos, turn |-> link[1].turn]
    <3>1. link[1] \in Cars
      BY <1>1, CarsOfLink
    <3> DEFINE c == Stopped(link)
    <3>2. c = [link[1] EXCEPT !.pos = LinkCells - 1, !.vel = LinkCells - 1 - link[1].pos]
      BY DEF Stopped
    <3>3. link[1] = [id |-> link[1].id, pos |-> link[1].pos, vel |-> link[1].vel, turn |-> link[1].turn]
      BY <3>1, CarFields
    <3> HIDE DEF c
    <3>4. c = [id |-> link[1].id, pos |-> LinkCells - 1, vel |-> LinkCells - 1 - link[1].pos, turn |-> link[1].turn]
      BY <3>2, <3>3
    <3> QED
      BY <3>4 DEF c
  <2>2. LinkCells - 1 - link[1].pos \in 0 .. VMax /\ LinkCells - 1 \in 0 .. LinkCells - 1
    BY <1>1, LinkAssumption
  <2> QED
    BY <1>1, <2>1, <2>2 DEF Cars
<1> HIDE DEF m
<1>3. s = [i \in 1 .. Len(link) |-> IF i = 1 THEN Stopped(link) ELSE m[i]]
  BY <1>1
<1> HIDE DEF s
<1>4. \A i \in 1 .. Len(link) : s[i] \in Cars /\ s[i].pos \in Nat /\ s[i].pos >= link[i].pos
  <2> SUFFICES ASSUME NEW i \in 1 .. Len(link)
               PROVE  s[i] \in Cars /\ s[i].pos \in Nat /\ s[i].pos >= link[i].pos
    OBVIOUS
  <2>1. CASE i = 1
    BY <1>1, <1>2, <1>3, <2>1, LinkAssumption
  <2>2. CASE i # 1
    <3>1. i \in 2 .. Len(link) /\ s[i] = m[i]
      BY <1>1, <1>3, <2>2
    <3> QED
      BY <1>1, <3>1
  <2> QED
    BY <2>1, <2>2
<1>5. s \in Seq(Cars) /\ Len(s) = Len(link)
  <2>1. s \in [1 .. Len(link) -> Cars]
    BY <1>3, <1>4
  <2> QED
    BY <1>1, <2>1, LenProperties
<1>6. CheckLink(s)
  <2> SUFFICES ASSUME NEW i \in 1 .. Len(s) - 1 PROVE s[i + 1].pos < s[i].pos
    BY DEF CheckLink
  <2>1. i + 1 \in 2 .. Len(link) /\ (i + 1) - 1 = i /\ i \in 1 .. Len(link)
    BY <1>1, <1>5
  <2>2. s[i + 1] = m[i + 1] /\ m[i + 1].pos < m[i].pos /\ m[i + 1].pos < link[i].pos
    <3>1. i + 1 \in 1 .. Len(link) /\ i + 1 # 1
      BY <2>1
    <3>2. s[i + 1] = m[i + 1]
      BY <1>3, <3>1
    <3>3. m[i + 1].pos < m[(i + 1) - 1].pos /\ m[i + 1].pos < link[(i + 1) - 1].pos
      BY <1>1, <2>1
    <3> QED
      BY <2>1, <3>2, <3>3
  <2>3. CASE i = 1
    <3>1. m[i + 1].pos < LinkCells - 1
      <4>1. link[i].pos \in 0 .. LinkCells - 1 /\ m[i + 1].pos \in Nat
        BY <1>1, <2>1
      <4> QED
        BY <4>1, <2>2, LinkAssumption
    <3> QED
      BY <1>2, <1>3, <2>2, <2>3, <3>1
  <2>4. CASE i # 1
    BY <1>3, <2>1, <2>2, <2>4
  <2> QED
    BY <2>3, <2>4
<1>7. EntryGap(link) <= EntryGap(s)
  <2>1. s # <<>> /\ Len(link) \in 1 .. Len(link)
    BY <1>1, <1>5
  <2> QED
    BY <1>4, <1>5, <2>1 DEF EntryGap
<1> QED
  BY <1>5, <1>6, <1>7 DEF s, m, Behind

\* The head has left the link.
LEMMA TailIsBehind ==
  ASSUME NEW link \in Seq(Cars), CheckLink(link), link # <<>>, NEW extra \in Nat,
         NEW speed, Safe(link, extra, speed)
  PROVE  Behind(link, Tail(Moved(link, speed)))
<1> DEFINE m == Moved(link, speed)
           t == Tail(m)
<1>1. /\ Len(link) \in Nat /\ 1 \in 1 .. Len(link) /\ DOMAIN link = 1 .. Len(link)
      /\ DOMAIN m = 1 .. Len(link) /\ m = [i \in 1 .. Len(link) |-> m[i]]
      /\ \A i \in 1 .. Len(link) : m[i].pos \in Nat /\ m[i].pos >= link[i].pos /\ link[i].pos \in 0 .. LinkCells - 1
      /\ \A i \in 2 .. Len(link) : m[i] \in Cars /\ m[i].pos < m[i - 1].pos
  BY MovedCars DEF Moved
<1> HIDE DEF m
<1>2. m \in Seq({m[i] : i \in 1 .. Len(link)}) /\ Len(m) = Len(link) /\ m # <<>>
  <2>1. m \in [1 .. Len(link) -> {m[i] : i \in 1 .. Len(link)}]
    BY <1>1
  <2> QED
    BY <1>1, <2>1, LenProperties
<1>3. /\ t \in Seq({m[i] : i \in 1 .. Len(link)}) /\ Len(t) = Len(link) - 1
      /\ \A i \in 1 .. Len(link) - 1 : t[i] = m[i + 1]
  BY <1>2, HeadTailProperties
<1> HIDE DEF t
<1>4. \A i \in 1 .. Len(link) - 1 : i + 1 \in 2 .. Len(link) /\ (i + 1) - 1 = i /\ i + 1 \in 1 .. Len(link)
  BY <1>1
<1>5. \A i \in 1 .. Len(link) - 1 : t[i] \in Cars /\ t[i].pos \in Nat /\ t[i].pos >= link[i + 1].pos
  BY <1>1, <1>3, <1>4
<1>6. t \in Seq(Cars)
  <2>1. t \in [1 .. Len(link) - 1 -> Cars] /\ Len(link) - 1 \in Nat
    BY <1>1, <1>3, <1>5, LenProperties
  <2> QED
    BY <2>1
<1>7. CheckLink(t)
  <2> SUFFICES ASSUME NEW i \in 1 .. Len(t) - 1 PROVE t[i + 1].pos < t[i].pos
    BY DEF CheckLink
  <2>1. i \in 1 .. Len(link) - 1 /\ i + 1 \in 1 .. Len(link) - 1
    BY <1>1, <1>3
  <2>2. (i + 1) + 1 \in 2 .. Len(link) /\ ((i + 1) + 1) - 1 = i + 1
    BY <2>1, <1>4
  <2>3. m[(i + 1) + 1].pos < m[i + 1].pos
    BY <1>1, <2>2
  <2> QED
    BY <1>3, <2>1, <2>3
<1>8. EntryGap(link) <= EntryGap(t)
  <2>0. link # <<>> /\ EntryGap(link) = link[Len(link)].pos
    BY DEF EntryGap
  <2>1. CASE Len(link) = 1
    <3>1. t = <<>>
      BY <1>3, <2>1, EmptySeq
    <3> QED
      BY <1>1, <2>0, <3>1, LinkAssumption DEF EntryGap
  <2>2. CASE Len(link) # 1
    <3>1. Len(link) - 1 \in 1 .. Len(link) - 1 /\ (Len(link) - 1) + 1 = Len(link) /\ t # <<>>
      BY <1>1, <1>3, <2>2
    <3>2. t[Len(link) - 1].pos >= link[Len(link)].pos
      BY <1>5, <3>1
    <3> QED
      BY <1>3, <2>0, <3>1, <3>2 DEF EntryGap
  <2> QED
    BY <2>1, <2>2
<1> QED
  BY <1>6, <1>7, <1>8 DEF t, m, Behind

-----------------------------------------------------------------------------
(* step_a of one node                                                      *)

Ordered == \A n \in Nodes, d \in Dirs : CheckLink(road[n][d])

\* What a car asks for past the stop line is there.
LEMMA PortRoomRange ==
  ASSUME TypeOK, NEW n \in Nodes, NEW port \in Dirs
  PROVE  /\ Opposite(port) \in Dirs
         /\ PortRoom(n, port) \in 0 .. LinkCells
<1>1. Opposite(port) \in Dirs
  BY DEF Opposite, Dirs
<1>2. CASE Neighbour(n, port) = NoNode
  BY <1>1, <1>2, LinkAssumption DEF PortRoom
<1>3. CASE Neighbour(n, port) # NoNode
  <2>1. Neighbour(n, port) \in Nodes
    BY <1>3, NeighbourBack
  <2> QED
    BY <1>1, <1>3, <2>1 DEF PortRoom, TypeOK
<1> QED
  BY <1>2, <1>3

\* A port is a direction, whatever the turn.
LEMMA ExitPortIsDir ==
  ASSUME NEW d \in Dirs, NEW turn
  PROVE  ExitPort(d, turn) \in Dirs
  BY DEF ExitPort, Dirs

\* A diverted head turns into an open port, and all heads have a turn.
LEMMA DivertIsTurn ==
  ASSUME NEW n \in Nodes, NEW d \in Dirs, NEW head \in Cars
  PROVE  Divert(n, d, head) \in Turns
<1> DEFINE blocked(turn) == PortRoom(n, ExitPort(d, turn)) = 0
           open == {turn \in Turns \ {"park", head.turn} : ~blocked(turn)}
<1>1. open \subseteq {"straight", "left", "right"}
  BY DEF Turns
<1> HIDE DEF open
<1>2. CASE open # {}
  <2>1. \E turn \in open : \A other \in open : Rank(turn) <= Rank(other)
    <3>1. CASE "straight" \in open
      BY <1>1, <3>1 DEF Rank
    <3>2. CASE "straight" \notin open /\ "left" \in open
      BY <1>1, <3>2 DEF Rank
    <3>3. CASE "straight" \notin open /\ "left" \notin open
      BY <1>1, <1>2, <3>3 DEF Rank
    <3> QED
      BY <3>1, <3>2, <3>3
  <2>2. (CHOOSE turn \in open : \A other \in open : Rank(turn) <= Rank(other)) \in open
    BY <2>1
  <2>3. (CHOOSE turn \in open : \A other \in open : Rank(turn) <= Rank(other)) \in Turns
    BY <2>2, <1>1 DEF Turns
  <2> QED
    BY <2>3, CarFields DEF Divert, open
<1>3. CASE open = {}
  BY <1>3, CarFields DEF Divert, open
<1> QED
  BY <1>2, <1>3

\* divert changes nothing but turns.
LEMMA DivertedLinks ==
  ASSUME TypeOK, Ordered, NEW n \in Nodes, NEW d \in Dirs
  PROVE  LET link == Links(n)[d]
         IN  /\ link \in Seq(Cars) /\ CheckLink(link)
             /\ Len(link) = Len(road[n][d])
             /\ link = <<>> <=> road[n][d] = <<>>
             /\ EntryGap(link) = EntryGap(road[n][d])
             /\ \A i \in 1 .. Len(link) : link[i].id = road[n][d][i].id
<1>1. road[n][d] \in Seq(Cars) /\ CheckLink(road[n][d])
  BY DEF TypeOK, Ordered
<1>2. CASE road[n][d] = <<>>
  BY <1>1, <1>2 DEF Links
<1>3. CASE road[n][d] # <<>>
  <2> DEFINE old == road[n][d]
             turn == Divert(n, d, old[1])
             c == [old[1] EXCEPT !.turn = turn]
             link == Links(n)[d]
  <2>1. 1 \in 1 .. Len(old) /\ old[1] \in Cars /\ turn \in Turns
    BY <1>1, <1>3, CarsOfLink, DivertIsTurn
  <2>2. old[1] = [id |-> old[1].id, pos |-> old[1].pos, vel |-> old[1].vel, turn |-> old[1].turn]
    BY <2>1, CarFields
  <2>3. c = [old[1] EXCEPT !.turn = turn]
    OBVIOUS
  <2>4. link = [old EXCEPT ![1] = c]
    BY <1>3 DEF Links
  <2> HIDE DEF c, turn, link
  <2>5. c = [id |-> old[1].id, pos |-> old[1].pos, vel |-> old[1].vel, turn |-> turn]
    BY <2>2, <2>3
  <2>6. c \in Cars /\ c.pos = old[1].pos /\ c.id = old[1].id
    BY <2>1, <2>5 DEF Cars
  <2>7. /\ link \in Seq(Cars) /\ Len(link) = Len(old)
        /\ \A i \in 1 .. Len(old) : link[i] = IF i = 1 THEN c ELSE old[i]
    BY <1>1, <2>1, <2>4, <2>6, ExceptSeq
  <2>8. \A i \in 1 .. Len(old) : link[i].pos = old[i].pos /\ link[i].id = old[i].id
    BY <2>6, <2>7
  <2>9. CheckLink(link)
    <3> SUFFICES ASSUME NEW i \in 1 .. Len(link) - 1 PROVE link[i + 1].pos < link[i].pos
      BY DEF CheckLink
    <3>1. i \in 1 .. Len(old) /\ i + 1 \in 1 .. Len(old) /\ i \in 1 .. Len(old) - 1
      BY <1>1, <2>7, LenProperties
    <3> QED
      BY <1>1, <2>8, <3>1 DEF CheckLink
  <2>10. link # <<>> /\ Len(old) \in 1 .. Len(old)
    BY <1>1, <2>1, <2>7, LenProperties
  <2>11. EntryGap(link) = EntryGap(old)
    BY <1>3, <2>7, <2>8, <2>10 DEF EntryGap
  <2> QED
    BY <1>3, <2>7, <2>8, <2>9, <2>10, <2>11 DEF link
<1> QED
  BY <1>2, <1>3

\* All speeds are safe for the room that the head has.
LEMMA SpeedsAreSafe ==
  ASSUME TypeOK, Ordered, NEW n \in Nodes, NEW brake, NEW d \in Dirs, Links(n)[d] # <<>>
  PROVE  LET link == Links(n)[d]
         IN  /\ HeadExtra(n, d, link[1]) \in Nat
             /\ Safe(link, HeadExtra(n, d, link[1]), Speeds(n, Links(n), brake)[d])
<1> DEFINE link == Links(n)[d]
           extra == HeadExtra(n, d, link[1])
           speed == Speeds(n, Links(n), brake)[d]
<1>1. link \in Seq(Cars) /\ CheckLink(link) /\ 1 \in 1 .. Len(link) /\ DOMAIN link = 1 .. Len(link)
  BY DivertedLinks, CarsOfLink
<1>2. extra \in Nat
  BY LinkAssumption, PortRoomRange, ExitPortIsDir DEF HeadExtra
<1>3. speed = [i \in DOMAIN link |->
                 NaschSpeed(link[i].vel, GapAhead(link, i, extra), link[i].id \in brake)]
  BY DEF Speeds
<1> HIDE DEF link, extra, speed
<1>4. ASSUME NEW i \in DOMAIN link
      PROVE  speed[i] \in 0 .. VMax /\ speed[i] <= GapAhead(link, i, extra)
  <2>1. link[i].vel \in 0 .. VMax /\ GapAhead(link, i, extra) \in Nat
    BY <1>1, <1>2, CarsOfLink, GapIsNat
  <2>2. speed[i] = NaschSpeed(link[i].vel, GapAhead(link, i, extra), link[i].id \in brake)
    BY <1>3
  <2>3. (link[i].id \in brake) \in BOOLEAN
    OBVIOUS
  <2> QED
    BY <2>1, <2>2, <2>3, SpeedIsSafe
<1> QED
  BY <1>2, <1>3, <1>4 DEF Safe, link, extra, speed

\* The links of a node after step_a.
LEMMA RoadAfterA ==
  ASSUME TypeOK, Ordered, NEW n \in Nodes, NEW brake
  PROVE  /\ AfterA(n, brake).road \in [Dirs -> Seq(Cars)]
         /\ \A d \in Dirs : Behind(road[n][d], AfterA(n, brake).road[d])
<1> DEFINE links == Links(n)
           speeds == Speeds(n, links, brake)
           asking == Asking(links, speeds)
           granted == Grants(links, asking)
           new == AfterA(n, brake).road
<1>1. new = [d \in Dirs |->
               IF d \in granted THEN Tail(Moved(links[d], speeds[d]))
               ELSE IF d \in asking THEN [Moved(links[d], speeds[d]) EXCEPT ![1] = Stopped(links[d])]
               ELSE Moved(links[d], speeds[d])]
  BY DEF AfterA, Moved, Stopped
<1>2. granted \subseteq asking
  BY DEF Grants
<1>3. asking = {d \in Dirs : links[d] # <<>> /\ links[d][1].pos + speeds[d][1] > LinkCells - 1}
  BY DEF Asking
<1> SUFFICES ASSUME NEW d \in Dirs PROVE Behind(road[n][d], new[d])
  BY <1>1 DEF Behind
<1> DEFINE link == links[d]
           extra == HeadExtra(n, d, link[1])
           speed == speeds[d]
<1>4. /\ link \in Seq(Cars) /\ CheckLink(link) /\ EntryGap(link) = EntryGap(road[n][d])
  BY DivertedLinks
<1>5. CASE link = <<>>
  <2>1. d \notin asking /\ d \notin granted
    BY <1>2, <1>3, <1>5
  <2>2. new[d] = Moved(link, speed)
    BY <1>1, <2>1
  <2>3. Moved(link, speed) = <<>>
    BY <1>5 DEF Moved
  <2>4. new[d] \in Seq(Cars) /\ new[d] = link
    BY <1>4, <1>5, <2>2, <2>3
  <2>5. EntryGap(road[n][d]) \in 0 .. LinkCells
    <3>1. road[n][d] \in Seq(Cars)
      BY RoadsHoldCars
    <3> QED
      BY <3>1, EntryGapRange
  <2> HIDE DEF links, link, new
  <2>6. EntryGap(new[d]) = EntryGap(road[n][d]) /\ CheckLink(new[d])
    BY <1>4, <2>4
  <2> QED
    BY <2>4, <2>5, <2>6, LinkAssumption DEF Behind
<1>6. CASE link # <<>>
  <2>1. extra \in Nat /\ Safe(link, extra, speed)
    BY <1>6, SpeedsAreSafe
  <2>2. CASE d \in granted
    <3>1. new[d] = Tail(Moved(link, speed))
      BY <1>1, <2>2
    <3>2. Behind(link, new[d])
      BY <1>4, <1>6, <2>1, <3>1, TailIsBehind
    <3> QED
      BY <1>4, <3>2 DEF Behind
  <2>3. CASE d \notin granted /\ d \in asking
    <3>1. new[d] = [Moved(link, speed) EXCEPT ![1] = Stopped(link)]
      BY <1>1, <2>3
    <3>2. link[1].pos + speed[1] > LinkCells - 1
      BY <1>3, <2>3
    <3>3. Behind(link, new[d])
      BY <1>4, <1>6, <2>1, <3>1, <3>2, StoppedIsBehind
    <3> QED
      BY <1>4, <3>3 DEF Behind
  <2>4. CASE d \notin asking
    <3>1. new[d] = Moved(link, speed)
      BY <1>1, <1>2, <2>4
    <3>2. ~(link[1].pos + speed[1] > LinkCells - 1)
      BY <1>3, <1>6, <2>4
    <3>3. link[1].pos + speed[1] \in Int
      <4>1. /\ link \in Seq(Cars) /\ CheckLink(link) /\ link # <<>>
            /\ extra \in Nat /\ Safe(link, extra, speed)
        BY <1>4, <1>6, <2>1
      <4> HIDE DEF link, extra, speed
      <4>2. 1 \in 1 .. Len(link) /\ \A i \in 1 .. Len(link) : /\ link[i].pos \in 0 .. LinkCells - 1
                                                             /\ speed[i] \in 0 .. VMax
        BY <4>1, MovedCars
      <4> QED
        BY <4>2, LinkAssumption
    <3>4. link[1].pos + speed[1] <= LinkCells - 1
      BY <3>2, <3>3, LinkAssumption
    <3>5. Behind(link, new[d])
      BY <1>4, <1>6, <2>1, <3>1, <3>4, MovedIsBehind
    <3> QED
      BY <1>4, <3>5 DEF Behind
  <2> QED
    BY <2>2, <2>3, <2>4
<1> QED
  BY <1>5, <1>6

\* A car that step_a puts into the outbox has a node to go to, and lands before
\* the last car of the link it enters, as published.
Fits(n, port, car) ==
  car # NoCar => /\ Neighbour(n, port) # NoNode
                 /\ car.pos < gap[Neighbour(n, port)][Opposite(port)]

\* A car that is handed over counts its cells from the next stop line.
Handed(head) == [head EXCEPT !.pos = @ - LinkCells]

\* The car in the outbox: its position counts from the start of the next link.
LEMMA HandedCar ==
  ASSUME NEW i, NEW p, NEW v, NEW t, NEW head,
         head = [id |-> i, pos |-> p, vel |-> v, turn |-> t]
  PROVE  Handed(head) = [id |-> i, pos |-> p - LinkCells, vel |-> v, turn |-> t]
<1> DEFINE car == Handed(head)
<1>1. head.pos - LinkCells = p - LinkCells
  OBVIOUS
<1>2. car = [head EXCEPT !.pos = head.pos - LinkCells]
  BY DEF Handed
<1> HIDE DEF car
<1>3. car = [id |-> i, pos |-> p - LinkCells, vel |-> v, turn |-> t]
  BY <1>1, <1>2
<1> QED
  BY <1>3 DEF car

\* What step_a hands out fits: each car lands before the gap it asked for.
LEMMA OutboxAfterA ==
  ASSUME TypeOK, Ordered, NEW n \in Nodes, NEW brake
  PROVE  /\ AfterA(n, brake).outbox \in [Dirs -> Cars \union {NoCar}]
         /\ \A port \in Dirs : Fits(n, port, AfterA(n, brake).outbox[port])
<1> DEFINE links == Links(n)
           speeds == Speeds(n, links, brake)
           asking == Asking(links, speeds)
           granted == Grants(links, asking)
           crossing == {d \in granted : ~Parks(links[d])}
           leaving == {d \in crossing : Neighbour(n, Port(d, links[d])) = NoNode}
           handed(d) == Handed(Moved(links[d], speeds[d])[1])
           sent(port) == {d \in crossing \ leaving : Port(d, links[d]) = port}
           new == AfterA(n, brake).outbox
<1>1. new = [port \in Dirs |->
               IF sent(port) = {} THEN NoCar
               ELSE handed(CHOOSE d \in sent(port) : \A e \in sent(port) : e <= d)]
  BY DEF AfterA, Moved, Handed
<1>2. granted \subseteq asking
  BY DEF Grants
<1>3. asking = {d \in Dirs : links[d] # <<>> /\ links[d][1].pos + speeds[d][1] > LinkCells - 1}
  BY DEF Asking
<1>4. ASSUME NEW port \in Dirs, NEW d \in sent(port)
      PROVE  handed(d) \in Cars /\ Fits(n, port, handed(d))
  <2> DEFINE link == links[d]
             extra == HeadExtra(n, d, link[1])
             speed == speeds[d]
             next == Neighbour(n, port)
             room == gap[next][Opposite(port)]
             head == Moved(link, speed)[1]
             car == handed(d)
  <2>1. /\ d \in Dirs /\ link # <<>> /\ link[1].pos + speed[1] > LinkCells - 1
        /\ ~Parks(link) /\ Port(d, link) = port /\ next # NoNode
    BY <1>2, <1>3
  <2>2. /\ link \in Seq(Cars) /\ CheckLink(link) /\ extra \in Nat /\ Safe(link, extra, speed)
    BY <2>1, DivertedLinks, SpeedsAreSafe
  <2>3. /\ 1 \in 1 .. Len(link) /\ link[1].pos \in 0 .. LinkCells - 1
        /\ link[1].id \in CarIds /\ link[1].turn \in Turns
        /\ Moved(link, speed)[1] = [id |-> link[1].id, pos |-> link[1].pos + speed[1],
                                    vel |-> speed[1], turn |-> link[1].turn]
        /\ speed[1] \in 0 .. VMax /\ speed[1] <= LinkCells - 1 - link[1].pos + extra
    <3>1. /\ link \in Seq(Cars) /\ CheckLink(link) /\ link # <<>>
          /\ extra \in Nat /\ Safe(link, extra, speed)
      BY <2>1, <2>2
    <3> HIDE DEF link, extra, speed
    <3>2. /\ 1 \in 1 .. Len(link) /\ DOMAIN link = 1 .. Len(link)
          /\ \A i \in 1 .. Len(link) :
                /\ link[i].pos \in 0 .. LinkCells - 1
                /\ Moved(link, speed)[i] = [id |-> link[i].id, pos |-> link[i].pos + speed[i],
                                            vel |-> speed[i], turn |-> link[i].turn]
                /\ link[i].id \in CarIds /\ link[i].turn \in Turns
                /\ speed[i] \in 0 .. VMax
      BY <3>1, MovedCars
    <3>3. speed[1] <= LinkCells - 1 - link[1].pos + extra
      BY <3>1, <3>2 DEF Safe, GapAhead
    <3> QED
      BY <3>2, <3>3
  <2>5. extra = room
    <3>1. extra # 0
      BY <2>1, <2>3, LinkAssumption
    <3>2. extra = PortRoom(n, port)
      BY <2>1, <3>1 DEF HeadExtra, Parks, Port
    <3> QED
      BY <2>1, <3>2 DEF PortRoom
  <2>6. room \in 0 .. LinkCells
    <3>1. next \in Nodes /\ Opposite(port) \in Dirs
      BY <2>1, NeighbourBack, PortRoomRange
    <3> QED
      BY <3>1 DEF TypeOK
  <2>7. head = [id |-> link[1].id, pos |-> link[1].pos + speed[1], vel |-> speed[1], turn |-> link[1].turn]
    BY <2>3
  <2>8. car = Handed(head)
    OBVIOUS
  <2> HIDE DEF link, extra, speed, next, room, head, car
  <2>9. car = [id |-> link[1].id, pos |-> (link[1].pos + speed[1]) - LinkCells, vel |-> speed[1], turn |-> link[1].turn]
    <3>1. Handed(head) = [id |-> link[1].id, pos |-> (link[1].pos + speed[1]) - LinkCells,
                          vel |-> speed[1], turn |-> link[1].turn]
      BY <2>7, HandedCar
    <3> QED
      BY <2>8, <3>1
  <2>10. /\ (link[1].pos + speed[1]) - LinkCells \in 0 .. LinkCells - 1
         /\ (link[1].pos + speed[1]) - LinkCells < room
    <3> DEFINE from == link[1].pos
               jump == speed[1]
    <3>1. /\ from \in Nat /\ jump \in Nat /\ room \in 0 .. LinkCells
          /\ from + jump > LinkCells - 1 /\ (from + jump) - LinkCells < room
      BY <2>1, <2>3, <2>5, <2>6, LinkAssumption
    <3> HIDE DEF from, jump
    <3>2. (from + jump) - LinkCells \in 0 .. LinkCells - 1
      BY <3>1, LinkAssumption
    <3> QED
      BY <3>1, <3>2 DEF from, jump
  <2>11. car \in Cars /\ car.pos < room
    BY <2>3, <2>9, <2>10 DEF Cars
  <2> QED
    BY <2>1, <2>11 DEF Fits, car, next, room
<1> HIDE DEF sent, handed
<1>5. ASSUME NEW port \in Dirs
      PROVE  new[port] \in Cars \union {NoCar} /\ Fits(n, port, new[port])
  <2>1. CASE sent(port) = {}
    BY <1>1, <2>1 DEF Fits
  <2>2. CASE sent(port) # {}
    <3> DEFINE last == CHOOSE d \in sent(port) : \A e \in sent(port) : e <= d
    <3>1. \E d \in sent(port) : \A e \in sent(port) : e <= d
      <4>1. sent(port) \subseteq {0, 1, 2, 3}
        BY <1>2, <1>3 DEF sent, Dirs
      <4>2. CASE 3 \in sent(port)
        BY <4>1, <4>2
      <4>3. CASE 3 \notin sent(port) /\ 2 \in sent(port)
        BY <4>1, <4>3
      <4>4. CASE 3 \notin sent(port) /\ 2 \notin sent(port) /\ 1 \in sent(port)
        BY <4>1, <4>4
      <4>5. CASE 3 \notin sent(port) /\ 2 \notin sent(port) /\ 1 \notin sent(port)
        BY <2>2, <4>1, <4>5
      <4> QED
        BY <4>2, <4>3, <4>4, <4>5
    <3>2. last \in sent(port)
      BY <3>1
    <3>3. new[port] = handed(last)
      BY <1>1, <2>2
    <3> QED
      BY <1>4, <3>2, <3>3
  <2> QED
    BY <2>1, <2>2
<1>6. new \in [Dirs -> Cars \union {NoCar}]
  <2>1. new = [port \in Dirs |-> new[port]]
    BY <1>1
  <2> QED
    BY <1>5, <2>1
<1> QED
  BY <1>5, <1>6, Zenon

Counters == [spawned : Nat, exited : Nat, parked : Nat, crossed : Nat, sensor : Nat]

\* Counters count at most four approaches.
LEMMA PartOfDirs ==
  ASSUME NEW S \in SUBSET Dirs
  PROVE  IsFiniteSet(S) /\ Cardinality(S) \in Nat
<1>1. IsFiniteSet(Dirs)
  <2>1. 0 \in Int /\ 3 \in Int
    OBVIOUS
  <2>2. IsFiniteSet(0 .. 3)
    BY <2>1, FS_Interval
  <2> QED
    BY <2>2 DEF Dirs
<1> QED
  BY <1>1, FS_Subset, FS_CardinalityType

\* The approaches whose head may leave its link in step_a of n, those of them
\* whose head crosses, and whose head leaves the city or is handed over.
Granted(n, brake) == LET speeds == Speeds(n, Links(n), brake)
                     IN  Grants(Links(n), Asking(Links(n), speeds))
Crossing(n, brake) == {d \in Granted(n, brake) : ~Parks(Links(n)[d])}
Leaving(n, brake) == {d \in Crossing(n, brake) : Neighbour(n, Port(d, Links(n)[d])) = NoNode}
HandedOver(n, brake) == Crossing(n, brake) \ Leaving(n, brake)

\* The counters of a node after step_a: a crossing counts for the sensor too,
\* and who leaves its link parks, leaves the city or is handed over.
LEMMA CountAfterA ==
  ASSUME TypeOK, NEW n \in Nodes, NEW brake
  PROVE  LET old == count[n]
             new == AfterA(n, brake).count
         IN  /\ new \in Counters
             /\ new.spawned = old.spawned
             /\ new.crossed - old.crossed = new.sensor - old.sensor
             /\ IsFiniteSet(Granted(n, brake))
             /\ Cardinality(HandedOver(n, brake)) \in Nat /\ Cardinality(Granted(n, brake)) \in Nat
             /\ Cardinality(Granted(n, brake)) =
                  (new.parked - old.parked) + (new.exited - old.exited) + Cardinality(HandedOver(n, brake))
<1> DEFINE granted == Granted(n, brake)
           crossing == Crossing(n, brake)
           leaving == Leaving(n, brake)
           old == count[n]
           new == AfterA(n, brake).count
           parked == Cardinality(granted \ crossing)
           crossed == Cardinality(crossing)
           exited == Cardinality(leaving)
           handed == Cardinality(crossing \ leaving)
<1>1. new = [old EXCEPT !.parked  = @ + parked, !.sensor = @ + crossed,
                        !.crossed = @ + crossed, !.exited = @ + exited]
  BY DEF AfterA, Granted, Crossing, Leaving
<1>2. granted \subseteq Dirs /\ crossing \subseteq granted /\ leaving \subseteq crossing
  BY DEF Granted, Crossing, Leaving, Grants, Asking
<1>3. old \in Counters
  BY DEF TypeOK, Counters
<1> HIDE DEF granted, crossing, leaving
<1>4. IsFiniteSet(granted) /\ IsFiniteSet(crossing)
  BY <1>2, PartOfDirs
<1>5. /\ Cardinality(granted) = parked + crossed /\ crossed = handed + exited
      /\ parked \in Nat /\ crossed \in Nat /\ exited \in Nat /\ handed \in Nat
  BY <1>2, <1>4, SizeOfRest
<1> HIDE DEF parked, crossed, exited, handed, old, new
<1>6. new = [spawned |-> old.spawned, exited |-> old.exited + exited, parked |-> old.parked + parked,
             crossed |-> old.crossed + crossed, sensor |-> old.sensor + crossed]
  BY <1>1, <1>3 DEF Counters
<1>7. /\ old.spawned \in Nat /\ old.exited \in Nat /\ old.parked \in Nat
      /\ old.crossed \in Nat /\ old.sensor \in Nat
  BY <1>3 DEF Counters
<1>8. /\ new \in Counters /\ new.spawned = old.spawned
      /\ new.crossed - old.crossed = new.sensor - old.sensor
      /\ new.parked - old.parked = parked /\ new.exited - old.exited = exited
  BY <1>5, <1>6, <1>7 DEF Counters
<1>9. Cardinality(granted) \in Nat /\ Cardinality(granted) = parked + exited + handed
  BY <1>5
<1> QED
  BY <1>4, <1>5, <1>8, <1>9 DEF granted, crossing, leaving, handed, old, new, HandedOver

-----------------------------------------------------------------------------
(* step_b of one node                                                      *)

\* A car put behind a link is its last one.
LEMMA LastCar ==
  ASSUME NEW link \in Seq(Cars), NEW car \in Cars
  PROVE  /\ Len(link) \in Nat /\ Len(link \o <<car>>) = Len(link) + 1
         /\ \A i \in 1 .. Len(link) : (link \o <<car>>)[i] = link[i]
         /\ (link \o <<car>>)[Len(link) + 1] = car
<1>1. <<car>> \in Seq(Cars) /\ Len(<<car>>) = 1 /\ <<car>>[1] = car
  OBVIOUS
<1>2. Len(link) \in Nat
  BY LenProperties
<1>3. Len(link) + 1 \in 1 .. Len(link) + 1 /\ ~(Len(link) + 1 <= Len(link)) /\ (Len(link) + 1) - Len(link) = 1
  BY <1>2
<1>4. \A i \in 1 .. Len(link) : i \in 1 .. Len(link) + 1 /\ i <= Len(link)
  BY <1>2
<1> QED
  BY <1>1, <1>2, <1>3, <1>4, ConcatProperties

\* A car that stands before the last car of a link is its last car after it.
LEMMA CarEnters ==
  ASSUME NEW link \in Seq(Cars), CheckLink(link), NEW car \in Cars, car.pos < EntryGap(link)
  PROVE  /\ link \o <<car>> \in Seq(Cars)
         /\ CheckLink(link \o <<car>>)
<1> DEFINE new == link \o <<car>>
<1>1. /\ Len(link) \in Nat /\ new \in Seq(Cars) /\ Len(new) = Len(link) + 1
      /\ \A i \in 1 .. Len(link) : new[i] = link[i]
      /\ new[Len(link) + 1] = car
  <2>1. <<car>> \in Seq(Cars)
    OBVIOUS
  <2> QED
    BY <2>1, LastCar, ConcatProperties
<1> HIDE DEF new
<1>2. CheckLink(new)
  <2> SUFFICES ASSUME NEW i \in 1 .. Len(new) - 1 PROVE new[i + 1].pos < new[i].pos
    BY DEF CheckLink
  <2>1. i \in 1 .. Len(link) /\ (i = Len(link) \/ i \in 1 .. Len(link) - 1)
    BY <1>1
  <2>2. CASE i = Len(link)
    <3>1. link # <<>>
      BY <2>1, EmptySeq
    <3>2. EntryGap(link) = link[i].pos
      BY <2>2, <3>1 DEF EntryGap
    <3> QED
      BY <1>1, <2>1, <2>2, <3>2
  <2>3. CASE i \in 1 .. Len(link) - 1
    <3>1. i + 1 \in 1 .. Len(link)
      BY <1>1, <2>3
    <3> QED
      BY <1>1, <2>1, <2>3, <3>1 DEF CheckLink
  <2> QED
    BY <2>1, <2>2, <2>3
<1> QED
  BY <1>1, <1>2 DEF new

(* Every car handed over and not yet taken has a node to go to, and lands  *)
(* behind the last car of the link it enters, as that link was published.  *)
HandedRoom == \A x \in InFlight : Fits(x[1], x[2], outbox[x[1]][x[2]])

\* No published gap is longer than the gap there is.
PublishedGaps == \A n \in Nodes, d \in Dirs : gap[n][d] <= EntryGap(road[n][d])

\* The car that a pending node takes from a neighbour
LEMMA IncomingCar ==
  ASSUME TypeOK, HandedRoom, PublishedGaps, stage = "b", NEW n \in pending, NEW d \in Dirs,
         Incoming(n, d) # NoCar
  PROVE  Incoming(n, d) \in Cars /\ Incoming(n, d).pos < EntryGap(road[n][d])
<1> DEFINE up == Neighbour(n, d)
           port == Opposite(d)
           car == Incoming(n, d)
<1>1. n \in Nodes /\ up # NoNode
  BY DEF TypeOK, Incoming
<1>2. up \in Nodes /\ Neighbour(up, port) = n
  BY <1>1, NeighbourBack
<1>3. port \in Dirs /\ Opposite(port) = d
  BY DEF Opposite, Dirs
<1>4. car = outbox[up][port]
  BY <1>1 DEF Incoming
<1>5. car \in Cars
  BY <1>2, <1>3, <1>4 DEF TypeOK
<1>6. <<up, port>> \in InFlight
  BY <1>2, <1>3, <1>4 DEF InFlight
<1>7. Fits(up, port, outbox[up][port])
  BY <1>6 DEF HandedRoom
<1>8. car.pos < gap[n][d]
  BY <1>2, <1>3, <1>4, <1>7 DEF Fits
<1>9. gap[n][d] \in 0 .. LinkCells /\ gap[n][d] <= EntryGap(road[n][d]) /\ road[n][d] \in Seq(Cars)
  BY <1>1 DEF TypeOK, PublishedGaps
<1>10. EntryGap(road[n][d]) \in 0 .. LinkCells
  BY <1>9, EntryGapRange
<1>11. car.pos \in 0 .. LinkCells - 1
  BY <1>5, CarFields
<1> QED
  BY <1>5, <1>8, <1>9, <1>10, <1>11, LinkAssumption

\* A link of a node after step_b.
LEMMA RoadAfterStepB ==
  ASSUME TypeOK, Ordered, HandedRoom, PublishedGaps, stage = "b", NEW n \in pending,
         NEW spawn, NEW route \in [Entered(n, spawn) -> TurnShares], NEW d \in Dirs
  PROVE  /\ RoadAfterB(n, d, spawn, route) \in Seq(Cars)
         /\ CheckLink(RoadAfterB(n, d, spawn, route))
<1> DEFINE link == road[n][d]
           new == RoadAfterB(n, d, spawn, route)
<1>1. n \in Nodes /\ link \in Seq(Cars) /\ CheckLink(link)
  BY DEF TypeOK, Ordered
<1>2. d \in Entered(n, spawn) => route[d] \in Turns
  BY DrawAssumption
<1>3. CASE Incoming(n, d) # NoCar
  <2> DEFINE head == Incoming(n, d)
             car == [head EXCEPT !.turn = route[d]]
  <2>1. head \in Cars /\ head.pos < EntryGap(link)
    BY <1>3, IncomingCar
  <2>2. route[d] \in Turns
    BY <1>2, <1>3 DEF Entered
  <2>3. head = [id |-> head.id, pos |-> head.pos, vel |-> head.vel, turn |-> head.turn]
    BY <2>1, CarFields
  <2>4. car = [head EXCEPT !.turn = route[d]]
    OBVIOUS
  <2>5. new = link \o <<car>> \o <<>>
    BY <1>3 DEF RoadAfterB, Spawns
  <2> HIDE DEF head, car, link, new
  <2>6. car = [id |-> head.id, pos |-> head.pos, vel |-> head.vel, turn |-> route[d]]
    BY <2>3, <2>4
  <2>7. car \in Cars /\ car.pos = head.pos
    BY <2>1, <2>2, <2>6 DEF Cars
  <2>8. link \o <<car>> \in Seq(Cars) /\ CheckLink(link \o <<car>>)
    BY <1>1, <2>1, <2>7, CarEnters
  <2>9. (link \o <<car>>) \o <<>> = link \o <<car>>
    BY <2>8, ConcatEmptySeq
  <2> QED
    BY <2>5, <2>8, <2>9 DEF new
<1>4. CASE Incoming(n, d) = NoCar /\ Spawns(n, d, spawn)
  <2> DEFINE car == [id |-> <<n, d, tick>>, pos |-> 0, vel |-> 0, turn |-> route[d]]
  <2>1. route[d] \in Turns /\ 0 < EntryGap(link)
    BY <1>1, <1>2, <1>4, EntryGapRange, LinkAssumption DEF Entered, Spawns
  <2>2. <<n, d, tick>> \in CarIds
    BY <1>1 DEF CarIds, TypeOK
  <2>3. car \in Cars
    BY <2>1, <2>2, LinkAssumption DEF Cars
  <2>4. new = link \o <<>> \o <<car>>
    BY <1>4 DEF RoadAfterB
  <2>5. car.pos = 0
    OBVIOUS
  <2> HIDE DEF car, link, new
  <2>6. link \o <<>> = link
    BY <1>1, ConcatEmptySeq
  <2>7. link \o <<car>> \in Seq(Cars) /\ CheckLink(link \o <<car>>)
    BY <1>1, <2>1, <2>3, <2>5, CarEnters
  <2> QED
    BY <2>4, <2>6, <2>7 DEF new
<1>5. CASE Incoming(n, d) = NoCar /\ ~Spawns(n, d, spawn)
  <2>1. new = link \o <<>> \o <<>>
    BY <1>5 DEF RoadAfterB
  <2>2. new = link
    BY <1>1, <2>1, ConcatEmptySeq
  <2> QED
    BY <1>1, <2>2
<1> QED
  BY <1>3, <1>4, <1>5

\* The signal and the counters of a node after step_b, and what it publishes.
LEMMA NodeAfterB ==
  ASSUME TypeOK, Ordered, HandedRoom, PublishedGaps, stage = "b", NEW n \in pending,
         NEW spawn, NEW route \in [Entered(n, spawn) -> TurnShares]
  PROVE  LET after == AfterB(n, spawn, route)
         IN  /\ after.road \in [Dirs -> Seq(Cars)]
             /\ \A d \in Dirs : CheckLink(after.road[d])
             /\ after.gap \in [Dirs -> 0 .. LinkCells]
             /\ \A d \in Dirs : after.gap[d] = EntryGap(after.road[d])
             /\ after.signal \in [phase : {0, 1}, elapsed : 0 .. ElapsedMax]
             /\ after.count \in Counters
<1> DEFINE after == AfterB(n, spawn, route)
<1>1. n \in Nodes
  BY DEF TypeOK
<1>2. after.road = [d \in Dirs |-> RoadAfterB(n, d, spawn, route)]
  BY DEF AfterB
<1>3. after.gap = [d \in Dirs |-> EntryGap(RoadAfterB(n, d, spawn, route))]
  BY DEF AfterB, Published
<1>4. \A d \in Dirs : /\ RoadAfterB(n, d, spawn, route) \in Seq(Cars)
                       /\ CheckLink(RoadAfterB(n, d, spawn, route))
                       /\ EntryGap(RoadAfterB(n, d, spawn, route)) \in 0 .. LinkCells
  BY RoadAfterStepB, EntryGapRange
<1>5. after.signal \in [phase : {0, 1}, elapsed : 0 .. ElapsedMax]
  <2>1. \/ after.signal = [phase |-> 1 - signal[n].phase, elapsed |-> 0]
        \/ after.signal = [phase |-> signal[n].phase, elapsed |-> Held(signal[n].elapsed)]
    BY DEF AfterB, NextSignal
  <2>2. signal[n].phase \in {0, 1} /\ signal[n].elapsed \in 0 .. ElapsedMax
    BY <1>1 DEF TypeOK
  <2>3. /\ Held(signal[n].elapsed) \in 0 .. ElapsedMax /\ 0 \in 0 .. ElapsedMax
        /\ 1 - signal[n].phase \in {0, 1}
    BY <2>2, GreenAssumption DEF Held
  <2> HIDE DEF after
  <2> QED
    BY <2>1, <2>2, <2>3
<1>6. after.count \in Counters
  <2> DEFINE old == count[n]
             new == after.count
             spawned == Cardinality({d \in Dirs : Spawns(n, d, spawn)})
  <2>1. new = [old EXCEPT !.spawned = @ + spawned]
    BY DEF AfterB
  <2>2. old \in Counters
    BY <1>1 DEF TypeOK, Counters
  <2>3. spawned \in Nat
    BY PartOfDirs
  <2> HIDE DEF old, new, spawned
  <2>4. new = [spawned |-> old.spawned + spawned, exited |-> old.exited, parked |-> old.parked,
               crossed |-> old.crossed, sensor |-> old.sensor]
    BY <2>1, <2>2 DEF Counters
  <2>5. new \in Counters
    BY <2>2, <2>3, <2>4 DEF Counters
  <2> QED
    BY <2>5 DEF new
<1> HIDE DEF after
<1> QED
  BY <1>2, <1>3, <1>4, <1>5, <1>6 DEF after

-----------------------------------------------------------------------------
(* The inductive invariant                                                 *)

\* The gaps that the nodes of the next phase A read are those of the links.
CurrentGaps ==
  \A n \in Nodes, d \in Dirs :
     BetweenTicks \/ (stage = "b" /\ n \notin pending) => gap[n][d] = EntryGap(road[n][d])

\* Phase B ends a tick that was due, and a window ends between two phases.
Phases == (stage = "b" => tick < MaxTick) /\ (stage = "harvest" => pending = Nodes)

Inv == TypeOK /\ Ordered /\ CurrentGaps /\ PublishedGaps /\ HandedRoom /\ Phases

\* A city has a node.
LEMMA SomeNode == Nodes # {}
<1>1. Rows \in Nat /\ Rows > 0 /\ Cols \in Nat /\ Cols > 0
  BY GridAssumption
<1>2. Rows * Cols > 0
  BY <1>1
<1>3. Rows * Cols \in Nat
  BY <1>1
<1>4. 0 \in Nodes
  BY <1>2, <1>3 DEF Nodes
<1> QED
  BY <1>4

\* The empty city
LEMMA InitInv == Init => Inv
<1> SUFFICES ASSUME Init PROVE Inv
  OBVIOUS
<1>1. TypeOK
  <2>1. /\ tick \in 0 .. MaxTick /\ stage \in {"a", "b", "harvest"}
        /\ pending \in SUBSET Nodes /\ pending # {}
    BY SomeNode, BoundAssumption DEF Init
  <2>2. <<>> \in Seq(Cars) /\ 0 \in 0 .. ElapsedMax /\ LinkCells \in 0 .. LinkCells
    BY GreenAssumption, LinkAssumption
  <2>3. road \in [Nodes -> [Dirs -> Seq(Cars)]]
    BY <2>2 DEF Init
  <2>4. signal \in [Nodes -> [phase : {0, 1}, elapsed : 0 .. ElapsedMax]]
    <3>1. ASSUME NEW n \in Nodes PROVE ((n \div Cols) + (n % Cols)) % 2 \in {0, 1}
      <4>1. n \div Cols \in Int /\ n % Cols \in Int
        BY RowAndColumn
      <4>2. (n \div Cols) + (n % Cols) \in Int
        BY <4>1
      <4>3. \A k \in Int : k % 2 \in {0, 1}
        OBVIOUS
      <4> QED
        BY <4>2, <4>3
    <3> QED
      BY <2>2, <3>1 DEF Init
  <2>5. count \in [Nodes -> Counters]
    BY DEF Init, NoCounts, Counters
  <2>6. outbox \in [Nodes -> [Dirs -> Cars \union {NoCar}]]
    BY DEF Init, EmptyOutbox
  <2>7. gap \in [Nodes -> [Dirs -> 0 .. LinkCells]] /\ frames \in [Nodes -> Nat]
    BY <2>2 DEF Init
  <2> QED
    BY <2>1, <2>3, <2>4, <2>5, <2>6, <2>7 DEF TypeOK, Counters
<1>2. \A n \in Nodes, d \in Dirs : road[n][d] = <<>> /\ gap[n][d] = LinkCells
  BY DEF Init
<1>3. Ordered
  BY <1>2 DEF Ordered, CheckLink
<1>4. CurrentGaps /\ PublishedGaps
  BY <1>2, LinkAssumption DEF CurrentGaps, PublishedGaps, EntryGap
<1>5. HandedRoom
  BY DEF HandedRoom, InFlight, Init
<1>6. Phases
  BY DEF Phases, Init
<1> QED
  BY <1>1, <1>3, <1>4, <1>5, <1>6 DEF Inv

\* step_a of a node keeps the invariant.
LEMMA StepAInv ==
  ASSUME Inv, NEW n \in Nodes, StepA(n)
  PROVE  Inv'
<1>1. PICK brake \in SUBSET IdsAt(n) :
        /\ road' = [road EXCEPT ![n] = AfterA(n, brake).road]
        /\ outbox' = [outbox EXCEPT ![n] = AfterA(n, brake).outbox]
        /\ count' = [count EXCEPT ![n] = AfterA(n, brake).count]
  BY DEF StepA
<1>2. /\ stage = "a" /\ n \in pending /\ tick < MaxTick
      /\ pending' = IF pending = {n} THEN Nodes ELSE pending \ {n}
      /\ stage' = IF pending = {n} THEN "b" ELSE "a"
      /\ tick' = tick /\ signal' = signal /\ gap' = gap /\ frames' = frames
  BY DEF StepA
<1>3. /\ AfterA(n, brake).road \in [Dirs -> Seq(Cars)]
      /\ \A d \in Dirs : Behind(road[n][d], AfterA(n, brake).road[d])
  BY RoadAfterA DEF Inv
<1>4. /\ AfterA(n, brake).outbox \in [Dirs -> Cars \union {NoCar}]
      /\ \A port \in Dirs : Fits(n, port, AfterA(n, brake).outbox[port])
  BY OutboxAfterA DEF Inv
<1>5. AfterA(n, brake).count \in Counters
  BY CountAfterA DEF Inv
<1>6. TypeOK
  BY DEF Inv
<1> DEFINE after == AfterA(n, brake)
<1> HIDE DEF after
<1>7. /\ after.road \in [Dirs -> Seq(Cars)] /\ after.outbox \in [Dirs -> Cars \union {NoCar}]
      /\ after.count \in Counters
      /\ road' = [road EXCEPT ![n] = after.road]
      /\ outbox' = [outbox EXCEPT ![n] = after.outbox]
      /\ count' = [count EXCEPT ![n] = after.count]
      /\ \A d \in Dirs : Behind(road[n][d], after.road[d])
      /\ \A port \in Dirs : Fits(n, port, after.outbox[port])
  BY <1>1, <1>3, <1>4, <1>5 DEF after
<1>8. /\ road'[n] = after.road /\ outbox'[n] = after.outbox
      /\ \A m \in Nodes \ {n} : road'[m] = road[m] /\ outbox'[m] = outbox[m]
  BY <1>6, <1>7 DEF TypeOK
<1>9. TypeOK'
  <2>1. pending' \in SUBSET Nodes /\ pending' # {} /\ stage' \in {"a", "b", "harvest"}
    <3>1. pending \in SUBSET Nodes /\ pending # {}
      BY <1>6 DEF TypeOK
    <3> QED
      BY <1>2, <3>1, SomeNode
  <2>2. /\ road' \in [Nodes -> [Dirs -> Seq(Cars)]]
        /\ outbox' \in [Nodes -> [Dirs -> Cars \union {NoCar}]]
        /\ count' \in [Nodes -> Counters]
    BY <1>6, <1>7 DEF TypeOK, Counters
  <2> QED
    BY <1>2, <1>6, <2>1, <2>2 DEF TypeOK, Counters
<1>10. ASSUME NEW m \in Nodes, NEW d \in Dirs
       PROVE  CheckLink(road'[m][d]) /\ EntryGap(road[m][d]) <= EntryGap(road'[m][d])
  <2>1. road[m][d] \in Seq(Cars) /\ CheckLink(road[m][d])
    BY <1>6 DEF TypeOK, Inv, Ordered
  <2>2. EntryGap(road[m][d]) \in 0 .. LinkCells
    BY <2>1, EntryGapRange
  <2>3. CASE m = n
    BY <1>7, <1>8, <2>3 DEF Behind
  <2>4. CASE m # n
    <3>1. road'[m][d] = road[m][d]
      BY <1>8, <2>4
    <3> QED
      BY <2>1, <2>2, <3>1, LinkAssumption
  <2> QED
    BY <2>3, <2>4
<1>11. Ordered'
  BY <1>10 DEF Ordered
<1>12. PublishedGaps'
  <2> SUFFICES ASSUME NEW m \in Nodes, NEW d \in Dirs
               PROVE  gap'[m][d] <= EntryGap(road'[m][d])
    BY DEF PublishedGaps
  <2>1. gap[m][d] <= EntryGap(road[m][d]) /\ gap[m][d] \in 0 .. LinkCells
    BY <1>6 DEF Inv, PublishedGaps, TypeOK
  <2>2. /\ EntryGap(road[m][d]) \in 0 .. LinkCells
        /\ EntryGap(road'[m][d]) \in 0 .. LinkCells
    <3>1. road[m][d] \in Seq(Cars) /\ road'[m][d] \in Seq(Cars)
      BY <1>6, <1>9 DEF TypeOK
    <3> QED
      BY <3>1, EntryGapRange
  <2>3. EntryGap(road[m][d]) <= EntryGap(road'[m][d])
    BY <1>10
  <2> QED
    BY <1>2, <2>1, <2>2, <2>3, LinkAssumption
<1>13. CurrentGaps'
  <2>1. ~BetweenTicks' /\ ~(stage' = "b" /\ pending' # Nodes)
    BY <1>2, <1>6 DEF BetweenTicks, TypeOK
  <2> QED
    BY <2>1 DEF CurrentGaps
<1>14. HandedRoom'
  <2> SUFFICES ASSUME NEW x \in InFlight'
               PROVE  Fits(x[1], x[2], outbox[x[1]][x[2]])'
    BY DEF HandedRoom
  <2>1. x[1] \in Nodes /\ x[2] \in Dirs /\ x \in Nodes \X Dirs
    BY DEF InFlight
  <2>2. CASE x[1] = n
    <3>1. Fits(n, x[2], after.outbox[x[2]])
      BY <1>7, <2>1
    <3>2. outbox'[x[1]][x[2]] = after.outbox[x[2]]
      BY <1>8, <2>2
    <3> QED
      BY <1>2, <2>2, <3>1, <3>2 DEF Fits
  <2>3. CASE x[1] # n
    <3>1. outbox'[x[1]] = outbox[x[1]]
      BY <1>8, <2>1, <2>3
    <3>2. x[1] \notin pending
      BY <1>2, <2>1, <2>3 DEF InFlight
    <3>3. x \in InFlight
      BY <1>2, <2>1, <3>1, <3>2 DEF InFlight
    <3>4. Fits(x[1], x[2], outbox[x[1]][x[2]])
      BY <3>3 DEF Inv, HandedRoom
    <3> QED
      BY <1>2, <3>1, <3>4 DEF Fits
  <2> QED
    BY <2>2, <2>3
<1>15. Phases'
  BY <1>2 DEF Phases
<1> QED
  BY <1>9, <1>11, <1>12, <1>13, <1>14, <1>15 DEF Inv

\* step_b of a node keeps the invariant.
LEMMA StepBInv ==
  ASSUME Inv, NEW n \in Nodes, StepB(n)
  PROVE  Inv'
<1>1. PICK spawn \in SUBSET {d \in Dirs : <<n, d>> \in Demand} :
      \E route \in [Entered(n, spawn) -> TurnShares] :
        /\ road' = [road EXCEPT ![n] = AfterB(n, spawn, route).road]
        /\ gap' = [gap EXCEPT ![n] = AfterB(n, spawn, route).gap]
        /\ signal' = [signal EXCEPT ![n] = AfterB(n, spawn, route).signal]
        /\ count' = [count EXCEPT ![n] = AfterB(n, spawn, route).count]
  BY DEF StepB
<1>2. PICK route \in [Entered(n, spawn) -> TurnShares] :
        /\ road' = [road EXCEPT ![n] = AfterB(n, spawn, route).road]
        /\ gap' = [gap EXCEPT ![n] = AfterB(n, spawn, route).gap]
        /\ signal' = [signal EXCEPT ![n] = AfterB(n, spawn, route).signal]
        /\ count' = [count EXCEPT ![n] = AfterB(n, spawn, route).count]
  BY <1>1
<1>3. /\ stage = "b" /\ n \in pending
      /\ IF pending = {n}
         THEN /\ pending' = Nodes
              /\ tick' = tick + 1
              /\ stage' = IF tick' % WindowTicks = 0 THEN "harvest" ELSE "a"
         ELSE pending' = pending \ {n} /\ tick' = tick /\ stage' = stage
      /\ outbox' = outbox /\ frames' = frames
  BY DEF StepB
<1>4. TypeOK /\ Ordered /\ HandedRoom /\ PublishedGaps /\ CurrentGaps /\ tick < MaxTick
  BY <1>3 DEF Inv, Phases
<1> DEFINE after == AfterB(n, spawn, route)
<1>5. /\ after.road \in [Dirs -> Seq(Cars)]
      /\ \A d \in Dirs : CheckLink(after.road[d])
      /\ after.gap \in [Dirs -> 0 .. LinkCells]
      /\ \A d \in Dirs : after.gap[d] = EntryGap(after.road[d])
      /\ after.signal \in [phase : {0, 1}, elapsed : 0 .. ElapsedMax]
      /\ after.count \in Counters
  BY <1>3, <1>4, NodeAfterB
<1>6. /\ road' = [road EXCEPT ![n] = after.road]
      /\ gap' = [gap EXCEPT ![n] = after.gap]
      /\ signal' = [signal EXCEPT ![n] = after.signal]
      /\ count' = [count EXCEPT ![n] = after.count]
  BY <1>2
<1> HIDE DEF after
<1>7. /\ road'[n] = after.road /\ gap'[n] = after.gap
      /\ \A m \in Nodes \ {n} : road'[m] = road[m] /\ gap'[m] = gap[m]
  BY <1>4, <1>6 DEF TypeOK
<1>8. TypeOK'
  <2>1. pending' \in SUBSET Nodes /\ pending' # {} /\ stage' \in {"a", "b", "harvest"}
    BY <1>3, <1>4, SomeNode DEF TypeOK
  <2>2. tick' \in 0 .. MaxTick
    <3>1. tick \in 0 .. MaxTick /\ tick < MaxTick /\ MaxTick \in Nat /\ (tick' = tick + 1 \/ tick' = tick)
      BY <1>3, <1>4, BoundAssumption DEF TypeOK
    <3> QED
      BY <3>1
  <2>3. /\ road' \in [Nodes -> [Dirs -> Seq(Cars)]]
        /\ gap' \in [Nodes -> [Dirs -> 0 .. LinkCells]]
        /\ signal' \in [Nodes -> [phase : {0, 1}, elapsed : 0 .. ElapsedMax]]
        /\ count' \in [Nodes -> Counters]
    BY <1>4, <1>5, <1>6 DEF TypeOK, Counters
  <2> QED
    BY <1>3, <1>4, <2>1, <2>2, <2>3 DEF TypeOK, Counters
<1>9. Ordered'
  BY <1>4, <1>5, <1>7 DEF Ordered
<1>10. PublishedGaps'
  <2> SUFFICES ASSUME NEW m \in Nodes, NEW d \in Dirs
               PROVE  gap'[m][d] <= EntryGap(road'[m][d])
    BY DEF PublishedGaps
  <2>1. CASE m = n
    <3>1. gap'[m][d] = EntryGap(road'[m][d])
      BY <1>5, <1>7, <2>1
    <3>2. EntryGap(road'[m][d]) \in 0 .. LinkCells
      <4>1. road'[m][d] \in Seq(Cars)
        BY <1>8 DEF TypeOK
      <4> QED
        BY <4>1, EntryGapRange
    <3> QED
      BY <3>1, <3>2, LinkAssumption
  <2>2. CASE m # n
    BY <1>4, <1>7, <2>2 DEF PublishedGaps
  <2> QED
    BY <2>1, <2>2
<1>11. CurrentGaps'
  <2> SUFFICES ASSUME NEW m \in Nodes, NEW d \in Dirs,
                      BetweenTicks' \/ (stage' = "b" /\ m \notin pending')
               PROVE  gap'[m][d] = EntryGap(road'[m][d])
    BY DEF CurrentGaps
  <2>1. CASE m = n
    BY <1>5, <1>7, <2>1
  <2>2. CASE m # n
    <3>1. m \notin pending
      BY <1>3, <2>2 DEF BetweenTicks
    <3> QED
      BY <1>3, <1>4, <1>7, <2>2, <3>1 DEF CurrentGaps
  <2> QED
    BY <2>1, <2>2
<1>12. HandedRoom'
  <2> SUFFICES ASSUME NEW x \in InFlight'
               PROVE  Fits(x[1], x[2], outbox[x[1]][x[2]])'
    BY DEF HandedRoom
  <2> DEFINE next == Neighbour(x[1], x[2])
  <2>1. x \in Nodes \X Dirs /\ x[1] \in Nodes /\ x[2] \in Dirs
    BY DEF InFlight
  <2>2. pending # {n} /\ next \in pending /\ next # n /\ outbox[x[1]][x[2]] # NoCar
    BY <1>3, <2>1 DEF InFlight
  <2>3. x \in InFlight
    BY <1>3, <2>1, <2>2 DEF InFlight
  <2>4. Fits(x[1], x[2], outbox[x[1]][x[2]])
    BY <1>4, <2>3 DEF HandedRoom
  <2>5. gap'[next] = gap[next]
    BY <1>4, <1>7, <2>2 DEF TypeOK
  <2> QED
    BY <1>3, <2>4, <2>5 DEF Fits
<1>13. Phases'
  BY <1>3, <1>4 DEF Phases
<1> QED
  BY <1>8, <1>9, <1>10, <1>11, <1>12, <1>13 DEF Inv

\* The end of a window keeps the invariant.
LEMMA HarvestInv == Inv /\ Harvest => Inv'
<1> SUFFICES ASSUME Inv, Harvest PROVE Inv'
  OBVIOUS
<1>1. /\ stage = "harvest" /\ stage' = "a" /\ pending = Nodes /\ pending' = Nodes
      /\ tick' = tick /\ road' = road /\ signal' = signal /\ outbox' = outbox /\ gap' = gap
      /\ frames' = [n \in Nodes |-> frames[n] + count[n].sensor]
      /\ count' = [n \in Nodes |-> [count[n] EXCEPT !.sensor = 0]]
  BY DEF Harvest, Inv, Phases
<1>2. TypeOK /\ Ordered /\ PublishedGaps /\ CurrentGaps
  BY DEF Inv
<1>3. TypeOK'
  <2>1. \A n \in Nodes : count[n] \in Counters /\ frames[n] \in Nat
    BY <1>2 DEF TypeOK, Counters
  <2>2. count' \in [Nodes -> Counters]
    <3>1. \A n \in Nodes : [count[n] EXCEPT !.sensor = 0] \in Counters
      BY <2>1 DEF Counters
    <3> QED
      BY <1>1, <3>1
  <2>3. frames' \in [Nodes -> Nat]
    <3>1. \A n \in Nodes : frames[n] + count[n].sensor \in Nat
      BY <2>1 DEF Counters
    <3> QED
      BY <1>1, <3>1
  <2> QED
    BY <1>1, <1>2, <2>2, <2>3, SomeNode DEF TypeOK, Counters
<1>4. Ordered' /\ PublishedGaps' /\ CurrentGaps'
  BY <1>1, <1>2 DEF Ordered, PublishedGaps, CurrentGaps, BetweenTicks
<1>5. HandedRoom'
  BY <1>1 DEF HandedRoom, InFlight
<1>6. Phases'
  BY <1>1 DEF Phases
<1> QED
  BY <1>3, <1>4, <1>5, <1>6 DEF Inv

\* A snapshot is taken between ticks, when every gap is the published one.
LEMMA ResumeKeepsGaps == Inv /\ Resume => gap' = gap
<1> SUFFICES ASSUME Inv, Resume PROVE gap' = gap
  OBVIOUS
<1>1. \A n \in Nodes, d \in Dirs : gap[n][d] = EntryGap(road[n][d])
  BY DEF Inv, CurrentGaps, BetweenTicks, Resume
<1>2. gap \in [Nodes -> [Dirs -> 0 .. LinkCells]]
  BY DEF Inv, TypeOK
<1>3. gap' = [n \in Nodes |-> [d \in Dirs |-> EntryGap(road[n][d])]]
  BY DEF Resume
<1> QED
  BY <1>1, <1>2, <1>3

\* A snapshot keeps the invariant.
LEMMA ResumeInv == Inv /\ Resume => Inv'
<1> SUFFICES ASSUME Inv, Resume PROVE Inv'
  OBVIOUS
<1>1. /\ stage = "a" /\ stage' = "a" /\ pending = Nodes /\ pending' = Nodes
      /\ tick' = tick /\ road' = road /\ signal' = signal /\ count' = count /\ frames' = frames
      /\ outbox' = EmptyOutbox
  BY DEF Resume
<1>2. gap' = gap
  BY ResumeKeepsGaps
<1>3. EmptyOutbox \in [Nodes -> [Dirs -> Cars \union {NoCar}]]
  BY DEF EmptyOutbox
<1>4. TypeOK'
  BY <1>1, <1>2, <1>3 DEF Inv, TypeOK
<1>5. Ordered' /\ PublishedGaps' /\ CurrentGaps'
  BY <1>1, <1>2 DEF Inv, Ordered, PublishedGaps, CurrentGaps, BetweenTicks
<1>6. HandedRoom'
  BY <1>1 DEF HandedRoom, InFlight
<1>7. Phases'
  BY <1>1 DEF Phases
<1> QED
  BY <1>4, <1>5, <1>6, <1>7 DEF Inv

\* A step that changes nothing keeps the invariant.
LEMMA StutterInv == Inv /\ UNCHANGED vars => Inv'
<1> SUFFICES ASSUME Inv, UNCHANGED vars PROVE Inv'
  OBVIOUS
<1>1. TypeOK' /\ Ordered' /\ Phases'
  BY DEF Inv, TypeOK, Ordered, Phases, vars
<1>2. PublishedGaps' /\ CurrentGaps'
  BY DEF Inv, PublishedGaps, CurrentGaps, BetweenTicks, vars
<1>3. InFlight' = InFlight /\ HandedRoom'
  BY DEF Inv, HandedRoom, InFlight, Fits, vars
<1> QED
  BY <1>1, <1>2, <1>3 DEF Inv

\* Every step keeps the invariant.
LEMMA NextInv == Inv /\ [Next]_vars => Inv'
<1> SUFFICES ASSUME Inv, [Next]_vars PROVE Inv'
  OBVIOUS
<1>1. ASSUME NEW n \in Nodes, StepA(n) PROVE Inv'
  BY <1>1, StepAInv
<1>2. ASSUME NEW n \in Nodes, StepB(n) PROVE Inv'
  BY <1>2, StepBInv
<1>3. CASE Over
  BY <1>3, StutterInv DEF Over
<1> QED
  BY <1>1, <1>2, <1>3, HarvestInv, ResumeInv, StutterInv DEF Next

\* The invariant holds in every reachable state of the city.
THEOREM CityInvariant == Spec => []Inv
  BY InitInv, NextInv, PTL DEF Spec

-----------------------------------------------------------------------------
(* What follows                                                            *)

(* check_state holds at every step: values in range, the cars of a link in *)
(* distinct cells in order, and published gaps that are those of the links.*)
THEOREM StateIsChecked == Spec => []StateChecks
<1>1. Inv => StateChecks
  BY DEF Inv, Ordered, CurrentGaps, StateChecks
<1> QED
  BY <1>1, CityInvariant, PTL

(* A car handed over in phase A lands in phase B behind the last car of    *)
(* the link it enters, in whichever order the nodes take their steps.      *)
THEOREM HandedCarsLand == Spec => []LandingRoom
<1>1. Inv => LandingRoom
  <2> SUFFICES ASSUME Inv, NEW x \in InFlight
               PROVE  outbox[x[1]][x[2]].pos < EntryGap(road[Neighbour(x[1], x[2])][Opposite(x[2])])
    BY DEF LandingRoom
  <2> DEFINE next == Neighbour(x[1], x[2])
             side == Opposite(x[2])
             car == outbox[x[1]][x[2]]
  <2>1. x[1] \in Nodes /\ x[2] \in Dirs /\ car # NoCar
    BY DEF InFlight
  <2>2. next # NoNode /\ car.pos < gap[next][side]
    BY <2>1 DEF Inv, HandedRoom, Fits
  <2>3. next \in Nodes /\ side \in Dirs
    BY <2>1, <2>2, NeighbourBack, PortRoomRange DEF Inv
  <2>4. gap[next][side] \in 0 .. LinkCells /\ gap[next][side] <= EntryGap(road[next][side])
    BY <2>3 DEF Inv, TypeOK, PublishedGaps
  <2>5. EntryGap(road[next][side]) \in 0 .. LinkCells
    <3>1. road[next][side] \in Seq(Cars)
      BY <2>3 DEF Inv, TypeOK
    <3> QED
      BY <3>1, EntryGapRange
  <2>6. car.pos \in 0 .. LinkCells - 1
    <3>1. outbox \in [Nodes -> [Dirs -> Cars \union {NoCar}]]
      BY DEF Inv, TypeOK
    <3>2. car \in Cars
      BY <2>1, <3>1
    <3> QED
      BY <3>2, CarFields
  <2> QED
    BY <2>2, <2>4, <2>5, <2>6, LinkAssumption
<1> QED
  BY <1>1, CityInvariant, PTL

(* What the step of a node reads is left alone by every other node's step  *)
(* of its phase and by a snapshot: every order of the nodes is the same.   *)
THEOREM OrderMakesNoDifference == Spec => OrderIndependent
<1> DEFINE Step == \A n \in pending \intersect pending' :
                      /\ stage = "a" /\ stage' = "a" => ReadsA(n)' = ReadsA(n)
                      /\ stage = "b" /\ stage' = "b" => ReadsB(n)' = ReadsB(n)
<1>1. Inv /\ [Next]_vars => [Step]_vars
  <2> SUFFICES ASSUME Inv, Next, NEW m \in pending, m \in pending'
               PROVE  /\ stage = "a" /\ stage' = "a" => ReadsA(m)' = ReadsA(m)
                      /\ stage = "b" /\ stage' = "b" => ReadsB(m)' = ReadsB(m)
    OBVIOUS
  <2>1. TypeOK /\ m \in Nodes
    BY DEF Inv, TypeOK
  <2>2. ASSUME NEW n \in Nodes, StepA(n), stage' = "a" PROVE ReadsA(m)' = ReadsA(m)
    <3>1. m # n /\ signal' = signal /\ gap' = gap
      BY <2>2 DEF StepA
    <3>2. road'[m] = road[m] /\ count'[m] = count[m]
      BY <2>1, <2>2, <3>1 DEF StepA, TypeOK
    <3>3. \A port \in Dirs : PortRoom(m, port)' = PortRoom(m, port)
      BY <3>1 DEF PortRoom
    <3> QED
      BY <3>1, <3>2, <3>3 DEF ReadsA
  <2>3. ASSUME NEW n \in Nodes, StepB(n), stage' = "b" PROVE ReadsB(m)' = ReadsB(m)
    <3>1. m # n /\ outbox' = outbox
      BY <2>3 DEF StepB
    <3>2. road'[m] = road[m] /\ count'[m] = count[m] /\ signal'[m] = signal[m]
      BY <2>1, <2>3, <3>1 DEF StepB, TypeOK
    <3>3. \A d \in Dirs : Incoming(m, d)' = Incoming(m, d)
      BY <3>1 DEF Incoming
    <3> QED
      BY <3>1, <3>2, <3>3 DEF ReadsB
  <2>4. ASSUME Resume PROVE ReadsA(m)' = ReadsA(m) /\ stage = "a"
    <3>1. gap' = gap /\ road' = road /\ signal' = signal /\ count' = count /\ stage = "a"
      BY <2>4, ResumeKeepsGaps DEF Resume
    <3> QED
      BY <3>1 DEF ReadsA, PortRoom
  <2>5. CASE Over
    BY <2>5 DEF Over, vars, ReadsA, ReadsB, PortRoom, Incoming
  <2>6. CASE Harvest
    BY <2>6 DEF Harvest
  <2>7. ASSUME NEW n \in Nodes, StepA(n) PROVE stage = "a"
    BY <2>7 DEF StepA
  <2>8. ASSUME NEW n \in Nodes, StepB(n) PROVE stage = "b"
    BY <2>8 DEF StepB
  <2> QED
    BY <2>2, <2>3, <2>4, <2>5, <2>6, <2>7, <2>8 DEF Next
<1> QED
  BY <1>1, CityInvariant, PTL DEF Spec, OrderIndependent

-----------------------------------------------------------------------------
(* Where the cars are                                                      *)

\* A link has a cell for each of its cars.
LEMMA CarsFit ==
  ASSUME NEW link \in Seq(Cars), CheckLink(link)
  PROVE  Len(link) <= LinkCells
<1>1. /\ Len(link) \in Nat
      /\ \A i \in 1 .. Len(link) : link[i].pos \in 0 .. LinkCells - 1
      /\ \A i \in 1 .. Len(link) - 1 : link[i + 1].pos < link[i].pos
      /\ LinkCells \in Nat
  BY CarsOfLink, LinkAssumption DEF CheckLink
<1> DEFINE bad == {i \in 1 .. Len(link) : link[i].pos > LinkCells - i}
<1>2. bad = {}
  <2> SUFFICES ASSUME bad # {} PROVE FALSE
    OBVIOUS
  <2>1. bad \subseteq Nat
    OBVIOUS
  <2>2. PICK i \in bad : \A j \in bad : ~(<<j, i>> \in OpToRel(<, Nat))
    <3> HIDE DEF bad
    <3> QED
      BY <2>1, NatLessThanWellFounded, WFMin
  <2>3. i \in 1 .. Len(link) /\ link[i].pos > LinkCells - i
    OBVIOUS
  <2>4. i # 1
    BY <1>1, <2>3
  <2>5. i - 1 \in 1 .. Len(link) - 1 /\ i - 1 \in 1 .. Len(link) /\ (i - 1) + 1 = i
    <3>1. Len(link) \in Nat /\ i \in 1 .. Len(link)
      BY <1>1, <2>3
    <3> QED
      BY <2>4, <3>1
  <2>6. link[i].pos < link[i - 1].pos
    BY <1>1, <2>5
  <2>7. i - 1 \notin bad
    <3>1. <<i - 1, i>> \in OpToRel(<, Nat)
      BY <2>3, <2>5 DEF OpToRel
    <3> QED
      BY <2>2, <3>1
  <2>8. ~(link[i - 1].pos > LinkCells - (i - 1))
    BY <2>5, <2>7
  <2>9. link[i].pos \in 0 .. LinkCells - 1 /\ link[i - 1].pos \in 0 .. LinkCells - 1
    BY <1>1, <2>3, <2>5
  <2> QED
    <3> DEFINE behind == link[i].pos
               ahead == link[i - 1].pos
    <3>1. behind \in Nat /\ ahead \in Nat /\ behind < ahead
      BY <2>6, <2>9, LinkAssumption
    <3>2. behind > LinkCells - i /\ ahead <= LinkCells - (i - 1)
      BY <1>1, <2>3, <2>8, <3>1
    <3>3. i \in Nat
      BY <2>3
    <3> HIDE DEF behind, ahead
    <3> QED
      BY <1>1, <3>1, <3>2, <3>3
<1>3. CASE Len(link) = 0
  BY <1>1, <1>3
<1>4. CASE Len(link) # 0
  <2>1. Len(link) \in 1 .. Len(link) /\ ~(link[Len(link)].pos > LinkCells - Len(link))
    BY <1>1, <1>2, <1>4
  <2>2. link[Len(link)].pos \in 0 .. LinkCells - 1
    BY <1>1, <2>1
  <2> QED
    BY <1>1, <2>1, <2>2
<1> QED
  BY <1>3, <1>4

\* A city holds finitely many cars.
LEMMA PlacesAndPorts ==
  ASSUME TypeOK
  PROVE  /\ IsFiniteSet(Places) /\ Cardinality(Places) \in Nat
         /\ IsFiniteSet(InFlight) /\ Cardinality(InFlight) \in Nat
<1>1. IsFiniteSet(Nodes) /\ IsFiniteSet(Dirs) /\ IsFiniteSet(1 .. LinkCells)
  <2>1. 0 \in Int /\ Rows * Cols - 1 \in Int /\ 1 \in Int /\ LinkCells \in Int /\ 3 \in Int
    BY GridAssumption, LinkAssumption
  <2>2. IsFiniteSet(0 .. Rows * Cols - 1) /\ IsFiniteSet(0 .. 3) /\ IsFiniteSet(1 .. LinkCells)
    BY <2>1, FS_Interval
  <2> QED
    BY <2>2 DEF Nodes, Dirs
<1>2. IsFiniteSet(Nodes \X Dirs \X (1 .. LinkCells)) /\ IsFiniteSet(Nodes \X Dirs)
  BY <1>1, TriplesAreFinite, FS_Product
<1>3. Places \subseteq Nodes \X Dirs \X (1 .. LinkCells) /\ InFlight \subseteq Nodes \X Dirs
  BY DEF Places, InFlight
<1>4. IsFiniteSet(Places) /\ IsFiniteSet(InFlight)
  BY <1>2, <1>3, FS_Subset
<1> QED
  BY <1>4, FS_CardinalityType

\* A place on a road, or a port
Spots == ({"road"} \X Places) \union ({"port"} \X InFlight)

IdAt(s) == IF s[1] = "road" THEN road[s[2][1]][s[2][2]][s[2][3]].id ELSE outbox[s[2][1]][s[2][2]].id

\* No car is in two places.
Distinct == \A s, t \in Spots : s # t => IdAt(s) # IdAt(t)

\* A node has not spawned the cars that it spawns in this tick before its step_b.
Fresh ==
  \A s \in Spots :
     /\ IdAt(s) \in CarIds
     /\ IdAt(s)[3] < tick \/ (stage = "b" /\ IdAt(s)[3] = tick /\ IdAt(s)[1] \notin pending)

\* Every car that was spawned is in one place, or has left.
Balance ==
  Total("spawned") = Cardinality(Places) + Cardinality(InFlight) + Total("exited") + Total("parked")

\* Every crossing is counted by a frame or by the sensor.
Crossings == \A n \in Nodes : frames[n] + count[n].sensor = count[n].crossed

Kept == Distinct /\ Fresh /\ Balance /\ Crossings

\* The invariant about the cars is what check_conservation checks.
LEMMA KeptIsConserved == Inv /\ Kept => Conserved
<1> SUFFICES ASSUME Inv, Kept PROVE Conserved
  OBVIOUS
<1>1. \A x \in Places : <<"road", x>> \in Spots /\ IdAt(<<"road", x>>) = road[x[1]][x[2]][x[3]].id
  BY DEF Spots, IdAt
<1>2. \A x \in InFlight : <<"port", x>> \in Spots /\ IdAt(<<"port", x>>) = outbox[x[1]][x[2]].id
  BY DEF Spots, IdAt
<1>3. \A x, y \in Places : x # y => road[x[1]][x[2]][x[3]].id # road[y[1]][y[2]][y[3]].id
  BY <1>1 DEF Kept, Distinct
<1>4. \A x \in Places, y \in InFlight : road[x[1]][x[2]][x[3]].id # outbox[y[1]][y[2]].id
  <2> SUFFICES ASSUME NEW x \in Places, NEW y \in InFlight
               PROVE  road[x[1]][x[2]][x[3]].id # outbox[y[1]][y[2]].id
    OBVIOUS
  <2>1. <<"road", x>> # <<"port", y>>
    OBVIOUS
  <2> QED
    BY <1>1, <1>2, <2>1 DEF Kept, Distinct
<1> QED
  BY <1>3, <1>4 DEF Kept, Balance, Crossings, Conserved

\* The total of a counter changes by what it changes at one node.
LEMMA TotalChanges ==
  ASSUME TypeOK, TypeOK', NEW n \in Nodes, \A m \in Nodes \ {n} : count'[m] = count[m],
         NEW field \in {"spawned", "exited", "parked", "crossed", "sensor"}
  PROVE  /\ Total(field) \in Int /\ Total(field)' \in Int
         /\ Total(field)' = Total(field) + (count'[n][field] - count[n][field])
<1> DEFINE f == [m \in Nodes |-> count[m][field]]
           g == [m \in Nodes |-> count'[m][field]]
<1>1. IsFiniteSet(Nodes)
  <2>1. 0 \in Int /\ Rows * Cols - 1 \in Int
    BY GridAssumption
  <2> QED
    BY <2>1, FS_Interval DEF Nodes
<1>2. \A m \in Nodes : f[m] \in Int /\ g[m] \in Int
  <2>1. \A m \in Nodes : count[m] \in Counters /\ count'[m] \in Counters
    BY DEF TypeOK, Counters
  <2>2. ASSUME NEW c \in Counters PROVE c[field] \in Int
    BY DEF Counters
  <2> QED
    BY <2>1, <2>2
<1>3. \A m \in Nodes \ {n} : g[m] = f[m]
  OBVIOUS
<1>4. Total(field) = SumFunctionOnSet(f, Nodes) /\ Total(field)' = SumFunctionOnSet(g, Nodes)
  BY DEF Total, SumFunction
<1>5. f[n] = count[n][field] /\ g[n] = count'[n][field]
  OBVIOUS
<1> HIDE DEF f, g
<1>6. SumFunctionOnSet(f, Nodes) \in Int /\ SumFunctionOnSet(g, Nodes) \in Int
  BY <1>1, <1>2, SumIsInt
<1>7. SumFunctionOnSet(g, Nodes) = SumFunctionOnSet(f, Nodes) + (g[n] - f[n])
  BY <1>1, <1>2, <1>3, SumChanges
<1> QED
  BY <1>4, <1>5, <1>6, <1>7

\* Each spot takes its car from another one, and no two take one car.
LEMMA DistinctKept ==
  ASSUME Distinct, NEW to,
         \A s \in Spots' : \E o \in Spots : s = to[o] /\ IdAt(s)' = IdAt(o)
  PROVE  Distinct'
<1> SUFFICES ASSUME NEW s \in Spots', NEW t \in Spots', s # t PROVE IdAt(s)' # IdAt(t)'
  BY DEF Distinct
<1>1. PICK o \in Spots : s = to[o] /\ IdAt(s)' = IdAt(o)
  OBVIOUS
<1>2. PICK q \in Spots : t = to[q] /\ IdAt(t)' = IdAt(q)
  OBVIOUS
<1>3. o # q
  BY <1>1, <1>2
<1> QED
  BY <1>1, <1>2, <1>3 DEF Distinct

-----------------------------------------------------------------------------
(* No car is lost in step_a                                                *)

\* A link of a node after step_a: the head of a granted approach has left it,
\* and every other car is where it was in the queue.
LEMMA IdsAfterA ==
  ASSUME TypeOK, Ordered, NEW n \in Nodes, NEW brake, NEW d \in Dirs
  PROVE  LET old == road[n][d]
             new == AfterA(n, brake).road[d]
         IN  /\ Len(old) \in Nat
             /\ d \in Granted(n, brake) => /\ old # <<>> /\ Len(new) = Len(old) - 1
                                          /\ \A i \in 1 .. Len(new) : new[i].id = old[i + 1].id
             /\ d \notin Granted(n, brake) => /\ Len(new) = Len(old)
                                             /\ \A i \in 1 .. Len(new) : new[i].id = old[i].id
<1> DEFINE links == Links(n)
           speeds == Speeds(n, links, brake)
           asking == Asking(links, speeds)
           granted == Granted(n, brake)
           old == road[n][d]
           new == AfterA(n, brake).road[d]
           link == links[d]
           extra == HeadExtra(n, d, link[1])
           speed == speeds[d]
           m == Moved(link, speed)
<1>1. new = IF d \in granted THEN Tail(m)
            ELSE IF d \in asking THEN [m EXCEPT ![1] = Stopped(link)]
            ELSE m
  BY DEF AfterA, Moved, Stopped, Granted
<1>2. /\ granted \subseteq asking
      /\ d \in asking => link # <<>>
  BY DEF Granted, Grants, Asking
<1>3. /\ link \in Seq(Cars) /\ CheckLink(link) /\ Len(link) = Len(old)
      /\ (link = <<>> <=> old = <<>>)
      /\ \A i \in 1 .. Len(link) : link[i].id = old[i].id
  BY DivertedLinks
<1>4. Len(old) \in Nat
  BY <1>3, CarsOfLink
<1>5. CASE link = <<>>
  <2>1. new = m /\ m = <<>> /\ d \notin granted
    BY <1>1, <1>2, <1>5 DEF Moved
  <2> QED
    BY <1>3, <1>4, <1>5, <2>1
<1>6. CASE link # <<>>
  <2>1. extra \in Nat /\ Safe(link, extra, speed)
    BY <1>6, SpeedsAreSafe
  <2>2. Stopped(link).id = link[1].id
    <3> DEFINE c == Stopped(link)
    <3>1. c = [link[1] EXCEPT !.pos = LinkCells - 1, !.vel = LinkCells - 1 - link[1].pos]
      BY DEF Stopped
    <3>2. link[1] = [id |-> link[1].id, pos |-> link[1].pos, vel |-> link[1].vel, turn |-> link[1].turn]
      <4>1. 1 \in 1 .. Len(link)
        BY <1>3, <1>6, CarsOfLink
      <4> QED
        BY <1>3, <4>1, CarsOfLink
    <3> HIDE DEF c
    <3>3. c.id = link[1].id
      BY <3>1, <3>2
    <3> QED
      BY <3>3 DEF c
  <2>3. m = [i \in 1 .. Len(link) |-> m[i]]
    BY <1>3, CarsOfLink DEF Moved
  <2> HIDE DEF link, extra, speed
  <2>4. /\ Len(link) \in Nat /\ 1 \in 1 .. Len(link)
        /\ \A i \in 1 .. Len(link) : m[i] = [id |-> link[i].id, pos |-> link[i].pos + speed[i],
                                           vel |-> speed[i], turn |-> link[i].turn]
    BY <1>3, <1>6, <2>1, MovedCars
  <2> HIDE DEF m
  <2>5. /\ m \in Seq({m[i] : i \in 1 .. Len(link)}) /\ Len(m) = Len(link) /\ m # <<>>
        /\ DOMAIN m = 1 .. Len(link)
        /\ \A i \in 1 .. Len(link) : m[i].id = link[i].id
    <3>1. m \in [1 .. Len(link) -> {m[i] : i \in 1 .. Len(link)}]
      BY <2>3
    <3>2. m \in Seq({m[i] : i \in 1 .. Len(link)}) /\ Len(m) = Len(link) /\ m # <<>>
      <4> DEFINE N == Len(link)
                 cars == {m[i] : i \in 1 .. N}
      <4>1. N \in Nat /\ 1 \in 1 .. N /\ m \in [1 .. N -> cars]
        BY <2>4, <3>1
      <4> HIDE DEF N, cars
      <4>2. m \in Seq(cars) /\ Len(m) = N /\ m # <<>>
        BY <4>1, LenProperties
      <4> QED
        BY <4>2 DEF N, cars
    <3>3. ASSUME NEW i \in 1 .. Len(link) PROVE m[i].id = link[i].id
      <4>1. m[i] = [id |-> link[i].id, pos |-> link[i].pos + speed[i], vel |-> speed[i], turn |-> link[i].turn]
        BY <2>4
      <4> QED
        BY <4>1
    <3> QED
      BY <2>3, <3>2, <3>3
  <2>6. CASE d \in granted
    <3>1. new = Tail(m)
      BY <1>1, <2>6
    <3>2. /\ Len(Tail(m)) = Len(link) - 1
          /\ \A i \in 1 .. Len(link) - 1 : Tail(m)[i] = m[i + 1]
      BY <2>5, HeadTailProperties
    <3>3. \A i \in 1 .. Len(link) - 1 : i + 1 \in 1 .. Len(link)
      BY <2>4
    <3>4. \A i \in 1 .. Len(new) : new[i].id = old[i + 1].id
      BY <1>3, <2>5, <3>1, <3>2, <3>3
    <3> QED
      BY <1>3, <1>4, <1>6, <2>6, <3>1, <3>2, <3>4
  <2>7. CASE d \notin granted /\ d \in asking
    <3>1. new = [m EXCEPT ![1] = Stopped(link)]
      BY <1>1, <2>7
    <3>2. DOMAIN new = 1 .. Len(link) /\ new[1] = Stopped(link) /\ \A i \in 1 .. Len(link) : i # 1 => new[i] = m[i]
      BY <2>4, <2>5, <3>1
    <3>3. Len(new) = Len(link)
      <4>1. new = [i \in 1 .. Len(link) |-> new[i]]
        BY <3>1, <2>3
      <4>2. new \in [1 .. Len(link) -> {new[i] : i \in 1 .. Len(link)}]
        BY <4>1
      <4> QED
        BY <2>4, <4>2, LenProperties
    <3>4. \A i \in 1 .. Len(new) : new[i].id = old[i].id
      BY <1>3, <2>2, <2>4, <2>5, <3>2, <3>3
    <3> QED
      BY <1>3, <1>4, <2>7, <3>3, <3>4
  <2>8. CASE d \notin asking
    <3>1. new = m /\ d \notin granted
      BY <1>1, <1>2, <2>8
    <3>2. \A i \in 1 .. Len(new) : new[i].id = old[i].id
      BY <1>3, <2>4, <2>5, <3>1
    <3> QED
      BY <1>3, <1>4, <2>5, <3>1, <3>2
  <2> QED
    BY <1>2, <2>6, <2>7, <2>8
<1> QED
  BY <1>5, <1>6

\* An empty outbox holds no car.
LEMMA NoIdOfNoCar == NoCar.id \notin CarIds
<1>1. NoCar.id = <<>>
  BY DEF NoCar
<1>2. ASSUME <<>> \in CarIds PROVE FALSE
  <2>1. PICK a \in Nodes, b \in Dirs, c \in 0 .. MaxTick : <<>> = <<a, b, c>>
    BY <1>2 DEF CarIds
  <2>2. Len(<<>>) = Len(<<a, b, c>>)
    BY <2>1
  <2> QED
    BY <2>2
<1> QED
  BY <1>1, <1>2

\* The port through which the head of approach d leaves n
CarPort(n, d) == Port(d, Links(n)[d])

\* Every head handed over has a port of its own, and is the car in its outbox.
LEMMA PortsAfterA ==
  ASSUME TypeOK, Ordered, NEW n \in Nodes, NEW brake
  PROVE  LET new == AfterA(n, brake).outbox
             handed == HandedOver(n, brake)
         IN  /\ \A d \in handed : /\ d \in Granted(n, brake) /\ CarPort(n, d) \in Dirs
                                  /\ new[CarPort(n, d)] # NoCar
                                  /\ new[CarPort(n, d)].id = road[n][d][1].id
             /\ \A d, e \in handed : CarPort(n, d) = CarPort(n, e) => d = e
             /\ \A port \in Dirs : new[port] # NoCar => \E d \in handed : CarPort(n, d) = port
<1> DEFINE links == Links(n)
           speeds == Speeds(n, links, brake)
           asking == Asking(links, speeds)
           handed == HandedOver(n, brake)
           car(d) == Handed(Moved(links[d], speeds[d])[1])
           sent(port) == {d \in handed : CarPort(n, d) = port}
           new == AfterA(n, brake).outbox
<1>1. new = [port \in Dirs |->
               IF sent(port) = {} THEN NoCar
               ELSE car(CHOOSE d \in sent(port) : \A e \in sent(port) : e <= d)]
  BY DEF AfterA, Moved, Handed, HandedOver, Leaving, Crossing, Granted, CarPort
<1>2. /\ asking = {d \in Dirs : links[d] # <<>> /\ links[d][1].pos + speeds[d][1] > LinkCells - 1}
      /\ \A d \in handed : /\ d \in asking /\ d \in Granted(n, brake) /\ ~Parks(links[d])
                           /\ \A e \in asking \ {d} :
                                 Parks(links[e]) \/ CarPort(n, e) # CarPort(n, d) \/ Beats(d, e, links)
  BY DEF HandedOver, Leaving, Crossing, Granted, Grants, Asking, CarPort
<1>3. ASSUME NEW d \in handed, NEW e \in handed, CarPort(n, d) = CarPort(n, e) PROVE d = e
  <2> SUFFICES ASSUME d # e PROVE FALSE
    OBVIOUS
  <2>1. Beats(d, e, links) /\ Beats(e, d, links) /\ d \in Dirs /\ e \in Dirs
    BY <1>2, <1>3
  <2>2. Rank(links[d][1].turn) \in Int /\ Rank(links[e][1].turn) \in Int
    BY DEF Rank
  <2> QED
    BY <2>1, <2>2 DEF Beats, Dirs
<1>4. ASSUME NEW d \in handed
      PROVE  /\ CarPort(n, d) \in Dirs /\ car(d).id = road[n][d][1].id
             /\ new[CarPort(n, d)] = car(d)
  <2> DEFINE link == links[d]
             extra == HeadExtra(n, d, link[1])
             speed == speeds[d]
             port == CarPort(n, d)
  <2>1. d \in Dirs /\ link # <<>> /\ port \in Dirs
    BY <1>2, ExitPortIsDir DEF CarPort, Port
  <2>2. /\ link \in Seq(Cars) /\ CheckLink(link) /\ extra \in Nat /\ Safe(link, extra, speed)
        /\ \A i \in 1 .. Len(link) : link[i].id = road[n][d][i].id
    BY <2>1, DivertedLinks, SpeedsAreSafe
  <2>3. car(d).id = road[n][d][1].id
    <3> DEFINE head == Moved(link, speed)[1]
    <3>1. car(d) = Handed(head)
      OBVIOUS
    <3> HIDE DEF link, extra, speed, car
    <3>2. /\ 1 \in 1 .. Len(link)
          /\ head = [id |-> link[1].id, pos |-> link[1].pos + speed[1], vel |-> speed[1], turn |-> link[1].turn]
      BY <2>1, <2>2, MovedCars
    <3> HIDE DEF head
    <3>3. Handed(head) = [id |-> link[1].id, pos |-> (link[1].pos + speed[1]) - LinkCells,
                          vel |-> speed[1], turn |-> link[1].turn]
      BY <3>2, HandedCar
    <3>4. Handed(head).id = link[1].id
      BY <3>3
    <3> QED
      BY <2>2, <3>1, <3>2, <3>4
  <2>4. sent(port) = {d}
    BY <1>3
  <2> HIDE DEF car, sent, handed, port
  <2>5. d \in Int
    BY <2>1 DEF Dirs
  <2>6. (CHOOSE q \in {d} : \A e \in {d} : e <= q) = d
    BY <2>5
  <2>7. new[port] = car(d)
    BY <1>1, <2>1, <2>4, <2>6
  <2> QED
    BY <2>1, <2>3, <2>7 DEF port
<1>5. ASSUME NEW port \in Dirs, new[port] # NoCar PROVE \E d \in handed : CarPort(n, d) = port
  BY <1>1, <1>5
<1>6. ASSUME NEW d \in handed PROVE new[CarPort(n, d)] # NoCar
  <2>1. d \in Dirs /\ links[d] # <<>> /\ CarPort(n, d) \in Dirs
    BY <1>2, <1>4
  <2>2. new[CarPort(n, d)].id = road[n][d][1].id
    BY <1>4
  <2>3. road[n][d] \in Seq(Cars) /\ road[n][d] # <<>>
    BY <2>1, DivertedLinks, RoadsHoldCars
  <2>4. road[n][d][1] \in Cars
    BY <2>3, CarsOfLink
  <2>5. road[n][d][1].id \in CarIds
    BY <2>4, CarFields
  <2>6. NoCar.id \notin CarIds
    BY NoIdOfNoCar
  <2> QED
    BY <2>2, <2>5, <2>6
<1> QED
  BY <1>2, <1>3, <1>4, <1>5, <1>6, Zenon

\* The places and ports of the next state after step_a of n, and the spot of
\* each car before it.
LEMMA StepAKept ==
  ASSUME Inv, Inv', Kept, NEW n \in Nodes, StepA(n)
  PROVE  Kept'
<1>1. PICK brake \in SUBSET IdsAt(n) :
        /\ road' = [road EXCEPT ![n] = AfterA(n, brake).road]
        /\ outbox' = [outbox EXCEPT ![n] = AfterA(n, brake).outbox]
        /\ count' = [count EXCEPT ![n] = AfterA(n, brake).count]
  BY DEF StepA
<1>2. /\ stage = "a" /\ n \in pending
      /\ pending' = IF pending = {n} THEN Nodes ELSE pending \ {n}
      /\ stage' = IF pending = {n} THEN "b" ELSE "a"
      /\ tick' = tick /\ frames' = frames
  BY DEF StepA
<1>3. TypeOK /\ TypeOK' /\ Ordered /\ HandedRoom
  BY DEF Inv
<1> DEFINE after == AfterA(n, brake)
           G == Granted(n, brake)
           H == HandedOver(n, brake)
           old(d) == road[n][d]
           new(d) == after.road[d]
           port(d) == CarPort(n, d)
<1>4. \A d \in Dirs :
        /\ Len(old(d)) \in Nat
        /\ d \in G => /\ old(d) # <<>> /\ Len(new(d)) = Len(old(d)) - 1
                      /\ \A i \in 1 .. Len(new(d)) : new(d)[i].id = old(d)[i + 1].id
        /\ d \notin G => /\ Len(new(d)) = Len(old(d))
                         /\ \A i \in 1 .. Len(new(d)) : new(d)[i].id = old(d)[i].id
  BY <1>3, IdsAfterA
<1>5. /\ \A d \in H : /\ d \in G /\ port(d) \in Dirs
                      /\ after.outbox[port(d)] # NoCar
                      /\ after.outbox[port(d)].id = old(d)[1].id
      /\ \A d, e \in H : port(d) = port(e) => d = e
      /\ \A p \in Dirs : after.outbox[p] # NoCar => \E d \in H : port(d) = p
  BY <1>3, PortsAfterA
<1>6. \A p \in Dirs : after.outbox[p] # NoCar => Neighbour(n, p) \in Nodes
  BY <1>3, OutboxAfterA, NeighbourBack DEF Fits
<1>7. /\ after.count \in Counters
      /\ after.count.spawned = count[n].spawned
      /\ after.count.crossed - count[n].crossed = after.count.sensor - count[n].sensor
      /\ IsFiniteSet(G) /\ Cardinality(H) \in Nat /\ Cardinality(G) \in Nat
      /\ Cardinality(G) = (after.count.parked - count[n].parked)
                            + (after.count.exited - count[n].exited) + Cardinality(H)
  BY <1>3, CountAfterA
<1>8. G \subseteq Dirs /\ H \subseteq Dirs
  BY DEF Granted, HandedOver, Crossing, Leaving, Grants, Asking
<1> HIDE DEF after, G, H, old, new, port
<1>9. /\ road'[n] = after.road /\ outbox'[n] = after.outbox /\ count'[n] = after.count
      /\ \A m \in Nodes \ {n} : road'[m] = road[m] /\ outbox'[m] = outbox[m] /\ count'[m] = count[m]
  BY <1>1, <1>3 DEF TypeOK, after
<1>10. \A d \in Dirs : old(d) = road[n][d] /\ new(d) = road'[n][d]
  BY <1>9 DEF old, new
<1>11. \A d \in Dirs : Len(old(d)) <= LinkCells
  <2> SUFFICES ASSUME NEW d \in Dirs PROVE Len(road[n][d]) <= LinkCells
    BY DEF old
  <2>1. road[n][d] \in Seq(Cars) /\ CheckLink(road[n][d])
    BY <1>3, RoadsHoldCars DEF Ordered
  <2> QED
    BY <2>1, CarsFit
<1>12. \A d \in G : Len(old(d)) \in 1 .. LinkCells
  <2> SUFFICES ASSUME NEW d \in G PROVE Len(old(d)) \in 1 .. LinkCells
    OBVIOUS
  <2>1. d \in Dirs /\ old(d) # <<>> /\ old(d) \in Seq(Cars) /\ Len(old(d)) <= LinkCells
    BY <1>3, <1>4, <1>8, <1>11 DEF TypeOK, old
  <2>2. Len(old(d)) \in Nat /\ Len(old(d)) > 0
    BY <2>1, CarsOfLink
  <2> QED
    BY <2>1, <2>2, LinkAssumption
<1> DEFINE last == [d \in G |-> <<n, d, Len(old(d))>>]
           Gone == {last[d] : d \in G}
<1>13. /\ Places' = Places \ Gone /\ Gone \subseteq Places
       /\ IsFiniteSet(Gone) /\ Cardinality(Gone) = Cardinality(G)
  <2>1. ASSUME NEW x \in Nodes \X Dirs \X (1 .. LinkCells)
        PROVE  x \in Places' <=> x \in Places \ Gone
    <3>1. x = <<x[1], x[2], x[3]>> /\ x[1] \in Nodes /\ x[2] \in Dirs /\ x[3] \in 1 .. LinkCells
      OBVIOUS
    <3>2. x \in Gone <=> x[1] = n /\ x[2] \in G /\ x[3] = Len(old(x[2]))
      BY <3>1
    <3>3. x \in Places <=> x[3] <= Len(road[x[1]][x[2]])
      BY DEF Places
    <3>4. x \in Places' <=> x[3] <= Len(road'[x[1]][x[2]])
      BY DEF Places
    <3> HIDE DEF Gone
    <3>5. CASE x[1] # n
      BY <1>9, <3>1, <3>2, <3>3, <3>4, <3>5
    <3>6. CASE x[1] = n /\ x[2] \notin G
      BY <1>4, <1>10, <3>1, <3>2, <3>3, <3>4, <3>6
    <3>7. CASE x[1] = n /\ x[2] \in G
      <4>1. Len(road'[x[1]][x[2]]) = Len(road[x[1]][x[2]]) - 1 /\ Len(road[x[1]][x[2]]) \in Nat
        BY <1>4, <1>10, <3>1, <3>7
      <4>2. x \in Gone <=> x[3] = Len(road[x[1]][x[2]])
        BY <1>10, <3>1, <3>2, <3>7
      <4> QED
        BY <3>1, <3>3, <3>4, <4>1, <4>2
    <3> QED
      BY <3>5, <3>6, <3>7
  <2>2. /\ Places \subseteq Nodes \X Dirs \X (1 .. LinkCells)
        /\ Places' \subseteq Nodes \X Dirs \X (1 .. LinkCells)
    BY DEF Places
  <2>3. Gone \subseteq Places
    <3> SUFFICES ASSUME NEW d \in G PROVE last[d] \in Places
      OBVIOUS
    <3>1. d \in Dirs /\ Len(old(d)) \in 1 .. LinkCells /\ old(d) = road[n][d]
      BY <1>8, <1>10, <1>12
    <3> QED
      BY <3>1 DEF Places
  <2>4. \A d \in G, e \in G : last[d] = last[e] => d = e
    OBVIOUS
  <2> HIDE DEF last
  <2>5. IsFiniteSet(Gone) /\ Cardinality(Gone) = Cardinality(G)
    BY <1>7, <2>4, SizeOfImage
  <2> HIDE DEF Gone
  <2> QED
    BY <2>1, <2>2, <2>3, <2>5
<1> DEFINE out == [d \in H |-> <<n, port(d)>>]
           Sent == {out[d] : d \in H}
<1>14. /\ InFlight' = InFlight \union Sent /\ InFlight \cap Sent = {}
       /\ IsFiniteSet(Sent) /\ Cardinality(Sent) = Cardinality(H)
  <2>1. ASSUME NEW x \in Nodes \X Dirs
        PROVE  x \in InFlight' <=> x \in InFlight \union Sent
    <3>1. x = <<x[1], x[2]>> /\ x[1] \in Nodes /\ x[2] \in Dirs
      OBVIOUS
    <3>2. x \in Sent <=> x[1] = n /\ \E d \in H : port(d) = x[2]
      BY <3>1
    <3> HIDE DEF Sent
    <3>3. x \in InFlight <=> outbox[x[1]][x[2]] # NoCar /\ x[1] \notin pending
      BY <1>2, <3>1 DEF InFlight
    <3>4. x \in InFlight' <=>
             /\ outbox'[x[1]][x[2]] # NoCar
             /\ \/ pending # {n} /\ x[1] \notin pending \ {n}
                \/ pending = {n} /\ Neighbour(x[1], x[2]) \in Nodes
      BY <1>2, <3>1 DEF InFlight
    <3>5. CASE x[1] = n
      <4>1. x \notin InFlight
        BY <1>2, <3>3, <3>5
      <4>2. x \in InFlight' <=> after.outbox[x[2]] # NoCar
        BY <1>6, <1>9, <3>1, <3>4, <3>5
      <4> QED
        BY <1>5, <3>1, <3>2, <3>5, <4>1, <4>2
    <3>6. CASE x[1] # n
      <4>1. outbox'[x[1]] = outbox[x[1]] /\ x \notin Sent
        BY <1>9, <3>1, <3>2, <3>6
      <4>2. x \in InFlight => Neighbour(x[1], x[2]) \in Nodes
        <5>1. x \in InFlight => Neighbour(x[1], x[2]) # NoNode
          BY <1>3, <3>3 DEF HandedRoom, Fits
        <5> QED
          BY <5>1, <3>1, NeighbourBack
      <4> QED
        BY <3>3, <3>4, <3>6, <4>1, <4>2
    <3> QED
      BY <3>5, <3>6
  <2>2. Sent \subseteq Nodes \X Dirs
    BY <1>5
  <2>3. InFlight \cap Sent = {}
    <3>1. \A x \in InFlight : x[1] \notin pending
      BY <1>2 DEF InFlight
    <3>2. \A x \in Sent : x[1] = n
      OBVIOUS
    <3> HIDE DEF Sent
    <3> QED
      BY <1>2, <3>1, <3>2
  <2>4. \A d \in H, e \in H : out[d] = out[e] => d = e
    BY <1>5
  <2>5. IsFiniteSet(H)
    BY <1>8, PartOfDirs
  <2> HIDE DEF out
  <2>6. IsFiniteSet(Sent) /\ Cardinality(Sent) = Cardinality(H)
    BY <2>4, <2>5, SizeOfImage
  <2>7. InFlight \subseteq Nodes \X Dirs /\ InFlight' \subseteq Nodes \X Dirs
    BY DEF InFlight
  <2> HIDE DEF Sent
  <2> QED
    BY <2>1, <2>2, <2>3, <2>6, <2>7
<1>15. Balance'
  <2> HIDE DEF Gone, Sent
  <2>1. /\ IsFiniteSet(Places) /\ Cardinality(Places) \in Nat
        /\ IsFiniteSet(InFlight) /\ Cardinality(InFlight) \in Nat
    BY <1>3, PlacesAndPorts
  <2>2. /\ Cardinality(Places') \in Nat
        /\ Cardinality(Places) = Cardinality(Places') + Cardinality(G)
    BY <1>13, <2>1, SizeOfRest
  <2>3. Cardinality(InFlight') = Cardinality(InFlight) + Cardinality(H)
    BY <1>14, <2>1, SizeOfDisjoint
  <2>4. \A field \in {"spawned", "exited", "parked", "crossed", "sensor"} :
           /\ Total(field) \in Int /\ Total(field)' \in Int
           /\ Total(field)' = Total(field) + (after.count[field] - count[n][field])
    <3> SUFFICES ASSUME NEW field \in {"spawned", "exited", "parked", "crossed", "sensor"}
                 PROVE  /\ Total(field) \in Int /\ Total(field)' \in Int
                        /\ Total(field)' = Total(field) + (count'[n][field] - count[n][field])
      BY <1>9
    <3> QED
      BY <1>3, <1>9, TotalChanges
  <2>5. /\ Total("spawned") \in Int /\ Total("exited") \in Int /\ Total("parked") \in Int
        /\ Total("spawned")' = Total("spawned") + (after.count.spawned - count[n].spawned)
        /\ Total("exited")' = Total("exited") + (after.count.exited - count[n].exited)
        /\ Total("parked")' = Total("parked") + (after.count.parked - count[n].parked)
    BY <2>4
  <2>6. count[n] \in Counters
    BY <1>3 DEF TypeOK, Counters
  <2>7. /\ count[n].spawned \in Nat /\ count[n].exited \in Nat /\ count[n].parked \in Nat
        /\ after.count.spawned \in Nat /\ after.count.exited \in Nat /\ after.count.parked \in Nat
    BY <1>7, <2>6 DEF Counters
  <2>8. Total("spawned") = Cardinality(Places) + Cardinality(InFlight) + Total("exited") + Total("parked")
    BY DEF Kept, Balance
  <2>9. Total("spawned")' = Cardinality(Places') + Cardinality(InFlight') + Total("exited")' + Total("parked")'
    BY <1>7, <2>1, <2>2, <2>3, <2>5, <2>7, <2>8
  <2> QED
    BY <2>9 DEF Balance
<1> DEFINE ToOf(o) ==
             IF o[1] = "road" /\ o[2][1] = n /\ o[2][2] \in G
             THEN IF o[2][3] = 1 THEN <<"port", <<n, port(o[2][2])>>>>
                  ELSE <<"road", <<n, o[2][2], o[2][3] - 1>>>>
             ELSE o
           to == [o \in Spots |-> ToOf(o)]
<1>16. \A s \in Spots' : \E o \in Spots : s = to[o] /\ IdAt(s)' = IdAt(o)
  <2> SUFFICES ASSUME NEW s \in Spots' PROVE \E o \in Spots : s = ToOf(o) /\ IdAt(s)' = IdAt(o)
    OBVIOUS
  <2>1. CASE s \in {"road"} \X Places'
    <3>1. PICK x \in Places' : s = <<"road", x>>
      BY <2>1
    <3>2. /\ x = <<x[1], x[2], x[3]>> /\ x[1] \in Nodes /\ x[2] \in Dirs /\ x[3] \in 1 .. LinkCells
          /\ x[3] <= Len(road'[x[1]][x[2]]) /\ x \in Places
      BY <1>13 DEF Places
    <3>3. IdAt(s)' = road'[x[1]][x[2]][x[3]].id
      BY <3>1 DEF IdAt
    <3>4. CASE x[1] # n
      <4>1. s \in Spots /\ s = ToOf(s) /\ IdAt(s) = road[x[1]][x[2]][x[3]].id
        BY <3>1, <3>2, <3>4 DEF Spots, IdAt
      <4> QED
        BY <1>9, <3>2, <3>3, <3>4, <4>1
    <3>5. CASE x[1] = n /\ x[2] \notin G
      <4>1. s \in Spots /\ s = ToOf(s) /\ IdAt(s) = old(x[2])[x[3]].id
        BY <1>10, <3>1, <3>2, <3>5 DEF Spots, IdAt
      <4>2. x[3] \in 1 .. Len(new(x[2]))
        BY <1>4, <1>10, <3>2, <3>5
      <4>3. new(x[2])[x[3]].id = old(x[2])[x[3]].id
        BY <1>4, <3>2, <3>5, <4>2
      <4> QED
        BY <1>10, <3>2, <3>3, <3>5, <4>1, <4>3
    <3>6. CASE x[1] = n /\ x[2] \in G
      <4> DEFINE y == <<n, x[2], x[3] + 1>>
                 o == <<"road", y>>
      <4>1. x[3] \in 1 .. Len(new(x[2])) /\ Len(new(x[2])) = Len(old(x[2])) - 1 /\ Len(old(x[2])) \in 1 .. LinkCells
        BY <1>4, <1>10, <1>12, <3>2, <3>6
      <4>2. x[3] + 1 \in 1 .. LinkCells /\ x[3] + 1 <= Len(old(x[2])) /\ x[3] + 1 # 1 /\ (x[3] + 1) - 1 = x[3]
        BY <4>1, LinkAssumption
      <4>3. y \in Places
        BY <1>10, <3>2, <4>2 DEF Places
      <4>4. o \in Spots /\ IdAt(o) = old(x[2])[x[3] + 1].id
        BY <1>10, <3>2, <4>3 DEF Spots, IdAt
      <4>5. s = ToOf(o)
        BY <3>1, <3>2, <3>6, <4>2
      <4>6. new(x[2])[x[3]].id = old(x[2])[x[3] + 1].id
        BY <1>4, <3>2, <3>6, <4>1
      <4> QED
        BY <1>10, <3>2, <3>3, <3>6, <4>4, <4>5, <4>6
    <3> QED
      BY <3>4, <3>5, <3>6
  <2>2. CASE s \in {"port"} \X InFlight'
    <3>1. PICK x \in InFlight' : s = <<"port", x>>
      BY <2>2
    <3>2. IdAt(s)' = outbox'[x[1]][x[2]].id
      BY <3>1 DEF IdAt
    <3>3. CASE x \in InFlight
      <4>1. s \in Spots /\ s = ToOf(s) /\ IdAt(s) = outbox[x[1]][x[2]].id
        BY <3>1, <3>3 DEF Spots, IdAt
      <4>2. x[1] \in Nodes \ {n}
        BY <1>2, <3>3 DEF InFlight
      <4> QED
        BY <1>9, <3>2, <4>1, <4>2
    <3>4. CASE x \in Sent
      <4>1. PICK d \in H : x = <<n, port(d)>>
        BY <3>4
      <4> DEFINE y == <<n, d, 1>>
                 o == <<"road", y>>
      <4>2. d \in G /\ d \in Dirs /\ Len(old(d)) \in 1 .. LinkCells
        BY <1>5, <1>8, <1>12
      <4>3. y \in Places
        <5>1. 1 \in 1 .. LinkCells /\ 1 <= Len(old(d)) /\ old(d) = road[n][d]
          BY <1>10, <4>2, LinkAssumption
        <5>2. y \in Nodes \X Dirs \X (1 .. LinkCells) /\ y[1] = n /\ y[2] = d /\ y[3] = 1
          BY <4>2, <5>1
        <5> QED
          BY <5>1, <5>2 DEF Places
      <4>4. o \in Spots /\ IdAt(o) = old(d)[1].id
        BY <1>10, <4>2, <4>3 DEF Spots, IdAt
      <4>5. s = ToOf(o)
        BY <3>1, <4>1, <4>2
      <4>6. IdAt(s)' = after.outbox[port(d)].id
        BY <1>9, <3>2, <4>1
      <4> QED
        BY <1>5, <4>4, <4>5, <4>6
    <3> QED
      BY <1>14, <3>3, <3>4
  <2> QED
    BY <2>1, <2>2 DEF Spots
<1> HIDE DEF to
<1>17. Distinct'
  BY <1>16, DistinctKept DEF Kept
<1>18. Fresh'
  <2> SUFFICES ASSUME NEW s \in Spots'
               PROVE  IdAt(s)' \in CarIds /\ IdAt(s)'[3] < tick
    BY <1>2 DEF Fresh
  <2>1. PICK o \in Spots : IdAt(s)' = IdAt(o)
    BY <1>16
  <2> QED
    BY <1>2, <2>1 DEF Kept, Fresh
<1>19. Crossings'
  <2> SUFFICES ASSUME NEW m \in Nodes PROVE frames[m] + count'[m].sensor = count'[m].crossed
    BY <1>2 DEF Crossings
  <2>1. frames[m] + count[m].sensor = count[m].crossed /\ frames[m] \in Nat /\ count[m] \in Counters
    BY <1>3 DEF Kept, Crossings, TypeOK, Counters
  <2>2. CASE m # n
    BY <1>9, <2>1, <2>2
  <2>3. CASE m = n
    <3>1. /\ count[n].sensor \in Nat /\ count[n].crossed \in Nat
          /\ after.count.sensor \in Nat /\ after.count.crossed \in Nat
      BY <1>7, <2>1, <2>3 DEF Counters
    <3> QED
      BY <1>7, <1>9, <2>1, <2>3, <3>1
  <2> QED
    BY <2>2, <2>3
<1> QED
  BY <1>15, <1>17, <1>18, <1>19 DEF Kept

-----------------------------------------------------------------------------
(* Phase B keeps the cars                                                  *)

\* The links of n that take a car from their neighbour, and those that spawn one
Arriving(n) == {d \in Dirs : Incoming(n, d) # NoCar}
Born(n, spawn) == {d \in Dirs : Spawns(n, d, spawn)}

\* A link of a node after step_b: at most one car more, behind all the others.
LEMMA IdsAfterB ==
  ASSUME TypeOK, HandedRoom, PublishedGaps, stage = "b", NEW n \in pending,
         NEW spawn, NEW route \in [Entered(n, spawn) -> TurnShares], NEW d \in Dirs
  PROVE  LET old == road[n][d]
             new == RoadAfterB(n, d, spawn, route)
         IN  /\ Len(old) \in Nat
             /\ \A i \in 1 .. Len(old) : new[i] = old[i]
             /\ d \notin Entered(n, spawn) => Len(new) = Len(old)
             /\ d \in Arriving(n) => /\ Len(new) = Len(old) + 1
                                    /\ new[Len(old) + 1].id = Incoming(n, d).id
             /\ d \in Born(n, spawn) => /\ Len(new) = Len(old) + 1
                                       /\ new[Len(old) + 1].id = <<n, d, tick>>
<1> DEFINE old == road[n][d]
           new == RoadAfterB(n, d, spawn, route)
<1>1. n \in Nodes /\ old \in Seq(Cars)
  BY DEF TypeOK
<1>2. d \in Entered(n, spawn) => route[d] \in Turns
  BY DrawAssumption
<1>3. CASE Incoming(n, d) # NoCar
  <2> DEFINE head == Incoming(n, d)
             car == [head EXCEPT !.turn = route[d]]
  <2>1. head \in Cars
    BY <1>3, IncomingCar
  <2>2. route[d] \in Turns /\ d \in Entered(n, spawn) /\ d \notin Born(n, spawn)
    BY <1>2, <1>3 DEF Entered, Born, Spawns
  <2>3. head = [id |-> head.id, pos |-> head.pos, vel |-> head.vel, turn |-> head.turn]
    BY <2>1, CarFields
  <2>4. car = [head EXCEPT !.turn = route[d]]
    OBVIOUS
  <2>5. new = old \o <<car>> \o <<>>
    BY <1>3 DEF RoadAfterB, Spawns
  <2> HIDE DEF head, car, old, new
  <2>6. car = [id |-> head.id, pos |-> head.pos, vel |-> head.vel, turn |-> route[d]]
    BY <2>3, <2>4
  <2>7. car \in Cars /\ car.id = head.id
    BY <2>1, <2>2, <2>6 DEF Cars
  <2>8. <<car>> \in Seq(Cars)
    BY <2>7
  <2>9. old \o <<car>> \in Seq(Cars)
    BY <1>1, <2>8, ConcatProperties
  <2>10. new = old \o <<car>>
    BY <2>5, <2>9, ConcatEmptySeq
  <2>11. /\ Len(old) \in Nat /\ Len(new) = Len(old) + 1
         /\ \A i \in 1 .. Len(old) : new[i] = old[i]
         /\ new[Len(old) + 1] = car
    BY <1>1, <2>7, <2>10, LastCar
  <2> QED
    BY <2>2, <2>7, <2>11 DEF old, new, head
<1>4. CASE Incoming(n, d) = NoCar /\ Spawns(n, d, spawn)
  <2> DEFINE car == [id |-> <<n, d, tick>>, pos |-> 0, vel |-> 0, turn |-> route[d]]
  <2>1. route[d] \in Turns /\ d \in Entered(n, spawn) /\ d \notin Arriving(n)
    BY <1>2, <1>4 DEF Entered, Arriving
  <2>2. <<n, d, tick>> \in CarIds
    BY <1>1 DEF CarIds, TypeOK
  <2>3. car \in Cars
    BY <2>1, <2>2, LinkAssumption DEF Cars
  <2>4. new = old \o <<>> \o <<car>>
    BY <1>4 DEF RoadAfterB
  <2>5. car.id = <<n, d, tick>>
    OBVIOUS
  <2> HIDE DEF car, old, new
  <2>6. old \o <<>> = old
    BY <1>1, ConcatEmptySeq
  <2>7. /\ Len(old) \in Nat /\ Len(new) = Len(old) + 1
        /\ \A i \in 1 .. Len(old) : new[i] = old[i]
        /\ new[Len(old) + 1] = car
    BY <1>1, <2>3, <2>4, <2>6, LastCar
  <2> QED
    BY <2>1, <2>5, <2>7 DEF old, new
<1>5. CASE Incoming(n, d) = NoCar /\ ~Spawns(n, d, spawn)
  <2>1. new = old \o <<>> \o <<>>
    BY <1>5 DEF RoadAfterB
  <2>2. new = old /\ Len(old) \in Nat
    BY <1>1, <2>1, ConcatEmptySeq, LenProperties
  <2>3. d \notin Arriving(n) /\ d \notin Born(n, spawn)
    BY <1>5 DEF Arriving, Born
  <2> HIDE DEF old, new
  <2> QED
    BY <2>2, <2>3 DEF old, new
<1> QED
  BY <1>3, <1>4, <1>5

\* The counters of a node after step_b: only the spawned cars are added.
LEMMA CountAfterB ==
  ASSUME TypeOK, NEW n \in Nodes, NEW spawn, NEW route
  PROVE  LET new == AfterB(n, spawn, route).count
             old == count[n]
         IN  /\ Cardinality(Born(n, spawn)) \in Nat
             /\ new.spawned = old.spawned + Cardinality(Born(n, spawn))
             /\ new.exited = old.exited /\ new.parked = old.parked
             /\ new.crossed = old.crossed /\ new.sensor = old.sensor
<1> DEFINE old == count[n]
           new == AfterB(n, spawn, route).count
           born == Cardinality(Born(n, spawn))
<1>1. new = [old EXCEPT !.spawned = @ + born]
  BY DEF AfterB, Born
<1>2. old \in Counters
  BY DEF TypeOK, Counters
<1>3. born \in Nat
  BY PartOfDirs DEF Born
<1> HIDE DEF old, new, born
<1>4. new = [spawned |-> old.spawned + born, exited |-> old.exited, parked |-> old.parked,
             crossed |-> old.crossed, sensor |-> old.sensor]
  BY <1>1, <1>2 DEF Counters
<1>5. /\ new.spawned = old.spawned + born
      /\ new.exited = old.exited /\ new.parked = old.parked
      /\ new.crossed = old.crossed /\ new.sensor = old.sensor
  BY <1>4
<1> QED
  BY <1>3, <1>5 DEF old, new, born

\* Where the car that arrives on approach d comes from
From(n, d) == <<Neighbour(n, d), Opposite(d)>>

\* What a pending node takes is what was in flight towards it.
LEMMA ArrivalsAreInFlight ==
  ASSUME TypeOK, HandedRoom, stage = "b", NEW n \in pending
  PROVE  /\ \A d \in Arriving(n) : /\ From(n, d) \in InFlight
                                    /\ Neighbour(n, d) \in Nodes /\ Opposite(d) \in Dirs
                                    /\ Opposite(Opposite(d)) = d
                                    /\ Neighbour(Neighbour(n, d), Opposite(d)) = n
                                    /\ Incoming(n, d) = outbox[Neighbour(n, d)][Opposite(d)]
         /\ \A x \in InFlight : Neighbour(x[1], x[2]) = n =>
               Opposite(x[2]) \in Arriving(n) /\ From(n, Opposite(x[2])) = x
<1>1. n \in Nodes
  BY DEF TypeOK
<1>2. \A d \in Dirs : Opposite(d) \in Dirs /\ Opposite(Opposite(d)) = d
  BY DEF Opposite, Dirs
<1>3. ASSUME NEW d \in Arriving(n)
      PROVE  /\ From(n, d) \in InFlight
             /\ Neighbour(n, d) \in Nodes
             /\ Neighbour(Neighbour(n, d), Opposite(d)) = n
             /\ Incoming(n, d) = outbox[Neighbour(n, d)][Opposite(d)]
  <2>1. d \in Dirs /\ Neighbour(n, d) # NoNode /\ Incoming(n, d) # NoCar
    BY <1>3 DEF Arriving, Incoming
  <2>2. Neighbour(n, d) \in Nodes /\ Neighbour(Neighbour(n, d), Opposite(d)) = n
    BY <1>1, <2>1, NeighbourBack
  <2>3. Incoming(n, d) = outbox[Neighbour(n, d)][Opposite(d)]
    BY <2>1 DEF Incoming
  <2> QED
    BY <1>2, <2>1, <2>2, <2>3 DEF InFlight, From
<1>4. ASSUME NEW x \in InFlight, Neighbour(x[1], x[2]) = n
      PROVE  Opposite(x[2]) \in Arriving(n) /\ From(n, Opposite(x[2])) = x
  <2>1. x = <<x[1], x[2]>> /\ x[1] \in Nodes /\ x[2] \in Dirs /\ outbox[x[1]][x[2]] # NoCar
    BY <1>4 DEF InFlight
  <2>2. n # NoNode
    BY <1>1, GridAssumption DEF Nodes, NoNode
  <2>3. Neighbour(n, Opposite(x[2])) = x[1]
    BY <1>4, <2>1, <2>2, NeighbourBack
  <2>4. x[1] # NoNode
    BY <2>1, GridAssumption DEF Nodes, NoNode
  <2> QED
    BY <1>2, <2>1, <2>3, <2>4 DEF Arriving, Incoming, From
<1> QED
  BY <1>2, <1>3, <1>4 DEF Arriving

(* step_b keeps the cars: a car that is handed over is taken, a spawned car *)
(* is new, and every other car is where it was.                            *)
LEMMA StepBKept ==
  ASSUME Inv, Inv', Kept, NEW n \in Nodes, StepB(n)
  PROVE  Kept'
<1>1. PICK spawn \in SUBSET {d \in Dirs : <<n, d>> \in Demand} :
      \E route \in [Entered(n, spawn) -> TurnShares] :
        /\ road' = [road EXCEPT ![n] = AfterB(n, spawn, route).road]
        /\ count' = [count EXCEPT ![n] = AfterB(n, spawn, route).count]
  BY DEF StepB
<1>2. PICK route \in [Entered(n, spawn) -> TurnShares] :
        /\ road' = [road EXCEPT ![n] = AfterB(n, spawn, route).road]
        /\ count' = [count EXCEPT ![n] = AfterB(n, spawn, route).count]
  BY <1>1
<1>3. /\ stage = "b" /\ n \in pending
      /\ IF pending = {n}
         THEN /\ pending' = Nodes
              /\ tick' = tick + 1
              /\ stage' = IF tick' % WindowTicks = 0 THEN "harvest" ELSE "a"
         ELSE pending' = pending \ {n} /\ tick' = tick /\ stage' = stage
      /\ outbox' = outbox /\ frames' = frames
  BY DEF StepB
<1>4. TypeOK /\ TypeOK' /\ Ordered' /\ HandedRoom /\ PublishedGaps
  BY DEF Inv
<1> DEFINE after == AfterB(n, spawn, route)
           A == Arriving(n)
           B == Born(n, spawn)
           E == Entered(n, spawn)
           old(d) == road[n][d]
           new(d) == after.road[d]
<1>5. \A d \in Dirs :
        /\ Len(old(d)) \in Nat
        /\ \A i \in 1 .. Len(old(d)) : new(d)[i] = old(d)[i]
        /\ d \notin E => Len(new(d)) = Len(old(d))
        /\ d \in A => /\ Len(new(d)) = Len(old(d)) + 1
                      /\ new(d)[Len(old(d)) + 1].id = Incoming(n, d).id
        /\ d \in B => /\ Len(new(d)) = Len(old(d)) + 1
                      /\ new(d)[Len(old(d)) + 1].id = <<n, d, tick>>
  <2>1. \A d \in Dirs : new(d) = RoadAfterB(n, d, spawn, route)
    BY DEF AfterB
  <2> HIDE DEF after
  <2> SUFFICES ASSUME NEW d \in Dirs
               PROVE  /\ Len(old(d)) \in Nat
                      /\ \A i \in 1 .. Len(old(d)) : new(d)[i] = old(d)[i]
                      /\ d \notin E => Len(new(d)) = Len(old(d))
                      /\ d \in A => /\ Len(new(d)) = Len(old(d)) + 1
                                    /\ new(d)[Len(old(d)) + 1].id = Incoming(n, d).id
                      /\ d \in B => /\ Len(new(d)) = Len(old(d)) + 1
                                    /\ new(d)[Len(old(d)) + 1].id = <<n, d, tick>>
    OBVIOUS
  <2>2. new(d) = RoadAfterB(n, d, spawn, route)
    BY <2>1
  <2> HIDE DEF new
  <2> QED
    BY <1>3, <1>4, <2>2, IdsAfterB
<1>6. /\ Cardinality(B) \in Nat
      /\ after.count.spawned = count[n].spawned + Cardinality(B)
      /\ after.count.exited = count[n].exited /\ after.count.parked = count[n].parked
      /\ after.count.crossed = count[n].crossed /\ after.count.sensor = count[n].sensor
  BY <1>4, CountAfterB
<1>7. /\ \A d \in A : /\ From(n, d) \in InFlight
                      /\ Neighbour(n, d) \in Nodes /\ Opposite(d) \in Dirs
                      /\ Opposite(Opposite(d)) = d
                      /\ Neighbour(Neighbour(n, d), Opposite(d)) = n
                      /\ Incoming(n, d) = outbox[Neighbour(n, d)][Opposite(d)]
      /\ \A x \in InFlight : Neighbour(x[1], x[2]) = n =>
            Opposite(x[2]) \in A /\ From(n, Opposite(x[2])) = x
  BY <1>3, <1>4, ArrivalsAreInFlight
<1>8. E = A \union B /\ A \cap B = {} /\ A \subseteq Dirs /\ B \subseteq Dirs
  BY DEF Entered, Arriving, Born, Spawns
<1> HIDE DEF after, A, B, E, old, new
<1>9. /\ road'[n] = after.road /\ count'[n] = after.count
      /\ \A m \in Nodes \ {n} : road'[m] = road[m] /\ count'[m] = count[m]
  BY <1>2, <1>4 DEF TypeOK, after
<1>10. \A d \in Dirs : old(d) = road[n][d] /\ new(d) = road'[n][d]
  BY <1>9 DEF old, new
<1>11. \A d \in E : /\ d \in Dirs /\ Len(new(d)) = Len(old(d)) + 1
                    /\ Len(old(d)) \in Nat /\ Len(old(d)) + 1 \in 1 .. LinkCells
  <2> SUFFICES ASSUME NEW d \in E
               PROVE  /\ d \in Dirs /\ Len(new(d)) = Len(old(d)) + 1
                      /\ Len(old(d)) \in Nat /\ Len(old(d)) + 1 \in 1 .. LinkCells
    OBVIOUS
  <2>1. d \in Dirs /\ Len(new(d)) = Len(old(d)) + 1 /\ Len(old(d)) \in Nat
    BY <1>5, <1>8
  <2>2. road'[n][d] \in Seq(Cars) /\ CheckLink(road'[n][d])
    BY <1>4, <2>1 DEF TypeOK, Ordered
  <2>3. Len(new(d)) <= LinkCells
    BY <1>10, <2>1, <2>2, CarsFit
  <2> QED
    BY <2>1, <2>3, LinkAssumption
<1> DEFINE back == [d \in E |-> <<n, d, Len(old(d)) + 1>>]
           Landed == {back[d] : d \in E}
<1>12. /\ Places' = Places \union Landed /\ Places \cap Landed = {}
       /\ IsFiniteSet(Landed) /\ Cardinality(Landed) = Cardinality(E)
  <2>1. ASSUME NEW x \in Nodes \X Dirs \X (1 .. LinkCells)
        PROVE  /\ x \in Places' <=> x \in Places \union Landed
               /\ ~(x \in Places /\ x \in Landed)
    <3>1. x = <<x[1], x[2], x[3]>> /\ x[1] \in Nodes /\ x[2] \in Dirs /\ x[3] \in 1 .. LinkCells
      OBVIOUS
    <3>2. x \in Landed <=> x[1] = n /\ x[2] \in E /\ x[3] = Len(old(x[2])) + 1
      BY <3>1
    <3>3. x \in Places <=> x[3] <= Len(road[x[1]][x[2]])
      BY DEF Places
    <3>4. x \in Places' <=> x[3] <= Len(road'[x[1]][x[2]])
      BY DEF Places
    <3> HIDE DEF Landed
    <3>5. CASE x[1] # n
      BY <1>9, <3>1, <3>2, <3>3, <3>4, <3>5
    <3>6. CASE x[1] = n /\ x[2] \notin E
      BY <1>5, <1>10, <3>1, <3>2, <3>3, <3>4, <3>6
    <3>7. CASE x[1] = n /\ x[2] \in E
      <4>1. Len(road'[x[1]][x[2]]) = Len(road[x[1]][x[2]]) + 1 /\ Len(road[x[1]][x[2]]) \in Nat
        BY <1>10, <1>11, <3>1, <3>7
      <4>2. x \in Landed <=> x[3] = Len(road[x[1]][x[2]]) + 1
        BY <1>10, <3>1, <3>2, <3>7
      <4> QED
        BY <3>1, <3>3, <3>4, <4>1, <4>2
    <3> QED
      BY <3>5, <3>6, <3>7
  <2>2. /\ Places \subseteq Nodes \X Dirs \X (1 .. LinkCells)
        /\ Places' \subseteq Nodes \X Dirs \X (1 .. LinkCells)
    BY DEF Places
  <2>3. Landed \subseteq Nodes \X Dirs \X (1 .. LinkCells)
    BY <1>11
  <2>4. \A d \in E, e \in E : back[d] = back[e] => d = e
    OBVIOUS
  <2>5. IsFiniteSet(E)
    BY <1>8, PartOfDirs
  <2> HIDE DEF back
  <2>6. IsFiniteSet(Landed) /\ Cardinality(Landed) = Cardinality(E)
    BY <2>4, <2>5, SizeOfImage
  <2> HIDE DEF Landed
  <2> QED
    BY <2>1, <2>2, <2>3, <2>6
<1> DEFINE from == [d \in A |-> From(n, d)]
           Taken == {from[d] : d \in A}
<1>13. /\ InFlight' = InFlight \ Taken /\ Taken \subseteq InFlight
       /\ IsFiniteSet(Taken) /\ Cardinality(Taken) = Cardinality(A)
  <2>1. Taken \subseteq InFlight
    BY <1>7
  <2>2. ASSUME NEW x \in Nodes \X Dirs
        PROVE  x \in InFlight' <=> x \in InFlight \ Taken
    <3>1. x = <<x[1], x[2]>> /\ x[1] \in Nodes /\ x[2] \in Dirs
      OBVIOUS
    <3>2. x \in Taken <=> x \in InFlight /\ Neighbour(x[1], x[2]) = n
      <4>1. ASSUME x \in Taken PROVE x \in InFlight /\ Neighbour(x[1], x[2]) = n
        <5>1. PICK d \in A : x = From(n, d)
          BY <4>1
        <5>2. x[1] = Neighbour(n, d) /\ x[2] = Opposite(d)
          BY <5>1 DEF From
        <5> QED
          BY <1>7, <5>1, <5>2
      <4>2. ASSUME x \in InFlight, Neighbour(x[1], x[2]) = n PROVE x \in Taken
        BY <1>7, <4>2
      <4> QED
        BY <4>1, <4>2
    <3> HIDE DEF Taken
    <3>3. x \in InFlight <=> outbox[x[1]][x[2]] # NoCar /\ Neighbour(x[1], x[2]) \in pending
      BY <1>3, <3>1 DEF InFlight
    <3>4. CASE pending = {n}
      <4>1. x \notin InFlight'
        BY <1>3, <3>1, <3>4 DEF InFlight
      <4> QED
        BY <3>2, <3>3, <3>4, <4>1
    <3>5. CASE pending # {n}
      <4>1. x \in InFlight' <=> outbox[x[1]][x[2]] # NoCar /\ Neighbour(x[1], x[2]) \in pending \ {n}
        BY <1>3, <3>1, <3>5 DEF InFlight
      <4> QED
        BY <3>2, <3>3, <4>1
    <3> QED
      BY <3>4, <3>5
  <2>3. \A d \in A, e \in A : from[d] = from[e] => d = e
    <3> SUFFICES ASSUME NEW d \in A, NEW e \in A, From(n, d) = From(n, e) PROVE d = e
      OBVIOUS
    <3>1. Opposite(d) = Opposite(e)
      BY DEF From
    <3>2. Opposite(Opposite(d)) = d /\ Opposite(Opposite(e)) = e
      BY <1>7
    <3> QED
      BY <3>1, <3>2
  <2>4. IsFiniteSet(A)
    BY <1>8, PartOfDirs
  <2> HIDE DEF from
  <2>5. IsFiniteSet(Taken) /\ Cardinality(Taken) = Cardinality(A)
    BY <2>3, <2>4, SizeOfImage
  <2>6. InFlight \subseteq Nodes \X Dirs /\ InFlight' \subseteq Nodes \X Dirs
    BY DEF InFlight
  <2> HIDE DEF Taken
  <2> QED
    BY <2>1, <2>2, <2>5, <2>6
<1>14. Balance'
  <2> HIDE DEF Landed, Taken
  <2>1. /\ IsFiniteSet(Places) /\ Cardinality(Places) \in Nat
        /\ IsFiniteSet(InFlight) /\ Cardinality(InFlight) \in Nat
    BY <1>4, PlacesAndPorts
  <2>2. Cardinality(Places') = Cardinality(Places) + Cardinality(E)
    BY <1>12, <2>1, SizeOfDisjoint
  <2>3. /\ Cardinality(InFlight') \in Nat
        /\ Cardinality(InFlight) = Cardinality(InFlight') + Cardinality(A)
    BY <1>13, <2>1, SizeOfRest
  <2>4. Cardinality(E) = Cardinality(A) + Cardinality(B) /\ Cardinality(A) \in Nat
    <3>1. IsFiniteSet(A) /\ IsFiniteSet(B) /\ Cardinality(A) \in Nat
      BY <1>8, PartOfDirs
    <3> QED
      BY <1>8, <3>1, SizeOfDisjoint
  <2>5. \A field \in {"spawned", "exited", "parked", "crossed", "sensor"} :
           /\ Total(field) \in Int /\ Total(field)' \in Int
           /\ Total(field)' = Total(field) + (after.count[field] - count[n][field])
    <3> SUFFICES ASSUME NEW field \in {"spawned", "exited", "parked", "crossed", "sensor"}
                 PROVE  /\ Total(field) \in Int /\ Total(field)' \in Int
                        /\ Total(field)' = Total(field) + (count'[n][field] - count[n][field])
      BY <1>9
    <3> QED
      BY <1>4, <1>9, TotalChanges
  <2>6. /\ Total("spawned") \in Int /\ Total("exited") \in Int /\ Total("parked") \in Int
        /\ Total("spawned")' = Total("spawned") + (after.count.spawned - count[n].spawned)
        /\ Total("exited")' = Total("exited") + (after.count.exited - count[n].exited)
        /\ Total("parked")' = Total("parked") + (after.count.parked - count[n].parked)
    BY <2>5
  <2>7. count[n] \in Counters
    BY <1>4 DEF TypeOK, Counters
  <2>8. count[n].spawned \in Nat /\ count[n].exited \in Nat /\ count[n].parked \in Nat
    BY <2>7 DEF Counters
  <2>9. Total("spawned") = Cardinality(Places) + Cardinality(InFlight) + Total("exited") + Total("parked")
    BY DEF Kept, Balance
  <2>10. Total("spawned")' = Cardinality(Places') + Cardinality(InFlight') + Total("exited")' + Total("parked")'
    BY <1>6, <2>1, <2>2, <2>3, <2>4, <2>6, <2>8, <2>9
  <2> QED
    BY <2>10 DEF Balance
<1> DEFINE ToOf(o) ==
             IF o[1] = "port" /\ Neighbour(o[2][1], o[2][2]) = n
             THEN <<"road", <<n, Opposite(o[2][2]), Len(old(Opposite(o[2][2]))) + 1>>>>
             ELSE o
           Old(s) == \E o \in Spots : s = ToOf(o) /\ IdAt(s)' = IdAt(o)
           New(s) == \E d \in B : s = <<"road", <<n, d, Len(old(d)) + 1>>>> /\ IdAt(s)' = <<n, d, tick>>
<1>15. \A s \in Spots' : Old(s) \/ New(s)
  <2> SUFFICES ASSUME NEW s \in Spots' PROVE Old(s) \/ New(s)
    OBVIOUS
  <2>1. CASE s \in {"road"} \X Places'
    <3>1. PICK x \in Places' : s = <<"road", x>>
      BY <2>1
    <3>2. x = <<x[1], x[2], x[3]>> /\ x[1] \in Nodes /\ x[2] \in Dirs /\ x[3] \in 1 .. LinkCells
      BY DEF Places
    <3>3. IdAt(s)' = road'[x[1]][x[2]][x[3]].id
      BY <3>1 DEF IdAt
    <3>4. CASE x \in Places
      <4>1. s \in Spots /\ s = ToOf(s) /\ IdAt(s) = road[x[1]][x[2]][x[3]].id
        BY <3>1, <3>4 DEF Spots, IdAt
      <4>2. CASE x[1] # n
        BY <1>9, <3>2, <3>3, <4>1, <4>2
      <4>3. CASE x[1] = n
        <5>1. x[3] \in 1 .. Len(old(x[2]))
          BY <1>5, <1>10, <3>2, <3>4, <4>3 DEF Places
        <5>2. new(x[2])[x[3]] = old(x[2])[x[3]]
          BY <1>5, <3>2, <5>1
        <5> QED
          BY <1>10, <3>2, <3>3, <4>1, <4>3, <5>2
      <4> QED
        BY <4>2, <4>3
    <3>5. CASE x \in Landed
      <4>1. PICK d \in E : x = <<n, d, Len(old(d)) + 1>>
        BY <3>5
      <4>2. x[1] = n /\ x[2] = d /\ x[3] = Len(old(d)) + 1 /\ d \in Dirs
        BY <1>11, <4>1
      <4>3. IdAt(s)' = new(d)[Len(old(d)) + 1].id
        BY <1>10, <3>3, <4>2
      <4>4. CASE d \in A
        <5> DEFINE o == <<"port", From(n, d)>>
        <5>1. o \in Spots
          BY <1>7, <4>4 DEF Spots
        <5>2. o[1] = "port" /\ o[2][1] = Neighbour(n, d) /\ o[2][2] = Opposite(d)
          BY DEF From
        <5> HIDE DEF o
        <5>3. IdAt(o) = outbox[Neighbour(n, d)][Opposite(d)].id
          BY <5>2 DEF IdAt
        <5>4. s = ToOf(o)
          BY <1>7, <3>1, <4>1, <4>4, <5>2
        <5>5. IdAt(s)' = IdAt(o)
          BY <1>5, <1>7, <4>2, <4>3, <4>4, <5>3
        <5> QED
          BY <5>1, <5>4, <5>5
      <4>5. CASE d \in B
        BY <1>5, <3>1, <4>1, <4>2, <4>3, <4>5
      <4> QED
        BY <1>8, <4>4, <4>5
    <3> QED
      BY <1>12, <3>4, <3>5
  <2>2. CASE s \in {"port"} \X InFlight'
    <3>1. PICK x \in InFlight' : s = <<"port", x>>
      BY <2>2
    <3>2. x \in InFlight /\ x \notin Taken
      BY <1>13, <3>1
    <3>3. Neighbour(x[1], x[2]) # n
      BY <1>7, <3>2
    <3>4. IdAt(s)' = IdAt(s)
      BY <1>3, <3>1 DEF IdAt
    <3> QED
      BY <3>1, <3>2, <3>3, <3>4 DEF Spots
  <2> QED
    BY <2>1, <2>2 DEF Spots
<1>16. \A o \in Spots : /\ IdAt(o) \in CarIds
                        /\ IdAt(o)[3] < tick \/ (IdAt(o)[3] = tick /\ IdAt(o)[1] \notin pending)
  BY DEF Kept, Fresh
<1> HIDE DEF ToOf
<1>17. Distinct'
  <2> SUFFICES ASSUME NEW s \in Spots', NEW t \in Spots', s # t PROVE IdAt(s)' # IdAt(t)'
    BY DEF Distinct
  <2>1. CASE Old(s) /\ Old(t)
    <3>1. PICK o \in Spots : s = ToOf(o) /\ IdAt(s)' = IdAt(o)
      BY <2>1
    <3>2. PICK q \in Spots : t = ToOf(q) /\ IdAt(t)' = IdAt(q)
      BY <2>1
    <3>3. o # q
      BY <3>1, <3>2
    <3> QED
      BY <3>1, <3>2, <3>3 DEF Kept, Distinct
  <2>2. CASE New(s) /\ New(t)
    <3>1. PICK d \in B : s = <<"road", <<n, d, Len(old(d)) + 1>>>> /\ IdAt(s)' = <<n, d, tick>>
      BY <2>2
    <3>2. PICK e \in B : t = <<"road", <<n, e, Len(old(e)) + 1>>>> /\ IdAt(t)' = <<n, e, tick>>
      BY <2>2
    <3>3. d # e
      BY <3>1, <3>2
    <3> QED
      BY <3>1, <3>2, <3>3
  <2>3. ASSUME NEW u, NEW v, Old(u), New(v) PROVE IdAt(u)' # IdAt(v)'
    <3>1. PICK o \in Spots : IdAt(u)' = IdAt(o)
      BY <2>3
    <3>2. PICK d \in B : IdAt(v)' = <<n, d, tick>>
      BY <2>3
    <3>3. <<n, d, tick>>[1] = n /\ <<n, d, tick>>[3] = tick
      OBVIOUS
    <3>4. tick \in Nat
      BY <1>4, BoundAssumption DEF TypeOK
    <3> QED
      BY <1>3, <1>16, <3>1, <3>2, <3>3, <3>4
  <2> QED
    BY <1>15, <2>1, <2>2, <2>3
<1>18. Fresh'
  <2> SUFFICES ASSUME NEW s \in Spots'
               PROVE  /\ IdAt(s)' \in CarIds
                      /\ \/ IdAt(s)'[3] < tick'
                         \/ stage' = "b" /\ IdAt(s)'[3] = tick' /\ IdAt(s)'[1] \notin pending'
    BY DEF Fresh
  <2> DEFINE id == IdAt(s)'
  <2>1. /\ id \in CarIds
        /\ id[3] < tick \/ (id[3] = tick /\ id[1] \notin pending \ {n})
    <3>1. CASE Old(s)
      BY <1>16, <3>1
    <3>2. CASE New(s)
      <4>1. PICK d \in B : id = <<n, d, tick>>
        BY <3>2
      <4>2. d \in Dirs /\ tick \in 0 .. MaxTick
        BY <1>4, <1>8 DEF TypeOK
      <4>3. <<n, d, tick>> \in CarIds /\ <<n, d, tick>>[1] = n /\ <<n, d, tick>>[3] = tick
        BY <4>2 DEF CarIds
      <4> HIDE DEF id
      <4> QED
        BY <4>1, <4>3
    <3> QED
      BY <1>15, <3>1, <3>2
  <2> HIDE DEF id
  <2>2. id[3] \in 0 .. MaxTick /\ tick \in 0 .. MaxTick /\ MaxTick \in Nat
    BY <1>4, <2>1, BoundAssumption DEF CarIds, TypeOK
  <2>3. CASE pending = {n}
    BY <1>3, <2>1, <2>2, <2>3 DEF id
  <2>4. CASE pending # {n}
    BY <1>3, <2>1, <2>4 DEF id
  <2> QED
    BY <2>3, <2>4
<1>19. Crossings'
  <2> SUFFICES ASSUME NEW m \in Nodes PROVE frames[m] + count'[m].sensor = count'[m].crossed
    BY <1>3 DEF Crossings
  <2>1. frames[m] + count[m].sensor = count[m].crossed
    BY DEF Kept, Crossings
  <2> QED
    BY <1>6, <1>9, <2>1
<1> QED
  BY <1>14, <1>17, <1>18, <1>19 DEF Kept

-----------------------------------------------------------------------------
(* The other steps keep the cars                                           *)

\* Where the cars stand, and what is said of them, depends on these values only.
LEMMA SpotsKept ==
  ASSUME Distinct, Places' = Places, InFlight' = {}, road' = road
  PROVE  /\ Distinct'
         /\ \A s \in Spots' : s \in Spots /\ IdAt(s)' = IdAt(s)
<1>1. \A s \in Spots' : s \in Spots /\ IdAt(s)' = IdAt(s)
  BY DEF Spots, IdAt
<1> QED
  BY <1>1 DEF Distinct

\* The end of a window moves counts from the sensors to the frame, and no car.
LEMMA HarvestKept == Inv /\ Kept /\ Inv' /\ Harvest => Kept'
<1> SUFFICES ASSUME Inv, Kept, Inv', Harvest PROVE Kept'
  OBVIOUS
<1>1. /\ stage = "harvest" /\ stage' = "a" /\ pending = Nodes /\ pending' = Nodes
      /\ tick' = tick /\ road' = road
      /\ frames' = [n \in Nodes |-> frames[n] + count[n].sensor]
      /\ count' = [n \in Nodes |-> [count[n] EXCEPT !.sensor = 0]]
  BY DEF Harvest, Inv, Phases
<1>2. InFlight = {} /\ InFlight' = {}
  <2>1. TypeOK /\ TypeOK'
    BY DEF Inv
  <2> QED
    BY <1>1, <2>1 DEF InFlight
<1>3. Places' = Places
  BY <1>1 DEF Places
<1>4. Distinct' /\ \A s \in Spots' : s \in Spots /\ IdAt(s)' = IdAt(s)
  BY <1>1, <1>2, <1>3, SpotsKept DEF Kept
<1>5. Fresh'
  BY <1>1, <1>4 DEF Kept, Fresh
<1>6. \A n \in Nodes : /\ count[n] \in Counters /\ frames[n] \in Nat
                       /\ count'[n].sensor = 0 /\ count'[n].crossed = count[n].crossed
                       /\ count'[n].spawned = count[n].spawned
                       /\ count'[n].exited = count[n].exited /\ count'[n].parked = count[n].parked
  <2> SUFFICES ASSUME NEW n \in Nodes
               PROVE  /\ count[n] \in Counters /\ frames[n] \in Nat
                      /\ count'[n].sensor = 0 /\ count'[n].crossed = count[n].crossed
                      /\ count'[n].spawned = count[n].spawned
                      /\ count'[n].exited = count[n].exited /\ count'[n].parked = count[n].parked
    OBVIOUS
  <2>1. count[n] \in Counters /\ frames[n] \in Nat
    BY DEF Inv, TypeOK, Counters
  <2>2. count'[n] = [count[n] EXCEPT !.sensor = 0]
    BY <1>1
  <2> QED
    BY <2>1, <2>2 DEF Counters
<1>7. Total("spawned")' = Total("spawned") /\ Total("exited")' = Total("exited") /\ Total("parked")' = Total("parked")
  BY <1>6 DEF Total
<1>8. Balance'
  BY <1>2, <1>3, <1>7 DEF Kept, Balance
<1>9. Crossings'
  <2> SUFFICES ASSUME NEW n \in Nodes PROVE frames'[n] + count'[n].sensor = count'[n].crossed
    BY DEF Crossings
  <2>1. frames'[n] = frames[n] + count[n].sensor /\ frames[n] + count[n].sensor = count[n].crossed
    BY <1>1 DEF Kept, Crossings
  <2>2. count[n].crossed \in Nat
    BY <1>6 DEF Counters
  <2> QED
    BY <1>6, <2>1, <2>2
<1> QED
  BY <1>4, <1>5, <1>8, <1>9 DEF Kept

\* A snapshot loses no car: none is handed over between two ticks.
LEMMA ResumeKept == Inv /\ Kept /\ Inv' /\ Resume => Kept'
<1> SUFFICES ASSUME Inv, Kept, Inv', Resume PROVE Kept'
  OBVIOUS
<1>1. /\ stage = "a" /\ stage' = "a" /\ pending = Nodes /\ pending' = Nodes
      /\ tick' = tick /\ road' = road /\ count' = count /\ frames' = frames
  BY DEF Resume
<1>2. InFlight = {} /\ InFlight' = {}
  BY <1>1 DEF InFlight
<1>3. Places' = Places
  BY <1>1 DEF Places
<1>4. Distinct' /\ \A s \in Spots' : s \in Spots /\ IdAt(s)' = IdAt(s)
  BY <1>1, <1>2, <1>3, SpotsKept DEF Kept
<1>5. Fresh'
  BY <1>1, <1>4 DEF Kept, Fresh
<1>6. Balance' /\ Crossings'
  BY <1>1, <1>2, <1>3 DEF Kept, Balance, Crossings, Total
<1> QED
  BY <1>4, <1>5, <1>6 DEF Kept

\* A step that changes nothing keeps the cars.
LEMMA StutterKept == Kept /\ UNCHANGED vars => Kept'
<1> SUFFICES ASSUME Kept, UNCHANGED vars PROVE Kept'
  OBVIOUS
<1>1. InFlight' = InFlight /\ Places' = Places
  BY DEF InFlight, Places, vars
<1>2. Spots' = Spots /\ \A s : IdAt(s)' = IdAt(s)
  BY <1>1 DEF Spots, IdAt, vars
<1>3. Distinct' /\ Fresh'
  BY <1>2 DEF Kept, Distinct, Fresh, vars
<1>4. Balance' /\ Crossings'
  BY <1>1 DEF Kept, Balance, Crossings, Total, vars
<1> QED
  BY <1>3, <1>4 DEF Kept

\* The empty city
LEMMA InitKept == Init => Kept
<1> SUFFICES ASSUME Init PROVE Kept
  OBVIOUS
<1>1. Places = {}
  <2>1. \A x \in Nodes \X Dirs \X (1 .. LinkCells) : Len(road[x[1]][x[2]]) = 0 /\ x[3] >= 1
    BY DEF Init
  <2> QED
    BY <2>1, LinkAssumption DEF Places
<1>2. InFlight = {}
  BY DEF Init, InFlight, EmptyOutbox
<1>3. Distinct /\ Fresh
  BY <1>1, <1>2 DEF Distinct, Fresh, Spots
<1>4. \A n \in Nodes : count[n] = NoCounts /\ frames[n] = 0
  BY DEF Init
<1>5. Crossings
  BY <1>4 DEF Crossings, NoCounts
<1>6. IsFiniteSet(Nodes)
  <2>1. 0 \in Int /\ Rows * Cols - 1 \in Int
    BY GridAssumption
  <2> QED
    BY <2>1, FS_Interval DEF Nodes
<1>7. Total("spawned") = 0 /\ Total("exited") = 0 /\ Total("parked") = 0
  <2> DEFINE zero == [n \in Nodes |-> 0]
  <2>1. SumFunctionOnSet(zero, Nodes) = 0
    <3>1. \A n \in Nodes : zero[n] = 0
      OBVIOUS
    <3> HIDE DEF zero
    <3> QED
      BY <1>6, <3>1, SumOfZeros
  <2>2. \A n \in Nodes : count[n]["spawned"] = 0 /\ count[n]["exited"] = 0 /\ count[n]["parked"] = 0
    BY <1>4 DEF NoCounts
  <2>3. /\ [n \in Nodes |-> count[n]["spawned"]] = zero
        /\ [n \in Nodes |-> count[n]["exited"]] = zero
        /\ [n \in Nodes |-> count[n]["parked"]] = zero
    BY <2>2
  <2>4. DOMAIN zero = Nodes
    OBVIOUS
  <2> HIDE DEF zero
  <2> QED
    BY <2>1, <2>3, <2>4 DEF Total, SumFunction
<1>8. Balance
  BY <1>1, <1>2, <1>7, FS_EmptySet DEF Balance
<1> QED
  BY <1>3, <1>5, <1>8 DEF Kept

(* check_conservation holds at every step: each car that was spawned is on *)
(* one link, handed over, exited or parked, and in no two of these places; *)
(* and each crossing is in a frame or in the sensor count of the window.   *)
THEOREM CarsAreConserved == Spec => []Conserved
<1>1. Init => Inv /\ Kept
  BY InitInv, InitKept
<1>2. Inv /\ Kept /\ [Next]_vars => (Inv /\ Kept)'
  <2> SUFFICES ASSUME Inv, Kept, [Next]_vars PROVE Kept'
    BY NextInv
  <2>1. Inv'
    BY NextInv
  <2>2. ASSUME NEW n \in Nodes, StepA(n) PROVE Kept'
    BY <2>1, <2>2, StepAKept
  <2>3. ASSUME NEW n \in Nodes, StepB(n) PROVE Kept'
    BY <2>1, <2>3, StepBKept
  <2>4. CASE Over
    BY <2>4, StutterKept DEF Over
  <2> QED
    BY <2>1, <2>2, <2>3, <2>4, HarvestKept, ResumeKept, StutterKept DEF Next
<1> QED
  BY <1>1, <1>2, KeptIsConserved, PTL DEF Spec

-----------------------------------------------------------------------------
(* One signal on its own, tick after tick: SignalTimer's variables are     *)
(* declared here, as CityTick keeps the signals of all nodes in one.       *)

VARIABLES phase, elapsed, waited

Timer == INSTANCE SignalTimer

\* A car on red never waits longer than the light has held, and the counter
\* of the light does not saturate before MaxGreen.
TimerCounts == waited <= elapsed /\ waited <= MaxGreen
TimerInv    == Timer!TypeOK /\ TimerCounts

(* A light that holds, with a car on red, has not used up its green time,  *)
(* so that its counter is exact.                                           *)
LEMMA HoldCountsUp ==
    ASSUME ElapsedMax >= MaxGreen, Timer!TypeOK, NEW greenWaiting \in BOOLEAN,
           ~Timer!Switches(Timer!Held(elapsed), greenWaiting, TRUE)
    PROVE  Timer!Held(elapsed) = elapsed + 1 /\ Timer!Held(elapsed) <= MaxGreen
BY GreenAssumption DEF Timer!TypeOK, Timer!Switches, Timer!Held

\* The counters agree at first.
LEMMA InitTimer == Timer!Init => TimerInv
BY GreenAssumption DEF Timer!Init, TimerInv, Timer!TypeOK, TimerCounts

(* One tick keeps the invariant: the light switches, or it holds with or   *)
(* without a car on red.                                                   *)
LEMMA TickTimer == ElapsedMax >= MaxGreen /\ TimerInv /\ [Timer!Next]_(Timer!vars) => TimerInv'
<1> SUFFICES ASSUME ElapsedMax >= MaxGreen, TimerInv, [Timer!Next]_(Timer!vars) PROVE TimerInv'
    OBVIOUS
<1>1. CASE UNCHANGED Timer!vars
    BY <1>1 DEF TimerInv, Timer!TypeOK, TimerCounts, Timer!vars
<1>2. ASSUME NEW g \in BOOLEAN, NEW r \in BOOLEAN, Timer!Tick(g, r) PROVE TimerInv'
    <2>1. Timer!Held(elapsed) \in 0 .. ElapsedMax
        BY GreenAssumption DEF TimerInv, Timer!TypeOK, Timer!Held
    <2>2. CASE Timer!Switches(Timer!Held(elapsed), g, r)
        <3>1. phase' = 1 - phase /\ elapsed' = 0 /\ waited' = 0
            BY <1>2, <2>2 DEF Timer!Tick, Timer!NextSignal, TimerInv, Timer!TypeOK
        <3> QED BY <3>1, GreenAssumption DEF TimerInv, Timer!TypeOK, TimerCounts
    <2>3. CASE ~Timer!Switches(Timer!Held(elapsed), g, r)
        <3>1. phase' = phase /\ elapsed' = Timer!Held(elapsed)
              /\ waited' = IF r THEN waited + 1 ELSE 0
            BY <1>2, <2>3 DEF Timer!Tick, Timer!NextSignal
        <3>2. CASE r
            <4>1. elapsed' = elapsed + 1 /\ elapsed' <= MaxGreen
                BY <2>3, <3>1, <3>2, HoldCountsUp DEF TimerInv
            <4> QED BY <2>1, <3>1, <3>2, <4>1, GreenAssumption DEF TimerInv, Timer!TypeOK, TimerCounts
        <3>3. CASE ~r
            BY <2>1, <3>1, <3>3, GreenAssumption DEF TimerInv, Timer!TypeOK, TimerCounts
        <3> QED BY <3>2, <3>3
    <2> QED BY <2>2, <2>3
<1> QED BY <1>1, <1>2 DEF Timer!Next

(* A red approach with a waiting car is served within the maximum green    *)
(* time, for every green time that the u16 elapsed can count to.           *)
THEOREM RedIsServed == ElapsedMax >= MaxGreen /\ Timer!Spec => []Timer!RedServed
<1>1. TimerInv => Timer!RedServed
    BY DEF TimerInv, TimerCounts, Timer!RedServed
<1>2. CASE ElapsedMax >= MaxGreen
    <2>1. TimerInv /\ [Timer!Next]_(Timer!vars) => TimerInv'
        BY <1>2, TickTimer
    <2> QED BY <1>1, <2>1, InitTimer, PTL DEF Timer!Spec
<1>3. CASE ~(ElapsedMax >= MaxGreen)
    BY <1>3
<1> QED BY <1>2, <1>3

=============================================================================
