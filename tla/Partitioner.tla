---------------------------- MODULE Partitioner ----------------------------
(***************************************************************************)
(* The plan of m3t3d/traffic_mr.cpp: which reducer owns which key, a pair  *)
(* <<hour, light>>.  The hours of a plan are counted from the first hour   *)
(* of the file, as the vectors of the code are, but from 1.                *)
(***************************************************************************)
EXTENDS KeyTotals

SplitHour == -1   \* kSplitHour

TotalOf(weight, hours) == MapThenSumSet(LAMBDA h : weight[h], hours)

BlockOwners(span, reducers) == [h \in 1 .. span |-> ((h - 1) * reducers) \div span]

\* Hours without weight behind all others fall behind the last share.
Share(slot, reducers) == Min({slot, reducers - 1})

\* An hour goes to the reducer whose equal share holds its midpoint.
WeightedOwners(weight, reducers) ==
    LET total     == TotalOf(weight, DOMAIN weight)
        before(h) == TotalOf(weight, 1 .. h - 1)
        slot(h)   == ((2 * before(h) + weight[h]) * reducers) \div (2 * total)
    IN  [h \in DOMAIN weight |-> IF total = 0 THEN 0 ELSE Share(slot(h), reducers)]

HeaviestFirst(weight) ==
    Sorted([h \in DOMAIN weight |-> h], LAMBDA g, h : weight[g] > weight[h])

\* The hours too heavy for the room that those before them leave.
SplitHours(weight, reducers) ==
    FoldLeft(LAMBDA s, h :
                 IF s.full \/ weight[h] * reducers <= s.room THEN [s EXCEPT !.full = TRUE]
                 ELSE [s EXCEPT !.split = @ \union {h}, !.room = @ - weight[h]],
             [split |-> {}, room |-> TotalOf(weight, DOMAIN weight), full |-> FALSE], HeaviestFirst(weight)).split

HybridOwners(weight, reducers) ==
    LET split == SplitHours(weight, reducers)
        kept  == WeightedOwners([h \in DOMAIN weight |-> IF h \in split THEN 0 ELSE weight[h]], reducers)
    IN  [h \in DOMAIN weight |-> IF h \in split THEN SplitHour ELSE kept[h]]
=============================================================================
