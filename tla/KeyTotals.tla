----------------------------- MODULE KeyTotals -----------------------------
(***************************************************************************)
(* What the functions of m3t3d/traffic_mr.cpp make of a vector of          *)
(* KeyTotal, the cars of a light in an hour: the combiner, the merge of    *)
(* the runs a reducer received, the totals and candidates taken from it,   *)
(* the final ranking, and what of these is printed.                        *)
(***************************************************************************)
EXTENDS Integers, Sequences, FiniteSets, SequencesExt

Key(e) == <<e.hour, e.light>>
KeyLess(a, b) == a.hour < b.hour \/ (a.hour = b.hour /\ a.light < b.light)
BusierFirst(a, b) == a.cars > b.cars \/ (a.cars = b.cars /\ a.light < b.light)

\* The members of a set in the order of Before, which no two of them share.
InOrderOf(S, Before(_, _)) ==
    [p \in 1 .. Cardinality(S) |-> CHOOSE x \in S : Cardinality({y \in S : Before(y, x)}) = p - 1]

\* The members of s at these places, in order
At(s, places) ==
    LET order == InOrderOf(places, LAMBDA i, k : i < k) IN [p \in DOMAIN order |-> s[order[p]]]

Only(s, Test(_)) == At(s, {i \in DOMAIN s : Test(s[i])})

\* A stable sort: the order of Before and, among equals, the given one.
Sorted(s, Before(_, _)) ==
    LET first(i, k) == Before(s[i], s[k]) \/ (~Before(s[k], s[i]) /\ i < k)
        order == InOrderOf(DOMAIN s, first)
    IN  [p \in DOMAIN s |-> s[order[p]]]

\* The cars in a sequence of entries, and those of key k
Cars(es) == FoldLeft(LAMBDA sum, e : sum + e.cars, 0, es)
CarsOf(k, es) == FoldLeft(LAMBDA sum, e : IF Key(e) = k THEN sum + e.cars ELSE sum, 0, es)

\* HourTable: a non-zero total for every key, in key order.
Combined(es) ==
    LET sums == {[hour |-> k[1], light |-> k[2], cars |-> CarsOf(k, es)] : k \in {Key(es[i]) : i \in DOMAIN es}}
    IN  InOrderOf({t \in sums : t.cars # 0}, KeyLess)

-----------------------------------------------------------------------------
\* mergeRuns: every run in key order, then merged in pairs until one is left.
MergePairs(runs) ==
    [i \in 1 .. (Len(runs) + 1) \div 2 |->
        IF 2 * i <= Len(runs) THEN Sorted(runs[2 * i - 1] \o runs[2 * i], KeyLess) ELSE runs[2 * i - 1]]

MergeRuns(runs) ==
    LET full == Only(runs, LAMBDA run : run # <<>>)
        once == [i \in DOMAIN full |-> Sorted(full[i], KeyLess)]
        last == FoldLeft(LAMBDA s, i : IF Len(s) > 1 THEN MergePairs(s) ELSE s, once, runs)
    IN  IF full = <<>> THEN <<>> ELSE last[1]

\* forEachTotal: neighbours with one key are one total, and zeros are skipped.
Totals(sorted) ==
    LET add(s, e) == IF s # <<>> /\ Key(Last(s)) = Key(e)
                     THEN [s EXCEPT ![Len(s)].cars = @ + e.cars] ELSE Append(s, e)
    IN  Only(FoldLeft(add, <<>>, sorted), LAMBDA t : t.cars # 0)

\* Mutant: the heap drops the busiest light.
KeptLeast(heap, top) ==
    {t \in heap : Cardinality({u \in heap : BusierFirst(t, u)}) < top}

\* The heap of one hour after a push, and the pop when it is too large.
Kept(heap, top) == {t \in heap : Cardinality({u \in heap : BusierFirst(u, t)}) < top}

LessBusy(a, b) == BusierFirst(b, a)

\* reduceReceived: the heap is flushed, least busy first, when the hour changes.
Candidates(sorted, top) ==
    LET flushed(s) == s.out \o InOrderOf(s.heap, LessBusy)
        push(s, t) == IF t.hour # s.current
                      THEN [out |-> flushed(s), current |-> t.hour, heap |-> {t}]
                      ELSE [s EXCEPT !.heap = Kept(@ \union {t}, top)]
    IN  flushed(FoldLeft(push, [out |-> <<>>, current |-> 0, heap |-> {}], sorted))

RankLess(a, b) == a.hour < b.hour \/ (a.hour = b.hour /\ BusierFirst(a, b))

\* mergeCandidates
MergeCandidates(all, top) ==
    LET sorted == Sorted(all, RankLess)
        place(i) == Cardinality({k \in 1 .. i : sorted[k].hour = sorted[i].hour})
    IN  At(sorted, {i \in DOMAIN sorted : place(i) <= top})

-----------------------------------------------------------------------------
(* What is printed; labels and columns are left out                        *)

\* Neighbours for which Of is the same, as one group
Grouped(s, Of(_)) ==
    FoldLeft(LAMBDA gs, x : IF gs # <<>> /\ Of(Last(gs)[1]) = Of(x)
                            THEN [gs EXCEPT ![Len(gs)] = Append(@, x)] ELSE Append(gs, <<x>>),
             <<>>, s)

\* report: the ranking by hours; the console gets the first of them.
ByHour(ranked) == Grouped(ranked, LAMBDA t : t.hour)
Shown(ranked, hours) == SubSeq(ByHour(ranked), 1, Min({hours, Len(ByHour(ranked))}))

\* reduceTraceText: the partials of every key, with the rank that sent each,
\* and their sum. runs[s + 1] is the segment rank s delivered.
Partials(runs) ==
    LET from(s) == [i \in DOMAIN runs[s] |-> [hour |-> runs[s][i].hour, light |-> runs[s][i].light,
                                              cars |-> runs[s][i].cars, source |-> s - 1]]
        keys == Grouped(Sorted(FlattenSeq([s \in DOMAIN runs |-> from(s)]), KeyLess), Key)
    IN  [i \in DOMAIN keys |-> [parts |-> keys[i], sum |-> Cars(keys[i])]]

\* imbalance: peak over mean, as the two sides of a fraction.
Imbalance(values) ==
    LET sum == FoldLeft(LAMBDA s, v : s + v, 0, values)
    IN  IF sum = 0 THEN <<1, 1>> ELSE <<Max(ToSet(values)) * Len(values), sum>>
=============================================================================
