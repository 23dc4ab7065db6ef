--------------------------- MODULE QuicksortProofs ---------------------------
(***************************************************************************)
(* The calls of Quicksort for any array, pivot rule, cutoffs and number of *)
(* threads: no two of them at work share an element, the unchecked scans   *)
(* stop in their range, the halves of a partition stay ordered while they  *)
(* are sorted, and the first call returns the input's elements in order.   *)
(*                                                                         *)
(* The first three hold only together.  The scans stop because the         *)
(* elements that stop them do not change, which is so because no other     *)
(* call at work shares them, which is so because every partition so far    *)
(* has split its range properly, which is where the scans stopped.         *)
(*                                                                         *)
(* The result is in order because every pair of elements is, unless some   *)
(* call has yet to sort it (PairsKept), and because nobody else has to     *)
(* sort an element that a call works on (OnlyTheWorker): what it knows to  *)
(* be in order when it hands over or returns is nobody's business any      *)
(* more.  The elements stay because a step swaps two of them or puts one   *)
(* in its place among those before it (SwapPermutes, InsertionPermutes).   *)
(*                                                                         *)
(* The threads are bounded because those forked and those that the open    *)
(* calls may still fork always add up to what the first call was given.    *)
(***************************************************************************)
EXTENDS Quicksort, DataLemmas, SequenceTheorems, FiniteSetTheorems, NaturalsInduction, TLAPS

Paths == Seq({0, 1})

\* Call e is one of those that wait below call d's return.
Above(e, d) == Len(e) < Len(d) /\ \A k \in 1 .. Len(e) : e[k] = d[k]

\* q is a record with the fields of a call.
IsCall(q) ==
    /\ q = [at |-> q.at, lo |-> q.lo, hi |-> q.hi, depth |-> q.depth,
            pivot |-> q.pivot, i |-> q.i, j |-> q.j, forked |-> q.forked]
    /\ q.at \in {"enter", "insert", "scan", "calls", "done"}
    /\ q.lo \in Nat /\ q.hi \in Nat /\ q.lo <= q.hi /\ q.hi <= N - 1

\* The calls are records on the paths of a tree.
Shape ==
    /\ program \in Programs
    /\ a \in [Index -> Values]
    /\ calls = [c \in DOMAIN calls |-> calls[c]]
    /\ Root \in DOMAIN calls
    /\ DOMAIN calls \subseteq Paths
    /\ \A c \in DOMAIN calls : IsCall(calls[c])

\* Whoever is above an open call is open and waits for its halves.
Waiting ==
    \A d \in DOMAIN calls, e \in Paths :
        Above(e, d) => e \in DOMAIN calls /\ calls[e].at = "calls"

\* What a call has found of its range: bounds of the scans and of the split.
Progress(q) ==
    /\ q.at = "insert" => q.i \in q.lo + 1 .. q.hi + 1
    /\ q.at = "scan" =>
          /\ q.pivot \in Int
          /\ \/ q.i = q.lo - 1 /\ q.j = q.hi + 1 /\ a[q.lo] = q.pivot /\ q.lo < q.hi
             \/ /\ q.i \in q.lo .. q.hi /\ q.j \in q.lo .. q.hi /\ q.i < q.j
                /\ \A x \in q.lo .. q.i : a[x] <= q.pivot
                /\ \A x \in q.j .. q.hi : a[x] >= q.pivot
    /\ q.at = "calls" =>
          /\ q.pivot \in Int
          /\ q.i \in q.lo .. q.hi - 1
          /\ \A x \in q.lo .. q.i : a[x] <= q.pivot
          /\ \A x \in q.i + 1 .. q.hi : a[x] >= q.pivot

\* A call works in one half of every call above it, and elsewhere than the others.
InHalf(q, r) == (r.lo >= q.lo /\ r.hi <= q.i) \/ (r.lo >= q.i + 1 /\ r.hi <= q.hi)
Nested == \A c, d \in DOMAIN calls : Above(c, d) => InHalf(calls[c], calls[d])
Apart(q, r) == q.hi < r.lo \/ r.hi < q.lo
Unrelated ==
    \A c, d \in DOMAIN calls :
        c # d /\ ~Above(c, d) /\ ~Above(d, c) => Apart(calls[c], calls[d])

IInv ==
    /\ Shape /\ Waiting /\ Nested /\ Unrelated
    /\ \A c \in DOMAIN calls : Progress(calls[c])
-----------------------------------------------------------------------------
(* Least and greatest elements                                             *)

\* A nonempty set of naturals has a least element.
LEMMA Least ==
    ASSUME NEW S \in SUBSET Nat, S # {}
    PROVE  \E x \in S : \A y \in S : x <= y
<1>1. PICK x \in S : \A y \in S : ~(<<y, x>> \in OpToRel(<, Nat))
  BY NatLessThanWellFounded, WFMin
<1>2. \A y \in S : ~(y < x)
  BY <1>1 DEF OpToRel
<1> QED BY <1>2

\* Min of a set of integers that has a lower bound.
LEMMA MinIsLeast ==
    ASSUME NEW S \in SUBSET Int, S # {}, NEW b \in Int, \A x \in S : b <= x
    PROVE  Min(S) \in S /\ \A y \in S : Min(S) <= y
<1> DEFINE T == {x - b : x \in S}
<1>1. T \in SUBSET Nat /\ T # {}
  <2>1. T # {}
    OBVIOUS
  <2>2. ASSUME NEW t \in T PROVE t \in Nat
    OBVIOUS
  <2> QED BY <2>1, <2>2
<1>2. PICK t \in T : \A u \in T : t <= u
  BY <1>1, Least
<1>3. PICK x \in S : t = x - b
  BY <1>2
<1>4. \A y \in S : x <= y
  BY <1>2, <1>3
<1> QED BY <1>4 DEF Min

\* Max of a set of integers that has an upper bound.
LEMMA MaxIsGreatest ==
    ASSUME NEW S \in SUBSET Int, S # {}, NEW b \in Int, \A x \in S : x <= b
    PROVE  Max(S) \in S /\ \A y \in S : y <= Max(S)
<1> DEFINE T == {b - x : x \in S}
<1>1. T \in SUBSET Nat /\ T # {}
  <2>1. T # {}
    OBVIOUS
  <2>2. ASSUME NEW t \in T PROVE t \in Nat
    OBVIOUS
  <2> QED BY <2>1, <2>2
<1>2. PICK t \in T : \A u \in T : t <= u
  BY <1>1, Least
<1>3. PICK x \in S : t = b - x
  BY <1>2
<1>4. \A y \in S : x >= y
  BY <1>2, <1>3
<1> QED BY <1>4 DEF Max

-----------------------------------------------------------------------------
(* The tree of calls                                                       *)

\* The path of a half.
LEMMA HalfPath ==
    ASSUME NEW c \in Paths, NEW b \in {0, 1}
    PROVE  /\ c \o <<b>> \in Paths
           /\ Len(c \o <<b>>) = Len(c) + 1
           /\ \A k \in 1 .. Len(c) : (c \o <<b>>)[k] = c[k]
           /\ (c \o <<b>>)[Len(c) + 1] = b
<1>1. <<b>> \in Seq({0, 1}) /\ Len(<<b>>) = 1 /\ <<b>>[1] = b
  OBVIOUS
<1>2. Len(c) \in Nat
  BY DEF Paths
<1> QED BY <1>1, <1>2, ConcatProperties DEF Paths

\* Paths are equal when they have the same halves.
LEMMA SamePath ==
    ASSUME NEW c \in Paths, NEW d \in Paths, Len(c) = Len(d), \A k \in 1 .. Len(c) : c[k] = d[k]
    PROVE  c = d
BY SeqEqual DEF Paths

\* No call is above itself, nor two above each other, and above is transitive.
LEMMA AboveIsOrder ==
    ASSUME NEW c \in Paths, NEW d \in Paths, NEW e \in Paths
    PROVE  /\ ~Above(c, c)
           /\ Above(c, d) => ~Above(d, c) /\ c # d
           /\ Above(c, d) /\ Above(d, e) => Above(c, e)
<1>1. Len(c) \in Nat /\ Len(d) \in Nat /\ Len(e) \in Nat
  BY DEF Paths
<1> QED BY <1>1 DEF Above

\* Above a half are its caller and the calls above that.
LEMMA AboveHalf ==
    ASSUME NEW c \in Paths, NEW b \in {0, 1}, NEW e \in Paths
    PROVE  Above(e, c \o <<b>>) <=> e = c \/ Above(e, c)
<1> DEFINE h == c \o <<b>>
<1>1. h \in Paths /\ Len(h) = Len(c) + 1 /\ \A k \in 1 .. Len(c) : h[k] = c[k]
  BY HalfPath
<1>2. Len(c) \in Nat /\ Len(e) \in Nat
  BY DEF Paths
<1> HIDE DEF h
<1>3. ASSUME Above(e, h), Len(e) = Len(c) PROVE e = c
  BY <1>1, <1>2, <1>3, SamePath DEF Above
<1>4. ASSUME Above(e, h), Len(e) # Len(c) PROVE Above(e, c)
  BY <1>1, <1>2, <1>4 DEF Above
<1>5. ASSUME e = c \/ Above(e, c) PROVE Above(e, h)
  BY <1>1, <1>2, <1>5 DEF Above
<1>6. Above(e, h) <=> e = c \/ Above(e, c)
  BY <1>3, <1>4, <1>5
<1> QED BY <1>6 DEF h

\* Below a call is one of its halves, or it is below one of them.
LEMMA BelowCall ==
    ASSUME NEW c \in Paths, NEW d \in Paths, Above(c, d)
    PROVE  \E b \in {0, 1} : d = c \o <<b>> \/ Above(c \o <<b>>, d)
<1>1. Len(c) \in Nat /\ Len(d) \in Nat /\ Len(c) < Len(d)
  BY DEF Paths, Above
<1>2. d[Len(c) + 1] \in {0, 1}
  BY <1>1 DEF Paths
<1> DEFINE h == c \o <<d[Len(c) + 1]>>
<1>3. /\ h \in Paths /\ Len(h) = Len(c) + 1
      /\ \A k \in 1 .. Len(h) : h[k] = d[k]
  BY <1>1, <1>2, HalfPath DEF Above
<1> HIDE DEF h
<1>4. d = h \/ Above(h, d)
  <2>1. CASE Len(d) = Len(h)
    BY <1>3, <2>1, SamePath
  <2>2. CASE Len(d) # Len(h)
    BY <1>1, <1>3, <2>2 DEF Above
  <2> QED BY <2>1, <2>2
<1> QED BY <1>2, <1>4 DEF h
-----------------------------------------------------------------------------
(* The scans                                                               *)

\* The elements of a call's range are integers.
LEMMA Elements ==
    ASSUME Shape, NEW c \in DOMAIN calls
    PROVE  /\ calls[c].lo \in Nat /\ calls[c].hi \in Nat /\ N \in Nat
           /\ calls[c].lo <= calls[c].hi /\ calls[c].hi <= N - 1
           /\ \A x \in calls[c].lo .. calls[c].hi : x \in Index /\ a[x] \in Values /\ a[x] \in Int
<1>1. IsCall(calls[c]) /\ a \in [Index -> Values] /\ Values \subseteq Int /\ N \in Nat
  BY SortAssumption DEF Shape
<1>2. /\ calls[c].lo \in Nat /\ calls[c].hi \in Nat
      /\ calls[c].lo <= calls[c].hi /\ calls[c].hi <= N - 1
  BY <1>1 DEF IsCall
<1>3. ASSUME NEW x \in calls[c].lo .. calls[c].hi PROVE x \in Index
  BY <1>1, <1>2 DEF Index
<1> QED BY <1>1, <1>2, <1>3

\* Both scans stop in the range, each on an element that stops it, having passed
\* only elements that belong to the half it walks through.
LEMMA ScansStop ==
    ASSUME Shape, NEW c \in DOMAIN calls, calls[c].at = "scan", Progress(calls[c])
    PROVE  LET q == calls[c] IN
           /\ ScanUp(q) \in q.lo .. q.hi /\ ScanDown(q) \in q.lo .. q.hi
           /\ a[ScanUp(q)] >= q.pivot /\ a[ScanDown(q)] <= q.pivot
           /\ \A x \in q.lo .. ScanUp(q) - 1 : a[x] <= q.pivot
           /\ \A x \in ScanDown(q) + 1 .. q.hi : a[x] >= q.pivot
           /\ ScanUp(q) >= ScanDown(q) => ScanDown(q) < q.hi
<1> DEFINE q == calls[c]
           up == {x \in q.i + 1 .. N : x = N \/ a[x] >= q.pivot}
           down == {x \in -1 .. q.j - 1 : x = -1 \/ a[x] <= q.pivot}
           i == Min(up)
           j == Max(down)
<1>1. /\ q.lo \in Nat /\ q.hi \in Nat /\ N \in Nat /\ q.lo <= q.hi /\ q.hi <= N - 1
      /\ \A x \in q.lo .. q.hi : a[x] \in Int
  BY Elements
<1>2. /\ q.pivot \in Int
      /\ \/ q.i = q.lo - 1 /\ q.j = q.hi + 1 /\ a[q.lo] = q.pivot /\ q.lo < q.hi
         \/ /\ q.i \in q.lo .. q.hi /\ q.j \in q.lo .. q.hi /\ q.i < q.j
            /\ \A x \in q.lo .. q.i : a[x] <= q.pivot
            /\ \A x \in q.j .. q.hi : a[x] >= q.pivot
  BY DEF Progress
<1> HIDE DEF q
<1>3. q.i \in Int /\ q.j \in Int /\ q.i >= q.lo - 1 /\ q.i < q.hi /\ q.j <= q.hi + 1 /\ q.j > q.lo
  BY <1>1, <1>2
<1>4. i \in up /\ \A y \in up : i <= y
  <2>1. N \in up /\ up \in SUBSET Int /\ q.i + 1 \in Int /\ \A x \in up : q.i + 1 <= x
    BY <1>1, <1>3
  <2> HIDE DEF up
  <2>2. up # {}
    BY <2>1
  <2> QED BY <2>1, <2>2, MinIsLeast
<1>5. j \in down /\ \A y \in down : y <= j
  <2>1. -1 \in down /\ down \in SUBSET Int /\ q.j - 1 \in Int /\ \A x \in down : x <= q.j - 1
    BY <1>1, <1>3
  <2> HIDE DEF down
  <2>2. down # {}
    BY <2>1
  <2> QED BY <2>1, <2>2, MaxIsGreatest
<1>6. i \in Int /\ i >= q.i + 1 /\ i >= q.lo /\ j \in Int /\ j <= q.j - 1 /\ j <= q.hi
  BY <1>1, <1>3, <1>4, <1>5
<1>7. i <= q.hi /\ j >= q.lo /\ (i >= j => j < q.hi)
  <2>1. CASE q.i = q.lo - 1 /\ q.j = q.hi + 1 /\ a[q.lo] = q.pivot /\ q.lo < q.hi
    <3>1. q.lo \in up /\ q.lo \in down
      BY <1>1, <1>2, <2>1
    <3>2. i <= q.lo /\ q.lo <= j
      BY <1>4, <1>5, <3>1
    <3> HIDE DEF i, j
    <3> QED BY <1>1, <1>6, <2>1, <3>2
  <2>2. CASE /\ q.i \in q.lo .. q.hi /\ q.j \in q.lo .. q.hi /\ q.i < q.j
             /\ \A x \in q.lo .. q.i : a[x] <= q.pivot
             /\ \A x \in q.j .. q.hi : a[x] >= q.pivot
    <3>1. a[q.i] <= q.pivot /\ a[q.j] >= q.pivot
      BY <1>1, <2>2
    <3>2. q.j \in up /\ q.i \in down
      BY <1>1, <2>2, <3>1
    <3>3. i <= q.j /\ q.i <= j
      BY <1>4, <1>5, <3>2
    <3> HIDE DEF i, j
    <3> QED BY <1>1, <1>6, <2>2, <3>3
  <2> QED BY <1>2, <2>1, <2>2
<1>8. a[i] >= q.pivot /\ a[j] <= q.pivot
  BY <1>1, <1>4, <1>5, <1>7
<1>9. \A x \in q.lo .. i - 1 : a[x] <= q.pivot
  <2> SUFFICES ASSUME NEW x \in q.lo .. i - 1 PROVE a[x] <= q.pivot
    OBVIOUS
  <2>1. CASE x <= q.i
    BY <1>1, <1>2, <1>3, <2>1
  <2>2. CASE x > q.i
    <3>1. x \in q.i + 1 .. N /\ x < i /\ a[x] \in Int
      BY <1>1, <1>3, <1>6, <1>7, <2>2
    <3>2. x \notin up
      <4> HIDE DEF up, i
      <4> QED BY <1>4, <3>1, <1>6
    <3> QED BY <1>2, <3>1, <3>2
  <2> QED BY <1>3, <1>6, <2>1, <2>2, <1>1
<1>10. \A x \in j + 1 .. q.hi : a[x] >= q.pivot
  <2> SUFFICES ASSUME NEW x \in j + 1 .. q.hi PROVE a[x] >= q.pivot
    OBVIOUS
  <2>1. CASE x >= q.j
    BY <1>1, <1>2, <1>3, <2>1
  <2>2. CASE x < q.j
    <3>1. x \in -1 .. q.j - 1 /\ x > j /\ a[x] \in Int
      BY <1>1, <1>3, <1>6, <1>7, <2>2
    <3>2. x \notin down
      <4> HIDE DEF down, j
      <4> QED BY <1>5, <3>1, <1>6
    <3> QED BY <1>2, <3>1, <3>2
  <2> QED BY <1>3, <1>6, <2>1, <2>2, <1>1
<1>11. ScanUp(q) = i /\ ScanDown(q) = j
  BY DEF ScanUp, ScanDown
<1> HIDE DEF i, j
<1>12. i \in q.lo .. q.hi /\ j \in q.lo .. q.hi
  BY <1>1, <1>6, <1>7
<1> QED BY <1>7, <1>8, <1>9, <1>10, <1>11, <1>12 DEF q
-----------------------------------------------------------------------------
(* Steps at work                                                           *)

\* f is the array with elements of the range lo .. hi moved about in it.
Moves(f, lo, hi) ==
    /\ f \in [Index -> Values]
    /\ \A x \in Index : x < lo \/ x > hi => f[x] = a[x]
    /\ \A x \in lo .. hi : \E z \in lo .. hi : f[x] = a[z]

\* What a step of call c at work does: it changes c's own record, not its range,
\* and moves elements about in that range.
Local(c) ==
    LET q == calls[c] IN
    /\ q.at \in {"enter", "insert", "scan"}
    /\ program' = program
    /\ DOMAIN calls' = DOMAIN calls /\ calls' = [d \in DOMAIN calls |-> calls'[d]]
    /\ \A d \in DOMAIN calls : d # c => calls'[d] = calls[d]
    /\ IsCall(calls'[c]) /\ calls'[c].at # "calls"
    /\ calls'[c].lo = q.lo /\ calls'[c].hi = q.hi /\ calls'[c].depth = q.depth
    /\ Progress(calls[c])'
    /\ Moves(a', q.lo, q.hi)

\* Such a step disturbs no other call: one that works elsewhere sees none of the
\* changes, and one that waits for c sees elements move within one of its halves.
LEMMA LocalKeepsInv ==
    ASSUME IInv, NEW c \in DOMAIN calls, Local(c)
    PROVE  IInv'
<1> DEFINE D == DOMAIN calls
<1>0. Shape /\ Waiting /\ Nested /\ Unrelated /\ \A d \in D : Progress(calls[d])
  BY DEF IInv
<1>1. /\ DOMAIN calls' = D /\ \A d \in D : d # c => calls'[d] = calls[d]
      /\ calls[c].at # "calls" /\ calls'[c].at # "calls" /\ IsCall(calls'[c])
      /\ calls'[c].lo = calls[c].lo /\ calls'[c].hi = calls[c].hi
  BY DEF Local
<1>2. Shape'
  BY <1>0, <1>1 DEF Shape, Local, Moves
<1>3. Waiting'
  BY <1>0, <1>1 DEF Waiting
<1>4. Nested'
  <2> SUFFICES ASSUME NEW e \in D, NEW d \in D, Above(e, d)
               PROVE  InHalf(calls'[e], calls'[d])
    BY <1>1 DEF Nested
  <2>1. e # c
    BY <1>0, <1>1 DEF Waiting, Shape
  <2>2. InHalf(calls[e], calls[d])
    BY <1>0 DEF Nested
  <2> QED BY <1>1, <2>1, <2>2 DEF InHalf
<1>5. Unrelated'
  BY <1>0, <1>1 DEF Unrelated, Apart
<1>6. ASSUME NEW d \in D PROVE Progress(calls[d])'
  <2>1. CASE d = c
    BY <2>1 DEF Local
  <2>2. CASE d # c
    <3> DEFINE q == calls[d]
    <3>1. calls'[d] = q /\ Progress(q)
      BY <1>0, <1>1, <2>2
    <3>2. /\ q.lo \in Nat /\ q.hi \in Nat /\ q.lo <= q.hi
          /\ \A x \in q.lo .. q.hi : x \in Index /\ a[x] \in Int
      BY <1>0, Elements
    <3>3. /\ calls[c].lo \in Nat /\ calls[c].hi \in Nat
      BY <1>0, Elements
    <3>4. c \in Paths /\ d \in Paths
      BY <1>0 DEF Shape
    <3>5. CASE q.at \notin {"scan", "calls"}
      BY <3>1, <3>5 DEF Progress
    <3>6. CASE q.at \in {"scan", "calls"} /\ ~Above(d, c)
      <4>1. ~Above(c, d)
        BY <1>0, <1>1, <3>4 DEF Waiting
      <4>2. Apart(q, calls[c])
        BY <1>0, <2>2, <3>6, <4>1 DEF Unrelated
      <4>3. \A x \in q.lo .. q.hi : a'[x] = a[x]
        BY <3>2, <3>3, <4>2 DEF Apart, Local, Moves
      <4> HIDE DEF q
      <4> QED BY <3>1, <3>2, <4>3 DEF Progress
    <3>7. CASE Above(d, c)
      <4>1. q.at = "calls" /\ InHalf(q, calls[c])
        BY <1>0, <3>4, <3>7 DEF Waiting, Nested
      <4>2. /\ q.pivot \in Int /\ q.i \in q.lo .. q.hi - 1
            /\ \A x \in q.lo .. q.i : a[x] <= q.pivot
            /\ \A x \in q.i + 1 .. q.hi : a[x] >= q.pivot
        BY <3>1, <4>1 DEF Progress
      <4> HIDE DEF q
      <4>3. ASSUME NEW x \in q.lo .. q.i PROVE a'[x] <= q.pivot
        <5>1. x \in Index
          BY <3>2, <4>2
        <5>2. CASE x < calls[c].lo \/ x > calls[c].hi
          BY <4>2, <5>1, <5>2 DEF Local, Moves
        <5>3. CASE x \in calls[c].lo .. calls[c].hi
          <6>1. PICK z \in calls[c].lo .. calls[c].hi : a'[x] = a[z]
            BY <5>3 DEF Local, Moves
          <6>2. z \in q.lo .. q.i
            BY <3>2, <3>3, <4>1, <4>2, <5>3 DEF InHalf
          <6> QED BY <4>2, <6>1, <6>2
        <5> QED BY <3>2, <3>3, <4>2, <5>2, <5>3
      <4>4. ASSUME NEW x \in q.i + 1 .. q.hi PROVE a'[x] >= q.pivot
        <5>1. x \in Index
          BY <3>2, <4>2
        <5>2. CASE x < calls[c].lo \/ x > calls[c].hi
          BY <4>2, <5>1, <5>2 DEF Local, Moves
        <5>3. CASE x \in calls[c].lo .. calls[c].hi
          <6>1. PICK z \in calls[c].lo .. calls[c].hi : a'[x] = a[z]
            BY <5>3 DEF Local, Moves
          <6>2. z \in q.i + 1 .. q.hi
            BY <3>2, <3>3, <4>1, <4>2, <5>3 DEF InHalf
          <6> QED BY <4>2, <6>1, <6>2
        <5> QED BY <3>2, <3>3, <4>2, <5>2, <5>3
      <4> QED BY <3>1, <4>1, <4>2, <4>3, <4>4 DEF Progress
    <3> QED BY <3>5, <3>6, <3>7
  <2> QED BY <2>1, <2>2
<1> QED BY <1>1, <1>2, <1>3, <1>4, <1>5, <1>6 DEF IInv

\* The pivot is an element of the range.
LEMMA PivotInRange ==
    ASSUME NEW lo \in Nat, NEW hi \in Nat, lo < hi
    PROVE  PivotIndex(lo, hi) \in lo .. hi
<1>1. lo + (hi - lo) \div 2 \in lo .. hi
  OBVIOUS
<1>2. CASE rule = "first"
  BY <1>2 DEF PivotIndex
<1>3. CASE rule = "last"
  BY <1>3 DEF PivotIndex
<1>4. CASE rule = "middle"
  BY <1>1, <1>4 DEF PivotIndex
<1>5. CASE rule \notin {"first", "last", "middle"}
  BY <1>1, <1>5 DEF PivotIndex
<1> QED BY <1>2, <1>3, <1>4, <1>5

\* A swap within a range moves elements about in that range.
LEMMA SwapStaysInside ==
    ASSUME Shape, NEW lo \in Nat, NEW hi \in Nat, hi <= N - 1,
           NEW x \in lo .. hi, NEW y \in lo .. hi
    PROVE  /\ Moves(Swap(a, x, y), lo, hi)
           /\ Swap(a, x, y)[x] = a[y] /\ Swap(a, x, y)[y] = a[x]
           /\ \A z \in lo .. hi : z # x /\ z # y => Swap(a, x, y)[z] = a[z]
<1>1. /\ a \in [Index -> Values] /\ x \in Index /\ y \in Index
      /\ \A z \in lo .. hi : z \in Index
  BY SortAssumption DEF Shape, Index
<1>2. \A z \in Index : Swap(a, x, y)[z] = IF z = y THEN a[x] ELSE IF z = x THEN a[y] ELSE a[z]
  BY <1>1 DEF Swap
<1>3. Swap(a, x, y) \in [Index -> Values]
  BY <1>1 DEF Swap
<1> QED BY <1>1, <1>2, <1>3 DEF Moves

\* An insertion moves the elements of the range below its key.
LEMMA InsertionStaysInside ==
    ASSUME Shape, NEW lo \in Nat, NEW hi \in Nat, hi <= N - 1, NEW i \in lo .. hi
    PROVE  Moves(Inserted(lo, i), lo, hi)
<1> DEFINE S == {y \in lo .. i : \A z \in y .. i - 1 : a[z] > a[i]}
           x == Min(S)
<1>1. /\ a \in [Index -> Values] /\ i \in Index
      /\ \A z \in lo .. hi : z \in Index
  BY SortAssumption DEF Shape, Index
<1>2. x \in lo .. i
  <2>1. i \in S /\ S \in SUBSET Int /\ \A y \in S : lo <= y
    OBVIOUS
  <2>2. S \subseteq lo .. i
    OBVIOUS
  <2> HIDE DEF S
  <2>3. S # {} /\ lo \in Int
    BY <2>1
  <2> QED BY <2>1, <2>2, <2>3, MinIsLeast
<1>3. Inserted(lo, i) =
        [y \in Index |-> IF y = x THEN a[i] ELSE IF y \in x + 1 .. i THEN a[y - 1] ELSE a[y]]
  BY DEF Inserted
<1> HIDE DEF x
<1>4. ASSUME NEW y \in lo .. hi, y \in x + 1 .. i PROVE y - 1 \in lo .. hi
  BY <1>2, <1>4
<1>5. \A y \in Index : y < lo \/ y > hi => y # x /\ y \notin x + 1 .. i
  BY <1>2 DEF Index
<1>6. ASSUME NEW y \in Index, y \in x + 1 .. i PROVE y - 1 \in Index
  BY <1>2, <1>6, SortAssumption DEF Index
<1>7. Inserted(lo, i) \in [Index -> Values]
  BY <1>1, <1>3, <1>6
<1>8. \A z \in Index : z < lo \/ z > hi => Inserted(lo, i)[z] = a[z]
  BY <1>3, <1>5
<1>9. ASSUME NEW z \in lo .. hi PROVE \E u \in lo .. hi : Inserted(lo, i)[z] = a[u]
  <2>1. z \in Index
    BY <1>1
  <2>2. CASE z = x
    BY <1>3, <2>1, <2>2
  <2>3. CASE z # x /\ z \in x + 1 .. i
    <3>1. z - 1 \in lo .. hi /\ Inserted(lo, i)[z] = a[z - 1]
      BY <1>3, <1>4, <2>1, <2>3
    <3> QED BY <3>1
  <2>4. CASE z # x /\ z \notin x + 1 .. i
    BY <1>3, <2>1, <2>4
  <2> QED BY <2>2, <2>3, <2>4
<1> QED BY <1>7, <1>8, <1>9 DEF Moves

\* A call with the fields that a step gives it.
Inserting(q, i) == [q EXCEPT !.at = "insert", !.i = i]
Scanning(q, pivot, i, j) == [q EXCEPT !.at = "scan", !.pivot = pivot, !.i = i, !.j = j]
NextPair(q, i, j) == [q EXCEPT !.i = i, !.j = j]
Calling(q, i, forked) == [q EXCEPT !.at = "calls", !.i = i, !.forked = forked]

\* A call with new fields, its range apart, is a call of the same range.
LEMMA InsertFields ==
    ASSUME NEW q, IsCall(q), NEW i
    PROVE  LET r == Inserting(q, i) IN
           /\ IsCall(r) /\ r.lo = q.lo /\ r.hi = q.hi /\ r.at = "insert" /\ r.i = i
           /\ r.depth = q.depth
<1> DEFINE A == [q EXCEPT !.at = "insert"]
           AI == [A EXCEPT !.i = i]
<1>1. A = [at |-> "insert", lo |-> q.lo, hi |-> q.hi, depth |-> q.depth,
           pivot |-> q.pivot, i |-> q.i, j |-> q.j, forked |-> q.forked]
  BY DEF IsCall
<1> HIDE DEF A
<1>2. AI = [at |-> "insert", lo |-> q.lo, hi |-> q.hi, depth |-> q.depth,
            pivot |-> q.pivot, i |-> i, j |-> q.j, forked |-> q.forked]
  BY <1>1
<1> HIDE DEF AI
<1>3. /\ IsCall(AI) /\ AI.lo = q.lo /\ AI.hi = q.hi /\ AI.at = "insert" /\ AI.i = i
      /\ AI.depth = q.depth
  BY <1>2 DEF IsCall
<1>4. AI = Inserting(q, i)
  BY DEF A, AI, Inserting
<1> QED BY <1>3, <1>4

\* The same when a call begins to scan.
LEMMA ScanFields ==
    ASSUME NEW q, IsCall(q), NEW pivot, NEW i, NEW j
    PROVE  LET r == Scanning(q, pivot, i, j) IN
           /\ IsCall(r) /\ r.lo = q.lo /\ r.hi = q.hi /\ r.at = "scan"
           /\ r.pivot = pivot /\ r.i = i /\ r.j = j /\ r.depth = q.depth
<1> DEFINE A == [q EXCEPT !.at = "scan"]
           AP == [A EXCEPT !.pivot = pivot]
           API == [AP EXCEPT !.i = i]
           APIJ == [API EXCEPT !.j = j]
<1>1. A = [at |-> "scan", lo |-> q.lo, hi |-> q.hi, depth |-> q.depth,
           pivot |-> q.pivot, i |-> q.i, j |-> q.j, forked |-> q.forked]
  BY DEF IsCall
<1> HIDE DEF A
<1>2. AP = [at |-> "scan", lo |-> q.lo, hi |-> q.hi, depth |-> q.depth,
            pivot |-> pivot, i |-> q.i, j |-> q.j, forked |-> q.forked]
  BY <1>1
<1> HIDE DEF AP
<1>3. API = [at |-> "scan", lo |-> q.lo, hi |-> q.hi, depth |-> q.depth,
             pivot |-> pivot, i |-> i, j |-> q.j, forked |-> q.forked]
  BY <1>2
<1> HIDE DEF API
<1>4. APIJ = [at |-> "scan", lo |-> q.lo, hi |-> q.hi, depth |-> q.depth,
              pivot |-> pivot, i |-> i, j |-> j, forked |-> q.forked]
  BY <1>3
<1> HIDE DEF APIJ
<1>5. /\ IsCall(APIJ) /\ APIJ.lo = q.lo /\ APIJ.hi = q.hi /\ APIJ.at = "scan"
      /\ APIJ.pivot = pivot /\ APIJ.i = i /\ APIJ.j = j /\ APIJ.depth = q.depth
  BY <1>4 DEF IsCall
<1>6. APIJ = Scanning(q, pivot, i, j)
  BY DEF A, AP, API, APIJ, Scanning
<1> QED BY <1>5, <1>6

\* The same when the scans move on.
LEMMA PairFields ==
    ASSUME NEW q, IsCall(q), NEW i, NEW j
    PROVE  LET r == NextPair(q, i, j) IN
           /\ IsCall(r) /\ r.lo = q.lo /\ r.hi = q.hi /\ r.at = q.at
           /\ r.pivot = q.pivot /\ r.i = i /\ r.j = j /\ r.depth = q.depth
<1> DEFINE I == [q EXCEPT !.i = i]
           IJ == [I EXCEPT !.j = j]
<1>1. I = [at |-> q.at, lo |-> q.lo, hi |-> q.hi, depth |-> q.depth,
           pivot |-> q.pivot, i |-> i, j |-> q.j, forked |-> q.forked]
  BY DEF IsCall
<1> HIDE DEF I
<1>2. IJ = [at |-> q.at, lo |-> q.lo, hi |-> q.hi, depth |-> q.depth,
            pivot |-> q.pivot, i |-> i, j |-> j, forked |-> q.forked]
  BY <1>1
<1> HIDE DEF IJ
<1>3. /\ IsCall(IJ) /\ IJ.lo = q.lo /\ IJ.hi = q.hi /\ IJ.at = q.at
      /\ IJ.pivot = q.pivot /\ IJ.i = i /\ IJ.j = j /\ IJ.depth = q.depth
  BY <1>2 DEF IsCall
<1>4. IJ = NextPair(q, i, j)
  BY DEF I, IJ, NextPair
<1> QED BY <1>3, <1>4

\* The same when the partition returns.
LEMMA SplitFields ==
    ASSUME NEW q, IsCall(q), NEW i, NEW forked
    PROVE  LET r == Calling(q, i, forked) IN
           /\ IsCall(r) /\ r.lo = q.lo /\ r.hi = q.hi /\ r.at = "calls"
           /\ r.pivot = q.pivot /\ r.i = i /\ r.forked = forked /\ r.depth = q.depth
<1> DEFINE A == [q EXCEPT !.at = "calls"]
           AI == [A EXCEPT !.i = i]
           AIF == [AI EXCEPT !.forked = forked]
<1>1. A = [at |-> "calls", lo |-> q.lo, hi |-> q.hi, depth |-> q.depth,
           pivot |-> q.pivot, i |-> q.i, j |-> q.j, forked |-> q.forked]
  BY DEF IsCall
<1> HIDE DEF A
<1>2. AI = [at |-> "calls", lo |-> q.lo, hi |-> q.hi, depth |-> q.depth,
            pivot |-> q.pivot, i |-> i, j |-> q.j, forked |-> q.forked]
  BY <1>1
<1> HIDE DEF AI
<1>3. AIF = [at |-> "calls", lo |-> q.lo, hi |-> q.hi, depth |-> q.depth,
             pivot |-> q.pivot, i |-> i, j |-> q.j, forked |-> forked]
  BY <1>2
<1> HIDE DEF AIF
<1>4. /\ IsCall(AIF) /\ AIF.lo = q.lo /\ AIF.hi = q.hi /\ AIF.at = "calls"
      /\ AIF.pivot = q.pivot /\ AIF.i = i /\ AIF.forked = forked /\ AIF.depth = q.depth
  BY <1>3 DEF IsCall
<1>5. AIF = Calling(q, i, forked)
  BY DEF A, AI, AIF, Calling
<1> QED BY <1>4, <1>5

\* A call at work stays in its range: entering, inserting a key, swapping a pair.
LEMMA WorkIsLocal ==
    ASSUME IInv, NEW c \in DOMAIN calls, Enter(c) \/ InsertKey(c) \/ InsertionEnds(c) \/ SwapPair(c)
    PROVE  Local(c)
<1> DEFINE q == calls[c]
<1>1. /\ Shape /\ Progress(q) /\ IsCall(q)
      /\ calls = [d \in DOMAIN calls |-> calls[d]] /\ a \in [Index -> Values]
  BY DEF IInv, Shape
<1>2. /\ q.lo \in Nat /\ q.hi \in Nat /\ q.lo <= q.hi /\ q.hi <= N - 1 /\ N \in Nat
      /\ \A x \in q.lo .. q.hi : x \in Index /\ a[x] \in Int
  BY <1>1, Elements
<1>3. ASSUME NEW r, Set(c, r), IsCall(r)
      PROVE  /\ DOMAIN calls' = DOMAIN calls /\ calls' = [d \in DOMAIN calls |-> calls'[d]]
             /\ calls'[c] = r /\ \A d \in DOMAIN calls : d # c => calls'[d] = calls[d]
  BY <1>1, <1>3 DEF Set
<1>4. ASSUME a' = a
      PROVE  Moves(a', q.lo, q.hi)
  BY <1>1, <1>4 DEF Moves
<1>5. CASE Enter(c)
  <2> DEFINE p == PivotIndex(q.lo, q.hi)
  <2>1. q.at = "enter" /\ program' = program
    BY <1>5 DEF Enter
  <2>2. CASE q.lo >= q.hi
    <3> DEFINE r == [q EXCEPT !.at = "done"]
    <3>1. Set(c, r) /\ a' = a
      BY <1>2, <1>5, <2>2 DEF Enter
    <3>2. IsCall(r) /\ r.lo = q.lo /\ r.hi = q.hi /\ r.at = "done" /\ r.depth = q.depth
      BY <1>1 DEF IsCall
    <3> HIDE DEF r
    <3>3. Progress(calls[c])'
      BY <1>3, <3>1, <3>2 DEF Progress
    <3> QED BY <1>3, <1>4, <2>1, <3>1, <3>2, <3>3 DEF Local
  <2>3. CASE q.lo < q.hi /\ Size(q) <= InsertionCutoff
    <3> DEFINE r == Inserting(q, q.lo + 1)
    <3>1. Set(c, r) /\ a' = a
      BY <1>2, <1>5, <2>3 DEF Enter, Inserting
    <3>2. /\ IsCall(r) /\ r.lo = q.lo /\ r.hi = q.hi /\ r.at = "insert" /\ r.i = q.lo + 1
          /\ r.depth = q.depth
      BY <1>1, InsertFields
    <3> HIDE DEF r
    <3>3. Progress(calls[c])'
      BY <1>2, <1>3, <3>1, <3>2 DEF Progress
    <3> QED BY <1>3, <1>4, <2>1, <3>1, <3>2, <3>3 DEF Local
  <2>4. CASE q.lo < q.hi /\ Size(q) > InsertionCutoff
    <3> DEFINE r == Scanning(q, a[p], q.lo - 1, q.hi + 1)
    <3>1. Set(c, r) /\ a' = Swap(a, q.lo, p)
      BY <1>2, <1>5, <2>4, SortAssumption DEF Enter, Size, Scanning
    <3>2. /\ IsCall(r) /\ r.lo = q.lo /\ r.hi = q.hi /\ r.at = "scan"
          /\ r.pivot = a[p] /\ r.i = q.lo - 1 /\ r.j = q.hi + 1 /\ r.depth = q.depth
      BY <1>1, ScanFields
    <3>3. p \in q.lo .. q.hi /\ q.lo \in q.lo .. q.hi
      BY <1>2, <2>4, PivotInRange
    <3> HIDE DEF r, p, q
    <3>4. Moves(a', q.lo, q.hi) /\ a'[q.lo] = a[p]
      BY <1>1, <1>2, <3>1, <3>3, SwapStaysInside
    <3>5. Progress(calls[c])'
      BY <1>2, <1>3, <2>4, <3>1, <3>2, <3>3, <3>4 DEF Progress
    <3> QED BY <1>3, <2>1, <3>1, <3>2, <3>4, <3>5 DEF Local, q
  <2> QED BY <1>2, <2>2, <2>3, <2>4, SortAssumption DEF Size
<1>6. CASE InsertKey(c)
  <2> DEFINE r == [q EXCEPT !.i = q.i + 1]
  <2>1. /\ q.at = "insert" /\ q.i <= q.hi /\ program' = program
        /\ Set(c, r) /\ a' = Inserted(q.lo, q.i)
    BY <1>6 DEF InsertKey
  <2>2. q.i \in q.lo + 1 .. q.hi + 1
    BY <1>1, <2>1 DEF Progress
  <2>3. /\ IsCall(r) /\ r.lo = q.lo /\ r.hi = q.hi /\ r.at = "insert" /\ r.i = q.i + 1
        /\ r.depth = q.depth
    BY <1>1, <2>1 DEF IsCall
  <2> HIDE DEF r, q
  <2>4. q.i \in q.lo .. q.hi
    BY <1>2, <2>1, <2>2
  <2>5. Moves(a', q.lo, q.hi)
    BY <1>1, <1>2, <2>1, <2>4, InsertionStaysInside
  <2>6. Progress(calls[c])'
    BY <1>2, <1>3, <2>1, <2>2, <2>3 DEF Progress
  <2> QED BY <1>3, <2>1, <2>3, <2>5, <2>6 DEF Local, q
<1>7. CASE InsertionEnds(c)
  <2> DEFINE r == [q EXCEPT !.at = "done"]
  <2>1. q.at = "insert" /\ program' = program /\ Set(c, r) /\ a' = a
    BY <1>7 DEF InsertionEnds
  <2>2. IsCall(r) /\ r.lo = q.lo /\ r.hi = q.hi /\ r.at = "done" /\ r.depth = q.depth
    BY <1>1 DEF IsCall
  <2> HIDE DEF r
  <2>3. Progress(calls[c])'
    BY <1>3, <2>1, <2>2 DEF Progress
  <2> QED BY <1>3, <1>4, <2>1, <2>2, <2>3 DEF Local
<1>8. CASE SwapPair(c)
  <2> DEFINE i == ScanUp(q)
             j == ScanDown(q)
             r == NextPair(q, i, j)
  <2>1. /\ q.at = "scan" /\ i < j /\ program' = program
        /\ Set(c, r) /\ a' = Swap(a, i, j)
    BY <1>8 DEF SwapPair, NextPair
  <2>2. /\ i \in q.lo .. q.hi /\ j \in q.lo .. q.hi
        /\ a[i] >= q.pivot /\ a[j] <= q.pivot
        /\ \A x \in q.lo .. i - 1 : a[x] <= q.pivot
        /\ \A x \in j + 1 .. q.hi : a[x] >= q.pivot
    BY <1>1, <2>1, ScansStop
  <2>3. /\ IsCall(r) /\ r.lo = q.lo /\ r.hi = q.hi /\ r.at = "scan"
        /\ r.i = i /\ r.j = j /\ r.pivot = q.pivot /\ r.depth = q.depth
    BY <1>1, <2>1, PairFields
  <2>4. q.pivot \in Int
    BY <1>1, <2>1 DEF Progress
  <2> HIDE DEF r, q, i, j
  <2>5. /\ Moves(a', q.lo, q.hi)
        /\ a'[i] = a[j] /\ a'[j] = a[i]
        /\ \A z \in q.lo .. q.hi : z # i /\ z # j => a'[z] = a[z]
    BY <1>1, <1>2, <2>1, <2>2, SwapStaysInside
  <2>6. \A x \in q.lo .. i : a'[x] <= q.pivot
    BY <1>2, <2>1, <2>2, <2>5
  <2>7. \A x \in j .. q.hi : a'[x] >= q.pivot
    BY <1>2, <2>1, <2>2, <2>5
  <2>8. Progress(calls[c])'
    BY <1>2, <1>3, <2>1, <2>2, <2>3, <2>4, <2>6, <2>7 DEF Progress
  <2> QED BY <1>3, <2>1, <2>3, <2>5, <2>8 DEF Local, q
<1> QED BY <1>5, <1>6, <1>7, <1>8
-----------------------------------------------------------------------------
(* Steps of the tree of calls                                              *)

\* A step of call c that replaces c's halves by those in K, and c by itself or
\* by a call of part of its range.
Regrows(c, K) ==
    /\ a' = a /\ program' = program
    /\ K \subseteq {Left(c), Right(c)}
    /\ \A d \in DOMAIN calls : Above(c, d) => d \in {Left(c), Right(c)}
    /\ DOMAIN calls' = (DOMAIN calls \ {Left(c), Right(c)}) \union K
    /\ calls' = [d \in DOMAIN calls' |-> calls'[d]]
    /\ \A d \in DOMAIN calls : d \notin {c, Left(c), Right(c)} => calls'[d] = calls[d]
    /\ IsCall(calls'[c]) /\ Progress(calls[c])'
    /\ calls'[c].lo >= calls[c].lo /\ calls'[c].hi <= calls[c].hi
    /\ K # {} => calls'[c].at = "calls"
    /\ \A d \in K : IsCall(calls'[d]) /\ Progress(calls[d])' /\ InHalf(calls'[c], calls'[d])
    /\ \A d, e \in K : d # e => Apart(calls'[d], calls'[e])

\* The two halves of a call.
LEMMA TwoHalves ==
    ASSUME NEW c \in Paths
    PROVE  /\ Left(c) \in Paths /\ Right(c) \in Paths
           /\ Left(c) # c /\ Right(c) # c /\ Left(c) # Right(c)
           /\ Left(c) # Root /\ Right(c) # Root
           /\ \A e \in Paths : /\ Above(e, Left(c)) <=> e = c \/ Above(e, c)
                               /\ Above(e, Right(c)) <=> e = c \/ Above(e, c)
<1>1. /\ Left(c) \in Paths /\ Len(Left(c)) = Len(c) + 1 /\ Left(c)[Len(c) + 1] = 0
      /\ \A e \in Paths : Above(e, Left(c)) <=> e = c \/ Above(e, c)
  BY HalfPath, AboveHalf DEF Left
<1>2. /\ Right(c) \in Paths /\ Len(Right(c)) = Len(c) + 1 /\ Right(c)[Len(c) + 1] = 1
      /\ \A e \in Paths : Above(e, Right(c)) <=> e = c \/ Above(e, c)
  BY HalfPath, AboveHalf DEF Right
<1>3. Len(c) \in Nat /\ Len(Root) = 0
  BY DEF Paths, Root
<1>4. Left(c) # Right(c)
  BY <1>1, <1>2
<1>5. Left(c) # c /\ Right(c) # c /\ Left(c) # Root /\ Right(c) # Root
  BY <1>1, <1>2, <1>3
<1> QED BY <1>1, <1>2, <1>4, <1>5

\* Above a call that such a step starts are its caller and who is above that;
\* the calls above one that was there are those that were above it.
LEMMA AboveRegrown ==
    ASSUME IInv, NEW c \in DOMAIN calls, NEW K, Regrows(c, K),
           NEW d \in DOMAIN calls', NEW e \in Paths, Above(e, d)
    PROVE  LET D == DOMAIN calls
               H == {Left(c), Right(c)}
           IN  \/ d \in K /\ e = c
               \/ d \in K /\ Above(e, c) /\ e \in D /\ e \notin H /\ e # c
               \/ d \in D /\ d \notin H /\ e \in D /\ e \notin H /\ e # c
<1> DEFINE D == DOMAIN calls
           H == {Left(c), Right(c)}
<1>1. Waiting
  BY DEF IInv
<1>2. /\ D \subseteq Paths /\ c \in Paths /\ K \subseteq H /\ H \subseteq Paths /\ c \notin H
      /\ \A x \in Paths, y \in H : Above(x, y) <=> x = c \/ Above(x, c)
  BY TwoHalves DEF IInv, Shape, Regrows
<1>3. /\ DOMAIN calls' = (D \ H) \union K
      /\ \A x \in D : Above(c, x) => x \in H
  BY DEF Regrows
<1> HIDE DEF D, H
<1>4. CASE d \in K
  <2>1. e = c \/ Above(e, c)
    BY <1>2, <1>4
  <2>2. ASSUME Above(e, c) PROVE e \in D /\ e \notin H /\ e # c
    <3>1. e \in D
      BY <1>1, <2>2 DEF Waiting, D
    <3>2. e # c
      BY <1>2, <2>2, AboveIsOrder
    <3>3. e \notin H
      BY <1>2, <2>2, AboveIsOrder
    <3> QED BY <3>1, <3>2, <3>3
  <2> QED BY <1>4, <2>1, <2>2 DEF D, H
<1>5. CASE d \notin K
  <2>1. d \in D /\ d \notin H
    BY <1>3, <1>5
  <2>2. e \in D
    BY <1>1, <2>1 DEF Waiting, D
  <2>3. e # c
    BY <1>3, <2>1
  <2>4. e \notin H
    BY <1>2, <1>3, <2>1, AboveIsOrder
  <2> QED BY <2>1, <2>2, <2>3, <2>4 DEF D, H
<1> QED BY <1>4, <1>5

\* Such a step keeps the calls nested and apart, and changes no element.
LEMMA RegrowsKeepsInv ==
    ASSUME IInv, NEW c \in DOMAIN calls, NEW K, Regrows(c, K)
    PROVE  IInv'
<1> DEFINE D == DOMAIN calls
           H == {Left(c), Right(c)}
<1>1. Shape /\ Waiting /\ Nested /\ Unrelated /\ \A d \in D : Progress(calls[d])
  BY DEF IInv
<1>2. /\ D \subseteq Paths /\ c \in Paths /\ K \subseteq H /\ H \subseteq Paths /\ c \notin H
      /\ \A e \in Paths, d \in H : Above(e, d) <=> e = c \/ Above(e, c)
  BY <1>1, TwoHalves DEF Shape, Regrows
<1>3. /\ DOMAIN calls' = (D \ H) \union K
      /\ \A d \in D : Above(c, d) => d \in H
      /\ \A d \in D : d \notin H /\ d # c => calls'[d] = calls[d]
      /\ K # {} => calls'[c].at = "calls"
  BY DEF Regrows
<1>4. /\ IsCall(calls[c]) /\ IsCall(calls'[c])
      /\ calls'[c].lo >= calls[c].lo /\ calls'[c].hi <= calls[c].hi
      /\ \A d \in K : IsCall(calls'[d]) /\ InHalf(calls'[c], calls'[d])
      /\ \A d, e \in K : d # e => Apart(calls'[d], calls'[e])
  BY <1>1 DEF Regrows, Shape
<1> HIDE DEF D, H
<1>5. Shape'
  <2>1. Root \in DOMAIN calls'
    BY <1>1, <1>3, TwoHalves, <1>2 DEF Shape, D, H
  <2>2. DOMAIN calls' \subseteq Paths
    BY <1>2, <1>3
  <2>3. \A d \in DOMAIN calls' : IsCall(calls'[d])
    BY <1>1, <1>3, <1>4 DEF Shape, D
  <2> QED BY <1>1, <2>1, <2>2, <2>3 DEF Shape, Regrows
<1>6. ASSUME NEW d \in DOMAIN calls', NEW e \in Paths, Above(e, d)
      PROVE  \/ d \in K /\ e = c
             \/ d \in K /\ Above(e, c) /\ e \in D /\ e \notin H /\ e # c
             \/ d \in D /\ d \notin H /\ e \in D /\ e \notin H /\ e # c
  BY <1>6, AboveRegrown DEF D, H
<1>7. Waiting'
  <2> SUFFICES ASSUME NEW d \in DOMAIN calls', NEW e \in Paths, Above(e, d)
               PROVE  e \in DOMAIN calls' /\ calls'[e].at = "calls"
    BY DEF Waiting
  <2>1. CASE d \in K /\ e = c
    BY <1>2, <1>3, <2>1 DEF D
  <2>2. CASE d \in K /\ Above(e, c) /\ e \in D /\ e \notin H /\ e # c
    BY <1>1, <1>3, <2>2 DEF Waiting
  <2>3. CASE d \in D /\ d \notin H /\ e \in D /\ e \notin H /\ e # c
    BY <1>1, <1>3, <2>3 DEF Waiting, D
  <2> QED BY <1>6, <2>1, <2>2, <2>3
<1>8. ASSUME NEW d \in K
      PROVE  calls'[d].lo >= calls[c].lo /\ calls'[d].hi <= calls[c].hi
  <2>1. calls'[c].at = "calls" /\ Progress(calls[c])'
    BY <1>3 DEF Regrows
  <2>2. calls'[c].i \in calls'[c].lo .. calls'[c].hi - 1
    BY <2>1 DEF Progress
  <2>3. /\ IsCall(calls'[d]) /\ InHalf(calls'[c], calls'[d])
    BY <1>4
  <2> QED BY <1>4, <2>2, <2>3 DEF InHalf, IsCall
<1>9. Nested'
  <2> SUFFICES ASSUME NEW e \in DOMAIN calls', NEW d \in DOMAIN calls', Above(e, d)
               PROVE  InHalf(calls'[e], calls'[d])
    BY DEF Nested
  <2>0. e \in Paths
    BY <1>2, <1>3
  <2>1. CASE d \in K /\ e = c
    BY <1>4, <2>1
  <2>2. CASE d \in K /\ Above(e, c) /\ e \in D /\ e \notin H /\ e # c
    <3>1. InHalf(calls[e], calls[c]) /\ calls'[e] = calls[e] /\ IsCall(calls[e])
      BY <1>1, <1>3, <2>2 DEF Nested, D, Shape
    <3>2. calls[e].at = "calls" /\ Progress(calls[e])
      BY <1>1, <2>2, <2>0 DEF Waiting, D
    <3>3. calls[e].i \in calls[e].lo .. calls[e].hi - 1
      BY <3>2 DEF Progress
    <3>4. calls'[d].lo >= calls[c].lo /\ calls'[d].hi <= calls[c].hi /\ IsCall(calls'[d])
      BY <1>4, <1>8, <2>2
    <3> QED BY <1>4, <3>1, <3>3, <3>4 DEF InHalf, IsCall
  <2>3. CASE d \in D /\ d \notin H /\ e \in D /\ e \notin H /\ e # c
    <3>1. InHalf(calls[e], calls[d]) /\ calls'[e] = calls[e] /\ IsCall(calls[e])
      BY <1>1, <1>3, <2>3 DEF Nested, D, Shape
    <3>2. CASE d # c
      BY <1>3, <2>3, <3>1, <3>2
    <3>3. CASE d = c
      <4>1. calls[e].at = "calls" /\ Progress(calls[e])
        BY <1>1, <2>3, <2>0 DEF Waiting, D
      <4>2. calls[e].i \in calls[e].lo .. calls[e].hi - 1
        BY <4>1 DEF Progress
      <4> QED BY <1>4, <3>1, <3>3, <4>2 DEF InHalf, IsCall
    <3> QED BY <3>2, <3>3
  <2> QED BY <1>6, <2>0, <2>1, <2>2, <2>3
<1>10. ASSUME NEW d \in D, d \notin H
       PROVE  /\ calls'[d].lo >= calls[d].lo /\ calls'[d].hi <= calls[d].hi
              /\ IsCall(calls'[d]) /\ IsCall(calls[d])
  BY <1>1, <1>3, <1>4, <1>10 DEF Shape, D, IsCall
<1>11. ASSUME NEW d \in K, NEW e \in D, e \notin H, ~Above(e, d)
       PROVE  Apart(calls'[d], calls'[e]) /\ Apart(calls'[e], calls'[d])
  <2>1. e # c /\ ~Above(e, c) /\ ~Above(c, e)
    BY <1>2, <1>3, <1>11
  <2>2. Apart(calls[c], calls[e])
    BY <1>1, <2>1 DEF Unrelated, D
  <2>3. calls'[e] = calls[e] /\ IsCall(calls[e]) /\ IsCall(calls'[d])
    BY <1>3, <1>4, <1>10, <1>11, <2>1
  <2> QED BY <1>4, <1>8, <2>2, <2>3 DEF Apart, IsCall
<1>12. Unrelated'
  <2> SUFFICES ASSUME NEW d \in DOMAIN calls', NEW e \in DOMAIN calls',
                      d # e, ~Above(d, e), ~Above(e, d)
               PROVE  Apart(calls'[d], calls'[e])
    BY DEF Unrelated
  <2>1. CASE d \in K /\ e \in K
    BY <1>4, <2>1
  <2>2. CASE d \in K /\ e \notin K
    BY <1>3, <1>11, <2>2
  <2>3. CASE d \notin K /\ e \in K
    BY <1>3, <1>11, <2>3
  <2>4. CASE d \notin K /\ e \notin K
    <3>1. d \in D /\ d \notin H /\ e \in D /\ e \notin H
      BY <1>3, <2>4
    <3>2. Apart(calls[d], calls[e])
      BY <1>1, <3>1 DEF Unrelated, D
    <3>3. /\ calls'[d].lo >= calls[d].lo /\ calls'[d].hi <= calls[d].hi
          /\ calls'[e].lo >= calls[e].lo /\ calls'[e].hi <= calls[e].hi
      BY <1>10, <3>1
    <3>4. IsCall(calls'[d]) /\ IsCall(calls[d]) /\ IsCall(calls'[e]) /\ IsCall(calls[e])
      BY <1>10, <3>1
    <3> QED BY <3>2, <3>3, <3>4 DEF Apart, IsCall
  <2> QED BY <2>1, <2>2, <2>3, <2>4
<1>13. ASSUME NEW d \in DOMAIN calls' PROVE Progress(calls[d])'
  <2>1. CASE d \in K \/ d = c
    BY <2>1 DEF Regrows
  <2>2. CASE d \notin K /\ d # c
    <3>1. d \in D /\ calls'[d] = calls[d] /\ a' = a
      BY <1>3, <2>2 DEF Regrows
    <3>2. Progress(calls[d])
      BY <1>1, <3>1
    <3> QED BY <3>1, <3>2 DEF Progress
  <2> QED BY <2>1, <2>2
<1> QED BY <1>5, <1>7, <1>9, <1>12, <1>13 DEF IInv

\* Below a call whose halves are done are these halves only.
LEMMA NothingBelowHalves ==
    ASSUME IInv, NEW c \in DOMAIN calls, \A d \in Halves(c) : calls[d].at = "done",
           NEW d \in DOMAIN calls, Above(c, d)
    PROVE  d \in {Left(c), Right(c)}
<1>1. /\ Waiting /\ c \in Paths /\ d \in Paths
  BY DEF IInv, Shape
<1>2. PICK b \in {0, 1} : d = c \o <<b>> \/ Above(c \o <<b>>, d)
  BY <1>1, BelowCall
<1> DEFINE h == c \o <<b>>
<1>3. h \in {Left(c), Right(c)} /\ h \in Paths
  BY <1>1, <1>2, TwoHalves DEF Left, Right
<1> HIDE DEF h
<1>4. CASE Above(h, d)
  <2>1. h \in DOMAIN calls /\ calls[h].at = "calls"
    BY <1>1, <1>3, <1>4 DEF Waiting
  <2>2. calls[h].at = "done"
    BY <1>3, <2>1 DEF Halves
  <2> QED BY <2>1, <2>2
<1> QED BY <1>2, <1>3, <1>4 DEF h

\* A call that starts has the fields of one, and nothing to say of its progress.
LEMMA NewCall ==
    ASSUME NEW lo \in Nat, NEW hi \in Nat, lo <= hi, hi <= N - 1, NEW depth
    PROVE  LET r == Call(lo, hi, depth) IN
           IsCall(r) /\ r.lo = lo /\ r.hi = hi /\ r.at = "enter"
BY DEF Call, IsCall

\* What the steps of a call that waits for its halves find in it.
LEMMA CallSplit ==
    ASSUME IInv, NEW c \in DOMAIN calls, calls[c].at = "calls"
    PROVE  /\ calls[c].lo \in Nat /\ calls[c].hi \in Nat /\ calls[c].hi <= N - 1
           /\ calls[c].i \in calls[c].lo .. calls[c].hi - 1
           /\ N \in Nat
BY SortAssumption DEF IInv, Shape, IsCall, Progress

\* The sequential program's loop.
LEMMA LoopOnRegrows ==
    ASSUME IInv, NEW c \in DOMAIN calls, LoopOn(c)
    PROVE  Regrows(c, {})
<1> DEFINE q == calls[c]
           r == Second(q, q.i)
<1>1. /\ Finished(c) /\ a' = a /\ program' = program
      /\ calls' = [Without(Halves(c)) EXCEPT ![c] = r]
  BY DEF LoopOn
<1>2. /\ q.lo \in Nat /\ q.hi \in Nat /\ q.hi <= N - 1 /\ N \in Nat
      /\ q.i \in q.lo .. q.hi - 1
  BY <1>1, CallSplit DEF Finished
<1>3. \E lo, hi \in Nat :
        r = Call(lo, hi, DepthLeft(q)) /\ lo <= hi /\ lo >= q.lo /\ hi <= q.hi
  <2>1. r = Upper(q, q.i) \/ r = Lower(q, q.i)
    BY DEF Second
  <2>2. q.i \in Nat /\ q.i + 1 \in Nat /\ q.lo <= q.i /\ q.i + 1 <= q.hi
    BY <1>2
  <2> HIDE DEF q, r
  <2>3. CASE r = Upper(q, q.i)
    <3>1. r = Call(q.i + 1, q.hi, DepthLeft(q))
      BY <2>3 DEF Upper
    <3> QED BY <1>2, <2>2, <3>1
  <2>4. CASE r = Lower(q, q.i)
    <3>1. r = Call(q.lo, q.i, DepthLeft(q))
      BY <2>4 DEF Lower
    <3> QED BY <1>2, <2>2, <3>1
  <2> QED BY <2>1, <2>3, <2>4
<1>4. IsCall(r) /\ r.at = "enter" /\ r.lo >= q.lo /\ r.hi <= q.hi
  <2> HIDE DEF q, r
  <2>1. PICK lo \in Nat, hi \in Nat :
             r = Call(lo, hi, DepthLeft(q)) /\ lo <= hi /\ lo >= q.lo /\ hi <= q.hi
    BY <1>3
  <2>2. hi <= N - 1
    BY <1>2, <2>1
  <2>3. IsCall(r) /\ r.lo = lo /\ r.hi = hi /\ r.at = "enter"
    BY <2>1, <2>2, NewCall
  <2> QED BY <2>1, <2>3
<1>5. \A d \in DOMAIN calls : Above(c, d) => d \in {Left(c), Right(c)}
  BY <1>1, NothingBelowHalves DEF Finished
<1>6. c # Left(c) /\ c # Right(c)
  BY TwoHalves DEF IInv, Shape
<1> HIDE DEF r
<1>7. /\ DOMAIN calls' = DOMAIN calls \ {Left(c), Right(c)}
      /\ calls' = [d \in DOMAIN calls' |-> calls'[d]]
      /\ calls'[c] = r
      /\ \A d \in DOMAIN calls : d \notin {c, Left(c), Right(c)} => calls'[d] = calls[d]
  BY <1>1, <1>6 DEF Without, Halves
<1>8. Progress(calls[c])'
  BY <1>4, <1>7 DEF Progress
<1> QED BY <1>1, <1>4, <1>5, <1>7, <1>8 DEF Regrows
\* join, taskwait, or the return of the second plain call.
LEMMA JoinRegrows ==
    ASSUME IInv, NEW c \in DOMAIN calls, Join(c)
    PROVE  Regrows(c, {})
<1> DEFINE q == calls[c]
           r == [q EXCEPT !.at = "done"]
<1>1. /\ Finished(c) /\ a' = a /\ program' = program
      /\ calls' = [Without(Halves(c)) EXCEPT ![c].at = "done"]
  BY DEF Join
<1>2. IsCall(q)
  BY DEF IInv, Shape
<1>3. IsCall(r) /\ r.at = "done" /\ r.lo = q.lo /\ r.hi = q.hi
  BY <1>2 DEF IsCall
<1>4. q.lo \in Nat /\ q.hi \in Nat
  BY <1>2 DEF IsCall
<1>5. \A d \in DOMAIN calls : Above(c, d) => d \in {Left(c), Right(c)}
  BY <1>1, NothingBelowHalves DEF Finished
<1>6. c # Left(c) /\ c # Right(c)
  BY TwoHalves DEF IInv, Shape
<1>7. /\ DOMAIN calls' = DOMAIN calls \ {Left(c), Right(c)}
      /\ calls' = [d \in DOMAIN calls' |-> calls'[d]]
      /\ calls'[c] = r
      /\ \A d \in DOMAIN calls : d \notin {c, Left(c), Right(c)} => calls'[d] = calls[d]
  BY <1>1, <1>6 DEF Without, Halves
<1> HIDE DEF r
<1>8. Progress(calls[c])'
  BY <1>3, <1>7 DEF Progress
<1>9. /\ IsCall(calls'[c])
      /\ calls'[c].lo >= calls[c].lo /\ calls'[c].hi <= calls[c].hi
  BY <1>3, <1>4, <1>7
<1> QED BY <1>1, <1>5, <1>7, <1>8, <1>9 DEF Regrows

\* The second plain call.
LEMMA CallRightRegrows ==
    ASSUME IInv, NEW c \in DOMAIN calls, CallRight(c)
    PROVE  Regrows(c, {Right(c)})
<1> DEFINE q == calls[c]
           r == Upper(q, q.i)
<1>1. /\ Finished(c) /\ a' = a /\ program' = program
      /\ calls' = [d \in (DOMAIN calls \ {Left(c)}) \union {Right(c)} |->
                     IF d = Right(c) THEN r ELSE calls[d]]
  BY DEF CallRight
<1>2. /\ q.lo \in Nat /\ q.hi \in Nat /\ q.hi <= N - 1 /\ N \in Nat
      /\ q.i \in q.lo .. q.hi - 1
  BY <1>1, CallSplit DEF Finished
<1>3. IsCall(r) /\ r.at = "enter" /\ r.lo = q.i + 1 /\ r.hi = q.hi
  <2>1. q.i + 1 \in Nat /\ q.i + 1 <= q.hi
    BY <1>2
  <2>2. r = Call(q.i + 1, q.hi, DepthLeft(q))
    BY DEF Upper
  <2> HIDE DEF q, r
  <2> QED BY <1>2, <2>1, <2>2, NewCall
<1>4. \A d \in DOMAIN calls : Above(c, d) => d \in {Left(c), Right(c)}
  BY <1>1, NothingBelowHalves DEF Finished
<1>5. c # Left(c) /\ c # Right(c) /\ Left(c) # Right(c)
  BY TwoHalves DEF IInv, Shape
<1> HIDE DEF r
<1>6. /\ DOMAIN calls' = (DOMAIN calls \ {Left(c), Right(c)}) \union {Right(c)}
      /\ calls' = [d \in DOMAIN calls' |-> calls'[d]]
      /\ calls'[c] = q /\ calls'[Right(c)] = r
      /\ \A d \in DOMAIN calls : d \notin {c, Left(c), Right(c)} => calls'[d] = calls[d]
  BY <1>1, <1>5
<1>7. IsCall(q) /\ Progress(q) /\ q.at = "calls"
  BY <1>1 DEF IInv, Shape, Finished
<1>8. Progress(calls[c])' /\ Progress(calls[Right(c)])'
  <2>1. Progress(calls[c])'
    <3> HIDE DEF q
    <3> QED BY <1>1, <1>6, <1>7 DEF Progress
  <2>2. Progress(calls[Right(c)])'
    BY <1>3, <1>6 DEF Progress
  <2> QED BY <2>1, <2>2
<1>9. InHalf(calls'[c], calls'[Right(c)])
  <2> HIDE DEF q
  <2> QED BY <1>2, <1>3, <1>6 DEF InHalf
<1>10. calls'[c].lo >= calls[c].lo /\ calls'[c].hi <= calls[c].hi /\ calls'[c].at = "calls"
  BY <1>2, <1>6, <1>7
<1>11. IsCall(calls'[c]) /\ IsCall(calls'[Right(c)])
  BY <1>3, <1>6, <1>7
<1> HIDE DEF q
<1> QED BY <1>1, <1>4, <1>6, <1>8, <1>9, <1>10, <1>11 DEF Regrows

\* The halves that a partition starts when it returns
Started(c) == IF MayFork(calls[c]) THEN {Left(c), Right(c)} ELSE {Left(c)}

\* The partition returns: below its range's last lower element, nothing is
\* greater than the pivot, and above it nothing smaller.
LEMMA SplitFinds ==
    ASSUME IInv, NEW c \in DOMAIN calls, Split(c)
    PROVE  LET q == calls[c]
               p == LastLower(q)
               K == Started(c)
               s == Calling(q, p, MayFork(q))
           IN  /\ q.at = "scan" /\ q.pivot \in Int /\ a' = a /\ program' = program
               /\ p \in q.lo .. q.hi - 1
               /\ \A x \in q.lo .. p : a[x] <= q.pivot
               /\ \A x \in p + 1 .. q.hi : a[x] >= q.pivot
               /\ IsCall(s) /\ s.lo = q.lo /\ s.hi = q.hi /\ s.at = "calls"
               /\ s.pivot = q.pivot /\ s.i = p /\ s.forked = MayFork(q)
               /\ IsCall(Upper(q, p)) /\ Upper(q, p).at = "enter"
               /\ Upper(q, p).lo = p + 1 /\ Upper(q, p).hi = q.hi
               /\ IsCall(Lower(q, p)) /\ Lower(q, p).at = "enter"
               /\ Lower(q, p).lo = q.lo /\ Lower(q, p).hi = p
               /\ Left(c) \notin DOMAIN calls /\ Right(c) \notin DOMAIN calls
               /\ \A d \in DOMAIN calls : ~Above(c, d)
               /\ DOMAIN calls' = (DOMAIN calls \ {Left(c), Right(c)}) \union K
               /\ calls' = [d \in DOMAIN calls' |-> calls'[d]]
               /\ calls'[c] = s
               /\ calls'[Left(c)] = First(q, p)
               /\ Right(c) \in K => calls'[Right(c)] = Upper(q, p)
               /\ \A d \in DOMAIN calls :
                     d \notin {c, Left(c), Right(c)} => calls'[d] = calls[d]
<1> DEFINE q == calls[c]
           p == LastLower(q)
           K == Started(c)
           s == Calling(q, p, MayFork(q))
           f == First(q, p)
           u == Upper(q, p)
<1>1. /\ q.at = "scan" /\ ScanUp(q) >= ScanDown(q) /\ a' = a /\ program' = program
      /\ calls' = [d \in DOMAIN calls \union K |->
             CASE d = c -> s
               [] d = Left(c) -> f
               [] d = Right(c) -> u
               [] OTHER -> calls[d]]
  BY DEF Split, Calling, Started
<1>2. Shape /\ Waiting /\ IsCall(q) /\ Progress(q) /\ c \in Paths
  BY DEF IInv, Shape
<1>3. /\ q.lo \in Nat /\ q.hi \in Nat /\ q.hi <= N - 1 /\ N \in Nat
      /\ \A x \in q.lo .. q.hi : a[x] \in Int
  BY <1>2, Elements
<1>4. q.pivot \in Int
  BY <1>1, <1>2 DEF Progress
<1>5. /\ p \in q.lo .. q.hi - 1
      /\ \A x \in q.lo .. p : a[x] <= q.pivot
      /\ \A x \in p + 1 .. q.hi : a[x] >= q.pivot
  <2> DEFINE v == ScanUp(q)
             w == ScanDown(q)
  <2>1. /\ v \in q.lo .. q.hi /\ w \in q.lo .. q.hi /\ v >= w /\ w < q.hi
        /\ a[v] >= q.pivot /\ a[w] <= q.pivot
        /\ \A x \in q.lo .. v - 1 : a[x] <= q.pivot
        /\ \A x \in w + 1 .. q.hi : a[x] >= q.pivot
    BY <1>1, <1>2, ScansStop
  <2>2. p = w
    BY DEF LastLower
  <2> HIDE DEF v, w, p, q
  <2>3. w \in q.lo .. q.hi - 1
    BY <1>3, <2>1
  <2>4. ASSUME NEW x \in q.lo .. w PROVE a[x] <= q.pivot
    <3>1. x \in q.lo .. v - 1 \/ x = w
      BY <1>3, <2>1
    <3> QED BY <2>1, <3>1
  <2> QED BY <2>1, <2>2, <2>3, <2>4
<1>6. /\ IsCall(s) /\ s.lo = q.lo /\ s.hi = q.hi /\ s.at = "calls"
      /\ s.pivot = q.pivot /\ s.i = p /\ s.forked = MayFork(q)
  BY <1>2, SplitFields
<1>7. /\ IsCall(u) /\ u.lo = p + 1 /\ u.hi = q.hi /\ u.at = "enter"
      /\ IsCall(Lower(q, p)) /\ Lower(q, p).lo = q.lo /\ Lower(q, p).hi = p
      /\ Lower(q, p).at = "enter"
  <2>1. u = Call(p + 1, q.hi, DepthLeft(q)) /\ Lower(q, p) = Call(q.lo, p, DepthLeft(q))
    BY DEF Upper, Lower
  <2> HIDE DEF p, q, u
  <2>2. /\ p + 1 \in Nat /\ p + 1 <= q.hi
        /\ p \in Nat /\ p <= N - 1 /\ q.lo <= p
    BY <1>3, <1>5
  <2>3. IsCall(u) /\ u.lo = p + 1 /\ u.hi = q.hi /\ u.at = "enter"
    BY <1>3, <2>1, <2>2, NewCall
  <2>4. /\ IsCall(Lower(q, p)) /\ Lower(q, p).lo = q.lo /\ Lower(q, p).hi = p
        /\ Lower(q, p).at = "enter"
    BY <1>3, <2>1, <2>2, NewCall
  <2> QED BY <2>3, <2>4
<1>10. /\ \A d \in DOMAIN calls : ~Above(c, d)
       /\ c # Left(c) /\ c # Right(c) /\ Left(c) # Right(c)
       /\ Above(c, Left(c)) /\ Above(c, Right(c))
  BY <1>1, <1>2, TwoHalves DEF Waiting
<1>11. Left(c) \notin DOMAIN calls /\ Right(c) \notin DOMAIN calls
  BY <1>10
<1> HIDE DEF s, f, u
<1>12. K \subseteq {Left(c), Right(c)} /\ Left(c) \in K
  BY DEF Started
<1>13. /\ DOMAIN calls' = (DOMAIN calls \ {Left(c), Right(c)}) \union K
       /\ calls' = [d \in DOMAIN calls' |-> calls'[d]]
       /\ calls'[c] = s
       /\ calls'[Left(c)] = f
       /\ Right(c) \in K => calls'[Right(c)] = u
       /\ \A d \in DOMAIN calls : d \notin {c, Left(c), Right(c)} => calls'[d] = calls[d]
  <2> HIDE DEF K
  <2> QED BY <1>1, <1>10, <1>11, <1>12
<1> QED BY <1>1, <1>4, <1>5, <1>6, <1>7, <1>10, <1>11, <1>13 DEF s, f, u

\* The tree of calls grows by the halves that start.
LEMMA SplitRegrows ==
    ASSUME IInv, NEW c \in DOMAIN calls, Split(c)
    PROVE  Regrows(c, Started(c))
<1> DEFINE q == calls[c]
           p == LastLower(q)
           K == Started(c)
           s == Calling(q, p, MayFork(q))
           f == First(q, p)
           u == Upper(q, p)
<1>1. /\ q.at = "scan" /\ q.pivot \in Int /\ a' = a /\ program' = program
      /\ p \in q.lo .. q.hi - 1
      /\ \A x \in q.lo .. p : a[x] <= q.pivot
      /\ \A x \in p + 1 .. q.hi : a[x] >= q.pivot
  BY SplitFinds
<1>3. q.lo \in Nat /\ q.hi \in Nat
  BY Elements DEF IInv
<1>6. /\ IsCall(s) /\ s.lo = q.lo /\ s.hi = q.hi /\ s.at = "calls"
      /\ s.pivot = q.pivot /\ s.i = p
  BY SplitFinds
<1>7. /\ IsCall(u) /\ u.lo = p + 1 /\ u.hi = q.hi /\ u.at = "enter"
      /\ IsCall(Lower(q, p)) /\ Lower(q, p).lo = q.lo /\ Lower(q, p).hi = p
      /\ Lower(q, p).at = "enter"
  BY SplitFinds
<1>8. f = u \/ f = Lower(q, p)
  BY DEF First
<1>9. MayFork(q) => f = Lower(q, p)
  BY DEF First, MayFork
<1>10. \A d \in DOMAIN calls : ~Above(c, d)
  BY SplitFinds
<1>12. K \subseteq {Left(c), Right(c)} /\ (Right(c) \in K => MayFork(q))
  BY TwoHalves DEF Started, IInv, Shape
<1>13. /\ DOMAIN calls' = (DOMAIN calls \ {Left(c), Right(c)}) \union K
       /\ calls' = [d \in DOMAIN calls' |-> calls'[d]]
       /\ calls'[c] = s
       /\ calls'[Left(c)] = f
       /\ Right(c) \in K => calls'[Right(c)] = u
       /\ \A d \in DOMAIN calls : d \notin {c, Left(c), Right(c)} => calls'[d] = calls[d]
  BY SplitFinds
<1> HIDE DEF s, f, u
<1>14. Progress(calls[c])'
  <2> HIDE DEF q, p
  <2> QED BY <1>1, <1>6, <1>13 DEF Progress
<1>15. ASSUME NEW d \in K
       PROVE  IsCall(calls'[d]) /\ Progress(calls[d])' /\ InHalf(calls'[c], calls'[d])
  <2>1. calls'[d] = u \/ calls'[d] = Lower(q, p)
    BY <1>8, <1>12, <1>13
  <2> HIDE DEF q, p, K
  <2>2. IsCall(calls'[d]) /\ calls'[d].at = "enter"
    BY <1>7, <2>1
  <2>3. Progress(calls[d])'
    BY <2>2 DEF Progress
  <2>4. InHalf(calls'[c], calls'[d])
    BY <1>1, <1>3, <1>6, <1>7, <1>13, <2>1 DEF InHalf
  <2> QED BY <2>2, <2>3, <2>4
<1>16. ASSUME NEW d \in K, NEW e \in K, d # e PROVE Apart(calls'[d], calls'[e])
  <2>1. Left(c) \in K /\ Right(c) \in K /\ MayFork(q)
    BY <1>12, <1>16
  <2>2. calls'[Left(c)] = Lower(q, p) /\ calls'[Right(c)] = u
    BY <1>9, <1>13, <2>1
  <2>3. (d = Left(c) /\ e = Right(c)) \/ (d = Right(c) /\ e = Left(c))
    BY <1>12, <1>16
  <2> HIDE DEF q, p, K
  <2> QED BY <1>1, <1>3, <1>7, <2>2, <2>3 DEF Apart
<1>17. calls'[c].lo >= calls[c].lo /\ calls'[c].hi <= calls[c].hi /\ calls'[c].at = "calls"
  BY <1>3, <1>6, <1>13
<1>18. IsCall(calls'[c])
  BY <1>6, <1>13
<1> HIDE DEF q, p, K
<1>19. Regrows(c, K)
  BY <1>1, <1>10, <1>12, <1>13, <1>14, <1>15, <1>16, <1>17, <1>18 DEF Regrows
<1> QED BY <1>19 DEF K
-----------------------------------------------------------------------------
(* The invariant                                                           *)

\* The first call has the whole array, and nobody else is there.
LEMMA InitInv == Init => IInv
<1> SUFFICES ASSUME Init PROVE IInv
  OBVIOUS
<1>1. /\ N \in Nat /\ 0 <= N - 1 /\ N - 1 \in Nat /\ Values \subseteq Int
  BY SortAssumption
<1>2. /\ DOMAIN calls = {Root} /\ calls = [c \in DOMAIN calls |-> calls[c]]
      /\ calls[Root] = Call(0, N - 1, ForkDepth)
  BY DEF Init
<1>3. IsCall(calls[Root]) /\ calls[Root].at = "enter"
  <2>1. IsCall(Call(0, N - 1, ForkDepth)) /\ Call(0, N - 1, ForkDepth).at = "enter"
    BY <1>1, NewCall
  <2> QED BY <1>2, <2>1
<1>4. Root \in Paths /\ Len(Root) = 0
  BY DEF Paths, Root
<1>5. \A e \in Paths : ~Above(e, Root)
  BY <1>4 DEF Above, Paths
<1>6. Shape
  BY <1>2, <1>3, <1>4 DEF Shape, Init
<1>7. Waiting /\ Nested /\ Unrelated
  BY <1>2, <1>4, <1>5 DEF Waiting, Nested, Unrelated
<1>8. \A c \in DOMAIN calls : Progress(calls[c])
  BY <1>2, <1>3 DEF Progress
<1> QED BY <1>6, <1>7, <1>8 DEF IInv

\* Every step works inside one call's range, or regrows the tree below one call.
LEMMA StepInv == IInv /\ [Next]_vars => IInv'
<1> SUFFICES ASSUME IInv, [Next]_vars PROVE IInv'
  OBVIOUS
<1>1. ASSUME NEW c \in DOMAIN calls, Enter(c) \/ InsertKey(c) \/ InsertionEnds(c) \/ SwapPair(c)
      PROVE  IInv'
  BY <1>1, WorkIsLocal, LocalKeepsInv
<1>2. ASSUME NEW c \in DOMAIN calls, Split(c) PROVE IInv'
  BY <1>2, SplitRegrows, RegrowsKeepsInv
<1>3. ASSUME NEW c \in DOMAIN calls, LoopOn(c) PROVE IInv'
  BY <1>3, LoopOnRegrows, RegrowsKeepsInv
<1>4. ASSUME NEW c \in DOMAIN calls, CallRight(c) PROVE IInv'
  BY <1>4, CallRightRegrows, RegrowsKeepsInv
<1>5. ASSUME NEW c \in DOMAIN calls, Join(c) PROVE IInv'
  BY <1>5, JoinRegrows, RegrowsKeepsInv
<1>6. CASE UNCHANGED vars
  <2>1. a' = a /\ calls' = calls /\ program' = program
    BY <1>6 DEF vars
  <2>2. Shape' /\ Waiting' /\ Nested' /\ Unrelated'
    BY <2>1 DEF IInv, Shape, Waiting, Nested, Unrelated
  <2>3. \A c \in DOMAIN calls' : Progress(calls[c])'
    BY <2>1 DEF IInv, Progress
  <2> QED BY <2>2, <2>3 DEF IInv
<1> QED BY <1>1, <1>2, <1>3, <1>4, <1>5, <1>6 DEF Next, Step

\* The invariant holds throughout every sort.
LEMMA Invariant == Spec => []IInv
BY InitInv, StepInv, PTL DEF Spec

\* Calls work on disjoint elements, which is why the array needs no mutex.
THEOREM ElementsHaveOneWorker == Spec => []WorkIsDisjoint
<1>1. IInv => WorkIsDisjoint
  <2> SUFFICES ASSUME IInv, NEW c \in Working, NEW d \in Working, c # d
               PROVE  Reach(c) \intersect Reach(d) = {}
    BY DEF WorkIsDisjoint
  <2>1. /\ c \in DOMAIN calls /\ d \in DOMAIN calls
        /\ calls[c].at # "calls" /\ calls[d].at # "calls"
    BY DEF Working
  <2>2. Shape /\ Waiting /\ Unrelated /\ c \in Paths /\ d \in Paths
    BY <2>1 DEF IInv, Shape
  <2>3. ~Above(c, d) /\ ~Above(d, c)
    BY <2>1, <2>2 DEF Waiting
  <2>4. Apart(calls[c], calls[d])
    BY <2>1, <2>2, <2>3 DEF Unrelated
  <2>5. IsCall(calls[c]) /\ IsCall(calls[d])
    BY <2>1, <2>2 DEF Shape
  <2> QED BY <2>4, <2>5 DEF Apart, IsCall, Reach
<1> QED BY <1>1, Invariant, PTL

\* The scans stop in the range without a test for its end, and each partition
\* makes both halves smaller than its range.
THEOREM ScansNeedNoBound == Spec => []ScansStayInside
<1>1. ASSUME IInv, NEW c \in DOMAIN calls
      PROVE  c = Root \/ SubSeq(c, 1, Len(c) - 1) \in DOMAIN calls
  <2>1. Waiting /\ c \in Seq({0, 1}) /\ Len(c) \in Nat
    BY <1>1 DEF IInv, Shape, Paths
  <2>2. CASE Len(c) = 0
    BY <2>1, <2>2, EmptySeq DEF Root
  <2>3. CASE Len(c) # 0
    <3> DEFINE e == SubSeq(c, 1, Len(c) - 1)
    <3>1. e \in Seq({0, 1}) /\ Len(e) = Len(c) - 1 /\ \A k \in 1 .. Len(e) : e[k] = c[k]
      <4> DEFINE n == Len(c) - 1
      <4>1. n \in Nat /\ 1 \in Int /\ n \in Int /\ \A i \in 1 .. n : c[i] \in {0, 1}
        BY <2>1, <2>3
      <4>2. /\ SubSeq(c, 1, n) \in Seq({0, 1})
            /\ Len(SubSeq(c, 1, n)) = IF 1 <= n THEN n - 1 + 1 ELSE 0
            /\ \A i \in 1 .. n - 1 + 1 : SubSeq(c, 1, n)[i] = c[1 + i - 1]
        BY ONLY <4>1, SubSeqProperties
      <4>3. e = SubSeq(c, 1, n)
        OBVIOUS
      <4> HIDE DEF n, e
      <4>4. Len(e) = n /\ \A k \in 1 .. n : e[k] = c[k]
        BY <4>1, <4>2, <4>3
      <4> QED BY <4>2, <4>3, <4>4 DEF n
    <3> HIDE DEF e
    <3>2. Above(e, c)
      BY <2>1, <2>3, <3>1 DEF Above
    <3>3. e \in DOMAIN calls
      BY <2>1, <3>1, <3>2 DEF Waiting, Paths
    <3> QED BY <3>3 DEF e
  <2> QED BY <2>2, <2>3
<1>2. IInv => TypeOK
  <2> SUFFICES ASSUME IInv PROVE TypeOK
    OBVIOUS
  <2>1. \A c \in DOMAIN calls : IsCall(calls[c])
    BY DEF IInv, Shape
  <2>2. a \in [Index -> Values] /\ N \in Nat
    BY SortAssumption DEF IInv, Shape
  <2> QED BY <1>1, <2>1, <2>2 DEF TypeOK, IsCall
<1>3. ASSUME IInv, NEW c \in DOMAIN calls, calls[c].at = "scan"
      PROVE  ScanUp(calls[c]) <= calls[c].hi /\ ScanDown(calls[c]) >= calls[c].lo
  <2>1. Shape /\ Progress(calls[c])
    BY <1>3 DEF IInv
  <2>2. /\ ScanUp(calls[c]) \in calls[c].lo .. calls[c].hi
        /\ ScanDown(calls[c]) \in calls[c].lo .. calls[c].hi
    BY <1>3, <2>1, ScansStop
  <2>3. calls[c].lo \in Nat /\ calls[c].hi \in Nat
    BY <2>1, Elements
  <2> QED BY <2>2, <2>3
<1>4. ASSUME IInv, NEW c \in DOMAIN calls, calls[c].at = "calls"
      PROVE  calls[c].lo <= calls[c].i /\ calls[c].i < calls[c].hi
  BY <1>4, CallSplit
<1>5. IInv => ScansStayInside
  BY <1>2, <1>3, <1>4 DEF ScansStayInside
<1> QED BY <1>5, Invariant, PTL

\* The halves of a partition stay in order while they are sorted, at once or
\* one after the other.
THEOREM HalvesOrdered == Spec => []HalvesStayOrdered
<1>1. IInv => HalvesStayOrdered
  <2> SUFFICES ASSUME IInv, NEW c \in DOMAIN calls, calls[c].at = "calls",
                      NEW x \in calls[c].lo .. calls[c].i,
                      NEW y \in calls[c].i + 1 .. calls[c].hi
               PROVE  a[x] <= a[y]
    BY DEF HalvesStayOrdered
  <2>1. /\ calls[c].pivot \in Int
        /\ a[x] <= calls[c].pivot /\ a[y] >= calls[c].pivot
    BY DEF IInv, Progress
  <2>2. /\ calls[c].lo \in Nat /\ calls[c].hi \in Nat
        /\ calls[c].i \in calls[c].lo .. calls[c].hi - 1
    BY CallSplit
  <2>3. x \in calls[c].lo .. calls[c].hi /\ y \in calls[c].lo .. calls[c].hi
    BY <2>2
  <2>4. a[x] \in Int /\ a[y] \in Int
    BY <2>3, Elements DEF IInv
  <2> QED BY <2>1, <2>4
<1> QED BY <1>1, Invariant, PTL
-----------------------------------------------------------------------------
(* Order                                                                   *)

\* Call c still has to call its second half, or to loop on it.
Postponed(c) ==
    calls[c].at = "calls" /\ ~calls[c].forked /\ Right(c) \notin DOMAIN calls

\* The range of that half
LowerFirst(q) == program # "sequential" \/ LeftIsSmaller(q, q.i)
RestFrom(q) == IF LowerFirst(q) THEN q.i + 1 ELSE q.lo
RestTo(q) == IF LowerFirst(q) THEN q.hi ELSE q.i

\* The pair of elements x and y, in this order, is one that c has yet to sort.
Todo(c, x, y) ==
    LET q == calls[c] IN
    \/ q.at \in {"enter", "scan"} /\ x \in q.lo .. q.hi /\ y \in q.lo .. q.hi
    \/ q.at = "insert" /\ x \in q.lo .. q.hi /\ y \in q.i .. q.hi
    \/ Postponed(c) /\ x \in RestFrom(q) .. RestTo(q) /\ y \in RestFrom(q) .. RestTo(q)

\* Every pair is in order, unless some call has yet to sort it.
PairsKept ==
    \A x, y \in Index : x < y => a[x] <= a[y] \/ \E c \in DOMAIN calls : Todo(c, x, y)

\* The calls below one that has a half to start are elsewhere than this half.
Elsewhere ==
    \A e, d \in DOMAIN calls : Postponed(e) /\ Above(e, d) =>
        calls[d].hi < RestFrom(calls[e]) \/ RestTo(calls[e]) < calls[d].lo

\* The two halves of a range: the one started first and the other.
LEMMA RestRange ==
    ASSUME NEW q, q.lo \in Nat, q.hi \in Nat, q.i \in q.lo .. q.hi - 1
    PROVE  /\ RestFrom(q) \in q.lo .. q.hi /\ RestTo(q) \in q.lo .. q.hi
           /\ LowerFirst(q) => RestFrom(q) = q.i + 1 /\ RestTo(q) = q.hi
           /\ ~LowerFirst(q) => RestFrom(q) = q.lo /\ RestTo(q) = q.i
BY DEF RestFrom, RestTo

\* A pair that a call has yet to sort is in its range: in all of it while the
\* call is at work, in the postponed half while it waits.
LEMMA TodoInRange ==
    ASSUME IInv, NEW c \in DOMAIN calls, NEW x, NEW y, Todo(c, x, y)
    PROVE  LET q == calls[c] IN
           /\ x \in q.lo .. q.hi /\ y \in q.lo .. q.hi
           /\ \/ q.at \in {"enter", "insert", "scan"}
              \/ /\ Postponed(c)
                 /\ x \in RestFrom(q) .. RestTo(q) /\ y \in RestFrom(q) .. RestTo(q)
<1> DEFINE q == calls[c]
<1>1. /\ q.lo \in Nat /\ q.hi \in Nat /\ Progress(q)
  BY DEF IInv, Shape, IsCall
<1>2. CASE q.at \in {"enter", "scan"}
  BY <1>2 DEF Todo, Postponed
<1>3. CASE q.at = "insert"
  <2>1. q.i \in q.lo + 1 .. q.hi + 1
    BY <1>1, <1>3 DEF Progress
  <2>2. x \in q.lo .. q.hi /\ y \in q.i .. q.hi
    BY <1>3 DEF Todo, Postponed
  <2> HIDE DEF q
  <2>3. y \in q.lo .. q.hi
    BY <1>1, <2>1, <2>2
  <2> QED BY <1>3, <2>2, <2>3 DEF q
<1>4. CASE q.at \notin {"enter", "scan", "insert"}
  <2>1. /\ Postponed(c) /\ q.at = "calls"
        /\ x \in RestFrom(q) .. RestTo(q) /\ y \in RestFrom(q) .. RestTo(q)
    BY <1>4 DEF Todo, Postponed
  <2>2. q.i \in q.lo .. q.hi - 1
    BY <2>1, CallSplit
  <2>3. RestFrom(q) \in q.lo .. q.hi /\ RestTo(q) \in q.lo .. q.hi
    BY <1>1, <2>2, RestRange
  <2> HIDE DEF q
  <2>4. x \in q.lo .. q.hi /\ y \in q.lo .. q.hi
    BY <1>1, <2>1, <2>3
  <2> QED BY <2>1, <2>4 DEF q
<1> QED BY <1>2, <1>3, <1>4

\* Nobody else has to sort an element that a call works on.
LEMMA OnlyTheWorker ==
    ASSUME IInv, Elsewhere, NEW c \in DOMAIN calls, calls[c].at \in {"enter", "insert", "scan"},
           NEW z \in calls[c].lo .. calls[c].hi, NEW d \in DOMAIN calls, NEW x,
           Todo(d, x, z) \/ Todo(d, z, x)
    PROVE  d = c
<1> SUFFICES ASSUME d # c PROVE FALSE
  OBVIOUS
<1> DEFINE q == calls[c]
           r == calls[d]
<1>1. /\ z \in r.lo .. r.hi
      /\ \/ r.at \in {"enter", "insert", "scan"}
         \/ Postponed(d) /\ z \in RestFrom(r) .. RestTo(r)
  BY TodoInRange
<1>2. /\ q.lo \in Nat /\ q.hi \in Nat /\ r.lo \in Nat /\ r.hi \in Nat
      /\ c \in Paths /\ d \in Paths /\ Waiting /\ Unrelated
  BY DEF IInv, Shape, IsCall
<1>3. ~Above(c, d)
  BY <1>2 DEF Waiting
<1>4. CASE Above(d, c)
  <2>1. r.at = "calls"
    BY <1>2, <1>4 DEF Waiting
  <2>2. Postponed(d) /\ z \in RestFrom(r) .. RestTo(r)
    BY <1>1, <2>1
  <2>3. q.hi < RestFrom(r) \/ RestTo(r) < q.lo
    BY <1>4, <2>2 DEF Elsewhere
  <2>4. RestFrom(r) \in Int /\ RestTo(r) \in Int
    <3>1. r.i \in r.lo .. r.hi - 1
      BY <2>1, CallSplit
    <3> QED BY <1>2, <3>1, RestRange
  <2> HIDE DEF r, q
  <2> QED BY <1>2, <2>2, <2>3, <2>4 DEF q
<1>5. CASE ~Above(d, c)
  <2>1. Apart(q, r)
    BY <1>2, <1>3, <1>5 DEF Unrelated
  <2> QED BY <1>1, <1>2, <2>1 DEF Apart
<1> QED BY <1>4, <1>5

\* What a call at work has behind it is in order.
LEMMA SortedSoFar ==
    ASSUME IInv, Elsewhere, PairsKept, NEW c \in DOMAIN calls, calls[c].at = "insert",
           NEW x \in calls[c].lo .. calls[c].i - 1, NEW y \in calls[c].lo .. calls[c].i - 1, x < y
    PROVE  a[x] <= a[y]
<1> DEFINE q == calls[c]
<1>1. /\ q.lo \in Nat /\ q.hi \in Nat /\ Progress(q)
      /\ \A z \in q.lo .. q.hi : z \in Index
  BY Elements DEF IInv
<1>2. q.i \in q.lo + 1 .. q.hi + 1
  BY <1>1 DEF Progress
<1> HIDE DEF q
<1>3. x \in q.lo .. q.hi /\ y \in q.lo .. q.hi /\ y < q.i /\ x \in Int /\ y \in Int
  BY <1>1, <1>2 DEF q
<1>4. a[x] <= a[y] \/ \E d \in DOMAIN calls : Todo(d, x, y)
  BY <1>1, <1>3 DEF PairsKept
<1>5. ASSUME NEW d \in DOMAIN calls, Todo(d, x, y) PROVE FALSE
  <2>1. d = c
    BY <1>3, <1>5, OnlyTheWorker DEF q
  <2>2. y \in q.i .. q.hi
    BY <1>5, <2>1 DEF Todo, Postponed, q
  <2> QED BY <1>1, <1>2, <1>3, <2>2
<1> QED BY <1>4, <1>5

\* A call at work that leaves the pairs of its own range in order, or to itself,
\* puts no other pair out of order.
LEMMA WorkKeepsOrder ==
    ASSUME IInv, Elsewhere, PairsKept, NEW c \in DOMAIN calls, Local(c),
           \A x, y \in calls[c].lo .. calls[c].hi :
               x < y => a'[x] <= a'[y] \/ Todo(c, x, y)'
    PROVE  Elsewhere' /\ PairsKept'
<1> DEFINE q == calls[c]
           D == DOMAIN calls
<1>1. /\ q.lo \in Nat /\ q.hi \in Nat
      /\ \A z \in q.lo .. q.hi : z \in Index
  BY Elements DEF IInv
<1>2. /\ q.at \in {"enter", "insert", "scan"} /\ calls'[c].at # "calls"
      /\ calls'[c].lo = q.lo /\ calls'[c].hi = q.hi
      /\ DOMAIN calls' = D /\ \A d \in D : d # c => calls'[d] = calls[d]
      /\ program' = program
      /\ \A x \in Index : x < q.lo \/ x > q.hi => a'[x] = a[x]
      /\ \A x \in q.lo .. q.hi : \E z \in q.lo .. q.hi : a'[x] = a[z]
  BY DEF Local, Moves
<1>3. \A d \in D : Postponed(d)' => Postponed(d) /\ d # c /\ calls'[d] = calls[d]
  BY <1>2 DEF Postponed
<1>4. Elsewhere'
  <2> SUFFICES ASSUME NEW e \in D, NEW d \in D, Postponed(e)', Above(e, d)
               PROVE  calls'[d].hi < RestFrom(calls[e])' \/ RestTo(calls[e])' < calls'[d].lo
    BY <1>2 DEF Elsewhere
  <2>1. Postponed(e) /\ calls'[e] = calls[e]
    BY <1>3
  <2>2. calls[d].hi < RestFrom(calls[e]) \/ RestTo(calls[e]) < calls[d].lo
    BY <2>1 DEF Elsewhere
  <2>3. RestFrom(calls[e])' = RestFrom(calls[e]) /\ RestTo(calls[e])' = RestTo(calls[e])
    BY <1>2, <2>1 DEF RestFrom, RestTo, LowerFirst, LeftIsSmaller
  <2>4. calls'[d].lo = calls[d].lo /\ calls'[d].hi = calls[d].hi
    BY <1>2
  <2> QED BY <2>2, <2>3, <2>4
<1>5. ASSUME NEW d \in D, d # c, NEW x, NEW y, Todo(d, x, y)
      PROVE  Todo(d, x, y)'
  <2>1. calls'[d] = calls[d] /\ DOMAIN calls' = DOMAIN calls /\ program' = program
    BY <1>2, <1>5
  <2>2. RestFrom(calls[d])' = RestFrom(calls[d]) /\ RestTo(calls[d])' = RestTo(calls[d])
    BY <2>1 DEF RestFrom, RestTo, LowerFirst, LeftIsSmaller
  <2>3. Postponed(d)' <=> Postponed(d)
    BY <2>1 DEF Postponed
  <2> QED BY <1>5, <2>1, <2>2, <2>3 DEF Todo
<1>6. ASSUME NEW x \in Index, NEW y \in Index, x < y
      PROVE  a'[x] <= a'[y] \/ \E d \in D : Todo(d, x, y)'
  <2>1. x \in Int /\ y \in Int
    BY SortAssumption DEF Index
  <2>2. CASE x \in q.lo .. q.hi /\ y \in q.lo .. q.hi
    BY <1>6, <2>2
  <2>3. CASE x \notin q.lo .. q.hi /\ y \notin q.lo .. q.hi
    <3>1. a'[x] = a[x] /\ a'[y] = a[y]
      BY <1>1, <1>2, <2>1, <2>3
    <3>2. ASSUME NEW d \in D, Todo(d, x, y) PROVE Todo(d, x, y)'
      BY <1>5, <2>3, <3>2, TodoInRange
    <3> QED BY <1>6, <3>1, <3>2 DEF PairsKept
  <2>4. CASE x \in q.lo .. q.hi /\ y \notin q.lo .. q.hi
    <3>1. PICK z \in q.lo .. q.hi : a'[x] = a[z]
      BY <1>2, <2>4
    <3>2. z \in Index /\ z < y /\ a'[y] = a[y]
      BY <1>1, <1>2, <1>6, <2>1, <2>4
    <3>3. ASSUME NEW d \in D, Todo(d, z, y) PROVE FALSE
      <4>1. d = c
        BY <1>2, <3>3, OnlyTheWorker
      <4> QED BY <2>4, <3>3, <4>1, TodoInRange
    <3> QED BY <3>1, <3>2, <3>3 DEF PairsKept
  <2>5. CASE x \notin q.lo .. q.hi /\ y \in q.lo .. q.hi
    <3>1. PICK z \in q.lo .. q.hi : a'[y] = a[z]
      BY <1>2, <2>5
    <3>2. z \in Index /\ x < z /\ a'[x] = a[x]
      BY <1>1, <1>2, <1>6, <2>1, <2>5
    <3>3. ASSUME NEW d \in D, Todo(d, x, z) PROVE FALSE
      <4>1. d = c
        BY <1>2, <3>3, OnlyTheWorker
      <4> QED BY <2>5, <3>3, <4>1, TodoInRange
    <3> QED BY <3>1, <3>2, <3>3 DEF PairsKept
  <2> QED BY <2>2, <2>3, <2>4, <2>5
<1>7. PairsKept'
  BY <1>2, <1>6 DEF PairsKept, Index
<1> QED BY <1>4, <1>7

\* The key goes behind the last of the sorted keys that it is not less than.
LEMMA InsertionSorts ==
    ASSUME Shape, NEW lo \in Nat, NEW i \in Nat, lo <= i, i <= N - 1,
           \A x, y \in lo .. i - 1 : x < y => a[x] <= a[y],
           NEW x \in lo .. i, NEW y \in lo .. i, x < y
    PROVE  Inserted(lo, i)[x] <= Inserted(lo, i)[y]
<1> DEFINE S == {w \in lo .. i : \A z \in w .. i - 1 : a[z] > a[i]}
           m == Min(S)
           f == Inserted(lo, i)
<1>1. /\ \A z \in lo .. i : z \in Index /\ a[z] \in Int
      /\ i \in lo .. i
  BY SortAssumption DEF Shape, Index
<1>2. m \in S /\ \A w \in S : m <= w
  <2>1. i \in S /\ S \in SUBSET Int /\ \A w \in S : lo <= w
    OBVIOUS
  <2> HIDE DEF S
  <2>3. S # {} /\ lo \in Int
    BY <2>1
  <2> QED BY <2>1, <2>3, MinIsLeast
<1>3. m \in lo .. i /\ \A z \in m .. i - 1 : a[z] > a[i]
  BY <1>2
<1>4. m # lo => a[m - 1] <= a[i]
  <2> SUFFICES ASSUME m # lo, a[m - 1] > a[i] PROVE FALSE
    BY <1>1, <1>3
  <2>1. m - 1 \in lo .. i /\ m \in Int
    BY <1>3
  <2>2. ASSUME NEW z \in m - 1 .. i - 1 PROVE a[z] > a[i]
    <3> HIDE DEF m
    <3>1. z = m - 1 \/ z \in m .. i - 1
      BY <2>1
    <3> QED BY <1>3, <3>1
  <2>3. m - 1 \in S
    BY <2>1, <2>2
  <2>4. m <= m - 1
    BY <1>2, <2>3
  <2> HIDE DEF m
  <2> QED BY <2>1, <2>4
<1>5. f = [w \in Index |-> IF w = m THEN a[i] ELSE IF w \in m + 1 .. i THEN a[w - 1] ELSE a[w]]
  BY DEF Inserted
<1> HIDE DEF m, f
<1>6. \A w \in lo .. i : /\ w < m => f[w] = a[w]
                         /\ w = m => f[w] = a[i]
                         /\ w > m => f[w] = a[w - 1]
  BY <1>1, <1>3, <1>5
<1>7. CASE y < m
  <2>1. x \in lo .. i - 1 /\ y \in lo .. i - 1 /\ x < m
    BY <1>3, <1>7
  <2> QED BY <1>6, <1>7, <2>1 DEF f
<1>8. CASE y = m
  <2>1. x < m /\ m # lo /\ x \in lo .. i - 1 /\ m - 1 \in lo .. i - 1 /\ x <= m - 1
    BY <1>3, <1>8
  <2>2. a[x] <= a[m - 1]
    BY <1>1, <2>1
  <2>3. a[x] <= a[i]
    BY <1>1, <1>4, <2>1, <2>2
  <2> QED BY <1>6, <1>8, <2>1, <2>3 DEF f
<1>9. CASE y > m /\ x < m
  <2>1. x \in lo .. i - 1 /\ y - 1 \in lo .. i - 1 /\ x < y - 1
    BY <1>3, <1>9
  <2> QED BY <1>6, <1>9, <2>1 DEF f
<1>10. CASE y > m /\ x = m
  <2>1. y - 1 \in m .. i - 1 /\ y - 1 \in lo .. i
    BY <1>3, <1>10
  <2>2. a[i] <= a[y - 1]
    BY <1>1, <1>3, <2>1
  <2> QED BY <1>6, <1>10, <2>2 DEF f
<1>11. CASE y > m /\ x > m
  <2>1. x - 1 \in lo .. i - 1 /\ y - 1 \in lo .. i - 1 /\ x - 1 < y - 1
    BY <1>3, <1>11
  <2> QED BY <1>6, <1>11, <2>1 DEF f
<1> QED BY <1>3, <1>7, <1>8, <1>9, <1>10, <1>11

\* Entering a range, inserting a key and swapping a pair keep the order.
LEMMA WorkInOrder ==
    ASSUME IInv, Elsewhere, PairsKept, NEW c \in DOMAIN calls,
           Enter(c) \/ InsertKey(c) \/ InsertionEnds(c) \/ SwapPair(c)
    PROVE  Elsewhere' /\ PairsKept'
<1> DEFINE q == calls[c]
<1> SUFFICES \A x, y \in q.lo .. q.hi : x < y => a'[x] <= a'[y] \/ Todo(c, x, y)'
  BY WorkIsLocal, WorkKeepsOrder
<1> SUFFICES ASSUME NEW x \in q.lo .. q.hi, NEW y \in q.lo .. q.hi, x < y
             PROVE  a'[x] <= a'[y] \/ Todo(c, x, y)'
  OBVIOUS
<1>1. /\ Shape /\ Progress(q) /\ IsCall(q) /\ c \in DOMAIN calls
      /\ calls = [d \in DOMAIN calls |-> calls[d]]
  BY DEF IInv, Shape
<1>2. /\ q.lo \in Nat /\ q.hi \in Nat /\ q.hi <= N - 1 /\ x \in Int /\ y \in Int
      /\ q.lo < q.hi
  BY <1>1, Elements
<1>3. ASSUME NEW r, Set(c, r) PROVE calls'[c] = r
  BY <1>1, <1>3 DEF Set
<1>4. /\ calls'[c].lo = q.lo /\ calls'[c].hi = q.hi
  BY WorkIsLocal DEF Local
<1>5. ASSUME calls'[c].at \in {"enter", "scan"} PROVE Todo(c, x, y)'
  BY <1>4, <1>5 DEF Todo
<1>6. ASSUME calls'[c].at = "insert", calls'[c].i <= y, calls'[c].i \in Int PROVE Todo(c, x, y)'
  <2>1. y \in calls'[c].i .. q.hi
    BY <1>2, <1>6
  <2> QED BY <1>4, <1>6, <2>1 DEF Todo
<1>7. CASE Enter(c)
  <2> DEFINE p == PivotIndex(q.lo, q.hi)
  <2>1. CASE Size(q) <= InsertionCutoff
    <3> DEFINE r == Inserting(q, q.lo + 1)
    <3>1. Set(c, r)
      BY <1>2, <1>7, <2>1 DEF Enter, Inserting
    <3>2. r.at = "insert" /\ r.i = q.lo + 1
      BY <1>1, InsertFields
    <3> HIDE DEF r
    <3>3. calls'[c].at = "insert" /\ calls'[c].i = q.lo + 1
      BY <1>3, <3>1, <3>2
    <3> HIDE DEF q
    <3>4. q.lo + 1 <= y /\ q.lo + 1 \in Int
      BY <1>2 DEF q
    <3> QED BY <1>6, <3>3, <3>4
  <2>2. CASE Size(q) > InsertionCutoff
    <3> DEFINE r == Scanning(q, a[p], q.lo - 1, q.hi + 1)
    <3>1. Set(c, r)
      BY <1>2, <1>7, <2>2, SortAssumption DEF Enter, Size, Scanning
    <3>2. r.at = "scan"
      BY <1>1, ScanFields
    <3> HIDE DEF r
    <3> QED BY <1>3, <1>5, <3>1, <3>2
  <2> QED BY <1>2, <2>1, <2>2, SortAssumption DEF Size
<1>8. CASE InsertKey(c)
  <2> DEFINE r == [q EXCEPT !.i = q.i + 1]
  <2>1. /\ q.at = "insert" /\ q.i <= q.hi
        /\ Set(c, r) /\ a' = Inserted(q.lo, q.i)
    BY <1>8 DEF InsertKey
  <2>2. q.i \in q.lo + 1 .. q.hi + 1
    BY <1>1, <2>1 DEF Progress
  <2>3. r.at = "insert" /\ r.i = q.i + 1
    BY <1>1, <2>1 DEF IsCall
  <2> HIDE DEF r
  <2>4. calls'[c].at = "insert" /\ calls'[c].i = q.i + 1
    BY <1>3, <2>1, <2>3
  <2>5. CASE y > q.i
    <3>1. q.i + 1 <= y /\ q.i + 1 \in Int
      BY <1>2, <2>2, <2>5
    <3> QED BY <1>6, <2>4, <3>1
  <2>6. CASE y <= q.i
    <3>1. /\ q.i \in Nat /\ q.lo <= q.i /\ q.i <= N - 1
          /\ x \in q.lo .. q.i /\ y \in q.lo .. q.i
      <4> HIDE DEF q
      <4>1. q.lo \in Nat /\ q.hi \in Nat /\ q.hi <= N - 1 /\ x \in q.lo .. q.hi /\ y \in q.lo .. q.hi
            /\ N \in Nat
        BY <1>2, SortAssumption DEF q
      <4> QED BY <2>1, <2>2, <2>6, <4>1
    <3>2. \A u, v \in q.lo .. q.i - 1 : u < v => a[u] <= a[v]
      BY <2>1, SortedSoFar
    <3> HIDE DEF q
    <3>3. Inserted(q.lo, q.i)[x] <= Inserted(q.lo, q.i)[y]
      BY <1>1, <1>2, <3>1, <3>2, InsertionSorts
    <3> QED BY <2>1, <3>3
  <2> QED BY <1>2, <2>2, <2>5, <2>6
<1>9. CASE InsertionEnds(c)
  <2>1. q.at = "insert" /\ q.i > q.hi /\ a' = a
    BY <1>9 DEF InsertionEnds
  <2>2. q.i \in q.lo + 1 .. q.hi + 1
    BY <1>1, <2>1 DEF Progress
  <2>3. x \in q.lo .. q.i - 1 /\ y \in q.lo .. q.i - 1
    BY <1>2, <2>1, <2>2
  <2> QED BY <2>1, <2>3, SortedSoFar
<1>10. CASE SwapPair(c)
  <2> DEFINE r == NextPair(q, ScanUp(q), ScanDown(q))
  <2>1. q.at = "scan" /\ Set(c, r)
    BY <1>10 DEF SwapPair, NextPair
  <2>2. r.at = "scan"
    BY <1>1, <2>1, PairFields
  <2> HIDE DEF r
  <2> QED BY <1>3, <1>5, <2>1, <2>2
<1> QED BY <1>7, <1>8, <1>9, <1>10

\* The halves of two calls are four.
LEMMA HalvesDiffer ==
    ASSUME NEW c \in Paths, NEW d \in Paths, Right(d) \in {Left(c), Right(c)}
    PROVE  d = c
<1>1. /\ Right(d) \in Paths /\ Len(Right(d)) = Len(d) + 1
      /\ Right(d)[Len(d) + 1] = 1 /\ \A k \in 1 .. Len(d) : Right(d)[k] = d[k]
  BY HalfPath DEF Right
<1>2. /\ Len(Right(c)) = Len(c) + 1 /\ \A k \in 1 .. Len(c) : Right(c)[k] = c[k]
  BY HalfPath DEF Right
<1>3. Len(Left(c)) = Len(c) + 1 /\ Left(c)[Len(c) + 1] = 0
  BY HalfPath DEF Left
<1>4. Len(c) \in Nat /\ Len(d) \in Nat
  BY DEF Paths
<1>5. Right(d) = Right(c)
  BY <1>1, <1>3, <1>4
<1>6. Len(c) = Len(d) /\ \A k \in 1 .. Len(c) : c[k] = d[k]
  BY <1>1, <1>2, <1>4, <1>5
<1> QED BY <1>6, SamePath

\* A step on the tree keeps the order if the halves it drops are done, what the
\* call had yet to sort is in order or someone's, and no half it starts is the
\* postponed one.
LEMMA RegrowingKeepsOrder ==
    ASSUME IInv, Elsewhere, PairsKept, NEW c \in DOMAIN calls, NEW K, Regrows(c, K),
           \A d \in Halves(c) : calls[d].at = "done",
           \A x, y \in Index :
               x < y /\ Todo(c, x, y) => a[x] <= a[y] \/ \E d \in {c} \union K : Todo(d, x, y)',
           \A d \in K : Postponed(c)' =>
               calls'[d].hi < RestFrom(calls[c])' \/ RestTo(calls[c])' < calls'[d].lo
    PROVE  Elsewhere' /\ PairsKept'
<1> DEFINE D == DOMAIN calls
           H == {Left(c), Right(c)}
<1>1. /\ D \subseteq Paths /\ c \in Paths /\ K \subseteq H /\ c \notin H
      /\ \A d \in D : IsCall(calls[d])
      /\ DOMAIN calls' = (D \ H) \union K
      /\ \A d \in D : d \notin H /\ d # c => calls'[d] = calls[d]
      /\ a' = a /\ program' = program
  BY TwoHalves DEF IInv, Shape, Regrows
<1> HIDE DEF D, H
<1>2. ASSUME NEW d \in D, d \notin H, d # c
      PROVE  /\ calls'[d] = calls[d] /\ Postponed(d)' = Postponed(d)
             /\ RestFrom(calls[d])' = RestFrom(calls[d]) /\ RestTo(calls[d])' = RestTo(calls[d])
  <2>1. calls'[d] = calls[d]
    BY <1>1, <1>2
  <2>2. Right(d) \notin H
    BY <1>1, <1>2, HalvesDiffer DEF H
  <2>3. Right(d) \in DOMAIN calls' <=> Right(d) \in DOMAIN calls
    BY <1>1, <2>2 DEF D
  <2>4. RestFrom(calls[d])' = RestFrom(calls[d]) /\ RestTo(calls[d])' = RestTo(calls[d])
    BY <1>1, <2>1 DEF RestFrom, RestTo, LowerFirst, LeftIsSmaller
  <2> QED BY <2>1, <2>3, <2>4 DEF Postponed
<1>3. ASSUME NEW d \in D, d \notin H, d # c, NEW x, NEW y, Todo(d, x, y)
      PROVE  d \in DOMAIN calls' /\ Todo(d, x, y)'
  BY <1>1, <1>2, <1>3 DEF Todo
<1>4. ASSUME NEW d \in D, d \in H, NEW x, NEW y PROVE ~Todo(d, x, y)
  <2>1. calls[d].at = "done"
    BY <1>4 DEF Halves, D, H
  <2> QED BY <2>1 DEF Todo, Postponed
<1>5. c \in DOMAIN calls' /\ K \subseteq DOMAIN calls'
  BY <1>1 DEF D
<1>6. PairsKept'
  <2> SUFFICES ASSUME NEW x \in Index, NEW y \in Index, x < y
               PROVE  a'[x] <= a'[y] \/ \E d \in DOMAIN calls' : Todo(d, x, y)'
    BY DEF PairsKept, Index
  <2>1. CASE a[x] <= a[y]
    BY <1>1, <2>1
  <2>2. CASE Todo(c, x, y)
    BY <1>1, <1>5, <2>2
  <2>3. ASSUME NEW d \in D, d # c, Todo(d, x, y)
        PROVE  \E e \in DOMAIN calls' : Todo(e, x, y)'
    BY <1>3, <1>4, <2>3
  <2> QED BY <2>1, <2>2, <2>3 DEF PairsKept, D
<1>7. ASSUME NEW d \in K
      PROVE  /\ calls'[d].lo >= calls[c].lo /\ calls'[d].hi <= calls[c].hi
             /\ calls'[d].lo \in Nat /\ calls'[d].hi \in Nat
             /\ calls[c].lo \in Nat /\ calls[c].hi \in Nat
  <2>1. /\ IsCall(calls'[c]) /\ IsCall(calls'[d]) /\ InHalf(calls'[c], calls'[d])
        /\ calls'[c].lo >= calls[c].lo /\ calls'[c].hi <= calls[c].hi
        /\ calls'[c].i \in calls'[c].lo .. calls'[c].hi - 1
        /\ IsCall(calls[c])
    BY <1>1 DEF Regrows, Progress, D
  <2> QED BY <2>1 DEF InHalf, IsCall
<1>8. Elsewhere'
  <2> SUFFICES ASSUME NEW e \in DOMAIN calls', NEW d \in DOMAIN calls', Postponed(e)', Above(e, d)
               PROVE  calls'[d].hi < RestFrom(calls[e])' \/ RestTo(calls[e])' < calls'[d].lo
    BY DEF Elsewhere
  <2>1. e \in Paths
    BY <1>1, TwoHalves DEF H
  <2>2. CASE d \in K /\ e = c
    BY <2>2
  <2>3. ASSUME e \in D, e \notin H, e # c
        PROVE  /\ Postponed(e) /\ RestFrom(calls[e]) \in Int /\ RestTo(calls[e]) \in Int
               /\ RestFrom(calls[e])' = RestFrom(calls[e]) /\ RestTo(calls[e])' = RestTo(calls[e])
    <3>1. Postponed(e) /\ calls[e].at = "calls"
      BY <1>2, <2>3 DEF Postponed
    <3>2. /\ calls[e].lo \in Nat /\ calls[e].hi \in Nat
          /\ calls[e].i \in calls[e].lo .. calls[e].hi - 1
      BY <2>3, <3>1, CallSplit DEF D
    <3> QED BY <1>2, <2>3, <3>1, <3>2, RestRange
  <2>4. CASE d \in K /\ Above(e, c) /\ e \in D /\ e \notin H /\ e # c
    <3>1. calls[c].hi < RestFrom(calls[e]) \/ RestTo(calls[e]) < calls[c].lo
      BY <2>3, <2>4 DEF Elsewhere, D
    <3> QED BY <1>7, <2>3, <2>4, <3>1
  <2>5. CASE d \in D /\ d \notin H /\ e \in D /\ e \notin H /\ e # c
    <3>1. calls[d].hi < RestFrom(calls[e]) \/ RestTo(calls[e]) < calls[d].lo
      BY <2>3, <2>5 DEF Elsewhere, D
    <3>2. /\ calls'[d].lo >= calls[d].lo /\ calls'[d].hi <= calls[d].hi
          /\ calls[d].lo \in Nat /\ calls[d].hi \in Nat
          /\ calls'[d].lo \in Nat /\ calls'[d].hi \in Nat
      <4>1. CASE d = c
        BY <1>1, <4>1 DEF Regrows, IsCall, D
      <4>2. CASE d # c
        BY <1>1, <2>5, <4>2 DEF IsCall, D
      <4> QED BY <4>1, <4>2
    <3> QED BY <2>3, <2>5, <3>1, <3>2
  <2> QED BY <2>1, <2>2, <2>4, <2>5, AboveRegrown DEF D, H
<1> QED BY <1>6, <1>8

\* The loop takes up the half that it postponed.
LEMMA LoopOnInOrder ==
    ASSUME IInv, Elsewhere, PairsKept, NEW c \in DOMAIN calls, LoopOn(c)
    PROVE  Elsewhere' /\ PairsKept'
<1> DEFINE q == calls[c]
           r == Second(q, q.i)
<1>1. /\ Finished(c) /\ program = "sequential"
      /\ calls' = [Without(Halves(c)) EXCEPT ![c] = r]
      /\ c \notin Halves(c)
  BY TwoHalves DEF LoopOn, IInv, Shape, Halves
<1>2. r.at = "enter" /\ r.lo = RestFrom(q) /\ r.hi = RestTo(q)
  <2>1. CASE LeftIsSmaller(q, q.i)
    <3>1. r = Call(q.i + 1, q.hi, DepthLeft(q))
      BY <2>1 DEF Second, Upper
    <3> HIDE DEF r
    <3>2. r.at = "enter" /\ r.lo = q.i + 1 /\ r.hi = q.hi
      BY <3>1 DEF Call
    <3> QED BY <2>1, <3>2 DEF RestFrom, RestTo, LowerFirst
  <2>2. CASE ~LeftIsSmaller(q, q.i)
    <3>1. r = Call(q.lo, q.i, DepthLeft(q))
      BY <1>1, <2>2 DEF Second, Lower
    <3> HIDE DEF r
    <3>2. r.at = "enter" /\ r.lo = q.lo /\ r.hi = q.i
      BY <3>1 DEF Call
    <3> QED BY <1>1, <2>2, <3>2 DEF RestFrom, RestTo, LowerFirst
  <2> QED BY <2>1, <2>2
<1> HIDE DEF r
<1>3. calls'[c] = r
  BY <1>1 DEF Without
<1>4. ASSUME NEW x, NEW y, Todo(c, x, y) PROVE Todo(c, x, y)'
  <2>1. q.at = "calls"
    BY <1>1 DEF Finished
  <2>2. x \in r.lo .. r.hi /\ y \in r.lo .. r.hi
    BY <1>2, <1>4, <2>1 DEF Todo
  <2> QED BY <1>2, <1>3, <2>2 DEF Todo
<1>5. Regrows(c, {})
  BY LoopOnRegrows
<1>6. \A d \in Halves(c) : calls[d].at = "done"
  BY <1>1 DEF Finished
<1> QED BY <1>4, <1>5, <1>6, RegrowingKeepsOrder

\* A call joins when it has nothing left to start.
LEMMA JoinInOrder ==
    ASSUME IInv, Elsewhere, PairsKept, NEW c \in DOMAIN calls, Join(c)
    PROVE  Elsewhere' /\ PairsKept'
<1>1. ASSUME NEW x, NEW y PROVE ~Todo(c, x, y)
  BY DEF Join, Finished, Todo, Postponed
<1>2. Regrows(c, {})
  BY JoinRegrows
<1>3. \A d \in Halves(c) : calls[d].at = "done"
  BY DEF Join, Finished
<1> QED BY <1>1, <1>2, <1>3, RegrowingKeepsOrder

\* The second plain call takes up the half that was postponed.
LEMMA CallRightInOrder ==
    ASSUME IInv, Elsewhere, PairsKept, NEW c \in DOMAIN calls, CallRight(c)
    PROVE  Elsewhere' /\ PairsKept'
<1> DEFINE q == calls[c]
           r == Upper(q, q.i)
<1>1. /\ Finished(c) /\ program # "sequential" /\ q.at = "calls"
      /\ calls' = [d \in (DOMAIN calls \ {Left(c)}) \union {Right(c)} |->
                     IF d = Right(c) THEN r ELSE calls[d]]
  BY DEF CallRight, Finished
<1>2. RestFrom(q) = q.i + 1 /\ RestTo(q) = q.hi
  BY <1>1 DEF RestFrom, RestTo, LowerFirst
<1>3. r.at = "enter" /\ r.lo = q.i + 1 /\ r.hi = q.hi
  <2>1. r = Call(q.i + 1, q.hi, DepthLeft(q))
    BY DEF Upper
  <2> HIDE DEF r
  <2> QED BY <2>1 DEF Call
<1> HIDE DEF r
<1>4. calls'[Right(c)] = r /\ Right(c) \in DOMAIN calls'
  BY <1>1
<1>5. ASSUME NEW x, NEW y, Todo(c, x, y) PROVE Todo(Right(c), x, y)'
  <2>1. x \in r.lo .. r.hi /\ y \in r.lo .. r.hi
    BY <1>1, <1>2, <1>3, <1>5 DEF Todo
  <2> QED BY <1>3, <1>4, <2>1 DEF Todo
<1>6. ~Postponed(c)'
  BY <1>4 DEF Postponed
<1>7. Regrows(c, {Right(c)})
  BY CallRightRegrows
<1>8. \A d \in Halves(c) : calls[d].at = "done"
  BY <1>1 DEF Finished
<1> QED BY <1>5, <1>6, <1>7, <1>8, RegrowingKeepsOrder

\* A partition leaves in order what it parts, and each half to a call or to itself.
LEMMA SplitInOrder ==
    ASSUME IInv, Elsewhere, PairsKept, NEW c \in DOMAIN calls, Split(c)
    PROVE  Elsewhere' /\ PairsKept'
<1> DEFINE q == calls[c]
           p == LastLower(q)
           K == Started(c)
           s == Calling(q, p, MayFork(q))
           f == First(q, p)
           u == Upper(q, p)
           l == Lower(q, p)
<1>1. /\ q.at = "scan" /\ q.pivot \in Int /\ a' = a /\ program' = program
      /\ p \in q.lo .. q.hi - 1
      /\ \A x \in q.lo .. p : a[x] <= q.pivot
      /\ \A x \in p + 1 .. q.hi : a[x] >= q.pivot
  BY SplitFinds
<1>2. /\ s.lo = q.lo /\ s.hi = q.hi /\ s.at = "calls" /\ s.i = p /\ s.forked = MayFork(q)
      /\ u.at = "enter" /\ u.lo = p + 1 /\ u.hi = q.hi
      /\ l.at = "enter" /\ l.lo = q.lo /\ l.hi = p
  BY SplitFinds
<1>3. /\ Left(c) \notin DOMAIN calls /\ Right(c) \notin DOMAIN calls
      /\ DOMAIN calls' = (DOMAIN calls \ {Left(c), Right(c)}) \union K
      /\ calls'[c] = s /\ calls'[Left(c)] = f
      /\ Right(c) \in K => calls'[Right(c)] = u
  BY SplitFinds
<1>4. /\ q.lo \in Nat /\ q.hi \in Nat
      /\ \A x \in q.lo .. q.hi : a[x] \in Int
  BY Elements DEF IInv
<1>5. LeftIsSmaller(s, p) <=> LeftIsSmaller(q, p)
  <2> HIDE DEF s
  <2> QED BY <1>2 DEF LeftIsSmaller
<1>6. LowerFirst(s) => f = l
  BY <1>2, <1>5 DEF First, LowerFirst
<1>7. ~LowerFirst(s) => f = u /\ ~MayFork(q)
  BY <1>2, <1>5 DEF First, LowerFirst, MayFork
<1>8. Left(c) \in K /\ (MayFork(q) => Right(c) \in K) /\ (~MayFork(q) => K = {Left(c)})
  BY DEF Started
<1>9. Left(c) # Right(c)
  BY TwoHalves DEF IInv, Shape
<1>10. RestFrom(calls[c])' = RestFrom(s) /\ RestTo(calls[c])' = RestTo(s)
  BY <1>1, <1>3 DEF RestFrom, RestTo, LowerFirst, LeftIsSmaller
<1>11. Postponed(c)' <=> ~MayFork(q)
  <2> HIDE DEF s, K
  <2> QED BY <1>2, <1>3, <1>8, <1>9 DEF Postponed
<1> HIDE DEF s, f, u, l, K
<1>12. /\ LowerFirst(s) => RestFrom(s) = p + 1 /\ RestTo(s) = q.hi
       /\ ~LowerFirst(s) => RestFrom(s) = q.lo /\ RestTo(s) = p
  BY <1>2 DEF RestFrom, RestTo
<1> HIDE DEF q, p
<1>13. ASSUME NEW x, NEW y, x \in q.lo .. p, y \in q.lo .. p
       PROVE  \E d \in {c} \union K : Todo(d, x, y)'
  <2>1. CASE LowerFirst(s)
    <3>1. Todo(Left(c), x, y)'
      BY <1>2, <1>3, <1>6, <1>13, <2>1 DEF Todo
    <3> QED BY <1>8, <3>1
  <2>2. CASE ~LowerFirst(s)
    <3>1. Todo(c, x, y)'
      BY <1>7, <1>10, <1>11, <1>12, <1>13, <2>2 DEF Todo
    <3> QED BY <3>1
  <2> QED BY <2>1, <2>2
<1>14. ASSUME NEW x, NEW y, x \in p + 1 .. q.hi, y \in p + 1 .. q.hi
       PROVE  \E d \in {c} \union K : Todo(d, x, y)'
  <2>1. CASE ~LowerFirst(s)
    <3>1. Todo(Left(c), x, y)'
      BY <1>2, <1>3, <1>7, <1>14, <2>1 DEF Todo
    <3> QED BY <1>8, <3>1
  <2>2. CASE LowerFirst(s) /\ ~MayFork(q)
    <3>1. Todo(c, x, y)'
      BY <1>10, <1>11, <1>12, <1>14, <2>2 DEF Todo
    <3> QED BY <3>1
  <2>3. CASE MayFork(q)
    <3>1. Todo(Right(c), x, y)'
      BY <1>2, <1>3, <1>8, <1>14, <2>3 DEF Todo
    <3> QED BY <1>8, <2>3, <3>1
  <2> QED BY <2>1, <2>2, <2>3
<1>15. ASSUME NEW x \in Index, NEW y \in Index, x < y, Todo(c, x, y)
       PROVE  a[x] <= a[y] \/ \E d \in {c} \union K : Todo(d, x, y)'
  <2>1. x \in q.lo .. q.hi /\ y \in q.lo .. q.hi
    BY <1>1, <1>15, TodoInRange DEF q
  <2>2. CASE y <= p
    <3>1. x \in q.lo .. p /\ y \in q.lo .. p
      BY <1>1, <1>4, <1>15, <2>1, <2>2
    <3> QED BY <1>13, <3>1
  <2>3. CASE x > p
    <3>1. x \in p + 1 .. q.hi /\ y \in p + 1 .. q.hi
      BY <1>1, <1>4, <1>15, <2>1, <2>3
    <3> QED BY <1>14, <3>1
  <2>4. CASE x <= p /\ p < y
    <3>1. x \in q.lo .. p /\ y \in p + 1 .. q.hi
      BY <1>1, <1>4, <2>1, <2>4
    <3>2. a[x] \in Int /\ a[y] \in Int /\ a[x] <= q.pivot /\ a[y] >= q.pivot
      BY <1>1, <1>4, <2>1, <3>1
    <3> QED BY <1>1, <3>2
  <2> QED BY <1>1, <1>4, <2>1, <2>2, <2>3, <2>4
<1>16. ASSUME NEW d \in K, Postponed(c)'
       PROVE  calls'[d].hi < RestFrom(calls[c])' \/ RestTo(calls[c])' < calls'[d].lo
  <2>1. d = Left(c) /\ calls'[d] = f
    BY <1>3, <1>8, <1>11, <1>16
  <2>2. CASE LowerFirst(s)
    <3>1. calls'[d].hi = p /\ RestFrom(calls[c])' = p + 1
      BY <1>2, <1>6, <1>10, <1>12, <2>1, <2>2
    <3> QED BY <1>1, <1>4, <3>1
  <2>3. CASE ~LowerFirst(s)
    <3>1. calls'[d].lo = p + 1 /\ RestTo(calls[c])' = p
      BY <1>2, <1>7, <1>10, <1>12, <2>1, <2>3
    <3> QED BY <1>1, <1>4, <3>1
  <2> QED BY <2>2, <2>3
<1>17. Regrows(c, K)
  BY SplitRegrows DEF K
<1>18. Halves(c) = {}
  BY <1>3 DEF Halves
<1> QED BY <1>15, <1>16, <1>17, <1>18, RegrowingKeepsOrder

-----------------------------------------------------------------------------
(* The elements                                                            *)

\* The array holds what the input held.
SameValues == \A v \in Values : Occurrences(a, v) = Occurrences(input, v)

\* An array that holds another one's elements elsewhere holds each value as often.
LEMMA PermutedKeeps ==
    ASSUME NEW f, NEW g, NEW from, NEW to, NEW v,
           \A x \in Index : from[x] \in Index /\ g[x] = f[from[x]] /\ to[from[x]] = x,
           \A x \in Index : to[x] \in Index /\ from[to[x]] = x
    PROVE  Occurrences(g, v) = Occurrences(f, v)
<1> DEFINE S == {x \in Index : g[x] = v}
           T == {x \in Index : f[x] = v}
           h == [x \in S |-> from[x]]
<1>1. IsFiniteSet(S)
  <2>1. IsFiniteSet(Index)
    <3>1. 0 \in Int /\ N - 1 \in Int
      BY SortAssumption
    <3> QED BY <3>1, FS_Interval DEF Index
  <2> QED BY <2>1, FS_Subset
<1>2. \A x \in S : h[x] \in T
  OBVIOUS
<1>3. \A x, y \in S : h[x] = h[y] => x = y
  <2> SUFFICES ASSUME NEW x \in S, NEW y \in S, h[x] = h[y] PROVE x = y
    OBVIOUS
  <2>1. from[x] = from[y] /\ to[from[x]] = x /\ to[from[y]] = y
    OBVIOUS
  <2> QED BY <2>1
<1>4. \A y \in T : \E x \in S : h[x] = y
  <2> SUFFICES ASSUME NEW y \in T PROVE \E x \in S : h[x] = y
    OBVIOUS
  <2>1. to[y] \in Index /\ from[to[y]] = y /\ g[to[y]] = f[y]
    OBVIOUS
  <2>2. to[y] \in S
    BY <2>1
  <2> QED BY <2>1, <2>2
<1>5. h \in [S -> T]
  BY <1>2
<1> HIDE DEF h, S, T
<1>6. h \in Bijection(S, T)
  BY <1>3, <1>4, <1>5 DEF Bijection, Injection, Surjection, IsInjective
<1>7. Cardinality(T) = Cardinality(S)
  BY <1>1, <1>6, FS_Bijection DEF ExistsBijection
<1> QED BY <1>7 DEF Occurrences, S, T

\* A swap permutes the array.
LEMMA SwapPermutes ==
    ASSUME a \in [Index -> Values], NEW x \in Index, NEW y \in Index, NEW v
    PROVE  Occurrences(Swap(a, x, y), v) = Occurrences(a, v)
<1> DEFINE g == Swap(a, x, y)
           from == [z \in Index |-> IF z = y THEN x ELSE IF z = x THEN y ELSE z]
<1>1. \A z \in Index : g[z] = IF z = y THEN a[x] ELSE IF z = x THEN a[y] ELSE a[z]
  BY DEF Swap
<1>2. \A z \in Index : from[z] \in Index /\ g[z] = a[from[z]] /\ from[from[z]] = z
  BY <1>1
<1> HIDE DEF g, from
<1>3. Occurrences(g, v) = Occurrences(a, v)
  BY <1>2, PermutedKeeps
<1> QED BY <1>3 DEF g

\* So does an insertion, which turns the keys from the gap to the key by one.
LEMMA InsertionPermutes ==
    ASSUME a \in [Index -> Values], NEW lo \in Nat, NEW i \in Nat, lo <= i, i <= N - 1, NEW v
    PROVE  Occurrences(Inserted(lo, i), v) = Occurrences(a, v)
<1> DEFINE S == {w \in lo .. i : \A z \in w .. i - 1 : a[z] > a[i]}
           m == Min(S)
           g == Inserted(lo, i)
           from == [z \in Index |-> IF z = m THEN i ELSE IF z \in m + 1 .. i THEN z - 1 ELSE z]
           to == [z \in Index |-> IF z = i THEN m ELSE IF z \in m .. i - 1 THEN z + 1 ELSE z]
<1>1. m \in lo .. i
  <2>1. i \in S /\ S \in SUBSET Int /\ \A w \in S : lo <= w
    OBVIOUS
  <2>2. S \subseteq lo .. i
    OBVIOUS
  <2> HIDE DEF S
  <2>3. S # {} /\ lo \in Int
    BY <2>1
  <2> QED BY <2>1, <2>2, <2>3, MinIsLeast
<1>2. g = [z \in Index |-> IF z = m THEN a[i] ELSE IF z \in m + 1 .. i THEN a[z - 1] ELSE a[z]]
  BY DEF Inserted
<1> HIDE DEF m, g
<1>3. Index \subseteq Int /\ \A z \in lo .. i : z \in Index
  BY SortAssumption DEF Index
<1>4. ASSUME NEW z \in Index
      PROVE  from[z] \in Index /\ g[z] = a[from[z]] /\ to[from[z]] = z
  <2>1. CASE z = m
    BY <1>1, <1>2, <1>3, <2>1
  <2>2. CASE z \in m + 1 .. i
    <3>1. z # m /\ z - 1 \in m .. i - 1 /\ z - 1 \in Index /\ z - 1 # i /\ (z - 1) + 1 = z
      BY <1>1, <1>3, <2>2
    <3> QED BY <1>2, <2>2, <3>1
  <2>3. CASE z \notin m .. i
    <3>1. z # m /\ z # i /\ z \notin m + 1 .. i /\ z \notin m .. i - 1
      BY <1>1, <1>3, <2>3
    <3> QED BY <1>2, <3>1
  <2> QED BY <1>1, <1>3, <2>1, <2>2, <2>3
<1>5. ASSUME NEW z \in Index
      PROVE  to[z] \in Index /\ from[to[z]] = z
  <2>1. CASE z = i
    BY <1>1, <1>3, <2>1
  <2>2. CASE z \in m .. i - 1
    <3>1. z # i /\ z + 1 \in m + 1 .. i /\ z + 1 \in Index /\ z + 1 # m /\ (z + 1) - 1 = z
      BY <1>1, <1>3, <2>2
    <3> QED BY <2>2, <3>1
  <2>3. CASE z \notin m .. i
    <3>1. z # m /\ z # i /\ z \notin m + 1 .. i /\ z \notin m .. i - 1
      BY <1>1, <1>3, <2>3
    <3> QED BY <3>1
  <2> QED BY <1>1, <1>3, <2>1, <2>2, <2>3
<1> HIDE DEF from, to
<1>6. Occurrences(g, v) = Occurrences(a, v)
  BY <1>4, <1>5, PermutedKeeps
<1> QED BY <1>6 DEF g

\* Every step keeps the elements.
LEMMA StepKeepsValues ==
    ASSUME IInv, SameValues, NEW c \in DOMAIN calls, Step(c)
    PROVE  SameValues'
<1>1. input' = input
  BY DEF Step, Enter, InsertKey, InsertionEnds, SwapPair, Split, LoopOn, CallRight, Join
<1> DEFINE q == calls[c]
<1>2. /\ Shape /\ a \in [Index -> Values] /\ Progress(q)
      /\ q.lo \in Nat /\ q.hi \in Nat /\ q.hi <= N - 1 /\ N \in Nat
      /\ \A z \in q.lo .. q.hi : z \in Index
  BY Elements DEF IInv, Shape
<1>3. ASSUME \A v : Occurrences(a', v) = Occurrences(a, v) PROVE SameValues'
  BY <1>1, <1>3 DEF SameValues, Occurrences, Index
<1>4. CASE a' = a
  BY <1>3, <1>4
<1>5. CASE Enter(c) /\ a' # a
  <2> DEFINE p == PivotIndex(q.lo, q.hi)
  <2>1. q.lo < q.hi /\ a' = Swap(a, q.lo, p)
    BY <1>2, <1>5 DEF Enter
  <2>2. p \in Index /\ q.lo \in Index
    BY <1>2, <2>1, PivotInRange
  <2> HIDE DEF p, q
  <2> QED BY <1>2, <1>3, <2>1, <2>2, SwapPermutes
<1>6. CASE InsertKey(c)
  <2>1. q.at = "insert" /\ q.i <= q.hi /\ a' = Inserted(q.lo, q.i)
    BY <1>6 DEF InsertKey
  <2>2. q.i \in q.lo + 1 .. q.hi + 1
    BY <1>2, <2>1 DEF Progress
  <2> HIDE DEF q
  <2>3. q.i \in Nat /\ q.lo <= q.i /\ q.i <= N - 1
    BY <1>2, <2>1, <2>2
  <2> QED BY <1>2, <1>3, <2>1, <2>3, InsertionPermutes
<1>7. CASE SwapPair(c)
  <2>1. q.at = "scan" /\ a' = Swap(a, ScanUp(q), ScanDown(q))
    BY <1>7 DEF SwapPair
  <2>2. ScanUp(q) \in q.lo .. q.hi /\ ScanDown(q) \in q.lo .. q.hi
    BY <1>2, <2>1, ScansStop
  <2> HIDE DEF q
  <2>3. ScanUp(q) \in Index /\ ScanDown(q) \in Index
    BY <1>2, <2>2
  <2> QED BY <1>2, <1>3, <2>1, <2>3, SwapPermutes
<1>8. CASE InsertionEnds(c) \/ Split(c) \/ LoopOn(c) \/ CallRight(c) \/ Join(c)
  BY <1>4, <1>8 DEF InsertionEnds, Split, LoopOn, CallRight, Join
<1> QED BY <1>4, <1>5, <1>6, <1>7, <1>8 DEF Step

-----------------------------------------------------------------------------
(* The sort                                                                *)

SortInv == IInv /\ Elsewhere /\ PairsKept /\ SameValues

\* Before the sort all is left to the first call.
LEMMA InitSortInv == Init => SortInv
<1> SUFFICES ASSUME Init PROVE SortInv
  OBVIOUS
<1>1. IInv
  BY InitInv
<1>2. /\ DOMAIN calls = {Root} /\ a = input
      /\ calls[Root] = Call(0, N - 1, ForkDepth)
  BY DEF Init
<1>3. calls[Root].at = "enter" /\ calls[Root].lo = 0 /\ calls[Root].hi = N - 1
  BY <1>2 DEF Call
<1>4. PairsKept
  <2>1. \A x, y \in Index : Todo(Root, x, y)
    BY <1>3 DEF Todo, Index
  <2> QED BY <1>2, <2>1 DEF PairsKept
<1>5. Elsewhere
  BY <1>2, <1>3 DEF Elsewhere, Postponed
<1>6. SameValues
  BY <1>2 DEF SameValues
<1> QED BY <1>1, <1>4, <1>5, <1>6 DEF SortInv

\* Every step keeps what the sort rests on.
LEMMA StepSortInv == SortInv /\ [Next]_vars => SortInv'
<1> SUFFICES ASSUME SortInv, [Next]_vars PROVE SortInv'
  OBVIOUS
<1>1. IInv' /\ IInv /\ Elsewhere /\ PairsKept /\ SameValues
  BY StepInv DEF SortInv
<1>2. ASSUME NEW c \in DOMAIN calls, Step(c) PROVE Elsewhere' /\ PairsKept' /\ SameValues'
  <2>1. SameValues'
    BY <1>1, <1>2, StepKeepsValues
  <2>2. Elsewhere' /\ PairsKept'
    BY <1>1, <1>2, WorkInOrder, SplitInOrder, LoopOnInOrder, CallRightInOrder, JoinInOrder
       DEF Step
  <2> QED BY <2>1, <2>2
<1>3. ASSUME UNCHANGED vars PROVE Elsewhere' /\ PairsKept' /\ SameValues'
  <2>1. a' = a /\ calls' = calls /\ program' = program /\ input' = input
    BY <1>3 DEF vars
  <2>2. SameValues'
    BY <1>1, <2>1 DEF SameValues, Occurrences, Index
  <2>3. \A c : Postponed(c)' = Postponed(c)
    BY <2>1 DEF Postponed
  <2>4. \A q : RestFrom(q)' = RestFrom(q) /\ RestTo(q)' = RestTo(q)
    BY <2>1 DEF RestFrom, RestTo, LowerFirst, LeftIsSmaller
  <2>5. Elsewhere'
    BY <1>1, <2>1, <2>3, <2>4 DEF Elsewhere
  <2>6. PairsKept'
    BY <1>1, <2>1, <2>3, <2>4 DEF PairsKept, Todo, Index
  <2> QED BY <2>2, <2>5, <2>6
<1>4. (\E c \in DOMAIN calls : Step(c)) \/ UNCHANGED vars
  BY DEF Next
<1>5. Elsewhere' /\ PairsKept' /\ SameValues'
  BY <1>2, <1>3, <1>4
<1> QED BY <1>1, <1>5 DEF SortInv

(* When the first call returns nobody else works, the array is in order,   *)
(* and it holds what the input held: in each of the three programs, for    *)
(* every array, pivot rule, cutoff and number of threads.                  *)
THEOREM SortIsCorrect == Spec => []ReturnsSorted
<1>1. SortInv => ReturnsSorted
  <2> SUFFICES ASSUME SortInv, Sorted PROVE
          /\ DOMAIN calls = {Root}
          /\ \A x, y \in Index : x <= y => a[x] <= a[y]
          /\ \A v \in Values : Occurrences(a, v) = Occurrences(input, v)
    BY DEF ReturnsSorted
  <2>1. /\ IInv /\ PairsKept /\ SameValues /\ Shape /\ Waiting
        /\ calls[Root].at = "done" /\ Root \in DOMAIN calls /\ DOMAIN calls \subseteq Paths
    BY DEF SortInv, IInv, Shape, Sorted
  <2>2. ASSUME NEW d \in DOMAIN calls PROVE d = Root
    <3>1. Root \in Paths /\ Len(Root) = 0 /\ Len(d) \in Nat /\ d \in Seq({0, 1})
      BY <2>1 DEF Paths, Root
    <3>2. ~Above(Root, d)
      BY <2>1, <3>1 DEF Waiting
    <3>3. Len(d) = 0
      BY <3>1, <3>2 DEF Above
    <3> QED BY <3>1, <3>3, EmptySeq DEF Root
  <2>3. DOMAIN calls = {Root}
    BY <2>1, <2>2
  <2>4. ASSUME NEW x \in Index, NEW y \in Index, x <= y PROVE a[x] <= a[y]
    <3>1. x \in Int /\ y \in Int /\ a[x] \in Int /\ a[y] \in Int
      BY <2>1, SortAssumption DEF Shape, Index
    <3>2. CASE x = y
      BY <3>1, <3>2
    <3>3. CASE x < y
      <4>1. ~Todo(Root, x, y)
        BY <2>1 DEF Todo, Postponed
      <4> QED BY <2>1, <2>3, <3>3, <4>1 DEF PairsKept
    <3> QED BY <2>4, <3>1, <3>2, <3>3
  <2> QED BY <2>1, <2>3, <2>4 DEF SameValues
<1>2. Spec => []SortInv
  BY InitSortInv, StepSortInv, PTL DEF Spec
<1> QED BY <1>1, <1>2, PTL
-----------------------------------------------------------------------------
(* Threads                                                                 *)

\* The fork depth is a natural number: Threads threads or more fit under it.
LEMMA DepthIs == ForkDepth \in Nat
<1> DEFINE S == {d \in 0 .. Threads : 2 ^ d >= Threads}
<1>1. Threads \in Nat /\ 2 ^ Threads \in Nat /\ 2 ^ Threads > Threads
  BY SortAssumption, PowerGrows
<1>2. Threads \in S /\ S \in SUBSET Int /\ \A d \in S : 0 <= d /\ d \in Nat
  BY <1>1
<1> HIDE DEF S
<1>3. Min(S) \in S
  BY <1>2, MinIsLeast
<1> QED BY <1>2, <1>3 DEF ForkDepth, S

\* What a call counts for: the thread it has forked, or those that it and the
\* calls below it may still fork.
Weight(q) == IF q.at = "calls" THEN IF q.forked THEN 1 ELSE 0 ELSE 2 ^ q.depth - 1
Weights == [c \in DOMAIN calls |-> Weight(calls[c])]
Total == SumFunctionOnSet(Weights, DOMAIN calls)

\* A call that forked has both halves, one deeper; another has one of them.
Branching(c) ==
    LET q == calls[c] IN
    q.at = "calls" =>
        /\ q.forked = MayFork(q)
        /\ q.forked => Halves(c) = {Left(c), Right(c)}
        /\ ~q.forked => Halves(c) = {Left(c)} \/ Halves(c) = {Right(c)}
        /\ \A h \in Halves(c) : calls[h].depth = IF q.forked THEN q.depth - 1 ELSE q.depth

DepthsInRange ==
    /\ IsFiniteSet(DOMAIN calls)
    /\ \A c \in DOMAIN calls : calls[c].depth \in 0 .. ForkDepth

\* The threads forked and those that may still be add up to what the first call
\* was given.
ForksAddUp ==
    program = "threads" =>
        /\ Total = 2 ^ ForkDepth - 1
        /\ \A c \in DOMAIN calls : Branching(c)

\* The weight of a call is a natural number.
LEMMA WeightIs ==
    ASSUME NEW q, q.depth \in 0 .. ForkDepth
    PROVE  Weight(q) \in Nat
<1>1. q.depth \in Nat
  BY DepthIs
<1>2. 2 ^ q.depth \in Nat /\ 2 ^ q.depth > q.depth
  BY <1>1, PowerGrows
<1>3. 2 ^ q.depth - 1 \in Nat
  BY <1>1, <1>2
<1> QED BY <1>3 DEF Weight

\* A call at work keeps its weight, and the calls above it their halves.
LEMMA WorkKeepsForks ==
    ASSUME IInv, DepthsInRange, ForksAddUp, NEW c \in DOMAIN calls, Local(c)
    PROVE  DepthsInRange' /\ ForksAddUp'
<1>1. /\ DOMAIN calls' = DOMAIN calls /\ program' = program
      /\ \A d \in DOMAIN calls : d # c => calls'[d] = calls[d]
      /\ calls[c].at # "calls" /\ calls'[c].at # "calls"
      /\ calls'[c].lo = calls[c].lo /\ calls'[c].hi = calls[c].hi /\ calls'[c].depth = calls[c].depth
  BY DEF Local
<1>2. DepthsInRange'
  <2>1. ForkDepth' = ForkDepth
    BY DEF ForkDepth
  <2> QED BY <1>1, <2>1 DEF DepthsInRange
<1>3. ASSUME NEW d \in DOMAIN calls PROVE Weights'[d] = Weights[d]
  <2>1. Weights'[d] = Weight(calls'[d]) /\ Weights[d] = Weight(calls[d])
    BY <1>1 DEF Weights
  <2> QED BY <1>1, <2>1 DEF Weight
<1>4. Total' = Total
  BY <1>1, <1>3, SumOfEqual DEF Total, DepthsInRange
<1>5. ASSUME NEW d \in DOMAIN calls, Branching(d) PROVE Branching(d)'
  <2> SUFFICES ASSUME calls'[d].at = "calls"
               PROVE  Branching(d)'
    BY DEF Branching
  <2>1. d # c /\ calls'[d] = calls[d]
    BY <1>1
  <2>2. Halves(d)' = Halves(d) /\ Halves(d) \subseteq DOMAIN calls
    BY <1>1 DEF Halves
  <2>3. MayFork(calls[d])' = MayFork(calls[d])
    BY <1>1, <2>1 DEF MayFork, Size
  <2>4. \A h \in DOMAIN calls : calls'[h].depth = calls[h].depth
    BY <1>1
  <2> QED BY <1>5, <2>1, <2>2, <2>3, <2>4 DEF Branching
<1> QED BY <1>1, <1>2, <1>4, <1>5 DEF ForksAddUp, ForkDepth

\* What x adds to the sum of f over S
Adds(f, S, x) == IF x \in S THEN f[x] ELSE 0

\* A sum with three members taken out
LEMMA SumInParts ==
    ASSUME NEW S, IsFiniteSet(S), NEW f, \A x \in S : f[x] \in Int,
           NEW u, NEW v, NEW w, u # v, u # w, v # w
    PROVE  /\ Adds(f, S, u) \in Int /\ Adds(f, S, v) \in Int /\ Adds(f, S, w) \in Int
           /\ SumFunctionOnSet(f, S \ {u, v, w}) \in Int
           /\ SumFunctionOnSet(f, S) = SumFunctionOnSet(f, S \ {u, v, w})
                                       + (Adds(f, S, u) + Adds(f, S, v) + Adds(f, S, w))
<1>1. ASSUME NEW T \in SUBSET S, NEW x
      PROVE  /\ IsFiniteSet(T) /\ Adds(f, T, x) \in Int
             /\ SumFunctionOnSet(f, T) \in Int
             /\ SumFunctionOnSet(f, T) = Adds(f, T, x) + SumFunctionOnSet(f, T \ {x})
  <2>1. IsFiniteSet(T) /\ \A y \in T : f[y] \in Int
    BY FS_Subset
  <2>2. SumFunctionOnSet(f, T) \in Int
    BY <2>1, SumIsInt
  <2>3. CASE x \in T
    BY <2>1, <2>2, <2>3, SumWithout DEF Adds
  <2>4. CASE x \notin T
    <3>1. T \ {x} = T
      BY <2>4
    <3>2. Adds(f, T, x) = 0
      BY <2>4 DEF Adds
    <3> DEFINE s == SumFunctionOnSet(f, T)
               t == SumFunctionOnSet(f, T \ {x})
    <3>3. s \in Int /\ t = s
      BY <2>2, <3>1
    <3> HIDE DEF s, t
    <3>4. s = 0 + t
      BY <3>3
    <3> QED BY <2>1, <3>2, <3>3, <3>4 DEF s, t
  <2> QED BY <2>3, <2>4
<1> DEFINE A == S \ {u}
           B == A \ {v}
           C == B \ {w}
<1>2. /\ SumFunctionOnSet(f, S) = Adds(f, S, u) + SumFunctionOnSet(f, A) /\ Adds(f, S, u) \in Int
      /\ SumFunctionOnSet(f, A) = Adds(f, A, v) + SumFunctionOnSet(f, B) /\ Adds(f, A, v) \in Int
      /\ SumFunctionOnSet(f, B) = Adds(f, B, w) + SumFunctionOnSet(f, C) /\ Adds(f, B, w) \in Int
      /\ SumFunctionOnSet(f, C) \in Int
  <2>1. S \in SUBSET S /\ A \in SUBSET S /\ B \in SUBSET S /\ C \in SUBSET S
    OBVIOUS
  <2> QED BY <1>1, <2>1
<1>3. Adds(f, A, v) = Adds(f, S, v) /\ Adds(f, B, w) = Adds(f, S, w)
  BY DEF Adds
<1>4. C = S \ {u, v, w}
  OBVIOUS
<1> HIDE DEF A, B, C
<1> QED BY <1>2, <1>3, <1>4

\* What a call and its halves count for
Here(c) == Adds(Weights, DOMAIN calls, c)
           + (Adds(Weights, DOMAIN calls, Left(c)) + Adds(Weights, DOMAIN calls, Right(c)))

\* The calls a step starts are as deep as they may be.
LEMMA RegrowingKeepsDepths ==
    ASSUME IInv, DepthsInRange, NEW c \in DOMAIN calls, NEW K, Regrows(c, K),
           calls'[c].depth \in 0 .. ForkDepth, \A d \in K : calls'[d].depth \in 0 .. ForkDepth
    PROVE  DepthsInRange'
<1> DEFINE H == {Left(c), Right(c)}
<1>1. /\ DOMAIN calls' = (DOMAIN calls \ H) \union K /\ K \subseteq H
      /\ \A d \in DOMAIN calls : d \notin {c, Left(c), Right(c)} => calls'[d] = calls[d]
  BY DEF Regrows
<1>2. IsFiniteSet(H)
  <2>1. IsFiniteSet({Left(c)})
    BY FS_Singleton
  <2>2. H = {Left(c)} \cup {Right(c)}
    OBVIOUS
  <2> QED BY <2>1, <2>2, FS_AddElement
<1> HIDE DEF H
<1>3. IsFiniteSet(DOMAIN calls \ H) /\ IsFiniteSet(K)
  BY <1>1, <1>2, FS_Subset DEF DepthsInRange
<1>4. IsFiniteSet(DOMAIN calls')
  BY <1>1, <1>3, FS_Union
<1>5. ASSUME NEW d \in DOMAIN calls' PROVE calls'[d].depth \in 0 .. ForkDepth
  <2>1. CASE d \in K \/ d = c
    BY <2>1
  <2>2. CASE d \notin K /\ d # c
    <3>1. d \in DOMAIN calls /\ calls'[d] = calls[d]
      BY <1>1, <2>2 DEF H
    <3> QED BY <3>1 DEF DepthsInRange
  <2> QED BY <2>1, <2>2
<1>6. ForkDepth' = ForkDepth
  BY DEF ForkDepth
<1> QED BY <1>4, <1>5, <1>6 DEF DepthsInRange

\* The total changes by what the call and its halves count for.
LEMMA RegrowingKeepsTotal ==
    ASSUME IInv, DepthsInRange, DepthsInRange', NEW c \in DOMAIN calls, NEW K, Regrows(c, K),
           Here(c)' = Here(c)
    PROVE  Total' = Total
<1> DEFINE D == DOMAIN calls
           E == DOMAIN calls'
           l == Left(c)
           r == Right(c)
           f == Weights
           g == Weights'
           R == D \ {c, l, r}
<1>1. c # l /\ c # r /\ l # r
  BY TwoHalves DEF IInv, Shape
<1>2. IsFiniteSet(D) /\ IsFiniteSet(E)
  BY DEF DepthsInRange
<1>3. (\A x \in D : f[x] = Weight(calls[x])) /\ \A x \in E : g[x] = Weight(calls'[x])
  BY DEF Weights
<1>4. (\A x \in D : f[x] \in Int) /\ \A x \in E : g[x] \in Int
  <2>1. \A x \in D : calls[x].depth \in 0 .. ForkDepth
    BY DEF DepthsInRange
  <2>2. \A x \in E : calls'[x].depth \in 0 .. ForkDepth
    BY DEF DepthsInRange, ForkDepth
  <2>3. \A x \in D : Weight(calls[x]) \in Nat
    BY <2>1, WeightIs
  <2>4. \A x \in E : Weight(calls'[x]) \in Nat
    BY <2>2, WeightIs
  <2> QED BY <1>3, <2>3, <2>4
<1>5. E \ {c, l, r} = R /\ \A x \in R : calls'[x] = calls[x]
  BY DEF Regrows
<1>6. Here(c) = Adds(f, D, c) + (Adds(f, D, l) + Adds(f, D, r))
  BY DEF Here
<1>7. Here(c)' = Adds(g, E, c) + (Adds(g, E, l) + Adds(g, E, r))
  BY DEF Here, Adds, Left, Right
<1>8. Total = SumFunctionOnSet(f, D) /\ Total' = SumFunctionOnSet(g, E)
  BY DEF Total
<1>9. IsFiniteSet(R)
  BY <1>2, FS_Subset
<1>10. \A x \in R : g[x] = f[x]
  BY <1>3, <1>5
<1> HIDE DEF D, E, l, r, f, g
<1>11. SumFunctionOnSet(g, R) = SumFunctionOnSet(f, R)
  BY <1>9, <1>10, SumOfEqual
<1>12. /\ Adds(f, D, c) \in Int /\ Adds(f, D, l) \in Int /\ Adds(f, D, r) \in Int
       /\ SumFunctionOnSet(f, R) \in Int
       /\ SumFunctionOnSet(f, D) = SumFunctionOnSet(f, R) + (Adds(f, D, c) + Adds(f, D, l) + Adds(f, D, r))
  BY <1>1, <1>2, <1>4, SumInParts
<1>13. /\ Adds(g, E, c) \in Int /\ Adds(g, E, l) \in Int /\ Adds(g, E, r) \in Int
       /\ SumFunctionOnSet(g, E) = SumFunctionOnSet(g, R) + (Adds(g, E, c) + Adds(g, E, l) + Adds(g, E, r))
  <2>1. E \ {c, l, r} = R
    BY <1>5
  <2> HIDE DEF R
  <2>2. /\ Adds(g, E, c) \in Int /\ Adds(g, E, l) \in Int /\ Adds(g, E, r) \in Int
        /\ SumFunctionOnSet(g, E) = SumFunctionOnSet(g, E \ {c, l, r})
                                    + (Adds(g, E, c) + Adds(g, E, l) + Adds(g, E, r))
    BY <1>1, <1>2, <1>4, SumInParts
  <2> QED BY <2>1, <2>2
<1> HIDE DEF R
<1> QED BY <1>6, <1>7, <1>8, <1>11, <1>12, <1>13

\* What every step of the threads program that regrows the tree has to show of
\* the call it takes: its own halves and weight.
LEMMA RegrowingKeepsForks ==
    ASSUME IInv, DepthsInRange, ForksAddUp, DepthsInRange', program = "threads",
           NEW c \in DOMAIN calls, NEW K, Regrows(c, K),
           calls'[c].depth = calls[c].depth, \A d \in K : calls'[d].at = "enter",
           Branching(c)', Here(c)' = Here(c)
    PROVE  ForksAddUp'
<1> DEFINE D == DOMAIN calls
           H == {Left(c), Right(c)}
<1>1. Total' = Total
  BY RegrowingKeepsTotal
<1>2. /\ D \subseteq Paths /\ c \in Paths /\ \A d \in D : Above(c, d) => d \in H
      /\ K \subseteq H /\ DOMAIN calls' = (D \ H) \union K /\ program' = program
      /\ \A d \in D : d \notin {c, Left(c), Right(c)} => calls'[d] = calls[d]
  BY DEF IInv, Shape, Regrows
<1>3. ASSUME NEW d \in DOMAIN calls' PROVE Branching(d)'
  <2>1. CASE d = c
    BY <2>1
  <2>2. CASE d \in K
    <3>1. calls'[d].at # "calls"
      BY <2>2
    <3> QED BY <3>1 DEF Branching
  <2>3. CASE d # c /\ d \notin K
    <3>1. d \in D /\ d \notin H /\ calls'[d] = calls[d] /\ d \in Paths
      BY <1>2, <2>3
    <3>2. Left(d) \notin H /\ Right(d) \notin H
      <4>1. Above(d, Left(d)) /\ Above(d, Right(d)) /\ Left(d) \in Paths /\ Right(d) \in Paths
        BY <3>1, TwoHalves
      <4>2. ASSUME NEW h \in H, Above(d, h) PROVE Above(d, c)
        BY <1>2, <2>3, <3>1, <4>2, TwoHalves
      <4>3. ~Above(d, c) => Left(d) \notin H /\ Right(d) \notin H
        BY <4>1, <4>2
      <4>4. ASSUME Above(d, c) PROVE Left(d) \notin H /\ Right(d) \notin H
        <5>1. Len(d) \in Nat /\ Len(c) \in Nat /\ Len(d) < Len(c)
          BY <1>2, <3>1, <4>4 DEF Above, Paths
        <5>2. Len(Left(d)) = Len(d) + 1 /\ Len(Right(d)) = Len(d) + 1
          BY <3>1, HalfPath DEF Left, Right
        <5>3. Len(Left(c)) = Len(c) + 1 /\ Len(Right(c)) = Len(c) + 1
          BY <1>2, HalfPath DEF Left, Right
        <5> QED BY <5>1, <5>2, <5>3
      <4> QED BY <4>3, <4>4
    <3>3. Halves(d)' = Halves(d)
      BY <1>2, <3>2 DEF Halves, Left, Right
    <3>4. \A h \in Halves(d) : calls'[h].depth = calls[h].depth
      BY <1>2, <3>2 DEF Halves
    <3>5. MayFork(calls[d])' = MayFork(calls[d])
      BY <1>2, <3>1 DEF MayFork, Size
    <3>6. Branching(d)
      BY <3>1 DEF ForksAddUp
    <3> QED BY <3>1, <3>3, <3>4, <3>5, <3>6 DEF Branching, Left, Right
  <2> QED BY <2>1, <2>2, <2>3
<1> QED BY <1>1, <1>3 DEF ForksAddUp, ForkDepth

\* The calls that a partition starts inherit a depth in range, one less if they
\* are forked.
LEMMA InheritedDepth ==
    ASSUME NEW q, q.depth \in 0 .. ForkDepth, NEW p
    PROVE  /\ DepthLeft(q) \in 0 .. ForkDepth
           /\ program = "threads" => DepthLeft(q) = IF MayFork(q) THEN q.depth - 1 ELSE q.depth
           /\ program = "threads" /\ MayFork(q) => q.depth > 0
           /\ Lower(q, p).depth = DepthLeft(q) /\ Upper(q, p).depth = DepthLeft(q)
           /\ First(q, p).depth = DepthLeft(q) /\ Second(q, p).depth = DepthLeft(q)
<1>1. ForkDepth \in Nat
  BY DepthIs
<1>2. program = "threads" => DepthLeft(q) = IF MayFork(q) THEN q.depth - 1 ELSE q.depth
  BY DEF DepthLeft
<1>3. program = "threads" /\ MayFork(q) => q.depth > 0
  BY DEF MayFork
<1>4. DepthLeft(q) \in 0 .. ForkDepth
  <2>1. CASE program = "threads" /\ MayFork(q)
    BY <1>1, <1>2, <1>3, <2>1
  <2>2. CASE ~(program = "threads" /\ MayFork(q))
    <3>1. DepthLeft(q) = q.depth
      BY <2>2 DEF DepthLeft
    <3> QED BY <3>1
  <2> QED BY <2>1, <2>2
<1>5. Lower(q, p).depth = DepthLeft(q) /\ Upper(q, p).depth = DepthLeft(q)
  BY DEF Lower, Upper, Call
<1>6. First(q, p).depth = DepthLeft(q) /\ Second(q, p).depth = DepthLeft(q)
  BY <1>5 DEF First, Second
<1> QED BY <1>2, <1>3, <1>4, <1>5, <1>6

\* Two halves one deeper weigh what their caller did before it forked them.
LEMMA ForkWeighs ==
    ASSUME NEW d \in Nat, d > 0
    PROVE  2 ^ d - 1 = 1 + ((2 ^ (d - 1) - 1) + (2 ^ (d - 1) - 1))
<1>1. d - 1 \in Nat /\ (d - 1) + 1 = d
  OBVIOUS
<1> DEFINE x == 2 ^ (d - 1)
           y == 2 ^ d
<1>2. x \in Nat /\ y = 2 * x
  BY <1>1, PowerStep
<1> HIDE DEF x, y
<1>3. y - 1 = 1 + ((x - 1) + (x - 1))
  BY <1>2
<1> QED BY <1>3 DEF x, y

\* The weight of a call that does not wait for halves, and of one that does
LEMMA Weighs ==
    ASSUME NEW q
    PROVE  /\ q.at # "calls" => Weight(q) = 2 ^ q.depth - 1
           /\ q.at = "calls" /\ q.forked => Weight(q) = 1
           /\ q.at = "calls" /\ ~q.forked => Weight(q) = 0
BY DEF Weight

\* What the calls that are open add to the total
LEMMA AddsAre ==
    ASSUME NEW x
    PROVE  /\ x \in DOMAIN calls => Adds(Weights, DOMAIN calls, x) = Weight(calls[x])
           /\ x \notin DOMAIN calls => Adds(Weights, DOMAIN calls, x) = 0
           /\ x \in DOMAIN calls' => Adds(Weights, DOMAIN calls, x)' = Weight(calls'[x])
           /\ x \notin DOMAIN calls' => Adds(Weights, DOMAIN calls, x)' = 0
BY DEF Adds, Weights

\* The partition returns: both halves start if the call forks, else the left one.
LEMMA SplitForks ==
    ASSUME IInv, DepthsInRange, ForksAddUp, NEW c \in DOMAIN calls, Split(c)
    PROVE  DepthsInRange' /\ ForksAddUp'
<1> DEFINE q == calls[c]
           p == LastLower(q)
           K == Started(c)
           s == Calling(q, p, MayFork(q))
           l == Left(c)
           r == Right(c)
<1>1. Regrows(c, K)
  BY SplitRegrows
<1>2. /\ q.at = "scan" /\ program' = program
      /\ IsCall(s) /\ s.lo = q.lo /\ s.hi = q.hi /\ s.at = "calls" /\ s.forked = MayFork(q)
      /\ Upper(q, p).at = "enter" /\ Lower(q, p).at = "enter"
      /\ l \notin DOMAIN calls /\ r \notin DOMAIN calls
      /\ DOMAIN calls' = (DOMAIN calls \ {l, r}) \union K
      /\ calls'[c] = s
      /\ calls'[l] = First(q, p)
      /\ r \in K => calls'[r] = Upper(q, p)
  BY SplitFinds
<1>3. s.depth = q.depth
  BY SplitFields DEF IInv, Shape
<1>4. q.depth \in 0 .. ForkDepth /\ ForkDepth \in Nat
  BY DepthIs DEF DepthsInRange
<1>5. /\ DepthLeft(q) \in 0 .. ForkDepth
      /\ program = "threads" => DepthLeft(q) = IF MayFork(q) THEN q.depth - 1 ELSE q.depth
      /\ program = "threads" /\ MayFork(q) => q.depth > 0
      /\ First(q, p).depth = DepthLeft(q) /\ Upper(q, p).depth = DepthLeft(q)
  BY <1>4, InheritedDepth
<1>6. First(q, p).at = "enter"
  BY <1>2 DEF First
<1>7. K = (IF MayFork(q) THEN {l, r} ELSE {l}) /\ c # l /\ c # r /\ l # r
  BY TwoHalves DEF Started, IInv, Shape
<1>8. \A d \in K : calls'[d].at = "enter" /\ calls'[d].depth = DepthLeft(q)
  BY <1>2, <1>5, <1>6, <1>7
<1>9. DepthsInRange'
  BY <1>1, <1>2, <1>3, <1>4, <1>5, <1>8, RegrowingKeepsDepths
<1>10. ASSUME program = "threads" PROVE Branching(c)'
  <2>1. Halves(c)' = K
    BY <1>2, <1>7 DEF Halves, Left, Right
  <2>2. MayFork(calls[c])' = MayFork(q)
    BY <1>2, <1>3 DEF MayFork, Size
  <2> QED BY <1>2, <1>3, <1>5, <1>7, <1>8, <1>10, <2>1, <2>2 DEF Branching, Left, Right
<1>11. ASSUME program = "threads" PROVE Here(c)' = Here(c)
  <2>1. Here(c) = (2 ^ q.depth - 1) + (0 + 0)
    BY <1>2, AddsAre, Weighs DEF Here
  <2>2. c \in DOMAIN calls' /\ l \in DOMAIN calls'
    BY <1>2, <1>7
  <2>3. Here(c)' = Weight(s) + (Weight(calls'[l]) + Adds(Weights, DOMAIN calls, r)')
    BY <1>2, <2>2, AddsAre DEF Here, Left, Right
  <2>4. Weight(calls'[l]) = 2 ^ DepthLeft(q) - 1
    BY <1>7, <1>8, Weighs
  <2>5. q.depth \in Nat /\ 2 ^ q.depth \in Nat
    BY <1>4, PowerGrows
  <2>6. CASE MayFork(q)
    <3>1. Adds(Weights, DOMAIN calls, r)' = Weight(calls'[r]) /\ calls'[r].at = "enter"
          /\ calls'[r].depth = DepthLeft(q)
      BY <1>2, <1>7, <1>8, <2>6, AddsAre
    <3>2. Weight(calls'[r]) = 2 ^ DepthLeft(q) - 1 /\ Weight(s) = 1
      BY <1>2, <2>6, <3>1, Weighs
    <3>3. DepthLeft(q) = q.depth - 1 /\ q.depth > 0
      BY <1>5, <1>11, <2>6
    <3>4. 2 ^ q.depth - 1 = 1 + ((2 ^ (q.depth - 1) - 1) + (2 ^ (q.depth - 1) - 1))
      BY <2>5, <3>3, ForkWeighs
    <3>5. Here(c)' = 1 + ((2 ^ (q.depth - 1) - 1) + (2 ^ (q.depth - 1) - 1))
      BY <2>3, <2>4, <3>1, <3>2, <3>3
    <3> DEFINE x == 2 ^ q.depth
    <3>6. x \in Nat /\ Here(c) = (x - 1) + (0 + 0) /\ Here(c)' = x - 1
      BY <2>1, <2>5, <3>4, <3>5
    <3> HIDE DEF x
    <3> QED BY <3>6
  <2>7. CASE ~MayFork(q)
    <3>1. r \notin DOMAIN calls' /\ DepthLeft(q) = q.depth
      BY <1>2, <1>5, <1>7, <1>11, <2>7
    <3>2. Adds(Weights, DOMAIN calls, r)' = 0 /\ Weight(s) = 0
      BY <1>2, <2>7, <3>1, AddsAre, Weighs
    <3> DEFINE x == 2 ^ q.depth
    <3>3. x \in Nat /\ Here(c) = (x - 1) + (0 + 0) /\ Here(c)' = 0 + ((x - 1) + 0)
      BY <2>1, <2>3, <2>4, <2>5, <3>1, <3>2
    <3> HIDE DEF x
    <3> QED BY <3>3
  <2> QED BY <2>6, <2>7
<1> HIDE DEF K, s, q
<1>12. program = "threads" => ForksAddUp'
  BY <1>1, <1>2, <1>3, <1>8, <1>9, <1>10, <1>11, RegrowingKeepsForks DEF q
<1> QED BY <1>2, <1>9, <1>12 DEF ForksAddUp

\* The second plain call takes the place of the first, as deep as that was.
LEMMA CallRightForks ==
    ASSUME IInv, DepthsInRange, ForksAddUp, NEW c \in DOMAIN calls, CallRight(c)
    PROVE  DepthsInRange' /\ ForksAddUp'
<1> DEFINE q == calls[c]
           u == Upper(q, q.i)
           l == Left(c)
           r == Right(c)
           K == {r}
<1>1. Regrows(c, K)
  BY CallRightRegrows
<1>2. /\ q.at = "calls" /\ ~q.forked /\ l \in DOMAIN calls /\ program' = program
      /\ \A h \in Halves(c) : calls[h].at = "done"
      /\ calls' = [d \in (DOMAIN calls \ {l}) \union {r} |-> IF d = r THEN u ELSE calls[d]]
  BY DEF CallRight, Finished
<1>3. c # l /\ c # r /\ l # r
  BY TwoHalves DEF IInv, Shape
<1>4. q.depth \in 0 .. ForkDepth /\ ForkDepth \in Nat
  BY DepthIs DEF DepthsInRange
<1>5. /\ DepthLeft(q) \in 0 .. ForkDepth /\ u.depth = DepthLeft(q)
      /\ program = "threads" => DepthLeft(q) = IF MayFork(q) THEN q.depth - 1 ELSE q.depth
  BY <1>4, InheritedDepth
<1>6. u.at = "enter"
  BY DEF Upper, Call
<1>7. calls'[c] = q /\ calls'[r] = u /\ r \in DOMAIN calls' /\ l \notin DOMAIN calls' /\ c \in DOMAIN calls'
  BY <1>2, <1>3
<1> HIDE DEF u
<1>8. DepthsInRange'
  BY <1>1, <1>4, <1>5, <1>7, RegrowingKeepsDepths
<1>9. CASE program = "threads"
  <2>1. Branching(c)
    BY <1>9 DEF ForksAddUp
  <2>2. q.forked = MayFork(q) /\ Halves(c) = {l}
    BY <1>2, <1>3, <2>1 DEF Branching, Halves
  <2>3. calls[l].at = "done" /\ calls[l].depth = q.depth /\ r \notin DOMAIN calls
    BY <1>2, <1>3, <2>1, <2>2 DEF Branching, Halves
  <2>4. u.depth = q.depth
    BY <1>2, <1>5, <1>9, <2>2
  <2>5. Branching(c)'
    <3>1. Halves(c)' = {r}
      BY <1>3, <1>7 DEF Halves, Left, Right
    <3>2. MayFork(calls[c])' = MayFork(q)
      BY <1>2, <1>7 DEF MayFork, Size
    <3> QED BY <1>2, <1>7, <2>2, <2>4, <3>1, <3>2 DEF Branching, Left, Right
  <2>6. Here(c) = Weight(q) + (Weight(calls[l]) + 0)
    BY <1>2, <2>3, AddsAre DEF Here
  <2>7. Here(c)' = Weight(q) + (0 + Weight(u))
    BY <1>7, AddsAre DEF Here, Left, Right
  <2>8. Weight(q) = 0 /\ Weight(calls[l]) = 2 ^ q.depth - 1 /\ Weight(u) = 2 ^ q.depth - 1
    BY <1>2, <1>6, <2>3, <2>4, Weighs
  <2>9. Here(c)' = Here(c)
    <3> DEFINE x == 2 ^ q.depth
    <3>1. x \in Nat /\ Here(c) = 0 + ((x - 1) + 0) /\ Here(c)' = 0 + (0 + (x - 1))
      BY <1>4, <2>6, <2>7, <2>8, PowerGrows
    <3> HIDE DEF x
    <3> QED BY <3>1
  <2> QED BY <1>1, <1>6, <1>7, <1>8, <1>9, <2>5, <2>9, RegrowingKeepsForks
<1>10. CASE program # "threads"
  <2>1. program' # "threads"
    BY <1>2, <1>10
  <2> QED BY <1>8, <2>1 DEF ForksAddUp
<1> QED BY <1>8, <1>9, <1>10

\* The join: a call whose halves are done weighs again what it did before.
LEMMA JoinForks ==
    ASSUME IInv, DepthsInRange, ForksAddUp, NEW c \in DOMAIN calls, Join(c)
    PROVE  DepthsInRange' /\ ForksAddUp'
<1> DEFINE q == calls[c]
           e == [q EXCEPT !.at = "done"]
           l == Left(c)
           r == Right(c)
<1>1. Regrows(c, {})
  BY JoinRegrows
<1>2. /\ q.at = "calls" /\ (q.forked \/ r \in DOMAIN calls) /\ program' = program
      /\ \A h \in Halves(c) : calls[h].at = "done"
      /\ calls' = [Without(Halves(c)) EXCEPT ![c].at = "done"]
  BY DEF Join, Finished
<1>3. c # l /\ c # r /\ l # r
  BY TwoHalves DEF IInv, Shape
<1>4. q.depth \in 0 .. ForkDepth /\ ForkDepth \in Nat
  BY DepthIs DEF DepthsInRange
<1>5. IsCall(q)
  BY DEF IInv, Shape
<1>6. e.at = "done" /\ e.depth = q.depth
  BY <1>5 DEF IsCall
<1>7. calls'[c] = e /\ c \in DOMAIN calls' /\ l \notin DOMAIN calls' /\ r \notin DOMAIN calls'
  BY <1>2, <1>3 DEF Without, Halves
<1> HIDE DEF e
<1>8. DepthsInRange'
  BY <1>1, <1>4, <1>6, <1>7, RegrowingKeepsDepths
<1>9. CASE program = "threads"
  <2>1. Branching(c)
    BY <1>9 DEF ForksAddUp
  <2>2. Branching(c)'
    BY <1>6, <1>7 DEF Branching
  <2>3. Here(c)' = Weight(e) + (0 + 0)
    BY <1>7, AddsAre DEF Here, Left, Right
  <2>4. Weight(e) = 2 ^ q.depth - 1
    BY <1>6, Weighs
  <2>5. q.depth \in Nat /\ 2 ^ q.depth \in Nat
    BY <1>4, PowerGrows
  <2>6. Here(c)' = Here(c)
    <3>1. CASE q.forked
      <4>1. /\ l \in DOMAIN calls /\ r \in DOMAIN calls /\ MayFork(q)
            /\ calls[l].depth = q.depth - 1 /\ calls[r].depth = q.depth - 1
            /\ calls[l].at = "done" /\ calls[r].at = "done"
        <5>1. Halves(c) = {l, r} /\ MayFork(q)
          BY <1>2, <2>1, <3>1 DEF Branching
        <5> QED BY <1>2, <2>1, <3>1, <5>1 DEF Branching, Halves
      <4>2. q.depth > 0
        BY <1>4, <1>9, <4>1, InheritedDepth
      <4>3. Here(c) = Weight(q) + (Weight(calls[l]) + Weight(calls[r]))
        BY <4>1, AddsAre DEF Here
      <4>4. /\ Weight(q) = 1 /\ Weight(calls[l]) = 2 ^ (q.depth - 1) - 1
            /\ Weight(calls[r]) = 2 ^ (q.depth - 1) - 1
        BY <1>2, <3>1, <4>1, Weighs
      <4>5. 2 ^ q.depth - 1 = 1 + ((2 ^ (q.depth - 1) - 1) + (2 ^ (q.depth - 1) - 1))
        BY <2>5, <4>2, ForkWeighs
      <4> DEFINE x == 2 ^ q.depth
      <4>6. x \in Nat /\ Here(c) = x - 1 /\ Here(c)' = (x - 1) + (0 + 0)
        BY <2>3, <2>4, <2>5, <4>3, <4>4, <4>5
      <4> HIDE DEF x
      <4> QED BY <4>6
    <3>2. CASE ~q.forked
      <4>1. Halves(c) = {r} /\ r \in DOMAIN calls
        BY <1>2, <1>3, <2>1, <3>2 DEF Branching, Halves
      <4>2. calls[r].at = "done" /\ calls[r].depth = q.depth /\ l \notin DOMAIN calls
        BY <1>2, <1>3, <2>1, <3>2, <4>1 DEF Branching, Halves
      <4>3. Here(c) = Weight(q) + (0 + Weight(calls[r]))
        BY <4>1, <4>2, AddsAre DEF Here
      <4>4. Weight(q) = 0 /\ Weight(calls[r]) = 2 ^ q.depth - 1
        BY <1>2, <3>2, <4>2, Weighs
      <4> DEFINE x == 2 ^ q.depth
      <4>5. x \in Nat /\ Here(c) = 0 + (0 + (x - 1)) /\ Here(c)' = (x - 1) + (0 + 0)
        BY <2>3, <2>4, <2>5, <4>3, <4>4
      <4> HIDE DEF x
      <4> QED BY <4>5
    <3> QED BY <3>1, <3>2
  <2> QED BY <1>1, <1>6, <1>7, <1>8, <1>9, <2>2, <2>6, RegrowingKeepsForks
<1>10. CASE program # "threads"
  <2>1. program' # "threads"
    BY <1>2, <1>10
  <2> QED BY <1>8, <2>1 DEF ForksAddUp
<1> QED BY <1>8, <1>9, <1>10

\* The loop of the sequential program forks nothing.
LEMMA LoopOnForks ==
    ASSUME IInv, DepthsInRange, ForksAddUp, NEW c \in DOMAIN calls, LoopOn(c)
    PROVE  DepthsInRange' /\ ForksAddUp'
<1> DEFINE q == calls[c]
           e == Second(q, q.i)
<1>1. Regrows(c, {})
  BY LoopOnRegrows
<1>2. /\ program = "sequential" /\ program' = program
      /\ calls' = [Without(Halves(c)) EXCEPT ![c] = e]
  BY DEF LoopOn
<1>3. c # Left(c) /\ c # Right(c)
  BY TwoHalves DEF IInv, Shape
<1>4. q.depth \in 0 .. ForkDepth
  BY DEF DepthsInRange
<1>5. e.depth = DepthLeft(q) /\ DepthLeft(q) \in 0 .. ForkDepth
  BY <1>4, InheritedDepth
<1> HIDE DEF e
<1>6. calls'[c] = e
  BY <1>2, <1>3 DEF Without, Halves
<1>7. DepthsInRange'
  BY <1>1, <1>5, <1>6, RegrowingKeepsDepths
<1>8. program' # "threads"
  BY <1>2
<1> QED BY <1>7, <1>8 DEF ForksAddUp

\* The first call weighs all that may be forked.
LEMMA InitForks == Init => DepthsInRange /\ ForksAddUp
<1> SUFFICES ASSUME Init PROVE DepthsInRange /\ ForksAddUp
  OBVIOUS
<1> DEFINE q == Call(0, N - 1, ForkDepth)
<1>1. DOMAIN calls = {Root} /\ calls[Root] = q
  BY DEF Init
<1>2. q.depth = ForkDepth /\ q.at = "enter"
  BY DEF Call
<1>3. ForkDepth \in Nat /\ 2 ^ ForkDepth \in Nat
  BY DepthIs, PowerGrows
<1> HIDE DEF q
<1>4. IsFiniteSet({Root}) /\ {Root} \ {Root} = {}
  BY FS_Singleton
<1>5. DepthsInRange
  BY <1>1, <1>2, <1>3, <1>4 DEF DepthsInRange
<1>6. Weights[Root] = 2 ^ ForkDepth - 1
  BY <1>1, <1>2, Weighs DEF Weights
<1>7. Total = 2 ^ ForkDepth - 1
  <2> DEFINE x == 2 ^ ForkDepth - 1
  <2>1. x \in Int
    BY <1>3
  <2> HIDE DEF x
  <2>2. Weights[Root] = x
    BY <1>6 DEF x
  <2>3. SumFunctionOnSet(Weights, {Root}) = Weights[Root] + SumFunctionOnSet(Weights, {Root} \ {Root})
    BY <1>4, <2>1, <2>2, SumWithout
  <2>4. SumFunctionOnSet(Weights, {Root} \ {Root}) = 0
    BY <1>4, SumOfNone
  <2>5. Total = x
    BY <1>1, <2>1, <2>2, <2>3, <2>4 DEF Total
  <2> QED BY <2>5 DEF x
<1>8. \A c \in DOMAIN calls : Branching(c)
  BY <1>1, <1>2 DEF Branching
<1> QED BY <1>5, <1>7, <1>8 DEF ForksAddUp

\* Every step keeps the forks added up.
LEMMA StepForks == IInv /\ DepthsInRange /\ ForksAddUp /\ [Next]_vars => DepthsInRange' /\ ForksAddUp'
<1> SUFFICES ASSUME IInv, DepthsInRange, ForksAddUp, [Next]_vars PROVE DepthsInRange' /\ ForksAddUp'
  OBVIOUS
<1>1. ASSUME NEW c \in DOMAIN calls, Enter(c) \/ InsertKey(c) \/ InsertionEnds(c) \/ SwapPair(c)
      PROVE  DepthsInRange' /\ ForksAddUp'
  BY <1>1, WorkIsLocal, WorkKeepsForks
<1>2. ASSUME NEW c \in DOMAIN calls, Split(c) PROVE DepthsInRange' /\ ForksAddUp'
  BY <1>2, SplitForks
<1>3. ASSUME NEW c \in DOMAIN calls, LoopOn(c) PROVE DepthsInRange' /\ ForksAddUp'
  BY <1>3, LoopOnForks
<1>4. ASSUME NEW c \in DOMAIN calls, CallRight(c) PROVE DepthsInRange' /\ ForksAddUp'
  BY <1>4, CallRightForks
<1>5. ASSUME NEW c \in DOMAIN calls, Join(c) PROVE DepthsInRange' /\ ForksAddUp'
  BY <1>5, JoinForks
<1>6. CASE UNCHANGED vars
  <2>1. calls' = calls /\ program' = program
    BY <1>6 DEF vars
  <2>2. Total' = Total /\ ForkDepth' = ForkDepth
    BY <2>1 DEF Total, Weights, ForkDepth
  <2>3. ASSUME NEW c \in DOMAIN calls, Branching(c) PROVE Branching(c)'
    BY <2>1, <2>3 DEF Branching, Halves, MayFork, Size, Left, Right
  <2>4. DepthsInRange'
    BY <2>1, <2>2 DEF DepthsInRange
  <2>5. CASE program = "threads"
    BY <2>1, <2>2, <2>3, <2>4, <2>5 DEF ForksAddUp
  <2>6. CASE program # "threads"
    <3>1. program' # "threads"
      BY <2>1, <2>6
    <3> QED BY <2>4, <3>1 DEF ForksAddUp
  <2> QED BY <2>4, <2>5, <2>6
<1> QED BY <1>1, <1>2, <1>3, <1>4, <1>5, <1>6 DEF Next, Step

\* The threads forked and not joined are members of weight one.
LEMMA ForksAreBounded ==
    ASSUME DepthsInRange, ForksAddUp
    PROVE  ThreadsBounded
<1> DEFINE D == DOMAIN calls
           F == {c \in D : calls[c].forked /\ calls[c].at = "calls" /\ calls[Left(c)].at # "done"}
<1>1. IsFiniteSet(D) /\ \A c \in D : calls[c].depth \in 0 .. ForkDepth
  BY DEF DepthsInRange
<1>2. CASE program = "threads"
  <2>1. \A c \in D : Weights[c] \in Nat
    BY <1>1, WeightIs DEF Weights
  <2>2. \A c \in F : Weights[c] = 1
    BY Weighs DEF Weights
  <2>3. F \subseteq D
    OBVIOUS
  <2>4. LiveThreads = 1 + Cardinality(F)
    BY DEF LiveThreads
  <2>5. SumFunctionOnSet(Weights, D) = 2 ^ ForkDepth - 1
    BY <1>2 DEF ForksAddUp, Total
  <2>6. ForkDepth \in Nat /\ 2 ^ ForkDepth \in Nat
    BY DepthIs, PowerGrows
  <2> HIDE DEF F, D
  <2>7. Cardinality(F) <= SumFunctionOnSet(Weights, D) /\ Cardinality(F) \in Nat
    BY <1>1, <2>1, <2>2, <2>3, SumCounts, FS_Subset, FS_CardinalityType
  <2> DEFINE x == 2 ^ ForkDepth
             y == Cardinality(F)
  <2>8. x \in Nat /\ y \in Nat /\ y <= x - 1 /\ LiveThreads = 1 + y
    BY <2>4, <2>5, <2>6, <2>7
  <2> HIDE DEF x, y
  <2>9. LiveThreads <= x
    BY <2>8
  <2> QED BY <1>1, <2>9 DEF ThreadsBounded, D, x
<1>3. CASE program # "threads"
  BY <1>1, <1>3 DEF ThreadsBounded
<1> QED BY <1>2, <1>3
-----------------------------------------------------------------------------
(* The stack of the sequential program                                     *)

\* A call of the sequential program is a left half of a left half, and so on,
\* and every call down to it at least halved its caller's range.
Shallow ==
    program = "sequential" =>
        \A c \in DOMAIN calls : /\ \A k \in 1 .. Len(c) : c[k] = 0
                                /\ 2 ^ Len(c) * Size(calls[c]) <= N

\* The range that the sequential program recurses into is the smaller one.
LEMMA FirstIsHalf ==
    ASSUME program = "sequential", NEW q, q.lo \in Nat, q.hi \in Nat, NEW p \in q.lo .. q.hi - 1
    PROVE  Size(First(q, p)) \in Nat /\ Size(q) \in Nat /\ 2 * Size(First(q, p)) <= Size(q)
<1>1. /\ Lower(q, p).lo = q.lo /\ Lower(q, p).hi = p
      /\ Upper(q, p).lo = p + 1 /\ Upper(q, p).hi = q.hi
  BY DEF Lower, Upper, Call
<1>2. CASE LeftIsSmaller(q, p)
  <2>1. First(q, p) = Lower(q, p)
    BY <1>2 DEF First
  <2> QED BY <1>1, <1>2, <2>1 DEF LeftIsSmaller, Size
<1>3. CASE ~LeftIsSmaller(q, p)
  <2>1. First(q, p) = Upper(q, p)
    BY <1>3 DEF First
  <2> QED BY <1>1, <1>3, <2>1 DEF LeftIsSmaller, Size
<1> QED BY <1>2, <1>3

\* A smaller factor makes a product no greater.
LEMMA ProductShrinks ==
    ASSUME NEW x \in Nat, NEW y \in Nat, NEW z \in Nat, y <= z
    PROVE  x * y <= x * z
OBVIOUS

\* Every step keeps the stack shallow.
LEMMA StepShallow == IInv /\ Shallow /\ [Next]_vars => Shallow'
<1> SUFFICES ASSUME IInv, Shallow, [Next]_vars PROVE Shallow'
  BY Zenon
<1>0. program' = program
  BY Zenon DEF Next, Step, vars, Enter, InsertKey, InsertionEnds, SwapPair, Split, LoopOn, CallRight, Join
<1>1. CASE program # "sequential"
  <2>1. program' # "sequential"
    BY <1>0, <1>1
  <2> QED BY <2>1 DEF Shallow
<1>2. CASE program = "sequential"
  <2>1. \A c \in DOMAIN calls : c \in Paths /\ IsCall(calls[c]) /\ Len(c) \in Nat /\ 2 ^ Len(c) \in Nat
    <3>1. \A c \in DOMAIN calls : c \in Paths /\ IsCall(calls[c]) /\ Len(c) \in Nat
      BY DEF IInv, Shape, Paths
    <3> QED BY <3>1, PowerGrows
  <2>2. \A c \in DOMAIN calls : /\ \A k \in 1 .. Len(c) : c[k] = 0
                                /\ 2 ^ Len(c) * Size(calls[c]) <= N
    BY <1>2 DEF Shallow
  <2>3. ASSUME NEW c \in DOMAIN calls, IsCall(calls'[c]),
               calls'[c].lo >= calls[c].lo, calls'[c].hi <= calls[c].hi
        PROVE  2 ^ Len(c) * Size(calls'[c]) <= N
    <3>1. Size(calls[c]) \in Nat /\ Size(calls'[c]) \in Nat /\ Size(calls'[c]) <= Size(calls[c])
      BY <2>1, <2>3 DEF IsCall, Size
    <3> DEFINE x == 2 ^ Len(c)
               y == Size(calls'[c])
               z == Size(calls[c])
    <3>2. x \in Nat /\ y \in Nat /\ z \in Nat /\ y <= z /\ x * z <= N /\ N \in Int
      BY <2>1, <2>2, <3>1, SortAssumption
    <3> HIDE DEF x, y, z
    <3>3. x * y <= x * z /\ x * y \in Int /\ x * z \in Int
      BY <3>2, ProductShrinks
    <3>4. x * y <= N
      BY <3>2, <3>3
    <3> QED BY <3>4 DEF x, y
  <2>4. ASSUME NEW c \in DOMAIN calls, Local(c) PROVE Shallow'
    <3>1. /\ DOMAIN calls' = DOMAIN calls /\ \A d \in DOMAIN calls : d # c => calls'[d] = calls[d]
          /\ IsCall(calls'[c]) /\ calls'[c].lo = calls[c].lo /\ calls'[c].hi = calls[c].hi
      BY <2>4 DEF Local
    <3>2. calls[c].lo \in Nat /\ calls[c].hi \in Nat
      BY <2>1 DEF IsCall
    <3>3. 2 ^ Len(c) * Size(calls'[c]) <= N
      BY <2>3, <3>1, <3>2
    <3>4. ASSUME NEW d \in DOMAIN calls PROVE 2 ^ Len(d) * Size(calls'[d]) <= N
      BY <2>2, <3>1, <3>3
    <3> QED BY <2>2, <3>1, <3>4 DEF Shallow
  <2>5. ASSUME NEW c \in DOMAIN calls, NEW K, Regrows(c, K),
               \A d \in K : d = Left(c) /\ 2 ^ Len(d) * Size(calls'[d]) <= N
        PROVE  Shallow'
    <3>1. /\ DOMAIN calls' = (DOMAIN calls \ {Left(c), Right(c)}) \union K
          /\ \A d \in DOMAIN calls : d \notin {c, Left(c), Right(c)} => calls'[d] = calls[d]
          /\ IsCall(calls'[c]) /\ calls'[c].lo >= calls[c].lo /\ calls'[c].hi <= calls[c].hi
      BY <2>5 DEF Regrows
    <3>2. 2 ^ Len(c) * Size(calls'[c]) <= N
      BY <2>3, <3>1
    <3>3. ASSUME NEW d \in DOMAIN calls'
          PROVE  (\A k \in 1 .. Len(d) : d[k] = 0) /\ 2 ^ Len(d) * Size(calls'[d]) <= N
      <4>1. CASE d \in K
        <5>1. d = Left(c) /\ 2 ^ Len(d) * Size(calls'[d]) <= N
          BY <2>5, <4>1
        <5>2. /\ Len(Left(c)) = Len(c) + 1 /\ Left(c)[Len(c) + 1] = 0
              /\ \A k \in 1 .. Len(c) : Left(c)[k] = c[k]
          BY <2>1, HalfPath DEF Left
        <5>3. \A k \in 1 .. Len(Left(c)) : Left(c)[k] = 0
          BY <2>1, <2>2, <5>2
        <5> QED BY <5>1, <5>3
      <4>2. CASE d \notin K
        <5>1. d \in DOMAIN calls /\ (d = c \/ calls'[d] = calls[d])
          BY <3>1, <4>2
        <5> QED BY <2>2, <3>2, <5>1
      <4> QED BY <4>1, <4>2
    <3> QED BY <3>3 DEF Shallow
  <2>6. ASSUME NEW c \in DOMAIN calls, Enter(c) \/ InsertKey(c) \/ InsertionEnds(c) \/ SwapPair(c)
        PROVE  Shallow'
    BY <2>4, <2>6, WorkIsLocal
  <2>7. ASSUME NEW c \in DOMAIN calls, Split(c) PROVE Shallow'
    <3> DEFINE q == calls[c]
               p == LastLower(q)
               f == First(q, p)
    <3>1. Started(c) = {Left(c)}
      BY <1>2 DEF Started, MayFork
    <3>2. p \in q.lo .. q.hi - 1 /\ calls'[Left(c)] = f
      BY <2>7, SplitFinds
    <3>3. q.lo \in Nat /\ q.hi \in Nat
      BY <2>1 DEF IsCall
    <3>4. Size(f) \in Nat /\ Size(q) \in Nat /\ 2 * Size(f) <= Size(q)
      BY <1>2, <3>2, <3>3, FirstIsHalf
    <3>5. Len(Left(c)) = Len(c) + 1 /\ 2 ^ (Len(c) + 1) = 2 * 2 ^ Len(c)
      BY <2>1, HalfPath, PowerStep DEF Left
    <3> DEFINE x == 2 ^ Len(c)
               y == Size(f)
               z == Size(q)
               w == 2 ^ Len(Left(c))
    <3>6. x \in Nat /\ y \in Nat /\ z \in Nat /\ 2 * y <= z /\ x * z <= N /\ N \in Int /\ w = 2 * x
      BY <2>1, <2>2, <3>4, <3>5, SortAssumption
    <3> HIDE DEF x, y, z, w
    <3>7. x * (2 * y) <= x * z /\ x * z \in Int /\ x * (2 * y) \in Int /\ w * y = x * (2 * y)
      BY <3>6, ProductShrinks
    <3>8. w * y <= N
      BY <3>6, <3>7
    <3>9. \A d \in Started(c) : d = Left(c) /\ 2 ^ Len(d) * Size(calls'[d]) <= N
      BY <3>1, <3>2, <3>8 DEF w, y
    <3> QED BY <2>5, <2>7, <3>9, SplitRegrows
  <2>8. ASSUME NEW c \in DOMAIN calls, LoopOn(c) PROVE Shallow'
    BY <2>5, <2>8, LoopOnRegrows
  <2>9. ASSUME NEW c \in DOMAIN calls, CallRight(c) \/ Join(c) PROVE FALSE
    BY <1>2, <2>9 DEF CallRight, Join
  <2>10. CASE UNCHANGED vars
    BY <1>2, <2>2, <2>10 DEF vars, Shallow
  <2> QED BY <2>6, <2>7, <2>8, <2>9, <2>10 DEF Next, Step
<1> QED BY <1>1, <1>2

\* The first call has no path, and the whole array.
LEMMA InitShallow == Init => Shallow
<1> SUFFICES ASSUME Init PROVE Shallow
  OBVIOUS
<1>1. DOMAIN calls = {Root} /\ calls[Root].lo = 0 /\ calls[Root].hi = N - 1
  BY DEF Init, Call
<1>2. Len(Root) = 0 /\ N \in Nat /\ 2 ^ 0 = 1
  BY SortAssumption DEF Root
<1>3. 2 ^ Len(Root) * Size(calls[Root]) <= N
  BY <1>1, <1>2 DEF Size
<1> QED BY <1>1, <1>2, <1>3 DEF Shallow

\* Some call is as far down as there are calls above it, and its range is not
\* empty.
LEMMA DeepestCall ==
    ASSUME IInv, DepthsInRange, Shallow
    PROVE  StackIsShallow
<1> SUFFICES ASSUME program = "sequential"
             PROVE  2 ^ (Cardinality(DOMAIN calls) - 1) <= N
  BY DEF StackIsShallow
<1> DEFINE D == DOMAIN calls
           m == Cardinality(D)
           len == [c \in D |-> Len(c)]
           lens == {len[c] : c \in D}
<1>1. /\ D \subseteq Paths /\ Root \in D /\ IsFiniteSet(D) /\ \A c \in D : IsCall(calls[c])
  BY DEF IInv, Shape, DepthsInRange
<1>2. \A c \in D : /\ \A k \in 1 .. Len(c) : c[k] = 0
                   /\ 2 ^ Len(c) * Size(calls[c]) <= N
  BY DEF Shallow
<1>3. \A c \in D, d \in D : len[c] = len[d] => c = d
  BY <1>1, <1>2, SamePath
<1>4. \A c \in D : len[c] \in Nat /\ len[c] = Len(c)
  BY <1>1 DEF Paths
<1> HIDE DEF D, len
<1>5. IsFiniteSet(lens) /\ Cardinality(lens) = m
  BY <1>1, <1>3, SizeOfImage
<1>6. m \in Nat /\ m # 0
  BY <1>1, FS_EmptySet, FS_CardinalityType
<1> HIDE DEF m
<1>7. PICK c \in D : len[c] >= m - 1
  <2> SUFFICES ASSUME \A c \in D : ~(len[c] >= m - 1)
               PROVE  FALSE
    OBVIOUS
  <2>1. lens \subseteq 0 .. m - 2
    <3> SUFFICES ASSUME NEW c \in D PROVE len[c] \in 0 .. m - 2
      OBVIOUS
    <3> QED BY <1>4, <1>6
  <2>2. IsFiniteSet(0 .. m - 2) /\ Cardinality(0 .. m - 2) = m - 1
    BY <1>6, FS_Interval
  <2> HIDE DEF lens
  <2>3. Cardinality(lens) <= m - 1
    BY <2>1, <2>2, FS_Subset
  <2> QED BY <1>5, <1>6, <2>3
<1> DEFINE n == Len(c)
           s == Size(calls[c])
           x == 2 ^ n
           y == 2 ^ (m - 1)
<1>8. n \in Nat /\ m - 1 \in 0 .. n
  BY <1>4, <1>6, <1>7
<1>9. x \in Nat /\ y <= x /\ y \in Nat
  <2> HIDE DEF n
  <2> QED BY <1>6, <1>8, PowerGrows
<1>10. s \in Nat /\ s >= 1 /\ x * s <= N /\ N \in Int
  <2>1. IsCall(calls[c])
    BY <1>1
  <2>2. s \in Nat /\ s >= 1
    BY <2>1 DEF IsCall, Size
  <2> QED BY <1>2, <2>2, SortAssumption
<1> HIDE DEF n, s, x, y
<1>11. x * 1 <= x * s /\ x * 1 = x /\ x * s \in Int
  BY <1>9, <1>10, ProductShrinks
<1>12. y <= N
  BY <1>9, <1>10, <1>11
<1> QED BY <1>12 DEF y, m, D

\* At most 2 ^ ForkDepth threads are alive, however the splits fall, no call
\* inherits a depth below zero, and the sequential program's stack holds no more
\* calls than the array can be halved.
THEOREM ResourcesAreBounded == Spec => []ResourcesBounded
<1> DEFINE RInv == IInv /\ DepthsInRange /\ ForksAddUp /\ Shallow
<1>1. Init => RInv
  BY InitInv, InitForks, InitShallow
<1>2. RInv /\ [Next]_vars => RInv'
  BY StepInv, StepForks, StepShallow
<1>3. RInv => ResourcesBounded
  BY ForksAreBounded, DeepestCall DEF ResourcesBounded
<1> HIDE DEF RInv
<1> QED BY <1>1, <1>2, <1>3, PTL DEF Spec
=============================================================================
