----------------------------- MODULE Quicksort -----------------------------
(***************************************************************************)
(* The quicksort of M2.T2C in its three programs: sequential, forking      *)
(* std::threads to a fixed depth, and spawning OpenMP tasks.  The array is *)
(* shared and nothing locks it: what keeps two threads apart is only where *)
(* the partitions landed.                                                  *)
(*                                                                         *)
(* A call of quicksort is a path in the tree of calls: the halves of call  *)
(* c are c \o <<0>> and c \o <<1>>.  A partition moves by rounds of its    *)
(* two scans and an insertion sort by keys, so that calls on different     *)
(* threads interleave on the array.                                        *)
(***************************************************************************)
EXTENDS Integers, Sequences, FiniteSets, FiniteSetsExt

CONSTANTS
    N,              \* elements of the array
    Values,         \* the values they may have
    InsertionCutoff,\* ranges this size or smaller are insertion sorted
    SizeCutoff,     \* --size-cutoff and --task-cutoff: larger ranges fork
    Threads,        \* --threads
    Rules           \* the pivot rules tried

ASSUME SortAssumption ==
    /\ N \in Nat \ {0}
    /\ Values \subseteq Int
    /\ InsertionCutoff \in Nat \ {0}
    /\ SizeCutoff \in Nat
    /\ Threads \in Nat \ {0}
    /\ Rules \subseteq {"median3", "middle", "last", "first"}

Index == 0 .. N - 1
Programs == {"sequential", "threads", "openmp"}

\* The fork depth: the least d with 2 ^ d threads at least.
ForkDepth == Min({d \in 0 .. Threads : 2 ^ d >= Threads})

VARIABLES
    program, rule, \* the program run and its --pivot
    input,         \* the array before the sort
    a,             \* the array
    calls          \* the open calls of quicksort, by path

vars == <<program, rule, input, a, calls>>

Root == <<>>
Left(c) == c \o <<0>>
Right(c) == c \o <<1>>

Call(lo, hi, depth) ==
    [at |-> "enter", lo |-> lo, hi |-> hi, depth |-> depth,
     pivot |-> 0, i |-> 0, j |-> 0, forked |-> FALSE]

Init ==
    /\ program \in Programs
    /\ rule \in Rules
    /\ input \in [Index -> Values]
    /\ a = input
    /\ calls = [c \in {Root} |-> Call(0, N - 1, ForkDepth)]

-----------------------------------------------------------------------------
Swap(s, x, y) == [s EXCEPT ![x] = s[y], ![y] = s[x]]

Between(x, y, z) == (x <= y /\ y <= z) \/ (z <= y /\ y <= x)

PivotIndex(lo, hi) ==
    LET mid == lo + (hi - lo) \div 2
    IN  CASE rule = "first"  -> lo
          [] rule = "last"   -> hi
          [] rule = "middle" -> mid
          [] OTHER ->
               CASE Between(a[lo], a[mid], a[hi]) -> mid
                 [] Between(a[mid], a[lo], a[hi]) -> lo
                 [] OTHER -> hi

Set(c, r) == calls' = [calls EXCEPT ![c] = r]
Size(q) == q.hi - q.lo + 1

\* quicksort returns at once, starts an insertion sort, or picks a pivot and
\* swaps it to the front of the range.
Enter(c) ==
    LET q == calls[c]
        p == PivotIndex(q.lo, q.hi)
    IN  /\ q.at = "enter"
        /\ CASE q.lo >= q.hi -> Set(c, [q EXCEPT !.at = "done"]) /\ UNCHANGED a
             [] q.lo < q.hi /\ Size(q) <= InsertionCutoff ->
                  Set(c, [q EXCEPT !.at = "insert", !.i = q.lo + 1]) /\ UNCHANGED a
             [] OTHER ->
                  /\ a' = Swap(a, q.lo, p)
                  /\ Set(c, [q EXCEPT !.at = "scan", !.pivot = a[p],
                                      !.i = q.lo - 1, !.j = q.hi + 1])
        /\ UNCHANGED <<program, rule, input>>

\* The keys after position x that are greater than the key at i shift up by one.
Inserted(lo, i) ==
    LET x == Min({y \in lo .. i : \A z \in y .. i - 1 : a[z] > a[i]})
    IN  [y \in Index |-> IF y = x THEN a[i] ELSE IF y \in x + 1 .. i THEN a[y - 1] ELSE a[y]]

InsertKey(c) ==
    LET q == calls[c] IN
    /\ q.at = "insert" /\ q.i <= q.hi
    /\ a' = Inserted(q.lo, q.i)
    /\ Set(c, [q EXCEPT !.i = @ + 1])
    /\ UNCHANGED <<program, rule, input>>

InsertionEnds(c) ==
    LET q == calls[c] IN
    /\ q.at = "insert" /\ q.i > q.hi
    /\ Set(c, [q EXCEPT !.at = "done"])
    /\ UNCHANGED <<program, rule, input, a>>

\* Mutant: the scan passes elements equal to the pivot.
ScanUpPastEqual(q) == Min({x \in q.i + 1 .. N : x = N \/ a[x] > q.pivot})

\* Where the two scans stop.  Nothing in them tests the end of the range.
ScanUp(q) == Min({x \in q.i + 1 .. N : x = N \/ a[x] >= q.pivot})
ScanDown(q) == Max({x \in -1 .. q.j - 1 : x = -1 \/ a[x] <= q.pivot})

\* The scans stopped on two elements of the wrong halves.
SwapPair(c) ==
    LET q == calls[c]
        i == ScanUp(q)
        j == ScanDown(q)
    IN  /\ q.at = "scan" /\ i < j
        /\ a' = Swap(a, i, j)
        /\ Set(c, [q EXCEPT !.i = i, !.j = j])
        /\ UNCHANGED <<program, rule, input>>

\* The threads program forks while it has depth left, the OpenMP one always.
MayFork(q) ==
    /\ program = "openmp" \/ (program = "threads" /\ q.depth > 0)
    /\ Size(q) > SizeCutoff

\* Mutant: the halves may fork as often as their caller.
SameDepth(q) == q.depth

\* The depth the halves inherit.
DepthLeft(q) == IF program = "threads" /\ MayFork(q) THEN q.depth - 1 ELSE q.depth

\* Mutant: the partition returns where the upward scan stopped.
LastLowerUp(q) == ScanUp(q)

\* Where partition_hoare returns: the last index of the lower half.
LastLower(q) == ScanDown(q)

\* Mutant: the halves share the element at p.
UpperFromLast(q, p) == Call(p, q.hi, DepthLeft(q))

Lower(q, p) == Call(q.lo, p, DepthLeft(q))
Upper(q, p) == Call(p + 1, q.hi, DepthLeft(q))

\* The sequential program recurses into the smaller half and loops on the other.
LeftIsSmaller(q, p) == p - q.lo < q.hi - (p + 1)
First(q, p) ==
    IF program # "sequential" \/ LeftIsSmaller(q, p) THEN Lower(q, p) ELSE Upper(q, p)

\* Mutant: the loop goes round with the range it had.
SecondWhole(q, p) == Call(q.lo, q.hi, q.depth)

\* The range the sequential program loops on.
Second(q, p) ==
    IF program # "sequential" \/ LeftIsSmaller(q, p) THEN Upper(q, p) ELSE Lower(q, p)

\* The scans crossed: the partition returns.  A call that forks starts both
\* halves, another one the first.
Split(c) ==
    LET q == calls[c]
        p == LastLower(q)
        halves == IF MayFork(q) THEN {Left(c), Right(c)} ELSE {Left(c)}
    IN  /\ q.at = "scan" /\ ScanUp(q) >= ScanDown(q)
        /\ calls' = [d \in DOMAIN calls \union halves |->
             CASE d = c -> [q EXCEPT !.at = "calls", !.i = p, !.forked = MayFork(q)]
               [] d = Left(c) -> First(q, p)
               [] d = Right(c) -> Upper(q, p)
               [] OTHER -> calls[d]]
        /\ UNCHANGED <<program, rule, input, a>>

Halves(c) == {Left(c), Right(c)} \intersect DOMAIN calls

\* Mutant: a call that forked does not wait for its halves.
FinishedUnjoined(c) ==
    /\ calls[c].at = "calls"
    /\ calls[c].forked \/ \A d \in Halves(c) : calls[d].at = "done"

Finished(c) ==
    /\ calls[c].at = "calls"
    /\ \A d \in Halves(c) : calls[d].at = "done"

Without(D) == [d \in DOMAIN calls \ D |-> calls[d]]

\* The sequential program goes round its loop with the larger half.
LoopOn(c) ==
    /\ program = "sequential" /\ Finished(c)
    /\ calls' = [Without(Halves(c)) EXCEPT ![c] = Second(calls[c], calls[c].i)]
    /\ UNCHANGED <<program, rule, input, a>>

\* A call that did not fork calls the right half when the left one returns.
CallRight(c) ==
    LET q == calls[c] IN
    /\ program # "sequential" /\ Finished(c)
    /\ ~q.forked /\ Left(c) \in DOMAIN calls
    /\ calls' = [d \in (DOMAIN calls \ {Left(c)}) \union {Right(c)} |->
                   IF d = Right(c) THEN Upper(q, q.i) ELSE calls[d]]
    /\ UNCHANGED <<program, rule, input, a>>

\* join or taskwait, or the return of the second plain call.
Join(c) ==
    LET q == calls[c] IN
    /\ program # "sequential" /\ Finished(c)
    /\ q.forked \/ Right(c) \in DOMAIN calls
    /\ calls' = [Without(Halves(c)) EXCEPT ![c].at = "done"]
    /\ UNCHANGED <<program, rule, input, a>>

Step(c) ==
    \/ Enter(c) \/ InsertKey(c) \/ InsertionEnds(c) \/ SwapPair(c) \/ Split(c)
    \/ LoopOn(c) \/ CallRight(c) \/ Join(c)

Sorted == calls[Root].at = "done"

Next == (\E c \in DOMAIN calls : Step(c)) \/ (Sorted /\ UNCHANGED vars)

Spec == Init /\ [][Next]_vars /\ WF_vars(\E c \in DOMAIN calls : Step(c))

-----------------------------------------------------------------------------
(* Properties                                                              *)

\* Calls nest and their ranges stay in the array.
TypeOK ==
    /\ a \in [Index -> Values]
    /\ \A c \in DOMAIN calls :
         /\ c = Root \/ SubSeq(c, 1, Len(c) - 1) \in DOMAIN calls
         /\ calls[c].lo \in 0 .. N /\ calls[c].hi \in -1 .. N - 1
         /\ calls[c].at \in {"enter", "insert", "scan", "calls", "done"}

\* The calls that read or write the array now: no other call waits below them.
Working == {c \in DOMAIN calls : calls[c].at \in {"enter", "insert", "scan"}}
Reach(c) == calls[c].lo .. calls[c].hi

\* Two calls that work on the array at the same time share no element: "Two
\* sibling tasks never touch the same index", which is why there is no mutex.
WorkIsDisjoint ==
    \A c, d \in Working : c # d => Reach(c) \intersect Reach(d) = {}

\* Calls nest in the array (TypeOK); the scans of partition_hoare, which no
\* bound check stops, stay inside the range, and neither half of a partition is
\* empty or the whole range.
ScansStayInside ==
    /\ TypeOK
    /\ \A c \in DOMAIN calls :
         /\ calls[c].at = "scan" =>
              ScanUp(calls[c]) <= calls[c].hi /\ ScanDown(calls[c]) >= calls[c].lo
         /\ calls[c].at = "calls" =>
              calls[c].lo <= calls[c].i /\ calls[c].i < calls[c].hi

\* While the halves of a partition are sorted, in any order or at once, no
\* element of the lower half exceeds one of the upper.
HalvesStayOrdered ==
    \A c \in DOMAIN calls : calls[c].at = "calls" =>
        \A x \in calls[c].lo .. calls[c].i, y \in calls[c].i + 1 .. calls[c].hi :
            a[x] <= a[y]

Occurrences(s, v) == Cardinality({x \in Index : s[x] = v})

\* When the first call returns, the array is the input in ascending order:
\* nothing dropped or repeated, and no child still running (join, taskwait).
ReturnsSorted ==
    Sorted =>
        /\ DOMAIN calls = {Root}
        /\ \A x, y \in Index : x <= y => a[x] <= a[y]
        /\ \A v \in Values : Occurrences(a, v) = Occurrences(input, v)

\* The threads alive: the main one, and each left half forked and not finished.
LiveThreads ==
    1 + Cardinality({c \in DOMAIN calls :
            /\ calls[c].forked /\ calls[c].at = "calls"
            /\ calls[Left(c)].at # "done"})

\* "the live thread count tops out at 2^depth", however the splits fall, and no
\* call inherits a depth below zero.
ThreadsBounded ==
    /\ \A c \in DOMAIN calls : calls[c].depth \in 0 .. ForkDepth
    /\ program = "threads" => LiveThreads <= 2 ^ ForkDepth

\* The sequential program's stack holds at most one call for each halving of
\* the array, "even when a pivot rule keeps splitting badly".
StackIsShallow ==
    program = "sequential" => 2 ^ (Cardinality(DOMAIN calls) - 1) <= N

\* The two together: what the comments promise of threads and stack.
ResourcesBounded == ThreadsBounded /\ StackIsShallow

\* Every sort ends: every partition makes progress, and every join is answered.
SortEnds == <>Sorted
=============================================================================
