-------------------------- MODULE MapReduceProofs --------------------------
(***************************************************************************)
(* Proofs about MapReduce, for any file, options, number of ranks, size of *)
(* the chunks that are read and limit on the length of a line.             *)
(***************************************************************************)
EXTENDS MapReduce, DataLemmas, SequenceTheorems

-----------------------------------------------------------------------------
(* The lines of a file                                                     *)

GoodFile(f) == f.size \in Nat /\ f.newlines \subseteq 0 .. f.size - 1 /\ LinesOf(f)

Begin(f, i) == f.lines[i][1]
End(f, i)   == f.lines[i][2]

\* A line is where it begins and where it ends.
LEMMA LineIs ==
    ASSUME NEW f, GoodFile(f)
    PROVE  /\ Len(f.lines) \in Nat /\ DOMAIN f.lines = 1 .. Len(f.lines)
           /\ f.lines \in Seq(Nat \X Nat)
           /\ \A i \in 1 .. Len(f.lines) :
                 /\ f.lines[i] \in Nat \X Nat
                 /\ Begin(f, i) \in Nat /\ End(f, i) \in Nat /\ f.lines[i] = <<Begin(f, i), End(f, i)>>
                 /\ Begin(f, i) <= End(f, i)
                 /\ Begin(f, i) = IF i = 1 THEN 0 ELSE End(f, i - 1) + 1
                 /\ \A b \in f.newlines : b < Begin(f, i) \/ End(f, i) <= b
<1>1. f.lines \in Seq(Nat \X Nat)
  BY DEF GoodFile, LinesOf
<1>2. Len(f.lines) \in Nat /\ DOMAIN f.lines = 1 .. Len(f.lines)
  BY <1>1
<1>3. ASSUME NEW i \in 1 .. Len(f.lines)
      PROVE  /\ f.lines[i] \in Nat \X Nat
             /\ Begin(f, i) \in Nat /\ End(f, i) \in Nat /\ f.lines[i] = <<Begin(f, i), End(f, i)>>
  BY <1>1, <1>2 DEF Begin, End
<1>4. ASSUME NEW i \in 1 .. Len(f.lines)
      PROVE  /\ Begin(f, i) <= End(f, i)
             /\ Begin(f, i) = IF i = 1 THEN 0 ELSE End(f, i - 1) + 1
             /\ f.newlines \intersect Begin(f, i) .. End(f, i) - 1 = {}
  BY <1>2 DEF GoodFile, LinesOf, Begin, End
<1>5. ASSUME NEW i \in 1 .. Len(f.lines), NEW b \in f.newlines
      PROVE  b < Begin(f, i) \/ End(f, i) <= b
  <2>1. b \in Int
    BY DEF GoodFile
  <2>2. b \notin Begin(f, i) .. End(f, i) - 1
    BY <1>4
  <2> QED BY <1>3, <2>1, <2>2
<1> QED BY <1>1, <1>2, <1>3, <1>4, <1>5

\* Where the lines end
LEMMA EndsAre ==
    ASSUME NEW f, GoodFile(f)
    PROVE  /\ \A i \in 1 .. Len(f.lines) : End(f, i) \in f.newlines \/ (End(f, i) = f.size /\ f.size > 0
                                                                         /\ f.size - 1 \notin f.newlines)
           /\ \A b \in f.newlines : \E i \in 1 .. Len(f.lines) : End(f, i) = b
           /\ f.size > 0 => \E i \in 1 .. Len(f.lines) : End(f, i) \in {f.size - 1, f.size}
<1> DEFINE ends == f.newlines \union (IF f.size = 0 \/ f.size - 1 \in f.newlines THEN {} ELSE {f.size})
<1>1. ends = {f.lines[i][2] : i \in DOMAIN f.lines} /\ DOMAIN f.lines = 1 .. Len(f.lines) /\ f.size \in Nat
  BY LineIs DEF GoodFile, LinesOf
<1>2. \A i \in 1 .. Len(f.lines) : End(f, i) \in ends
  BY <1>1 DEF End
<1>3. \A b \in ends : \E i \in 1 .. Len(f.lines) : End(f, i) = b
  BY <1>1 DEF End
<1>4. f.size > 0 => f.size - 1 \in ends \/ f.size \in ends
  BY <1>1
<1>5. \A i \in 1 .. Len(f.lines) : End(f, i) \in f.newlines \/ (End(f, i) = f.size /\ f.size > 0
                                                                 /\ f.size - 1 \notin f.newlines)
  BY <1>1, <1>2
<1>6. \A b \in f.newlines : b \in ends
  OBVIOUS
<1> HIDE DEF ends
<1> QED BY <1>3, <1>4, <1>5, <1>6

\* A line ends before a later one begins.
LEMMA LinesGrow ==
    ASSUME NEW f, GoodFile(f), NEW i \in 1 .. Len(f.lines), NEW j \in 1 .. Len(f.lines), i < j
    PROVE  End(f, i) < Begin(f, j) /\ Begin(f, i) < Begin(f, j)
<1> DEFINE n == Len(f.lines)
           ok == {k \in 0 .. n : k = 0 \/ i >= k \/ End(f, i) < Begin(f, k)}
<1>0. n \in Nat /\ \A k \in 1 .. n : /\ Begin(f, k) \in Nat /\ End(f, k) \in Nat /\ Begin(f, k) <= End(f, k)
                                     /\ Begin(f, k) = IF k = 1 THEN 0 ELSE End(f, k - 1) + 1
  BY LineIs
<1>1. 0 \in ok
  BY <1>0
<1>2. ASSUME NEW k \in 1 .. n, k - 1 \in ok PROVE k \in ok
  <2> SUFFICES ASSUME i < k PROVE End(f, i) < Begin(f, k)
    BY <1>0
  <2>1. k - 1 \in 1 .. n /\ Begin(f, k) = End(f, k - 1) + 1 /\ k - 1 # 0
    BY <1>0
  <2>2. i = k - 1 \/ (i < k - 1 /\ End(f, i) < Begin(f, k - 1))
    BY <1>0, <1>2, <2>1
  <2>3. End(f, i) <= End(f, k - 1)
    <3>1. CASE i = k - 1
      BY <1>0, <3>1, SMTT(30)
    <3>2. CASE i < k - 1 /\ End(f, i) < Begin(f, k - 1)
      <4>1. Begin(f, k - 1) <= End(f, k - 1) /\ Begin(f, k - 1) \in Nat /\ End(f, k - 1) \in Nat
        BY <1>0, <2>1
      <4> QED BY <1>0, <3>2, <4>1
    <3> QED BY <2>2, <3>1, <3>2
  <2>4. End(f, k - 1) \in Nat
    BY <1>0, <2>1
  <2> QED BY <1>0, <2>1, <2>3, <2>4
<1> HIDE DEF n, ok
<1>3. \A k \in 0 .. n : k \in ok
  BY <1>0, <1>1, <1>2, Climb
<1>4. End(f, i) < Begin(f, j)
  BY <1>0, <1>3 DEF n, ok
<1> QED BY <1>0, <1>4 DEF n

\* Where the lines of a file begin and where the last one ends
LEMMA LinesWithin ==
    ASSUME NEW f, GoodFile(f)
    PROVE  /\ \A i \in 1 .. Len(f.lines) : Begin(f, i) < f.size /\ End(f, i) <= f.size
           /\ \A i \in 1 .. Len(f.lines) : End(f, i) >= f.size - 1 <=> i = Len(f.lines)
           /\ f.size > 0 <=> Len(f.lines) > 0
<1> DEFINE n == Len(f.lines)
<1>0. n \in Nat /\ f.size \in Nat /\ f.newlines \subseteq 0 .. f.size - 1
  BY LineIs DEF GoodFile
<1>1. ASSUME NEW i \in 1 .. n PROVE End(f, i) \in Nat /\ Begin(f, i) \in Nat /\ End(f, i) <= f.size
  <2>1. End(f, i) \in Nat /\ Begin(f, i) \in Nat
    BY LineIs
  <2>2. End(f, i) \in f.newlines \/ End(f, i) = f.size
    BY EndsAre
  <2> QED BY <1>0, <2>1, <2>2
<1>2. ASSUME NEW i \in 1 .. n PROVE Begin(f, i) < f.size
  <2>1. Begin(f, i) <= End(f, i) /\ Begin(f, i) = IF i = 1 THEN 0 ELSE End(f, i - 1) + 1
    BY LineIs
  <2> SUFFICES ASSUME Begin(f, i) = f.size PROVE FALSE
    BY <1>0, <1>1, <2>1
  <2>2. End(f, i) = f.size
    BY <1>0, <1>1, <2>1
  <2>3. End(f, i) \notin f.newlines
    BY <1>0, <2>2
  <2>4. f.size > 0 /\ f.size - 1 \notin f.newlines
    BY <2>3, EndsAre
  <2>5. i # 1 /\ i - 1 \in 1 .. n /\ End(f, i - 1) + 1 = f.size
    BY <1>0, <2>1, <2>4
  <2>6. End(f, i - 1) = f.size - 1 /\ End(f, i - 1) # f.size
    <3>1. End(f, i - 1) \in Nat
      BY <1>1, <2>5
    <3> QED BY <1>0, <2>5, <3>1
  <2>7. End(f, i - 1) \in f.newlines
    BY <2>5, <2>6, EndsAre
  <2> QED BY <2>4, <2>6, <2>7
<1>3. ASSUME NEW i \in 1 .. n, End(f, i) >= f.size - 1 PROVE i = n
  <2> SUFFICES ASSUME i < n PROVE FALSE
    BY <1>0
  <2>1. n \in 1 .. n
    BY <1>0
  <2>2. End(f, i) < Begin(f, n)
    BY <2>1, LinesGrow
  <2> QED BY <1>0, <1>1, <1>2, <1>3, <2>1, <2>2
<1>4. f.size > 0 => n > 0 /\ End(f, n) >= f.size - 1
  <2> SUFFICES ASSUME f.size > 0 PROVE n > 0 /\ End(f, n) >= f.size - 1
    OBVIOUS
  <2>1. PICK i \in 1 .. n : End(f, i) \in {f.size - 1, f.size}
    BY EndsAre
  <2>2. End(f, i) >= f.size - 1
    BY <1>0, <2>1
  <2> QED BY <1>0, <1>3, <2>1, <2>2
<1>5. n > 0 => f.size > 0
  <2> SUFFICES ASSUME n > 0 PROVE f.size > 0
    OBVIOUS
  <2>1. 1 \in 1 .. n
    BY <1>0
  <2> QED BY <1>0, <1>1, <1>2, <2>1
<1> QED BY <1>0, <1>1, <1>2, <1>3, <1>4, <1>5

-----------------------------------------------------------------------------
(* forEachLine                                                             *)

\* The lines that begin before a byte are the first ones.
IsCut(f, b, k) == k \in 0 .. Len(f.lines) /\ \A i \in 1 .. Len(f.lines) : Begin(f, i) < b <=> i <= k

Cut(f, b) == CHOOSE k \in 0 .. Len(f.lines) : IsCut(f, b, k)

\* There is such a number for every byte, and it grows with the byte.
LEMMA CutIs ==
    ASSUME NEW f, GoodFile(f), NEW b \in Nat
    PROVE  IsCut(f, b, Cut(f, b)) /\ Cut(f, b) \in 0 .. Len(f.lines)
<1> DEFINE n == Len(f.lines)
           S == {k \in 0 .. n : k = n \/ ~(Begin(f, k + 1) < b)}
<1>0. n \in Nat /\ \A k \in 1 .. n : Begin(f, k) \in Nat
  BY LineIs
<1>1. S \subseteq Nat /\ n \in S
  BY <1>0
<1>2. PICK k \in S : \A j \in S : k <= j
  <2> HIDE DEF S
  <2> QED BY <1>1, LeastOf
<1>3. k \in 0 .. n /\ (k = n \/ ~(Begin(f, k + 1) < b))
  BY <1>2
<1>4. ASSUME NEW i \in 1 .. n, i <= k PROVE Begin(f, i) < b
  <2>1. i - 1 \in 0 .. n /\ ~(k <= i - 1) /\ i - 1 # n /\ (i - 1) + 1 = i
    BY <1>0, <1>3, <1>4
  <2>2. i - 1 \notin S
    BY <1>2, <2>1
  <2> QED BY <2>1, <2>2
<1>5. ASSUME NEW i \in 1 .. n, k < i PROVE ~(Begin(f, i) < b)
  <2>1. k + 1 \in 1 .. n /\ k # n /\ Begin(f, k + 1) \in Nat /\ Begin(f, i) \in Nat
    BY <1>0, <1>3, <1>5
  <2>2. i = k + 1 \/ k + 1 < i
    BY <1>0, <1>3, <1>5
  <2>3. Begin(f, k + 1) <= Begin(f, i)
    <3>1. CASE i = k + 1
      BY <2>1, <3>1
    <3>2. CASE k + 1 < i
      BY <2>1, <3>2, LinesGrow
    <3> QED BY <2>2, <3>1, <3>2
  <2> QED BY <1>3, <2>1, <2>3
<1> HIDE DEF S
<1>6. ASSUME NEW i \in 1 .. n PROVE Begin(f, i) < b <=> i <= k
  BY <1>0, <1>3, <1>4, <1>5
<1>7. IsCut(f, b, k)
  BY <1>3, <1>6 DEF IsCut
<1> HIDE DEF n
<1> QED BY <1>3, <1>7 DEF Cut, n

\* The cut before the first byte, and the one at the end
LEMMA CutsAre ==
    ASSUME NEW f, GoodFile(f)
    PROVE  /\ Cut(f, 0) = 0 /\ Cut(f, f.size) = Len(f.lines)
           /\ \A b \in Nat, c \in Nat : b <= c => Cut(f, b) <= Cut(f, c)
<1>0. Len(f.lines) \in Nat /\ f.size \in Nat /\ \A k \in 1 .. Len(f.lines) : Begin(f, k) \in Nat /\ Begin(f, k) < f.size
  BY LineIs, LinesWithin DEF GoodFile
<1>1. Cut(f, 0) = 0
  <2>1. IsCut(f, 0, Cut(f, 0)) /\ Cut(f, 0) \in 0 .. Len(f.lines)
    BY CutIs
  <2> SUFFICES ASSUME Cut(f, 0) # 0 PROVE FALSE
    OBVIOUS
  <2>2. Cut(f, 0) \in 1 .. Len(f.lines)
    BY <1>0, <2>1
  <2> QED BY <1>0, <2>1, <2>2 DEF IsCut
<1>2. Cut(f, f.size) = Len(f.lines)
  <2>1. IsCut(f, f.size, Cut(f, f.size)) /\ Cut(f, f.size) \in 0 .. Len(f.lines)
    BY <1>0, CutIs
  <2> SUFFICES ASSUME Cut(f, f.size) # Len(f.lines) PROVE FALSE
    OBVIOUS
  <2>2. Len(f.lines) \in 1 .. Len(f.lines) /\ ~(Len(f.lines) <= Cut(f, f.size))
    BY <1>0, <2>1
  <2> QED BY <1>0, <2>1, <2>2 DEF IsCut
<1>3. ASSUME NEW b \in Nat, NEW c \in Nat, b <= c PROVE Cut(f, b) <= Cut(f, c)
  <2>1. /\ IsCut(f, b, Cut(f, b)) /\ Cut(f, b) \in 0 .. Len(f.lines)
        /\ IsCut(f, c, Cut(f, c)) /\ Cut(f, c) \in 0 .. Len(f.lines)
    BY CutIs
  <2> SUFFICES ASSUME ~(Cut(f, b) <= Cut(f, c)) PROVE FALSE
    OBVIOUS
  <2>2. Cut(f, b) \in 1 .. Len(f.lines)
    BY <1>0, <2>1
  <2>3. Begin(f, Cut(f, b)) < b /\ ~(Begin(f, Cut(f, b)) < c)
    BY <1>0, <2>1, <2>2 DEF IsCut
  <2> QED BY <1>0, <1>3, <2>2, <2>3
<1> QED BY <1>1, <1>2, <1>3

\* A newline between the beginning of a line and the end of what was read ends it.
LEMMA EndOfLine ==
    ASSUME NEW f, GoodFile(f), NEW i \in 1 .. Len(f.lines), NEW at \in Nat, NEW to \in Nat,
           Begin(f, i) <= at, at <= End(f, i), to <= f.size
    PROVE  LET newlines == {b \in f.newlines : at <= b /\ b < to}
           IN  /\ newlines # {} => Min(newlines) = End(f, i) /\ End(f, i) < to
               /\ newlines = {} => to <= End(f, i)
<1> DEFINE newlines == {b \in f.newlines : at <= b /\ b < to}
<1>0. f.size \in Nat /\ f.newlines \subseteq 0 .. f.size - 1 /\ End(f, i) \in Nat /\ Begin(f, i) \in Nat
  BY LineIs DEF GoodFile
<1>1. \A b \in newlines : b \in Int /\ End(f, i) <= b /\ b < to /\ b < f.size /\ b \in f.newlines
  <2> SUFFICES ASSUME NEW b \in newlines PROVE b \in Int /\ End(f, i) <= b /\ b < to /\ b < f.size
    OBVIOUS
  <2>1. b < Begin(f, i) \/ End(f, i) <= b
    BY LineIs
  <2> QED BY <1>0, <2>1
<1>2. End(f, i) \in f.newlines \/ End(f, i) = f.size
  BY EndsAre
<1>3. ASSUME newlines # {} PROVE Min(newlines) = End(f, i) /\ End(f, i) < to
  <2>1. PICK b \in newlines : TRUE
    BY <1>3
  <2>2. End(f, i) < to /\ End(f, i) < f.size
    BY <1>0, <1>1, <2>1
  <2>3. End(f, i) \in newlines
    BY <1>0, <1>2, <2>2
  <2>4. \A y \in newlines : End(f, i) <= y
    BY <1>1
  <2>5. \A x \in newlines : (\A y \in newlines : x <= y) => x = End(f, i)
    BY <1>0, <1>1, <2>3
  <2> HIDE DEF newlines
  <2> QED BY <2>2, <2>3, <2>4, <2>5 DEF Min
<1>4. ASSUME newlines = {} PROVE to <= End(f, i)
  <2>1. CASE End(f, i) = f.size
    BY <2>1
  <2>2. CASE End(f, i) \in f.newlines
    <3>1. End(f, i) \notin newlines
      BY <1>4
    <3> QED BY <1>0, <2>2, <3>1
  <2> QED BY <1>2, <2>1, <2>2
<1> QED BY <1>3, <1>4

\* How much is read: something, and not beyond the file.
LEMMA WantIs ==
    ASSUME NEW f, f.size \in Nat, NEW end \in Nat, NEW p \in Nat, p < f.size
    PROVE  Want(f, end, p) \in Nat /\ Want(f, end, p) >= 1 /\ p + Want(f, end, p) <= f.size
<1> DEFINE M == {end - p, MaxLine}
           S == {ChunkBytes, f.size - p, Max({end - p, MaxLine})}
<1>0. ChunkBytes \in Nat /\ ChunkBytes >= 1 /\ MaxLine \in Nat /\ MaxLine >= 1
  BY BytesAssumption
<1>1. Max(M) \in Int /\ Max(M) >= MaxLine
  <2>1. \E x \in M : \A y \in M : x >= y
    <3>1. CASE end - p >= MaxLine
      BY <1>0, <3>1
    <3>2. CASE ~(end - p >= MaxLine)
      BY <1>0, <3>2
    <3> QED BY <3>1, <3>2
  <2>2. Max(M) \in M /\ \A y \in M : Max(M) >= y
    <3> HIDE DEF M
    <3> QED BY <2>1 DEF Max
  <2>3. MaxLine \in M /\ \A x \in M : x \in Int
    BY <1>0
  <2> HIDE DEF M
  <2> QED BY <2>2, <2>3
<1> HIDE DEF M
<1>2. S = {ChunkBytes, f.size - p, Max(M)}
  BY DEF M
<1>3. \A x \in S : x \in Int /\ x >= 1
  BY <1>0, <1>1, <1>2
<1>4. \E x \in S : \A y \in S : x <= y
  <2> DEFINE a == ChunkBytes
             b == f.size - p
             c == Max(M)
  <2>1. a \in Int /\ b \in Int /\ c \in Int /\ S = {a, b, c}
    BY <1>0, <1>1, <1>2
  <2> HIDE DEF a, b, c, S
  <2>2. CASE a <= b /\ a <= c
    BY <2>1, <2>2
  <2>3. CASE b <= a /\ b <= c
    BY <2>1, <2>3
  <2>4. CASE c <= a /\ c <= b
    BY <2>1, <2>4
  <2> QED BY <2>1, <2>2, <2>3, <2>4
<1>5. Min(S) \in S /\ \A y \in S : Min(S) <= y
  <2> HIDE DEF S
  <2> QED BY <1>4 DEF Min
<1>6. f.size - p \in S
  OBVIOUS
<1>7. Want(f, end, p) = Min(S)
  BY DEF Want
<1> HIDE DEF S
<1> QED BY <1>3, <1>5, <1>6, <1>7

-----------------------------------------------------------------------------
(* The loop of forEachLine                                                 *)

\* How far the loop is from its end at most
Above(x) == IF x > 0 THEN x ELSE 0
Left(f, s) == IF s.status = "reading" THEN 1 + 2 * Above(f.size - s.readPos) + Above(s.readPos - s.at) ELSE 0

\* A turn of the loop comes closer to its end.
LEMMA TurnLeaves ==
    ASSUME NEW f, GoodFile(f), NEW end \in Nat, NEW s \in Readings, s.status = "reading"
    PROVE  /\ Turn(f, end, s) \in Readings
           /\ Left(f, Turn(f, end, s)) \in Nat /\ Left(f, s) \in Nat
           /\ Left(f, Turn(f, end, s)) < Left(f, s)
<1> DEFINE newlines == {b \in f.newlines : s.at <= b /\ b < s.readPos}
           t == Turn(f, end, s)
<1>0. /\ s.at \in Nat /\ s.readPos \in Nat /\ s.lines \in Seq(Nat \X Nat) /\ f.size \in Nat
      /\ f.newlines \subseteq Nat /\ s.skipping \in BOOLEAN
      /\ s = [at |-> s.at, readPos |-> s.readPos, skipping |-> s.skipping, lines |-> s.lines, status |-> "reading"]
  BY DEF Readings, GoodFile
<1> SUFFICES t \in Readings /\ Left(f, t) \in Nat /\ Left(f, s) \in Nat /\ Left(f, t) < Left(f, s)
  OBVIOUS
<1>l. Left(f, s) \in Nat /\ Left(f, s) >= 1
  <2>1. Left(f, s) = 1 + 2 * Above(f.size - s.readPos) + Above(s.readPos - s.at)
    BY DEF Left
  <2>2. Above(f.size - s.readPos) \in Nat /\ Above(s.readPos - s.at) \in Nat
    BY <1>0 DEF Above
  <2> QED BY <2>1, <2>2
<1>c. ASSUME NEW x \in Nat, NEW y \in Nat, t.at = x, t.readPos = y, t.status = "reading",
             \/ y = s.readPos /\ s.readPos - s.at > 0 /\ x > s.at
             \/ x = s.at /\ y > s.readPos /\ y <= f.size
      PROVE  Left(f, t) \in Nat /\ Left(f, t) < Left(f, s)
  <2>0. \/ y = s.readPos /\ s.readPos - s.at > 0 /\ x > s.at
        \/ x = s.at /\ y > s.readPos /\ y <= f.size
    BY <1>c
  <2>1. Left(f, t) = 1 + 2 * Above(f.size - y) + Above(y - x)
    BY <1>c DEF Left
  <2>2. Left(f, s) = 1 + 2 * Above(f.size - s.readPos) + Above(s.readPos - s.at)
    BY DEF Left
  <2> HIDE DEF t
  <2>3. CASE y = s.readPos /\ s.readPos - s.at > 0 /\ x > s.at
    <3>1. Above(y - x) \in Nat /\ Above(y - x) < Above(s.readPos - s.at) /\ Above(f.size - y) \in Nat
          /\ Above(s.readPos - s.at) \in Nat
      BY <1>0, <2>3 DEF Above
    <3>2. Above(f.size - y) = Above(f.size - s.readPos)
      BY <2>3
    <3> QED BY <2>1, <2>2, <3>1, <3>2
  <2>4. CASE x = s.at /\ y > s.readPos /\ y <= f.size
    <3>1. /\ Above(f.size - y) = f.size - y /\ Above(f.size - s.readPos) = f.size - s.readPos
      BY <1>0, <2>4 DEF Above
    <3>2. /\ Above(y - x) \in Nat /\ Above(s.readPos - s.at) \in Nat
          /\ Above(y - x) <= Above(s.readPos - s.at) + (y - s.readPos)
      BY <1>0, <2>4 DEF Above
    <3> DEFINE a == Above(y - x)
               b == Above(s.readPos - s.at)
    <3>3. a \in Nat /\ b \in Nat /\ a <= b + (y - s.readPos)
      BY <3>2
    <3>4. Left(f, t) = 1 + 2 * (f.size - y) + a /\ Left(f, s) = 1 + 2 * (f.size - s.readPos) + b
      BY <2>1, <2>2, <3>1
    <3> HIDE DEF a, b
    <3>5. ASSUME NEW r \in Nat, NEW n \in Nat, r < y, y <= n, a <= b + (y - r)
          PROVE  /\ 1 + 2 * (n - y) + a \in Nat
                 /\ 1 + 2 * (n - y) + a < 1 + 2 * (n - r) + b
      <4>1. 2 * (n - y) \in Nat /\ 2 * (n - r) = 2 * (n - y) + 2 * (y - r) /\ 2 * (y - r) = (y - r) + (y - r)
        BY <3>5
      <4>2. 1 + 2 * (n - y) + a \in Nat
        BY <3>3, <4>1
      <4> QED BY <3>3, <3>5, <4>1, <4>2
    <3> QED BY <1>0, <2>4, <3>3, <3>4, <3>5
  <2> QED BY <2>0, <2>3, <2>4
<1>e. ASSUME t \in Readings, t.status # "reading" PROVE Left(f, t) \in Nat /\ Left(f, t) < Left(f, s)
  <2>1. Left(f, t) = 0
    BY <1>e DEF Left
  <2> QED BY <1>l, <2>1
<1>1. CASE newlines # {}
  <2>1. PICK i \in newlines : i = Min(newlines)
    <3>1. newlines \subseteq Nat
      BY <1>0
    <3>2. \E x \in newlines : \A y \in newlines : x <= y
      <4> HIDE DEF newlines
      <4> QED BY <1>1, <3>1, LeastOf
    <3> HIDE DEF newlines
    <3> QED BY <3>2 DEF Min
  <2>2. i \in Nat /\ s.at <= i /\ i < s.readPos
    BY <1>0, <2>1
  <2>3. t = Hand(s, end, i)
    BY <1>1, <2>1 DEF Turn
  <2>4. CASE s.skipping
    <3>1. t = [at |-> i + 1, readPos |-> s.readPos, skipping |-> FALSE, lines |-> s.lines, status |-> "reading"]
      BY <1>0, <2>3, <2>4 DEF Hand
    <3> HIDE DEF t
    <3>2. t \in Readings
      BY <1>0, <2>2, <3>1 DEF Readings
    <3>3. t.at = i + 1 /\ t.readPos = s.readPos /\ t.status = "reading"
      BY <3>1
    <3> QED BY <1>0, <1>c, <1>l, <2>2, <3>2, <3>3
  <2>5. CASE ~s.skipping /\ s.at >= end
    <3>1. t = [at |-> s.at, readPos |-> s.readPos, skipping |-> s.skipping, lines |-> s.lines, status |-> "done"]
      BY <1>0, <2>3, <2>5 DEF Hand
    <3> HIDE DEF t
    <3>2. t \in Readings /\ t.status = "done"
      BY <1>0, <2>2, <3>1 DEF Readings
    <3> QED BY <1>l, <1>e, <3>2
  <2>6. CASE ~s.skipping /\ s.at < end
    <3> DEFINE more == Append(s.lines, <<s.at, i>>)
    <3>1. t = [at |-> i + 1, readPos |-> s.readPos, skipping |-> s.skipping, lines |-> more, status |-> "reading"]
      <4>1. t = [s EXCEPT !.at = i + 1, !.lines = more]
        BY <2>3, <2>6 DEF Hand
      <4> HIDE DEF more
      <4> QED BY <1>0, <4>1
    <3>2. more \in Seq(Nat \X Nat)
      BY <1>0, <2>2
    <3> HIDE DEF t, more
    <3>3. t \in Readings
      BY <1>0, <2>2, <3>1, <3>2 DEF Readings
    <3>4. t.at = i + 1 /\ t.readPos = s.readPos /\ t.status = "reading"
      BY <3>1
    <3> QED BY <1>0, <1>c, <1>l, <2>2, <3>3, <3>4
  <2> QED BY <1>0, <2>4, <2>5, <2>6
<1>2. CASE newlines = {}
  <2>1. t = Refill(f, end, s)
    BY <1>2 DEF Turn
  <2>2. CASE s.readPos >= f.size
    <3> DEFINE more == IF s.readPos - s.at > 0 /\ ~s.skipping /\ s.at < end
                       THEN Append(s.lines, <<s.at, s.readPos>>) ELSE s.lines
    <3>1. t = [at |-> s.at, readPos |-> s.readPos, skipping |-> s.skipping, lines |-> more, status |-> "done"]
      BY <1>0, <2>1, <2>2 DEF Refill
    <3>2. more \in Seq(Nat \X Nat)
      BY <1>0
    <3> HIDE DEF t, more
    <3>3. t \in Readings /\ t.status = "done"
      BY <1>0, <3>1, <3>2 DEF Readings
    <3> QED BY <1>l, <1>e, <3>3
  <2>3. CASE ~(s.readPos >= f.size) /\ TooLong(s.readPos - s.at)
    <3>1. t = [at |-> s.at, readPos |-> s.readPos, skipping |-> s.skipping, lines |-> s.lines, status |-> "failed"]
      BY <1>0, <2>1, <2>3 DEF Refill
    <3> HIDE DEF t
    <3>2. t \in Readings /\ t.status = "failed"
      BY <1>0, <3>1 DEF Readings
    <3> QED BY <1>l, <1>e, <3>2
  <2>4. CASE ~(s.readPos >= f.size) /\ ~TooLong(s.readPos - s.at)
    <3> DEFINE w == Want(f, end, s.readPos)
    <3>1. t = [at |-> s.at, readPos |-> s.readPos + w, skipping |-> s.skipping, lines |-> s.lines,
               status |-> "reading"]
      BY <1>0, <2>1, <2>4 DEF Refill
    <3>2. w \in Nat /\ w >= 1 /\ s.readPos + w <= f.size
      BY <1>0, <2>4, WantIs
    <3> HIDE DEF t, w
    <3>3. t \in Readings
      BY <1>0, <3>1, <3>2 DEF Readings
    <3>4. t.at = s.at /\ t.readPos = s.readPos + w /\ t.status = "reading"
      BY <3>1
    <3> QED BY <1>0, <1>c, <1>l, <2>4, <3>2, <3>3, <3>4
  <2> QED BY <2>2, <2>3, <2>4
<1> QED BY <1>1, <1>2

\* What the turns keep, the loop ends with.
LEMMA LoopEnds ==
    ASSUME NEW f, GoodFile(f), NEW end \in Nat, NEW Good, Good \subseteq Readings,
           \A s \in Good : s.status = "reading" => Turn(f, end, s) \in Good,
           NEW read, read = CHOOSE g : g = [s \in Readings |-> IF s.status = "reading" THEN g[Turn(f, end, s)] ELSE s],
           NEW s0 \in Good
    PROVE  read[s0] \in Good /\ read[s0].status # "reading"
<1> DEFINE m == [s \in Readings |-> Left(f, s)]
           stop == {s \in Readings : s.status # "reading"}
           next == [s \in Readings |-> Turn(f, end, s)]
           val == [s \in Readings |-> s]
           o == [w \in Readings \X Readings |-> w[2]]
<1>1. m \in [Readings -> Nat]
  <2> SUFFICES ASSUME NEW s \in Readings PROVE Left(f, s) \in Nat
    OBVIOUS
  <2>1. s.at \in Int /\ s.readPos \in Int /\ f.size \in Int
    BY DEF Readings, GoodFile
  <2> QED BY <2>1 DEF Left, Above
<1>2. ASSUME NEW s \in Readings \ stop PROVE next[s] \in Readings /\ m[next[s]] < m[s] /\ next[s] = Turn(f, end, s)
  <2>1. s.status = "reading"
    OBVIOUS
  <2>2. Turn(f, end, s) \in Readings /\ Left(f, Turn(f, end, s)) < Left(f, s)
    BY <2>1, TurnLeaves
  <2> QED BY <2>2
<1>3. /\ \A s \in Readings \cap stop : val[s] \in Readings
      /\ \A s \in Readings \ stop : \A a \in Readings : o[<<s, a>>] \in Readings
  OBVIOUS
<1>4. PICK g \in [Readings -> Readings] : Recurs(g, Readings, stop, next, val, o)
  <2> HIDE DEF m, stop, next, val, o
  <2> QED BY <1>1, <1>2, <1>3, RecursionDefines
<1>5. \A s \in Readings : g[s] = IF s.status = "reading" THEN g[Turn(f, end, s)] ELSE s
  <2> SUFFICES ASSUME NEW s \in Readings PROVE g[s] = IF s.status = "reading" THEN g[Turn(f, end, s)] ELSE s
    OBVIOUS
  <2>1. g[s] = IF s \in stop THEN val[s] ELSE o[<<s, g[next[s]]>>]
    <3> HIDE DEF stop, val, o, next
    <3> QED BY <1>4 DEF Recurs
  <2>2. CASE s \in stop
    BY <2>1, <2>2
  <2>3. CASE s \notin stop
    <3>1. next[s] = Turn(f, end, s) /\ next[s] \in Readings
      BY <1>2, <2>3
    <3>2. o[<<s, g[next[s]]>>] = g[next[s]]
      BY <1>4, <3>1
    <3> QED BY <2>1, <2>3, <3>1, <3>2
  <2> QED BY <2>2, <2>3
<1>6. g = [s \in Readings |-> IF s.status = "reading" THEN g[Turn(f, end, s)] ELSE s]
  <2> DEFINE h == [s \in Readings |-> IF s.status = "reading" THEN g[Turn(f, end, s)] ELSE s]
  <2>1. \A s \in Readings : h[s] = g[s]
    BY <1>5
  <2>2. g = [s \in Readings |-> g[s]]
    BY <1>4
  <2>3. h = [s \in Readings |-> g[s]]
    BY <1>5
  <2> QED BY <2>2, <2>3
<1>7. read = [s \in Readings |-> IF s.status = "reading" THEN read[Turn(f, end, s)] ELSE s]
  BY <1>6
<1>8. \A s \in Readings : read[s] = IF s.status = "reading" THEN read[Turn(f, end, s)] ELSE s
  BY <1>7
<1> DEFINE bad == {s \in Good : ~(read[s] \in Good /\ read[s].status # "reading")}
           sizes == {Left(f, s) : s \in bad}
<1> SUFFICES ASSUME bad # {} PROVE FALSE
  OBVIOUS
<1>9. sizes \subseteq Nat /\ sizes # {}
  <2>1. \A s \in bad : Left(f, s) \in Nat
    BY <1>1
  <2> QED BY <2>1
<1>10. PICK k \in sizes : \A j \in sizes : k <= j
  <2> HIDE DEF sizes
  <2> QED BY <1>9, LeastOf
<1>11. PICK s \in bad : Left(f, s) = k
  BY <1>10
<1>12. s \in Good /\ s \in Readings /\ ~(read[s] \in Good /\ read[s].status # "reading")
  BY <1>11
<1>13. s.status = "reading"
  BY <1>8, <1>12
<1> DEFINE t == Turn(f, end, s)
<1>14. t \in Good /\ Left(f, t) \in Nat /\ Left(f, t) < k /\ read[s] = read[t]
  BY <1>8, <1>11, <1>12, <1>13, TurnLeaves
<1> HIDE DEF t
<1>15. t \in bad
  BY <1>12, <1>14
<1>16. k <= Left(f, t) /\ k \in Nat
  BY <1>9, <1>10, <1>15
<1> QED BY <1>14, <1>16

\* Where the loop is after the first k lines
Place(f, k) == IF k < Len(f.lines) THEN Begin(f, k + 1) ELSE f.size

TooLongLine(f) == \E i \in 1 .. Len(f.lines) : End(f, i) - Begin(f, i) > MaxLine

\* Inside the line that begins before the range
Skips(f, start, s) ==
    /\ s.skipping /\ s.lines = <<>> /\ s.at = start
    /\ Cut(f, start) >= 1 /\ Begin(f, Cut(f, start)) < start /\ start <= End(f, Cut(f, start))

\* Behind line k, and the lines of the range up to it were handed over
Hands(f, start, end, s) ==
    /\ ~s.skipping
    /\ \E k \in Cut(f, start) .. Cut(f, end) :
          s.lines = SubSeq(f.lines, Cut(f, start) + 1, k) /\ s.at = Place(f, k)

\* What the loop of forEachLine keeps: it has failed at a line that is too
\* long, or handed over the lines that begin in the range, or is on its way.
LoopInv(f, start, end, s) ==
    /\ s \in Readings
    /\ \/ s.status = "failed" /\ TooLongLine(f)
       \/ s.status = "done" /\ s.lines = SubSeq(f.lines, Cut(f, start) + 1, Cut(f, end))
       \/ /\ s.status = "reading" /\ start <= s.at /\ s.at <= s.readPos /\ s.readPos <= f.size
          /\ Skips(f, start, s) \/ Hands(f, start, end, s)

\* Behind the end of a line that was read to its newline is the next one.
LEMMA NextPlace ==
    ASSUME NEW f, GoodFile(f), NEW i \in 1 .. Len(f.lines), End(f, i) < f.size
    PROVE  End(f, i) + 1 = Place(f, i)
<1>1. Len(f.lines) \in Nat /\ f.size \in Nat /\ End(f, i) \in Nat
  BY LineIs DEF GoodFile
<1>2. CASE i < Len(f.lines)
  <2>1. i + 1 \in 1 .. Len(f.lines) /\ i + 1 # 1 /\ (i + 1) - 1 = i
    BY <1>1, <1>2
  <2>2. Begin(f, i + 1) = End(f, i) + 1
    BY <2>1, LineIs
  <2> QED BY <1>2, <2>2 DEF Place
<1>3. CASE ~(i < Len(f.lines))
  <2>1. End(f, i) >= f.size - 1
    BY <1>1, <1>3, LinesWithin
  <2> QED BY <1>1, <1>3, <2>1 DEF Place
<1> QED BY <1>2, <1>3

\* The lines up to k, and one more
LEMMA OneMore ==
    ASSUME NEW f, GoodFile(f), NEW c \in Nat, NEW k \in Nat, c <= k, k < Len(f.lines)
    PROVE  /\ Append(SubSeq(f.lines, c + 1, k), f.lines[k + 1]) = SubSeq(f.lines, c + 1, k + 1)
           /\ SubSeq(f.lines, c + 1, c) = <<>>
<1>1. f.lines \in Seq(Nat \X Nat) /\ Len(f.lines) \in Nat
  BY LineIs
<1>2. SubSeq(f.lines, c + 1, c) = <<>>
  BY <1>1
<1>3. SubSeq(f.lines, c + 1, k + 1) = SubSeq(f.lines, c + 1, (k + 1) - 1) \o <<f.lines[k + 1]>>
  <2>1. c + 1 \in 1 .. Len(f.lines) /\ k + 1 \in c + 1 .. Len(f.lines)
    BY <1>1
  <2> QED BY <1>1, <2>1, SubSeqRecursiveSecond
<1>4. SubSeq(f.lines, c + 1, k) \in Seq(Nat \X Nat) /\ f.lines[k + 1] \in Nat \X Nat
  <2>1. \A i \in c + 1 .. k : f.lines[i] \in Nat \X Nat
    BY <1>1
  <2> QED BY <1>1, <2>1, SubSeqProperties
<1>5. Append(SubSeq(f.lines, c + 1, k), f.lines[k + 1]) = SubSeq(f.lines, c + 1, k) \o <<f.lines[k + 1]>>
  <2> DEFINE q == SubSeq(f.lines, c + 1, k)
             x == f.lines[k + 1]
  <2> HIDE DEF q, x
  <2> QED BY <1>4, AppendIsConcat DEF q, x
<1>6. (k + 1) - 1 = k
  OBVIOUS
<1> QED BY <1>2, <1>3, <1>5, <1>6

\* The newlines in the buffer
InBuffer(f, s) == {b \in f.newlines : s.at <= b /\ b < s.readPos}

\* What a turn does, case by case, when the first newline in the buffer is e
Turned(f, end, s, t, newlines, e) ==
    /\ newlines # {} /\ s.skipping =>
         t.status = "reading" /\ t.at = e + 1 /\ t.readPos = s.readPos /\ ~t.skipping /\ t.lines = s.lines
    /\ newlines # {} /\ ~s.skipping /\ s.at >= end => t.status = "done" /\ t.lines = s.lines
    /\ newlines # {} /\ ~s.skipping /\ s.at < end =>
         /\ t.status = "reading" /\ t.at = e + 1 /\ t.readPos = s.readPos /\ ~t.skipping
         /\ t.lines = Append(s.lines, <<s.at, e>>)
    /\ newlines = {} /\ s.readPos >= f.size =>
         /\ t.status = "done"
         /\ t.lines = IF s.readPos - s.at > 0 /\ ~s.skipping /\ s.at < end
                      THEN Append(s.lines, <<s.at, s.readPos>>) ELSE s.lines
    /\ newlines = {} /\ s.readPos < f.size =>
         \/ t.status = "failed" /\ s.readPos - s.at > MaxLine
         \/ /\ t.status = "reading" /\ t.at = s.at /\ t.readPos >= s.readPos /\ t.readPos <= f.size
            /\ t.skipping = s.skipping /\ t.lines = s.lines

LEMMA TurnIs ==
    ASSUME NEW f, GoodFile(f), NEW end \in Nat, NEW s \in Readings, s.status = "reading"
    PROVE  Turned(f, end, s, Turn(f, end, s), InBuffer(f, s), Min(InBuffer(f, s)))
<1> DEFINE t == Turn(f, end, s)
           newlines == InBuffer(f, s)
           e == Min(newlines)
<1>0. /\ s.at \in Nat /\ s.readPos \in Nat /\ f.size \in Nat /\ s.skipping \in BOOLEAN
      /\ s = [at |-> s.at, readPos |-> s.readPos, skipping |-> s.skipping, lines |-> s.lines, status |-> "reading"]
  BY DEF Readings, GoodFile
<1>1. newlines # {} => t = Hand(s, end, e)
  BY DEF Turn, InBuffer
<1>2. newlines = {} => t = Refill(f, end, s)
  BY DEF Turn, InBuffer
<1> HIDE DEF t, newlines, e
<1>3. ASSUME newlines # {}, s.skipping
      PROVE  t.status = "reading" /\ t.at = e + 1 /\ t.readPos = s.readPos /\ ~t.skipping /\ t.lines = s.lines
  <2>1. t = [s EXCEPT !.at = e + 1, !.skipping = FALSE]
    BY <1>1, <1>3 DEF Hand
  <2> QED BY <1>0, <2>1
<1>4. ASSUME newlines # {}, ~s.skipping, s.at >= end PROVE t.status = "done" /\ t.lines = s.lines
  <2>1. t = [s EXCEPT !.status = "done"]
    BY <1>0, <1>1, <1>4 DEF Hand
  <2> QED BY <1>0, <2>1
<1>5. ASSUME newlines # {}, ~s.skipping, s.at < end
      PROVE  /\ t.status = "reading" /\ t.at = e + 1 /\ t.readPos = s.readPos /\ ~t.skipping
             /\ t.lines = Append(s.lines, <<s.at, e>>)
  <2> DEFINE more == Append(s.lines, <<s.at, e>>)
  <2>1. t = [s EXCEPT !.at = e + 1, !.lines = more]
    BY <1>0, <1>1, <1>5 DEF Hand
  <2>2. t.lines = more
    <3> HIDE DEF more
    <3> QED BY <1>0, <2>1
  <2> HIDE DEF more
  <2> QED BY <1>0, <1>5, <2>1, <2>2 DEF more
<1>6. ASSUME newlines = {}, s.readPos >= f.size
      PROVE  /\ t.status = "done"
             /\ t.lines = IF s.readPos - s.at > 0 /\ ~s.skipping /\ s.at < end
                          THEN Append(s.lines, <<s.at, s.readPos>>) ELSE s.lines
  <2> DEFINE more == IF s.readPos - s.at > 0 /\ ~s.skipping /\ s.at < end
                     THEN Append(s.lines, <<s.at, s.readPos>>) ELSE s.lines
  <2>1. t = [s EXCEPT !.status = "done", !.lines = more]
    BY <1>0, <1>2, <1>6 DEF Refill
  <2> HIDE DEF more
  <2>2. t.status = "done" /\ t.lines = more
    BY <1>0, <2>1
  <2> QED BY <2>2 DEF more
<1>7. ASSUME newlines = {}, s.readPos < f.size
      PROVE  \/ t.status = "failed" /\ s.readPos - s.at > MaxLine
             \/ /\ t.status = "reading" /\ t.at = s.at /\ t.readPos >= s.readPos /\ t.readPos <= f.size
                /\ t.skipping = s.skipping /\ t.lines = s.lines
  <2>1. CASE TooLong(s.readPos - s.at)
    <3>1. t = [s EXCEPT !.status = "failed"]
      BY <1>0, <1>2, <1>7, <2>1 DEF Refill
    <3> QED BY <1>0, <2>1, <3>1 DEF TooLong
  <2>2. CASE ~TooLong(s.readPos - s.at)
    <3> DEFINE w == Want(f, end, s.readPos)
    <3>1. t = [s EXCEPT !.readPos = s.readPos + w]
      BY <1>0, <1>2, <1>7, <2>2 DEF Refill
    <3>2. w \in Nat /\ s.readPos + w <= f.size
      BY <1>0, <1>7, WantIs
    <3> HIDE DEF w
    <3> QED BY <1>0, <3>1, <3>2
  <2> QED BY <2>1, <2>2
<1> QED BY <1>3, <1>4, <1>5, <1>6, <1>7 DEF Turned, t, newlines, e

\* A turn keeps it.
LEMMA TurnKeeps ==
    ASSUME NEW f, GoodFile(f), NEW start \in Nat, NEW end \in Nat, start < end, end <= f.size,
           NEW s, LoopInv(f, start, end, s), s.status = "reading"
    PROVE  LoopInv(f, start, end, Turn(f, end, s))
<1> DEFINE n == Len(f.lines)
           c == Cut(f, start)
           z == Cut(f, end)
           t == Turn(f, end, s)
           newlines == InBuffer(f, s)
           e == Min(newlines)
<1> SUFFICES LoopInv(f, start, end, t)
  OBVIOUS
<1>0. /\ s \in Readings /\ s.at \in Nat /\ s.readPos \in Nat /\ f.size \in Nat
      /\ start <= s.at /\ s.at <= s.readPos /\ s.readPos <= f.size /\ s.skipping \in BOOLEAN
      /\ Skips(f, start, s) \/ Hands(f, start, end, s)
  BY DEF LoopInv, Readings, GoodFile
<1>1. n \in Nat /\ \A i \in 1 .. n : /\ Begin(f, i) \in Nat /\ End(f, i) \in Nat /\ Begin(f, i) <= End(f, i)
                                     /\ Begin(f, i) < f.size /\ End(f, i) <= f.size
                                     /\ (End(f, i) >= f.size - 1 <=> i = n)
                                     /\ f.lines[i] = <<Begin(f, i), End(f, i)>>
  BY LineIs, LinesWithin
<1>2. /\ c \in 0 .. n /\ \A i \in 1 .. n : Begin(f, i) < start <=> i <= c
      /\ z \in 0 .. n /\ \A i \in 1 .. n : Begin(f, i) < end <=> i <= z
      /\ c <= z
  <2>1. IsCut(f, start, c) /\ IsCut(f, end, z)
    BY CutIs
  <2>2. c <= z
    BY CutsAre
  <2> QED BY <2>1, <2>2 DEF IsCut
<1>3. t \in Readings
  BY <1>0, TurnLeaves
<1>t. Turned(f, end, s, t, newlines, e)
  BY <1>0, TurnIs
<1> HIDE DEF t, newlines, e
<1>t1. newlines # {} /\ s.skipping =>
         t.status = "reading" /\ t.at = e + 1 /\ t.readPos = s.readPos /\ ~t.skipping /\ t.lines = s.lines
  BY <1>t, Zenon DEF Turned
<1>t2. newlines # {} /\ ~s.skipping /\ s.at >= end => t.status = "done" /\ t.lines = s.lines
  BY <1>t, Zenon DEF Turned
<1>t3. newlines # {} /\ ~s.skipping /\ s.at < end =>
         /\ t.status = "reading" /\ t.at = e + 1 /\ t.readPos = s.readPos /\ ~t.skipping
         /\ t.lines = Append(s.lines, <<s.at, e>>)
  BY <1>t, Zenon DEF Turned
<1>t4. newlines = {} /\ s.readPos >= f.size =>
         /\ t.status = "done"
         /\ t.lines = IF s.readPos - s.at > 0 /\ ~s.skipping /\ s.at < end
                      THEN Append(s.lines, <<s.at, s.readPos>>) ELSE s.lines
  BY <1>t, Zenon DEF Turned
<1>t5. newlines = {} /\ s.readPos < f.size =>
         \/ t.status = "failed" /\ s.readPos - s.at > MaxLine
         \/ /\ t.status = "reading" /\ t.at = s.at /\ t.readPos >= s.readPos /\ t.readPos <= f.size
            /\ t.skipping = s.skipping /\ t.lines = s.lines
  BY <1>t, Zenon DEF Turned
<1>e. ASSUME NEW i \in 1 .. n, Begin(f, i) <= s.at, s.at <= End(f, i)
      PROVE  /\ newlines # {} => e = End(f, i) /\ End(f, i) < s.readPos
             /\ newlines = {} => s.readPos <= End(f, i)
  BY <1>0, <1>e, EndOfLine DEF newlines, e, InBuffer
<1>f. ASSUME NEW i \in 1 .. n, Begin(f, i) <= s.at, s.at <= End(f, i), newlines = {}, s.readPos < f.size,
             t.status = "reading" => Skips(f, start, t) \/ Hands(f, start, end, t)
      PROVE  LoopInv(f, start, end, t)
  <2>1. s.readPos <= End(f, i)
    BY <1>e, <1>f
  <2>2. CASE t.status = "failed" /\ s.readPos - s.at > MaxLine
    <3>1. End(f, i) - Begin(f, i) > MaxLine
      <4>1. End(f, i) \in Nat /\ Begin(f, i) \in Nat /\ MaxLine \in Nat
        BY <1>1, BytesAssumption
      <4> QED BY <1>0, <1>f, <2>1, <2>2, <4>1
    <3> QED BY <1>3, <2>2, <3>1 DEF LoopInv, TooLongLine
  <2>3. CASE t.status = "reading" /\ t.at = s.at /\ t.readPos >= s.readPos /\ t.readPos <= f.size
    <3>1. t.readPos \in Nat
      BY <1>3 DEF Readings
    <3> QED BY <1>0, <1>3, <1>f, <2>3, <3>1 DEF LoopInv
  <2> QED BY <1>t5, <1>f, <2>2, <2>3
<1>4. CASE Skips(f, start, s)
  <2>1. /\ s.skipping /\ s.lines = <<>> /\ s.at = start
        /\ c \in 1 .. n /\ Begin(f, c) <= s.at /\ s.at <= End(f, c)
    BY <1>1, <1>2, <1>4 DEF Skips
  <2>2. SubSeq(f.lines, c + 1, c) = <<>>
    BY <1>2, SubSeqEmpty
  <2>3. CASE newlines # {}
    <3>1. e = End(f, c) /\ End(f, c) < s.readPos /\ End(f, c) < f.size
      BY <1>0, <1>1, <1>e, <2>1, <2>3
    <3>2. e + 1 = Place(f, c)
      BY <2>1, <3>1, NextPlace
    <3>3. t.status = "reading" /\ t.at = e + 1 /\ t.readPos = s.readPos /\ ~t.skipping /\ t.lines = <<>>
      BY <1>t1, <2>1, <2>3
    <3>4. Hands(f, start, end, t)
      BY <1>2, <2>2, <3>2, <3>3 DEF Hands
    <3>5. start <= e + 1 /\ e + 1 <= s.readPos
      BY <1>0, <1>1, <2>1, <3>1
    <3> QED BY <1>0, <1>3, <3>3, <3>4, <3>5 DEF LoopInv
  <2>4. CASE newlines = {} /\ s.readPos >= f.size
    <3>1. End(f, c) = f.size
      BY <1>0, <1>1, <1>e, <2>1, <2>4
    <3>2. c = n /\ z = c
      BY <1>0, <1>1, <1>2, <2>1, <3>1
    <3>3. t.status = "done" /\ t.lines = <<>>
      BY <1>t4, <2>1, <2>4
    <3> QED BY <1>3, <2>2, <3>2, <3>3 DEF LoopInv
  <2>5. CASE newlines = {} /\ s.readPos < f.size
    <3>1. t.status = "reading" => Skips(f, start, t)
      BY <1>t5, <1>4, <2>1, <2>5 DEF Skips
    <3> QED BY <1>f, <2>1, <2>5, <3>1
  <2> QED BY <1>0, <2>3, <2>4, <2>5
<1>5. CASE Hands(f, start, end, s)
  <2>1. PICK k \in c .. z : s.lines = SubSeq(f.lines, c + 1, k) /\ s.at = Place(f, k)
    BY <1>5 DEF Hands
  <2>2. ~s.skipping
    BY <1>5 DEF Hands
  <2>3. CASE k < n
    <3>1. /\ k + 1 \in 1 .. n /\ s.at = Begin(f, k + 1) /\ Begin(f, k + 1) <= s.at /\ s.at <= End(f, k + 1)
          /\ End(f, k + 1) \in Nat
      BY <1>1, <1>2, <2>1, <2>3 DEF Place
    <3>2. s.at >= end => k = z
      BY <1>1, <1>2, <2>1, <3>1
    <3>3. s.at < end => k + 1 \in c .. z
      BY <1>1, <1>2, <2>1, <3>1
    <3>4. Append(s.lines, <<s.at, End(f, k + 1)>>) = SubSeq(f.lines, c + 1, k + 1)
      <4>1. f.lines[k + 1] = <<s.at, End(f, k + 1)>>
        BY <1>1, <3>1
      <4>2. c \in Nat /\ k \in Nat /\ c <= k
        BY <1>2, <2>1
      <4>3. Append(SubSeq(f.lines, c + 1, k), f.lines[k + 1]) = SubSeq(f.lines, c + 1, k + 1)
        BY <2>3, <4>2, OneMore
      <4> QED BY <2>1, <4>1, <4>3
    <3>5. CASE newlines # {} /\ s.at >= end
      <4>1. t.status = "done" /\ t.lines = s.lines
        BY <1>t2, <2>2, <3>5
      <4> QED BY <1>3, <2>1, <3>2, <3>5, <4>1 DEF LoopInv
    <3>6. CASE newlines # {} /\ s.at < end
      <4>1. e = End(f, k + 1) /\ End(f, k + 1) < s.readPos /\ End(f, k + 1) < f.size
        BY <1>0, <1>e, <3>1, <3>6
      <4>2. e + 1 = Place(f, k + 1)
        BY <3>1, <4>1, NextPlace
      <4>3. /\ t.status = "reading" /\ t.at = e + 1 /\ t.readPos = s.readPos /\ ~t.skipping
            /\ t.lines = SubSeq(f.lines, c + 1, k + 1)
        BY <1>t3, <2>2, <3>4, <3>6, <4>1
      <4>4. Hands(f, start, end, t)
        BY <3>3, <3>6, <4>2, <4>3 DEF Hands
      <4>5. start <= e + 1 /\ e + 1 <= s.readPos
        BY <1>0, <3>1, <4>1
      <4> QED BY <1>0, <1>3, <4>3, <4>4, <4>5 DEF LoopInv
    <3>7. CASE newlines = {} /\ s.readPos >= f.size
      <4>1. End(f, k + 1) = f.size /\ s.readPos = f.size
        BY <1>0, <1>1, <1>e, <3>1, <3>7
      <4>2. k + 1 = n /\ s.readPos - s.at > 0
        BY <1>0, <1>1, <3>1, <4>1
      <4>3. t.status = "done" /\ t.lines = IF s.at < end THEN Append(s.lines, <<s.at, s.readPos>>) ELSE s.lines
        BY <1>t4, <2>2, <3>7, <4>2
      <4>4. CASE s.at < end
        <5>1. k + 1 = z
          BY <1>2, <3>3, <4>2, <4>4
        <5>2. t.lines = SubSeq(f.lines, c + 1, k + 1)
          BY <3>4, <4>1, <4>3, <4>4
        <5> QED BY <1>3, <4>3, <5>1, <5>2 DEF LoopInv
      <4>5. CASE ~(s.at < end)
        <5>1. k = z
          BY <1>0, <3>2, <4>5
        <5> QED BY <1>3, <2>1, <4>3, <4>5, <5>1 DEF LoopInv
      <4> QED BY <4>4, <4>5
    <3>8. CASE newlines = {} /\ s.readPos < f.size
      <4>1. t.status = "reading" => Hands(f, start, end, t)
        BY <1>t5, <2>1, <2>2, <3>8 DEF Hands
      <4> QED BY <1>f, <3>1, <3>8, <4>1
    <3> QED BY <1>0, <3>5, <3>6, <3>7, <3>8
  <2>4. CASE ~(k < n)
    <3>1. k = n /\ z = k /\ s.at = f.size /\ s.readPos = f.size
      BY <1>0, <1>1, <1>2, <2>1, <2>4 DEF Place
    <3>2. newlines = {}
      BY <1>0, <3>1 DEF newlines, InBuffer, GoodFile
    <3>3. t.status = "done" /\ t.lines = s.lines
      BY <1>0, <1>t4, <3>1, <3>2
    <3> QED BY <1>3, <2>1, <3>1, <3>3 DEF LoopInv
  <2> QED BY <2>3, <2>4
<1> QED BY <1>0, <1>4, <1>5

\* The loop begins with it.
LEMMA LoopStarts ==
    ASSUME NEW f, GoodFile(f), NEW start \in Nat, NEW end \in Nat, start < end, end <= f.size
    PROVE  LoopInv(f, start, end, [at |-> start, readPos |-> start, skipping |-> SkipsFirst(f, start),
                                   lines |-> <<>>, status |-> "reading"])
<1> DEFINE n == Len(f.lines)
           c == Cut(f, start)
           s == [at |-> start, readPos |-> start, skipping |-> SkipsFirst(f, start), lines |-> <<>>,
                 status |-> "reading"]
<1>1. /\ n \in Nat /\ f.size \in Nat
      /\ \A i \in 1 .. n : /\ Begin(f, i) \in Nat /\ End(f, i) \in Nat /\ Begin(f, i) <= End(f, i)
                           /\ Begin(f, i) < f.size /\ End(f, i) <= f.size
                           /\ (End(f, i) >= f.size - 1 <=> i = n)
                           /\ Begin(f, i) = IF i = 1 THEN 0 ELSE End(f, i - 1) + 1
  BY LineIs, LinesWithin DEF GoodFile
<1>2. c \in 0 .. n /\ (\A i \in 1 .. n : Begin(f, i) < start <=> i <= c) /\ c <= Cut(f, end) /\ Cut(f, end) \in 0 .. n
  <2>1. IsCut(f, start, c) /\ IsCut(f, end, Cut(f, end))
    BY CutIs
  <2>2. c <= Cut(f, end)
    BY CutsAre
  <2> QED BY <2>1, <2>2 DEF IsCut
<1>3. /\ s \in Readings /\ s.status = "reading" /\ start <= s.at /\ s.at <= s.readPos /\ s.readPos <= f.size
      /\ s.at = start /\ s.lines = <<>> /\ s.skipping = SkipsFirst(f, start)
  BY <1>1 DEF Readings, SkipsFirst
<1> SUFFICES LoopInv(f, start, end, s)
  OBVIOUS
<1> HIDE DEF s
<1>4. n >= 1 /\ 1 \in 1 .. n
  BY <1>1, LinesWithin
<1>5. CASE SkipsFirst(f, start)
  <2>1. start > 0 /\ start - 1 \notin f.newlines
    BY <1>5 DEF SkipsFirst
  <2>2. c >= 1
    BY <1>1, <1>2, <1>4, <2>1
  <2>3. c \in 1 .. n /\ Begin(f, c) < start
    BY <1>1, <1>2, <2>2
  <2>4. start <= End(f, c)
    <3> SUFFICES ASSUME ~(start <= End(f, c)) PROVE FALSE
      OBVIOUS
    <3>1. End(f, c) \in Nat
      BY <1>1, <2>3
    <3>2. c < n /\ c + 1 \in 1 .. n /\ (c + 1) - 1 = c /\ c + 1 # 1
      BY <1>1, <2>3, <3>1
    <3>3. Begin(f, c + 1) = End(f, c) + 1 /\ ~(Begin(f, c + 1) < start)
      BY <1>1, <1>2, <3>2
    <3>4. End(f, c) = start - 1
      BY <3>1, <3>3
    <3>5. End(f, c) \in f.newlines \/ End(f, c) = f.size
      BY <2>3, EndsAre
    <3> QED BY <1>1, <2>1, <3>4, <3>5
  <2>5. Skips(f, start, s)
    BY <1>3, <1>5, <2>2, <2>3, <2>4 DEF Skips
  <2> QED BY <1>3, <2>5 DEF LoopInv
<1>6. CASE ~SkipsFirst(f, start)
  <2>1. start = Place(f, c)
    <3>1. CASE start = 0
      <4>1. c = 0
        BY <3>1, CutsAre
      <4>2. Begin(f, 1) = 0
        BY <1>1, <1>4
      <4> QED BY <1>4, <3>1, <4>1, <4>2 DEF Place
    <3>2. CASE start # 0
      <4>1. start - 1 \in f.newlines
        BY <1>6, <3>2 DEF SkipsFirst
      <4>2. PICK i \in 1 .. n : End(f, i) = start - 1
        BY <4>1, EndsAre
      <4>3. i < n /\ i + 1 \in 1 .. n /\ (i + 1) - 1 = i /\ i + 1 # 1
        BY <1>1, <4>2
      <4>4. Begin(f, i + 1) = start /\ Begin(f, i) < start
        BY <1>1, <4>2, <4>3
      <4>5. c = i
        <5>1. i <= c /\ ~(i + 1 <= c)
          BY <1>1, <1>2, <4>3, <4>4
        <5> QED BY <1>1, <1>2, <5>1
      <4> QED BY <4>3, <4>4, <4>5 DEF Place
    <3> QED BY <3>1, <3>2
  <2>2. SubSeq(f.lines, c + 1, c) = <<>>
    BY <1>2, SubSeqEmpty
  <2>3. Hands(f, start, end, s)
    BY <1>2, <1>3, <1>6, <2>1, <2>2 DEF Hands
  <2> QED BY <1>3, <2>3 DEF LoopInv
<1> QED BY <1>5, <1>6

\* forEachLine hands over the lines that begin in its range, however the reads
\* cut the file, unless a line is too long.
LEMMA ForEachLineHands ==
    ASSUME NEW f, GoodFile(f), NEW start \in Nat, NEW end \in Nat, end <= f.size
    PROVE  LET run == ForEachLine(f, start, end)
           IN  /\ run.lines \in Seq(Nat \X Nat) /\ run.status \in {"done", "failed"}
               /\ run.status = "failed" => TooLongLine(f)
               /\ run.status = "done" => run.lines = SubSeq(f.lines, Cut(f, start) + 1, Cut(f, end))
<1> DEFINE Reads(g) == g = [s \in Readings |-> IF s.status = "reading" THEN g[Turn(f, end, s)] ELSE s]
           read == CHOOSE g : Reads(g)
           s0 == [at |-> start, readPos |-> start, skipping |-> SkipsFirst(f, start),
                  lines |-> <<>>, status |-> IF start >= end THEN "done" ELSE "reading"]
           Good == {s \in Readings : LoopInv(f, start, end, s) /\ (s.status = "reading" => start < end)}
           run == read[s0]
<1>1. ForEachLine(f, start, end) = run
  BY DEF ForEachLine
<1>2. s0 \in Good
  <2>1. s0 \in Readings
    BY DEF Readings, SkipsFirst
  <2>2. CASE start < end
    <3>1. LoopInv(f, start, end, s0)
      BY <2>2, LoopStarts
    <3> QED BY <2>1, <2>2, <3>1
  <2>3. CASE ~(start < end)
    <3>1. s0.status = "done" /\ s0.lines = <<>>
      BY <2>3
    <3>2. Cut(f, end) <= Cut(f, start) /\ Cut(f, end) \in Int /\ Cut(f, start) \in Int
      BY <2>3, CutsAre, CutIs, LineIs
    <3>3. SubSeq(f.lines, Cut(f, start) + 1, Cut(f, end)) = <<>>
      BY <3>2, SubSeqEmpty
    <3> HIDE DEF s0
    <3> QED BY <2>1, <3>1, <3>3 DEF LoopInv
  <2> QED BY <2>2, <2>3
<1>3. \A s \in Good : s.status = "reading" => Turn(f, end, s) \in Good
  <2> SUFFICES ASSUME NEW s \in Good, s.status = "reading" PROVE Turn(f, end, s) \in Good
    OBVIOUS
  <2>1. LoopInv(f, start, end, s) /\ start < end
    OBVIOUS
  <2>2. LoopInv(f, start, end, Turn(f, end, s))
    BY <2>1, TurnKeeps
  <2> QED BY <2>1, <2>2 DEF LoopInv
<1>4. run \in Good /\ run.status # "reading"
  <2>1. Good \subseteq Readings
    OBVIOUS
  <2> HIDE DEF Good, s0
  <2> QED BY <1>2, <1>3, <2>1, LoopEnds
<1>5. run \in Readings /\ LoopInv(f, start, end, run)
  <2> HIDE DEF run
  <2> QED BY <1>4
<1> HIDE DEF run
<1>6. run.lines \in Seq(Nat \X Nat) /\ run.status \in {"done", "failed"}
  BY <1>4, <1>5 DEF Readings
<1> QED BY <1>1, <1>4, <1>5, <1>6 DEF LoopInv

-----------------------------------------------------------------------------
(* The ranges of the ranks, and what they give together                    *)

\* The ranges begin at the first byte, follow one another and end with the file.
LEMMA RangesAre ==
    ASSUME NEW size \in Nat
    PROVE  /\ RangeStart(size, 0, Procs) = 0 /\ RangeStart(size, Procs, Procs) = size
           /\ \A r \in 0 .. Procs : RangeStart(size, r, Procs) \in Nat /\ RangeStart(size, r, Procs) <= size
           /\ \A r \in 0 .. Procs, s \in 0 .. Procs :
                 r <= s => RangeStart(size, r, Procs) <= RangeStart(size, s, Procs)
<1>0. Procs \in Nat \ {0}
  BY ProcsAssumption
<1>1. RangeStart(size, 0, Procs) = 0
  <2>1. size * 0 = 0 /\ 0 \div Procs = 0
    BY <1>0
  <2> QED BY <2>1 DEF RangeStart
<1>2. RangeStart(size, Procs, Procs) = size
  <2> DEFINE d == (size * Procs) \div Procs
  <2>1. d \in Nat /\ d * Procs <= size * Procs /\ size * Procs < (d * Procs) + Procs
    BY <1>0, ShareOf
  <2> HIDE DEF d
  <2>2. d <= size
    <3> SUFFICES ASSUME d >= size + 1 PROVE FALSE
      BY <2>1
    <3>1. PICK k \in Nat : d = (size + 1) + k
      <4>1. d - (size + 1) \in Nat /\ d = (size + 1) + (d - (size + 1))
        BY <2>1
      <4> QED BY <4>1
    <3>2. d * Procs = ((size * Procs) + Procs) + (k * Procs)
      BY <1>0, <3>1
    <3>3. size * Procs \in Nat /\ k * Procs \in Nat
      BY <1>0
    <3> QED BY <1>0, <2>1, <3>2, <3>3
  <2>3. d >= size
    <3> SUFFICES ASSUME d + 1 <= size PROVE FALSE
      BY <2>1
    <3>1. PICK k \in Nat : size = (d + 1) + k
      <4>1. size - (d + 1) \in Nat /\ size = (d + 1) + (size - (d + 1))
        BY <2>1
      <4> QED BY <4>1
    <3>2. size * Procs = ((d * Procs) + Procs) + (k * Procs)
      BY <1>0, <2>1, <3>1
    <3>3. d * Procs \in Nat /\ k * Procs \in Nat
      BY <1>0, <2>1
    <3> QED BY <1>0, <2>1, <3>2, <3>3
  <2> QED BY <2>1, <2>2, <2>3 DEF RangeStart, d
<1>3. ASSUME NEW r \in 0 .. Procs, NEW s \in 0 .. Procs, r <= s
      PROVE  RangeStart(size, r, Procs) <= RangeStart(size, s, Procs)
  BY <1>0, <1>3, SharesGrow DEF RangeStart
<1>4. ASSUME NEW r \in 0 .. Procs PROVE RangeStart(size, r, Procs) \in Nat /\ RangeStart(size, r, Procs) <= size
  <2>1. RangeStart(size, r, Procs) \in Nat
    BY <1>0, ShareOf DEF RangeStart
  <2>2. RangeStart(size, r, Procs) <= RangeStart(size, Procs, Procs)
    BY <1>0, <1>3
  <2> QED BY <1>2, <2>1, <2>2
<1> QED BY <1>1, <1>2, <1>3, <1>4

\* The concatenation of sequences, one after the other
Joins(F, q, n) == F[1] = q[1] /\ \A i \in 2 .. n : F[i] = F[i - 1] \o q[i]

LEMMA FlattenIs ==
    ASSUME NEW n \in Nat \ {0}, NEW A, NEW q \in [1 .. n -> Seq(A)]
    PROVE  \E F \in [1 .. n -> Seq(A)] : Joins(F, q, n) /\ FlattenSeq(q) = F[n]
<1> DEFINE D == 1 .. n
           m == [i \in D |-> i]
           stop == {1}
           next == [i \in D |-> i - 1]
           val == q
           o == [w \in D \X Seq(A) |-> w[2] \o q[w[1]]]
           Flattens(g) == g = [i \in 1 .. n |-> IF i = 1 THEN q[i] ELSE g[i - 1] \o q[i]]
<1>1. q \in Seq(Seq(A)) /\ Len(q) = n
  OBVIOUS
<1>2. FlattenSeq(q) = (CHOOSE g : Flattens(g))[n]
  BY <1>1 DEF FlattenSeq
<1>3. m \in [D -> Nat] /\ \A i \in D \ stop : next[i] \in D /\ m[next[i]] < m[i]
  OBVIOUS
<1>4. \A i \in D \cap stop : val[i] \in Seq(A)
  OBVIOUS
<1>5. ASSUME NEW i \in D \ stop, NEW a \in Seq(A) PROVE o[<<i, a>>] = a \o q[i] /\ o[<<i, a>>] \in Seq(A)
  <2>1. o[<<i, a>>] = a \o q[i] /\ q[i] \in Seq(A)
    OBVIOUS
  <2> QED BY <2>1, ConcatProperties
<1>6. PICK h \in [D -> Seq(A)] : Recurs(h, D, stop, next, val, o)
  <2> HIDE DEF D, m, stop, next, val, o
  <2> QED BY <1>3, <1>4, <1>5, RecursionDefines
<1>7. ASSUME NEW i \in D PROVE h[i] = IF i = 1 THEN q[i] ELSE h[i - 1] \o q[i]
  <2>1. h[i] = IF i \in stop THEN val[i] ELSE o[<<i, h[next[i]]>>]
    <3> HIDE DEF D, stop, next, val, o
    <3> QED BY <1>6 DEF Recurs
  <2>2. CASE i = 1
    BY <2>1, <2>2
  <2>3. CASE i # 1
    <3>1. i - 1 \in D /\ next[i] = i - 1
      BY <2>3
    <3>2. o[<<i, h[next[i]]>>] = h[i - 1] \o q[i]
      <4> HIDE DEF o, next
      <4> QED BY <1>5, <1>6, <2>3, <3>1
    <3> QED BY <2>1, <2>3, <3>2
  <2> QED BY <2>2, <2>3
<1>8. Flattens(h)
  <2> DEFINE g == [i \in 1 .. n |-> IF i = 1 THEN q[i] ELSE h[i - 1] \o q[i]]
  <2>1. h = [i \in 1 .. n |-> h[i]]
    BY <1>6
  <2>2. g = [i \in 1 .. n |-> h[i]]
    BY <1>7, SMTT(30)
  <2> QED BY <2>1, <2>2
<1> DEFINE F == CHOOSE g : Flattens(g)
<1>9. F = [i \in 1 .. n |-> IF i = 1 THEN q[i] ELSE F[i - 1] \o q[i]]
  BY <1>8, Zenon
<1> HIDE DEF F, Flattens
<1>10. \A i \in 1 .. n : F[i] = IF i = 1 THEN q[i] ELSE F[i - 1] \o q[i]
  BY <1>9
<1>11. Joins(F, q, n)
  <2>1. F[1] = q[1]
    BY <1>10
  <2>2. ASSUME NEW i \in 2 .. n PROVE F[i] = F[i - 1] \o q[i]
    <3>1. i \in 1 .. n /\ i # 1
      OBVIOUS
    <3> QED BY <1>10, <3>1
  <2> QED BY <2>1, <2>2 DEF Joins
<1>12. \A i \in 1 .. n : F[i] \in Seq(A)
  <2> DEFINE S == {i \in 0 .. n : i = 0 \/ F[i] \in Seq(A)}
  <2>1. 0 \in S
    OBVIOUS
  <2>2. ASSUME NEW i \in 1 .. n, i - 1 \in S PROVE i \in S
    <3>1. q[i] \in Seq(A)
      OBVIOUS
    <3>2. CASE i = 1
      BY <1>10, <3>1, <3>2
    <3>3. CASE i # 1
      <4>1. F[i - 1] \in Seq(A)
        BY <2>2, <3>3
      <4>2. F[i - 1] \o q[i] \in Seq(A)
        BY <3>1, <4>1, ConcatProperties
      <4>3. F[i] \in Seq(A)
        BY <1>10, <3>3, <4>2
      <4> QED BY <4>3
    <3> QED BY <3>2, <3>3
  <2> HIDE DEF S
  <2>3. \A i \in 0 .. n : i \in S
    BY <2>1, <2>2, Climb
  <2> QED BY <2>3 DEF S
<1>13. F \in [1 .. n -> Seq(A)]
  BY <1>9, <1>12
<1> QED BY <1>2, <1>11, <1>13 DEF F

\* The ranks' lines, when each has those that begin in its range
LEMMA GatheredLines ==
    ASSUME NEW f, GoodFile(f), NEW h,
           \A r \in Ranks : h[r] = SubSeq(f.lines, Cut(f, RangeStart(f.size, r, Procs)) + 1,
                                          Cut(f, RangeStart(f.size, r + 1, Procs)))
    PROVE  Gathered(h) = f.lines
<1> DEFINE n == Len(f.lines)
           A == Nat \X Nat
           c(r) == Cut(f, RangeStart(f.size, r, Procs))
           q == [r \in 1 .. Procs |-> h[r - 1]]
<1>0. Procs \in Nat \ {0} /\ f.size \in Nat /\ n \in Nat /\ f.lines \in Seq(A)
  BY ProcsAssumption, LineIs DEF GoodFile
<1>1. c(0) = 0 /\ c(Procs) = n
  BY <1>0, RangesAre, CutsAre
<1>2. ASSUME NEW i \in 1 .. Procs
      PROVE  c(i) \in 0 .. n /\ c(i - 1) \in 0 .. n /\ c(i - 1) <= c(i)
  <2>1. i - 1 \in 0 .. Procs /\ i \in 0 .. Procs /\ i - 1 <= i
    BY <1>0
  <2>2. /\ RangeStart(f.size, i, Procs) \in Nat /\ RangeStart(f.size, i - 1, Procs) \in Nat
        /\ RangeStart(f.size, i - 1, Procs) <= RangeStart(f.size, i, Procs)
    BY <1>0, <2>1, RangesAre
  <2> QED BY <2>2, CutIs, CutsAre
<1>3. ASSUME NEW i \in 1 .. Procs PROVE q[i] = SubSeq(f.lines, c(i - 1) + 1, c(i)) /\ q[i] \in Seq(A)
  <2>1. i - 1 \in Ranks /\ (i - 1) + 1 = i
    BY <1>0 DEF Ranks
  <2>2. q[i] = SubSeq(f.lines, c(i - 1) + 1, c(i))
    BY <2>1
  <2>3. \A j \in c(i - 1) + 1 .. c(i) : f.lines[j] \in A
    <3> HIDE DEF c, A
    <3> QED BY <1>0, <1>2
  <2> HIDE DEF q, c
  <2> QED BY <1>0, <1>2, <2>2, <2>3, SubSeqProperties
<1>4. q \in [1 .. Procs -> Seq(A)]
  <2>1. \A i \in 1 .. Procs : q[i] \in Seq(A)
    BY <1>3
  <2> QED BY <2>1
<1> HIDE DEF c, A
<1>5. PICK F \in [1 .. Procs -> Seq(A)] : Joins(F, q, Procs) /\ FlattenSeq(q) = F[Procs]
  <2> HIDE DEF q
  <2> QED BY <1>0, <1>4, FlattenIs
<1>6. Gathered(h) = F[Procs]
  BY <1>5 DEF Gathered
<1> HIDE DEF q
<1> DEFINE S == {i \in 0 .. Procs : i = 0 \/ F[i] = SubSeq(f.lines, 1, c(i))}
<1>7. 0 \in S
  BY <1>0
<1> HIDE DEF S
<1>8. ASSUME NEW i \in 1 .. Procs, i - 1 \in S PROVE i \in S
  <2>1. CASE i = 1
    <3>1. F[1] = q[1] /\ q[1] = SubSeq(f.lines, c(1 - 1) + 1, c(1)) /\ c(1 - 1) = 0
      <4>1. 1 - 1 = 0
        OBVIOUS
      <4>2. c(1 - 1) = 0
        BY <1>1, <4>1
      <4>3. q[1] = SubSeq(f.lines, c(1 - 1) + 1, c(1))
        BY <1>3, <2>1
      <4> QED BY <1>5, <4>2, <4>3 DEF Joins
    <3>2. F[1] = SubSeq(f.lines, c(1 - 1) + 1, c(1)) /\ c(1 - 1) + 1 = 1
      BY <3>1
    <3>3. F[1] = SubSeq(f.lines, 1, c(1))
      BY <3>2, Zenon
    <3> QED BY <2>1, <3>3 DEF S
  <2>2. CASE i # 1
    <3>1. F[i - 1] = SubSeq(f.lines, 1, c(i - 1)) /\ i \in 2 .. Procs
      BY <1>0, <1>8, <2>2 DEF S
    <3>2. F[i] = F[i - 1] \o q[i] /\ q[i] = SubSeq(f.lines, c(i - 1) + 1, c(i))
      BY <1>3, <1>5, <3>1 DEF Joins
    <3>3. SubSeq(f.lines, 1, c(i - 1)) \o SubSeq(f.lines, c(i - 1) + 1, c(i)) = SubSeq(f.lines, 1, c(i))
      <4>1. 1 \in 1 .. n + 1 /\ c(i - 1) \in 1 - 1 .. n /\ c(i) \in c(i - 1) .. n
        BY <1>0, <1>2
      <4> HIDE DEF n
      <4> QED BY <1>0, <4>1, ConcatAdjacentSubSeq DEF n
    <3>4. F[i] = SubSeq(f.lines, 1, c(i))
      BY <3>1, <3>2, <3>3
    <3> QED BY <3>4 DEF S
  <2> QED BY <2>1, <2>2
<1>9. \A i \in 0 .. Procs : i \in S
  BY <1>0, <1>7, <1>8, Climb
<1>10. F[Procs] = SubSeq(f.lines, 1, n)
  BY <1>0, <1>1, <1>9 DEF S
<1>11. SubSeq(f.lines, 1, n) = f.lines
  BY <1>0, SubSeqFull
<1> QED BY <1>6, <1>10, <1>11

-----------------------------------------------------------------------------
(* Lists of entries                                                        *)

\* The places of a sequence
LEMMA PlacesOf ==
    ASSUME NEW n \in Nat
    PROVE  IsFiniteSet(1 .. n) /\ Cardinality(1 .. n) = n
<1>1. 1 \in Int /\ n \in Int
  OBVIOUS
<1>2. IsFiniteSet(1 .. n) /\ Cardinality(1 .. n) = IF 1 > n THEN 0 ELSE (n - 1) + 1
  BY <1>1, FS_Interval
<1> QED BY <1>2

\* i is before k
Increasing(S) == {w \in S \X S : w[1] < w[2]}

\* at has the members of s at these places, in order.
Selects(at, s, places) ==
    /\ Cardinality(places) \in Nat /\ Len(at) = Cardinality(places)
    /\ \E order \in [1 .. Cardinality(places) -> places] :
          /\ \A p \in 1 .. Cardinality(places) : at[p] = s[order[p]]
          /\ \A i \in places : \E p \in 1 .. Cardinality(places) : order[p] = i
          /\ \A p \in 1 .. Cardinality(places), q \in 1 .. Cardinality(places) : p < q <=> order[p] < order[q]

\* The members of a sequence at some places are members of it, in order.
LEMMA AtIs ==
    ASSUME NEW A, NEW s \in Seq(A), NEW places, places \subseteq DOMAIN s
    PROVE  At(s, places) \in Seq(A) /\ Selects(At(s, places), s, places)
<1> DEFINE n == Cardinality(places)
           L == Increasing(places)
           Size(x) == Cardinality({y \in places : y < x})
           order == [p \in 1 .. n |-> CHOOSE x \in places : Size(x) = p - 1]
           at == [p \in DOMAIN order |-> s[order[p]]]
<1>1. At(s, places) = at
  BY DEF At, InOrderOf
<1>2. Len(s) \in Nat /\ DOMAIN s = 1 .. Len(s) /\ \A i \in places : i \in Int /\ s[i] \in A
  OBVIOUS
<1>3. IsFiniteSet(places)
  BY <1>2, PlacesOf, FS_Subset
<1>4. IsOrder(places, L)
  BY <1>2 DEF IsOrder, Increasing
<1>5. ASSUME NEW x \in places PROVE Size(x) = Cardinality(Under(places, L, x))
  <2>1. {y \in places : y < x} = Under(places, L, x)
    BY DEF Under, Increasing
  <2> QED BY <2>1
<1>6. Lists(order, places, L)
  <2>1. ASSUME NEW p \in 1 .. n PROVE order[p] \in places /\ Cardinality(Under(places, L, order[p])) = p - 1
    <3>1. PICK x \in places : Cardinality(Under(places, L, x)) = p - 1
      <4> HIDE DEF L
      <4> QED BY <1>3, <1>4, PlacesExist
    <3>2. Size(x) = p - 1
      BY <1>5, <3>1
    <3>3. order[p] \in places /\ Size(order[p]) = p - 1
      <4> HIDE DEF Size
      <4> QED BY <3>2
    <3> HIDE DEF order, Size, L
    <3> QED BY <1>5, <3>3
  <2> HIDE DEF L, Size, n
  <2> QED BY <2>1 DEF Lists, n
<1> HIDE DEF L, order
<1>7. /\ n \in Nat /\ order \in [1 .. n -> places]
      /\ \A x \in places : \E p \in 1 .. n : order[p] = x
      /\ \A i \in 1 .. n, k \in 1 .. n : i < k <=> <<order[i], order[k]>> \in L
  BY <1>3, <1>4, <1>6, ListIs
<1>8. \A p \in 1 .. n, q \in 1 .. n : p < q <=> order[p] < order[q]
  BY <1>2, <1>7 DEF L, Increasing
<1>9. at \in [1 .. n -> A] /\ \A p \in 1 .. n : at[p] = s[order[p]]
  BY <1>2, <1>7
<1>10. at \in Seq(A) /\ Len(at) = n
  <2> HIDE DEF at, n
  <2> QED BY <1>7, <1>9
<1> HIDE DEF at, n
<1> QED BY <1>1, <1>7, <1>8, <1>9, <1>10 DEF n, Selects

\* Entries, and the keys in order
Entry == [hour : Nat, light : Nat, cars : Nat]
IsEntries(E) == E \subseteq [hour : Int, light : Int, cars : Int]

\* k is behind i in a sequence that is sorted by Before
LEMMA SortedByKey ==
    ASSUME NEW E, IsEntries(E), NEW s \in Seq(E)
    PROVE  Sorted(s, KeyLess) \in Seq(E) /\ Len(Sorted(s, KeyLess)) = Len(s)
<1> DEFINE n == Len(s)
           D == 1 .. n
           First(i, k) == KeyLess(s[i], s[k]) \/ (~KeyLess(s[k], s[i]) /\ i < k)
           L == {w \in D \X D : First(w[1], w[2])}
           Size(x) == Cardinality({y \in D : First(y, x)})
           order == [p \in 1 .. Cardinality(D) |-> CHOOSE x \in D : Size(x) = p - 1]
           sorted == [p \in D |-> s[order[p]]]
<1>1. n \in Nat /\ DOMAIN s = D /\ \A i \in D : s[i] \in E /\ s[i] \in [hour : Int, light : Int, cars : Int]
  BY DEF IsEntries
<1>2. Sorted(s, KeyLess) = sorted
  BY <1>1 DEF Sorted, InOrderOf
<1>3. IsFiniteSet(D) /\ Cardinality(D) = n
  BY <1>1, PlacesOf
<1>4. IsOrder(D, L)
  <2>1. ASSUME NEW i \in D, NEW j \in D, NEW k \in D
        PROVE  /\ ~First(i, i)
               /\ First(i, j) /\ First(j, k) => First(i, k)
               /\ i # j => First(i, j) \/ First(j, i)
    <3> DEFINE a == s[i]
               b == s[j]
               c == s[k]
    <3>1. /\ a.hour \in Int /\ a.light \in Int /\ b.hour \in Int /\ b.light \in Int
          /\ c.hour \in Int /\ c.light \in Int /\ i \in Int /\ j \in Int /\ k \in Int
      BY <1>1
    <3> HIDE DEF a, b, c
    <3>2. ~First(i, i)
      BY <3>1 DEF KeyLess, a, b, c
    <3>3. First(i, j) /\ First(j, k) => First(i, k)
      <4>1. \/ a.hour < b.hour \/ (a.hour = b.hour /\ a.light < b.light)
            \/ (~(b.hour < a.hour \/ (b.hour = a.hour /\ b.light < a.light)) /\ i < j)
            => First(i, j)
        BY DEF KeyLess, a, b
      <4> QED BY <3>1, SMTT(30) DEF KeyLess, a, b, c
    <3>4. i # j => First(i, j) \/ First(j, i)
      BY <3>1 DEF KeyLess, a, b, c
    <3> QED BY <3>2, <3>3, <3>4
  <2> HIDE DEF First, D
  <2> QED BY <2>1 DEF IsOrder
<1>5. ASSUME NEW x \in D PROVE Size(x) = Cardinality(Under(D, L, x))
  <2>1. {y \in D : First(y, x)} = Under(D, L, x)
    <3> HIDE DEF First, D
    <3> QED BY DEF Under
  <2> QED BY <2>1
<1>6. ASSUME NEW p \in D PROVE order[p] \in D
  <2>1. PICK x \in D : Cardinality(Under(D, L, x)) = p - 1
    <3> HIDE DEF L, D
    <3> QED BY <1>3, <1>4, PlacesExist DEF D
  <2>2. Size(x) = p - 1
    BY <1>5, <2>1
  <2> HIDE DEF Size, D
  <2> QED BY <1>3, <2>2 DEF D
<1>7. sorted \in [1 .. n -> E]
  <2> HIDE DEF order
  <2> QED BY <1>1, <1>6
<1> HIDE DEF sorted, n
<1> QED BY <1>1, <1>2, <1>7 DEF n

-----------------------------------------------------------------------------
(* The lines of a rank                                                     *)

\* What the job is
LEMMA JobIs ==
    ASSUME job \in Jobs
    PROVE  /\ GoodFile(file) /\ DOMAIN job.entries = DOMAIN file.lines
           /\ \A i \in DOMAIN file.lines :
                 /\ job.entries[i] \in [hour : Int, light : Nat, cars : Nat]
                 /\ job.entries[i].hour >= 0 =>
                       job.hourHash[job.entries[i].hour] \in Nat /\ job.keyHash[Key(job.entries[i])] \in Nat
           /\ job.words \in {"good", "help", "unknown", "no number"} /\ job.partition \in Partitions
           /\ job.reducers \in Int /\ job.top \in Int /\ job.hours \in Int
           /\ {job.combine, job.verify, job.trace, job.matrix, job.summary} \subseteq BOOLEAN
           /\ reducers \in Int /\ Procs \in Nat \ {0} /\ 0 \in Ranks
<1>1. Procs \in Nat \ {0}
  BY ProcsAssumption
<1>2. 0 \in Ranks
  BY <1>1 DEF Ranks
<1> DEFINE j == job
<1>3. /\ j.file.size \in Nat /\ j.file.newlines \subseteq 0 .. j.file.size - 1 /\ LinesOf(j.file)
      /\ DOMAIN j.entries = DOMAIN j.file.lines
      /\ \A i \in DOMAIN j.entries :
            /\ j.entries[i] \in [hour : Int, light : Nat, cars : Nat]
            /\ j.entries[i].hour >= 0 =>
                  j.hourHash[j.entries[i].hour] \in Nat /\ j.keyHash[Key(j.entries[i])] \in Nat
      /\ j.words \in {"good", "help", "unknown", "no number"} /\ j.partition \in Partitions
      /\ {j.reducers, j.top, j.hours} \subseteq Int
      /\ {j.combine, j.verify, j.trace, j.matrix, j.summary} \subseteq BOOLEAN
  BY JobsAssumption, Zenon
<1>4. GoodFile(file) /\ DOMAIN job.entries = DOMAIN file.lines
  BY <1>3, Zenon DEF GoodFile, file
<1>5. \A i \in DOMAIN file.lines :
         /\ job.entries[i] \in [hour : Int, light : Nat, cars : Nat]
         /\ job.entries[i].hour >= 0 =>
               job.hourHash[job.entries[i].hour] \in Nat /\ job.keyHash[Key(job.entries[i])] \in Nat
  BY <1>3, <1>4, Zenon
<1>6. job.reducers \in Int /\ job.top \in Int /\ job.hours \in Int
  BY <1>3, Zenon
<1>7. reducers \in Int
  BY <1>1, <1>6 DEF reducers
<1> QED BY <1>1, <1>2, <1>3, <1>4, <1>5, <1>6, <1>7

Full(lines) == {i \in DOMAIN lines : lines[i][1] < lines[i][2]}
Mappable == [hour : Int, light : Nat, cars : Nat]

\* The entries of some lines are entries of lines that are not empty.
LEMMA EntriesOf ==
    ASSUME job \in Jobs, NEW lines \in Seq(Nat \X Nat)
    PROVE  LET es == EntriesAt(lines)
           IN  /\ es \in Seq(Mappable) /\ Len(es) = Cardinality(Full(lines)) /\ Cardinality(Full(lines)) \in Nat
               /\ \A p \in 1 .. Len(es) : \E i \in Full(lines) : es[p] = EntryAt(lines[i])
               /\ \A i \in Full(lines) : \E p \in 1 .. Len(es) : es[p] = EntryAt(lines[i])
<1> DEFINE full == At(lines, Full(lines))
           n == Cardinality(Full(lines))
           es == [p \in DOMAIN full |-> EntryAt(full[p])]
<1>1. EntriesAt(lines) = es
  BY DEF EntriesAt, Only, Full
<1>2. Full(lines) \subseteq DOMAIN lines
  BY DEF Full
<1>3. /\ full \in Seq(Nat \X Nat) /\ n \in Nat /\ Len(full) = n
      /\ \E order \in [1 .. n -> Full(lines)] : /\ \A p \in 1 .. n : full[p] = lines[order[p]]
                                                /\ \A i \in Full(lines) : \E p \in 1 .. n : order[p] = i
  <2> DEFINE S == Full(lines)
             A == Nat \X Nat
  <2>1. S \subseteq DOMAIN lines /\ lines \in Seq(A)
    BY <1>2
  <2> HIDE DEF S, A
  <2>2. At(lines, S) \in Seq(A) /\ Selects(At(lines, S), lines, S)
    BY <2>1, AtIs
  <2> QED BY <2>2 DEF S, A, Selects
<1> HIDE DEF full, n
<1>4. DOMAIN full = 1 .. n
  BY <1>3
<1>5. ASSUME NEW l PROVE EntryAt(l) \in Mappable
  <2> DEFINE whole == {i \in DOMAIN file.lines : file.lines[i] = l}
  <2>1. CASE whole = {}
    BY <2>1 DEF EntryAt, Mappable
  <2>2. CASE whole # {}
    <3>1. (CHOOSE i \in whole : TRUE) \in whole
      <4> HIDE DEF whole
      <4> QED BY <2>2
    <3>2. (CHOOSE i \in whole : TRUE) \in DOMAIN file.lines
      BY <3>1
    <3>3. EntryAt(l) = job.entries[CHOOSE i \in whole : TRUE]
      BY <2>2 DEF EntryAt
    <3> QED BY <3>2, <3>3, JobIs DEF Mappable
  <2> QED BY <2>1, <2>2
<1>6. es \in [1 .. n -> Mappable] /\ \A p \in 1 .. n : es[p] = EntryAt(full[p])
  BY <1>4, <1>5
<1> HIDE DEF es
<1>7. es \in Seq(Mappable) /\ Len(es) = n
  <2>1. n \in Nat
    BY <1>3
  <2>2. es \in [1 .. n -> Mappable]
    BY <1>6
  <2> QED BY <2>1, <2>2
<1>8. /\ \A p \in 1 .. n : \E i \in Full(lines) : es[p] = EntryAt(lines[i])
      /\ \A i \in Full(lines) : \E p \in 1 .. n : es[p] = EntryAt(lines[i])
  <2>1. PICK order \in [1 .. n -> Full(lines)] : /\ \A p \in 1 .. n : full[p] = lines[order[p]]
                                                 /\ \A i \in Full(lines) : \E p \in 1 .. n : order[p] = i
    BY <1>3
  <2>2. \A p \in 1 .. n : es[p] = EntryAt(lines[order[p]])
    BY <1>6, <2>1
  <2> QED BY <2>1, <2>2
<1> QED BY <1>1, <1>3, <1>7, <1>8 DEF n

\* The entry on a line of the file
LEMMA EntryIs ==
    ASSUME job \in Jobs, NEW i \in DOMAIN file.lines
    PROVE  \E k \in DOMAIN file.lines : file.lines[k] = file.lines[i] /\ EntryAt(file.lines[i]) = job.entries[k]
<1> DEFINE whole == {k \in DOMAIN file.lines : file.lines[k] = file.lines[i]}
<1>1. i \in whole
  OBVIOUS
<1>2. (CHOOSE k \in whole : TRUE) \in whole
  <2> HIDE DEF whole
  <2> QED BY <1>1
<1>3. EntryAt(file.lines[i]) = job.entries[CHOOSE k \in whole : TRUE]
  BY <1>1 DEF EntryAt
<1> QED BY <1>2, <1>3

\* The lines of the range of a rank
RangeLines(r) == SubSeq(file.lines, Cut(file, RangeStart(file.size, r, Procs)) + 1,
                        Cut(file, RangeStart(file.size, r + 1, Procs)))

\* A line that is refused, or too long
BadLine == \E i \in DOMAIN file.lines : job.entries[i].hour < 0 \/ file.lines[i][2] - file.lines[i][1] > MaxLine

\* The lines of a range are lines of the file.
LEMMA RangeWithin ==
    ASSUME job \in Jobs, NEW r \in Ranks, NEW i \in DOMAIN RangeLines(r)
    PROVE  \E k \in DOMAIN file.lines : RangeLines(r)[i] = file.lines[k]
<1> DEFINE A == Nat \X Nat
           g == file.lines
           m == Cut(file, RangeStart(file.size, r, Procs)) + 1
           d == Cut(file, RangeStart(file.size, r + 1, Procs))
<1>0. GoodFile(file) /\ file.size \in Nat /\ r \in 0 .. Procs /\ r + 1 \in 0 .. Procs /\ Procs \in Nat
  <2>1. GoodFile(file) /\ Procs \in Nat \ {0}
    BY JobIs
  <2> QED BY <2>1 DEF GoodFile, Ranks
<1>1. RangeStart(file.size, r, Procs) \in Nat /\ RangeStart(file.size, r + 1, Procs) \in Nat
  BY <1>0, RangesAre
<1>2. g \in Seq(A) /\ DOMAIN g = 1 .. Len(g) /\ Len(g) \in Nat
  BY <1>0, LineIs
<1>3. m - 1 \in 0 .. Len(g) /\ d \in 0 .. Len(g) /\ m \in Int
  <2> DEFINE c == Cut(file, RangeStart(file.size, r, Procs))
  <2>1. c \in 0 .. Len(g)
    BY <1>0, <1>1, CutIs
  <2>2. d \in 0 .. Len(g)
    BY <1>0, <1>1, CutIs
  <2>3. m = c + 1
    OBVIOUS
  <2> HIDE DEF c, g, m, d
  <2> QED BY <1>2, <2>1, <2>2, <2>3
<1>4. RangeLines(r) = SubSeq(g, m, d)
  BY DEF RangeLines
<1> HIDE DEF A, g, m, d
<1>5. \A k \in m .. d : g[k] \in A
  BY <1>2, <1>3
<1>6. /\ SubSeq(g, m, d) \in Seq(A)
      /\ Len(SubSeq(g, m, d)) = IF m <= d THEN d - m + 1 ELSE 0
      /\ \A k \in 1 .. d - m + 1 : SubSeq(g, m, d)[k] = g[m + k - 1]
  BY <1>2, <1>3, <1>5, SubSeqProperties
<1>7. i \in 1 .. Len(SubSeq(g, m, d))
  BY <1>4, <1>6
<1>8. i \in 1 .. d - m + 1
  BY <1>3, <1>6, <1>7
<1>9. RangeLines(r)[i] = g[m + i - 1]
  BY <1>4, <1>6, <1>8
<1>10. m + i - 1 \in DOMAIN g
  BY <1>2, <1>3, <1>8
<1> QED BY <1>9, <1>10 DEF g

\* What forEachLine gives a rank, and when the rank gives up
LEMMA RankReads ==
    ASSUME job \in Jobs, NEW r \in Ranks,
           NEW run, run = ForEachLine(file, RangeStart(file.size, r, Procs), RangeStart(file.size, r + 1, Procs))
    PROVE  /\ run.lines \in Seq(Nat \X Nat)
           /\ run.status = "failed" \/ Refuses(EntriesAt(run.lines)) => BadLine
           /\ run.status # "failed" => run.lines = RangeLines(r)
<1> DEFINE a == RangeStart(file.size, r, Procs)
           b == RangeStart(file.size, r + 1, Procs)
<1>0. GoodFile(file) /\ file.size \in Nat /\ Procs \in Nat /\ r \in 0 .. Procs /\ r + 1 \in 0 .. Procs
  <2>1. GoodFile(file) /\ Procs \in Nat \ {0}
    BY JobIs
  <2>2. file.size \in Nat
    BY <2>1 DEF GoodFile
  <2>3. r \in 0 .. Procs /\ r + 1 \in 0 .. Procs
    BY <2>1 DEF Ranks
  <2> QED BY <2>1, <2>2, <2>3
<1>1. a \in Nat /\ b \in Nat /\ b <= file.size
  BY <1>0, RangesAre
<1> HIDE DEF a, b
<1>2. /\ run.lines \in Seq(Nat \X Nat) /\ run.status \in {"done", "failed"}
      /\ run.status = "failed" => TooLongLine(file)
      /\ run.status = "done" => run.lines = SubSeq(file.lines, Cut(file, a) + 1, Cut(file, b))
  <2>1. run = ForEachLine(file, a, b)
    BY DEF a, b
  <2> HIDE DEF file
  <2> QED BY <1>0, <1>1, <2>1, ForEachLineHands, SMTT(30)
<1>3. run.status # "failed" => run.lines = RangeLines(r)
  BY <1>2 DEF RangeLines, a, b
<1>4. DOMAIN file.lines = 1 .. Len(file.lines)
  BY <1>0, LineIs
<1>5. TooLongLine(file) => BadLine
  BY <1>4 DEF TooLongLine, BadLine, Begin, End
<1>6. ASSUME run.status # "failed", Refuses(EntriesAt(run.lines)) PROVE BadLine
  <2> DEFINE es == EntriesAt(run.lines)
  <2>1. PICK p \in DOMAIN es : es[p].hour < 0
    BY <1>6 DEF Refuses
  <2>2. es \in Seq(Mappable) /\ \A q \in 1 .. Len(es) : \E i \in Full(run.lines) : es[q] = EntryAt(run.lines[i])
    BY <1>2, EntriesOf
  <2> HIDE DEF es
  <2>3. p \in 1 .. Len(es)
    BY <2>1, <2>2
  <2>4. PICK i \in Full(run.lines) : es[p] = EntryAt(run.lines[i])
    BY <2>2, <2>3
  <2>6. \E k \in DOMAIN file.lines : run.lines[i] = file.lines[k]
    <3>1. i \in DOMAIN run.lines /\ run.lines = RangeLines(r)
      BY <1>3, <1>6, <2>4 DEF Full
    <3> QED BY <3>1, RangeWithin
  <2>7. PICK k \in DOMAIN file.lines : es[p] = job.entries[k]
    BY <2>4, <2>6, EntryIs
  <2> QED BY <2>1, <2>7 DEF BadLine
<1> QED BY <1>2, <1>3, <1>5, <1>6

-----------------------------------------------------------------------------
(* What the functions on entries return                                    *)

\* The cars of a sequence of entries are a number.
LEMMA CarsAre ==
    ASSUME NEW es \in Seq(Mappable)
    PROVE  Cars(es) \in Nat
<1> DEFINE n == Len(es)
           A == Nat
           o == [w \in (1 .. n) \X A |-> w[2] + es[w[1]].cars]
           Sums(g) == g = [u \in SUBSET (1 .. n) |-> IF u = {} THEN 0 ELSE g[u \ {Max(u)}] + es[Max(u)].cars]
           f == CHOOSE g : Sums(g)
<1>1. n \in Nat /\ DOMAIN es = 1 .. n /\ \A i \in 1 .. n : es[i].cars \in Nat
  <2>1. n \in Nat /\ DOMAIN es = 1 .. n /\ \A i \in 1 .. n : es[i] \in Mappable
    OBVIOUS
  <2> QED BY <2>1 DEF Mappable
<1>2. Cars(es) = f[1 .. n]
  BY <1>1 DEF Cars, FoldLeft, MapThenFoldSet
<1>3. ASSUME NEW k \in 1 .. n, NEW a \in A PROVE o[<<k, a>>] = a + es[k].cars /\ o[<<k, a>>] \in A
  BY <1>1
<1>4. StaysIn(o, n, A)
  <2> HIDE DEF o
  <2> QED BY <1>3 DEF StaysIn
<1>5. PICK g \in [SUBSET (1 .. n) -> A] : FoldsSets(g, n, 0, o)
  <2>1. n \in Nat /\ 0 \in A
    BY <1>1
  <2> HIDE DEF o, n, A
  <2> QED BY <2>1, <1>4, FoldDefines
<1>6. ASSUME NEW u \in SUBSET (1 .. n), u # {} PROVE Max(u) \in 1 .. n /\ u \ {Max(u)} \in SUBSET (1 .. n)
  BY <1>1, <1>6, LastPlace
<1>7. Sums(f)
  <2>1. ASSUME NEW u \in SUBSET (1 .. n) PROVE g[u] = IF u = {} THEN 0 ELSE g[u \ {Max(u)}] + es[Max(u)].cars
    <3>1. CASE u = {}
      BY <1>5, <3>1 DEF FoldsSets
    <3>2. CASE u # {}
      <4>1. Max(u) \in 1 .. n /\ u \ {Max(u)} \in SUBSET (1 .. n)
        BY <1>6, <3>2
      <4>2. g[u] = o[<<Max(u), g[u \ {Max(u)}]>>] /\ g[u \ {Max(u)}] \in A
        <5> HIDE DEF o
        <5> QED BY <1>5, <3>2, <4>1 DEF FoldsSets
      <4> HIDE DEF o, n
      <4> QED BY <1>3, <3>2, <4>1, <4>2
    <3> QED BY <3>1, <3>2
  <2>2. g = [u \in SUBSET (1 .. n) |-> IF u = {} THEN 0 ELSE g[u \ {Max(u)}] + es[Max(u)].cars]
    <3> HIDE DEF o, n
    <3> QED BY <1>5, <2>1
  <2> HIDE DEF n
  <2> QED BY <2>2
<1>8. FoldsIn(f, n, A, 0, o)
  <2> HIDE DEF f, o
  <2>1. f[{}] = 0
    BY <1>7
  <2>2. ASSUME NEW u \in SUBSET (1 .. n), u # {}, f[u \ {Max(u)}] \in A
        PROVE  f[u] = o[<<Max(u), f[u \ {Max(u)}]>>]
    <3>1. f[u] = f[u \ {Max(u)}] + es[Max(u)].cars
      BY <1>7, <2>2
    <3> QED BY <1>3, <1>6, <2>2, <3>1
  <2> HIDE DEF n
  <2> QED BY <2>1, <2>2 DEF FoldsIn
<1>9. PICK F \in [0 .. n -> A] : RunsTo(F, n, 0, o) /\ f[1 .. n] = F[n]
  <2>1. n \in Nat /\ 0 \in A
    BY <1>1
  <2> HIDE DEF f, o, n, A
  <2> QED BY <2>1, <1>4, <1>8, FoldRuns
<1> HIDE DEF f, o, n
<1> QED BY <1>1, <1>2, <1>9

\* So are those of one key.
LEMMA CarsOfAre ==
    ASSUME NEW es \in Seq(Mappable), NEW key
    PROVE  CarsOf(key, es) \in Nat
<1> DEFINE n == Len(es)
           A == Nat
           Sum(e, sum) == IF Key(e) = key THEN sum + e.cars ELSE sum
           o == [w \in (1 .. n) \X A |-> Sum(es[w[1]], w[2])]
           Sums(g) == g = [u \in SUBSET (1 .. n) |-> IF u = {} THEN 0 ELSE Sum(es[Max(u)], g[u \ {Max(u)}])]
           f == CHOOSE g : Sums(g)
<1>1. n \in Nat /\ DOMAIN es = 1 .. n /\ \A i \in 1 .. n : es[i].cars \in Nat
  <2>1. n \in Nat /\ DOMAIN es = 1 .. n /\ \A i \in 1 .. n : es[i] \in Mappable
    OBVIOUS
  <2> QED BY <2>1 DEF Mappable
<1>2. CarsOf(key, es) = f[1 .. n]
  BY <1>1 DEF CarsOf, FoldLeft, MapThenFoldSet
<1>3. ASSUME NEW k \in 1 .. n, NEW a \in A PROVE o[<<k, a>>] = Sum(es[k], a) /\ o[<<k, a>>] \in A
  BY <1>1
<1>4. StaysIn(o, n, A)
  <2> HIDE DEF o
  <2> QED BY <1>3 DEF StaysIn
<1>5. PICK g \in [SUBSET (1 .. n) -> A] : FoldsSets(g, n, 0, o)
  <2>1. n \in Nat /\ 0 \in A
    BY <1>1
  <2> HIDE DEF o, n, A
  <2> QED BY <2>1, <1>4, FoldDefines
<1>6. ASSUME NEW u \in SUBSET (1 .. n), u # {} PROVE Max(u) \in 1 .. n /\ u \ {Max(u)} \in SUBSET (1 .. n)
  BY <1>1, <1>6, LastPlace
<1>7. Sums(f)
  <2>1. ASSUME NEW u \in SUBSET (1 .. n) PROVE g[u] = IF u = {} THEN 0 ELSE Sum(es[Max(u)], g[u \ {Max(u)}])
    <3>1. CASE u = {}
      BY <1>5, <3>1 DEF FoldsSets
    <3>2. CASE u # {}
      <4>1. Max(u) \in 1 .. n /\ u \ {Max(u)} \in SUBSET (1 .. n)
        BY <1>6, <3>2
      <4>2. g[u] = o[<<Max(u), g[u \ {Max(u)}]>>] /\ g[u \ {Max(u)}] \in A
        <5> HIDE DEF o
        <5> QED BY <1>5, <3>2, <4>1 DEF FoldsSets
      <4> HIDE DEF o, n
      <4> QED BY <1>3, <3>2, <4>1, <4>2
    <3> QED BY <3>1, <3>2
  <2>2. g = [u \in SUBSET (1 .. n) |-> IF u = {} THEN 0 ELSE Sum(es[Max(u)], g[u \ {Max(u)}])]
    <3> HIDE DEF o, n
    <3> QED BY <1>5, <2>1
  <2> HIDE DEF n
  <2> QED BY <2>2
<1>8. FoldsIn(f, n, A, 0, o)
  <2> HIDE DEF f, o
  <2>1. f[{}] = 0
    BY <1>7
  <2>2. ASSUME NEW u \in SUBSET (1 .. n), u # {}, f[u \ {Max(u)}] \in A
        PROVE  f[u] = o[<<Max(u), f[u \ {Max(u)}]>>]
    <3>1. f[u] = Sum(es[Max(u)], f[u \ {Max(u)}])
      BY <1>7, <2>2
    <3> QED BY <1>3, <1>6, <2>2, <3>1
  <2> HIDE DEF n
  <2> QED BY <2>1, <2>2 DEF FoldsIn
<1>9. PICK F \in [0 .. n -> A] : RunsTo(F, n, 0, o) /\ f[1 .. n] = F[n]
  <2>1. n \in Nat /\ 0 \in A
    BY <1>1
  <2> HIDE DEF f, o, n, A
  <2> QED BY <2>1, <1>4, <1>8, FoldRuns
<1> HIDE DEF f, o, n
<1> QED BY <1>1, <1>2, <1>9

\* Keys are in the order of their hours and lights.
LEMMA InKeyOrder ==
    ASSUME NEW S, IsFiniteSet(S), IsEntries(S), \A x \in S, y \in S : Key(x) = Key(y) => x = y
    PROVE  InOrderOf(S, KeyLess) \in Seq(S)
<1> DEFINE n == Cardinality(S)
           L == {w \in S \X S : KeyLess(w[1], w[2])}
           Size(x) == Cardinality({y \in S : KeyLess(y, x)})
           order == [p \in 1 .. n |-> CHOOSE x \in S : Size(x) = p - 1]
<1>1. InOrderOf(S, KeyLess) = order
  BY DEF InOrderOf
<1>2. \A x \in S : x.hour \in Int /\ x.light \in Int
  BY DEF IsEntries
<1>3. IsOrder(S, L)
  <2>1. ASSUME NEW x \in S, NEW y \in S, NEW z \in S
        PROVE  /\ ~KeyLess(x, x)
               /\ KeyLess(x, y) /\ KeyLess(y, z) => KeyLess(x, z)
               /\ x # y => KeyLess(x, y) \/ KeyLess(y, x)
    <3>1. x # y => x.hour # y.hour \/ x.light # y.light
      BY DEF Key
    <3> QED BY <1>2, <3>1 DEF KeyLess
  <2> QED BY <2>1 DEF IsOrder
<1>4. ASSUME NEW x \in S PROVE Size(x) = Cardinality(Under(S, L, x))
  <2>1. {y \in S : KeyLess(y, x)} = Under(S, L, x)
    BY DEF Under
  <2> QED BY <2>1
<1>5. ASSUME NEW p \in 1 .. n PROVE (CHOOSE x \in S : Size(x) = p - 1) \in S
  <2>1. PICK x \in S : Cardinality(Under(S, L, x)) = p - 1
    <3> HIDE DEF L
    <3> QED BY <1>3, PlacesExist
  <2>2. Size(x) = p - 1
    BY <1>4, <2>1
  <2> HIDE DEF Size
  <2> QED BY <2>2
<1>6. n \in Nat
  BY FS_CardinalityType
<1>7. order \in [1 .. n -> S]
  <2> HIDE DEF Size, n
  <2> QED BY <1>5
<1> HIDE DEF order, n
<1> QED BY <1>1, <1>6, <1>7

\* What a rank ships has the keys of what it read.
LEMMA CombinedIs ==
    ASSUME NEW es \in Seq(Entry)
    PROVE  Combined(es) \in Seq({e \in Entry : \E i \in DOMAIN es : Key(e) = Key(es[i])})
<1> DEFINE ks == {Key(es[i]) : i \in DOMAIN es}
           Total(k) == [hour |-> k[1], light |-> k[2], cars |-> CarsOf(k, es)]
           sums == {Total(k) : k \in ks}
           S == {t \in sums : t.cars # 0}
           T == {e \in Entry : \E i \in DOMAIN es : Key(e) = Key(es[i])}
<1>1. Combined(es) = InOrderOf(S, KeyLess)
  BY DEF Combined
<1>2. es \in Seq(Mappable)
  <2>1. Entry \subseteq Mappable
    BY DEF Entry, Mappable
  <2> QED BY <2>1
<1>3. ASSUME NEW k \in ks
      PROVE  /\ Total(k) \in T /\ Key(Total(k)) = k
  <2>1. PICK i \in DOMAIN es : k = <<es[i].hour, es[i].light>>
    BY DEF Key
  <2>2. es[i] \in Entry
    OBVIOUS
  <2>3. k[1] \in Nat /\ k[2] \in Nat /\ k = <<k[1], k[2]>>
    BY <2>1, <2>2 DEF Entry
  <2>4. CarsOf(k, es) \in Nat
    BY <1>2, CarsOfAre
  <2>5. Total(k) \in Entry /\ Key(Total(k)) = k
    BY <2>3, <2>4 DEF Entry, Key
  <2>6. k = Key(es[i])
    BY <2>1 DEF Key
  <2> HIDE DEF Total
  <2> QED BY <2>5, <2>6
<1>4. S \subseteq T
  <2> HIDE DEF Total, T
  <2> QED BY <1>3
<1>5. ASSUME NEW x \in S, NEW y \in S, Key(x) = Key(y) PROVE x = y
  <2>1. PICK k \in ks, l \in ks : x = Total(k) /\ y = Total(l)
    OBVIOUS
  <2>2. k = l
    <3> HIDE DEF ks, Total
    <3> QED BY <1>3, <1>5, <2>1
  <2> QED BY <2>1, <2>2
<1>6. IsFiniteSet(S)
  <2>1. IsFiniteSet(DOMAIN es)
    <3>1. DOMAIN es = 1 .. Len(es) /\ Len(es) \in Nat
      OBVIOUS
    <3> QED BY <3>1, PlacesOf
  <2> DEFINE g == [i \in DOMAIN es |-> Total(Key(es[i]))]
  <2>2. IsFiniteSet({g[i] : i \in DOMAIN es})
    <3> DEFINE T2 == {g[i] : i \in DOMAIN es}
    <3>1. g \in Surjection(DOMAIN es, T2)
      BY DEF Surjection
    <3> HIDE DEF g, T2
    <3> QED BY <2>1, <3>1, FS_Surjection DEF T2
  <2>3. S \subseteq {g[i] : i \in DOMAIN es}
    <3> HIDE DEF Total
    <3> QED OBVIOUS
  <2> HIDE DEF S, g
  <2> QED BY <2>2, <2>3, FS_Subset
<1>7. IsEntries(S)
  BY <1>4 DEF IsEntries, Entry
<1>8. InOrderOf(S, KeyLess) \in Seq(S)
  <2> HIDE DEF S
  <2> QED BY <1>5, <1>6, <1>7, InKeyOrder
<1>9. Seq(S) \subseteq Seq(T)
  <2> HIDE DEF S, T
  <2> QED BY <1>4
<1> HIDE DEF S, T
<1> QED BY <1>1, <1>8, <1>9 DEF T

\* Runs merged in pairs are runs.
LEMMA PairsAre ==
    ASSUME NEW E, IsEntries(E), NEW runs \in Seq(Seq(E)), Len(runs) > 1
    PROVE  MergePairs(runs) \in Seq(Seq(E)) /\ MergePairs(runs) # <<>>
<1> DEFINE n == Len(runs)
           m == (n + 1) \div 2
           Pair(i) == IF 2 * i <= n THEN Sorted(runs[2 * i - 1] \o runs[2 * i], KeyLess) ELSE runs[2 * i - 1]
           pairs == [i \in 1 .. m |-> Pair(i)]
<1>1. MergePairs(runs) = pairs
  BY DEF MergePairs
<1>2. n \in Nat /\ \A i \in 1 .. n : runs[i] \in Seq(E)
  OBVIOUS
<1>3. m \in Nat /\ m >= 1 /\ 2 * m <= n + 1
  BY <1>2
<1>4. ASSUME NEW i \in 1 .. m PROVE Pair(i) \in Seq(E)
  <2>1. 2 * i - 1 \in 1 .. n
    <3> HIDE DEF m
    <3> QED BY <1>2, <1>3
  <2>2. CASE 2 * i <= n
    <3>1. 2 * i \in 1 .. n
      BY <2>1, <2>2
    <3>2. runs[2 * i - 1] \in Seq(E) /\ runs[2 * i] \in Seq(E)
      BY <1>2, <2>1, <3>1
    <3>3. runs[2 * i - 1] \o runs[2 * i] \in Seq(E)
      BY <3>2, ConcatProperties
    <3>4. Sorted(runs[2 * i - 1] \o runs[2 * i], KeyLess) \in Seq(E)
      BY <3>3, SortedByKey
    <3> QED BY <2>2, <3>4
  <2>3. CASE ~(2 * i <= n)
    BY <1>2, <2>1, <2>3
  <2> QED BY <2>2, <2>3
<1>5. pairs \in Seq(Seq(E)) /\ pairs # <<>>
  <2> HIDE DEF Pair, m
  <2>1. pairs \in [1 .. m -> Seq(E)]
    BY <1>4
  <2>2. pairs \in Seq(Seq(E)) /\ Len(pairs) = m
    <3> HIDE DEF pairs
    <3> QED BY <1>3, <2>1
  <2> HIDE DEF pairs
  <2> QED BY <1>3, <2>2
<1> QED BY <1>1, <1>5

\* The runs of a reducer become one, of the same entries.
LEMMA MergedIs ==
    ASSUME NEW E, IsEntries(E), NEW runs \in Seq(Seq(E))
    PROVE  MergeRuns(runs) \in Seq(E)
<1> DEFINE n == Len(runs)
           full == At(runs, {i \in DOMAIN runs : runs[i] # <<>>})
           once == [i \in DOMAIN full |-> Sorted(full[i], KeyLess)]
           A == {s \in Seq(Seq(E)) : s # <<>>}
           Merge(s) == IF Len(s) > 1 THEN MergePairs(s) ELSE s
           o == [w \in (1 .. n) \X A |-> Merge(w[2])]
           Merges(g) == g = [u \in SUBSET (1 .. n) |-> IF u = {} THEN once ELSE Merge(g[u \ {Max(u)}])]
           f == CHOOSE g : Merges(g)
<1>1. n \in Nat /\ DOMAIN runs = 1 .. n
  OBVIOUS
<1>2. MergeRuns(runs) = IF full = <<>> THEN <<>> ELSE f[1 .. n][1]
  BY <1>1 DEF MergeRuns, Only, FoldLeft, MapThenFoldSet
<1>3. full \in Seq(Seq(E))
  <2>1. {i \in DOMAIN runs : runs[i] # <<>>} \subseteq DOMAIN runs
    OBVIOUS
  <2> QED BY <2>1, AtIs
<1> HIDE DEF full
<1>4. CASE full = <<>>
  BY <1>2, <1>4
<1>5. CASE full # <<>>
  <2>1. once \in A
    <3>1. \A i \in 1 .. Len(full) : full[i] \in Seq(E)
      BY <1>3
    <3>2. ASSUME NEW i \in 1 .. Len(full) PROVE Sorted(full[i], KeyLess) \in Seq(E)
      BY <3>1, SortedByKey
    <3>3. once \in [1 .. Len(full) -> Seq(E)]
      BY <1>3, <3>2
    <3>4. Len(full) \in Nat /\ Len(full) # 0
      BY <1>3, <1>5
    <3>5. once \in Seq(Seq(E)) /\ Len(once) = Len(full)
      <4> HIDE DEF once
      <4> QED BY <3>3, <3>4
    <3> HIDE DEF once
    <3> QED BY <3>4, <3>5
  <2> HIDE DEF once
  <2>2. ASSUME NEW a \in A PROVE Merge(a) \in A
    BY PairsAre
  <2> HIDE DEF Merge, A
  <2>3. ASSUME NEW k \in 1 .. n, NEW a \in A PROVE o[<<k, a>>] = Merge(a) /\ o[<<k, a>>] \in A
    BY <2>2
  <2>4. StaysIn(o, n, A)
    <3> HIDE DEF o
    <3> QED BY <2>3 DEF StaysIn
  <2>5. PICK g \in [SUBSET (1 .. n) -> A] : FoldsSets(g, n, once, o)
    <3> HIDE DEF o, n
    <3> QED BY <1>1, <2>1, <2>4, FoldDefines
  <2>6. ASSUME NEW u \in SUBSET (1 .. n), u # {} PROVE Max(u) \in 1 .. n /\ u \ {Max(u)} \in SUBSET (1 .. n)
    BY <1>1, <2>6, LastPlace
  <2>7. Merges(f)
    <3>1. ASSUME NEW u \in SUBSET (1 .. n) PROVE g[u] = IF u = {} THEN once ELSE Merge(g[u \ {Max(u)}])
      <4>1. CASE u = {}
        BY <2>5, <4>1 DEF FoldsSets
      <4>2. CASE u # {}
        <5>1. Max(u) \in 1 .. n /\ u \ {Max(u)} \in SUBSET (1 .. n)
          BY <2>6, <4>2
        <5>2. g[u] = o[<<Max(u), g[u \ {Max(u)}]>>] /\ g[u \ {Max(u)}] \in A
          <6> HIDE DEF o
          <6> QED BY <2>5, <4>2, <5>1 DEF FoldsSets
        <5> HIDE DEF o, n
        <5> QED BY <2>3, <4>2, <5>1, <5>2
      <4> QED BY <4>1, <4>2
    <3>2. g = [u \in SUBSET (1 .. n) |-> IF u = {} THEN once ELSE Merge(g[u \ {Max(u)}])]
      <4> HIDE DEF o, n
      <4> QED BY <2>5, <3>1
    <3> HIDE DEF n
    <3> QED BY <3>2
  <2>8. FoldsIn(f, n, A, once, o)
    <3> HIDE DEF f, o
    <3>1. f[{}] = once
      BY <2>7
    <3>2. ASSUME NEW u \in SUBSET (1 .. n), u # {}, f[u \ {Max(u)}] \in A
          PROVE  f[u] = o[<<Max(u), f[u \ {Max(u)}]>>]
      <4>1. f[u] = Merge(f[u \ {Max(u)}])
        BY <2>7, <3>2
      <4> QED BY <2>3, <2>6, <3>2, <4>1
    <3> HIDE DEF n
    <3> QED BY <3>1, <3>2 DEF FoldsIn
  <2>9. PICK F \in [0 .. n -> A] : RunsTo(F, n, once, o) /\ f[1 .. n] = F[n]
    <3> HIDE DEF f, o, n
    <3> QED BY <1>1, <2>1, <2>4, <2>8, FoldRuns
  <2> HIDE DEF f, o, n
  <2>10. f[1 .. n] \in A
    BY <1>1, <2>9
  <2>11. f[1 .. n][1] \in Seq(E)
    BY <2>10 DEF A
  <2> QED BY <1>2, <1>5, <2>11
<1> QED BY <1>4, <1>5

\* Totals are entries.
LEMMA TotalsAre ==
    ASSUME NEW es \in Seq(Entry)
    PROVE  Totals(es) \in Seq(Entry)
<1> DEFINE n == Len(es)
           A == Seq(Entry)
           Add(s, e) == IF s # <<>> /\ Key(Last(s)) = Key(e)
                        THEN [s EXCEPT ![Len(s)].cars = @ + e.cars] ELSE Append(s, e)
           o == [w \in (1 .. n) \X A |-> Add(w[2], es[w[1]])]
           Folds(g) == g = [u \in SUBSET (1 .. n) |-> IF u = {} THEN <<>> ELSE Add(g[u \ {Max(u)}], es[Max(u)])]
           f == CHOOSE g : Folds(g)
<1>1. n \in Nat /\ DOMAIN es = 1 .. n /\ \A i \in 1 .. n : es[i] \in Entry
  OBVIOUS
<1>2. Totals(es) = At(f[1 .. n], {i \in DOMAIN f[1 .. n] : f[1 .. n][i].cars # 0})
  BY <1>1 DEF Totals, Only, FoldLeft, MapThenFoldSet
<1>3. <<>> \in A
  OBVIOUS
<1>4. ASSUME NEW s \in A, NEW e \in Entry PROVE Add(s, e) \in A
  <2>1. CASE s # <<>> /\ Key(Last(s)) = Key(e)
    <3> DEFINE m == Len(s)
               sum == s[m].cars + e.cars
               t == [s EXCEPT ![m].cars = sum]
    <3>1. m \in Nat /\ m \in 1 .. m /\ \A i \in 1 .. m : s[i] \in Entry
      BY <2>1
    <3>2. s[m] \in Entry /\ s[m].cars \in Nat /\ e.cars \in Nat
      BY <3>1 DEF Entry
    <3>3. [s[m] EXCEPT !.cars = sum] \in Entry
      <4> DEFINE x == s[m]
      <4>1. x \in [hour : Nat, light : Nat, cars : Nat] /\ sum \in Nat
        BY <3>2 DEF Entry
      <4> HIDE DEF x, sum
      <4>2. [x EXCEPT !.cars = sum] \in [hour : Nat, light : Nat, cars : Nat]
        BY <4>1
      <4> QED BY <4>2 DEF Entry, x
    <3>4. t = [s EXCEPT ![m] = [s[m] EXCEPT !.cars = sum]]
      OBVIOUS
    <3>5. t \in A
      <4> HIDE DEF sum, t
      <4> QED BY <3>1, <3>3, <3>4
    <3> QED BY <2>1, <3>5
  <2>2. CASE ~(s # <<>> /\ Key(Last(s)) = Key(e))
    BY <2>2
  <2> QED BY <2>1, <2>2
<1> HIDE DEF Add
<1>5. ASSUME NEW k \in 1 .. n, NEW a \in A PROVE o[<<k, a>>] = Add(a, es[k]) /\ o[<<k, a>>] \in A
  <2>1. o[<<k, a>>] = Add(a, es[k]) /\ es[k] \in Entry
    BY <1>1
  <2> QED BY <1>4, <2>1
<1>6. StaysIn(o, n, A)
  <2> HIDE DEF o
  <2> QED BY <1>5 DEF StaysIn
<1>7. PICK g \in [SUBSET (1 .. n) -> A] : FoldsSets(g, n, <<>>, o)
  <2> HIDE DEF o, n, A
  <2> QED BY <1>1, <1>3, <1>6, FoldDefines
<1>8. ASSUME NEW u \in SUBSET (1 .. n), u # {} PROVE Max(u) \in 1 .. n /\ u \ {Max(u)} \in SUBSET (1 .. n)
  BY <1>1, <1>8, LastPlace
<1>9. Folds(f)
  <2>1. ASSUME NEW u \in SUBSET (1 .. n) PROVE g[u] = IF u = {} THEN <<>> ELSE Add(g[u \ {Max(u)}], es[Max(u)])
    <3>1. CASE u = {}
      BY <1>7, <3>1 DEF FoldsSets
    <3>2. CASE u # {}
      <4>1. Max(u) \in 1 .. n /\ u \ {Max(u)} \in SUBSET (1 .. n)
        BY <1>8, <3>2
      <4>2. g[u] = o[<<Max(u), g[u \ {Max(u)}]>>] /\ g[u \ {Max(u)}] \in A
        <5> HIDE DEF o
        <5> QED BY <1>7, <3>2, <4>1 DEF FoldsSets
      <4> HIDE DEF o, n
      <4> QED BY <1>5, <3>2, <4>1, <4>2
    <3> QED BY <3>1, <3>2
  <2>2. g = [u \in SUBSET (1 .. n) |-> IF u = {} THEN <<>> ELSE Add(g[u \ {Max(u)}], es[Max(u)])]
    <3> HIDE DEF o, n
    <3> QED BY <1>7, <2>1
  <2> HIDE DEF n
  <2> QED BY <2>2
<1>10. FoldsIn(f, n, A, <<>>, o)
  <2> HIDE DEF f, o
  <2>1. f[{}] = <<>>
    BY <1>9
  <2>2. ASSUME NEW u \in SUBSET (1 .. n), u # {}, f[u \ {Max(u)}] \in A
        PROVE  f[u] = o[<<Max(u), f[u \ {Max(u)}]>>]
    <3>1. f[u] = Add(f[u \ {Max(u)}], es[Max(u)])
      BY <1>9, <2>2
    <3> QED BY <1>5, <1>8, <2>2, <3>1
  <2> HIDE DEF n
  <2> QED BY <2>1, <2>2 DEF FoldsIn
<1>11. PICK F \in [0 .. n -> A] : RunsTo(F, n, <<>>, o) /\ f[1 .. n] = F[n]
  <2> HIDE DEF f, o, n, A
  <2> QED BY <1>1, <1>3, <1>6, <1>10, FoldRuns
<1> HIDE DEF f, o, n
<1>12. f[1 .. n] \in A
  BY <1>1, <1>11
<1> DEFINE sums == f[1 .. n]
<1>13. {i \in DOMAIN sums : sums[i].cars # 0} \subseteq DOMAIN sums
  OBVIOUS
<1>14. At(sums, {i \in DOMAIN sums : sums[i].cars # 0}) \in A
  <2> HIDE DEF sums
  <2>1. sums \in A
    BY <1>12 DEF sums
  <2> QED BY <1>13, <2>1, AtIs
<1> QED BY <1>2, <1>14

\* Lights of one hour are in an order by their cars.
LEMMA InBusyOrder ==
    ASSUME NEW S, IsFiniteSet(S), IsEntries(S), \A x \in S, y \in S : x.hour = y.hour
    PROVE  InOrderOf(S, LessBusy) \in Seq(S)
<1> DEFINE n == Cardinality(S)
           L == {w \in S \X S : LessBusy(w[1], w[2])}
           Size(x) == Cardinality({y \in S : LessBusy(y, x)})
           order == [p \in 1 .. n |-> CHOOSE x \in S : Size(x) = p - 1]
<1>1. InOrderOf(S, LessBusy) = order
  BY DEF InOrderOf
<1>2. \A x \in S : x.cars \in Int /\ x.light \in Int /\ x = [hour |-> x.hour, light |-> x.light, cars |-> x.cars]
  BY DEF IsEntries
<1>3. IsOrder(S, L)
  <2>1. ASSUME NEW x \in S, NEW y \in S, NEW z \in S
        PROVE  /\ ~LessBusy(x, x)
               /\ LessBusy(x, y) /\ LessBusy(y, z) => LessBusy(x, z)
               /\ x # y => LessBusy(x, y) \/ LessBusy(y, x)
    <3>1. x # y => x.cars # y.cars \/ x.light # y.light
      BY <1>2
    <3> QED BY <1>2, <3>1 DEF LessBusy, BusierFirst
  <2> QED BY <2>1 DEF IsOrder
<1>4. ASSUME NEW x \in S PROVE Size(x) = Cardinality(Under(S, L, x))
  <2>1. {y \in S : LessBusy(y, x)} = Under(S, L, x)
    BY DEF Under
  <2> QED BY <2>1
<1>5. ASSUME NEW p \in 1 .. n PROVE (CHOOSE x \in S : Size(x) = p - 1) \in S
  <2>1. PICK x \in S : Cardinality(Under(S, L, x)) = p - 1
    <3> HIDE DEF L
    <3> QED BY <1>3, PlacesExist
  <2>2. Size(x) = p - 1
    BY <1>4, <2>1
  <2> HIDE DEF Size
  <2> QED BY <2>2
<1>6. n \in Nat
  BY FS_CardinalityType
<1>7. order \in [1 .. n -> S]
  <2> HIDE DEF Size, n
  <2> QED BY <1>5
<1> HIDE DEF order, n
<1> QED BY <1>1, <1>6, <1>7

\* The heap of Candidates holds lights of one hour.
Heaps == {s \in [out : Seq(Entry), current : Nat, heap : SUBSET Entry] :
             IsFiniteSet(s.heap) /\ \A e \in s.heap : e.hour = s.current}

\* Candidates are totals.
LEMMA CandidatesAre ==
    ASSUME NEW es \in Seq(Entry), NEW top
    PROVE  Candidates(es, top) \in Seq(Entry)
<1> DEFINE n == Len(es)
           A == Heaps
           base == [out |-> <<>>, current |-> 0, heap |-> {}]
           Flushed(s) == s.out \o InOrderOf(s.heap, LessBusy)
           Push(s, t) == IF t.hour # s.current
                         THEN [out |-> Flushed(s), current |-> t.hour, heap |-> {t}]
                         ELSE [s EXCEPT !.heap = Kept(@ \union {t}, top)]
           o == [w \in (1 .. n) \X A |-> Push(w[2], es[w[1]])]
           Folds(g) == g = [u \in SUBSET (1 .. n) |-> IF u = {} THEN base ELSE Push(g[u \ {Max(u)}], es[Max(u)])]
           f == CHOOSE g : Folds(g)
<1>1. n \in Nat /\ DOMAIN es = 1 .. n /\ \A i \in 1 .. n : es[i] \in Entry
  OBVIOUS
<1>2. Candidates(es, top) = Flushed(f[1 .. n])
  BY <1>1 DEF Candidates, FoldLeft, MapThenFoldSet
<1>3. base \in A
  <2>1. IsFiniteSet({}) /\ <<>> \in Seq(Entry) /\ {} \in SUBSET Entry
    BY FS_EmptySet
  <2> QED BY <2>1 DEF Heaps
<1>4. ASSUME NEW s \in A PROVE Flushed(s) \in Seq(Entry)
  <2> DEFINE S == s.heap
  <2>1. IsFiniteSet(S) /\ S \subseteq Entry /\ \A x \in S, y \in S : x.hour = y.hour
    BY DEF Heaps
  <2>2. IsEntries(S)
    BY <2>1 DEF IsEntries, Entry
  <2>3. InOrderOf(S, LessBusy) \in Seq(S)
    <3> HIDE DEF S
    <3> QED BY <2>1, <2>2, InBusyOrder
  <2>4. InOrderOf(S, LessBusy) \in Seq(Entry)
    <3> HIDE DEF S
    <3> QED BY <2>1, <2>3
  <2>5. s.out \in Seq(Entry)
    BY DEF Heaps
  <2> QED BY <2>4, <2>5, ConcatProperties
<1> HIDE DEF Flushed
<1>5. ASSUME NEW s \in A, NEW t \in Entry PROVE Push(s, t) \in A
  <2>1. /\ s \in [out : Seq(Entry), current : Nat, heap : SUBSET Entry]
        /\ IsFiniteSet(s.heap) /\ \A e \in s.heap : e.hour = s.current
    BY DEF Heaps
  <2>2. CASE t.hour # s.current
    <3>1. IsFiniteSet({t}) /\ t.hour \in Nat
      BY FS_Singleton DEF Entry
    <3>2. [out |-> Flushed(s), current |-> t.hour, heap |-> {t}] \in A
      BY <1>4, <3>1 DEF Heaps
    <3> QED BY <2>2, <3>2
  <2>3. CASE t.hour = s.current
    <3> DEFINE H == s.heap \union {t}
               K == Kept(H, top)
    <3>1. IsFiniteSet(H)
      BY <2>1, FS_AddElement
    <3>2. K \subseteq H
      BY DEF Kept
    <3>3. IsFiniteSet(K)
      <4> HIDE DEF H, K
      <4> QED BY <3>1, <3>2, FS_Subset
    <3>4. K \subseteq Entry /\ \A e \in K : e.hour = s.current
      <4> HIDE DEF K
      <4> QED BY <2>1, <2>3, <3>2
    <3>5. [s EXCEPT !.heap = K] \in A
      <4> HIDE DEF K
      <4> QED BY <2>1, <3>3, <3>4 DEF Heaps
    <3> QED BY <2>3, <3>5
  <2> QED BY <2>2, <2>3
<1> HIDE DEF Push, A, base
<1>6. ASSUME NEW k \in 1 .. n, NEW a \in A PROVE o[<<k, a>>] = Push(a, es[k]) /\ o[<<k, a>>] \in A
  <2>1. o[<<k, a>>] = Push(a, es[k]) /\ es[k] \in Entry
    BY <1>1
  <2> QED BY <1>5, <2>1
<1>7. StaysIn(o, n, A)
  <2> HIDE DEF o
  <2> QED BY <1>6 DEF StaysIn
<1>8. PICK g \in [SUBSET (1 .. n) -> A] : FoldsSets(g, n, base, o)
  <2> HIDE DEF o, n, A
  <2> QED BY <1>1, <1>3, <1>7, FoldDefines
<1>9. ASSUME NEW u \in SUBSET (1 .. n), u # {} PROVE Max(u) \in 1 .. n /\ u \ {Max(u)} \in SUBSET (1 .. n)
  BY <1>1, <1>9, LastPlace
<1>10. Folds(f)
  <2>1. ASSUME NEW u \in SUBSET (1 .. n) PROVE g[u] = IF u = {} THEN base ELSE Push(g[u \ {Max(u)}], es[Max(u)])
    <3>1. CASE u = {}
      BY <1>8, <3>1 DEF FoldsSets
    <3>2. CASE u # {}
      <4>1. Max(u) \in 1 .. n /\ u \ {Max(u)} \in SUBSET (1 .. n)
        BY <1>9, <3>2
      <4>2. g[u] = o[<<Max(u), g[u \ {Max(u)}]>>] /\ g[u \ {Max(u)}] \in A
        <5> HIDE DEF o
        <5> QED BY <1>8, <3>2, <4>1 DEF FoldsSets
      <4> HIDE DEF o, n
      <4> QED BY <1>6, <3>2, <4>1, <4>2
    <3> QED BY <3>1, <3>2
  <2>2. g = [u \in SUBSET (1 .. n) |-> IF u = {} THEN base ELSE Push(g[u \ {Max(u)}], es[Max(u)])]
    <3> HIDE DEF o, n
    <3> QED BY <1>8, <2>1
  <2> HIDE DEF n
  <2> QED BY <2>2
<1>11. FoldsIn(f, n, A, base, o)
  <2> HIDE DEF f, o
  <2>1. f[{}] = base
    BY <1>10
  <2>2. ASSUME NEW u \in SUBSET (1 .. n), u # {}, f[u \ {Max(u)}] \in A
        PROVE  f[u] = o[<<Max(u), f[u \ {Max(u)}]>>]
    <3>1. f[u] = Push(f[u \ {Max(u)}], es[Max(u)])
      BY <1>10, <2>2
    <3> QED BY <1>6, <1>9, <2>2, <3>1
  <2> HIDE DEF n
  <2> QED BY <2>1, <2>2 DEF FoldsIn
<1>12. PICK F \in [0 .. n -> A] : RunsTo(F, n, base, o) /\ f[1 .. n] = F[n]
  <2> HIDE DEF f, o, n, A
  <2> QED BY <1>1, <1>3, <1>7, <1>11, FoldRuns
<1> HIDE DEF f, o, n
<1>13. f[1 .. n] \in A
  BY <1>1, <1>12
<1> QED BY <1>2, <1>4, <1>13

\* Sorting the candidates loses and adds none.
LEMMA SortedByRank ==
    ASSUME NEW E, IsEntries(E), NEW s \in Seq(E)
    PROVE  Sorted(s, RankLess) \in Seq(E) /\ Len(Sorted(s, RankLess)) = Len(s)
<1> DEFINE n == Len(s)
           D == 1 .. n
           First(i, k) == RankLess(s[i], s[k]) \/ (~RankLess(s[k], s[i]) /\ i < k)
           L == {w \in D \X D : First(w[1], w[2])}
           Size(x) == Cardinality({y \in D : First(y, x)})
           order == [p \in 1 .. Cardinality(D) |-> CHOOSE x \in D : Size(x) = p - 1]
           sorted == [p \in D |-> s[order[p]]]
<1>1. n \in Nat /\ DOMAIN s = D /\ \A i \in D : s[i] \in E /\ s[i] \in [hour : Int, light : Int, cars : Int]
  BY DEF IsEntries
<1>2. Sorted(s, RankLess) = sorted
  BY <1>1 DEF Sorted, InOrderOf
<1>3. IsFiniteSet(D) /\ Cardinality(D) = n
  BY <1>1, PlacesOf
<1>4. IsOrder(D, L)
  <2>1. ASSUME NEW i \in D, NEW j \in D, NEW k \in D
        PROVE  /\ ~First(i, i)
               /\ First(i, j) /\ First(j, k) => First(i, k)
               /\ i # j => First(i, j) \/ First(j, i)
    <3> DEFINE a == s[i]
               b == s[j]
               c == s[k]
    <3>1. /\ a.hour \in Int /\ a.light \in Int /\ a.cars \in Int /\ b.hour \in Int /\ b.light \in Int
          /\ b.cars \in Int /\ c.hour \in Int /\ c.light \in Int /\ c.cars \in Int
          /\ i \in Int /\ j \in Int /\ k \in Int
      BY <1>1
    <3> HIDE DEF a, b, c
    <3>2. ~First(i, i)
      BY <3>1, SMTT(30) DEF RankLess, BusierFirst, a, b, c
    <3>3. First(i, j) /\ First(j, k) => First(i, k)
      BY <3>1, SMTT(30) DEF RankLess, BusierFirst, a, b, c
    <3>4. i # j => First(i, j) \/ First(j, i)
      BY <3>1 DEF RankLess, BusierFirst, a, b, c
    <3> QED BY <3>2, <3>3, <3>4
  <2> HIDE DEF First, D
  <2> QED BY <2>1 DEF IsOrder
<1>5. ASSUME NEW x \in D PROVE Size(x) = Cardinality(Under(D, L, x))
  <2>1. {y \in D : First(y, x)} = Under(D, L, x)
    <3> HIDE DEF First, D
    <3> QED BY DEF Under
  <2> QED BY <2>1
<1>6. ASSUME NEW p \in D PROVE order[p] \in D
  <2>1. PICK x \in D : Cardinality(Under(D, L, x)) = p - 1
    <3> HIDE DEF L, D
    <3> QED BY <1>3, <1>4, PlacesExist DEF D
  <2>2. Size(x) = p - 1
    BY <1>5, <2>1
  <2> HIDE DEF Size, D
  <2> QED BY <1>3, <2>2 DEF D
<1>7. sorted \in [1 .. n -> E]
  <2> HIDE DEF order
  <2> QED BY <1>1, <1>6
<1> HIDE DEF sorted, n
<1> QED BY <1>1, <1>2, <1>7 DEF n

\* What rank 0 ranks are candidates.
LEMMA RankedAre ==
    ASSUME NEW E, IsEntries(E), NEW all \in Seq(E), NEW top
    PROVE  MergeCandidates(all, top) \in Seq(E)
<1> DEFINE sorted == Sorted(all, RankLess)
           At0(i) == Cardinality({k \in 1 .. i : sorted[k].hour = sorted[i].hour})
           places == {i \in DOMAIN sorted : At0(i) <= top}
<1>1. sorted \in Seq(E)
  BY SortedByRank
<1>2. MergeCandidates(all, top) = At(sorted, places)
  BY DEF MergeCandidates
<1>3. places \subseteq DOMAIN sorted
  OBVIOUS
<1> HIDE DEF sorted, places
<1> QED BY <1>1, <1>2, <1>3, AtIs

-----------------------------------------------------------------------------
(* The plan                                                                *)

\* Totals of weights are sums.
LEMMA TotalIs ==
    ASSUME NEW w, NEW S
    PROVE  TotalOf(w, S) = SumFunctionOnSet(w, S)
BY DEF TotalOf, MapThenSumSet, SumFunctionOnSet, FoldFunctionOnSet

\* The weight of the hours up to k
Upto(w, k) == TotalOf(w, 1 .. k)

\* Weights add up from hour to hour.
LEMMA UptoGrows ==
    ASSUME NEW n \in Nat, NEW w \in [1 .. n -> Nat]
    PROVE  /\ \A k \in 0 .. n : Upto(w, k) \in Nat
           /\ \A k \in 1 .. n : Upto(w, k) = Upto(w, k - 1) + w[k]
           /\ \A i \in 0 .. n, k \in 0 .. n : i <= k => Upto(w, i) <= Upto(w, k)
<1>1. ASSUME NEW k \in 0 .. n
      PROVE  /\ Upto(w, k) \in Nat /\ IsFiniteSet(1 .. k) /\ \A x \in 1 .. k : w[x] \in Nat /\ w[x] \in Int
             /\ Upto(w, k) = SumFunctionOnSet(w, 1 .. k)
  <2>1. k \in Nat /\ \A x \in 1 .. k : w[x] \in Nat /\ w[x] \in Int
    OBVIOUS
  <2>2. IsFiniteSet(1 .. k)
    BY <2>1, PlacesOf
  <2>3. 0 \in Nat /\ \A a \in Nat, b \in Nat : a + b \in Nat
    OBVIOUS
  <2>4. SumFunctionOnSet(w, 1 .. k) \in Nat
    <3> DEFINE V == Nat
    <3>1. 0 \in V /\ (\A a \in V, b \in V : a + b \in V) /\ \A x \in 1 .. k : w[x] \in V
      BY <2>1, <2>3
    <3>2. SumFunctionOnSet(w, 1 .. k) \in V
      <4> HIDE DEF V
      <4> QED BY <2>2, <3>1, SumIsIn
    <3> QED BY <3>2
  <2> QED BY <2>1, <2>2, <2>4, TotalIs DEF Upto
<1>2. ASSUME NEW k \in 1 .. n PROVE Upto(w, k) = Upto(w, k - 1) + w[k]
  <2>1. k \in 0 .. n /\ k - 1 \in 0 .. n /\ k \in 1 .. k /\ (1 .. k) \ {k} = 1 .. k - 1
    OBVIOUS
  <2>2. SumFunctionOnSet(w, 1 .. k) = w[k] + SumFunctionOnSet(w, (1 .. k) \ {k})
    BY <1>1, <2>1, SumWithout
  <2>3. w[k] \in Nat
    OBVIOUS
  <2>4. Upto(w, k) = SumFunctionOnSet(w, 1 .. k) /\ Upto(w, k - 1) = SumFunctionOnSet(w, 1 .. k - 1)
        /\ Upto(w, k - 1) \in Nat
    BY <1>1, <2>1
  <2>5. SumFunctionOnSet(w, (1 .. k) \ {k}) = SumFunctionOnSet(w, 1 .. k - 1)
    BY <2>1
  <2>6. Upto(w, k) = w[k] + Upto(w, k - 1)
    BY <2>2, <2>4, <2>5
  <2> QED BY <2>3, <2>4, <2>6
<1> DEFINE S == {k \in 0 .. n : \A i \in 0 .. k : Upto(w, i) <= Upto(w, k)}
<1>3. 0 \in S
  <2>1. 0 \in 0 .. n
    OBVIOUS
  <2>2. Upto(w, 0) \in Nat
    BY <1>1, <2>1
  <2>3. \A i \in 0 .. 0 : Upto(w, i) <= Upto(w, 0)
    BY <2>2
  <2> QED BY <2>1, <2>3
<1>4. ASSUME NEW k \in 1 .. n, k - 1 \in S PROVE k \in S
  <2>1. \A i \in 0 .. k - 1 : Upto(w, i) <= Upto(w, k - 1)
    BY <1>4
  <2>2. Upto(w, k) \in Nat /\ Upto(w, k - 1) \in Nat /\ w[k] \in Nat
    BY <1>1
  <2>3. ASSUME NEW i \in 0 .. k PROVE Upto(w, i) <= Upto(w, k)
    <3>1. CASE i = k
      BY <2>2, <3>1
    <3>2. CASE i # k
      <4>1. i \in 0 .. k - 1 /\ i \in 0 .. n
        BY <3>2
      <4>2. Upto(w, i) \in Nat
        BY <1>1, <4>1
      <4> QED BY <1>2, <2>1, <2>2, <4>1, <4>2
    <3> QED BY <3>1, <3>2
  <2> QED BY <2>3
<1>5. \A k \in 0 .. n : k \in S
  <2> HIDE DEF S
  <2> QED BY <1>3, <1>4, Climb
<1>6. \A i \in 0 .. n, k \in 0 .. n : i <= k => Upto(w, i) <= Upto(w, k)
  BY <1>5
<1> QED BY <1>1, <1>2, <1>6

\* Every hour of a block plan has a reducer.
LEMMA BlockIs ==
    ASSUME NEW n \in Nat, NEW red \in Nat \ {0}
    PROVE  BlockOwners(n, red) \in [1 .. n -> 0 .. red - 1]
<1>1. ASSUME NEW h \in 1 .. n PROVE ((h - 1) * red) \div n \in 0 .. red - 1
  <2> DEFINE x == ((h - 1) * red) \div n
             i == h - 1
  <2>1. n \in Nat \ {0} /\ i \in Nat /\ i + 1 <= n /\ red \in Nat
    OBVIOUS
  <2>2. (red * i) \div n \in Nat /\ ((red * i) \div n) * n <= red * i
    BY <2>1, ShareOf
  <2>3. i * red = red * i
    BY <2>1
  <2>4. x \in Nat /\ x * n <= red * i
    BY <2>2, <2>3
  <2>5. red * i < red * n
    <3>1. red * n = red * i + red * (n - i) /\ red * (n - i) >= red
      <4>1. n - i \in Nat /\ n - i >= 1
        BY <2>1
      <4> HIDE DEF i
      <4> QED BY <2>1, <4>1
    <3> HIDE DEF i
    <3>2. red >= 1 /\ red * i \in Int /\ red * (n - i) \in Int
      BY <2>1
    <3> QED BY <3>1, <3>2
  <2>6. x < red
    <3> HIDE DEF x, i
    <3>1. x >= red => x * n >= red * n
      BY <2>1, <2>4
    <3>2. x * n \in Int /\ red * n \in Int /\ red * i \in Int
      BY <2>1, <2>4
    <3> QED BY <2>1, <2>4, <2>5, <3>1, <3>2
  <2> HIDE DEF x
  <2> QED BY <2>4, <2>6 DEF x
<1> QED BY <1>1 DEF BlockOwners

\* The smaller of two
LEMMA LessOf ==
    ASSUME NEW a \in Int, NEW b \in Int
    PROVE  Min({a, b}) = IF a <= b THEN a ELSE b
<1>1. CASE a <= b
  <2>1. a \in {a, b} /\ \A y \in {a, b} : a <= y
    BY <1>1
  <2>2. \A x \in {a, b} : (\A y \in {a, b} : x <= y) => x = a
    BY <1>1
  <2>3. Min({a, b}) = a
    BY <2>1, <2>2 DEF Min
  <2> QED BY <1>1, <2>3
<1>2. CASE ~(a <= b)
  <2>1. b \in {a, b} /\ \A y \in {a, b} : b <= y
    BY <1>2
  <2>2. \A x \in {a, b} : (\A y \in {a, b} : x <= y) => x = b
    BY <1>2
  <2>3. Min({a, b}) = b
    BY <2>1, <2>2 DEF Min
  <2> QED BY <1>2, <2>3
<1> QED BY <1>1, <1>2

\* The weighted plan gives every hour a reducer, later hours no earlier one.
LEMMA WeightedIs ==
    ASSUME NEW n \in Nat, NEW w \in [1 .. n -> Nat], NEW red \in Nat \ {0}
    PROVE  /\ WeightedOwners(w, red) \in [1 .. n -> 0 .. red - 1]
           /\ \A g \in 1 .. n, h \in 1 .. n : g < h => WeightedOwners(w, red)[g] <= WeightedOwners(w, red)[h]
<1> DEFINE total == TotalOf(w, 1 .. n)
           Mid(h) == 2 * Upto(w, h - 1) + w[h]
           Slot(h) == (Mid(h) * red) \div (2 * total)
           own == [h \in 1 .. n |-> IF total = 0 THEN 0 ELSE Share(Slot(h), red)]
<1>1. WeightedOwners(w, red) = own
  <2>1. DOMAIN w = 1 .. n
    OBVIOUS
  <2> QED BY <2>1 DEF WeightedOwners, Upto
<1>2. total \in Nat
  BY UptoGrows DEF Upto
<1>3. ASSUME NEW h \in 1 .. n PROVE Mid(h) \in Nat /\ w[h] \in Nat /\ Upto(w, h - 1) \in Nat
  <2>1. h - 1 \in 0 .. n
    OBVIOUS
  <2> QED BY <2>1, UptoGrows, SMTT(30)
<1>4. ASSUME NEW g \in 1 .. n, NEW h \in 1 .. n, g < h PROVE Mid(g) <= Mid(h)
  <2>1. g \in 0 .. n /\ h - 1 \in 0 .. n /\ g <= h - 1
    BY <1>4
  <2>2. Upto(w, g) = Upto(w, g - 1) + w[g] /\ Upto(w, g) <= Upto(w, h - 1) /\ Upto(w, g) \in Nat
    BY <2>1, UptoGrows
  <2>3. Upto(w, g - 1) \in Nat /\ w[g] \in Nat /\ Upto(w, h - 1) \in Nat /\ w[h] \in Nat
    BY <1>3
  <2> QED BY <2>2, <2>3, SMTT(30)
<1> HIDE DEF Mid, total
<1>5. ASSUME total # 0, NEW h \in 1 .. n PROVE Slot(h) = (red * Mid(h)) \div (2 * total) /\ Slot(h) \in Nat
  <2> DEFINE x == Mid(h)
  <2>1. 2 * total \in Nat \ {0} /\ x \in Nat /\ red \in Nat
    BY <1>2, <1>3, <1>5
  <2> HIDE DEF x
  <2>2. x * red = red * x
    BY <2>1
  <2>3. (red * x) \div (2 * total) \in Nat
    BY <2>1, ShareOf
  <2> QED BY <2>2, <2>3 DEF x
<1>6. ASSUME total # 0, NEW g \in 1 .. n, NEW h \in 1 .. n, g < h PROVE Slot(g) <= Slot(h)
  <2>1. 2 * total \in Nat \ {0} /\ Mid(g) \in Nat /\ Mid(h) \in Nat /\ red \in Nat /\ Mid(g) <= Mid(h)
    BY <1>2, <1>3, <1>4, <1>6
  <2>2. (red * Mid(g)) \div (2 * total) <= (red * Mid(h)) \div (2 * total)
    BY <2>1, SharesGrow
  <2> QED BY <1>5, <1>6, <2>2
<1> HIDE DEF Slot
<1>7. ASSUME NEW x \in Nat PROVE Share(x, red) = (IF x <= red - 1 THEN x ELSE red - 1) /\ Share(x, red) \in 0 .. red - 1
  <2>1. Min({x, red - 1}) = IF x <= red - 1 THEN x ELSE red - 1
    BY LessOf
  <2> QED BY <2>1 DEF Share
<1>8. ASSUME NEW h \in 1 .. n PROVE own[h] \in 0 .. red - 1
  <2>1. CASE total = 0
    BY <2>1
  <2>2. CASE total # 0
    BY <1>5, <1>7, <2>2
  <2> QED BY <2>1, <2>2
<1>9. ASSUME NEW g \in 1 .. n, NEW h \in 1 .. n, g < h PROVE own[g] <= own[h]
  <2>1. CASE total = 0
    BY <2>1
  <2>2. CASE total # 0
    <3>1. Slot(g) \in Nat /\ Slot(h) \in Nat /\ Slot(g) <= Slot(h)
      BY <1>5, <1>6, <1>9, <2>2
    <3>2. own[g] = Share(Slot(g), red) /\ own[h] = Share(Slot(h), red)
      BY <2>2
    <3> DEFINE a == Slot(g)
               b == Slot(h)
    <3>3. Share(a, red) = (IF a <= red - 1 THEN a ELSE red - 1) /\ Share(b, red) = IF b <= red - 1 THEN b ELSE red - 1
      BY <1>7, <3>1
    <3>4. a \in Nat /\ b \in Nat /\ a <= b /\ own[g] = Share(a, red) /\ own[h] = Share(b, red)
      BY <3>1, <3>2
    <3> HIDE DEF own, a, b
    <3> QED BY <3>3, <3>4
  <2> QED BY <2>1, <2>2
<1>10. own \in [1 .. n -> 0 .. red - 1]
  BY <1>8
<1> HIDE DEF own
<1> QED BY <1>1, <1>9, <1>10

\* All hours are taken once, none before a heavier one.
IsHeaviestFirst(hs, w, n) ==
    /\ hs \in [1 .. n -> 1 .. n]
    /\ \A h \in 1 .. n : \E p \in 1 .. n : hs[p] = h
    /\ \A i \in 1 .. n, k \in 1 .. n : hs[i] = hs[k] => i = k
    /\ \A i \in 1 .. n, k \in 1 .. n : i < k => w[hs[k]] <= w[hs[i]]

LEMMA HeaviestIs ==
    ASSUME NEW n \in Nat, NEW w \in [1 .. n -> Nat]
    PROVE  IsHeaviestFirst(HeaviestFirst(w), w, n)
<1> DEFINE D == 1 .. n
           s == [h \in D |-> h]
           First(i, k) == w[s[i]] > w[s[k]] \/ (~(w[s[k]] > w[s[i]]) /\ i < k)
           L == {x \in D \X D : First(x[1], x[2])}
           Size(x) == Cardinality({y \in D : First(y, x)})
           order == [p \in 1 .. Cardinality(D) |-> CHOOSE x \in D : Size(x) = p - 1]
           hs == [p \in D |-> s[order[p]]]
<1>1. DOMAIN w = D /\ DOMAIN s = D /\ \A i \in D : s[i] = i /\ w[i] \in Nat /\ i \in Int
  OBVIOUS
<1>2. HeaviestFirst(w) = hs
  BY <1>1 DEF HeaviestFirst, Sorted, InOrderOf
<1>3. IsFiniteSet(D) /\ Cardinality(D) = n
  BY PlacesOf
<1>4. ASSUME NEW i \in D, NEW k \in D PROVE First(i, k) <=> w[i] > w[k] \/ (~(w[k] > w[i]) /\ i < k)
  <2> HIDE DEF D
  <2> QED BY <1>1
<1>5. IsOrder(D, L)
  <2>1. ASSUME NEW i \in D, NEW j \in D, NEW k \in D
        PROVE  /\ ~First(i, i)
               /\ First(i, j) /\ First(j, k) => First(i, k)
               /\ i # j => First(i, j) \/ First(j, i)
    <3>1. w[i] \in Nat /\ w[j] \in Nat /\ w[k] \in Nat /\ i \in Int /\ j \in Int /\ k \in Int
      BY <1>1
    <3>2. /\ First(i, i) <=> w[i] > w[i] \/ (~(w[i] > w[i]) /\ i < i)
          /\ First(i, j) <=> w[i] > w[j] \/ (~(w[j] > w[i]) /\ i < j)
          /\ First(j, i) <=> w[j] > w[i] \/ (~(w[i] > w[j]) /\ j < i)
          /\ First(j, k) <=> w[j] > w[k] \/ (~(w[k] > w[j]) /\ j < k)
          /\ First(i, k) <=> w[i] > w[k] \/ (~(w[k] > w[i]) /\ i < k)
      BY <1>4
    <3> HIDE DEF First, D
    <3> QED BY <3>1, <3>2
  <2> HIDE DEF First, D
  <2> QED BY <2>1 DEF IsOrder
<1>6. ASSUME NEW x \in D PROVE Size(x) = Cardinality(Under(D, L, x))
  <2>1. {y \in D : First(y, x)} = Under(D, L, x)
    <3> HIDE DEF First, D
    <3> QED BY DEF Under
  <2> QED BY <2>1
<1>7. Lists(order, D, L)
  <2>1. ASSUME NEW p \in 1 .. Cardinality(D)
        PROVE  order[p] \in D /\ Cardinality(Under(D, L, order[p])) = p - 1
    <3>1. PICK x \in D : Cardinality(Under(D, L, x)) = p - 1
      <4> HIDE DEF L, D
      <4> QED BY <1>3, <1>5, PlacesExist
    <3>2. Size(x) = p - 1
      BY <1>6, <3>1
    <3>3. order[p] \in D /\ Size(order[p]) = p - 1
      <4> HIDE DEF Size, D
      <4> QED BY <3>2
    <3> HIDE DEF order, Size, L, D
    <3> QED BY <1>6, <3>3
  <2>2. order = [p \in 1 .. Cardinality(D) |-> order[p]]
    <3> HIDE DEF Size, D
    <3> QED OBVIOUS
  <2> HIDE DEF order, L, D
  <2> QED BY <2>1, <2>2 DEF Lists
<1>8. /\ order \in [1 .. n -> D]
      /\ \A x \in D : \E p \in 1 .. n : order[p] = x
      /\ \A i \in 1 .. n, k \in 1 .. n : i < k <=> <<order[i], order[k]>> \in L
      /\ \A i \in 1 .. n, k \in 1 .. n : order[i] = order[k] => i = k
  <2> HIDE DEF order, L
  <2>1. /\ order \in [1 .. Cardinality(D) -> D]
        /\ \A x \in D : \E p \in 1 .. Cardinality(D) : order[p] = x
        /\ \A i \in 1 .. Cardinality(D), k \in 1 .. Cardinality(D) : i < k <=> <<order[i], order[k]>> \in L
        /\ \A i \in 1 .. Cardinality(D), k \in 1 .. Cardinality(D) : order[i] = order[k] => i = k
    <3> HIDE DEF D
    <3> QED BY <1>3, <1>5, <1>7, ListIs
  <2> HIDE DEF D
  <2> QED BY <1>3, <2>1
<1> HIDE DEF order
<1>9. \A p \in D : hs[p] = order[p]
  BY <1>8
<1>10. hs \in [1 .. n -> 1 .. n]
  BY <1>8
<1>11. ASSUME NEW i \in 1 .. n, NEW k \in 1 .. n, i < k PROVE w[order[k]] <= w[order[i]]
  <2>1. order[i] \in D /\ order[k] \in D /\ <<order[i], order[k]>> \in L
    <3> HIDE DEF L
    <3> QED BY <1>8, <1>11
  <2>2. First(order[i], order[k])
    <3> HIDE DEF First, D
    <3> QED BY <2>1
  <2>3. w[order[i]] \in Nat /\ w[order[k]] \in Nat
    BY <1>1, <2>1
  <2>4. w[order[i]] > w[order[k]] \/ ~(w[order[k]] > w[order[i]])
    <3> HIDE DEF First
    <3> QED BY <1>4, <2>1, <2>2
  <2> QED BY <2>3, <2>4
<1> HIDE DEF hs, L, First
<1>12. /\ \A h \in 1 .. n : \E p \in 1 .. n : hs[p] = h
       /\ \A i \in 1 .. n, k \in 1 .. n : hs[i] = hs[k] => i = k
       /\ \A i \in 1 .. n, k \in 1 .. n : i < k => w[hs[k]] <= w[hs[i]]
  BY <1>8, <1>9, <1>11
<1> QED BY <1>2, <1>10, <1>12 DEF IsHeaviestFirst

\* The hours split so far, the room of the others, and where the search ended
Splitting(s, k, hs, w, n, red) ==
    /\ s.split \subseteq 1 .. n /\ s.room = SumFunctionOnSet(w, (1 .. n) \ s.split)
    /\ ~s.full => s.split = {hs[i] : i \in 1 .. k}
    /\ s.full => \E j \in 1 .. k : w[hs[j]] * red <= s.room /\ s.split = {hs[i] : i \in 1 .. j - 1}

\* One step of the search
SplitStep(s, h, w, red) ==
    IF s.full \/ w[h] * red <= s.room THEN [s EXCEPT !.full = TRUE]
    ELSE [s EXCEPT !.split = @ \union {h}, !.room = @ - w[h]]

LEMMA SplittingKeeps ==
    ASSUME NEW n \in Nat, NEW w \in [1 .. n -> Nat], NEW red \in Nat \ {0}, NEW hs, IsHeaviestFirst(hs, w, n),
           NEW s \in [split : SUBSET (1 .. n), room : Int, full : BOOLEAN], NEW k \in 1 .. n,
           Splitting(s, k - 1, hs, w, n, red)
    PROVE  /\ SplitStep(s, hs[k], w, red) \in [split : SUBSET (1 .. n), room : Int, full : BOOLEAN]
           /\ Splitting(SplitStep(s, hs[k], w, red), k, hs, w, n, red)
<1> DEFINE h == hs[k]
           t == SplitStep(s, h, w, red)
<1>1. h \in 1 .. n /\ w[h] \in Nat
  BY DEF IsHeaviestFirst
<1>2. k \in Int /\ k - 1 + 1 = k /\ \A j \in 1 .. k - 1 : j \in 1 .. k
  OBVIOUS
<1>3. CASE s.full
  <2>1. t = [s EXCEPT !.full = TRUE]
    BY <1>3 DEF SplitStep
  <2>2. t = s
    BY <1>3, <2>1
  <2>3. \E j \in 1 .. k : w[hs[j]] * red <= s.room /\ s.split = {hs[i] : i \in 1 .. j - 1}
    BY <1>2, <1>3 DEF Splitting
  <2> HIDE DEF t
  <2> QED BY <1>3, <2>2, <2>3 DEF Splitting, t
<1>4. CASE ~s.full /\ w[h] * red <= s.room
  <2>1. t = [s EXCEPT !.full = TRUE]
    BY <1>4 DEF SplitStep
  <2>2. t.split = s.split /\ t.room = s.room /\ t.full = TRUE
        /\ t \in [split : SUBSET (1 .. n), room : Int, full : BOOLEAN]
    <3> HIDE DEF t
    <3> QED BY <2>1
  <2>3. s.split = {hs[i] : i \in 1 .. k - 1}
    BY <1>4 DEF Splitting
  <2>4. \E j \in 1 .. k : w[hs[j]] * red <= s.room /\ s.split = {hs[i] : i \in 1 .. j - 1}
    <3>1. k \in 1 .. k /\ w[hs[k]] * red <= s.room
      BY <1>4
    <3> HIDE DEF h
    <3> QED BY <2>3, <3>1
  <2> HIDE DEF t
  <2> QED BY <2>2, <2>4 DEF Splitting, t
<1>5. CASE ~s.full /\ ~(w[h] * red <= s.room)
  <2> DEFINE rest == (1 .. n) \ s.split
  <2>1. t = [s EXCEPT !.split = s.split \union {h}, !.room = s.room - w[h]]
    BY <1>5 DEF SplitStep
  <2>2. t.split = s.split \union {h} /\ t.room = s.room - w[h] /\ t.full = FALSE
        /\ t \in [split : SUBSET (1 .. n), room : Int, full : BOOLEAN]
    <3>1. s.split \union {h} \in SUBSET (1 .. n) /\ s.room - w[h] \in Int /\ s.full = FALSE
      BY <1>1, <1>5
    <3> HIDE DEF t
    <3> QED BY <2>1, <3>1
  <2>3. s.split = {hs[i] : i \in 1 .. k - 1} /\ s.room = SumFunctionOnSet(w, rest)
    BY <1>5 DEF Splitting
  <2>4. h \in rest
    <3>1. \A i \in 1 .. k - 1 : i \in 1 .. n /\ i # k
      OBVIOUS
    <3>2. \A i \in 1 .. k - 1 : hs[i] # h
      BY <3>1 DEF IsHeaviestFirst
    <3> QED BY <1>1, <2>3, <3>2
  <2>5. IsFiniteSet(rest) /\ \A x \in rest : w[x] \in Int
    <3>1. IsFiniteSet(1 .. n)
      BY PlacesOf
    <3> QED BY <3>1, FS_Subset
  <2>6. SumFunctionOnSet(w, rest) = w[h] + SumFunctionOnSet(w, rest \ {h}) /\ SumFunctionOnSet(w, rest \ {h}) \in Int
    <3>1. IsFiniteSet(rest \ {h}) /\ \A x \in rest \ {h} : w[x] \in Int
      BY <2>5, FS_Subset
    <3>2. SumFunctionOnSet(w, rest \ {h}) \in Int
      <4> HIDE DEF rest, h
      <4> QED BY <3>1, SumIsInt
    <3>3. SumFunctionOnSet(w, rest) = w[h] + SumFunctionOnSet(w, rest \ {h})
      <4> HIDE DEF rest, h
      <4> QED BY <2>4, <2>5, SumWithout
    <3> QED BY <3>2, <3>3
  <2>7. rest \ {h} = (1 .. n) \ t.split
    BY <2>2
  <2>8. t.room = SumFunctionOnSet(w, (1 .. n) \ t.split)
    <3> DEFINE a == SumFunctionOnSet(w, rest \ {h})
    <3>1. s.room = w[h] + a /\ a \in Int /\ t.room = s.room - w[h]
      BY <2>2, <2>3, <2>6
    <3> HIDE DEF a, t, h
    <3>2. t.room = a
      BY <1>1, <3>1
    <3> QED BY <2>7, <3>2 DEF a
  <2>9. t.split = {hs[i] : i \in 1 .. k}
    <3>1. \A i \in 1 .. k : i \in 1 .. k - 1 \/ i = k
      OBVIOUS
    <3> HIDE DEF t
    <3> QED BY <1>2, <2>2, <2>3, <3>1, SMTT(30)
  <2>10. t.split \subseteq 1 .. n
    BY <1>1, <2>2
  <2> HIDE DEF t, rest
  <2> QED BY <2>2, <2>8, <2>9, <2>10 DEF Splitting, t
<1> QED BY <1>3, <1>4, <1>5

\* No hour that stays whole is heavier than a share of those that do.
LEMMA SplitIs ==
    ASSUME NEW n \in Nat, NEW w \in [1 .. n -> Nat], NEW red \in Nat \ {0}, NEW split, split = SplitHours(w, red)
    PROVE  /\ split \subseteq 1 .. n
           /\ \A h \in (1 .. n) \ split : w[h] * red <= SumFunctionOnSet(w, (1 .. n) \ split)
<1> DEFINE hs == HeaviestFirst(w)
           A == [split : SUBSET (1 .. n), room : Int, full : BOOLEAN]
           base == [split |-> {}, room |-> TotalOf(w, 1 .. n), full |-> FALSE]
           Step(s, h) == SplitStep(s, h, w, red)
           o == [x \in (1 .. n) \X A |-> Step(x[2], hs[x[1]])]
           Folds(g) == g = [u \in SUBSET (1 .. n) |-> IF u = {} THEN base ELSE Step(g[u \ {Max(u)}], hs[Max(u)])]
           f == CHOOSE g : Folds(g)
<1>1. IsHeaviestFirst(hs, w, n) /\ hs \in [1 .. n -> 1 .. n] /\ DOMAIN hs = 1 .. n /\ DOMAIN w = 1 .. n
  BY HeaviestIs DEF IsHeaviestFirst
<1>2. split = f[1 .. n].split
  BY <1>1, ZenonT(40) DEF SplitHours, SplitStep, FoldLeft, MapThenFoldSet
<1> HIDE DEF hs
<1>3. base \in A /\ Splitting(base, 0, hs, w, n, red)
  <2>1. IsFiniteSet(1 .. n) /\ \A x \in 1 .. n : w[x] \in Int
    BY PlacesOf
  <2>2. SumFunctionOnSet(w, 1 .. n) \in Int
    BY <2>1, SumIsInt
  <2>3. TotalOf(w, 1 .. n) = SumFunctionOnSet(w, 1 .. n)
    BY TotalIs
  <2>4. base \in A
    BY <2>2, <2>3
  <2>5. (1 .. n) \ {} = 1 .. n /\ {hs[i] : i \in 1 .. 0} = {}
    OBVIOUS
  <2>6. base.split = {} /\ base.room = SumFunctionOnSet(w, 1 .. n) /\ base.full = FALSE
    BY <2>3
  <2> HIDE DEF base
  <2>7. base.room = SumFunctionOnSet(w, (1 .. n) \ base.split)
    BY <2>5, <2>6
  <2> QED BY <2>4, <2>5, <2>6, <2>7 DEF Splitting
<1>4. ASSUME NEW s \in A, NEW k \in 1 .. n PROVE Step(s, hs[k]) \in A
  <2>1. hs[k] \in 1 .. n /\ w[hs[k]] \in Nat
    BY <1>1
  <2>2. CASE s.full \/ w[hs[k]] * red <= s.room
    BY <2>2 DEF SplitStep
  <2>3. CASE ~(s.full \/ w[hs[k]] * red <= s.room)
    <3>1. s.split \union {hs[k]} \in SUBSET (1 .. n) /\ s.room - w[hs[k]] \in Int
      BY <2>1
    <3> QED BY <2>3, <3>1 DEF SplitStep
  <2> QED BY <2>2, <2>3
<1>5. n \in Nat
  OBVIOUS
<1>6. ASSUME NEW k \in 1 .. n, NEW a \in A PROVE o[<<k, a>>] = Step(a, hs[k]) /\ o[<<k, a>>] \in A
  <2>1. o[<<k, a>>] = Step(a, hs[k])
    <3> HIDE DEF Step, A
    <3> QED OBVIOUS
  <2> HIDE DEF Step, A, o
  <2> QED BY <1>4, <2>1
<1> HIDE DEF Step, A, base
<1>7. StaysIn(o, n, A)
  <2> HIDE DEF o
  <2> QED BY <1>6 DEF StaysIn
<1>8. PICK g \in [SUBSET (1 .. n) -> A] : FoldsSets(g, n, base, o)
  <2> HIDE DEF o, A
  <2> QED BY <1>5, <1>3, <1>7, FoldDefines
<1>9. ASSUME NEW u \in SUBSET (1 .. n), u # {} PROVE Max(u) \in 1 .. n /\ u \ {Max(u)} \in SUBSET (1 .. n)
  BY <1>5, <1>9, LastPlace
<1>10. Folds(f)
  <2>1. ASSUME NEW u \in SUBSET (1 .. n) PROVE g[u] = IF u = {} THEN base ELSE Step(g[u \ {Max(u)}], hs[Max(u)])
    <3>1. CASE u = {}
      BY <1>8, <3>1 DEF FoldsSets
    <3>2. CASE u # {}
      <4>1. Max(u) \in 1 .. n /\ u \ {Max(u)} \in SUBSET (1 .. n)
        BY <1>9, <3>2
      <4>2. g[u] = o[<<Max(u), g[u \ {Max(u)}]>>] /\ g[u \ {Max(u)}] \in A
        <5> HIDE DEF o
        <5> QED BY <1>8, <3>2, <4>1 DEF FoldsSets
      <4> HIDE DEF o
      <4> QED BY <1>6, <3>2, <4>1, <4>2
    <3> QED BY <3>1, <3>2
  <2>2. g = [u \in SUBSET (1 .. n) |-> IF u = {} THEN base ELSE Step(g[u \ {Max(u)}], hs[Max(u)])]
    <3> HIDE DEF o
    <3> QED BY <1>8, <2>1
  <2> QED BY <2>2
<1>11. FoldsIn(f, n, A, base, o)
  <2> HIDE DEF f, o
  <2>1. f[{}] = base
    BY <1>10
  <2>2. ASSUME NEW u \in SUBSET (1 .. n), u # {}, f[u \ {Max(u)}] \in A
        PROVE  f[u] = o[<<Max(u), f[u \ {Max(u)}]>>]
    <3>1. f[u] = Step(f[u \ {Max(u)}], hs[Max(u)])
      BY <1>10, <2>2
    <3> QED BY <1>6, <1>9, <2>2, <3>1
  <2> QED BY <2>1, <2>2 DEF FoldsIn
<1>12. PICK F \in [0 .. n -> A] : RunsTo(F, n, base, o) /\ f[1 .. n] = F[n]
  <2> HIDE DEF f, o, A
  <2> QED BY <1>5, <1>3, <1>7, <1>11, FoldRuns
<1> DEFINE S == {k \in 0 .. n : Splitting(F[k], k, hs, w, n, red)}
<1>13. F[0] = base /\ \A k \in 1 .. n : F[k] = o[<<k, F[k - 1]>>]
  <2> HIDE DEF o
  <2> QED BY <1>12 DEF RunsTo
<1>14. 0 \in S
  <2> HIDE DEF f, o
  <2> QED BY <1>3, <1>13
<1>15. ASSUME NEW k \in 1 .. n, k - 1 \in S PROVE k \in S
  <2>1. k - 1 \in 0 .. n /\ F[k - 1] \in A
    <3> HIDE DEF f, o
    <3> QED BY <1>12
  <2>2. F[k] = Step(F[k - 1], hs[k])
    <3> HIDE DEF f, o
    <3> QED BY <1>6, <1>13, <2>1
  <2>3. Splitting(F[k - 1], k - 1, hs, w, n, red)
    BY <1>15
  <2>4. Splitting(SplitStep(F[k - 1], hs[k], w, red), k, hs, w, n, red)
    <3>1. F[k - 1] \in [split : SUBSET (1 .. n), room : Int, full : BOOLEAN]
      BY <2>1 DEF A
    <3> QED BY <1>1, <2>3, <3>1, SplittingKeeps
  <2> QED BY <2>2, <2>4 DEF Step
<1>16. \A k \in 0 .. n : k \in S
  <2> HIDE DEF S, f, o
  <2> QED BY <1>14, <1>15, Climb
<1> DEFINE s == F[n]
<1>17. Splitting(s, n, hs, w, n, red) /\ s \in A /\ split = s.split
  <2>1. n \in 0 .. n
    OBVIOUS
  <2> HIDE DEF f, o
  <2> QED BY <1>2, <1>12, <1>16, <2>1
<1> HIDE DEF s, f, o
<1>18. ASSUME NEW h \in (1 .. n) \ split PROVE w[h] * red <= SumFunctionOnSet(w, (1 .. n) \ split)
  <2>1. PICK m \in 1 .. n : hs[m] = h
    BY <1>1 DEF IsHeaviestFirst
  <2>2. s.full
    <3>1. ~s.full => h \in split
      BY <1>17, <2>1 DEF Splitting
    <3> QED BY <3>1
  <2>3. PICK j \in 1 .. n : w[hs[j]] * red <= s.room /\ s.split = {hs[i] : i \in 1 .. j - 1}
    BY <1>17, <2>2 DEF Splitting
  <2>4. m >= j
    <3>1. m < j => h \in s.split
      <4>1. m < j => m \in 1 .. j - 1
        OBVIOUS
      <4> QED BY <2>1, <2>3, <4>1
    <3> QED BY <1>17, <3>1
  <2>5. w[h] <= w[hs[j]]
    <3>1. CASE m = j
      <4>1. w[h] \in Nat
        OBVIOUS
      <4> QED BY <2>1, <3>1, <4>1
    <3>2. CASE m # j
      <4>1. j < m /\ \A i \in 1 .. n, k \in 1 .. n : i < k => w[hs[k]] <= w[hs[i]]
        BY <1>1, <2>4, <3>2 DEF IsHeaviestFirst
      <4>2. w[hs[m]] <= w[hs[j]]
        BY <4>1
      <4> QED BY <2>1, <4>2
    <3> QED BY <3>1, <3>2
  <2>6. w[h] * red <= w[hs[j]] * red
    <3> DEFINE a == w[h]
               b == w[hs[j]]
    <3>1. a \in Nat /\ b \in Nat /\ a <= b
      BY <1>1, <2>5
    <3> HIDE DEF a, b
    <3>2. a * red <= b * red
      BY <3>1
    <3> QED BY <3>2 DEF a, b
  <2>7. w[h] * red \in Int /\ w[hs[j]] * red \in Int /\ s.room \in Int
    <3>1. w[h] \in Nat /\ hs[j] \in 1 .. n /\ w[hs[j]] \in Nat
      BY <1>1
    <3>2. s.room \in Int
      BY <1>17 DEF A
    <3> QED BY <3>1, <3>2
  <2>8. s.room = SumFunctionOnSet(w, (1 .. n) \ split)
    BY <1>17 DEF Splitting
  <2> QED BY <2>3, <2>6, <2>7, <2>8
<1>19. split \subseteq 1 .. n
  BY <1>17 DEF A
<1> QED BY <1>18, <1>19

\* The hybrid plan splits an hour or gives it a reducer; each hour that stays
\* whole fits a share of the whole ones, and none has an earlier reducer than
\* one before it.
HybridPlan(own, w, n, red) ==
    LET whole == {h \in 1 .. n : own[h] # SplitHour}
    IN  /\ own \in [1 .. n -> {SplitHour} \union 0 .. red - 1]
        /\ \A h \in whole : w[h] * red <= SumFunctionOnSet(w, whole)
        /\ \A g \in whole, h \in whole : g < h => own[g] <= own[h]

LEMMA HybridIs ==
    ASSUME NEW n \in Nat, NEW w \in [1 .. n -> Nat], NEW red \in Nat \ {0}
    PROVE  HybridPlan(HybridOwners(w, red), w, n, red)
<1> DEFINE split == SplitHours(w, red)
           v == [h \in 1 .. n |-> IF h \in split THEN 0 ELSE w[h]]
           kept == WeightedOwners(v, red)
           own == [h \in 1 .. n |-> IF h \in split THEN SplitHour ELSE kept[h]]
           whole == {h \in 1 .. n : own[h] # SplitHour}
<1>1. HybridOwners(w, red) = own
  <2>1. DOMAIN w = 1 .. n
    OBVIOUS
  <2> QED BY <2>1 DEF HybridOwners
<1>2. split \subseteq 1 .. n /\ \A h \in (1 .. n) \ split : w[h] * red <= SumFunctionOnSet(w, (1 .. n) \ split)
  BY SplitIs
<1> HIDE DEF split
<1>3. v \in [1 .. n -> Nat]
  OBVIOUS
<1>4. kept \in [1 .. n -> 0 .. red - 1] /\ \A g \in 1 .. n, h \in 1 .. n : g < h => kept[g] <= kept[h]
  <2> HIDE DEF v
  <2> QED BY <1>3, WeightedIs
<1> HIDE DEF kept
<1>5. whole = (1 .. n) \ split
  <2>1. \A h \in 1 .. n : kept[h] # -1 /\ own[h] = IF h \in split THEN SplitHour ELSE kept[h]
    BY <1>4
  <2> HIDE DEF own
  <2> QED BY <2>1 DEF SplitHour
<1>6. own \in [1 .. n -> {SplitHour} \union 0 .. red - 1]
  BY <1>4
<1>7. \A h \in whole : w[h] * red <= SumFunctionOnSet(w, whole)
  <2> HIDE DEF whole
  <2> QED BY <1>2, <1>5
<1>8. \A g \in whole, h \in whole : g < h => own[g] <= own[h]
  <2>1. \A h \in (1 .. n) \ split : h \in 1 .. n /\ own[h] = kept[h]
    OBVIOUS
  <2> HIDE DEF own, whole
  <2> QED BY <1>4, <1>5, <2>1
<1> HIDE DEF own
<1> QED BY <1>1, <1>6, <1>7, <1>8 DEF HybridPlan

-----------------------------------------------------------------------------
(* The steps of a job                                                      *)

PlacesInv == job \in Jobs /\ pc \in [Ranks -> Places] /\ healthy \in BOOLEAN /\ mapped \in [Ranks -> Seq(Nat \X Nat)]

\* Every rank is killed.
Dies ==
    /\ AllGoto("killed") /\ UNCHANGED <<job, dataVars>>
    /\ healthy' = FALSE \/ (healthy' = healthy /\ (job.words = "no number" \/ BadLine))

\* Where Configure leads
Configured == IF Accepted THEN "open" ELSE IF job.words = "help" THEN "finish 0" ELSE "finish 1"

Configures(r) ==
    pc[r] = "configure" /\ job.words # "no number" /\ Goto(r, Configured) /\ UNCHANGED <<job, dataVars, healthy>>

\* Rank r has read its range.
Reads(r) ==
    /\ pc[r] = "map" /\ Goto(r, "combine")
    /\ RangeLines(r) \in Seq(Nat \X Nat) /\ ~Refuses(EntriesAt(RangeLines(r)))
    /\ mapped' = [mapped EXCEPT ![r] = RangeLines(r)]
    /\ UNCHANGED <<job, entries, planVars, moveVars, reduceVars, rootVars, healthy>>

Steps(r) == Configures(r) \/ Reads(r) \/ Combine(r) \/ Plan(r) \/ Reduce(r) \/ Report(r)

\* A step ends the job, is a collective, or is one of a rank.
LEMMA StepIs ==
    ASSUME PlacesInv, Next
    PROVE  Dies \/ Collective \/ \E r \in Ranks : Steps(r)
<1>0. job \in Jobs
  BY DEF PlacesInv
<1>1. CASE Collective
  BY <1>1
<1>2. ASSUME NEW r \in Ranks, Configure(r) PROVE Dies \/ Steps(r)
  <2>1. CASE job.words = "no number"
    BY <1>2, <2>1 DEF Configure, Fatal, Dies
  <2>2. CASE job.words # "no number"
    BY <1>2, <2>2 DEF Configure, Configures, Configured, Steps
  <2> QED BY <2>1, <2>2
<1>3. ASSUME NEW r \in Ranks, Map(r) PROVE Dies \/ Steps(r)
  <2> DEFINE run == ForEachLine(file, RangeStart(file.size, r, Procs), RangeStart(file.size, r + 1, Procs))
  <2>1. /\ run.lines \in Seq(Nat \X Nat)
        /\ run.status = "failed" \/ Refuses(EntriesAt(run.lines)) => BadLine
        /\ run.status # "failed" => run.lines = RangeLines(r)
    BY <1>0, RankReads
  <2>2. /\ pc[r] = "map" /\ UNCHANGED <<job, healthy>>
        /\ IF run.status = "failed" \/ Refuses(EntriesAt(run.lines)) THEN Fatal
           ELSE /\ mapped' = [mapped EXCEPT ![r] = run.lines]
                /\ Goto(r, "combine")
                /\ UNCHANGED <<entries, planVars, moveVars, reduceVars, rootVars>>
    BY <1>3 DEF Map
  <2> HIDE DEF run
  <2>3. CASE run.status = "failed" \/ Refuses(EntriesAt(run.lines))
    BY <2>1, <2>2, <2>3 DEF Fatal, Dies
  <2>4. CASE ~(run.status = "failed" \/ Refuses(EntriesAt(run.lines)))
    BY <2>1, <2>2, <2>4 DEF Reads, Steps
  <2> QED BY <2>3, <2>4
<1>4. ASSUME NEW r \in Ranks, ReadFails(r) \/ OutOfMemory(r) PROVE Dies
  BY <1>4 DEF ReadFails, OutOfMemory, Fatal, Dies
<1>5. ASSUME NEW r \in Ranks, Local(r) PROVE Dies \/ Steps(r)
  BY <1>2, <1>3, <1>5 DEF Local, Steps
<1> QED BY <1>1, <1>4, <1>5 DEF Next

\* The job and its health, but for a death, do not change; places are places.
LEMMA StepStays ==
    ASSUME PlacesInv, Next
    PROVE  PlacesInv' /\ job' = job /\ (Accepted' <=> Accepted) /\ (Dies \/ healthy' = healthy)
<1> USE DEF PlacesInv, Places, Ended
<1>1. CASE Dies
  BY <1>1 DEF Dies, AllGoto, Accepted, reducers, dataVars, mapVars
<1>2. CASE Collective
  BY <1>2 DEF Collective, Open, Agree, Weigh, TraceMap, Shuffle, TraceReduce, Gather, Verify, Finish, AllGoto,
              AfterPlan, Accepted, reducers, dataVars, mapVars
<1>3. ASSUME NEW r \in Ranks, Configures(r) \/ Plan(r) \/ Combine(r) \/ Reduce(r) \/ Report(r)
      PROVE  PlacesInv' /\ job' = job /\ (Accepted' <=> Accepted) /\ (Dies \/ healthy' = healthy)
  <2>1. job' = job /\ healthy' = healthy /\ mapped' = mapped
    BY <1>3 DEF Configures, Plan, Combine, Reduce, Report, dataVars, mapVars
  <2>2. \E l \in Places : Goto(r, l)
    BY <1>3 DEF Configures, Configured, Plan, Combine, Reduce, Report, AfterPlan, AfterReduce
  <2>3. pc' \in [Ranks -> Places]
    BY <2>2 DEF Goto
  <2> QED BY <2>1, <2>3 DEF Accepted, reducers
<1>4. ASSUME NEW r \in Ranks, Reads(r)
      PROVE  PlacesInv' /\ job' = job /\ (Accepted' <=> Accepted) /\ (Dies \/ healthy' = healthy)
  <2>1. job' = job /\ healthy' = healthy /\ mapped' \in [Ranks -> Seq(Nat \X Nat)]
    BY <1>4 DEF Reads
  <2>2. pc' \in [Ranks -> Places]
    BY <1>4 DEF Reads, Goto
  <2> QED BY <2>1, <2>2 DEF Accepted, reducers
<1> QED BY <1>1, <1>2, <1>3, <1>4, StepIs DEF Steps

-----------------------------------------------------------------------------
(* EndExplained                                                            *)

\* Where the ranks are when they are not all at one place
Groups ==
    {{"configure", Configured}, {"map", "combine", "agree"},
     {"plan", IF view.records = 0 THEN "finish 1"
              ELSE IF job.partition \in {"weighted", "hybrid"} THEN "weigh" ELSE AfterPlan},
     {"reduce", AfterReduce(0)}, {"report", "finish 0"}}

Together == (\E l \in Places : AllAt(l)) \/ \E g \in Groups : \A r \in Ranks : pc[r] \in g

KilledInv == (\E r \in Ranks : pc[r] = "killed") /\ healthy /\ job.words # "no number" => BadLine

\* Rank 0 leaves with 0 after it printed the summary or the help.
PrintedInv ==
    /\ "summary" \in DOMAIN printed
    /\ pc[0] \in {"finish 0", "exit 0"} => printed.summary # <<>> \/ job.words = "help"

EndInv == PlacesInv /\ Together /\ KilledInv /\ PrintedInv

\* A collective takes all ranks from one place to one place.
LEMMA CollectiveMoves ==
    ASSUME PlacesInv, Together, Collective
    PROVE  Together' /\ \A r \in Ranks : pc'[r] # "killed"
<1> USE DEF PlacesInv
<1>0. 0 \in Ranks
  BY JobIs
<1>1. ASSUME NEW l \in Places, AllGoto(l) PROVE Together' /\ \A r \in Ranks : pc'[r] = l
  BY <1>1 DEF AllGoto, Together, AllAt
<1>2. CASE Open \/ Agree \/ Weigh \/ TraceMap \/ Shuffle \/ TraceReduce \/ Gather \/ Verify
  <2>1. \E l \in Places : AllGoto(l) /\ l # "killed"
    BY <1>2 DEF Open, Agree, Weigh, TraceMap, Shuffle, TraceReduce, Gather, Verify, AfterPlan, Places
  <2> QED BY <1>1, <2>1
<1>3. CASE Finish
  <2>1. \A r \in Ranks : pc[r] \in {"finish 0", "finish 1"}
    BY <1>3 DEF Finish
  <2>2. \E l \in {"finish 0", "finish 1"} : \A r \in Ranks : pc[r] = l
    <3>1. CASE \E l \in Places : AllAt(l)
      BY <1>0, <2>1, <3>1 DEF AllAt
    <3>2. CASE \E g \in Groups : \A r \in Ranks : pc[r] \in g
      <4>1. PICK g \in Groups : \A r \in Ranks : pc[r] \in g
        BY <3>2
      <4>2. \E x \in {"finish 0", "finish 1"} : \A y \in {"finish 0", "finish 1"} : y \in g => y = x
        BY DEF Groups, Configured, AfterPlan, AfterReduce
      <4> QED BY <1>0, <2>1, <4>1, <4>2
    <3> QED BY <3>1, <3>2 DEF Together
  <2>3. pc' = [r \in Ranks |-> IF pc[r] = "finish 0" THEN "exit 0" ELSE "exit 1"]
    BY <1>3 DEF Finish
  <2>4. AllGoto("exit 0") \/ AllGoto("exit 1")
    <3>1. PICK l \in {"finish 0", "finish 1"} : \A r \in Ranks : pc[r] = l
      BY <2>2
    <3>2. CASE l = "finish 0"
      BY <2>3, <3>1, <3>2 DEF AllGoto
    <3>3. CASE l = "finish 1"
      BY <2>3, <3>1, <3>3 DEF AllGoto
    <3> QED BY <3>2, <3>3
  <2>5. "exit 0" \in Places /\ "exit 1" \in Places
    BY DEF Places, Ended
  <2>6. CASE AllGoto("exit 0")
    <3>1. Together' /\ \A r \in Ranks : pc'[r] = "exit 0"
      BY <1>1, <2>5, <2>6
    <3> QED BY <3>1
  <2>7. CASE AllGoto("exit 1")
    <3>1. Together' /\ \A r \in Ranks : pc'[r] = "exit 1"
      BY <1>1, <2>5, <2>7
    <3> QED BY <3>1
  <2> QED BY <2>4, <2>6, <2>7
<1> QED BY <1>2, <1>3 DEF Collective

\* No step takes the summary from what rank 0 has printed.
LEMMA FieldStays ==
    ASSUME PlacesInv, Next, "summary" \in DOMAIN printed
    PROVE  "summary" \in DOMAIN printed'
<1>1. CASE Dies
  BY <1>1 DEF Dies, dataVars, rootVars
<1>2. CASE Collective
  <2>1. CASE Open \/ Agree \/ Weigh \/ Shuffle \/ Gather \/ Verify \/ Finish
    <3>1. printed' = printed
      BY <2>1 DEF Open, Agree, Weigh, Shuffle, Gather, Verify, Finish, dataVars, rootVars
    <3> QED BY <3>1
  <2>2. CASE TraceMap
    <3>1. \E m, p : printed' = [printed EXCEPT !.map = m, !.plan = p]
      BY <2>2 DEF TraceMap
    <3> QED BY <3>1
  <2>3. CASE TraceReduce
    <3>1. \E m : printed' = [printed EXCEPT !.reduce = m]
      BY <2>3 DEF TraceReduce
    <3> QED BY <3>1
  <2> QED BY <1>2, <2>1, <2>2, <2>3 DEF Collective
<1>3. ASSUME NEW r \in Ranks, Steps(r) PROVE "summary" \in DOMAIN printed'
  <2>1. CASE Configures(r) \/ Reads(r) \/ Combine(r) \/ Plan(r) \/ Reduce(r)
    <3>1. printed' = printed
      BY <2>1 DEF Configures, Reads, Combine, Plan, Reduce, dataVars, rootVars
    <3> QED BY <3>1
  <2>2. CASE Report(r)
    <3>1. printed' = printed \/ \E m, p, q : printed' = [printed EXCEPT !.shown = m, !.summary = p, !.written = q]
      <4>1. CASE r # 0
        BY <2>2, <4>1 DEF Report
      <4>2. CASE r = 0
        <5>1. PICK opened : printed' = [printed EXCEPT !.shown = Shown(ranked, job.hours), !.summary = <<Summary>>,
                                                       !.written = IF opened THEN ByHour(ranked) ELSE <<>>]
          BY <2>2, <4>2 DEF Report
        <5> QED BY <5>1
      <4> QED BY <4>1, <4>2
    <3> QED BY <3>1
  <2> QED BY <1>3, <2>1, <2>2 DEF Steps
<1> QED BY <1>1, <1>2, <1>3, StepIs

\* A rank that moves alone stays with the others.
LEMMA RankMoves ==
    ASSUME PlacesInv, Together, NEW r \in Ranks, Steps(r)
    PROVE  Together' /\ \A s \in Ranks : pc'[s] = "killed" => pc[s] = "killed"
<1> USE DEF PlacesInv
<1>0. view' = view /\ job' = job
  BY DEF Steps, Configures, Reads, Combine, Plan, Reduce, Report, dataVars, planVars
<1>1. Groups' = Groups
  BY <1>0 DEF Groups, Configured, Accepted, reducers, AfterPlan, AfterReduce
<1>2. ASSUME NEW g \in Groups, pc[r] \in g, NEW l \in g, Goto(r, l), l # "killed",
             \A h \in Groups : pc[r] \in h => h = g
      PROVE  Together' /\ \A s \in Ranks : pc'[s] = "killed" => pc[s] = "killed"
  <2>1. \A s \in Ranks : pc[s] \in g
    BY <1>2 DEF Together, AllAt
  <2>2. \A s \in Ranks : pc'[s] = IF s = r THEN l ELSE pc[s]
    BY <1>2 DEF Goto
  <2>3. g \in Groups'
    BY <1>1
  <2>4. \A s \in Ranks : pc'[s] \in g
    BY <2>1, <2>2
  <2> HIDE DEF Groups
  <2>5. Together'
    BY <2>3, <2>4 DEF Together
  <2> QED BY <1>2, <2>2, <2>5
<1> DEFINE planned == IF view.records = 0 THEN "finish 1"
                      ELSE IF job.partition \in {"weighted", "hybrid"} THEN "weigh" ELSE AfterPlan
           reduced == AfterReduce(0)
           known == Configured
<1>3. /\ Groups = {{"configure", known}, {"map", "combine", "agree"}, {"plan", planned}, {"reduce", reduced},
                   {"report", "finish 0"}}
      /\ known \in {"open", "finish 0", "finish 1"}
      /\ planned \in {"finish 1", "weigh", "trace map", "shuffle"}
      /\ reduced \in {"trace reduce", "gather"}
  BY DEF Groups, Configured, AfterPlan, AfterReduce
<1>4. /\ Configures(r) => pc[r] = "configure" /\ Goto(r, known)
      /\ Reads(r) => pc[r] = "map" /\ Goto(r, "combine")
      /\ Combine(r) => pc[r] = "combine" /\ Goto(r, "agree")
      /\ Plan(r) => pc[r] = "plan" /\ Goto(r, planned)
      /\ Reduce(r) => pc[r] = "reduce" /\ Goto(r, reduced)
      /\ Report(r) => pc[r] = "report" /\ Goto(r, "finish 0")
  BY DEF Configures, Reads, Combine, Plan, Reduce, Report, AfterReduce
<1> HIDE DEF planned, reduced, known
<1>5. CASE Configures(r)
  <2> DEFINE g == {"configure", known}
  <2>1. pc[r] = "configure" /\ Goto(r, known) /\ known # "killed"
    BY <1>3, <1>4, <1>5
  <2>2. g \in Groups /\ pc[r] \in g /\ known \in g
    BY <1>3, <2>1
  <2>3. \A h \in Groups : pc[r] \in h => h = g
    BY <1>3, <2>1
  <2> HIDE DEF g
  <2> QED BY <1>2, <2>1, <2>2, <2>3
<1>6. CASE Reads(r)
  <2> DEFINE g == {"map", "combine", "agree"}
  <2>1. pc[r] = "map" /\ Goto(r, "combine") /\ "combine" # "killed"
    BY <1>3, <1>4, <1>6
  <2>2. g \in Groups /\ pc[r] \in g /\ "combine" \in g
    BY <1>3, <2>1
  <2>3. \A h \in Groups : pc[r] \in h => h = g
    BY <1>3, <2>1
  <2> HIDE DEF g
  <2> QED BY <1>2, <2>1, <2>2, <2>3
<1>7. CASE Combine(r)
  <2> DEFINE g == {"map", "combine", "agree"}
  <2>1. pc[r] = "combine" /\ Goto(r, "agree") /\ "agree" # "killed"
    BY <1>3, <1>4, <1>7
  <2>2. g \in Groups /\ pc[r] \in g /\ "agree" \in g
    BY <1>3, <2>1
  <2>3. \A h \in Groups : pc[r] \in h => h = g
    BY <1>3, <2>1
  <2> HIDE DEF g
  <2> QED BY <1>2, <2>1, <2>2, <2>3
<1>8. CASE Plan(r)
  <2> DEFINE g == {"plan", planned}
  <2>1. pc[r] = "plan" /\ Goto(r, planned) /\ planned # "killed"
    BY <1>3, <1>4, <1>8
  <2>2. g \in Groups /\ pc[r] \in g /\ planned \in g
    BY <1>3, <2>1
  <2>3. \A h \in Groups : pc[r] \in h => h = g
    BY <1>3, <2>1
  <2> HIDE DEF g
  <2> QED BY <1>2, <2>1, <2>2, <2>3
<1>9. CASE Reduce(r)
  <2> DEFINE g == {"reduce", reduced}
  <2>1. pc[r] = "reduce" /\ Goto(r, reduced) /\ reduced # "killed"
    BY <1>3, <1>4, <1>9
  <2>2. g \in Groups /\ pc[r] \in g /\ reduced \in g
    BY <1>3, <2>1
  <2>3. \A h \in Groups : pc[r] \in h => h = g
    BY <1>3, <2>1
  <2> HIDE DEF g
  <2> QED BY <1>2, <2>1, <2>2, <2>3
<1>10. CASE Report(r)
  <2> DEFINE g == {"report", "finish 0"}
  <2>1. pc[r] = "report" /\ Goto(r, "finish 0") /\ "finish 0" # "killed"
    BY <1>3, <1>4, <1>10
  <2>2. g \in Groups /\ pc[r] \in g /\ "finish 0" \in g
    BY <1>3, <2>1
  <2>3. \A h \in Groups : pc[r] \in h => h = g
    BY <1>3, <2>1
  <2> HIDE DEF g
  <2> QED BY <1>2, <2>1, <2>2, <2>3
<1> QED BY <1>5, <1>6, <1>7, <1>8, <1>9, <1>10 DEF Steps

\* The invariant that EndExplained needs
LEMMA StepEnd == EndInv /\ Next => EndInv'
<1> SUFFICES ASSUME EndInv, Next PROVE EndInv'
  OBVIOUS
<1>0. PlacesInv /\ Together /\ KilledInv /\ PrintedInv
  BY DEF EndInv
<1>1. PlacesInv' /\ job' = job /\ (Accepted' <=> Accepted) /\ (Dies \/ healthy' = healthy)
  BY <1>0, StepStays
<1>2. BadLine' <=> BadLine
  BY <1>1 DEF BadLine, file
<1>3. 0 \in Ranks
  BY <1>0, JobIs DEF PlacesInv
<1>7. "summary" \in DOMAIN printed'
  BY <1>0, FieldStays DEF PrintedInv
<1>4. CASE Dies
  <2>1. \A r \in Ranks : pc'[r] = "killed"
    BY <1>4 DEF Dies, AllGoto
  <2>2. Together'
    BY <2>1 DEF Together, AllAt, Places, Ended
  <2>3. KilledInv'
    BY <1>1, <1>2, <1>4 DEF Dies, KilledInv
  <2>4. PrintedInv'
    BY <1>3, <1>7, <2>1 DEF PrintedInv
  <2> QED BY <1>1, <2>2, <2>3, <2>4 DEF EndInv
<1>5. CASE Collective /\ ~Dies
  <2>1. Together' /\ \A r \in Ranks : pc'[r] # "killed"
    BY <1>0, <1>5, CollectiveMoves
  <2>2. KilledInv'
    BY <2>1 DEF KilledInv
  <2>3. PrintedInv'
    <3>1. ASSUME Finish PROVE PrintedInv'
      BY <1>0, <1>3, <1>7, <3>1 DEF Finish, PrintedInv, dataVars, rootVars, PlacesInv
    <3>2. ASSUME Collective, ~Finish PROVE pc'[0] \notin {"finish 0", "exit 0"}
      BY <1>3, <3>2 DEF Collective, Open, Agree, Weigh, TraceMap, Shuffle, TraceReduce, Gather, Verify, AllGoto,
                        AfterPlan
    <3> QED BY <1>5, <1>7, <3>1, <3>2 DEF PrintedInv
  <2> QED BY <1>1, <2>1, <2>2, <2>3 DEF EndInv
<1>6. ASSUME NEW r \in Ranks, Steps(r), ~Dies PROVE EndInv'
  <2>1. Together' /\ \A s \in Ranks : pc'[s] = "killed" => pc[s] = "killed"
    BY <1>0, <1>6, RankMoves
  <2>2. KilledInv'
    BY <1>0, <1>1, <1>2, <1>6, <2>1 DEF KilledInv
  <2>3. PrintedInv'
    <3>1. CASE Configures(r)
      BY <1>0, <1>1, <1>3, <1>7, <3>1 DEF Configures, Configured, Accepted, Goto, PrintedInv, dataVars, rootVars, PlacesInv
    <3>2. CASE Reads(r) \/ Combine(r)
      BY <1>0, <1>1, <1>3, <1>7, <3>2 DEF Reads, Combine, Goto, PrintedInv, rootVars, PlacesInv
    <3>3. CASE Plan(r)
      BY <1>0, <1>1, <1>3, <1>7, <3>3 DEF Plan, AfterPlan, Goto, PrintedInv, rootVars, PlacesInv
    <3>4. CASE Reduce(r)
      BY <1>0, <1>1, <1>3, <1>7, <3>4 DEF Reduce, AfterReduce, Goto, PrintedInv, rootVars, PlacesInv
    <3>5. CASE Report(r)
      <4>1. CASE r = 0
        <5>1. \E m, x, q : printed' = [printed EXCEPT !.shown = m, !.summary = <<x>>, !.written = q]
          BY <3>5, <4>1 DEF Report
        <5>2. PICK m, x, q : printed' = [printed EXCEPT !.shown = m, !.summary = <<x>>, !.written = q]
          BY <5>1
        <5>3. "summary" \in DOMAIN printed
          BY <1>0 DEF PrintedInv
        <5>4. printed'.summary = <<x>>
          BY <5>2, <5>3
        <5>5. <<x>> # <<>>
          OBVIOUS
        <5>6. printed'.summary # <<>>
          BY <5>4, <5>5
        <5> QED BY <1>7, <5>6 DEF PrintedInv
      <4>2. CASE r # 0
        <5>1. printed' = printed /\ pc'[0] = pc[0]
          BY <1>0, <1>3, <3>5, <4>2 DEF Report, Goto, PlacesInv
        <5> QED BY <1>0, <1>1, <1>7, <5>1 DEF PrintedInv
      <4> QED BY <4>1, <4>2
    <3> QED BY <1>6, <3>1, <3>2, <3>3, <3>4, <3>5 DEF Steps
  <2> QED BY <1>1, <2>1, <2>2, <2>3 DEF EndInv
<1> QED BY <1>0, <1>4, <1>5, <1>6, StepIs

\* A job is killed only for a bad line, a word that is no number, or a read or
\* an allocation that failed; its ranks leave with one code, 0 only after a
\* report or for help.
THEOREM Ends == Spec => []EndExplained
<1>1. Init => EndInv
  <2> SUFFICES ASSUME Init PROVE EndInv
    OBVIOUS
  <2>1. PlacesInv
    BY DEF Init, PlacesInv, Places, Empty
  <2>2. \A r \in Ranks : pc[r] = "configure"
    BY DEF Init
  <2>3. 0 \in Ranks
    BY <2>1, JobIs DEF PlacesInv
  <2>4. PrintedInv
    BY <2>2, <2>3 DEF Init, PrintedInv
  <2> QED BY <2>1, <2>2, <2>3, <2>4 DEF EndInv, Together, AllAt, Places, KilledInv
<1>2. EndInv /\ [Next]_vars => EndInv'
  <2> SUFFICES ASSUME EndInv, UNCHANGED vars PROVE EndInv'
    BY StepEnd
  <2> QED BY DEF vars, dataVars, mapVars, planVars, rootVars, EndInv, PlacesInv, Together, AllAt, Groups, Configured, Accepted,
                 reducers, AfterPlan, AfterReduce, KilledInv, BadLine, file, PrintedInv
<1>3. EndInv => EndExplained
  <2> SUFFICES ASSUME EndInv PROVE EndExplained
    OBVIOUS
  <2>1. PlacesInv /\ Together /\ KilledInv /\ PrintedInv /\ 0 \in Ranks
    BY JobIs DEF EndInv, PlacesInv
  <2>2. \A r \in Ranks, s \in Ranks : pc[r] = "exit 0" => pc[s] = "exit 0"
    BY <2>1 DEF Together, AllAt, Groups, Configured, AfterPlan, AfterReduce
  <2>3. pc[0] = "exit 0" => printed.summary # <<>> \/ job.words = "help"
    BY <2>1 DEF PrintedInv
  <2> QED BY <2>1, <2>2, <2>3 DEF EndExplained, KilledInv, BadLine
<1> QED BY <1>1, <1>2, <1>3, PTL DEF Spec
-----------------------------------------------------------------------------
(* What the lines hold, and what is made of them                           *)

\* What a rank may ship: the key is the one on a line of the file.
Ships == {e \in Entry : \E i \in Full(file.lines) : EntryAt(file.lines[i]) \in Entry /\ Key(EntryAt(file.lines[i])) = Key(e)}

\* A line of the file with a good entry, or an empty one
GoodLines == {l \in Nat \X Nat : l[1] < l[2] => EntryAt(l) \in Entry /\ \E i \in Full(file.lines) : l = file.lines[i]}

\* A rank that does not refuse its lines has good ones.
LEMMA RangeIsGood ==
    ASSUME job \in Jobs, NEW r \in Ranks, RangeLines(r) \in Seq(Nat \X Nat), ~Refuses(EntriesAt(RangeLines(r)))
    PROVE  RangeLines(r) \in Seq(GoodLines)
<1> DEFINE lines == RangeLines(r)
           es == EntriesAt(lines)
<1>0. lines \in Seq(Nat \X Nat)
  OBVIOUS
<1>1. es \in Seq(Mappable) /\ \A i \in Full(lines) : \E p \in 1 .. Len(es) : es[p] = EntryAt(lines[i])
  BY EntriesOf
<1>2. \A p \in DOMAIN es : ~(es[p].hour < 0)
  BY DEF Refuses
<1>3. \A i \in DOMAIN lines : \E k \in DOMAIN file.lines : lines[i] = file.lines[k]
  BY RangeWithin
<1> HIDE DEF es, lines
<1>4. ASSUME NEW i \in 1 .. Len(lines) PROVE lines[i] \in GoodLines
  <2>1. lines[i] \in Nat \X Nat /\ i \in DOMAIN lines
    BY <1>0
  <2> SUFFICES ASSUME lines[i][1] < lines[i][2]
               PROVE  EntryAt(lines[i]) \in Entry /\ \E k \in Full(file.lines) : lines[i] = file.lines[k]
    BY <2>1 DEF GoodLines
  <2>2. PICK k \in DOMAIN file.lines : lines[i] = file.lines[k]
    BY <1>3, <2>1
  <2>3. k \in Full(file.lines) /\ i \in Full(lines)
    BY <2>1, <2>2 DEF Full
  <2>4. PICK p \in 1 .. Len(es) : es[p] = EntryAt(lines[i])
    BY <1>1, <2>3
  <2>5. es[p] \in Mappable /\ ~(es[p].hour < 0)
    BY <1>1, <1>2
  <2>6. es[p] \in Entry
    BY <2>5 DEF Mappable, Entry
  <2> QED BY <2>2, <2>3, <2>4, <2>6
<1> QED BY <1>0, <1>4 DEF lines

\* The entries on good lines can be shipped.
LEMMA GoodEntries ==
    ASSUME job \in Jobs, NEW lines \in Seq(GoodLines)
    PROVE  EntriesAt(lines) \in Seq(Ships)
<1> DEFINE es == EntriesAt(lines)
<1>1. lines \in Seq(Nat \X Nat)
  BY DEF GoodLines
<1>2. es \in Seq(Mappable) /\ \A p \in 1 .. Len(es) : \E i \in Full(lines) : es[p] = EntryAt(lines[i])
  BY <1>1, EntriesOf
<1> HIDE DEF es
<1>3. ASSUME NEW p \in 1 .. Len(es) PROVE es[p] \in Ships
  <2>1. PICK i \in Full(lines) : es[p] = EntryAt(lines[i])
    BY <1>2
  <2>2. i \in DOMAIN lines /\ lines[i][1] < lines[i][2]
    BY <2>1 DEF Full
  <2>3. lines[i] \in GoodLines
    BY <2>2
  <2>4. EntryAt(lines[i]) \in Entry /\ \E k \in Full(file.lines) : lines[i] = file.lines[k]
    BY <2>2, <2>3 DEF GoodLines
  <2> QED BY <2>1, <2>4 DEF Ships
<1> QED BY <1>2, <1>3 DEF es

\* Combining entries makes no new keys.
LEMMA CombinedShips ==
    ASSUME NEW es \in Seq(Ships)
    PROVE  Combined(es) \in Seq(Ships)
<1> DEFINE K == {e \in Entry : \E i \in DOMAIN es : Key(e) = Key(es[i])}
<1>1. es \in Seq(Entry)
  BY DEF Ships
<1>2. Combined(es) \in Seq(K)
  BY <1>1, CombinedIs
<1>3. K \subseteq Ships
  <2> SUFFICES ASSUME NEW e \in Entry, NEW i \in DOMAIN es, Key(e) = Key(es[i]) PROVE e \in Ships
    OBVIOUS
  <2>1. es[i] \in Ships
    OBVIOUS
  <2>2. PICK k \in Full(file.lines) : EntryAt(file.lines[k]) \in Entry /\ Key(EntryAt(file.lines[k])) = Key(es[i])
    BY <2>1 DEF Ships
  <2> QED BY <2>2 DEF Ships
<1> HIDE DEF K
<1> QED BY <1>2, <1>3

\* What the ranks have, gathered
LEMMA GatheredIs ==
    ASSUME NEW A, NEW h, \A r \in Ranks : h[r] \in Seq(A)
    PROVE  Gathered(h) \in Seq(A)
<1> DEFINE q == [r \in 1 .. Procs |-> h[r - 1]]
<1>1. Procs \in Nat \ {0}
  BY ProcsAssumption
<1>2. \A i \in 1 .. Procs : q[i] \in Seq(A)
  <2> SUFFICES ASSUME NEW i \in 1 .. Procs PROVE h[i - 1] \in Seq(A)
    OBVIOUS
  <2>1. i - 1 \in Ranks
    BY <1>1 DEF Ranks
  <2> QED BY <2>1
<1>3. q \in [1 .. Procs -> Seq(A)]
  BY <1>2
<1>4. Gathered(h) = FlattenSeq(q)
  BY DEF Gathered
<1> HIDE DEF q
<1>5. PICK F \in [1 .. Procs -> Seq(A)] : FlattenSeq(q) = F[Procs]
  BY <1>1, <1>3, FlattenIs
<1> QED BY <1>1, <1>4, <1>5

\* The entries that a test picks
LEMMA PickedIs ==
    ASSUME NEW A, NEW s \in Seq(A), NEW T, NEW places, places = {i \in DOMAIN s : s[i] \in T}
    PROVE  At(s, places) \in Seq(A \intersect T)
<1>1. At(s, places) \in Seq(A) /\ Selects(At(s, places), s, places)
  BY AtIs
<1> DEFINE at == At(s, places)
<1>2. PICK order \in [1 .. Cardinality(places) -> places] : \A p \in 1 .. Cardinality(places) : at[p] = s[order[p]]
  BY <1>1 DEF Selects
<1>3. Len(at) = Cardinality(places)
  BY <1>1 DEF Selects
<1> HIDE DEF at
<1>4. at \in Seq(A)
  BY <1>1 DEF at
<1>5. \A p \in 1 .. Len(at) : at[p] \in A \intersect T
  <2> SUFFICES ASSUME NEW p \in 1 .. Len(at) PROVE at[p] \in T
    BY <1>4
  <2>1. order[p] \in places /\ at[p] = s[order[p]]
    BY <1>2, <1>3
  <2> QED BY <2>1
<1> QED BY <1>4, <1>5 DEF at

\* The first and the last hour of some entries
LEMMA HoursAre ==
    ASSUME NEW es \in Seq(Entry), NEW hours, hours = {es[i].hour : i \in DOMAIN es}, hours # {}
    PROVE  Min(hours) \in Nat /\ Max(hours) \in Nat /\ \A h \in hours : Min(hours) <= h /\ h <= Max(hours)
<1> DEFINE n == Len(es)
<1>0. n \in Nat /\ DOMAIN es = 1 .. n /\ \A i \in 1 .. n : es[i].hour \in Nat
  <2>1. n \in Nat /\ DOMAIN es = 1 .. n /\ \A i \in 1 .. n : es[i] \in Entry
    OBVIOUS
  <2> QED BY <2>1 DEF Entry
<1> HIDE DEF n
<1>1. hours \subseteq Nat
  BY <1>0
<1>2. PICK least \in hours : \A h \in hours : least <= h
  BY <1>1, LeastOf
<1> DEFINE HoursUnder(k, m) == \A i \in 1 .. k : es[i].hour <= m
           S == {k \in 0 .. n : \E m \in Nat : HoursUnder(k, m)}
<1>3. 0 \in S
  BY <1>0
<1>4. ASSUME NEW k \in 1 .. n, k - 1 \in S PROVE k \in S
  <2>1. PICK m \in Nat : HoursUnder(k - 1, m)
    BY <1>4
  <2>2. k \in 0 .. n /\ es[k].hour \in Nat
    BY <1>0
  <2>3. CASE es[k].hour <= m
    <3>1. HoursUnder(k, m)
      BY <1>0, <2>1, <2>3
    <3> HIDE DEF HoursUnder
    <3> QED BY <2>1, <2>2, <3>1
  <2>4. CASE ~(es[k].hour <= m)
    <3>1. HoursUnder(k, es[k].hour)
      BY <1>0, <2>1, <2>4
    <3> HIDE DEF HoursUnder
    <3> QED BY <2>2, <3>1
  <2> QED BY <2>3, <2>4
<1> HIDE DEF S
<1>5. \A k \in 0 .. n : k \in S
  BY <1>0, <1>3, <1>4, Climb
<1>6. PICK m \in Nat : \A i \in 1 .. n : es[i].hour <= m
  <2>1. n \in S
    BY <1>0, <1>5
  <2> QED BY <2>1 DEF S
<1> DEFINE U == {x \in Nat : \A h \in hours : h <= x}
<1>7. m \in U /\ U \subseteq Nat
  BY <1>0, <1>6
<1>8. PICK most \in U : \A x \in U : most <= x
  <2> HIDE DEF U
  <2> QED BY <1>7, LeastOf
<1>9. most \in hours
  <2> SUFFICES ASSUME most \notin hours PROVE FALSE
    OBVIOUS
  <2>0. most \in Nat /\ \A h \in hours : h <= most
    BY <1>8
  <2>1. ASSUME NEW h \in hours PROVE h \in Nat /\ h < most
    <3>1. h \in Nat /\ h <= most /\ h # most
      BY <1>1, <2>0
    <3> QED BY <2>0, <3>1
  <2>2. PICK h \in hours : TRUE
    OBVIOUS
  <2>3. most - 1 \in Nat /\ \A x \in hours : x <= most - 1
    <3>1. h \in Nat /\ h < most
      BY <2>1, <2>2
    <3> QED BY <2>0, <2>1, <3>1
  <2>4. most - 1 \in U
    BY <2>3
  <2>5. most <= most - 1
    BY <1>8, <2>4
  <2> QED BY <1>8, <2>5
<1>10. \A h \in hours : h <= most
  BY <1>8
<1>11. Min(hours) = least
  <2>1. \A x \in hours : (\A y \in hours : x <= y) => x = least
    BY <1>1, <1>2
  <2> QED BY <1>2, <2>1 DEF Min
<1>12. Max(hours) = most
  <2>1. \A x \in hours : (\A y \in hours : x >= y) => x = most
    BY <1>1, <1>9, <1>10
  <2>2. \A y \in hours : most >= y
    BY <1>1, <1>9, <1>10
  <2> QED BY <1>9, <2>1, <2>2 DEF Max
<1> HIDE DEF U
<1> QED BY <1>1, <1>2, <1>9, <1>10, <1>11, <1>12

-----------------------------------------------------------------------------
(* Where the entries go                                                    *)

\* What agree() told, and what the ranks are to ship
Agreed ==
    /\ view \in [minHour : Nat, maxHour : Nat, records : Nat, cars : Nat] /\ view.minHour <= view.maxHour
    /\ entries \in [Ranks -> Seq(Entry)]

\* The hours of the file are those of the view.
ViewSpans ==
    \A i \in Full(file.lines) :
        EntryAt(file.lines[i]) \in Entry =>
            view.minHour <= EntryAt(file.lines[i]).hour /\ EntryAt(file.lines[i]).hour <= view.maxHour

\* The owners of a partition by hours
PlanOwners ==
    CASE job.partition = "block"    -> BlockOwners(span, reducers)
      [] job.partition = "weighted" -> WeightedOwners(Weight, reducers)
      [] job.partition = "hybrid"   -> HybridOwners(Weight, reducers)

\* A rank has the owners that all of them are to have.
Owned(own) == job.partition \in {"block", "weighted", "hybrid"} => own = PlanOwners

\* The weights of the hours are numbers.
LEMMA WeightIs ==
    ASSUME Agreed
    PROVE  span \in Nat \ {0} /\ Weight \in [1 .. span -> Nat]
<1> DEFINE es == Gathered(entries)
<1>1. span \in Nat \ {0}
  BY DEF Agreed, span
<1>2. \A r \in Ranks : entries[r] \in Seq(Entry)
  BY DEF Agreed
<1>3. es \in Seq(Entry)
  BY <1>2, GatheredIs
<1> HIDE DEF es
<1>4. ASSUME NEW h \in 1 .. span
      PROVE  Cardinality({i \in DOMAIN es : es[i].hour = view.minHour + h - 1}) \in Nat
  <2>1. Len(es) \in Nat /\ DOMAIN es = 1 .. Len(es)
    BY <1>3
  <2>2. IsFiniteSet(DOMAIN es)
    BY <2>1, PlacesOf
  <2> DEFINE T == {i \in DOMAIN es : es[i].hour = view.minHour + h - 1}
  <2>3. T \subseteq DOMAIN es
    OBVIOUS
  <2> HIDE DEF T
  <2>4. IsFiniteSet(T)
    BY <2>2, <2>3, FS_Subset
  <2>5. Cardinality(T) \in Nat
    BY <2>4, FS_CardinalityType
  <2> QED BY <2>5 DEF T
<1>5. Weight = [h \in 1 .. span |-> Cardinality({i \in DOMAIN es : es[i].hour = view.minHour + h - 1})]
  BY DEF Weight, es
<1> QED BY <1>1, <1>4, <1>5

\* The owners are reducers, and only the hybrid plan splits hours.
LEMMA PlanIs ==
    ASSUME Agreed, reducers \in Nat \ {0}, job.partition \in {"block", "weighted", "hybrid"}
    PROVE  /\ PlanOwners \in [1 .. span -> {SplitHour} \union 0 .. reducers - 1]
           /\ job.partition # "hybrid" => PlanOwners \in [1 .. span -> 0 .. reducers - 1]
           /\ job.partition = "hybrid" => HybridPlan(PlanOwners, Weight, span, reducers)
<1>1. span \in Nat \ {0} /\ Weight \in [1 .. span -> Nat]
  BY WeightIs
<1> DEFINE n == span
           red == reducers
           w == Weight
           A == 1 .. n
           B == 0 .. red - 1
<1>2. BlockOwners(n, red) \in [A -> B]
  BY <1>1, BlockIs
<1>3. WeightedOwners(w, red) \in [A -> B]
  <2>1. n \in Nat /\ w \in [1 .. n -> Nat] /\ red \in Nat \ {0}
    BY <1>1
  <2> HIDE DEF w, n, red
  <2> QED BY <2>1, WeightedIs
<1>4. HybridPlan(HybridOwners(w, red), w, n, red)
  <2>1. n \in Nat /\ w \in [1 .. n -> Nat] /\ red \in Nat \ {0}
    BY <1>1
  <2> HIDE DEF w, n, red
  <2> QED BY <2>1, HybridIs
<1>5. HybridOwners(w, red) \in [A -> {SplitHour} \union B]
  BY <1>4 DEF HybridPlan
<1>6. CASE job.partition = "block"
  <2>1. PlanOwners = BlockOwners(n, red)
    BY <1>6 DEF PlanOwners
  <2> HIDE DEF n, red, w, A, B
  <2>2. PlanOwners \in [A -> {SplitHour} \union B] /\ PlanOwners \in [A -> B]
    BY <1>2, <2>1
  <2> QED BY <1>6, <2>2 DEF n, red, A, B
<1>7. CASE job.partition = "weighted"
  <2>1. PlanOwners = WeightedOwners(w, red)
    BY <1>7 DEF PlanOwners
  <2> HIDE DEF n, red, w, A, B
  <2>2. PlanOwners \in [A -> {SplitHour} \union B] /\ PlanOwners \in [A -> B]
    BY <1>3, <2>1
  <2> QED BY <1>7, <2>2 DEF n, red, A, B
<1>8. CASE job.partition = "hybrid"
  <2>1. PlanOwners = HybridOwners(w, red)
    BY <1>8 DEF PlanOwners
  <2> HIDE DEF n, red, w, A, B
  <2>2. PlanOwners \in [A -> {SplitHour} \union B] /\ HybridPlan(PlanOwners, w, n, red)
    BY <1>4, <1>5, <2>1
  <2> QED BY <1>8, <2>2 DEF n, red, w, A, B
<1> QED BY <1>6, <1>7, <1>8

\* Every entry that can be shipped goes to a reducer.
LEMMA DestinationIs ==
    ASSUME job \in Jobs, reducers \in Nat \ {0}, Agreed, ViewSpans, NEW s \in Ranks, Owned(owner[s]), NEW e \in Ships
    PROVE  Destination(s, e) \in 0 .. reducers - 1
<1>1. PICK i \in Full(file.lines) : EntryAt(file.lines[i]) \in Entry /\ Key(EntryAt(file.lines[i])) = Key(e)
  BY DEF Ships
<1>2. i \in DOMAIN file.lines
  BY DEF Full
<1>3. PICK k \in DOMAIN file.lines : EntryAt(file.lines[i]) = job.entries[k]
  BY <1>2, EntryIs
<1> DEFINE d == job.entries[k]
<1>4. d \in Entry /\ Key(d) = Key(e) /\ e \in Entry
  BY <1>1, <1>3 DEF Ships
<1>5. d.hour = e.hour /\ d.hour \in Nat /\ e.hour \in Nat
  BY <1>4 DEF Key, Entry
<1>6. job.hourHash[e.hour] \in Nat /\ job.keyHash[Key(e)] \in Nat
  <2>1. d.hour >= 0
    BY <1>5
  <2>2. job.hourHash[d.hour] \in Nat /\ job.keyHash[Key(d)] \in Nat
    BY <2>1, JobIs
  <2> QED BY <1>4, <1>5, <2>2
<1>7. view.minHour <= e.hour /\ e.hour <= view.maxHour
  BY <1>1, <1>3, <1>5 DEF ViewSpans
<1> DEFINE h == e.hour - view.minHour + 1
<1>8. h \in 1 .. span
  BY <1>5, <1>7 DEF Agreed, span
<1>9. job.keyHash[Key(e)] % reducers \in 0 .. reducers - 1 /\ job.hourHash[e.hour] % reducers \in 0 .. reducers - 1
  BY <1>6
<1>10. job.partition \in Partitions
  BY JobIs
<1> HIDE DEF h
<1>11. CASE job.partition = "hash"
  BY <1>9, <1>11 DEF Destination
<1>12. CASE job.partition = "light"
  BY <1>9, <1>12 DEF Destination, ByLight
<1>13. CASE job.partition \in {"block", "weighted"}
  <2>1. owner[s] \in [1 .. span -> 0 .. reducers - 1]
    BY <1>13, PlanIs DEF Owned
  <2>2. Destination(s, e) = owner[s][h]
    BY <1>13 DEF Destination, h
  <2> QED BY <1>8, <2>1, <2>2
<1>14. CASE job.partition = "hybrid"
  <2>1. owner[s] \in [1 .. span -> {SplitHour} \union 0 .. reducers - 1]
    BY <1>14, PlanIs DEF Owned
  <2>2. Destination(s, e) = IF owner[s][h] = SplitHour THEN ByLight(e) ELSE owner[s][h]
    BY <1>14 DEF Destination, h
  <2> QED BY <1>8, <1>9, <2>1, <2>2 DEF ByLight
<1> QED BY <1>10, <1>11, <1>12, <1>13, <1>14 DEF Partitions

\* Ranks with one plan send an entry to one reducer, and so for entries with one key.
LEMMA OneDestination ==
    ASSUME job \in Jobs, NEW s \in Ranks, NEW t \in Ranks, Owned(owner[s]), Owned(owner[t]),
           NEW d, NEW e, Key(d) = Key(e)
    PROVE  Destination(s, d) = Destination(t, e)
<1>1. d.hour = e.hour
  BY DEF Key
<1>2. job.partition \in Partitions
  BY JobIs
<1>3. CASE job.partition = "hash"
  BY <1>1, <1>3 DEF Destination
<1>4. CASE job.partition = "light"
  BY <1>4 DEF Destination, ByLight
<1>5. CASE job.partition \in {"block", "weighted"}
  <2>1. owner[s] = owner[t]
    BY <1>5 DEF Owned
  <2> QED BY <1>1, <1>5, <2>1 DEF Destination
<1>6. CASE job.partition = "hybrid"
  <2>1. owner[s] = owner[t]
    BY <1>6 DEF Owned
  <2>2. ByLight(d) = ByLight(e)
    BY DEF ByLight
  <2> QED BY <1>1, <1>6, <2>1, <2>2 DEF Destination
<1> QED BY <1>2, <1>3, <1>4, <1>5, <1>6 DEF Partitions

-----------------------------------------------------------------------------
(* What the ranks hold                                                     *)

Out == {"finish 1", "exit 1", "killed"}
Unread == {"configure", "open", "map"}
Unshipped == Unread \union {"combine"}
Unagreed == Unshipped \union {"agree"}
Unplanned == Unagreed \union {"plan", "weigh"}
Unshuffled == Unplanned \union {"trace map", "shuffle"}

\* What a reducer is to receive
Mine(r) == {e \in Ships : Destination(0, e) = r}

\* What rank r holds at its place: weights are for two plans; the lines of its range, what it ships of
\* them, the hours, the owners, and then only entries of its own.
RankInv(r) ==
    /\ pc[r] = "weigh" => job.partition \in {"weighted", "hybrid"}
    /\ pc[r] \notin Unread \union Out => mapped[r] = RangeLines(r) /\ RangeLines(r) \in Seq(GoodLines)
    /\ pc[r] \notin Unshipped \union Out => entries[r] \in Seq(Ships)
    /\ pc[r] \notin Unagreed \union Out => ViewSpans
    /\ pc[r] \notin Unplanned \union Out => Owned(owner[r])
    /\ pc[r] \notin Unshuffled \union Out => received[r] \in Seq(Seq(Mine(r))) /\ received[r] # <<>>

\* Only a job whose command line was accepted runs.
Running(r) == pc[r] \notin {"configure", "finish 0", "finish 1"} \union Ended
RunsInv == \A r \in Ranks : Running(r) => Accepted

JobInv ==
    /\ PlacesInv /\ Together /\ TypeOK /\ view.minHour <= view.maxHour /\ RunsInv
    /\ Accepted => \A r \in Ranks : RankInv(r)

\* The helpers of RankInv change only with what they read: the job alone, ...
LEMMA FileStays ==
    ASSUME UNCHANGED job
    PROVE  /\ Ships' = Ships /\ GoodLines' = GoodLines /\ file' = file /\ reducers' = reducers
           /\ (Accepted' <=> Accepted)
           /\ \A r \in Ranks : RangeLines(r)' = RangeLines(r)
<1>1. file' = file /\ reducers' = reducers
  BY DEF file, reducers
<1>2. \A l : EntryAt(l)' = EntryAt(l)
  BY <1>1 DEF EntryAt
<1> QED BY <1>1, <1>2 DEF Ships, GoodLines, RangeLines, Accepted

\* ... what the ranks agreed, ...
LEMMA PlanStays ==
    ASSUME UNCHANGED <<job, entries, view>>
    PROVE  /\ (ViewSpans' <=> ViewSpans) /\ PlanOwners' = PlanOwners /\ span' = span /\ Weight' = Weight
           /\ \A own : Owned(own)' <=> Owned(own)
<1>1. file' = file /\ reducers' = reducers /\ span' = span
  BY DEF file, reducers, span
<1>2. \A l : EntryAt(l)' = EntryAt(l)
  BY <1>1 DEF EntryAt
<1>3. ViewSpans' <=> ViewSpans
  BY <1>1, <1>2 DEF ViewSpans
<1>4. Weight' = Weight
  BY <1>1 DEF Weight, Gathered
<1>5. PlanOwners' = PlanOwners
  BY <1>1, <1>4 DEF PlanOwners
<1> QED BY <1>1, <1>3, <1>4, <1>5 DEF Owned

\* ... and their owners.
LEMMA MineStays ==
    ASSUME UNCHANGED <<job, view, owner>>
    PROVE  \A r \in Ranks : Mine(r)' = Mine(r)
<1>1. Ships' = Ships /\ reducers' = reducers
  BY FileStays
<1>2. \A e : Destination(0, e)' = Destination(0, e)
  BY <1>1 DEF Destination, ByLight
<1> QED BY <1>1, <1>2 DEF Mine

\* A rank whose lines, entries and runs stay, and which passes no place at
\* which it is to get others, holds what it held.
Behind(r) ==
    /\ pc'[r] = "weigh" => pc[r] = "weigh"
    /\ \A S \in {Unread, Unshipped, Unagreed, Unplanned, Unshuffled} :
           pc'[r] \notin S \union Out => pc[r] \notin S \union Out

LEMMA RankStays ==
    ASSUME NEW r \in Ranks, RankInv(r), Behind(r), UNCHANGED <<job, entries, view, owner>>,
           mapped'[r] = mapped[r], received'[r] = received[r]
    PROVE  RankInv(r)'
<1>1. /\ GoodLines' = GoodLines /\ RangeLines(r)' = RangeLines(r) /\ Ships' = Ships /\ (ViewSpans' <=> ViewSpans)
  BY FileStays, PlanStays
<1>2. Owned(owner[r])' <=> Owned(owner[r])
  BY PlanStays DEF Owned
<1>4. Mine(r)' = Mine(r)
  BY MineStays
<1>5. /\ pc'[r] \notin Unread \union Out => pc[r] \notin Unread \union Out
      /\ pc'[r] \notin Unshipped \union Out => pc[r] \notin Unshipped \union Out
      /\ pc'[r] \notin Unagreed \union Out => pc[r] \notin Unagreed \union Out
      /\ pc'[r] \notin Unplanned \union Out => pc[r] \notin Unplanned \union Out
      /\ pc'[r] \notin Unshuffled \union Out => pc[r] \notin Unshuffled \union Out
  BY DEF Behind
<1>6. entries' = entries /\ owner' = owner /\ job' = job /\ (pc'[r] = "weigh" => pc[r] = "weigh")
  BY DEF Behind
<1> QED BY <1>1, <1>2, <1>4, <1>5, <1>6 DEF RankInv

\* Which steps change what a rank holds
LEMMA Changes ==
    ASSUME PlacesInv, Next
    PROVE  /\ mapped' = mapped \/ \E r \in Ranks : Reads(r)
           /\ entries' = entries \/ \E r \in Ranks : Combine(r)
           /\ view' = view \/ Agree
           /\ owner' = owner \/ Weigh \/ \E r \in Ranks : Plan(r)
           /\ UNCHANGED moveVars \/ Shuffle \/ \E r \in Ranks : Reduce(r)
           /\ UNCHANGED <<keys, candidates>> \/ \E r \in Ranks : Reduce(r)
           /\ ranked' = ranked \/ Gather
           /\ checked' = checked \/ Verify
<1> USE DEF mapVars, planVars, moveVars, reduceVars, rootVars, dataVars
<1>1. CASE Dies
  BY <1>1 DEF Dies
<1>2. CASE Collective
  BY <1>2 DEF Collective, Open, Agree, Weigh, TraceMap, Shuffle, TraceReduce, Gather, Verify, Finish
<1>3. ASSUME NEW r \in Ranks, Steps(r)
      PROVE  /\ mapped' = mapped \/ Reads(r)
             /\ entries' = entries \/ Combine(r)
             /\ view' = view
             /\ owner' = owner \/ Plan(r)
             /\ UNCHANGED moveVars \/ Reduce(r)
             /\ UNCHANGED <<keys, candidates>> \/ Reduce(r)
             /\ ranked' = ranked
             /\ checked' = checked
  <2>1. CASE Configures(r) \/ Reads(r) \/ Combine(r) \/ Plan(r)
    BY <2>1 DEF Configures, Reads, Combine, Plan
  <2>2. CASE Reduce(r)
    BY <2>2 DEF Reduce
  <2>3. CASE Report(r)
    BY <2>3 DEF Report
  <2> QED BY <1>3, <2>1, <2>2, <2>3 DEF Steps
<1> QED BY <1>1, <1>2, <1>3, StepIs

\* A job that runs was accepted, and then it has reducers.
LEMMA RunningIs ==
    ASSUME JobInv, NEW r \in Ranks, Running(r)
    PROVE  Accepted /\ reducers \in 1 .. Procs /\ reducers \in Nat \ {0} /\ RankInv(r)
<1>1. Accepted
  BY DEF JobInv, RunsInv
<1>2. reducers \in 1 .. Procs /\ Procs \in Nat
  BY <1>1, ProcsAssumption DEF Accepted
<1>3. reducers \in Nat \ {0}
  BY <1>2
<1>4. RankInv(r)
  BY <1>1 DEF JobInv
<1> QED BY <1>1, <1>2, <1>3, <1>4

\* What the types say of what is agreed
LEMMA AgreedIs ==
    ASSUME JobInv
    PROVE  Agreed /\ job \in Jobs /\ entries \in [Ranks -> Seq(Entry)]
BY DEF JobInv, TypeOK, EntryRuns, Entry, Agreed, PlacesInv

\* What a rank ships of its lines
LEMMA CombineIs ==
    ASSUME JobInv, NEW r \in Ranks, Combine(r)
    PROVE  entries' \in [Ranks -> EntryRuns] /\ entries'[r] \in Seq(Ships)
<1> DEFINE es == EntriesAt(mapped[r])
           x == IF job.combine THEN Combined(es) ELSE es
<1>1. pc[r] = "combine" /\ entries' = [entries EXCEPT ![r] = x]
  BY DEF Combine
<1>2. RankInv(r)
  BY <1>1, RunningIs DEF Running, Ended
<1>3. mapped[r] \in Seq(GoodLines)
  BY <1>1, <1>2 DEF RankInv, Unread, Out
<1>4. es \in Seq(Ships)
  BY <1>3, GoodEntries, AgreedIs
<1>5. Combined(es) \in Seq(Ships)
  <2> HIDE DEF es
  <2> QED BY <1>4, CombinedShips
<1>6. x \in Seq(Ships)
  <2> HIDE DEF es
  <2> QED BY <1>4, <1>5
<1>7. entries \in [Ranks -> Seq(Entry)]
  BY AgreedIs
<1>8. Ships \subseteq Entry
  BY DEF Ships
<1> HIDE DEF x
<1>9. entries' \in [Ranks -> Seq(Entry)] /\ entries'[r] \in Seq(Ships)
  BY <1>1, <1>6, <1>7, <1>8
<1> QED BY <1>9 DEF EntryRuns, Entry

\* Once every rank has mapped its lines, they have those of the file.
LEMMA AllLines ==
    ASSUME JobInv, \A r \in Ranks : pc[r] \notin Unread \union Out, Accepted
    PROVE  Gathered(mapped) = file.lines /\ file.lines \in Seq(GoodLines)
<1>1. \A r \in Ranks : mapped[r] = RangeLines(r) /\ mapped[r] \in Seq(GoodLines)
  BY DEF JobInv, RankInv
<1>2. GoodFile(file)
  BY JobIs, AgreedIs
<1> DEFINE h == mapped
           f == file
<1>3. \A r \in Ranks : h[r] = SubSeq(f.lines, Cut(f, RangeStart(f.size, r, Procs)) + 1,
                                     Cut(f, RangeStart(f.size, r + 1, Procs)))
  BY <1>1 DEF RangeLines
<1>4. Gathered(h) = f.lines
  <2> HIDE DEF h, f
  <2> QED BY <1>2, <1>3, GatheredLines DEF f
<1>5. Gathered(h) \in Seq(GoodLines)
  <2> HIDE DEF h
  <2>1. \A r \in Ranks : h[r] \in Seq(GoodLines)
    BY <1>1 DEF h
  <2> QED BY <2>1, GatheredIs
<1> QED BY <1>4, <1>5

\* What agree() tells: the hours of the file.
LEMMA AgreeIs ==
    ASSUME JobInv, Agree
    PROVE  /\ view' \in [minHour : Nat, maxHour : Nat, records : Nat, cars : Nat]
           /\ view'.minHour <= view'.maxHour
           /\ ViewSpans'
<1> DEFINE es == EntriesAt(Gathered(mapped))
           hours == {es[i].hour : i \in DOMAIN es}
<1>0. 0 \in Ranks /\ job \in Jobs
  BY AgreedIs, JobIs
<1>1. \A r \in Ranks : pc[r] = "agree"
  BY DEF Agree, AllAt
<1>2. Accepted
  BY <1>0, <1>1, RunningIs DEF Running, Ended
<1>3. Gathered(mapped) = file.lines /\ file.lines \in Seq(GoodLines)
  BY <1>1, <1>2, AllLines DEF Unread, Out
<1>4. file.lines \in Seq(Nat \X Nat)
  BY <1>3 DEF GoodLines
<1>5. es \in Seq(Ships) /\ es \in Seq(Mappable) /\ \A i \in Full(file.lines) : \E p \in 1 .. Len(es) : es[p] = EntryAt(file.lines[i])
  BY <1>0, <1>3, <1>4, GoodEntries, EntriesOf, SMTT(30)
<1>6. es \in Seq(Entry)
  BY <1>5 DEF Ships
<1>7. view' = IF hours = {} THEN NoView
              ELSE [minHour |-> Min(hours), maxHour |-> Max(hours), records |-> Len(es), cars |-> Cars(es)]
  BY DEF Agree
<1>8. job' = job
  BY DEF Agree
<1>9. Cars(es) \in Nat /\ Len(es) \in Nat
  <2> HIDE DEF es
  <2> QED BY <1>5, CarsAre
<1> HIDE DEF es
<1>10. \A i \in Full(file.lines) : EntryAt(file.lines[i]).hour \in hours
  <2> SUFFICES ASSUME NEW i \in Full(file.lines) PROVE EntryAt(file.lines[i]).hour \in hours
    OBVIOUS
  <2>1. PICK p \in 1 .. Len(es) : es[p] = EntryAt(file.lines[i])
    BY <1>5
  <2>2. p \in DOMAIN es
    BY <1>5, <2>1
  <2> QED BY <2>1, <2>2
<1>11. hours # {} => Min(hours) \in Nat /\ Max(hours) \in Nat /\ \A h \in hours : Min(hours) <= h /\ h <= Max(hours)
  <2> DEFINE hs == hours
  <2>1. hs = {es[i].hour : i \in DOMAIN es}
    OBVIOUS
  <2> HIDE DEF hs
  <2>2. hs # {} => Min(hs) \in Nat /\ Max(hs) \in Nat /\ \A h \in hs : Min(hs) <= h /\ h <= Max(hs)
    BY <1>6, <2>1, HoursAre
  <2> QED BY <2>2 DEF hs
<1> HIDE DEF hours
<1>12. file' = file /\ \A l : EntryAt(l)' = EntryAt(l)
  BY <1>8 DEF file, EntryAt
<1>13. CASE hours = {}
  <2>1. view' = NoView
    BY <1>7, <1>13
  <2>2. Full(file.lines) = {}
    BY <1>10, <1>13
  <2> QED BY <1>12, <2>1, <2>2 DEF NoView, ViewSpans
<1>14. CASE hours # {}
  <2>1. /\ view' = [minHour |-> Min(hours), maxHour |-> Max(hours), records |-> Len(es), cars |-> Cars(es)]
        /\ Min(hours) \in Nat /\ Max(hours) \in Nat /\ \A h \in hours : Min(hours) <= h /\ h <= Max(hours)
    BY <1>7, <1>11, <1>14
  <2>2. Min(hours) <= Max(hours)
    <3>1. PICK h \in hours : TRUE
      BY <1>14
    <3>2. h \in Nat
      <4>1. PICK p \in DOMAIN es : h = es[p].hour
        BY <3>1 DEF hours
      <4>2. es[p] \in Entry
        BY <1>6, <4>1
      <4> QED BY <4>1, <4>2 DEF Entry
    <3>3. Min(hours) <= h /\ h <= Max(hours)
      BY <2>1, <3>1
    <3> QED BY <2>1, <3>2, <3>3
  <2>3. \A i \in Full(file.lines) : view'.minHour <= EntryAt(file.lines[i]).hour /\ EntryAt(file.lines[i]).hour <= view'.maxHour
    BY <1>10, <2>1
  <2>4. ViewSpans'
    BY <1>12, <2>3 DEF ViewSpans
  <2> QED BY <1>9, <2>1, <2>2, <2>4
<1> QED BY <1>13, <1>14

\* Owners that are a reducer or the mark of a split hour
Owners == Seq({SplitHour} \union 0 .. reducers - 1)

\* The owners that a plan gives are such.
LEMMA OwnersAre ==
    ASSUME JobInv, NEW r \in Ranks, pc[r] \in {"plan", "weigh"}, job.partition \in {"block", "weighted", "hybrid"}
    PROVE  PlanOwners \in Owners
<1>1. reducers \in Nat \ {0}
  BY RunningIs DEF Running, Ended
<1>2. Agreed
  BY AgreedIs
<1>3. PlanOwners \in [1 .. span -> {SplitHour} \union 0 .. reducers - 1] /\ span \in Nat
  BY <1>1, <1>2, PlanIs, WeightIs
<1> DEFINE p == PlanOwners
           n == span
           B == {SplitHour} \union 0 .. reducers - 1
<1> HIDE DEF p, n, B
<1>4. p \in [1 .. n -> B] /\ n \in Nat
  BY <1>3 DEF p, n, B
<1>5. p \in Seq(B)
  BY <1>4
<1> QED BY <1>5 DEF p, B, Owners

\* A rank that plans alone has its owners, if the plan needs no weights.
LEMMA PlanStep ==
    ASSUME JobInv, NEW r \in Ranks, Plan(r)
    PROVE  /\ owner' \in [Ranks -> Owners]
           /\ pc'[r] \notin Unplanned \union Out => Owned(owner'[r])
<1>1. /\ pc[r] = "plan"
      /\ Goto(r, IF view.records = 0 THEN "finish 1"
                 ELSE IF job.partition \in {"weighted", "hybrid"} THEN "weigh" ELSE AfterPlan)
      /\ owner' = IF job.partition = "block" THEN [owner EXCEPT ![r] = BlockOwners(span, reducers)] ELSE owner
  BY DEF Plan
<1>2. owner \in [Ranks -> Owners]
  BY DEF JobInv, TypeOK, Owners
<1>3. CASE job.partition = "block"
  <2>1. PlanOwners = BlockOwners(span, reducers)
    BY <1>3 DEF PlanOwners
  <2>2. owner' = [owner EXCEPT ![r] = PlanOwners]
    BY <1>1, <1>3, <2>1
  <2>3. PlanOwners \in Owners
    BY <1>1, <1>3, OwnersAre
  <2>4. owner' \in [Ranks -> Owners] /\ owner'[r] = PlanOwners
    BY <1>2, <2>2, <2>3
  <2>5. view' = view /\ entries' = entries /\ job' = job
    BY DEF Plan, mapVars
  <2>6. Owned(owner'[r])
    BY <2>4 DEF Owned
  <2> QED BY <2>4, <2>6
<1>4. CASE job.partition # "block"
  <2>1. owner' = owner
    BY <1>1, <1>4
  <2>2. job.partition \in {"weighted", "hybrid"} => pc'[r] \in {"finish 1", "weigh"}
    BY <1>1 DEF Goto, JobInv, PlacesInv
  <2> QED BY <1>2, <1>4, <2>1, <2>2 DEF Owned, Unplanned, Out
<1> QED BY <1>3, <1>4

\* Or they all compute them of the weights.
LEMMA WeighIs ==
    ASSUME JobInv, Weigh
    PROVE  owner' \in [Ranks -> Owners] /\ \A s \in Ranks : Owned(owner'[s])
<1>1. 0 \in Ranks /\ pc[0] = "weigh"
  BY AgreedIs, JobIs DEF Weigh, AllAt
<1>2. RankInv(0)
  BY <1>1, RunningIs DEF Running, Ended
<1>3. job.partition \in {"weighted", "hybrid"}
  BY <1>1, <1>2 DEF RankInv
<1>4. owner' = [s \in Ranks |-> PlanOwners]
  BY <1>3 DEF Weigh, PlanOwners
<1>5. PlanOwners \in Owners
  BY <1>1, <1>3, OwnersAre
<1> QED BY <1>4, <1>5 DEF Owned

\* After the shuffle a reducer has runs of its own entries, one of each rank.
LEMMA ShuffleIs ==
    ASSUME JobInv, Shuffle
    PROVE  /\ received' \in [Ranks -> Seq(EntryRuns)] /\ sent' \in [Ranks -> Seq(Nat)]
           /\ \A r \in Ranks : received'[r] \in Seq(Seq(Mine(r))) /\ received'[r] # <<>>
<1> DEFINE run(s, r) == Only(entries[s], LAMBDA e : Destination(s, e) = r)
           runs(r) == [s \in 1 .. Procs |-> run(s - 1, r)]
<1>0. 0 \in Ranks /\ Procs \in Nat \ {0} /\ job \in Jobs
  BY AgreedIs, JobIs
<1>1. \A s \in Ranks : pc[s] = "shuffle"
  BY DEF Shuffle, AllAt
<1>2. \A s \in Ranks : entries[s] \in Seq(Ships) /\ Owned(owner[s])
  BY <1>1, RunningIs DEF Running, Ended, RankInv, Unplanned, Unagreed, Unshipped, Unread, Out
<1>3. ASSUME NEW s \in Ranks, NEW r \in Ranks PROVE run(s, r) \in Seq(Mine(r))
  <2> DEFINE es == entries[s]
             T == Mine(r)
             places == {i \in DOMAIN es : Destination(s, es[i]) = r}
  <2>1. run(s, r) = At(es, places)
    BY DEF Only
  <2>2. es \in Seq(Ships)
    BY <1>2
  <2>3. \A i \in DOMAIN es : Destination(s, es[i]) = Destination(0, es[i])
    BY <1>0, <1>2, OneDestination
  <2>4. places = {i \in DOMAIN es : es[i] \in T}
    <3>1. \A i \in DOMAIN es : es[i] \in Ships
      BY <2>2
    <3> QED BY <2>3, <3>1 DEF Mine
  <2> HIDE DEF es, T, places, run
  <2>5. At(es, places) \in Seq(Ships \intersect T)
    BY <2>2, <2>4, PickedIs
  <2>6. Ships \intersect T = T
    BY DEF T, Mine
  <2> QED BY <2>1, <2>5, <2>6 DEF T
<1>4. received' = [r \in Ranks |-> runs(r)]
  BY DEF Shuffle
<1>5. sent' = [s \in Ranks |-> [r \in 1 .. Procs |-> Len(received'[r - 1][s + 1])]]
  BY DEF Shuffle
<1>6. ASSUME NEW i \in 1 .. Procs PROVE i - 1 \in Ranks
  BY <1>0 DEF Ranks
<1> HIDE DEF run
<1>7. ASSUME NEW r \in Ranks
      PROVE  runs(r) \in Seq(Seq(Mine(r))) /\ Len(runs(r)) = Procs /\ runs(r) \in Seq(EntryRuns) /\ runs(r) # <<>>
  <2> DEFINE M == Mine(r)
  <2>1. \A i \in 1 .. Procs : run(i - 1, r) \in Seq(M)
    BY <1>3, <1>6
  <2>2. M \subseteq Entry
    BY DEF Mine, Ships
  <2> HIDE DEF M
  <2>3. \A i \in 1 .. Procs : run(i - 1, r) \in Seq(Entry)
    BY <2>1, <2>2
  <2>4. runs(r) \in Seq(Seq(M)) /\ Len(runs(r)) = Procs /\ runs(r) \in Seq(Seq(Entry))
    BY <1>0, <2>1, <2>3
  <2> HIDE DEF runs
  <2>5. runs(r) # <<>>
    BY <1>0, <2>4
  <2> QED BY <2>4, <2>5 DEF M, EntryRuns, Entry
<1> HIDE DEF runs
<1>8. \A r \in Ranks : received'[r] = runs(r)
  BY <1>4
<1>9. received' \in [Ranks -> Seq(EntryRuns)]
  BY <1>4, <1>7
<1>10. sent' \in [Ranks -> Seq(Nat)]
  <2> SUFFICES ASSUME NEW s \in Ranks PROVE [r \in 1 .. Procs |-> Len(received'[r - 1][s + 1])] \in Seq(Nat)
    BY <1>5
  <2>1. s + 1 \in 1 .. Procs
    BY <1>0 DEF Ranks
  <2>2. ASSUME NEW r \in 1 .. Procs PROVE Len(received'[r - 1][s + 1]) \in Nat
    <3> DEFINE q == received'[r - 1]
    <3>1. q \in Seq(EntryRuns) /\ Len(q) = Procs
      BY <1>6, <1>7, <1>8
    <3> HIDE DEF q
    <3>2. q[s + 1] \in EntryRuns
      BY <2>1, <3>1
    <3> QED BY <3>2 DEF q, EntryRuns
  <2> HIDE <1>9
  <2> QED BY <1>0, <2>2
<1> QED BY <1>7, <1>8, <1>9, <1>10

\* A reducer keeps its entries as one run, and takes its totals from it.
LEMMA ReduceIs ==
    ASSUME JobInv, NEW r \in Ranks, Reduce(r)
    PROVE  /\ received' \in [Ranks -> Seq(EntryRuns)] /\ keys' \in [Ranks -> Nat] /\ candidates' \in [Ranks -> EntryRuns]
           /\ received'[r] \in Seq(Seq(Mine(r))) /\ received'[r] # <<>>
           /\ \A s \in Ranks \ {r} : received'[s] = received[s]
<1>0. pc[r] = "reduce"
  BY DEF Reduce
<1>1. received[r] \in Seq(Seq(Mine(r))) /\ received[r] # <<>>
  BY <1>0, RunningIs DEF Running, Ended, RankInv, Unshuffled, Unplanned, Unagreed, Unshipped, Unread, Out
<1>2. /\ received \in [Ranks -> Seq(EntryRuns)] /\ keys \in [Ranks -> Nat] /\ candidates \in [Ranks -> EntryRuns]
  BY DEF JobInv, TypeOK
<1>3. CASE r < reducers
  <2> DEFINE merged == MergeRuns(received[r])
             totals == Totals(merged)
  <2>1. /\ received' = [received EXCEPT ![r] = <<merged>>]
        /\ keys' = [keys EXCEPT ![r] = Len(totals)]
        /\ candidates' = [candidates EXCEPT ![r] = Candidates(totals, job.top)]
    BY <1>3 DEF Reduce
  <2> DEFINE M == Mine(r)
             runs == received[r]
  <2>2. M \subseteq Entry /\ IsEntries(M) /\ runs \in Seq(Seq(M))
    BY <1>1 DEF Mine, Ships, Entry, IsEntries
  <2> HIDE DEF M, runs
  <2>3. MergeRuns(runs) \in Seq(M)
    BY <2>2, MergedIs
  <2>4. merged \in Seq(M)
    BY <2>3 DEF runs
  <2> HIDE DEF merged
  <2>5. merged \in Seq(Entry)
    BY <2>2, <2>4
  <2>6. totals \in Seq(Entry)
    BY <2>5, TotalsAre
  <2> HIDE DEF totals
  <2>7. Candidates(totals, job.top) \in EntryRuns
    BY <2>6, CandidatesAre DEF EntryRuns, Entry
  <2>8. Len(totals) \in Nat
    BY <2>6
  <2>9. keys' \in [Ranks -> Nat] /\ candidates' \in [Ranks -> EntryRuns]
    BY <1>2, <2>1, <2>7, <2>8
  <2>10. <<merged>> \in Seq(Seq(M)) /\ <<merged>> # <<>> /\ <<merged>> \in Seq(EntryRuns)
    <3>1. merged \in EntryRuns
      BY <2>5 DEF EntryRuns, Entry
    <3> QED BY <2>4, <3>1
  <2>11. received' \in [Ranks -> Seq(EntryRuns)] /\ received'[r] = <<merged>>
         /\ \A s \in Ranks \ {r} : received'[s] = received[s]
    BY <1>2, <2>1, <2>10
  <2> QED BY <2>9, <2>10, <2>11 DEF M
<1>4. CASE ~(r < reducers)
  <2>1. UNCHANGED <<received, keys, candidates>>
    BY <1>4 DEF Reduce
  <2> QED BY <1>1, <1>2, <2>1
<1> QED BY <1>3, <1>4

\* The ranking on rank 0, and the totals under the checksum
LEMMA RootIs ==
    ASSUME JobInv
    PROVE  /\ Gather => ranked' \in EntryRuns
           /\ Verify => checked' \in EntryRuns
<1>e. IsEntries(Entry)
  BY DEF IsEntries, Entry
<1>1. ASSUME Gather PROVE ranked' \in EntryRuns
  <2>1. PICK all \in {Gathered(candidates)} : ranked' = MergeCandidates(all, job.top)
    BY <1>1 DEF Gather
  <2>2. \A r \in Ranks : candidates[r] \in Seq(Entry)
    BY DEF JobInv, TypeOK, EntryRuns, Entry
  <2>3. Gathered(candidates) \in Seq(Entry)
    BY <2>2, GatheredIs
  <2>4. MergeCandidates(all, job.top) \in Seq(Entry)
    BY <1>e, <2>1, <2>3, RankedAre
  <2> QED BY <2>1, <2>4 DEF EntryRuns, Entry
<1>2. ASSUME Verify PROVE checked' \in EntryRuns
  <2> DEFINE h == [r \in Ranks |-> IF r < reducers THEN Totals(received[r][1]) ELSE <<>>]
  <2>1. PICK all \in {Gathered(h)} : checked' = Sorted(all, KeyLess)
    BY <1>2 DEF Verify
  <2>2. ASSUME NEW r \in Ranks PROVE h[r] \in Seq(Entry)
    <3>1. pc[r] = "verify"
      BY <1>2 DEF Verify, AllAt
    <3>2. received[r] # <<>> /\ received[r] \in Seq(Seq(Mine(r)))
      BY <3>1, RunningIs DEF Running, Ended, RankInv, Unshuffled, Unplanned, Unagreed, Unshipped, Unread, Out
    <3>3. received[r][1] \in Seq(Mine(r))
      <4> DEFINE q == received[r]
                 M == Seq(Mine(r))
      <4> HIDE DEF q, M
      <4>1. q \in Seq(M) /\ q # <<>>
        BY <3>2 DEF q, M
      <4>2. q[1] \in M
        BY <4>1
      <4> QED BY <4>2 DEF q, M
    <3>4. received[r][1] \in Seq(Entry)
      BY <3>3 DEF Mine, Ships
    <3>5. Totals(received[r][1]) \in Seq(Entry)
      BY <3>4, TotalsAre
    <3> QED BY <3>5
  <2> HIDE DEF h
  <2>3. Gathered(h) \in Seq(Entry)
    BY <2>2, GatheredIs
  <2>4. Sorted(all, KeyLess) \in Seq(Entry)
    BY <1>e, <2>1, <2>3, SortedByKey
  <2> QED BY <2>1, <2>4 DEF EntryRuns, Entry
<1> QED BY <1>1, <1>2

\* The types of what the ranks hold
LEMMA TypesStep ==
    ASSUME JobInv, Next
    PROVE  TypeOK' /\ view'.minHour <= view'.maxHour
<1>0. /\ PlacesInv /\ PlacesInv' /\ reducers' = reducers
  BY StepStays, FileStays DEF JobInv
<1>1. /\ entries \in [Ranks -> EntryRuns]
      /\ view \in [minHour : Nat, maxHour : Nat, records : Nat, cars : Nat] /\ view.minHour <= view.maxHour
      /\ owner \in [Ranks -> Owners]
      /\ sent \in [Ranks -> Seq(Nat)] /\ received \in [Ranks -> Seq(EntryRuns)]
      /\ keys \in [Ranks -> Nat] /\ candidates \in [Ranks -> EntryRuns]
      /\ ranked \in EntryRuns /\ checked \in EntryRuns
  BY DEF JobInv, TypeOK, Owners
<1>2. entries' \in [Ranks -> EntryRuns]
  BY <1>0, <1>1, Changes, CombineIs
<1>3. view' \in [minHour : Nat, maxHour : Nat, records : Nat, cars : Nat] /\ view'.minHour <= view'.maxHour
  BY <1>0, <1>1, Changes, AgreeIs
<1>4. owner' \in [Ranks -> Owners]
  BY <1>0, <1>1, Changes, WeighIs, PlanStep
<1>5. sent' \in [Ranks -> Seq(Nat)] /\ received' \in [Ranks -> Seq(EntryRuns)]
  <2>1. CASE UNCHANGED moveVars
    BY <1>1, <2>1 DEF moveVars
  <2>2. CASE Shuffle
    BY <2>2, ShuffleIs
  <2>3. ASSUME NEW r \in Ranks, Reduce(r)
        PROVE  sent' \in [Ranks -> Seq(Nat)] /\ received' \in [Ranks -> Seq(EntryRuns)]
    <3>1. sent' = sent
      BY <2>3 DEF Reduce
    <3> QED BY <1>1, <2>3, <3>1, ReduceIs
  <2> QED BY <1>0, <2>1, <2>2, <2>3, Changes
<1>6. keys' \in [Ranks -> Nat] /\ candidates' \in [Ranks -> EntryRuns]
  <2>1. CASE UNCHANGED <<keys, candidates>>
    BY <1>1, <2>1
  <2>2. ASSUME NEW r \in Ranks, Reduce(r) PROVE keys' \in [Ranks -> Nat] /\ candidates' \in [Ranks -> EntryRuns]
    BY <2>2, ReduceIs
  <2> QED BY <1>0, <2>1, <2>2, Changes
<1>7. ranked' \in EntryRuns /\ checked' \in EntryRuns
  BY <1>0, <1>1, Changes, RootIs
<1>8. Owners' = Owners
  BY <1>0 DEF Owners
<1>9. owner' \in [Ranks -> Seq({SplitHour} \union 0 .. reducers' - 1)]
  BY <1>0, <1>4 DEF Owners
<1> QED BY <1>0, <1>2, <1>3, <1>5, <1>6, <1>7, <1>9 DEF TypeOK, PlacesInv

\* The ranks that may be elsewhere while one combines or plans
LEMMA Elsewhere ==
    ASSUME JobInv, NEW r \in Ranks, NEW s \in Ranks
    PROVE  /\ pc[r] = "combine" => pc[s] \in {"map", "combine", "agree"}
           /\ pc[r] = "plan" => pc[s] \in {"plan", "finish 1", "weigh", "trace map", "shuffle"}
<1>1. Together
  BY DEF JobInv
<1>2. CASE \E l \in Places : AllAt(l)
  BY <1>2 DEF AllAt
<1>3. ASSUME NEW g \in Groups, \A q \in Ranks : pc[q] \in g
      PROVE  /\ pc[r] = "combine" => pc[s] \in {"map", "combine", "agree"}
             /\ pc[r] = "plan" => pc[s] \in {"plan", "finish 1", "weigh", "trace map", "shuffle"}
  BY <1>3 DEF Groups, Configured, AfterPlan, AfterReduce
<1> QED BY <1>1, <1>2, <1>3 DEF Together

\* Only an accepted job goes on.
LEMMA RunsStep ==
    ASSUME JobInv, Next
    PROVE  RunsInv'
<1>0. PlacesInv /\ RunsInv /\ job' = job /\ (Accepted' <=> Accepted) /\ 0 \in Ranks
  BY StepStays, JobIs DEF JobInv, PlacesInv
<1> SUFFICES ASSUME NEW s \in Ranks, Running(s)', ~Accepted PROVE FALSE
  BY <1>0 DEF RunsInv
<1>1. pc'[s] \notin {"configure", "finish 0", "finish 1"} \union Ended
  BY DEF Running
<1>2. \A r \in Ranks : pc[r] \in {"configure", "finish 0", "finish 1"} \union Ended
  BY <1>0 DEF RunsInv, Running
<1>3. CASE Dies
  BY <1>1, <1>3 DEF Dies, AllGoto, Ended
<1>4. CASE Collective
  <2>1. pc[0] \in {"configure", "finish 0", "finish 1"} \union Ended
    BY <1>0, <1>2
  <2>2. CASE Finish
    BY <1>1, <2>2 DEF Finish, Ended
  <2>3. CASE Open \/ Agree \/ Weigh \/ TraceMap \/ Shuffle \/ TraceReduce \/ Gather \/ Verify
    <3>1. pc[0] \in {"open", "agree", "weigh", "trace map", "shuffle", "trace reduce", "gather", "verify"}
      BY <1>0, <2>3 DEF Open, Agree, Weigh, TraceMap, Shuffle, TraceReduce, Gather, Verify, AllAt
    <3> QED BY <2>1, <3>1 DEF Ended
  <2> QED BY <1>4, <2>2, <2>3 DEF Collective
<1>5. ASSUME NEW r \in Ranks, Steps(r) PROVE FALSE
  <2>1. pc[r] \in {"configure", "finish 0", "finish 1"} \union Ended
    BY <1>2
  <2>2. CASE Configures(r)
    <3>1. pc' = [pc EXCEPT ![r] = Configured]
      BY <2>2 DEF Configures, Goto
    <3>2. Configured \in {"finish 0", "finish 1"}
      BY DEF Configured
    <3>3. pc'[s] = pc[s] \/ pc'[s] = Configured
      BY <1>0, <3>1 DEF PlacesInv
    <3> QED BY <1>1, <1>2, <3>2, <3>3
  <2>3. CASE Reads(r) \/ Combine(r) \/ Plan(r) \/ Reduce(r) \/ Report(r)
    <3>1. pc[r] \in {"map", "combine", "plan", "reduce", "report"}
      BY <2>3 DEF Reads, Combine, Plan, Reduce, Report
    <3> QED BY <2>1, <3>1 DEF Ended
  <2> QED BY <1>5, <2>2, <2>3 DEF Steps
<1> QED BY <1>0, <1>3, <1>4, <1>5, StepIs

\* A collective gives every rank what it is to hold.
LEMMA CollectiveHolds ==
    ASSUME JobInv, Collective, Accepted, NEW s \in Ranks
    PROVE  RankInv(s)'
<1> USE DEF Unshuffled, Unplanned, Unagreed, Unshipped, Unread, Out
<1>0. RankInv(s) /\ pc \in [Ranks -> Places]
  BY DEF JobInv, PlacesInv
<1>1. CASE Open \/ TraceMap \/ TraceReduce \/ Gather \/ Verify \/ Finish
  <2>1. UNCHANGED <<job, mapped, entries, view, owner, received>>
    BY <1>1 DEF Open, TraceMap, TraceReduce, Gather, Verify, Finish, dataVars, mapVars, planVars, moveVars
  <2>2. Behind(s)
    BY <1>1 DEF Open, TraceMap, TraceReduce, Gather, Verify, Finish, AllAt, AllGoto, Behind
  <2> QED BY <1>0, <2>1, <2>2, RankStays
<1>2. CASE Agree
  <2>1. ViewSpans' /\ UNCHANGED <<job, mapped, entries>> /\ pc[s] = "agree" /\ pc'[s] = "plan"
    BY <1>2, AgreeIs DEF Agree, AllAt, AllGoto, mapVars
  <2>2. mapped[s] = RangeLines(s) /\ RangeLines(s) \in Seq(GoodLines) /\ entries[s] \in Seq(Ships)
    BY <1>0, <2>1 DEF RankInv
  <2>3. Ships' = Ships /\ GoodLines' = GoodLines /\ RangeLines(s)' = RangeLines(s)
    BY <2>1, FileStays
  <2> QED BY <2>1, <2>2, <2>3 DEF RankInv
<1>3. CASE Weigh
  <2>1. Owned(owner'[s]) /\ UNCHANGED <<job, mapped, entries, view>> /\ pc[s] = "weigh" /\ pc'[s] = AfterPlan
    BY <1>3, WeighIs DEF Weigh, AllAt, AllGoto, mapVars
  <2>2. /\ mapped[s] = RangeLines(s) /\ RangeLines(s) \in Seq(GoodLines) /\ entries[s] \in Seq(Ships) /\ ViewSpans
    BY <1>0, <2>1 DEF RankInv
  <2>3. Ships' = Ships /\ GoodLines' = GoodLines /\ RangeLines(s)' = RangeLines(s) /\ (ViewSpans' <=> ViewSpans)
    BY <2>1, FileStays, PlanStays
  <2>4. Owned(owner[s])'
    <3>1. PlanOwners' = PlanOwners
      BY <2>1, PlanStays
    <3> QED BY <2>1, <3>1 DEF Owned
  <2>5. pc'[s] \in {"trace map", "shuffle"}
    BY <2>1 DEF AfterPlan
  <2> QED BY <2>1, <2>2, <2>3, <2>4, <2>5 DEF RankInv
<1>4. CASE Shuffle
  <2>1. /\ UNCHANGED <<job, mapped, entries, view, owner>> /\ pc[s] = "shuffle" /\ pc'[s] = "reduce"
        /\ received'[s] \in Seq(Seq(Mine(s))) /\ received'[s] # <<>>
    BY <1>4, ShuffleIs DEF Shuffle, AllAt, AllGoto, mapVars, planVars
  <2>2. /\ mapped[s] = RangeLines(s) /\ RangeLines(s) \in Seq(GoodLines) /\ entries[s] \in Seq(Ships) /\ ViewSpans
        /\ Owned(owner[s])
    BY <1>0, <2>1 DEF RankInv
  <2>3. /\ Ships' = Ships /\ GoodLines' = GoodLines /\ RangeLines(s)' = RangeLines(s) /\ (ViewSpans' <=> ViewSpans)
        /\ Mine(s)' = Mine(s)
    BY <2>1, FileStays, PlanStays, MineStays
  <2>4. Owned(owner[s])'
    <3>1. PlanOwners' = PlanOwners
      BY <2>1, PlanStays
    <3> QED BY <2>1, <2>2, <3>1 DEF Owned
  <2> QED BY <2>1, <2>2, <2>3, <2>4 DEF RankInv
<1> QED BY <1>1, <1>2, <1>3, <1>4 DEF Collective

\* So does a step of a rank.
LEMMA RankHolds ==
    ASSUME JobInv, NEW r \in Ranks, Steps(r), Accepted, NEW s \in Ranks
    PROVE  RankInv(s)'
<1> USE DEF Unshuffled, Unplanned, Unagreed, Unshipped, Unread, Out
<1>0. RankInv(s) /\ pc \in [Ranks -> Places] /\ mapped \in [Ranks -> Seq(Nat \X Nat)]
  BY DEF JobInv, PlacesInv
<1>s. \A l : Goto(r, l) => pc'[s] = IF s = r THEN l ELSE pc[s]
  BY <1>0 DEF Goto
<1>1. CASE Configures(r) \/ Report(r)
  <2>1. UNCHANGED <<job, mapped, entries, view, owner, received>>
    BY <1>1 DEF Configures, Report, dataVars, mapVars, planVars, moveVars
  <2>2. pc'[s] = pc[s] \/ (pc[s] = "configure" /\ pc'[s] = "open") \/ (pc[s] = "report" /\ pc'[s] = "finish 0")
    BY <1>1, <1>s DEF Configures, Configured, Report
  <2>3. Behind(s)
    BY <2>2 DEF Behind
  <2> QED BY <1>0, <2>1, <2>3, RankStays
<1>2. CASE Reads(r)
  <2>1. /\ UNCHANGED <<job, entries, view, owner, received>> /\ pc[r] = "map"
        /\ pc'[s] = IF s = r THEN "combine" ELSE pc[s]
        /\ RangeLines(r) \in Seq(GoodLines) /\ mapped' = [mapped EXCEPT ![r] = RangeLines(r)]
    BY <1>2, <1>s, RangeIsGood, AgreedIs DEF Reads, planVars, moveVars
  <2>2. CASE s # r
    <3>1. mapped'[s] = mapped[s]
      BY <1>0, <2>1, <2>2
    <3>2. pc'[s] = pc[s]
      BY <2>1, <2>2
    <3>3. Behind(s)
      BY <3>2 DEF Behind
    <3> QED BY <1>0, <2>1, <3>1, <3>3, RankStays
  <2>3. CASE s = r
    <3>1. mapped'[s] = RangeLines(s) /\ pc'[s] = "combine" /\ RangeLines(s) \in Seq(GoodLines)
      BY <1>0, <2>1, <2>3
    <3>2. GoodLines' = GoodLines /\ RangeLines(s)' = RangeLines(s)
      BY <2>1, FileStays
    <3> QED BY <3>1, <3>2 DEF RankInv
  <2> QED BY <2>2, <2>3
<1>3. CASE Combine(r)
  <2>1. /\ UNCHANGED <<job, mapped>> /\ pc[r] = "combine" /\ pc'[s] = IF s = r THEN "agree" ELSE pc[s]
        /\ pc[s] \in {"map", "combine", "agree"} /\ entries'[r] \in Seq(Ships)
    BY <1>3, <1>s, Elsewhere, CombineIs DEF Combine
  <2>2. Ships' = Ships /\ GoodLines' = GoodLines /\ RangeLines(s)' = RangeLines(s)
    BY <2>1, FileStays
  <2>3. s # r => entries'[s] = entries[s]
    BY <1>3 DEF Combine, JobInv, TypeOK
  <2>4. pc'[s] \in {"map", "combine", "agree"} /\ (pc'[s] = "map" <=> pc[s] = "map")
        /\ (pc'[s] = "agree" /\ s # r => pc[s] = "agree")
    BY <2>1
  <2>5. pc'[s] # "map" => mapped[s] = RangeLines(s) /\ RangeLines(s) \in Seq(GoodLines)
    BY <1>0, <2>1, <2>4 DEF RankInv
  <2>6. pc'[s] = "agree" => entries'[s] \in Seq(Ships)
    BY <1>0, <2>1, <2>3, <2>4 DEF RankInv
  <2> QED BY <2>1, <2>2, <2>4, <2>5, <2>6 DEF RankInv
<1>4. CASE Plan(r)
  <2>1. /\ UNCHANGED <<job, mapped, entries, view>> /\ pc[r] = "plan" /\ (s # r => pc'[s] = pc[s])
        /\ pc[s] \in {"plan", "finish 1", "weigh", "trace map", "shuffle"}
        /\ pc'[r] \notin Unplanned \union Out => Owned(owner'[r])
    BY <1>4, <1>s, Elsewhere, PlanStep DEF Plan, mapVars
  <2>2. pc'[r] \in {"finish 1", "weigh", "trace map", "shuffle"}
        /\ (pc'[r] = "weigh" => job.partition \in {"weighted", "hybrid"})
    BY <1>0, <1>4 DEF Plan, AfterPlan, Goto
  <2>3. Ships' = Ships /\ GoodLines' = GoodLines /\ RangeLines(s)' = RangeLines(s) /\ (ViewSpans' <=> ViewSpans)
        /\ PlanOwners' = PlanOwners
    BY <2>1, FileStays, PlanStays
  <2>4. s # r => owner'[s] = owner[s]
    BY <1>4 DEF Plan, JobInv, TypeOK
  <2>5. pc'[s] # "finish 1" => /\ mapped[s] = RangeLines(s) /\ RangeLines(s) \in Seq(GoodLines)
                               /\ entries[s] \in Seq(Ships) /\ ViewSpans
    BY <1>0, <2>1 DEF RankInv
  <2>6. pc'[s] = "weigh" => job.partition \in {"weighted", "hybrid"}
    BY <1>0, <2>1, <2>2 DEF RankInv
  <2>7. pc'[s] \in {"trace map", "shuffle"} => Owned(owner'[s])
    BY <1>0, <2>1, <2>4 DEF RankInv
  <2>8. pc'[s] \in {"plan", "finish 1", "weigh", "trace map", "shuffle"}
    BY <2>1, <2>2
  <2>9. pc'[s] \in {"trace map", "shuffle"} => Owned(owner[s])'
    BY <2>1, <2>3, <2>7 DEF Owned
  <2> QED BY <2>1, <2>3, <2>5, <2>6, <2>8, <2>9 DEF RankInv
<1>5. CASE Reduce(r)
  <2>1. /\ UNCHANGED <<job, mapped, entries, view, owner>> /\ pc[r] = "reduce" /\ (s # r => pc'[s] = pc[s])
        /\ pc'[r] \in {"trace reduce", "gather"}
    BY <1>0, <1>5, <1>s DEF Reduce, AfterReduce, mapVars, planVars, Goto
  <2>2. /\ received'[r] \in Seq(Seq(Mine(r))) /\ received'[r] # <<>>
        /\ s # r => received'[s] = received[s]
    BY <1>5, ReduceIs
  <2>3. CASE s # r
    <3>1. Behind(s)
      BY <2>1, <2>3 DEF Behind
    <3> QED BY <1>0, <2>1, <2>2, <2>3, <3>1, RankStays
  <2>4. CASE s = r
    <3>1. /\ mapped[s] = RangeLines(s) /\ RangeLines(s) \in Seq(GoodLines) /\ entries[s] \in Seq(Ships) /\ ViewSpans
          /\ Owned(owner[s])
      BY <1>0, <2>1, <2>4 DEF RankInv
    <3>2. /\ Ships' = Ships /\ GoodLines' = GoodLines /\ RangeLines(s)' = RangeLines(s) /\ (ViewSpans' <=> ViewSpans)
          /\ Mine(s)' = Mine(s) /\ PlanOwners' = PlanOwners
      BY <2>1, FileStays, PlanStays, MineStays
    <3>3. Owned(owner[s])'
      BY <2>1, <3>1, <3>2 DEF Owned
    <3> QED BY <2>1, <2>2, <2>4, <3>1, <3>2, <3>3 DEF RankInv
  <2> QED BY <2>3, <2>4
<1> QED BY <1>1, <1>2, <1>3, <1>4, <1>5 DEF Steps

\* The invariant that LinesOnce and OwnersSound need
LEMMA StepJob == JobInv /\ [Next]_vars => JobInv'
<1>1. ASSUME JobInv, Next PROVE JobInv'
  <2>1. PlacesInv' /\ job' = job /\ (Accepted' <=> Accepted)
    BY <1>1, StepStays DEF JobInv
  <2>2. TypeOK' /\ view'.minHour <= view'.maxHour /\ RunsInv'
    BY <1>1, TypesStep, RunsStep
  <2>3. Dies \/ Collective \/ \E r \in Ranks : Steps(r)
    BY <1>1, StepIs DEF JobInv
  <2>4. Together'
    <3>1. CASE Dies
      BY <3>1 DEF Dies, AllGoto, Together, AllAt, Places, Ended
    <3> QED BY <1>1, <2>3, <3>1, CollectiveMoves, RankMoves DEF JobInv
  <2>5. ASSUME Accepted, NEW s \in Ranks PROVE RankInv(s)'
    <3>1. CASE Dies
      <4>1. pc'[s] = "killed"
        BY <3>1 DEF Dies, AllGoto
      <4> QED BY <4>1 DEF RankInv, Out
    <3> QED BY <1>1, <2>3, <2>5, <3>1, CollectiveHolds, RankHolds
  <2> QED BY <2>1, <2>2, <2>4, <2>5 DEF JobInv
<1>2. ASSUME JobInv, UNCHANGED vars PROVE JobInv'
  <2>1. UNCHANGED <<job, pc, mapped, entries, view, owner, sent, received, keys, candidates, ranked, checked, healthy>>
    BY <1>2 DEF vars, dataVars, mapVars, planVars, moveVars, reduceVars, rootVars
  <2>2. /\ reducers' = reducers /\ (Accepted' <=> Accepted)
    BY <2>1, FileStays
  <2>3. ASSUME NEW s \in Ranks, RankInv(s) PROVE RankInv(s)'
    <3>1. Behind(s)
      BY <2>1 DEF Behind
    <3> QED BY <2>1, <2>3, <3>1, RankStays
  <2>4. PlacesInv' /\ Together'
    BY <1>2, <2>1, <2>2 DEF JobInv, PlacesInv, Together, AllAt, Groups, Configured, AfterPlan, AfterReduce
  <2>5. TypeOK' /\ view'.minHour <= view'.maxHour
    BY <1>2, <2>1, <2>2 DEF JobInv, TypeOK
  <2>6. RunsInv'
    BY <1>2, <2>1, <2>2 DEF JobInv, RunsInv, Running
  <2> QED BY <1>2, <2>2, <2>3, <2>4, <2>5, <2>6 DEF JobInv
<1> QED BY <1>1, <1>2

LEMMA InitJob == Init => JobInv
<1> SUFFICES ASSUME Init PROVE JobInv
  OBVIOUS
<1>1. PlacesInv
  BY DEF Init, PlacesInv, Places, Empty
<1>2. \A r \in Ranks : pc[r] = "configure"
  BY DEF Init
<1>3. Together
  BY <1>2 DEF Together, AllAt, Places
<1>4. TypeOK /\ view.minHour <= view.maxHour
  <2>1. pc \in [Ranks -> Places] /\ mapped \in [Ranks -> Seq(Nat \X Nat)] /\ healthy \in BOOLEAN
    BY <1>1 DEF PlacesInv
  <2>2. \A A : Empty \in [Ranks -> Seq(A)] /\ <<>> \in Seq(A)
    BY DEF Empty
  <2>3. entries \in [Ranks -> EntryRuns] /\ candidates \in [Ranks -> EntryRuns] /\ ranked \in EntryRuns /\ checked \in EntryRuns
    BY <2>2 DEF Init, EntryRuns
  <2>4. sent \in [Ranks -> Seq(Nat)] /\ received \in [Ranks -> Seq(EntryRuns)] /\ keys \in [Ranks -> Nat]
    BY <2>2 DEF Init
  <2>5. owner \in [Ranks -> Seq({SplitHour} \union 0 .. reducers - 1)]
    BY <2>2 DEF Init
  <2>6. view \in [minHour : Nat, maxHour : Nat, records : Nat, cars : Nat] /\ view.minHour <= view.maxHour
    BY DEF Init, NoView
  <2> QED BY <2>1, <2>3, <2>4, <2>5, <2>6 DEF TypeOK
<1>5. RunsInv
  BY <1>2 DEF RunsInv, Running
<1>6. \A r \in Ranks : RankInv(r)
  BY <1>2 DEF RankInv, Unshuffled, Unplanned, Unagreed, Unshipped, Unread
<1> QED BY <1>1, <1>3, <1>4, <1>5, <1>6 DEF JobInv

LEMMA JobHolds == Spec => []JobInv
BY InitJob, StepJob, PTL DEF Spec

\* Every line of the file is read exactly once across all ranks, and what they
\* hold is of its type.
THEOREM EveryLineOnce == Spec => []LinesOnce
<1>1. JobInv => LinesOnce
  <2> SUFFICES ASSUME JobInv, Past("agree") PROVE Gathered(mapped) = file.lines
    BY DEF LinesOnce, JobInv
  <2>1. Accepted /\ \A r \in Ranks : pc[r] \notin Unread \union Out
    BY DEF Past, Early, Unread, Out
  <2> QED BY <2>1, AllLines
<1> QED BY <1>1, JobHolds, PTL

\* Every key has one reducer, and those that do not reduce receive nothing.
LEMMA OneReducerIs ==
    ASSUME JobInv
    PROVE  OneReducer
<1> DEFINE keysOf(r) == {Key(e) : e \in UNION {ToSet(received[r][s]) : s \in DOMAIN received[r]}}
<1> SUFFICES ASSUME Past("reduce"), NEW r \in Ranks, NEW s \in Ranks, r # s
             PROVE  keysOf(r) \intersect keysOf(s) = {} /\ (r >= reducers => keysOf(r) = {})
  BY DEF OneReducer
<1>0. 0 \in Ranks /\ job \in Jobs /\ Agreed
  BY AgreedIs, JobIs
<1>1. Accepted /\ \A q \in Ranks : pc[q] \notin Unshuffled \union Out
  BY DEF Past, Early, Unshuffled, Unplanned, Unagreed, Unshipped, Unread, Out
<1>2. ASSUME NEW q \in Ranks PROVE received[q] \in Seq(Seq(Mine(q))) /\ Owned(owner[q]) /\ ViewSpans
  <2>1. RankInv(q)
    BY <1>1 DEF JobInv
  <2> QED BY <1>1, <2>1 DEF RankInv, Unshuffled, Unplanned
<1>3. ASSUME NEW q \in Ranks, NEW k \in keysOf(q) PROVE \E e \in Mine(q) : Key(e) = k
  <2>1. PICK e \in UNION {ToSet(received[q][i]) : i \in DOMAIN received[q]} : Key(e) = k
    BY <1>3
  <2>2. PICK i \in DOMAIN received[q] : e \in ToSet(received[q][i])
    BY <2>1
  <2> DEFINE M == Mine(q)
             runs == received[q]
  <2>3. runs \in Seq(Seq(M))
    BY <1>2
  <2> HIDE DEF M, runs
  <2>4. runs[i] \in Seq(M)
    BY <2>2, <2>3 DEF runs
  <2>5. \E p \in DOMAIN runs[i] : e = runs[i][p]
    BY <2>2 DEF ToSet, runs
  <2>6. e \in M
    BY <2>4, <2>5
  <2> QED BY <2>1, <2>6 DEF M
<1> HIDE DEF keysOf
<1>4. keysOf(r) \intersect keysOf(s) = {}
  <2> SUFFICES ASSUME NEW k \in keysOf(r), k \in keysOf(s) PROVE FALSE
    OBVIOUS
  <2>1. PICK d \in Mine(r) : Key(d) = k
    BY <1>3
  <2>2. PICK e \in Mine(s) : Key(e) = k
    BY <1>3
  <2>3. Destination(0, d) = Destination(0, e)
    BY <1>0, <1>2, <2>1, <2>2, OneDestination
  <2> QED BY <2>1, <2>2, <2>3 DEF Mine
<1>5. ASSUME r >= reducers PROVE keysOf(r) = {}
  <2> SUFFICES ASSUME NEW k \in keysOf(r) PROVE FALSE
    OBVIOUS
  <2>1. PICK e \in Mine(r) : Key(e) = k
    BY <1>3
  <2>2. reducers \in Nat \ {0}
    <3>1. reducers \in 1 .. Procs /\ Procs \in Nat
      BY <1>1, ProcsAssumption DEF Accepted
    <3> QED BY <3>1
  <2>3. e \in Ships /\ Destination(0, e) = r
    BY <2>1 DEF Mine
  <2>4. Destination(0, e) \in 0 .. reducers - 1
    BY <1>0, <1>2, <2>2, <2>3, DestinationIs
  <2>5. r \in 0 .. reducers - 1
    BY <2>3, <2>4
  <2> QED BY <1>5, <2>2, <2>5
<1> QED BY <1>4, <1>5

\* The hours that stay whole fit, and their owners grow.
LEMMA HybridFitsIs ==
    ASSUME JobInv
    PROVE  HybridFits
<1> SUFFICES ASSUME job.partition = "hybrid", Past("reduce"), NEW r \in Ranks
             PROVE  LET whole == {h \in 1 .. span : owner[r][h] # SplitHour}
                        room  == SumOver(whole, LAMBDA h : Weight[h])
                    IN  /\ \A h \in whole : Weight[h] * reducers <= room
                        /\ \A g, h \in whole : g < h /\ Weight[h] > 0 => owner[r][g] <= owner[r][h]
  BY DEF HybridFits
<1>1. Accepted /\ pc[r] \notin Unshuffled \union Out
  BY DEF Past, Early, Unshuffled, Unplanned, Unagreed, Unshipped, Unread, Out
<1>2. Owned(owner[r])
  BY <1>1 DEF JobInv, RankInv, Unshuffled
<1>3. reducers \in Nat \ {0}
  <2>1. reducers \in 1 .. Procs /\ Procs \in Nat
    BY <1>1, ProcsAssumption DEF Accepted
  <2> QED BY <2>1
<1>4. HybridPlan(owner[r], Weight, span, reducers)
  BY <1>2, <1>3, PlanIs, AgreedIs DEF Owned
<1> DEFINE whole == {h \in 1 .. span : owner[r][h] # SplitHour}
           room  == SumOver(whole, LAMBDA h : Weight[h])
<1>5. room = SumFunctionOnSet(Weight, whole)
  BY DEF SumOver, MapThenSumSet, SumFunctionOnSet, FoldFunctionOnSet
<1>6. /\ \A h \in whole : Weight[h] * reducers <= SumFunctionOnSet(Weight, whole)
      /\ \A g \in whole, h \in whole : g < h => owner[r][g] <= owner[r][h]
  BY <1>4, Zenon DEF HybridPlan
<1> HIDE DEF whole
<1>7. \A h \in whole : Weight[h] * reducers <= room
  BY <1>5, <1>6
<1> HIDE DEF room
<1> QED BY <1>6, <1>7 DEF whole, room

\* What the owners that every rank computes by itself agree on, and respect
THEOREM OwnersAgree == Spec => []OwnersSound
<1>1. JobInv => OwnersSound
  BY OneReducerIs, HybridFitsIs DEF OwnersSound
<1> QED BY <1>1, JobHolds, PTL
=============================================================================
