----------------------- MODULE TrafficPipelineProofs -----------------------
(***************************************************************************)
(* Proofs about TrafficPipeline, for any files, options, faults, number of *)
(* producers and consumers and capacity: no thread parks without someone   *)
(* on the way to wake it (TypeInv, WakeInv); when reads succeed every      *)
(* record is counted once, as CountOnce promises (CountInv); and what the  *)
(* end of a run says, its report, counters, exit code and message, is what *)
(* the file explains (CountersInv, ErrorInv, EndInv), on the files that    *)
(* the calendar and the probe are meant for (Regular).  Which those are:   *)
(* the dates of the Gregorian calendar, and the files that mode gen writes.*)
(***************************************************************************)
EXTENDS TrafficPipeline, DataLemmas, SequenceTheorems

-----------------------------------------------------------------------------
(* The file                                                                *)

\* The run and what it determines never change.
Given == run \in Runs /\ input = InputOf(run)

NumProducers == Cardinality(Producers)
LineCount == Len(lines)

\* What the options of a run are.
LEMMA RunIs ==
    ASSUME run \in Runs
    PROVE  /\ LineCount \in Nat /\ DOMAIN lines = 1 .. LineCount
           /\ \A i \in DOMAIN lines : lines[i].len \in Nat
           /\ file.ended \/ lines # <<>>
           /\ run.buffer \in Nat /\ run.block \in Nat /\ run.broken \subseteq Producers
           /\ run.mode \in {"seq", "local", "atomic", "shared"} /\ run.progress \in BOOLEAN
           /\ \A i \in DOMAIN lines : lines[i].text # "blank" => lines[i].len > 0
<1>1. run \in Options
  BY RunsAssumption
<1>2. /\ lines \in Seq([text : Texts, len : Nat, date : Seq(Nat), light : Nat, cars : Nat])
      /\ run.buffer \in Nat /\ run.block \in Nat /\ run.broken \subseteq Producers
      /\ run.mode \in {"seq", "local", "atomic", "shared"} /\ run.progress \in BOOLEAN
      /\ file.ended \/ lines # <<>>
  BY <1>1 DEF Options, file, lines
<1>3. \A i \in DOMAIN lines : lines[i].text # "blank" => lines[i].len > 0
  BY RunsAssumption DEF file, lines
<1> HIDE DEF file, lines
<1>4. DOMAIN lines = 1 .. Len(lines) /\ Len(lines) \in Nat
  BY <1>2
<1>5. \A i \in DOMAIN lines : lines[i].len \in Nat
  <2> DEFINE L == [text : Texts, len : Nat, date : Seq(Nat), light : Nat, cars : Nat]
  <2>1. lines \in Seq(L)
    BY <1>2
  <2>2. \A l \in L : l.len \in Nat
    OBVIOUS
  <2> HIDE DEF L
  <2>3. \A i \in DOMAIN lines : lines[i] \in L
    BY <1>4, <2>1
  <2> QED BY <2>2, <2>3
<1> QED BY <1>2, <1>3, <1>4, <1>5 DEF LineCount

\* The first byte of a line, as a sum over the lines before it
LEMMA FirstByteIsSum ==
    ASSUME NEW f, NEW i \in Nat, NEW w, \A j \in 1 .. i - 1 : w[j] = f.lines[j].len + 1
    PROVE  FirstByte(f, i) = SumFunctionOnSet(w, 1 .. i - 1)
<1> DEFINE S == 1 .. i - 1
           Q(g) == g = [s \in SUBSET S |-> IF s = {} THEN 0
                                           ELSE (f.lines[FirstOf(s)].len + 1) + g[s \ {FirstOf(s)}]]
<1>1. FirstByte(f, i) = (CHOOSE g : Q(g))[S]
  BY DEF FirstByte, MapThenSumSet, MapThenFoldSet, FirstOf
<1>2. IsFiniteSet(S)
  BY FS_Interval
<1>3. \A s \in SUBSET S : s # {} => w[FirstOf(s)] = f.lines[FirstOf(s)].len + 1
  BY FirstIsIn
<1>4. \A g : Q(g) <=> IsFold(g, w, S)
  <2> TAKE g
  <2>1. [s \in SUBSET S |-> IF s = {} THEN 0 ELSE (f.lines[FirstOf(s)].len + 1) + g[s \ {FirstOf(s)}]]
        = [s \in SUBSET S |-> IF s = {} THEN 0 ELSE w[FirstOf(s)] + g[s \ {FirstOf(s)}]]
    BY <1>3
  <2> QED BY <2>1 DEF IsFold
<1> DEFINE G == CHOOSE g : Q(g)
           H == CHOOSE g : IsFold(g, w, S)
<1>5. IsFold(H, w, S)
  BY <1>2, FoldExists
<1> HIDE DEF Q, H
<1>6. IsFold(G, w, S)
  BY <1>4, <1>5
<1>7. SumFunctionOnSet(w, S) = H[S]
  BY SumIsFold DEF H
<1>8. FirstByte(f, i) = G[S]
  BY <1>1
<1> HIDE DEF G, S
<1>9. G[S] = H[S]
  BY <1>2, <1>5, <1>6, FoldUnique
<1> QED BY <1>7, <1>8, <1>9 DEF S

\* The lines follow one another: each begins behind the newline of the one
\* before it.
LEMMA FirstBytes ==
    ASSUME Given
    PROVE  /\ DOMAIN input.first = 1 .. LineCount + 1
           /\ input.first[1] = 0
           /\ \A i \in 1 .. LineCount + 1 : input.first[i] \in Nat /\ input.first[i] = FirstByte(file, i)
           /\ \A i \in 1 .. LineCount : input.first[i + 1] = (input.first[i] + lines[i].len) + 1
<1> DEFINE w == [i \in 1 .. LineCount |-> lines[i].len + 1]
<1>1. LineCount \in Nat /\ DOMAIN lines = 1 .. LineCount /\ \A i \in 1 .. LineCount : lines[i].len \in Nat
  BY RunIs DEF Given
<1>2. input.first = [i \in 1 .. LineCount + 1 |-> FirstByte(file, i)]
  BY DEF Given, InputOf, file, lines, LineCount
<1>3. \A i \in 1 .. LineCount : w[i] = lines[i].len + 1 /\ w[i] \in Nat
  BY <1>1
<1> HIDE DEF w
<1>4. ASSUME NEW i \in 1 .. LineCount + 1
      PROVE  FirstByte(file, i) = SumFunctionOnSet(w, 1 .. i - 1) /\ FirstByte(file, i) \in Nat
  <2>1. \A j \in 1 .. i - 1 : w[j] = file.lines[j].len + 1 /\ w[j] \in Nat
    BY <1>1, <1>3 DEF lines
  <2>2. FirstByte(file, i) = SumFunctionOnSet(w, 1 .. i - 1)
    BY <2>1, FirstByteIsSum
  <2>3. IsFiniteSet(1 .. i - 1) /\ 0 \in Nat /\ \A a \in Nat, b \in Nat : a + b \in Nat
    BY FS_Interval
  <2>4. SumFunctionOnSet(w, 1 .. i - 1) \in Nat
    BY <2>1, <2>3, SumIsIn, Zenon
  <2> QED BY <2>2, <2>4
<1>5. FirstByte(file, 1) = 0
  <2>1. 1 .. 1 - 1 = {} /\ 1 \in 1 .. LineCount + 1
    BY <1>1
  <2> QED BY <1>4, <2>1, SumOfNone
<1>6. ASSUME NEW i \in 1 .. LineCount PROVE FirstByte(file, i + 1) = (FirstByte(file, i) + lines[i].len) + 1
  <2>1. /\ i \in 1 .. LineCount + 1 /\ i + 1 \in 1 .. LineCount + 1
        /\ (i + 1) - 1 = i /\ i \in 1 .. i /\ (1 .. i) \ {i} = 1 .. i - 1
        /\ \A x \in 1 .. i : x \in 1 .. LineCount
    BY <1>1
  <2>2. IsFiniteSet(1 .. i) /\ \A x \in 1 .. i : w[x] \in Int
    <3>1. i \in Int /\ 1 \in Int
      BY <1>1
    <3>2. IsFiniteSet(1 .. i)
      BY <3>1, FS_Interval, Zenon
    <3> QED BY <1>3, <2>1, <3>2
  <2>3. SumFunctionOnSet(w, 1 .. i) = w[i] + SumFunctionOnSet(w, 1 .. i - 1)
    BY <2>1, <2>2, SumWithout
  <2>4. /\ FirstByte(file, i + 1) = SumFunctionOnSet(w, 1 .. i)
        /\ FirstByte(file, i) = SumFunctionOnSet(w, 1 .. i - 1) /\ FirstByte(file, i) \in Nat
    BY <1>4, <2>1
  <2> QED BY <1>1, <1>3, <2>3, <2>4
<1> QED BY <1>1, <1>2, <1>4, <1>5, <1>6

\* A later line begins behind an earlier one.
LEMMA FirstGrows ==
    ASSUME Given, NEW i \in 1 .. LineCount + 1, NEW j \in 1 .. LineCount + 1, i < j
    PROVE  input.first[i] < input.first[j]
<1> DEFINE bad == {k \in 1 .. LineCount + 1 : i < k /\ ~(input.first[i] < input.first[k])}
<1> SUFFICES ASSUME bad # {} PROVE FALSE
  OBVIOUS
<1>0. LineCount \in Nat /\ \A k \in 1 .. LineCount : lines[k].len \in Nat
  BY RunIs DEF Given
<1>1. PICK k \in bad : \A y \in bad : k <= y
  <2>1. bad \subseteq Nat
    BY <1>0
  <2> HIDE DEF bad
  <2> QED BY <2>1, LeastOf
<1>2. k \in 1 .. LineCount + 1 /\ i < k /\ ~(input.first[i] < input.first[k])
  OBVIOUS
<1>3. k - 1 \in 1 .. LineCount /\ (k - 1) + 1 = k /\ k - 1 \in 1 .. LineCount + 1
  BY <1>0, <1>2
<1>4. /\ input.first[k] = (input.first[k - 1] + lines[k - 1].len) + 1
      /\ input.first[k] \in Nat /\ input.first[k - 1] \in Nat /\ input.first[i] \in Nat
  <2> DEFINE l == k - 1
  <2>1. l \in 1 .. LineCount /\ l + 1 = k /\ l \in 1 .. LineCount + 1
    BY <1>3
  <2> HIDE DEF l
  <2>2. input.first[k] = (input.first[l] + lines[l].len) + 1 /\ input.first[k] \in Nat /\ input.first[l] \in Nat
    BY <1>2, <2>1, FirstBytes
  <2> QED BY <2>2, FirstBytes DEF l
<1>5. k - 1 \notin bad
  BY <1>0, <1>1, <1>2
<1>6. i = k - 1 \/ input.first[i] < input.first[k - 1]
  BY <1>0, <1>2, <1>3, <1>5
<1> QED BY <1>0, <1>2, <1>3, <1>4, <1>6

\* Every byte of the file belongs to one line.
LEMMA LineOfByte ==
    ASSUME Given, NEW b \in Nat, b < input.first[LineCount + 1]
    PROVE  /\ LineAt(b) \in 1 .. LineCount
           /\ input.first[LineAt(b)] <= b /\ b < input.first[LineAt(b) + 1]
<1> DEFINE S == {k \in 1 .. LineCount + 1 : b < input.first[k]}
<1>0. LineCount \in Nat /\ DOMAIN lines = 1 .. LineCount
  BY RunIs DEF Given
<1>1. LineCount + 1 \in S /\ S \subseteq Nat
  BY <1>0
<1>2. PICK k \in S : \A y \in S : k <= y
  <2> HIDE DEF S
  <2> QED BY <1>1, LeastOf
<1>3. k \in 1 .. LineCount + 1 /\ b < input.first[k] /\ input.first[1] = 0
  BY FirstBytes
<1>4. k # 1 /\ k - 1 \in 1 .. LineCount /\ (k - 1) + 1 = k
  BY <1>0, <1>3
<1> DEFINE l == k - 1
<1>5. l \in 1 .. LineCount /\ l + 1 = k /\ l \notin S
  BY <1>0, <1>2, <1>4
<1>6. input.first[l] \in Nat
  <2>1. l \in 1 .. LineCount + 1
    BY <1>0, <1>5
  <2> HIDE DEF l
  <2> QED BY <2>1, FirstBytes
<1>7. input.first[l] <= b
  <2>1. ~(b < input.first[l])
    BY <1>0, <1>5
  <2> HIDE DEF l, S
  <2> QED BY <1>6, <2>1
<1> HIDE DEF l, S
<1>8. \E m \in DOMAIN lines : input.first[m] <= b /\ b < input.first[m + 1]
  BY <1>0, <1>3, <1>5, <1>7
<1> QED BY <1>0, <1>8 DEF LineAt

\* The first byte of a line belongs to it.
LEMMA LineOfFirst ==
    ASSUME Given, NEW i \in 1 .. LineCount
    PROVE  LineAt(input.first[i]) = i /\ input.first[i] \in Nat /\ input.first[i] < input.first[LineCount + 1]
<1> DEFINE b == input.first[i]
           l == LineAt(b)
<1>0. LineCount \in Nat /\ i \in 1 .. LineCount + 1 /\ LineCount + 1 \in 1 .. LineCount + 1 /\ i < LineCount + 1
  BY RunIs DEF Given
<1>1. b \in Nat
  BY <1>0, FirstBytes
<1>2. b < input.first[LineCount + 1]
  BY <1>0, FirstGrows
<1>3. l \in 1 .. LineCount /\ input.first[l] <= b /\ b < input.first[l + 1]
  <2> HIDE DEF b
  <2> QED BY <1>1, <1>2, LineOfByte
<1> HIDE DEF l
<1>4. l \in 1 .. LineCount + 1 /\ l + 1 \in 1 .. LineCount + 1
  BY <1>0, <1>3
<1>5. input.first[l] \in Nat /\ input.first[l + 1] \in Nat
  BY <1>4, FirstBytes
<1>6. ~(i < l)
  <2>1. i < l => b < input.first[l]
    BY <1>0, <1>4, FirstGrows
  <2> HIDE DEF b
  <2> QED BY <1>1, <1>3, <1>5, <2>1
<1>7. ~(l + 1 <= i)
  <2>1. l + 1 < i => input.first[l + 1] < b
    BY <1>0, <1>4, FirstGrows
  <2>2. l + 1 = i => input.first[l + 1] = b
    OBVIOUS
  <2> HIDE DEF b
  <2> QED BY <1>0, <1>1, <1>3, <1>5, <2>1, <2>2
<1>8. l = i
  BY <1>0, <1>3, <1>6, <1>7
<1> QED BY <1>1, <1>2, <1>8 DEF l

-----------------------------------------------------------------------------
(* The producers' ranges                                                   *)

\* The producers are numbered.
LEMMA Numbered ==
    /\ NumProducers \in Nat \ {0} /\ Producers = 0 .. NumProducers - 1
    /\ \A p \in Producers : p \in Nat /\ p < NumProducers /\ p + 1 \in 0 .. NumProducers
<1>1. Cardinality(Producers) \in Nat
  BY ThreadsAssumption, FS_CardinalityType
<1>2. Producers = 0 .. Cardinality(Producers) - 1 /\ Producers # {}
  BY ThreadsAssumption
<1> DEFINE P == Cardinality(Producers)
<1>3. P \in Nat /\ Producers = 0 .. P - 1 /\ Producers # {}
  BY <1>1, <1>2
<1> HIDE DEF P
<1>4. P # 0
  BY <1>3
<1> QED BY <1>3, <1>4 DEF NumProducers, P

\* The size of the file is where its last line ends, with or without a newline.
LEMMA SizeOfFile ==
    ASSUME Given
    PROVE  /\ FileSize(file) \in Nat
           /\ FileSize(file) <= input.first[LineCount + 1]
           /\ input.first[LineCount + 1] <= FileSize(file) + 1
           /\ FileSize(file) > 0 => FileSize(file) - 1 < input.first[LineCount + 1]
<1>1. LineCount \in Nat /\ (file.ended \/ lines # <<>>) /\ DOMAIN lines = 1 .. LineCount
      /\ LineCount + 1 \in 1 .. LineCount + 1
  BY RunIs DEF Given
<1>2. input.first[LineCount + 1] = FirstByte(file, LineCount + 1) /\ input.first[LineCount + 1] \in Nat
      /\ input.first[1] = 0
  BY <1>1, FirstBytes
<1>3. FileSize(file) = input.first[LineCount + 1] - (IF file.ended THEN 0 ELSE 1)
  BY <1>2 DEF FileSize, LineCount, lines
<1>4. CASE file.ended
  BY <1>2, <1>3, <1>4
<1>5. CASE ~file.ended
  <2>1. LineCount > 0
    <3>1. lines # <<>> /\ DOMAIN lines = 1 .. LineCount
      BY <1>1, <1>5
    <3>2. lines \in Seq([text : Texts, len : Nat, date : Seq(Nat), light : Nat, cars : Nat])
      BY RunsAssumption DEF Given, Options, file, lines
    <3>3. Len(lines) # 0
      BY <3>1, <3>2, EmptySeq
    <3> QED BY <1>1, <3>3 DEF LineCount
  <2>2. input.first[1] < input.first[LineCount + 1]
    BY <1>1, <2>1, FirstGrows
  <2> QED BY <1>2, <1>3, <1>5, <2>2
<1> QED BY <1>4, <1>5

\* The ranges follow one another and cover the file; of a file that is not
\* empty each one starts before its end.
LEMMA Ranges ==
    ASSUME Given
    PROVE  /\ \A p \in Producers : Start(p) \in Nat /\ End(p) \in Nat /\ Start(p) <= End(p)
           /\ \A p, q \in Producers : p < q => End(p) <= Start(q)
           /\ \A p \in Producers : End(p) <= input.first[LineCount + 1]
           /\ FileSize(file) > 0 => \A p \in Producers : Start(p) < input.first[LineCount + 1]
           /\ \A b \in Nat : b < FileSize(file) => \E p \in Producers : Start(p) <= b /\ b < End(p)
<1> DEFINE P == NumProducers
           Z == FileSize(file)
           B(i) == (Z * i) \div P
<1>1. /\ Z \in Nat /\ Z <= input.first[LineCount + 1]
      /\ P \in Nat \ {0} /\ Producers = 0 .. P - 1
      /\ \A p \in Producers : p \in Nat /\ p < P /\ p + 1 \in 0 .. P
      /\ input.first[LineCount + 1] \in Nat
  <2>1. LineCount + 1 \in 1 .. LineCount + 1
    BY RunIs DEF Given
  <2> QED BY <2>1, SizeOfFile, Numbered, FirstBytes
<1>2. \A i \in 0 .. P : input.bounds[i] = B(i)
  BY DEF Given, InputOf, RangeStart, file, NumProducers
<1>3. \A p \in Producers : Start(p) = B(p) /\ End(p) = B(p + 1)
  <2> HIDE DEF B, Z, P
  <2>1. \A p \in Producers : p \in 0 .. P /\ p + 1 \in 0 .. P
    BY <1>1
  <2> QED BY <1>2, <2>1 DEF Start, End
<1>4. \A i \in Nat : B(i) \in Nat /\ B(i) * P <= Z * i /\ Z * i < (B(i) * P) + P
  <2> HIDE DEF Z, P
  <2> QED BY <1>1, ShareOf
<1>5. \A i, j \in Nat : i <= j => B(i) <= B(j)
  <2> HIDE DEF Z, P
  <2> QED BY <1>1, SharesGrow
<1>6. B(0) = 0
  <2> HIDE DEF Z, P
  <2>1. Z * 0 = 0 /\ 0 \div P = 0
    BY <1>1
  <2> QED BY <2>1
<1> HIDE DEF B, Z, P
<1>7. B(P) = Z
  <2>1. B(P) \in Nat /\ B(P) * P <= Z * P /\ Z * P < (B(P) * P) + P
    BY <1>1, <1>4
  <2>2. ASSUME B(P) > Z PROVE FALSE
    <3> DEFINE k == B(P) - Z
    <3>1. k \in Nat /\ k >= 1 /\ B(P) = Z + k
      BY <1>1, <2>1, <2>2
    <3> HIDE DEF k
    <3>2. k * P >= P /\ (Z + k) * P = (Z * P) + (k * P) /\ Z * P \in Nat /\ k * P \in Nat
      BY <1>1, <3>1
    <3> QED BY <1>1, <2>1, <3>1, <3>2
  <2>3. ASSUME B(P) < Z PROVE FALSE
    <3> DEFINE k == Z - B(P)
    <3>1. k \in Nat /\ k >= 1 /\ Z = B(P) + k
      BY <1>1, <2>1, <2>3
    <3> HIDE DEF k
    <3>2. k * P >= P /\ (B(P) + k) * P = (B(P) * P) + (k * P) /\ B(P) * P \in Nat /\ k * P \in Nat
      BY <1>1, <2>1, <3>1
    <3> QED BY <1>1, <2>1, <3>1, <3>2
  <2> QED BY <1>1, <2>1, <2>2, <2>3
<1>8. \A p \in Producers : Start(p) \in Nat /\ End(p) \in Nat /\ Start(p) <= End(p)
  <2> TAKE p \in Producers
  <2>1. p \in Nat /\ p + 1 \in Nat /\ p <= p + 1
    BY <1>1
  <2> QED BY <1>3, <1>4, <1>5, <2>1
<1>9. \A p, q \in Producers : p < q => End(p) <= Start(q)
  <2> TAKE p, q \in Producers
  <2>1. p < q => p + 1 <= q
    BY <1>1
  <2> QED BY <1>1, <1>3, <1>5, <2>1
<1>10. \A p \in Producers : End(p) <= Z
  BY <1>1, <1>3, <1>5, <1>7
<1>11. ASSUME Z > 0, NEW p \in Producers PROVE Start(p) < Z
  <2>1. B(p) \in Nat /\ B(p) * P <= Z * p
    BY <1>1, <1>4
  <2>2. p \in Nat /\ p < P
    BY <1>1
  <2>3. Z * p < Z * P
    <3> DEFINE k == P - p
    <3>1. k \in Nat /\ k >= 1 /\ P = p + k
      BY <1>1, <2>2
    <3> HIDE DEF k
    <3>2. Z * k >= 1 /\ Z * (p + k) = (Z * p) + (Z * k) /\ Z * p \in Nat /\ Z * k \in Nat
      BY <1>1, <1>11, <2>2, <3>1
    <3> QED BY <3>1, <3>2
  <2>4. ASSUME B(p) >= Z PROVE FALSE
    <3> DEFINE k == B(p) - Z
    <3>1. k \in Nat /\ B(p) = Z + k
      BY <1>1, <2>1, <2>4
    <3> HIDE DEF k
    <3>2. k * P \in Nat /\ (Z + k) * P = (Z * P) + (k * P) /\ Z * P \in Nat /\ Z * p \in Nat
      BY <1>1, <2>2, <3>1
    <3> QED BY <2>1, <2>3, <3>1, <3>2
  <2> QED BY <1>1, <1>3, <2>1, <2>4
<1>12. ASSUME NEW b \in Nat, b < Z PROVE \E p \in Producers : Start(p) <= b /\ b < End(p)
  <2> DEFINE S == {i \in 0 .. P : b < B(i)}
  <2>1. S \subseteq Nat /\ P \in S
    BY <1>1, <1>7, <1>12
  <2>2. PICK i \in S : \A j \in S : i <= j
    <3> HIDE DEF S
    <3> QED BY <2>1, LeastOf
  <2>3. i \in 0 .. P /\ b < B(i) /\ i # 0
    BY <1>6, <1>12
  <2> DEFINE p == i - 1
  <2>4. p \in Producers /\ p + 1 = i /\ p \notin S /\ p \in 0 .. P
    BY <1>1, <2>2, <2>3
  <2> HIDE DEF p
  <2>5. B(p) <= b
    <3>1. ~(b < B(p)) /\ B(p) \in Nat
      BY <1>1, <1>4, <2>4
    <3> QED BY <3>1
  <2> QED BY <1>3, <2>3, <2>4, <2>5
<1>13. \A p \in Producers : End(p) <= input.first[LineCount + 1]
  BY <1>1, <1>8, <1>10
<1>14. Z > 0 => \A p \in Producers : Start(p) < input.first[LineCount + 1]
  BY <1>1, <1>8, <1>11
<1> QED BY <1>8, <1>9, <1>12, <1>13, <1>14 DEF Z

\* The lines to count and to refuse are lines with a text, which begin in the
\* file, or have several bytes.
LEMMA LinesWithText ==
    ASSUME Given
    PROVE  /\ Records \subseteq 1 .. LineCount /\ IsFiniteSet(Records)
           /\ input.refused \subseteq 1 .. LineCount /\ Records \intersect input.refused = {}
           /\ input.probed \in BOOLEAN /\ (input.probed => FileSize(file) > 0)
           /\ \A i \in Records \union input.refused : input.first[i] < FileSize(file)
<1>0. LineCount \in Nat /\ DOMAIN lines = 1 .. LineCount
      /\ \A i \in DOMAIN lines : lines[i].text # "blank" => lines[i].len > 0
  BY RunIs DEF Given
<1> DEFINE R == IF Probed(file) THEN {i \in DOMAIN lines : LineRefused(file, run, lines[i])} ELSE {}
<1>1. /\ input.refused = R /\ input.probed = Probed(file)
      /\ Records = IF Probed(file) THEN {i \in DOMAIN lines : lines[i].text = "record"} \ R ELSE {}
  BY DEF Given, InputOf, Records, file, lines
<1>2. Records \subseteq 1 .. LineCount /\ input.refused \subseteq 1 .. LineCount /\ Records \intersect input.refused = {}
  BY <1>0, <1>1
<1>3. IsFiniteSet(Records)
  <2>1. IsFiniteSet(1 .. LineCount)
    BY <1>0, FS_Interval
  <2> QED BY <1>2, <2>1, FS_Subset
<1>4. Probed(file) \in BOOLEAN /\ (Probed(file) => FileSize(file) > 0)
  BY DEF Probed
<1>5. ASSUME NEW i \in Records \union input.refused PROVE input.first[i] < FileSize(file)
  <2>1. i \in 1 .. LineCount /\ lines[i].len > 0 /\ lines[i].len \in Nat
    <3>1. i \in DOMAIN lines
      BY <1>0, <1>2
    <3>2. lines[i].len \in Nat
      BY <3>1, RunIs DEF Given
    <3>3. CASE i \in Records
      BY <1>0, <1>1, <1>2, <3>1, <3>2, <3>3
    <3>4. CASE i \in input.refused
      <4>1. LineRefused(file, run, lines[i])
        BY <1>1, <3>4
      <4> QED BY <1>0, <3>1, <3>2, <4>1 DEF LineRefused
    <3> QED BY <1>0, <3>1, <3>2, <3>3, <3>4
  <2>2. input.first[i + 1] = (input.first[i] + lines[i].len) + 1
        /\ input.first[i] \in Nat /\ input.first[i + 1] \in Nat /\ input.first[LineCount + 1] \in Nat
    <3>1. i \in 1 .. LineCount + 1 /\ i + 1 \in 1 .. LineCount + 1 /\ LineCount + 1 \in 1 .. LineCount + 1
      BY <1>0, <2>1
    <3> QED BY <2>1, <3>1, FirstBytes
  <2>3. input.first[i + 1] <= input.first[LineCount + 1]
    <3>1. i + 1 = LineCount + 1 \/ (i + 1 < LineCount + 1 /\ i + 1 \in 1 .. LineCount + 1 /\ LineCount + 1 \in 1 .. LineCount + 1)
      BY <1>0, <2>1
    <3> QED BY <2>2, <3>1, FirstGrows
  <2> QED BY <2>1, <2>2, <2>3, SizeOfFile
<1> QED BY <1>1, <1>2, <1>3, <1>4, <1>5

\* The place of a byte before the end of a range, and where the next line begins
LEMMA NextLine ==
    ASSUME Given, NEW p \in Producers, NEW b \in Nat, b < End(p)
    PROVE  /\ LineAt(b) \in 1 .. LineCount
           /\ lines[LineAt(b)].len \in Nat
           /\ input.first[LineAt(b) + 1] \in Nat
<1>1. LineCount \in Nat /\ LineCount + 1 \in 1 .. LineCount + 1
      /\ \A i \in 1 .. LineCount : lines[i].len \in Nat
  BY RunIs DEF Given
<1>2. End(p) \in Nat /\ End(p) <= input.first[LineCount + 1] /\ input.first[LineCount + 1] \in Nat
  BY <1>1, Ranges, FirstBytes
<1>3. LineAt(b) \in 1 .. LineCount
  BY <1>2, LineOfByte
<1>4. LineAt(b) + 1 \in 1 .. LineCount + 1
  BY <1>1, <1>3
<1> QED BY <1>1, <1>3, <1>4, FirstBytes

-----------------------------------------------------------------------------
(* Types                                                                   *)

\* The parts of TypeOK
ThreadsOK ==
    /\ ppc \in [Producers -> ProducerPlaces]
    /\ pos \in [Producers -> Nat]
    /\ block \in [Producers -> Seq(Records)]
    /\ cpc \in [Consumers -> ConsumerPlaces]
    /\ hand \in [Consumers -> Seq(Records)]
    /\ next \in [Consumers -> Nat \ {0}]
ParkedOK ==
    /\ notFull = {p \in Producers : ppc[p] = "waiting"}
    /\ notEmpty = {c \in Consumers : cpc[c] = "waiting"}
BufferOK ==
    /\ queue \in Seq(Seq(Records))
    /\ closed \in BOOLEAN /\ stopped \in BOOLEAN
    /\ pushed \in Nat /\ popped \in Nat /\ maxDepth \in 0 .. Capacity
CountersOK ==
    /\ tally \in [Slots -> [Records -> Nat]]
    /\ produced \in Nat /\ consumed \in Nat /\ counted \in 0 .. Len(lines)
MainOK ==
    /\ failed \in BOOLEAN /\ watching \in BOOLEAN /\ errorText \in Seq(Nat)
    /\ mpc \in {"start", "count", "joinProducers", "notify", "joinConsumers", "joinMonitor", "exit"}
    /\ outcome \in {"running", "reported", "aborted"}

\* The parts of the type invariant
LEMMA TypeParts == TypeOK <=> run \in Runs /\ ThreadsOK /\ ParkedOK /\ BufferOK /\ CountersOK /\ MainOK
BY DEF TypeOK, ThreadsOK, ParkedOK, BufferOK, CountersOK, MainOK

\* Threads start in a run whose file was probed, at the first byte of their
\* range, and the buffer is closed after that; main counts itself in mode seq.
Begun ==
    /\ mpc = "start" => /\ \A p \in Producers : ppc[p] = "created"
                        /\ \A c \in Consumers : cpc[c] = "created"
    /\ (\E p \in Producers : ppc[p] # "created") => input.probed
    /\ \A p \in Producers : ppc[p] \in {"created", "open"} => pos[p] = Start(p)
    /\ closed => mpc \in {"notify", "joinConsumers", "joinMonitor", "exit"}
    /\ mpc = "count" => run.mode = "seq"

TypeInv == Given /\ ThreadsOK /\ ParkedOK /\ BufferOK /\ CountersOK /\ MainOK /\ Begun

\* What is made of the run does not change either.
LEMMA RunStays ==
    ASSUME UNCHANGED runVars
    PROVE  /\ file' = file /\ lines' = lines /\ LineCount' = LineCount
           /\ Records' = Records /\ Slots' = Slots /\ Capacity' = Capacity
           /\ Accepted' = Accepted /\ Bad' = Bad /\ (Given => Given')
           /\ \A p : Start(p)' = Start(p) /\ End(p)' = End(p)
           /\ \A i : Refused(i)' = Refused(i)
           /\ \A c : SlotOf(c)' = SlotOf(c)
           /\ run' = run /\ input' = input
BY DEF runVars, file, lines, LineCount, Records, Slots, Capacity, Accepted, Bad, Given, Start, End,
       Refused, SlotOf

\* A buffer has room for one record at least.
LEMMA CapacityIs ==
    ASSUME Given
    PROVE  Capacity \in Nat \ {0}
BY RunIs DEF Given, Capacity

\* A producer opens the file.
LEMMA FindFirstLineType ==
    ASSUME TypeInv, NEW p \in Producers, FindFirstLine(p) PROVE TypeInv'
<1>1. /\ UNCHANGED <<runVars, block, consumerVars, bufferVars, contextVars, mainVars>>
      /\ ppc[p] = "open"
      /\ \/ ProducerGoto(p, "failText") /\ UNCHANGED pos
         \/ ProducerGoto(p, "done") /\ UNCHANGED pos
         \/ /\ ProducerGoto(p, "read")
            /\ pos' = IF ~InsideLine(p) THEN pos ELSE [pos EXCEPT ![p] = input.first[LineAt(@) + 1]]
  BY DEF FindFirstLine
<1>2. UNCHANGED runVars
  BY <1>1
<1>3. input.first[LineAt(pos[p]) + 1] \in Nat
  <2>1. input.probed /\ pos[p] = Start(p) /\ Start(p) \in Nat
    BY <1>1, Ranges DEF TypeInv, Begun
  <2>2. Start(p) < input.first[LineCount + 1]
    BY <2>1, LinesWithText, Ranges DEF TypeInv
  <2>3. LineAt(pos[p]) \in 1 .. LineCount /\ LineCount \in Nat
    BY <2>1, <2>2, LineOfByte, RunIs DEF TypeInv, Given
  <2>4. LineAt(pos[p]) + 1 \in 1 .. LineCount + 1
    BY <2>3
  <2> QED BY <2>4, FirstBytes DEF TypeInv
<1>4. pos' \in [Producers -> Nat] /\ \A q \in Producers : q # p => pos'[q] = pos[q]
  BY <1>1, <1>3 DEF TypeInv, ThreadsOK
<1>5. \E l \in {"failText", "done", "read"} : ppc' = [ppc EXCEPT ![p] = l]
  BY <1>1 DEF ProducerGoto
<1>6. ThreadsOK' /\ ParkedOK'
  BY <1>1, <1>2, <1>4, <1>5, RunStays DEF TypeInv, ThreadsOK, ParkedOK, ProducerPlaces, consumerVars, bufferVars
<1>7. BufferOK' /\ CountersOK' /\ MainOK'
  BY <1>1, <1>2, RunStays DEF TypeInv, BufferOK, CountersOK, MainOK, bufferVars, contextVars, mainVars
<1>8. Begun'
  BY <1>1, <1>2, <1>4, <1>5, RunStays DEF TypeInv, ThreadsOK, Begun, consumerVars, bufferVars, mainVars
<1> QED BY <1>2, <1>6, <1>7, <1>8, RunStays DEF TypeInv

\* A producer reads a line.
LEMMA ReadLineType ==
    ASSUME TypeInv, NEW p \in Producers, ReadLine(p) PROVE TypeInv'
<1> DEFINE i == LineAt(pos[p])
<1>1. /\ UNCHANGED <<runVars, consumerVars, bufferVars, contextVars, mainVars>>
      /\ ppc[p] = "read" /\ pos[p] < End(p)
      /\ block' = IF i \in Records THEN [block EXCEPT ![p] = Append(@, i)] ELSE block
      /\ pos' = IF Refused(i) THEN pos ELSE [pos EXCEPT ![p] = @ + lines[i].len + 1]
      /\ \E l \in {"failText", "push", "read"} : ppc' = [ppc EXCEPT ![p] = l]
  <2> DEFINE l == CASE Refused(i) -> "failText"
                    [] i \in Records /\ Len(block'[p]) >= run.block -> "push"
                    [] OTHER -> "read"
  <2>1. ppc' = [ppc EXCEPT ![p] = l]
    BY DEF ReadLine, ProducerGoto
  <2>2. l \in {"failText", "push", "read"}
    OBVIOUS
  <2> HIDE DEF l
  <2>3. \E m \in {"failText", "push", "read"} : ppc' = [ppc EXCEPT ![p] = m]
    BY <2>1, <2>2
  <2> QED BY <2>3 DEF ReadLine, RangeRead
<1>2. UNCHANGED runVars
  BY <1>1
<1>3. pos[p] \in Nat /\ lines[i].len \in Nat
  BY <1>1, NextLine DEF TypeInv, ThreadsOK
<1> HIDE DEF i
<1>4. pos' \in [Producers -> Nat] /\ block' \in [Producers -> Seq(Records)]
      /\ \A q \in Producers : q # p => pos'[q] = pos[q]
  BY <1>1, <1>3 DEF TypeInv, ThreadsOK
<1>5. ThreadsOK' /\ ParkedOK'
  BY <1>1, <1>2, <1>4, RunStays DEF TypeInv, ThreadsOK, ParkedOK, ProducerPlaces, consumerVars, bufferVars
<1>6. BufferOK' /\ CountersOK' /\ MainOK'
  BY <1>1, <1>2, RunStays DEF TypeInv, BufferOK, CountersOK, MainOK, bufferVars, contextVars, mainVars
<1>7. Begun'
  BY <1>1, <1>2, <1>4, RunStays DEF TypeInv, ThreadsOK, Begun, consumerVars, bufferVars, mainVars
<1> QED BY <1>2, <1>5, <1>6, <1>7, RunStays DEF TypeInv

\* A producer comes to the end of its range.
LEMMA EndOfRangeType ==
    ASSUME TypeInv, NEW p \in Producers, EndOfRange(p) PROVE TypeInv'
<1>1. /\ UNCHANGED <<runVars, pos, block, consumerVars, bufferVars, tally, consumed, failed, errorText, mainVars>>
      /\ ppc[p] = "read"
      /\ produced' \in {produced, produced + Cardinality(RecordsRead(p))}
      /\ \E l \in {"push", "done"} : ppc' = [ppc EXCEPT ![p] = l]
  BY DEF EndOfRange, ProducerGoto
<1>2. UNCHANGED runVars
  BY <1>1
<1>3. Cardinality(RecordsRead(p)) \in Nat
  <2>1. IsFiniteSet(RecordsRead(p))
    BY LinesWithText, FS_Subset DEF TypeInv, RecordsRead
  <2> QED BY <2>1, FS_CardinalityType
<1>4. ThreadsOK' /\ ParkedOK'
  BY <1>1, <1>2, RunStays DEF TypeInv, ThreadsOK, ParkedOK, ProducerPlaces, consumerVars, bufferVars
<1>5. BufferOK' /\ CountersOK' /\ MainOK'
  BY <1>1, <1>2, <1>3, RunStays DEF TypeInv, BufferOK, CountersOK, MainOK, bufferVars, mainVars
<1>6. Begun'
  BY <1>1, <1>2, RunStays DEF TypeInv, ThreadsOK, Begun, consumerVars, bufferVars, mainVars
<1> QED BY <1>2, <1>4, <1>5, <1>6, RunStays DEF TypeInv

\* What a push does
LEMMA PushIs ==
    ASSUME TypeInv, NEW p \in Producers, Push(p)
    PROVE  /\ UNCHANGED <<runVars, pos, consumerVars, closed, stopped, notEmpty, popped, contextVars, mainVars>>
           /\ ppc[p] = "push"
           /\ \/ /\ stopped /\ ppc' = [ppc EXCEPT ![p] = "done"]
                 /\ UNCHANGED <<block, queue, pushed, maxDepth, notFull>>
              \/ /\ ~stopped /\ Len(queue) >= Capacity
                 /\ notFull' = notFull \union {p} /\ ppc' = [ppc EXCEPT ![p] = "waiting"]
                 /\ UNCHANGED <<block, queue, pushed, maxDepth>>
              \/ /\ ~stopped /\ Len(queue) < Capacity
                 /\ queue' = Append(queue, block[p]) /\ block' = [block EXCEPT ![p] = <<>>]
                 /\ pushed' = pushed + 1 /\ maxDepth' \in {maxDepth, Len(queue) + 1}
                 /\ ppc' = [ppc EXCEPT ![p] = "notify"]
                 /\ UNCHANGED notFull
<1>1. queue \in Seq(Seq(Records)) /\ block[p] \in Seq(Records) /\ Capacity \in Nat
  BY CapacityIs DEF TypeInv, BufferOK, ThreadsOK
<1>2. Len(queue) \in Nat /\ Len(Append(queue, block[p])) = Len(queue) + 1
  BY <1>1
<1>3. Full <=> ~(Len(queue) < Capacity)
  BY <1>1, <1>2 DEF Full
<1>4. Full <=> Len(queue) >= Capacity
  BY DEF Full
<1> QED BY <1>2, <1>3, <1>4 DEF Push, ProducerGoto

\* A producer pushes its block, or parks or leaves.
LEMMA PushType ==
    ASSUME TypeInv, NEW p \in Producers, Push(p) PROVE TypeInv'
<1>1. /\ UNCHANGED <<runVars, pos, consumerVars, closed, stopped, notEmpty, popped, contextVars, mainVars>>
      /\ ppc[p] = "push"
      /\ \E l \in {"done", "waiting", "notify"} : ppc' = [ppc EXCEPT ![p] = l]
  BY PushIs
<1>2. UNCHANGED runVars /\ Given'
  BY <1>1, RunStays DEF TypeInv
<1>3. ThreadsOK'
  <2>1. block' = block \/ block' = [block EXCEPT ![p] = <<>>]
    BY PushIs
  <2>2. block' \in [Producers -> Seq(Records)]
    <3>1. block \in [Producers -> Seq(Records)] /\ <<>> \in Seq(Records)
      BY DEF TypeInv, ThreadsOK
    <3> QED BY <2>1, <3>1, Zenon
  <2> QED BY <1>1, <1>2, <2>2, RunStays DEF TypeInv, ThreadsOK, ProducerPlaces, consumerVars
<1>4. ParkedOK'
  BY <1>1, PushIs DEF TypeInv, ThreadsOK, ParkedOK, consumerVars
<1>5. BufferOK'
  <2>1. Capacity \in Nat /\ Len(queue) \in Nat /\ Capacity' = Capacity /\ Records' = Records
    BY <1>2, CapacityIs, RunStays DEF TypeInv, BufferOK
  <2>2. queue' \in Seq(Seq(Records))
    <3>1. queue' = queue \/ queue' = Append(queue, block[p])
      BY PushIs
    <3>2. queue \in Seq(Seq(Records)) /\ block[p] \in Seq(Records)
      BY DEF TypeInv, BufferOK, ThreadsOK
    <3> QED BY <3>1, <3>2
  <2>3. pushed' \in Nat /\ maxDepth' \in 0 .. Capacity
    BY <2>1, PushIs DEF TypeInv, BufferOK
  <2> QED BY <1>1, <2>1, <2>2, <2>3 DEF TypeInv, BufferOK
<1>6. CountersOK' /\ MainOK'
  BY <1>1, <1>2, RunStays DEF TypeInv, CountersOK, MainOK, contextVars, mainVars
<1>7. Begun'
  BY <1>1, <1>2, RunStays DEF TypeInv, ThreadsOK, Begun, consumerVars, mainVars
<1> QED BY <1>2, <1>3, <1>4, <1>5, <1>6, <1>7 DEF TypeInv

\* A producer tells a consumer of a block.
LEMMA NotifyNotEmptyType ==
    ASSUME TypeInv, NEW p \in Producers, NotifyNotEmpty(p) PROVE TypeInv'
<1>1. /\ UNCHANGED <<runVars, pos, block, hand, next, queue, closed, stopped, notFull, pushed, popped,
                     maxDepth, contextVars, mainVars>>
      /\ ppc[p] = "notify" /\ ppc' = [ppc EXCEPT ![p] = "read"]
      /\ \/ UNCHANGED <<notEmpty, cpc>>
         \/ \E c \in notEmpty : notEmpty' = notEmpty \ {c} /\ cpc' = [cpc EXCEPT ![c] = "pop"]
  BY DEF NotifyNotEmpty, ProducerGoto, ConsumerGoto, WakeConsumer
<1>2. UNCHANGED runVars
  BY <1>1
<1>3. ThreadsOK' /\ ParkedOK'
  BY <1>1, <1>2, RunStays DEF TypeInv, ThreadsOK, ParkedOK, ProducerPlaces, ConsumerPlaces
<1>4. BufferOK' /\ CountersOK' /\ MainOK'
  BY <1>1, <1>2, RunStays DEF TypeInv, BufferOK, CountersOK, MainOK, contextVars, mainVars
<1>5. Begun'
  BY <1>1, <1>2, RunStays DEF TypeInv, ThreadsOK, Begun, mainVars
<1> QED BY <1>2, <1>3, <1>4, <1>5, RunStays DEF TypeInv

\* A producer fails: text, flag, stopped_.
LEMMA FailType ==
    ASSUME TypeInv, NEW p \in Producers, FailText(p) \/ FailFlag(p) \/ Stop(p) PROVE TypeInv'
<1>1. /\ UNCHANGED <<runVars, pos, block, consumerVars, queue, closed, notFull, notEmpty, pushed, popped,
                     maxDepth, tally, produced, consumed, mainVars>>
      /\ ppc[p] \in {"failText", "failFlag", "stop"}
      /\ \E l \in {"failFlag", "stop", "stopNotEmpty"} : ppc' = [ppc EXCEPT ![p] = l]
      /\ stopped' \in {stopped, TRUE} /\ failed' \in {failed, TRUE}
      /\ errorText' \in {errorText, Message(p)}
  BY DEF FailText, FailFlag, Stop, ProducerGoto, bufferVars, contextVars
<1>2. UNCHANGED runVars
  BY <1>1
<1>3. Message(p) \in Seq(Nat)
  BY Numbered DEF Message, TypeInv, ThreadsOK
<1>4. ThreadsOK' /\ ParkedOK'
  BY <1>1, <1>2, RunStays DEF TypeInv, ThreadsOK, ParkedOK, ProducerPlaces, consumerVars
<1>5. BufferOK' /\ CountersOK' /\ MainOK'
  <2>1. BufferOK' /\ CountersOK'
    BY <1>1, <1>2, RunStays DEF TypeInv, BufferOK, CountersOK, mainVars
  <2>2. MainOK'
    BY <1>1, <1>3 DEF TypeInv, MainOK, mainVars
  <2> QED BY <2>1, <2>2
<1>6. Begun'
  BY <1>1, <1>2, RunStays DEF TypeInv, ThreadsOK, Begun, consumerVars, mainVars
<1> QED BY <1>2, <1>4, <1>5, <1>6, RunStays DEF TypeInv

\* A producer wakes everyone it has stopped.
LEMMA StopNotEmptyType ==
    ASSUME TypeInv, NEW p \in Producers, StopNotEmpty(p) PROVE TypeInv'
<1>1. /\ UNCHANGED <<runVars, pos, block, hand, next, queue, closed, stopped, notFull, pushed, popped,
                     maxDepth, contextVars, mainVars>>
      /\ ppc[p] = "stopNotEmpty" /\ ppc' = [ppc EXCEPT ![p] = "stopNotFull"]
      /\ cpc' = [c \in Consumers |-> IF c \in notEmpty THEN "pop" ELSE cpc[c]] /\ notEmpty' = {}
  BY DEF StopNotEmpty, ProducerGoto, WakeConsumers
<1>2. UNCHANGED runVars
  BY <1>1
<1>3. ThreadsOK' /\ ParkedOK'
  BY <1>1, <1>2, RunStays DEF TypeInv, ThreadsOK, ParkedOK, ProducerPlaces, ConsumerPlaces
<1>4. BufferOK' /\ CountersOK' /\ MainOK'
  BY <1>1, <1>2, RunStays DEF TypeInv, BufferOK, CountersOK, MainOK, contextVars, mainVars
<1>5. Begun'
  BY <1>1, <1>2, RunStays DEF TypeInv, ThreadsOK, Begun, mainVars
<1> QED BY <1>2, <1>3, <1>4, <1>5, RunStays DEF TypeInv

\* A failing producer wakes the producers.
LEMMA StopNotFullType ==
    ASSUME TypeInv, NEW p \in Producers, StopNotFull(p) PROVE TypeInv'
<1>1. /\ UNCHANGED <<runVars, pos, block, consumerVars, queue, closed, stopped, notEmpty, pushed, popped,
                     maxDepth, contextVars, mainVars>>
      /\ ppc[p] = "stopNotFull" /\ notFull' = {}
      /\ ppc' = [q \in Producers |-> CASE q = p -> "done" [] q \in notFull -> "push" [] OTHER -> ppc[q]]
  BY DEF StopNotFull
<1>2. UNCHANGED runVars
  BY <1>1
<1>3. \A q \in Producers : ppc'[q] = IF q = p THEN "done" ELSE IF q \in notFull THEN "push" ELSE ppc[q]
  <2>1. p \notin notFull
    BY <1>1 DEF TypeInv, ParkedOK
  <2> QED BY <1>1, <2>1
<1>4. ThreadsOK' /\ ParkedOK'
  BY <1>1, <1>2, <1>3, RunStays DEF TypeInv, ThreadsOK, ParkedOK, ProducerPlaces, consumerVars
<1>5. BufferOK' /\ CountersOK' /\ MainOK'
  BY <1>1, <1>2, RunStays DEF TypeInv, BufferOK, CountersOK, MainOK, contextVars, mainVars
<1>6. Begun'
  BY <1>1, <1>2, <1>3, RunStays DEF TypeInv, ThreadsOK, ParkedOK, Begun, consumerVars, mainVars
<1> QED BY <1>2, <1>4, <1>5, <1>6, RunStays DEF TypeInv

\* What a pop does
LEMMA PopIs ==
    ASSUME TypeInv, NEW c \in Consumers, Pop(c)
    PROVE  /\ UNCHANGED <<runVars, producerVars, closed, stopped, notFull, pushed, maxDepth, contextVars, mainVars>>
           /\ cpc[c] = "pop"
           /\ \/ /\ stopped \/ (queue = <<>> /\ closed)
                 /\ cpc' = [cpc EXCEPT ![c] = "done"]
                 /\ UNCHANGED <<hand, next, queue, popped, notEmpty>>
              \/ /\ ~stopped /\ ~closed /\ queue = <<>>
                 /\ notEmpty' = notEmpty \union {c} /\ cpc' = [cpc EXCEPT ![c] = "waiting"]
                 /\ UNCHANGED <<hand, next, queue, popped>>
              \/ /\ ~stopped /\ queue # <<>>
                 /\ hand' = [hand EXCEPT ![c] = Head(queue)] /\ next' = [next EXCEPT ![c] = 1]
                 /\ queue' = Tail(queue) /\ popped' = popped + 1
                 /\ cpc' = [cpc EXCEPT ![c] = "notify"]
                 /\ UNCHANGED notEmpty
BY DEF Pop, Drained, ConsumerGoto

\* A consumer takes a block, or parks or leaves.
LEMMA PopType ==
    ASSUME TypeInv, NEW c \in Consumers, Pop(c) PROVE TypeInv'
<1>1. /\ UNCHANGED <<runVars, producerVars, closed, stopped, notFull, pushed, maxDepth, contextVars, mainVars>>
      /\ cpc[c] = "pop"
      /\ \E l \in {"done", "waiting", "notify"} : cpc' = [cpc EXCEPT ![c] = l]
  BY PopIs
<1>2. UNCHANGED runVars /\ Given' /\ Records' = Records /\ Capacity' = Capacity
  BY <1>1, RunStays DEF TypeInv
<1>3. /\ hand \in [Consumers -> Seq(Records)] /\ next \in [Consumers -> Nat \ {0}]
      /\ queue \in Seq(Seq(Records)) /\ popped \in Nat
  BY DEF TypeInv, ThreadsOK, BufferOK
<1>4. queue # <<>> => Head(queue) \in Seq(Records) /\ Tail(queue) \in Seq(Seq(Records))
  BY <1>3
<1>5. hand' \in [Consumers -> Seq(Records)] /\ next' \in [Consumers -> Nat \ {0}]
      /\ queue' \in Seq(Seq(Records)) /\ popped' \in Nat
  <2>1. CASE UNCHANGED <<hand, next, queue, popped>>
    BY <1>3, <2>1
  <2>2. CASE /\ queue # <<>>
             /\ hand' = [hand EXCEPT ![c] = Head(queue)] /\ next' = [next EXCEPT ![c] = 1]
             /\ queue' = Tail(queue) /\ popped' = popped + 1
    BY <1>3, <1>4, <2>2
  <2> QED BY <2>1, <2>2, PopIs
<1>6. ThreadsOK'
  BY <1>1, <1>2, <1>5 DEF TypeInv, ThreadsOK, ConsumerPlaces, producerVars
<1>7. ParkedOK'
  BY <1>1, PopIs DEF TypeInv, ThreadsOK, ParkedOK, producerVars
<1>8. BufferOK' /\ CountersOK' /\ MainOK'
  BY <1>1, <1>2, <1>5, RunStays DEF TypeInv, BufferOK, CountersOK, MainOK, contextVars, mainVars
<1>9. Begun'
  BY <1>1, <1>2, RunStays DEF TypeInv, ThreadsOK, Begun, producerVars, mainVars
<1> QED BY <1>2, <1>6, <1>7, <1>8, <1>9 DEF TypeInv

\* A consumer tells a producer of a free slot.
LEMMA NotifyNotFullType ==
    ASSUME TypeInv, NEW c \in Consumers, NotifyNotFull(c) PROVE TypeInv'
<1>1. /\ UNCHANGED <<runVars, pos, block, hand, next, queue, closed, stopped, notEmpty, pushed, popped,
                     maxDepth, contextVars, mainVars>>
      /\ cpc[c] = "notify" /\ cpc' = [cpc EXCEPT ![c] = "apply"]
      /\ \/ UNCHANGED <<notFull, ppc>>
         \/ \E p \in notFull : notFull' = notFull \ {p} /\ ppc' = [ppc EXCEPT ![p] = "push"]
  BY DEF NotifyNotFull, ProducerGoto, ConsumerGoto, WakeProducer
<1>2. UNCHANGED runVars
  BY <1>1
<1>3. ThreadsOK' /\ ParkedOK'
  BY <1>1, <1>2, RunStays DEF TypeInv, ThreadsOK, ParkedOK, ProducerPlaces, ConsumerPlaces
<1>4. BufferOK' /\ CountersOK' /\ MainOK'
  BY <1>1, <1>2, RunStays DEF TypeInv, BufferOK, CountersOK, MainOK, contextVars, mainVars
<1>5. Begun'
  BY <1>1, <1>2, RunStays DEF TypeInv, ThreadsOK, ParkedOK, Begun, mainVars
<1> QED BY <1>2, <1>3, <1>4, <1>5, RunStays DEF TypeInv

\* A consumer counts in one of the arrays.
LEMMA SlotIsOne ==
    ASSUME NEW c \in Consumers
    PROVE  SlotOf(c) \in Slots
BY DEF SlotOf, Slots

\* A consumer counts one record of its block.
LEMMA ApplyRecordType ==
    ASSUME TypeInv, NEW c \in Consumers, ApplyRecord(c) PROVE TypeInv'
<1> DEFINE s == SlotOf(c)
           r == hand[c][next[c]]
<1>1. /\ UNCHANGED <<runVars, producerVars, cpc, hand, bufferVars, produced, consumed, failed, errorText, mainVars>>
      /\ cpc[c] = "apply" /\ next[c] <= Len(hand[c])
      /\ tally' = [tally EXCEPT ![s][r] = @ + 1] /\ next' = [next EXCEPT ![c] = @ + 1]
  BY DEF ApplyRecord
<1>2. UNCHANGED runVars
  BY <1>1
<1>3. r \in Records /\ s \in Slots
  <2>1. hand[c] \in Seq(Records) /\ next[c] \in Nat /\ next[c] # 0
    BY DEF TypeInv, ThreadsOK
  <2> QED BY <1>1, <2>1, SlotIsOne
<1> HIDE DEF s, r
<1>4. tally' \in [Slots -> [Records -> Nat]]
  BY <1>1, <1>3 DEF TypeInv, CountersOK
<1>5. next' \in [Consumers -> Nat \ {0}]
  BY <1>1 DEF TypeInv, ThreadsOK
<1>6. ThreadsOK' /\ ParkedOK'
  BY <1>1, <1>2, <1>5, RunStays DEF TypeInv, ThreadsOK, ParkedOK, producerVars, bufferVars
<1>7. BufferOK' /\ CountersOK' /\ MainOK'
  BY <1>1, <1>2, <1>4, RunStays DEF TypeInv, BufferOK, CountersOK, MainOK, bufferVars, mainVars
<1>8. Begun'
  BY <1>1, <1>2, RunStays DEF TypeInv, Begun, producerVars, bufferVars, mainVars
<1> QED BY <1>2, <1>6, <1>7, <1>8, RunStays DEF TypeInv

\* A consumer is done with a block.
LEMMA EndOfBlockType ==
    ASSUME TypeInv, NEW c \in Consumers, EndOfBlock(c) PROVE TypeInv'
<1>1. /\ UNCHANGED <<runVars, producerVars, bufferVars, tally, produced, failed, errorText, mainVars>>
      /\ cpc[c] = "apply" /\ cpc' = [cpc EXCEPT ![c] = "pop"]
      /\ hand' = [hand EXCEPT ![c] = <<>>] /\ next' = [next EXCEPT ![c] = 1]
      /\ consumed' = consumed + Len(hand[c])
  BY DEF EndOfBlock, ConsumerGoto
<1>2. UNCHANGED runVars
  BY <1>1
<1>3. hand' \in [Consumers -> Seq(Records)] /\ next' \in [Consumers -> Nat \ {0}] /\ consumed' \in Nat
  <2>1. hand \in [Consumers -> Seq(Records)] /\ next \in [Consumers -> Nat \ {0}]
        /\ consumed \in Nat /\ <<>> \in Seq(Records) /\ 1 \in Nat \ {0}
    BY DEF TypeInv, ThreadsOK, CountersOK
  <2>2. Len(hand[c]) \in Nat
    BY <2>1
  <2>3. hand' \in [Consumers -> Seq(Records)] /\ next' \in [Consumers -> Nat \ {0}]
    BY <1>1, <2>1, Zenon
  <2> QED BY <1>1, <2>1, <2>2, <2>3
<1>4. ThreadsOK' /\ ParkedOK'
  BY <1>1, <1>2, <1>3, RunStays DEF TypeInv, ThreadsOK, ParkedOK, ConsumerPlaces, producerVars, bufferVars
<1>5. BufferOK' /\ CountersOK' /\ MainOK'
  BY <1>1, <1>2, <1>3, RunStays DEF TypeInv, BufferOK, CountersOK, MainOK, bufferVars, mainVars
<1>6. Begun'
  BY <1>1, <1>2, RunStays DEF TypeInv, ThreadsOK, Begun, producerVars, bufferVars, mainVars
<1> QED BY <1>2, <1>4, <1>5, <1>6, RunStays DEF TypeInv

\* A wait ends with no notification.
LEMMA SpuriousType ==
    ASSUME TypeInv, Spurious PROVE TypeInv'
<1>1. /\ UNCHANGED <<runVars, pos, block, hand, next, queue, closed, stopped, pushed, popped, maxDepth,
                     contextVars, mainVars>>
      /\ \/ /\ UNCHANGED <<notEmpty, cpc>>
            /\ \E p \in notFull : notFull' = notFull \ {p} /\ ppc' = [ppc EXCEPT ![p] = "push"]
         \/ /\ UNCHANGED <<notFull, ppc>>
            /\ \E c \in notEmpty : notEmpty' = notEmpty \ {c} /\ cpc' = [cpc EXCEPT ![c] = "pop"]
  BY DEF Spurious, SpuriousWakeup, ProducerGoto, ConsumerGoto
<1>2. UNCHANGED runVars
  BY <1>1
<1>3. ThreadsOK' /\ ParkedOK'
  BY <1>1, <1>2, RunStays DEF TypeInv, ThreadsOK, ParkedOK, ProducerPlaces, ConsumerPlaces
<1>4. BufferOK' /\ CountersOK' /\ MainOK'
  BY <1>1, <1>2, RunStays DEF TypeInv, BufferOK, CountersOK, MainOK, contextVars, mainVars
<1>5. Begun'
  BY <1>1, <1>2, RunStays DEF TypeInv, ThreadsOK, ParkedOK, Begun, mainVars
<1> QED BY <1>2, <1>3, <1>4, <1>5, RunStays DEF TypeInv

\* main gives up, starts the threads or the count, ends the count.
LEMMA MainStartsType ==
    ASSUME TypeInv, Reject \/ StartThreads \/ StartSequential \/ ReportSequential PROVE TypeInv'
<1>1. /\ UNCHANGED <<runVars, pos, block, hand, next, bufferVars, contextVars, counted>>
      /\ \/ UNCHANGED <<ppc, cpc>>
         \/ /\ ppc' = [p \in Producers |-> "open"] /\ cpc' = [c \in Consumers |-> "pop"]
            /\ mpc = "start" /\ input.probed
      /\ mpc \in {"start", "count"} /\ mpc' \in {"exit", "joinProducers", "count"}
      /\ mpc' = "count" => run.mode = "seq"
      /\ watching' \in {watching, run.progress} /\ outcome' \in {outcome, "aborted", "reported"}
  BY DEF Reject, StartThreads, StartSequential, ReportSequential, producerVars, consumerVars
<1>2. UNCHANGED runVars
  BY <1>1
<1>3. run.progress \in BOOLEAN
  BY RunIs DEF TypeInv, Given
<1>4. ~closed
  BY <1>1 DEF TypeInv, Begun
<1>5. ThreadsOK' /\ ParkedOK'
  BY <1>1, <1>2, RunStays DEF TypeInv, ThreadsOK, ParkedOK, ProducerPlaces, ConsumerPlaces, Begun, bufferVars
<1>6. BufferOK' /\ CountersOK' /\ MainOK'
  BY <1>1, <1>2, <1>3, RunStays DEF TypeInv, BufferOK, CountersOK, MainOK, contextVars, bufferVars
<1>7. Begun'
  BY <1>1, <1>2, <1>4, RunStays DEF TypeInv, ThreadsOK, Begun, bufferVars
<1> QED BY <1>2, <1>5, <1>6, <1>7, RunStays DEF TypeInv

\* main counts a line.
LEMMA CountLineType ==
    ASSUME TypeInv, CountLine PROVE TypeInv'
<1> DEFINE i == counted + 1
<1>1. /\ UNCHANGED <<runVars, producerVars, consumerVars, bufferVars, produced, consumed, failed, errorText, watching>>
      /\ mpc = "count" /\ mpc' \in {"count", "exit"}
      /\ counted # Len(lines) /\ counted' \in {counted, i} /\ outcome' \in {outcome, "aborted"}
      /\ \/ tally' = tally
         \/ i \in Records /\ tally' = [tally EXCEPT !["global"][i] = @ + 1]
  BY DEF CountLine, FileRead
<1>2. UNCHANGED runVars
  BY <1>1
<1>3. counted \in 0 .. Len(lines) /\ Len(lines) \in Nat /\ Slots = {"global"}
  <2>1. counted \in 0 .. Len(lines) /\ run \in Runs
    BY DEF TypeInv, CountersOK, Given
  <2>2. Len(lines) \in Nat
    BY <2>1, RunIs DEF LineCount
  <2>3. Slots = {"global"}
    BY <1>1 DEF TypeInv, Begun, Slots
  <2> QED BY <2>1, <2>2, <2>3
<1>4. tally' \in [Slots -> [Records -> Nat]]
  <2> HIDE DEF i
  <2> QED BY <1>1, <1>3 DEF TypeInv, CountersOK
<1>5. ThreadsOK' /\ ParkedOK'
  BY <1>1, <1>2, RunStays DEF TypeInv, ThreadsOK, ParkedOK, producerVars, consumerVars, bufferVars
<1>6. BufferOK' /\ CountersOK' /\ MainOK'
  BY <1>1, <1>2, <1>3, <1>4, RunStays DEF TypeInv, BufferOK, CountersOK, MainOK, bufferVars
<1>7. Begun'
  BY <1>1, <1>2, RunStays DEF TypeInv, Begun, producerVars, consumerVars, bufferVars
<1> QED BY <1>2, <1>5, <1>6, <1>7, RunStays DEF TypeInv

\* main joins and ends.
LEMMA MainEndsType ==
    ASSUME TypeInv, Close \/ CloseNotify \/ JoinConsumers \/ Monitor \/ Finish PROVE TypeInv'
<1>1. /\ UNCHANGED <<runVars, producerVars, hand, next, queue, stopped, notFull, pushed, popped, maxDepth,
                     contextVars, counted>>
      /\ \/ UNCHANGED <<notEmpty, cpc>>
         \/ cpc' = [c \in Consumers |-> IF c \in notEmpty THEN "pop" ELSE cpc[c]] /\ notEmpty' = {}
      /\ mpc \in {"joinProducers", "notify", "joinConsumers", "joinMonitor"}
      /\ mpc' \in {"notify", "joinConsumers", "joinMonitor", "exit"}
      /\ closed' \in {closed, TRUE} /\ watching' \in {watching, FALSE}
      /\ outcome' \in {outcome, "aborted", "reported"}
  BY DEF Close, CloseNotify, JoinConsumers, Monitor, Finish, WakeConsumers, consumerVars, bufferVars
<1>2. UNCHANGED runVars
  BY <1>1
<1>3. ThreadsOK' /\ ParkedOK'
  BY <1>1, <1>2, RunStays DEF TypeInv, ThreadsOK, ParkedOK, ConsumerPlaces, producerVars
<1>4. BufferOK' /\ CountersOK' /\ MainOK'
  BY <1>1, <1>2, RunStays DEF TypeInv, BufferOK, CountersOK, MainOK, contextVars
<1>5. Begun'
  BY <1>1, <1>2, RunStays DEF TypeInv, ThreadsOK, ParkedOK, Begun, producerVars
<1> QED BY <1>2, <1>3, <1>4, <1>5, RunStays DEF TypeInv

\* The initial state has these types.
LEMMA InitType ==
    ASSUME Init PROVE TypeInv
<1>1. Given
  BY DEF Init, Given
<1>2. /\ \A p \in Producers : Start(p) \in Nat
      /\ Capacity \in Nat \ {0} /\ Len(lines) \in Nat
  BY <1>1, Ranges, CapacityIs, RunIs DEF LineCount, Given
<1>3. ThreadsOK /\ ParkedOK
  BY <1>2 DEF Init, ThreadsOK, ParkedOK, ProducerPlaces, ConsumerPlaces
<1>4. BufferOK /\ CountersOK
  <2>1. <<>> \in Seq(Seq(Records)) /\ queue = <<>>
    BY DEF Init
  <2>2. queue \in Seq(Seq(Records))
    BY <2>1, Zenon
  <2>3. /\ closed = FALSE /\ stopped = FALSE /\ pushed = 0 /\ popped = 0 /\ maxDepth = 0
        /\ tally = [s \in Slots |-> [r \in Records |-> 0]]
        /\ produced = 0 /\ consumed = 0 /\ counted = 0
    BY DEF Init
  <2>4. BufferOK
    <3>1. closed \in BOOLEAN /\ stopped \in BOOLEAN
      BY <2>3, Zenon
    <3>2. maxDepth = 0 /\ pushed = 0 /\ popped = 0
      BY <2>3
    <3>3. maxDepth \in 0 .. Capacity /\ pushed \in Nat /\ popped \in Nat
      BY <1>2, <3>2
    <3> QED BY <2>2, <3>1, <3>3, Zenon DEF BufferOK
  <2>5. CountersOK
    <3>1. tally \in [Slots -> [Records -> Nat]]
      BY <2>3
    <3> QED BY <1>2, <2>3, <3>1 DEF CountersOK
  <2> QED BY <2>4, <2>5
<1>5. MainOK
  <2>1. <<>> \in Seq(Nat) /\ errorText = <<>>
    BY DEF Init, NoError
  <2>2. errorText \in Seq(Nat)
    BY <2>1, Zenon
  <2>3. failed = FALSE /\ watching = FALSE /\ mpc = "start" /\ outcome = "running"
    BY DEF Init
  <2> QED BY <2>2, <2>3 DEF MainOK
<1>6. Begun
  BY DEF Init, Begun
<1> QED BY <1>1, <1>3, <1>4, <1>5, <1>6 DEF TypeInv

\* Every step keeps them.
LEMMA StepType ==
    ASSUME TypeInv, [Next]_vars PROVE TypeInv'
<1>1. ASSUME NEW p \in Producers, Producer(p) PROVE TypeInv'
  BY <1>1, FindFirstLineType, ReadLineType, EndOfRangeType, PushType, NotifyNotEmptyType, FailType,
     StopNotEmptyType, StopNotFullType DEF Producer
<1>2. ASSUME NEW c \in Consumers, Consumer(c) PROVE TypeInv'
  BY <1>2, PopType, NotifyNotFullType, ApplyRecordType, EndOfBlockType DEF Consumer
<1>3. CASE Main \/ Monitor \/ Spurious
  BY <1>3, MainStartsType, CountLineType, MainEndsType, SpuriousType DEF Main, Sequential
<1>4. CASE UNCHANGED vars
  <2>1. UNCHANGED <<runVars, producerVars, consumerVars, bufferVars, contextVars, mainVars>>
    BY <1>4 DEF vars
  <2>2. Given' /\ Records' = Records /\ Slots' = Slots /\ Capacity' = Capacity /\ lines' = lines
        /\ run' = run /\ input' = input /\ \A p : Start(p)' = Start(p)
    BY <2>1, RunStays DEF TypeInv
  <2>3. ThreadsOK' /\ ParkedOK' /\ BufferOK' /\ CountersOK' /\ MainOK'
    BY <2>1, <2>2 DEF TypeInv, ThreadsOK, ParkedOK, BufferOK, CountersOK, MainOK, producerVars, consumerVars,
       bufferVars, contextVars, mainVars
  <2>4. Begun'
    BY <2>1, <2>2 DEF TypeInv, Begun, producerVars, consumerVars, bufferVars, mainVars
  <2> QED BY <2>2, <2>3, <2>4 DEF TypeInv
<1> QED BY <1>1, <1>2, <1>3, <1>4 DEF Next, Exited

-----------------------------------------------------------------------------
(* Wake-ups                                                                *)

\* The producers and the consumers at a place
PAt(l) == {p \in Producers : ppc[p] = l}
CAt(l) == {c \in Consumers : cpc[c] = l}

\* The parts of NoLostWakeup
QueueCovered == notEmpty # {} /\ ~stopped => Len(queue) <= Cardinality(PAt("notify")) + Cardinality(CAt("pop"))
SlotsCovered ==
    notFull # {} /\ ~stopped => Capacity - Len(queue) <= Cardinality(CAt("notify")) + Cardinality(PAt("push"))
CloseWakes == notEmpty # {} /\ closed => mpc = "notify"
StopWakes ==
    /\ notEmpty # {} /\ stopped => \E p \in Producers : ppc[p] = "stopNotEmpty"
    /\ notFull # {} /\ stopped => \E p \in Producers : ppc[p] \in {"stopNotEmpty", "stopNotFull"}

WakeInv == QueueCovered /\ SlotsCovered /\ CloseWakes /\ StopWakes

\* The four parts of WakeInv are what NoLostWakeup says.
LEMMA WakeParts == TypeInv /\ WakeInv => NoLostWakeup
<1> SUFFICES ASSUME TypeInv, WakeInv PROVE NoLostWakeup
  OBVIOUS
<1>1. TypeOK
  BY TypeParts DEF TypeInv, Given
<1> QED BY <1>1 DEF WakeInv, QueueCovered, SlotsCovered, CloseWakes, StopWakes, PAt, CAt, NoLostWakeup

\* The threads at a place are finitely many.
LEMMA PlacesAreFinite ==
    ASSUME NEW l
    PROVE  /\ IsFiniteSet(PAt(l)) /\ Cardinality(PAt(l)) \in Nat
           /\ IsFiniteSet(CAt(l)) /\ Cardinality(CAt(l)) \in Nat
<1>1. PAt(l) \subseteq Producers /\ CAt(l) \subseteq Consumers
  BY DEF PAt, CAt
<1>2. IsFiniteSet(PAt(l)) /\ IsFiniteSet(CAt(l))
  BY <1>1, ThreadsAssumption, FS_Subset
<1> QED BY <1>2, FS_CardinalityType

\* One more thread at a place
LEMMA OneMore ==
    ASSUME NEW S, IsFiniteSet(S), NEW T, NEW x, x \notin S, T = S \union {x}
    PROVE  Cardinality(T) = Cardinality(S) + 1
BY FS_AddElement

\* A producer moves.
LEMMA ProducerMoves ==
    ASSUME ThreadsOK, NEW p \in Producers, NEW l, ppc[p] = l, NEW m, m # l, ppc' = [ppc EXCEPT ![p] = m]
    PROVE  /\ Cardinality(PAt(m)') = Cardinality(PAt(m)) + 1
           /\ Cardinality(PAt(l)) = Cardinality(PAt(l)') + 1
           /\ \A k : k # m /\ k # l => PAt(k)' = PAt(k)
<1>1. \A q \in Producers : ppc'[q] = IF q = p THEN m ELSE ppc[q]
  BY DEF ThreadsOK
<1>2. PAt(m)' = PAt(m) \union {p} /\ p \notin PAt(m)
  BY <1>1 DEF PAt
<1>3. PAt(l) = {q \in Producers : ppc'[q] = l} \union {p} /\ p \notin {q \in Producers : ppc'[q] = l}
  BY <1>1 DEF PAt
<1>4. IsFiniteSet({q \in Producers : ppc'[q] = l})
  BY ThreadsAssumption, FS_Subset
<1>5. Cardinality(PAt(l)) = Cardinality({q \in Producers : ppc'[q] = l}) + 1
  BY <1>3, <1>4, OneMore
<1>6. Cardinality(PAt(m)') = Cardinality(PAt(m)) + 1
  BY <1>2, PlacesAreFinite, OneMore
<1>7. \A k : k # m /\ k # l => PAt(k)' = PAt(k)
  BY <1>1 DEF PAt
<1> QED BY <1>5, <1>6, <1>7 DEF PAt

\* A consumer moves.
LEMMA ConsumerMoves ==
    ASSUME ThreadsOK, NEW c \in Consumers, NEW l, cpc[c] = l, NEW m, m # l, cpc' = [cpc EXCEPT ![c] = m]
    PROVE  /\ Cardinality(CAt(m)') = Cardinality(CAt(m)) + 1
           /\ Cardinality(CAt(l)) = Cardinality(CAt(l)') + 1
           /\ \A k : k # m /\ k # l => CAt(k)' = CAt(k)
<1>1. \A d \in Consumers : cpc'[d] = IF d = c THEN m ELSE cpc[d]
  BY DEF ThreadsOK
<1>2. CAt(m)' = CAt(m) \union {c} /\ c \notin CAt(m)
  BY <1>1 DEF CAt
<1>3. CAt(l) = {d \in Consumers : cpc'[d] = l} \union {c} /\ c \notin {d \in Consumers : cpc'[d] = l}
  BY <1>1 DEF CAt
<1>4. IsFiniteSet({d \in Consumers : cpc'[d] = l})
  BY ThreadsAssumption, FS_Subset
<1>5. Cardinality(CAt(l)) = Cardinality({d \in Consumers : cpc'[d] = l}) + 1
  BY <1>3, <1>4, OneMore
<1>6. Cardinality(CAt(m)') = Cardinality(CAt(m)) + 1
  BY <1>2, PlacesAreFinite, OneMore
<1>7. \A k : k # m /\ k # l => CAt(k)' = CAt(k)
  BY <1>1 DEF CAt
<1> QED BY <1>5, <1>6, <1>7 DEF CAt

\* The sizes of places, before and after a step
LEMMA SizesAfter ==
    /\ \A l : Cardinality(PAt(l)) \in Nat /\ Cardinality(CAt(l)) \in Nat
    /\ \A l : Cardinality(PAt(l)') \in Nat /\ Cardinality(CAt(l)') \in Nat
<1>1. \A l : /\ PAt(l)' \subseteq Producers /\ CAt(l)' \subseteq Consumers
             /\ PAt(l) \subseteq Producers /\ CAt(l) \subseteq Consumers
  BY DEF PAt, CAt
<1>2. \A S : S \subseteq Producers \/ S \subseteq Consumers => Cardinality(S) \in Nat
  BY ThreadsAssumption, FS_Subset, FS_CardinalityType
<1> QED BY <1>1, <1>2, Zenon

(* A producer that reads or fails may come to push; who else waits, and    *)
(* what for, stays.                                                        *)
LEMMA QuietKeepsWakes ==
    ASSUME TypeInv, WakeInv, NEW p \in Producers, NEW m \in {"failText", "done", "read", "push", "failFlag", "stop"},
           ppc[p] \in {"open", "read", "failText", "failFlag"}, ppc' = [ppc EXCEPT ![p] = m],
           UNCHANGED <<runVars, cpc, queue, closed, stopped, notFull, notEmpty, mpc>>
    PROVE  WakeInv'
<1>1. \A q \in Producers : ppc'[q] = IF q = p THEN m ELSE ppc[q]
  BY DEF TypeInv, ThreadsOK
<1>2. PAt("notify")' = PAt("notify") /\ CAt("pop")' = CAt("pop") /\ CAt("notify")' = CAt("notify")
  BY <1>1 DEF PAt, CAt
<1>3. Cardinality(PAt("push")) <= Cardinality(PAt("push")')
  <2>1. PAt("push") \subseteq PAt("push")' /\ PAt("push")' \subseteq Producers
    BY <1>1 DEF PAt
  <2>2. IsFiniteSet(PAt("push")')
    BY <2>1, ThreadsAssumption, FS_Subset
  <2> QED BY <2>1, <2>2, FS_Subset
<1>4. Capacity' = Capacity /\ queue' = queue /\ Capacity \in Nat /\ Len(queue) \in Nat
  BY RunStays, CapacityIs DEF TypeInv, BufferOK
<1>5. QueueCovered'
  BY <1>2, <1>4 DEF WakeInv, QueueCovered
<1>6. SlotsCovered'
  <2> SUFFICES ASSUME notFull # {}, ~stopped
               PROVE  Capacity - Len(queue) <= Cardinality(CAt("notify")) + Cardinality(PAt("push")')
    BY <1>2, <1>4 DEF SlotsCovered
  <2>1. Capacity - Len(queue) <= Cardinality(CAt("notify")) + Cardinality(PAt("push"))
    BY DEF WakeInv, SlotsCovered
  <2> QED BY <1>3, <1>4, <2>1, SizesAfter
<1>7. CloseWakes' /\ StopWakes'
  BY <1>1 DEF WakeInv, CloseWakes, StopWakes
<1> QED BY <1>5, <1>6, <1>7 DEF WakeInv

\* A producer that pushes takes a slot, or waits while there is none; one that
\* leaves without pushing is stopped.
LEMMA PushKeepsWakes ==
    ASSUME TypeInv, WakeInv, NEW p \in Producers, Push(p) PROVE WakeInv'
<1>0. "notify" # "push" /\ "waiting" # "push" /\ "notify" # "waiting"
  OBVIOUS
<1>1. /\ UNCHANGED <<cpc, closed, stopped, notEmpty, mpc>>
      /\ ppc[p] = "push" /\ Capacity' = Capacity
  BY PushIs, RunStays DEF consumerVars, mainVars
<1>2. /\ Capacity \in Nat /\ queue \in Seq(Seq(Records)) /\ Len(queue) \in Nat /\ block[p] \in Seq(Records)
      /\ ThreadsOK
  BY CapacityIs DEF TypeInv, BufferOK, ThreadsOK
<1>3. CAt("pop")' = CAt("pop") /\ CAt("notify")' = CAt("notify")
  BY <1>1 DEF CAt
<1>4. \E l \in {"done", "waiting", "notify"} : ppc' = [ppc EXCEPT ![p] = l]
  BY PushIs
<1>5. \A q \in Producers : q # p => ppc'[q] = ppc[q]
  BY <1>2, <1>4 DEF ThreadsOK
<1>6. CloseWakes'
  BY <1>1 DEF WakeInv, CloseWakes
<1>7. StopWakes'
  <2>1. stopped => notFull' = notFull
    BY PushIs
  <2> QED BY <1>1, <1>5, <2>1 DEF WakeInv, StopWakes
<1>8. CASE stopped
  BY <1>1, <1>6, <1>7, <1>8 DEF WakeInv, QueueCovered, SlotsCovered
<1>9. CASE /\ ~stopped /\ Len(queue) >= Capacity /\ ppc' = [ppc EXCEPT ![p] = "waiting"] /\ UNCHANGED queue
  <2>1. PAt("notify")' = PAt("notify")
    BY <1>0, <1>1, <1>2, <1>9, ProducerMoves
  <2>2. QueueCovered'
    BY <1>1, <1>3, <1>9, <2>1 DEF WakeInv, QueueCovered
  <2>3. Capacity - Len(queue) <= Cardinality(CAt("notify")') + Cardinality(PAt("push")')
    BY <1>2, <1>9, SizesAfter
  <2>4. SlotsCovered'
    BY <1>1, <1>9, <2>3 DEF SlotsCovered
  <2> QED BY <1>6, <1>7, <2>2, <2>4 DEF WakeInv
<1>10. CASE /\ ~stopped /\ queue' = Append(queue, block[p]) /\ ppc' = [ppc EXCEPT ![p] = "notify"]
            /\ UNCHANGED notFull
  <2>1. /\ Cardinality(PAt("notify")') = Cardinality(PAt("notify")) + 1
        /\ Cardinality(PAt("push")) = Cardinality(PAt("push")') + 1
    BY <1>0, <1>1, <1>2, <1>10, ProducerMoves
  <2>2. Len(queue') = Len(queue) + 1
    BY <1>2, <1>10
  <2>3. QueueCovered'
    <3> SUFFICES ASSUME notEmpty # {}
                 PROVE  Len(queue') <= Cardinality(PAt("notify")') + Cardinality(CAt("pop"))
      BY <1>1, <1>3, <1>10 DEF QueueCovered
    <3>1. Len(queue) <= Cardinality(PAt("notify")) + Cardinality(CAt("pop"))
      BY <1>10 DEF WakeInv, QueueCovered
    <3> QED BY <1>2, <2>1, <2>2, <3>1, SizesAfter
  <2>4. SlotsCovered'
    <3> SUFFICES ASSUME notFull # {}
                 PROVE  Capacity - Len(queue') <= Cardinality(CAt("notify")) + Cardinality(PAt("push")')
      BY <1>1, <1>3, <1>10 DEF SlotsCovered
    <3>1. Capacity - Len(queue) <= Cardinality(CAt("notify")) + Cardinality(PAt("push"))
      BY <1>10 DEF WakeInv, SlotsCovered
    <3> QED BY <1>2, <2>1, <2>2, <3>1, SizesAfter
  <2> QED BY <1>6, <1>7, <2>3, <2>4 DEF WakeInv
<1> QED BY <1>8, <1>9, <1>10, PushIs

\* A consumer that pops takes a block, or waits while there is none; one that
\* leaves without a block is stopped, or nothing is left.
LEMMA PopKeepsWakes ==
    ASSUME TypeInv, WakeInv, NEW c \in Consumers, Pop(c) PROVE WakeInv'
<1>0. "notify" # "pop"
  OBVIOUS
<1>1. /\ UNCHANGED <<ppc, closed, stopped, notFull, mpc>>
      /\ cpc[c] = "pop" /\ Capacity' = Capacity
  BY PopIs, RunStays DEF producerVars, mainVars
<1>2. /\ Capacity \in Nat /\ queue \in Seq(Seq(Records)) /\ Len(queue) \in Nat /\ ThreadsOK
  BY CapacityIs DEF TypeInv, BufferOK
<1>3. PAt("push")' = PAt("push") /\ PAt("notify")' = PAt("notify")
  BY <1>1 DEF PAt
<1>4. CloseWakes'
  <2>1. closed => notEmpty' = notEmpty
    BY PopIs
  <2> QED BY <1>1, <2>1 DEF WakeInv, CloseWakes
<1>5. StopWakes'
  <2>1. stopped => notEmpty' = notEmpty
    BY PopIs
  <2> QED BY <1>1, <2>1 DEF WakeInv, StopWakes
<1>6. CASE stopped
  BY <1>1, <1>4, <1>5, <1>6 DEF WakeInv, QueueCovered, SlotsCovered
<1>7. CASE /\ ~stopped /\ queue = <<>> /\ UNCHANGED queue
           /\ \E l \in {"done", "waiting"} : cpc' = [cpc EXCEPT ![c] = l]
  <2>1. CAt("notify")' = CAt("notify")
    BY <1>1, <1>2, <1>7, ConsumerMoves
  <2>2. SlotsCovered'
    BY <1>1, <1>3, <1>7, <2>1 DEF WakeInv, SlotsCovered
  <2>3. Len(queue') = 0 /\ Len(queue') <= Cardinality(PAt("notify")') + Cardinality(CAt("pop")')
    BY <1>7, SizesAfter
  <2>4. QueueCovered'
    BY <2>3 DEF QueueCovered
  <2> QED BY <1>4, <1>5, <2>2, <2>4 DEF WakeInv
<1>8. CASE /\ ~stopped /\ queue # <<>> /\ queue' = Tail(queue) /\ cpc' = [cpc EXCEPT ![c] = "notify"]
           /\ UNCHANGED notEmpty
  <2>1. /\ Cardinality(CAt("notify")') = Cardinality(CAt("notify")) + 1
        /\ Cardinality(CAt("pop")) = Cardinality(CAt("pop")') + 1
    BY <1>0, <1>1, <1>2, <1>8, ConsumerMoves
  <2>2. Len(queue) = Len(queue') + 1 /\ Len(queue') \in Nat
    BY <1>2, <1>8
  <2>3. QueueCovered'
    <3> SUFFICES ASSUME notEmpty # {}
                 PROVE  Len(queue') <= Cardinality(PAt("notify")) + Cardinality(CAt("pop")')
      BY <1>1, <1>3, <1>8 DEF QueueCovered
    <3>1. Len(queue) <= Cardinality(PAt("notify")) + Cardinality(CAt("pop"))
      BY <1>8 DEF WakeInv, QueueCovered
    <3>2. /\ Cardinality(PAt("notify")) \in Nat /\ Cardinality(CAt("pop")) \in Nat
          /\ Cardinality(CAt("pop")') \in Nat
      BY SizesAfter
    <3> QED BY <1>2, <2>1, <2>2, <3>1, <3>2
  <2>4. SlotsCovered'
    <3> SUFFICES ASSUME notFull # {}
                 PROVE  Capacity - Len(queue') <= Cardinality(CAt("notify")') + Cardinality(PAt("push"))
      BY <1>1, <1>3, <1>8 DEF SlotsCovered
    <3>1. Capacity - Len(queue) <= Cardinality(CAt("notify")) + Cardinality(PAt("push"))
      BY <1>8 DEF WakeInv, SlotsCovered
    <3>2. /\ Cardinality(CAt("notify")) \in Nat /\ Cardinality(PAt("push")) \in Nat
          /\ Cardinality(CAt("notify")') \in Nat
      BY SizesAfter
    <3> QED BY <1>2, <2>1, <2>2, <3>1, <3>2
  <2> QED BY <1>4, <1>5, <2>3, <2>4 DEF WakeInv
<1> QED BY <1>6, <1>7, <1>8, PopIs

\* A waiter that wakes up takes the mutex again.
LEMMA WokenProducer ==
    ASSUME TypeInv, WakeInv, NEW p \in notFull, ppc' = [ppc EXCEPT ![p] = "push"], notFull' = notFull \ {p}
    PROVE  /\ PAt("notify")' = PAt("notify")
           /\ Cardinality(PAt("push")') = Cardinality(PAt("push")) + 1
           /\ \A q \in Producers : ppc[q] # "waiting" => ppc'[q] = ppc[q]
<1>1. p \in Producers /\ ppc[p] = "waiting" /\ ThreadsOK
  BY DEF TypeInv, ParkedOK
<1>2. "push" # "waiting" /\ "notify" # "push" /\ "notify" # "waiting"
  OBVIOUS
<1>3. \A q \in Producers : ppc[q] # "waiting" => ppc'[q] = ppc[q]
  BY <1>1 DEF ThreadsOK
<1>4. PAt("notify")' = PAt("notify")
  BY <1>1, <1>2, ProducerMoves
<1>5. Cardinality(PAt("push")') = Cardinality(PAt("push")) + 1
  BY <1>1, <1>2, ProducerMoves
<1> QED BY <1>3, <1>4, <1>5

\* The same for a consumer.
LEMMA WokenConsumer ==
    ASSUME TypeInv, WakeInv, NEW c \in notEmpty, cpc' = [cpc EXCEPT ![c] = "pop"], notEmpty' = notEmpty \ {c}
    PROVE  /\ CAt("notify")' = CAt("notify")
           /\ Cardinality(CAt("pop")') = Cardinality(CAt("pop")) + 1
<1>1. c \in Consumers /\ cpc[c] = "waiting" /\ ThreadsOK
  BY DEF TypeInv, ParkedOK
<1>2. "pop" # "waiting" /\ "notify" # "pop" /\ "notify" # "waiting"
  OBVIOUS
<1> QED BY <1>1, <1>2, ConsumerMoves

\* A notification of a block wakes a consumer, if one waits.
LEMMA NotifyNotEmptyKeepsWakes ==
    ASSUME TypeInv, WakeInv, NEW p \in Producers, NotifyNotEmpty(p) PROVE WakeInv'
<1>0. "read" # "notify" /\ "push" # "notify" /\ "push" # "read"
  OBVIOUS
<1>1. /\ UNCHANGED <<runVars, queue, closed, stopped, notFull, mpc>>
      /\ ppc[p] = "notify" /\ ppc' = [ppc EXCEPT ![p] = "read"] /\ ThreadsOK
  BY DEF NotifyNotEmpty, ProducerGoto, mainVars, TypeInv
<1>2. \/ notEmpty = {} /\ UNCHANGED <<notEmpty, cpc>>
      \/ \E c \in notEmpty : notEmpty' = notEmpty \ {c} /\ cpc' = [cpc EXCEPT ![c] = "pop"]
  BY DEF NotifyNotEmpty, ConsumerGoto, WakeConsumer
<1>3. Cardinality(PAt("notify")) = Cardinality(PAt("notify")') + 1 /\ PAt("push")' = PAt("push")
  BY <1>0, <1>1, ProducerMoves
<1>4. CAt("notify")' = CAt("notify") /\ (notEmpty # {} => Cardinality(CAt("pop")') = Cardinality(CAt("pop")) + 1)
  BY <1>2, WokenConsumer DEF CAt
<1>5. notEmpty' \subseteq notEmpty /\ Capacity' = Capacity /\ Len(queue) \in Nat
  BY <1>1, <1>2, RunStays DEF TypeInv, BufferOK
<1>6. QueueCovered'
  <2> SUFFICES ASSUME notEmpty # {}, ~stopped
               PROVE  Len(queue) <= Cardinality(PAt("notify")') + Cardinality(CAt("pop")')
    BY <1>1, <1>5 DEF QueueCovered
  <2>1. Len(queue) <= Cardinality(PAt("notify")) + Cardinality(CAt("pop"))
    BY DEF WakeInv, QueueCovered
  <2>2. /\ Cardinality(PAt("notify")) \in Nat /\ Cardinality(PAt("notify")') \in Nat
        /\ Cardinality(CAt("pop")) \in Nat /\ Cardinality(CAt("pop")') \in Nat
    BY SizesAfter
  <2> QED BY <1>3, <1>4, <1>5, <2>1, <2>2
<1>7. SlotsCovered'
  BY <1>1, <1>3, <1>4, <1>5 DEF WakeInv, SlotsCovered
<1>8. CloseWakes'
  BY <1>1, <1>5 DEF WakeInv, CloseWakes
<1>9. StopWakes'
  <2>1. \A q \in Producers : ppc[q] \in {"stopNotEmpty", "stopNotFull"} => ppc'[q] = ppc[q]
    BY <1>1 DEF ThreadsOK
  <2> QED BY <1>1, <1>5, <2>1 DEF WakeInv, StopWakes
<1> QED BY <1>6, <1>7, <1>8, <1>9 DEF WakeInv

\* A notification of a slot wakes a producer, if one waits.
LEMMA NotifyNotFullKeepsWakes ==
    ASSUME TypeInv, WakeInv, NEW c \in Consumers, NotifyNotFull(c) PROVE WakeInv'
<1>0. "apply" # "notify" /\ "pop" # "notify" /\ "pop" # "apply"
  OBVIOUS
<1>1. /\ UNCHANGED <<runVars, queue, closed, stopped, notEmpty, mpc>>
      /\ cpc[c] = "notify" /\ cpc' = [cpc EXCEPT ![c] = "apply"] /\ ThreadsOK
  BY DEF NotifyNotFull, ConsumerGoto, mainVars, TypeInv
<1>2. \/ notFull = {} /\ UNCHANGED <<notFull, ppc>>
      \/ \E p \in notFull : notFull' = notFull \ {p} /\ ppc' = [ppc EXCEPT ![p] = "push"]
  BY DEF NotifyNotFull, ProducerGoto, WakeProducer
<1>3. Cardinality(CAt("notify")) = Cardinality(CAt("notify")') + 1 /\ CAt("pop")' = CAt("pop")
  BY <1>0, <1>1, ConsumerMoves
<1>4. /\ PAt("notify")' = PAt("notify")
      /\ notFull # {} => Cardinality(PAt("push")') = Cardinality(PAt("push")) + 1
      /\ \A q \in Producers : ppc[q] # "waiting" => ppc'[q] = ppc[q]
  BY <1>2, WokenProducer DEF PAt
<1>5. notFull' \subseteq notFull /\ Capacity' = Capacity /\ Len(queue) \in Nat /\ Capacity \in Nat
  BY <1>1, <1>2, RunStays, CapacityIs DEF TypeInv, BufferOK
<1>6. SlotsCovered'
  <2> SUFFICES ASSUME notFull # {}, ~stopped
               PROVE  Capacity - Len(queue) <= Cardinality(CAt("notify")') + Cardinality(PAt("push")')
    BY <1>1, <1>5 DEF SlotsCovered
  <2>1. Capacity - Len(queue) <= Cardinality(CAt("notify")) + Cardinality(PAt("push"))
    BY DEF WakeInv, SlotsCovered
  <2>2. /\ Cardinality(CAt("notify")) \in Nat /\ Cardinality(CAt("notify")') \in Nat
        /\ Cardinality(PAt("push")) \in Nat /\ Cardinality(PAt("push")') \in Nat
    BY SizesAfter
  <2> QED BY <1>3, <1>4, <1>5, <2>1, <2>2
<1>7. QueueCovered'
  BY <1>1, <1>3, <1>4 DEF WakeInv, QueueCovered
<1>8. CloseWakes' /\ StopWakes'
  BY <1>1, <1>4, <1>5 DEF WakeInv, CloseWakes, StopWakes
<1> QED BY <1>6, <1>7, <1>8 DEF WakeInv

\* A spurious wake-up is one more thread that takes the mutex.
LEMMA SpuriousKeepsWakes ==
    ASSUME TypeInv, WakeInv, Spurious PROVE WakeInv'
<1>1. /\ UNCHANGED <<runVars, queue, closed, stopped, mpc>>
      /\ \/ /\ UNCHANGED <<notEmpty, cpc>>
            /\ \E p \in notFull : notFull' = notFull \ {p} /\ ppc' = [ppc EXCEPT ![p] = "push"]
         \/ /\ UNCHANGED <<notFull, ppc>>
            /\ \E c \in notEmpty : notEmpty' = notEmpty \ {c} /\ cpc' = [cpc EXCEPT ![c] = "pop"]
  BY DEF Spurious, SpuriousWakeup, ProducerGoto, ConsumerGoto, mainVars
<1>2. /\ PAt("notify")' = PAt("notify") /\ CAt("notify")' = CAt("notify")
      /\ Cardinality(PAt("push")') >= Cardinality(PAt("push"))
      /\ Cardinality(CAt("pop")') >= Cardinality(CAt("pop"))
      /\ \A q \in Producers : ppc[q] # "waiting" => ppc'[q] = ppc[q]
  <2>1. CASE /\ UNCHANGED <<notEmpty, cpc>>
             /\ \E p \in notFull : notFull' = notFull \ {p} /\ ppc' = [ppc EXCEPT ![p] = "push"]
    <3>1. CAt("notify")' = CAt("notify") /\ CAt("pop")' = CAt("pop")
      BY <2>1 DEF CAt
    <3>2. PICK p \in notFull : notFull' = notFull \ {p} /\ ppc' = [ppc EXCEPT ![p] = "push"]
      BY <2>1
    <3>3. /\ PAt("notify")' = PAt("notify")
          /\ Cardinality(PAt("push")') = Cardinality(PAt("push")) + 1
          /\ \A q \in Producers : ppc[q] # "waiting" => ppc'[q] = ppc[q]
      BY <3>2, WokenProducer
    <3>4. Cardinality(PAt("push")) \in Nat /\ Cardinality(CAt("pop")) \in Nat
      BY SizesAfter
    <3>5. Cardinality(PAt("push")') >= Cardinality(PAt("push"))
      BY <3>3, <3>4
    <3>6. Cardinality(CAt("pop")') >= Cardinality(CAt("pop"))
      BY <3>1, <3>4
    <3> QED BY <3>1, <3>3, <3>5, <3>6
  <2>2. CASE /\ UNCHANGED <<notFull, ppc>>
             /\ \E c \in notEmpty : notEmpty' = notEmpty \ {c} /\ cpc' = [cpc EXCEPT ![c] = "pop"]
    <3>1. PAt("notify")' = PAt("notify") /\ PAt("push")' = PAt("push") /\ ppc' = ppc
      BY <2>2 DEF PAt
    <3>2. PICK c \in notEmpty : notEmpty' = notEmpty \ {c} /\ cpc' = [cpc EXCEPT ![c] = "pop"]
      BY <2>2
    <3>3. CAt("notify")' = CAt("notify") /\ Cardinality(CAt("pop")') = Cardinality(CAt("pop")) + 1
      BY <3>2, WokenConsumer
    <3>4. Cardinality(PAt("push")) \in Nat /\ Cardinality(CAt("pop")) \in Nat
      BY SizesAfter
    <3>5. Cardinality(CAt("pop")') >= Cardinality(CAt("pop"))
      BY <3>3, <3>4
    <3>6. Cardinality(PAt("push")') >= Cardinality(PAt("push"))
      BY <3>1, <3>4
    <3> QED BY <3>1, <3>3, <3>5, <3>6
  <2> QED BY <1>1, <2>1, <2>2
<1>3. /\ notFull' \subseteq notFull /\ notEmpty' \subseteq notEmpty
      /\ Capacity' = Capacity /\ Len(queue) \in Nat /\ Capacity \in Nat
  BY <1>1, RunStays, CapacityIs DEF TypeInv, BufferOK
<1>4. QueueCovered'
  <2> SUFFICES ASSUME notEmpty # {}, ~stopped
               PROVE  Len(queue) <= Cardinality(PAt("notify")) + Cardinality(CAt("pop")')
    BY <1>1, <1>2, <1>3 DEF QueueCovered
  <2>1. Len(queue) <= Cardinality(PAt("notify")) + Cardinality(CAt("pop"))
    BY DEF WakeInv, QueueCovered
  <2> QED BY <1>2, <1>3, <2>1, SizesAfter
<1>5. SlotsCovered'
  <2> SUFFICES ASSUME notFull # {}, ~stopped
               PROVE  Capacity - Len(queue) <= Cardinality(CAt("notify")) + Cardinality(PAt("push")')
    BY <1>1, <1>2, <1>3 DEF SlotsCovered
  <2>1. Capacity - Len(queue) <= Cardinality(CAt("notify")) + Cardinality(PAt("push"))
    BY DEF WakeInv, SlotsCovered
  <2> QED BY <1>2, <1>3, <2>1, SizesAfter
<1>6. CloseWakes' /\ StopWakes'
  BY <1>1, <1>2, <1>3 DEF WakeInv, CloseWakes, StopWakes
<1> QED BY <1>4, <1>5, <1>6 DEF WakeInv

\* stop() wakes the consumers, and then the producers.
LEMMA StopKeepsWakes ==
    ASSUME TypeInv, WakeInv, NEW p \in Producers, Stop(p) \/ StopNotEmpty(p) \/ StopNotFull(p) PROVE WakeInv'
<1>1. ThreadsOK /\ ParkedOK
  BY DEF TypeInv
<1>2. CASE Stop(p)
  <2>1. stopped' = TRUE /\ ppc'[p] = "stopNotEmpty" /\ UNCHANGED <<notEmpty, closed, mpc>>
    BY <1>1, <1>2 DEF Stop, ProducerGoto, ThreadsOK, mainVars
  <2> QED BY <2>1 DEF WakeInv, QueueCovered, SlotsCovered, CloseWakes, StopWakes
<1>3. CASE StopNotEmpty(p)
  <2>1. /\ UNCHANGED <<runVars, queue, closed, stopped, notFull, mpc>>
        /\ ppc[p] = "stopNotEmpty" /\ ppc' = [ppc EXCEPT ![p] = "stopNotFull"] /\ notEmpty' = {}
        /\ cpc' = [c \in Consumers |-> IF c \in notEmpty THEN "pop" ELSE cpc[c]]
    BY <1>3 DEF StopNotEmpty, ProducerGoto, WakeConsumers, mainVars
  <2>2. \A q \in Producers : ppc'[q] = IF q = p THEN "stopNotFull" ELSE ppc[q]
    BY <1>1, <2>1 DEF ThreadsOK
  <2>3. PAt("push")' = PAt("push")
    BY <2>1, <2>2 DEF PAt
  <2>4. CAt("notify")' = CAt("notify")
    BY <1>1, <2>1 DEF CAt, ParkedOK
  <2>5. Capacity' = Capacity
    BY <2>1, RunStays
  <2>6. SlotsCovered'
    BY <2>1, <2>3, <2>4, <2>5 DEF WakeInv, SlotsCovered
  <2> QED BY <2>1, <2>2, <2>6 DEF WakeInv, QueueCovered, CloseWakes, StopWakes
<1>4. CASE StopNotFull(p)
  <2>1. /\ UNCHANGED <<cpc, queue, closed, stopped, notEmpty, mpc>>
        /\ ppc[p] = "stopNotFull" /\ notFull' = {}
        /\ ppc' = [q \in Producers |-> CASE q = p -> "done" [] q \in notFull -> "push" [] OTHER -> ppc[q]]
    BY <1>4 DEF StopNotFull, consumerVars, mainVars
  <2>2. \A q \in Producers : ppc'[q] = IF q = p THEN "done" ELSE IF q \in notFull THEN "push" ELSE ppc[q]
    <3>1. p \notin notFull
      BY <1>1, <2>1 DEF ParkedOK
    <3> QED BY <2>1, <3>1
  <2>3. PAt("notify")' = PAt("notify") /\ CAt("pop")' = CAt("pop")
    BY <1>1, <2>1, <2>2 DEF PAt, CAt, ParkedOK
  <2>4. \A q \in Producers : ppc[q] = "stopNotEmpty" => ppc'[q] = ppc[q]
    BY <1>1, <2>1, <2>2 DEF ParkedOK
  <2> QED BY <2>1, <2>3, <2>4 DEF WakeInv, QueueCovered, SlotsCovered, CloseWakes, StopWakes
<1> QED BY <1>2, <1>3, <1>4

\* A consumer that comes back from a block looks for the next one.
LEMMA ApplyKeepsWakes ==
    ASSUME TypeInv, WakeInv, NEW c \in Consumers, ApplyRecord(c) \/ EndOfBlock(c) PROVE WakeInv'
<1>0. "pop" # "apply" /\ "notify" # "apply" /\ "notify" # "pop"
  OBVIOUS
<1>1. /\ UNCHANGED <<runVars, ppc, queue, closed, stopped, notFull, notEmpty, mpc>> /\ ThreadsOK
      /\ \/ cpc' = cpc
         \/ cpc[c] = "apply" /\ cpc' = [cpc EXCEPT ![c] = "pop"]
  BY DEF ApplyRecord, EndOfBlock, ConsumerGoto, producerVars, bufferVars, mainVars, TypeInv
<1>2. PAt("notify")' = PAt("notify") /\ PAt("push")' = PAt("push")
  BY <1>1 DEF PAt
<1>3. CAt("notify")' = CAt("notify") /\ Cardinality(CAt("pop")') >= Cardinality(CAt("pop"))
  <2>1. CASE cpc' = cpc
    <3>1. CAt("notify")' = CAt("notify") /\ CAt("pop")' = CAt("pop")
      BY <2>1 DEF CAt
    <3> QED BY <3>1, SizesAfter
  <2>2. CASE cpc[c] = "apply" /\ cpc' = [cpc EXCEPT ![c] = "pop"]
    <3>1. CAt("notify")' = CAt("notify") /\ Cardinality(CAt("pop")') = Cardinality(CAt("pop")) + 1
      BY <1>0, <1>1, <2>2, ConsumerMoves
    <3> QED BY <3>1, SizesAfter
  <2> QED BY <1>1, <2>1, <2>2
<1>4. Capacity' = Capacity /\ Len(queue) \in Nat
  BY <1>1, RunStays DEF TypeInv, BufferOK
<1>5. QueueCovered'
  <2> SUFFICES ASSUME notEmpty # {}, ~stopped
               PROVE  Len(queue) <= Cardinality(PAt("notify")) + Cardinality(CAt("pop")')
    BY <1>1, <1>2 DEF QueueCovered
  <2>1. Len(queue) <= Cardinality(PAt("notify")) + Cardinality(CAt("pop"))
    BY DEF WakeInv, QueueCovered
  <2> QED BY <1>3, <1>4, <2>1, SizesAfter
<1>6. SlotsCovered' /\ CloseWakes' /\ StopWakes'
  BY <1>1, <1>2, <1>3, <1>4 DEF WakeInv, SlotsCovered, CloseWakes, StopWakes
<1> QED BY <1>5, <1>6 DEF WakeInv

\* A producer that reads, or fails, wakes nobody and parks nobody.
LEMMA ReaderKeepsWakes ==
    ASSUME TypeInv, WakeInv, NEW p \in Producers,
           FindFirstLine(p) \/ ReadLine(p) \/ EndOfRange(p) \/ FailText(p) \/ FailFlag(p)
    PROVE  WakeInv'
<1>1. /\ UNCHANGED <<runVars, cpc, queue, closed, stopped, notFull, notEmpty, mpc>>
      /\ ppc[p] \in {"open", "read", "failText", "failFlag"}
  BY DEF FindFirstLine, ReadLine, EndOfRange, FailText, FailFlag, consumerVars, bufferVars, mainVars
<1>2. \E m \in {"failText", "done", "read", "push", "failFlag", "stop"} : ppc' = [ppc EXCEPT ![p] = m]
  <2>1. CASE FindFirstLine(p)
    BY <2>1 DEF FindFirstLine, ProducerGoto
  <2>2. CASE ReadLine(p)
    <3>1. PICK i, b : ppc' = [ppc EXCEPT ![p] = CASE Refused(i) -> "failText"
                                                [] i \in Records /\ b -> "push"
                                                [] OTHER -> "read"]
      BY <2>2 DEF ReadLine, ProducerGoto
    <3> DEFINE m == CASE Refused(i) -> "failText" [] i \in Records /\ b -> "push" [] OTHER -> "read"
    <3>2. m \in {"failText", "push", "read"}
      OBVIOUS
    <3> QED BY <3>1, <3>2
  <2>3. CASE EndOfRange(p) \/ FailText(p) \/ FailFlag(p)
    BY <2>3 DEF EndOfRange, FailText, FailFlag, ProducerGoto
  <2> QED BY <2>1, <2>2, <2>3
<1> QED BY <1>1, <1>2, QuietKeepsWakes

\* Where nobody is parked, nobody waits for a wake-up.
LEMMA NobodyParked ==
    ASSUME notEmpty = {}, notFull = {} PROVE WakeInv
BY DEF WakeInv, QueueCovered, SlotsCovered, CloseWakes, StopWakes

(* main starts the threads before anyone is parked, and wakes the          *)
(* consumers after close().                                                *)
LEMMA MainKeepsWakes ==
    ASSUME TypeInv, WakeInv, Main \/ Monitor \/ UNCHANGED vars PROVE WakeInv'
<1>1. CASE Reject \/ StartThreads \/ StartSequential
  <2>1. mpc = "start" /\ UNCHANGED <<notEmpty, notFull>>
    BY <1>1 DEF Reject, StartThreads, StartSequential, bufferVars
  <2>2. notEmpty = {} /\ notFull = {}
    BY <2>1 DEF TypeInv, ParkedOK, Begun
  <2>3. notEmpty' = {} /\ notFull' = {}
    BY <2>1, <2>2
  <2> QED BY <2>3 DEF WakeInv, QueueCovered, SlotsCovered, CloseWakes, StopWakes
<1>2. CASE CloseNotify
  <2>1. /\ UNCHANGED <<runVars, ppc, queue, closed, stopped, notFull>> /\ notEmpty' = {}
        /\ cpc' = [c \in Consumers |-> IF c \in notEmpty THEN "pop" ELSE cpc[c]]
    BY <1>2 DEF CloseNotify, WakeConsumers, producerVars
  <2>2. CAt("notify")' = CAt("notify") /\ PAt("push")' = PAt("push")
    BY <2>1 DEF CAt, PAt, TypeInv, ParkedOK
  <2>3. Capacity' = Capacity
    BY <2>1, RunStays
  <2>4. SlotsCovered'
    BY <2>1, <2>2, <2>3 DEF WakeInv, SlotsCovered
  <2> QED BY <2>1, <2>4 DEF WakeInv, QueueCovered, CloseWakes, StopWakes
<1>3. CASE \/ Close \/ JoinConsumers \/ Finish \/ CountLine \/ ReportSequential
           \/ Monitor \/ UNCHANGED vars
  <2>1. /\ UNCHANGED <<runVars, ppc, cpc, queue, stopped, notFull, notEmpty>>
        /\ \/ UNCHANGED closed /\ (mpc # "notify" \/ mpc' = mpc)
           \/ mpc' = "notify"
    BY <1>3 DEF Close, JoinConsumers, Finish, CountLine, ReportSequential, Monitor, vars, producerVars,
       consumerVars, bufferVars, mainVars
  <2>2. PAt("notify")' = PAt("notify") /\ CAt("pop")' = CAt("pop")
        /\ CAt("notify")' = CAt("notify") /\ PAt("push")' = PAt("push")
    BY <2>1 DEF PAt, CAt
  <2>3. Capacity' = Capacity
    BY <2>1, RunStays
  <2>4. QueueCovered' /\ SlotsCovered'
    BY <2>1, <2>2, <2>3 DEF WakeInv, QueueCovered, SlotsCovered
  <2>5. CloseWakes' /\ StopWakes'
    BY <2>1 DEF WakeInv, CloseWakes, StopWakes
  <2> QED BY <2>4, <2>5 DEF WakeInv
<1> QED BY <1>1, <1>2, <1>3 DEF Main, Sequential

(* No wakeup is lost, whatever the files, the options, the threads and the *)
(* capacity: a parked consumer has a notification or a taker on its way    *)
(* for every block, a parked producer for every slot, and close() and      *)
(* stop() leave nobody parked.                                             *)
THEOREM NoWakeupIsLost == Spec => []NoLostWakeup
<1>1. Init => TypeInv /\ WakeInv
  <2> SUFFICES ASSUME Init PROVE TypeInv /\ WakeInv
    OBVIOUS
  <2>1. notEmpty = {} /\ notFull = {}
    BY DEF Init
  <2> QED BY <2>1, InitType, NobodyParked
<1>2. TypeInv /\ WakeInv /\ [Next]_vars => (TypeInv /\ WakeInv)'
  <2> SUFFICES ASSUME TypeInv, WakeInv, [Next]_vars PROVE TypeInv' /\ WakeInv'
    OBVIOUS
  <2>1. TypeInv'
    BY StepType
  <2>2. ASSUME NEW p \in Producers, Producer(p) PROVE WakeInv'
    BY <2>2, ReaderKeepsWakes, PushKeepsWakes, NotifyNotEmptyKeepsWakes, StopKeepsWakes DEF Producer
  <2>3. ASSUME NEW c \in Consumers, Consumer(c) PROVE WakeInv'
    BY <2>3, PopKeepsWakes, NotifyNotFullKeepsWakes, ApplyKeepsWakes DEF Consumer
  <2>4. ASSUME Main \/ Monitor \/ Spurious \/ UNCHANGED vars PROVE WakeInv'
    BY <2>4, MainKeepsWakes, SpuriousKeepsWakes
  <2>5. WakeInv'
    BY <2>2, <2>3, <2>4 DEF Next, Exited
  <2> QED BY <2>1, <2>5
<1>3. TypeInv /\ WakeInv => NoLostWakeup
  BY WakeParts
<1> QED BY <1>1, <1>2, <1>3, PTL DEF Spec

-----------------------------------------------------------------------------
(* Where the records are                                                   *)

\* The producer has read the line i.
Has(p, i) == Start(p) <= input.first[i] /\ input.first[i] < pos[p]

\* The record has been read: by a producer, or by main in mode seq.
IsRead(r) == (\E p \in Producers : Has(p, r)) \/ r \in 1 .. counted

\* The places of a record: in a block being filled, in a queued block, in what
\* a consumer has left of its block, and once for every time it was added.
InBlock(w, r) == \E p \in Producers : \E k \in DOMAIN block[p] :
                    w = <<"block", p, 0, k>> /\ block[p][k] = r
Queued(w, r)  == \E j \in DOMAIN queue : \E k \in DOMAIN queue[j] :
                    w = <<"queue", 0, j, k>> /\ queue[j][k] = r
InHand(w, r)  == \E c \in Consumers : \E k \in DOMAIN hand[c] :
                    k >= next[c] /\ w = <<"hand", c, 0, k>> /\ hand[c][k] = r
Added(w, r)   == \E s \in Slots : \E k \in 1 .. tally[s][r] : w = <<"tally", s, 0, k>>

At(w, r) == InBlock(w, r) \/ Queued(w, r) \/ InHand(w, r) \/ Added(w, r)

\* A record that was read is in one place, any other one in none.
Placed(r) == /\ IsRead(r) <=> \E w : At(w, r)
             /\ \A v, w : At(v, r) /\ At(w, r) => v = w

-----------------------------------------------------------------------------
(* The invariant behind CountOnce                                          *)

\* A producer stands at the beginning of a line. It has read lines of its own
\* range only, and none that is refused.
ReadingInv ==
    \A p \in Producers :
      /\ \A i \in 1 .. LineCount : Has(p, i) => input.first[i] < End(p) /\ ~Refused(i)
      /\ ppc[p] \in {"read", "push", "waiting", "notify"} =>
            /\ p \notin run.broken /\ Start(p) <= pos[p]
            /\ \E k \in 1 .. LineCount + 1 : pos[p] = input.first[k]

\* Only a run with a reason fails, and a producer that is done without a
\* failure has read its range and pushed what it read.
FailingInv ==
    /\ failed => Bad
    /\ stopped => failed
    /\ \A p \in Producers :
        /\ ppc[p] \in {"failText", "failFlag", "stop", "stopNotEmpty", "stopNotFull"} => Bad
        /\ ppc[p] \in {"stop", "stopNotEmpty", "stopNotFull"} => failed
        /\ ppc[p] = "done" => failed \/ (p \notin run.broken /\ block[p] = <<>> /\ pos[p] >= End(p))

\* The buffer is closed behind the producers, and a consumer that is done left
\* nothing in it or was stopped.
DrainingInv ==
    /\ closed => \A p \in Producers : ppc[p] = "done"
    /\ \A c \in Consumers :
        /\ cpc[c] \notin {"notify", "apply"} => hand[c] = <<>>
        /\ cpc[c] = "done" => stopped \/ (closed /\ queue = <<>>)
        /\ mpc = "joinMonitor" => cpc[c] = "done"
        /\ mpc = "exit" => cpc[c] \in {"created", "done"}
    /\ mpc \in {"notify", "joinConsumers", "joinMonitor"} => closed

\* What main has checked where it is, and that only one mode counts.
MainInv ==
    /\ outcome = "running" <=> mpc # "exit"
    /\ mpc \notin {"start", "exit"} => Accepted /\ input.probed
    /\ mpc = "count" => run.broken = {}
    /\ mpc \in {"joinProducers", "notify", "joinConsumers", "joinMonitor"} => run.mode # "seq"
    /\ \A i \in 1 .. counted : ~Refused(i)
    /\ run.mode # "seq" => counted = 0
    /\ run.mode = "seq" => /\ queue = <<>>
                           /\ \A p \in Producers : ppc[p] = "created" /\ block[p] = <<>>
                           /\ \A c \in Consumers : cpc[c] = "created" /\ hand[c] = <<>>

CountInv == /\ ReadingInv /\ FailingInv /\ DrainingInv /\ MainInv
            /\ \A r \in Records : Placed(r)

\* Steps that move no record
LEMMA PlacesStay ==
    ASSUME UNCHANGED <<runVars, pos, block, hand, next, queue, tally, counted>>, \A r \in Records : Placed(r)
    PROVE  \A r \in Records' : Placed(r)'
<1>1. Records' = Records /\ Slots' = Slots /\ input' = input
  BY RunStays
<1>2. \A r : IsRead(r)' <=> IsRead(r)
  BY <1>1 DEF IsRead, Has, Start
<1>3. \A w, r : At(w, r)' <=> At(w, r)
  BY <1>1 DEF At, InBlock, Queued, InHand, Added
<1> QED BY <1>1, <1>2, <1>3 DEF Placed

\* Steps after which no other producer reads
LEMMA ReadingStays ==
    ASSUME TypeInv, ReadingInv, UNCHANGED <<runVars, pos>>,
           \A p \in Producers : ppc'[p] \in {"read", "push", "waiting", "notify"}
                                  => ppc[p] \in {"read", "push", "waiting", "notify"}
    PROVE  ReadingInv'
<1>1. /\ LineCount' = LineCount /\ input' = input /\ run' = run
      /\ \A p : Start(p)' = Start(p) /\ End(p)' = End(p)
      /\ \A i : Refused(i)' = Refused(i)
  BY RunStays
<1>2. \A p, i : Has(p, i)' <=> Has(p, i)
  BY <1>1 DEF Has
<1> QED BY <1>1, <1>2 DEF ReadingInv

\* A producer notifies, or gives up.
LEMMA ProducerKeepsCount ==
    ASSUME TypeInv, CountInv, NEW p \in Producers,
           \/ NotifyNotEmpty(p) \/ FailText(p) \/ FailFlag(p)
           \/ Stop(p) \/ StopNotEmpty(p) \/ StopNotFull(p)
    PROVE  CountInv'
<1>0. ThreadsOK /\ ParkedOK
  BY DEF TypeInv
<1>1. /\ UNCHANGED <<runVars, pos, block, hand, next, queue, closed, tally, mpc, counted, outcome>>
      /\ ppc[p] \in {"notify", "failText", "failFlag", "stop", "stopNotEmpty", "stopNotFull"}
      /\ \A c \in Consumers : cpc'[c] = cpc[c] \/ (cpc[c] = "waiting" /\ cpc'[c] = "pop")
      /\ \A q \in Producers : q # p => ppc'[q] = ppc[q] \/ (ppc[q] = "waiting" /\ ppc'[q] = "push")
  <2>1. CASE NotifyNotEmpty(p)
    <3>1. UNCHANGED cpc \/ \E c \in notEmpty : cpc' = [cpc EXCEPT ![c] = "pop"]
      BY <2>1 DEF NotifyNotEmpty, WakeConsumer, ConsumerGoto
    <3>2. \A c \in Consumers : cpc'[c] = cpc[c] \/ (cpc[c] = "waiting" /\ cpc'[c] = "pop")
      BY <1>0, <3>1 DEF ThreadsOK, ParkedOK
    <3> QED BY <1>0, <2>1, <3>2 DEF NotifyNotEmpty, ProducerGoto, ThreadsOK, contextVars, mainVars
  <2>2. CASE FailText(p) \/ FailFlag(p) \/ Stop(p)
    BY <1>0, <2>2 DEF FailText, FailFlag, Stop, ProducerGoto, ThreadsOK, consumerVars, bufferVars, contextVars,
       mainVars
  <2>3. CASE StopNotEmpty(p)
    BY <1>0, <2>3 DEF StopNotEmpty, WakeConsumers, ProducerGoto, ThreadsOK, ParkedOK, contextVars, mainVars
  <2>4. CASE StopNotFull(p)
    <3>1. /\ ppc[p] = "stopNotFull"
          /\ ppc' = [q \in Producers |-> CASE q = p -> "done" [] q \in notFull -> "push" [] OTHER -> ppc[q]]
      BY <2>4 DEF StopNotFull
    <3>2. \A q \in Producers : q # p => ppc'[q] = ppc[q] \/ (ppc[q] = "waiting" /\ ppc'[q] = "push")
      BY <1>0, <3>1 DEF ParkedOK
    <3> QED BY <2>4, <3>2 DEF StopNotFull, consumerVars, contextVars, mainVars
  <2> QED BY <2>1, <2>2, <2>3, <2>4
<1>2. \/ ppc[p] = "notify" /\ ppc'[p] = "read" /\ UNCHANGED <<stopped, failed>>
      \/ ppc[p] = "failText" /\ ppc'[p] = "failFlag" /\ UNCHANGED <<stopped, failed>>
      \/ ppc[p] = "failFlag" /\ ppc'[p] = "stop" /\ failed' /\ UNCHANGED stopped
      \/ ppc[p] = "stop" /\ ppc'[p] = "stopNotEmpty" /\ stopped' /\ UNCHANGED failed
      \/ ppc[p] = "stopNotEmpty" /\ ppc'[p] = "stopNotFull" /\ UNCHANGED <<stopped, failed>>
      \/ ppc[p] = "stopNotFull" /\ ppc'[p] = "done" /\ UNCHANGED <<stopped, failed>>
  <2>1. CASE NotifyNotEmpty(p)
    BY <1>0, <2>1 DEF NotifyNotEmpty, ProducerGoto, ThreadsOK, contextVars
  <2>2. CASE FailText(p)
    BY <1>0, <2>2 DEF FailText, ProducerGoto, ThreadsOK, bufferVars
  <2>3. CASE FailFlag(p)
    BY <1>0, <2>3 DEF FailFlag, ProducerGoto, ThreadsOK, bufferVars
  <2>4. CASE Stop(p)
    BY <1>0, <2>4 DEF Stop, ProducerGoto, ThreadsOK, contextVars
  <2>5. CASE StopNotEmpty(p)
    BY <1>0, <2>5 DEF StopNotEmpty, ProducerGoto, ThreadsOK, contextVars
  <2>6. CASE StopNotFull(p)
    <3>1. /\ ppc[p] = "stopNotFull" /\ UNCHANGED <<stopped, failed>>
          /\ ppc' = [q \in Producers |-> CASE q = p -> "done" [] q \in notFull -> "push" [] OTHER -> ppc[q]]
      BY <2>6 DEF StopNotFull, contextVars
    <3>2. p \notin notFull
      BY <1>0, <3>1 DEF ParkedOK
    <3>3. ppc'[p] = "done"
      BY <3>1, <3>2
    <3> QED BY <3>1, <3>3
  <2> QED BY <2>1, <2>2, <2>3, <2>4, <2>5, <2>6
<1>3. /\ Bad' = Bad /\ Accepted' = Accepted /\ run' = run /\ input' = input
      /\ \A q : End(q)' = End(q) /\ \A i : Refused(i)' = Refused(i)
  BY <1>1, RunStays
<1>4. ReadingInv'
  <2>1. \A q \in Producers : ppc'[q] \in {"read", "push", "waiting", "notify"}
                               => ppc[q] \in {"read", "push", "waiting", "notify"}
    BY <1>1, <1>2
  <2> QED BY <1>1, <2>1, ReadingStays DEF CountInv
<1>5. FailingInv'
  <2>1. failed' => Bad
    BY <1>2 DEF CountInv, FailingInv
  <2>2. stopped' => failed'
    BY <1>2 DEF CountInv, FailingInv
  <2>3. failed => failed'
    BY <1>2
  <2>4. ASSUME NEW q \in Producers
        PROVE  /\ ppc'[q] \in {"failText", "failFlag", "stop", "stopNotEmpty", "stopNotFull"} => Bad
               /\ ppc'[q] \in {"stop", "stopNotEmpty", "stopNotFull"} => failed'
               /\ ppc'[q] = "done" => failed' \/ (q \notin run.broken /\ block[q] = <<>> /\ pos[q] >= End(q))
    <3>1. CASE q = p
      BY <1>2, <3>1 DEF CountInv, FailingInv
    <3>2. CASE q # p
      BY <1>1, <2>3, <3>2 DEF CountInv, FailingInv
    <3> QED BY <3>1, <3>2
  <2> QED BY <1>1, <1>3, <2>1, <2>2, <2>4 DEF FailingInv
<1>6. DrainingInv'
  <2>1. closed => \A q \in Producers : ppc'[q] = "done"
    BY <1>1, <1>2 DEF CountInv, DrainingInv
  <2>2. stopped => stopped'
    BY <1>2
  <2> QED BY <1>1, <2>1, <2>2 DEF CountInv, DrainingInv
<1>7. MainInv'
  <2>1. run.mode # "seq"
    BY <1>1 DEF CountInv, MainInv
  <2> QED BY <1>1, <1>3, <2>1 DEF CountInv, MainInv
<1> QED BY <1>1, <1>4, <1>5, <1>6, <1>7, PlacesStay DEF CountInv

\* The files of these runs can be read to their end.
ReadsSucceed == \A r \in Runs : r.unreadable = {}

(* The first line that a producer reads: none begins between the start of  *)
(* its range and that line.                                                *)
LEMMA FirstLineFound ==
    ASSUME Given, input.probed, NEW p \in Producers, NEW b,
           b = IF InsideLine(p) THEN input.first[LineAt(Start(p)) + 1] ELSE Start(p)
    PROVE  /\ Start(p) <= b
           /\ \E k \in 1 .. LineCount + 1 : b = input.first[k]
           /\ \A i \in 1 .. LineCount : ~(Start(p) <= input.first[i] /\ input.first[i] < b)
<1>0. /\ LineCount \in Nat /\ DOMAIN lines = 1 .. LineCount
      /\ Start(p) \in Nat /\ Start(p) < input.first[LineCount + 1]
  BY RunIs, LinesWithText, Ranges DEF Given
<1>1. \A i \in 1 .. LineCount + 1 : input.first[i] \in Nat
  BY FirstBytes
<1>2. CASE ~InsideLine(p)
  <2>1. b = Start(p)
    BY <1>2
  <2>2. \E k \in 1 .. LineCount + 1 : Start(p) = input.first[k]
    <3>1. CASE Start(p) = 0
      BY <1>0, <3>1, FirstBytes
    <3>2. CASE \E i \in DOMAIN lines : input.first[i + 1] - 1 = Start(p) - 1
      <4>1. PICK i \in 1 .. LineCount : input.first[i + 1] - 1 = Start(p) - 1
        BY <1>0, <3>2
      <4>2. i + 1 \in 1 .. LineCount + 1
        BY <1>0
      <4>3. input.first[i + 1] = Start(p)
        BY <1>0, <1>1, <4>1, <4>2
      <4> QED BY <4>2, <4>3
    <3> QED BY <1>0, <1>2, <3>1, <3>2 DEF InsideLine
  <2> QED BY <1>0, <1>1, <2>1, <2>2
<1>3. CASE InsideLine(p)
  <2> DEFINE j == LineAt(Start(p))
  <2>1. j \in 1 .. LineCount /\ input.first[j] <= Start(p) /\ Start(p) < input.first[j + 1]
    BY <1>0, LineOfByte
  <2>2. b = input.first[j + 1]
    BY <1>3
  <2> HIDE DEF j
  <2>3. j + 1 \in 1 .. LineCount + 1
    BY <1>0, <2>1
  <2>4. ASSUME NEW i \in 1 .. LineCount, Start(p) <= input.first[i], input.first[i] < b
        PROVE  FALSE
    <3>1. i \in 1 .. LineCount + 1 /\ j \in 1 .. LineCount + 1
      BY <1>0, <2>1
    <3>2. ~(j + 1 < i) /\ i # j + 1
      BY <1>1, <2>2, <2>3, <2>4, <3>1, FirstGrows
    <3>3. i < j => input.first[i] < input.first[j]
      BY <3>1, FirstGrows
    <3>4. i = j
      BY <1>0, <1>1, <2>1, <2>4, <3>1, <3>2, <3>3
    <3>5. input.first[j] = Start(p)
      BY <1>0, <1>1, <2>1, <2>4, <3>1, <3>4
    <3>6. j # 1
      BY <1>0, <1>3, <3>5, FirstBytes DEF InsideLine
    <3>7. j - 1 \in DOMAIN lines /\ (j - 1) + 1 = j
      BY <1>0, <2>1, <3>6
    <3>8. input.first[(j - 1) + 1] - 1 # Start(p) - 1
      BY <1>3, <3>7 DEF InsideLine
    <3> QED BY <3>5, <3>7, <3>8
  <2>5. Start(p) <= b
    BY <1>0, <1>1, <2>1, <2>2, <2>3
  <2> QED BY <2>2, <2>3, <2>4, <2>5
<1> QED BY <1>2, <1>3

\* What a producer that goes on must respect
LEMMA ProducerStepKeeps ==
    ASSUME TypeInv, CountInv, NEW p \in Producers, ppc[p] \in {"open", "read", "push", "waiting"},
           UNCHANGED <<runVars, cpc, hand, closed, stopped, failed, mpc, counted, outcome>>,
           NEW m \in {"failText", "done", "read", "push", "waiting", "notify"}, ppc' = [ppc EXCEPT ![p] = m],
           \A q \in Producers : q # p => pos'[q] = pos[q] /\ block'[q] = block[q],
           m = "failText" => Bad,
           m = "done" => failed \/ (p \notin run.broken /\ block'[p] = <<>> /\ pos'[p] >= End(p))
    PROVE  FailingInv' /\ DrainingInv' /\ MainInv'
<1>1. \A q \in Producers : ppc'[q] = IF q = p THEN m ELSE ppc[q]
  BY DEF TypeInv, ThreadsOK
<1>2. /\ Bad' = Bad /\ Accepted' = Accepted /\ run' = run /\ input' = input
      /\ \A q : End(q)' = End(q) /\ \A i : Refused(i)' = Refused(i)
  BY RunStays
<1>3. FailingInv'
  <2>1. ASSUME NEW q \in Producers
        PROVE  /\ ppc'[q] \in {"failText", "failFlag", "stop", "stopNotEmpty", "stopNotFull"} => Bad
               /\ ppc'[q] \in {"stop", "stopNotEmpty", "stopNotFull"} => failed
               /\ ppc'[q] = "done" => failed \/ (q \notin run.broken /\ block'[q] = <<>> /\ pos'[q] >= End(q))
    <3>1. CASE q = p
      BY <1>1, <3>1
    <3>2. CASE q # p
      BY <1>1, <3>2 DEF CountInv, FailingInv
    <3> QED BY <3>1, <3>2
  <2> QED BY <1>2, <2>1 DEF CountInv, FailingInv
<1>4. ~closed
  BY DEF CountInv, DrainingInv
<1>5. DrainingInv'
  BY <1>4 DEF CountInv, DrainingInv
<1>6. run.mode # "seq"
  BY DEF CountInv, MainInv
<1>7. MainInv'
  BY <1>2, <1>6 DEF CountInv, MainInv
<1> QED BY <1>3, <1>5, <1>7

\* A producer finds the first line of its range.
LEMMA FindFirstLineKeepsCount ==
    ASSUME TypeInv, CountInv, ReadsSucceed, NEW p \in Producers, FindFirstLine(p) PROVE CountInv'
<1>1. /\ UNCHANGED <<runVars, block, consumerVars, bufferVars, contextVars, mainVars>> /\ ppc[p] = "open"
      /\ pos[p] = Start(p) /\ input.probed /\ Given /\ ThreadsOK /\ Start(p) \in Nat
  BY Ranges DEF FindFirstLine, TypeInv, Begun
<1>2. \/ ppc' = [ppc EXCEPT ![p] = "failText"] /\ pos' = pos /\ p \in run.broken
      \/ /\ ppc' = [ppc EXCEPT ![p] = "read"] /\ p \notin run.broken
         /\ pos' = [pos EXCEPT ![p] = IF InsideLine(p) THEN input.first[LineAt(Start(p)) + 1] ELSE Start(p)]
  <2>1. run.unreadable = {}
    BY <1>1 DEF ReadsSucceed, Given
  <2>2. pos = [pos EXCEPT ![p] = Start(p)]
    BY <1>1 DEF ThreadsOK
  <2> QED BY <1>1, <2>1, <2>2 DEF FindFirstLine, ProducerGoto
<1>3. PICK m \in {"failText", "read"} :
        /\ ppc' = [ppc EXCEPT ![p] = m]
        /\ m = "failText" => p \in run.broken
  BY <1>2
<1>4. /\ \A q \in Producers : ppc'[q] = IF q = p THEN m ELSE ppc[q]
      /\ \A q \in Producers : q # p => pos'[q] = pos[q]
  BY <1>1, <1>2, <1>3 DEF ThreadsOK
<1>5. FailingInv' /\ DrainingInv' /\ MainInv'
  <2>1. m = "failText" => Bad
    BY <1>3 DEF Bad
  <2> QED BY <1>1, <1>3, <1>4, <2>1, ProducerStepKeeps DEF consumerVars, bufferVars, contextVars, mainVars
<1>6. /\ m = "read" => /\ p \notin run.broken /\ Start(p) <= pos'[p]
                       /\ \E k \in 1 .. LineCount + 1 : pos'[p] = input.first[k]
      /\ \A i \in 1 .. LineCount : ~(Start(p) <= input.first[i] /\ input.first[i] < pos'[p])
  <2>1. CASE pos' = pos /\ ppc' = [ppc EXCEPT ![p] = "failText"]
    <3>1. \A i \in 1 .. LineCount : input.first[i] \in Nat
      BY <1>1, FirstBytes, RunIs DEF Given
    <3>2. m = "failText"
      BY <1>1, <1>3, <2>1 DEF ThreadsOK
    <3> QED BY <1>1, <2>1, <3>1, <3>2
  <2>2. CASE /\ p \notin run.broken
             /\ pos' = [pos EXCEPT ![p] = IF InsideLine(p) THEN input.first[LineAt(Start(p)) + 1] ELSE Start(p)]
    <3>1. pos'[p] = IF InsideLine(p) THEN input.first[LineAt(Start(p)) + 1] ELSE Start(p)
      BY <1>1, <2>2 DEF ThreadsOK
    <3> QED BY <1>1, <2>2, <3>1, FirstLineFound
  <2> QED BY <1>2, <2>1, <2>2
<1>7. /\ LineCount' = LineCount /\ input' = input /\ run' = run
      /\ Records' = Records /\ Slots' = Slots
      /\ \A q : Start(q)' = Start(q) /\ End(q)' = End(q)
      /\ \A i : Refused(i)' = Refused(i)
  BY <1>1, RunStays
<1>8. \A q \in Producers, i \in 1 .. LineCount : Has(q, i)' <=> Has(q, i)
  <2>1. \A i \in 1 .. LineCount : input.first[i] \in Nat
    BY <1>1, FirstBytes, RunIs DEF Given
  <2>2. \A i \in 1 .. LineCount : ~Has(p, i)
    BY <1>1, <2>1 DEF Has
  <2>3. \A i \in 1 .. LineCount : ~(Has(p, i)')
    BY <1>6, <1>7 DEF Has
  <2>4. ASSUME NEW q \in Producers, q # p PROVE \A i : Has(q, i)' <=> Has(q, i)
    BY <1>4, <1>7, <2>4 DEF Has
  <2> QED BY <2>2, <2>3, <2>4
<1>9. ReadingInv'
  <2>1. ASSUME NEW q \in Producers
        PROVE  /\ \A i \in 1 .. LineCount : Has(q, i)' => input.first[i] < End(q) /\ ~Refused(i)
               /\ ppc'[q] \in {"read", "push", "waiting", "notify"} =>
                     /\ q \notin run.broken /\ Start(q) <= pos'[q]
                     /\ \E k \in 1 .. LineCount + 1 : pos'[q] = input.first[k]
    <3>1. \A i \in 1 .. LineCount : Has(q, i)' => input.first[i] < End(q) /\ ~Refused(i)
      BY <1>8 DEF CountInv, ReadingInv
    <3>2. CASE q = p
      BY <1>4, <1>6, <3>1, <3>2
    <3>3. CASE q # p
      BY <1>4, <3>1, <3>3 DEF CountInv, ReadingInv
    <3> QED BY <3>2, <3>3
  <2> QED BY <1>7, <2>1 DEF ReadingInv
<1>10. \A r \in Records : Placed(r)'
  <2>1. Records \subseteq 1 .. LineCount
    BY <1>1, LinesWithText
  <2>2. \A r \in Records : IsRead(r)' <=> IsRead(r)
    BY <1>1, <1>8, <2>1 DEF IsRead, mainVars
  <2>3. \A w, r : At(w, r)' <=> At(w, r)
    BY <1>1, <1>7 DEF At, InBlock, Queued, InHand, Added, consumerVars, bufferVars, contextVars
  <2> QED BY <2>2, <2>3 DEF CountInv, Placed
<1> QED BY <1>5, <1>7, <1>9, <1>10 DEF CountInv

\* A producer comes to the end of its range.
LEMMA EndOfRangeKeepsCount ==
    ASSUME TypeInv, CountInv, ReadsSucceed, NEW p \in Producers, EndOfRange(p) PROVE CountInv'
<1>1. /\ UNCHANGED <<runVars, pos, block, consumerVars, bufferVars, tally, failed, mainVars>>
      /\ ppc[p] = "read" /\ Given /\ ThreadsOK
  BY DEF EndOfRange, TypeInv
<1>2. pos[p] >= End(p)
  <2>1. run.unreadable = {}
    BY <1>1 DEF ReadsSucceed, Given
  <2>2. End(p) \in Nat /\ pos[p] \in Nat
    BY <1>1, Ranges DEF ThreadsOK
  <2> QED BY <2>1, <2>2 DEF EndOfRange, RangeRead
<1>3. PICK m \in {"push", "done"} :
        /\ ppc' = [ppc EXCEPT ![p] = m]
        /\ m = "done" => block[p] = <<>>
  BY DEF EndOfRange, ProducerGoto, PartialLeft
<1>4. p \notin run.broken
  BY <1>1 DEF CountInv, ReadingInv
<1>5. FailingInv' /\ DrainingInv' /\ MainInv'
  BY <1>1, <1>2, <1>3, <1>4, ProducerStepKeeps DEF consumerVars, bufferVars, mainVars
<1>6. ReadingInv'
  <2>1. \A q \in Producers : ppc'[q] \in {"read", "push", "waiting", "notify"}
                               => ppc[q] \in {"read", "push", "waiting", "notify"}
    BY <1>1, <1>3 DEF ThreadsOK
  <2> QED BY <1>1, <2>1, ReadingStays DEF CountInv
<1>7. \A r \in Records' : Placed(r)'
  BY <1>1, PlacesStay DEF CountInv, consumerVars, bufferVars, mainVars
<1> QED BY <1>5, <1>6, <1>7 DEF CountInv

\* Two producers do not read the same line.
LEMMA OneReader ==
    ASSUME Given, NEW p \in Producers, NEW q \in Producers, NEW b \in Nat,
           Start(p) <= b, b < End(p), Start(q) <= b, b < End(q)
    PROVE  p = q
<1>1. p \in Nat /\ q \in Nat
  BY ThreadsAssumption, FS_CardinalityType
<1>2. Start(p) \in Nat /\ Start(q) \in Nat /\ End(p) \in Nat /\ End(q) \in Nat
  BY Ranges
<1>3. (p < q => End(p) <= Start(q)) /\ (q < p => End(q) <= Start(p))
  BY Ranges
<1> QED BY <1>1, <1>2, <1>3

\* What a producer reads: the line it stands at, and then it stands at the next.
LEMMA ReadLineIs ==
    ASSUME TypeInv, CountInv, NEW p \in Producers, ReadLine(p)
    PROVE  \E i \in 1 .. LineCount, m \in {"failText", "push", "read"} :
             /\ UNCHANGED <<runVars, consumerVars, bufferVars, contextVars, mainVars>>
             /\ ppc[p] = "read" /\ p \notin run.broken /\ Start(p) <= pos[p]
             /\ pos[p] = input.first[i] /\ pos[p] < End(p) /\ LineAt(pos[p]) = i
             /\ block' = IF i \in Records THEN [block EXCEPT ![p] = Append(@, i)] ELSE block
             /\ pos' = IF Refused(i) THEN pos ELSE [pos EXCEPT ![p] = input.first[i + 1]]
             /\ ppc' = [ppc EXCEPT ![p] = m]
             /\ m = "failText" <=> Refused(i)
<1>1. /\ UNCHANGED <<runVars, consumerVars, bufferVars, contextVars, mainVars>>
      /\ ppc[p] = "read" /\ pos[p] < End(p) /\ Given /\ ThreadsOK
  BY DEF ReadLine, RangeRead, TypeInv
<1>2. /\ p \notin run.broken /\ Start(p) <= pos[p]
      /\ \E k \in 1 .. LineCount + 1 : pos[p] = input.first[k]
  BY <1>1 DEF CountInv, ReadingInv
<1>3. PICK i \in 1 .. LineCount + 1 : pos[p] = input.first[i]
  BY <1>2
<1>4. LineCount \in Nat /\ End(p) \in Nat /\ End(p) <= input.first[LineCount + 1]
      /\ pos[p] \in Nat /\ \A j \in 1 .. LineCount + 1 : input.first[j] \in Nat
  BY <1>1, RunIs, Ranges, FirstBytes DEF Given, ThreadsOK
<1>5. i \in 1 .. LineCount
  <2>1. i # LineCount + 1
    BY <1>1, <1>3, <1>4
  <2> QED BY <1>4, <2>1
<1>6. LineAt(pos[p]) = i
  BY <1>1, <1>3, <1>5, LineOfFirst
<1>7. (pos[p] + lines[i].len) + 1 = input.first[i + 1]
  BY <1>1, <1>3, <1>5, FirstBytes
<1>8. /\ block' = IF i \in Records THEN [block EXCEPT ![p] = Append(@, i)] ELSE block
      /\ pos' = IF Refused(i) THEN pos ELSE [pos EXCEPT ![p] = (@ + lines[i].len) + 1]
      /\ ppc' = [ppc EXCEPT ![p] = CASE Refused(i) -> "failText"
                                     [] i \in Records /\ Len(block'[p]) >= run.block -> "push"
                                     [] OTHER -> "read"]
  BY <1>6 DEF ReadLine, ProducerGoto
<1>9. [pos EXCEPT ![p] = (@ + lines[i].len) + 1] = [pos EXCEPT ![p] = input.first[i + 1]]
  BY <1>1, <1>7 DEF ThreadsOK
<1>10. ~(Refused(i) /\ i \in Records)
  BY <1>1, LinesWithText DEF Refused
<1>11. \E m \in {"failText", "push", "read"} :
         ppc' = [ppc EXCEPT ![p] = m] /\ (m = "failText" <=> Refused(i))
  <2> DEFINE m == CASE Refused(i) -> "failText"
                    [] i \in Records /\ Len(block'[p]) >= run.block -> "push"
                    [] OTHER -> "read"
  <2>1. m \in {"failText", "push", "read"} /\ (m = "failText" <=> Refused(i))
    BY <1>10
  <2>2. ppc' = [ppc EXCEPT ![p] = m]
    BY <1>8
  <2> HIDE DEF m
  <2> QED BY <2>1, <2>2
<1> QED BY <1>1, <1>2, <1>3, <1>5, <1>6, <1>8, <1>9, <1>11

\* A producer reads a line.
LEMMA ReadLineKeepsCount ==
    ASSUME TypeInv, CountInv, NEW p \in Producers, ReadLine(p) PROVE CountInv'
<1>1. PICK i \in 1 .. LineCount, m \in {"failText", "push", "read"} :
        /\ UNCHANGED <<runVars, consumerVars, bufferVars, contextVars, mainVars>>
        /\ ppc[p] = "read" /\ p \notin run.broken /\ Start(p) <= pos[p]
        /\ pos[p] = input.first[i] /\ pos[p] < End(p) /\ LineAt(pos[p]) = i
        /\ block' = IF i \in Records THEN [block EXCEPT ![p] = Append(@, i)] ELSE block
        /\ pos' = IF Refused(i) THEN pos ELSE [pos EXCEPT ![p] = input.first[i + 1]]
        /\ ppc' = [ppc EXCEPT ![p] = m]
        /\ m = "failText" <=> Refused(i)
  BY ReadLineIs
<1>2. /\ \A q \in Producers : ppc'[q] = IF q = p THEN m ELSE ppc[q]
      /\ \A q \in Producers : q # p => pos'[q] = pos[q] /\ block'[q] = block[q]
      /\ pos'[p] = IF Refused(i) THEN input.first[i] ELSE input.first[i + 1]
      /\ block'[p] = IF i \in Records THEN Append(block[p], i) ELSE block[p]
      /\ block[p] \in Seq(Records) /\ Given
  BY <1>1 DEF TypeInv, ThreadsOK
<1>3. /\ LineCount' = LineCount /\ input' = input /\ run' = run
      /\ Records' = Records /\ Slots' = Slots
      /\ \A q : Start(q)' = Start(q) /\ End(q)' = End(q)
      /\ \A j : Refused(j)' = Refused(j)
  BY <1>1, RunStays
<1>4. /\ LineCount \in Nat /\ \A j \in 1 .. LineCount + 1 : input.first[j] \in Nat
      /\ i + 1 \in 1 .. LineCount + 1 /\ input.first[i] < input.first[i + 1]
      /\ Records \subseteq 1 .. LineCount /\ \A j \in Records : ~Refused(j)
  <2>1. LineCount \in Nat
    BY <1>2, RunIs DEF Given
  <2>2. i \in 1 .. LineCount + 1 /\ i + 1 \in 1 .. LineCount + 1 /\ i < i + 1
    BY <2>1
  <2> QED BY <1>2, <2>1, <2>2, FirstBytes, FirstGrows, LinesWithText DEF Refused
<1>5. FailingInv' /\ DrainingInv' /\ MainInv'
  <2>1. m = "failText" => Bad
    BY <1>1 DEF Bad, Refused
  <2> QED BY <1>1, <1>2, <2>1, ProducerStepKeeps DEF consumerVars, bufferVars, contextVars, mainVars
<1>6. \A j \in 1 .. LineCount : Has(p, j)' <=> Has(p, j) \/ (j = i /\ ~Refused(i))
  <2> SUFFICES ASSUME NEW j \in 1 .. LineCount
               PROVE  Has(p, j)' <=> Has(p, j) \/ (j = i /\ ~Refused(i))
    OBVIOUS
  <2>1. Has(p, j)' <=> Start(p) <= input.first[j] /\ input.first[j] < pos'[p]
    BY <1>3 DEF Has
  <2>2. i \in 1 .. LineCount + 1 /\ j \in 1 .. LineCount + 1
    BY <1>4
  <2>3. (i < j => input.first[i] < input.first[j]) /\ (j < i => input.first[j] < input.first[i])
    BY <1>2, <2>2, FirstGrows
  <2>4. i + 1 < j => input.first[i + 1] < input.first[j]
    BY <1>2, <1>4, <2>2, FirstGrows
  <2>5. i < j => j = i + 1 \/ i + 1 < j
    OBVIOUS
  <2>6. input.first[j] < input.first[i + 1] <=> input.first[j] < input.first[i] \/ j = i
    BY <1>4, <2>2, <2>3, <2>4, <2>5
  <2> QED BY <1>1, <1>2, <2>1, <2>6 DEF Has
<1>7. \A q \in Producers, j \in 1 .. LineCount : q # p => (Has(q, j)' <=> Has(q, j))
  BY <1>2, <1>3 DEF Has
<1>8. ReadingInv'
  <2>1. ASSUME NEW q \in Producers
        PROVE  /\ \A j \in 1 .. LineCount : Has(q, j)' => input.first[j] < End(q) /\ ~Refused(j)
               /\ ppc'[q] \in {"read", "push", "waiting", "notify"} =>
                     /\ q \notin run.broken /\ Start(q) <= pos'[q]
                     /\ \E k \in 1 .. LineCount + 1 : pos'[q] = input.first[k]
    <3>1. CASE q = p
      <4>1. \A j \in 1 .. LineCount : Has(p, j)' => input.first[j] < End(p) /\ ~Refused(j)
        BY <1>1, <1>6 DEF CountInv, ReadingInv
      <4>2. Start(p) <= pos'[p]
        <5>1. Start(p) \in Nat
          BY <1>2, Ranges
        <5> QED BY <1>1, <1>2, <1>4, <5>1
      <4>3. \E k \in 1 .. LineCount + 1 : pos'[p] = input.first[k]
        BY <1>2, <1>4
      <4> QED BY <1>1, <3>1, <4>1, <4>2, <4>3
    <3>2. CASE q # p
      <4>1. \A j \in 1 .. LineCount : Has(q, j)' => input.first[j] < End(q) /\ ~Refused(j)
        BY <1>7, <3>2 DEF CountInv, ReadingInv
      <4> QED BY <1>2, <3>2, <4>1 DEF CountInv, ReadingInv
    <3> QED BY <3>1, <3>2
  <2> QED BY <1>3, <2>1 DEF ReadingInv
<1>9. \A w, r : At(w, r)' <=> At(w, r) \/ (r = i /\ i \in Records /\ w = <<"block", p, 0, Len(block[p]) + 1>>)
  <2> SUFFICES ASSUME NEW w, NEW r
               PROVE  At(w, r)' <=> At(w, r) \/ (r = i /\ i \in Records /\ w = <<"block", p, 0, Len(block[p]) + 1>>)
    OBVIOUS
  <2>1. (Queued(w, r)' <=> Queued(w, r)) /\ (InHand(w, r)' <=> InHand(w, r)) /\ (Added(w, r)' <=> Added(w, r))
    BY <1>1, <1>3 DEF Queued, InHand, Added, consumerVars, bufferVars, contextVars
  <2>2. InBlock(w, r)' <=> InBlock(w, r) \/ (r = i /\ i \in Records /\ w = <<"block", p, 0, Len(block[p]) + 1>>)
    <3>1. CASE i \notin Records
      BY <1>1, <3>1 DEF InBlock
    <3>2. CASE i \in Records
      <4> DEFINE new == Append(block[p], i)
      <4>1. /\ DOMAIN new = DOMAIN block[p] \union {Len(block[p]) + 1}
            /\ Len(block[p]) + 1 \notin DOMAIN block[p]
            /\ new[Len(block[p]) + 1] = i
            /\ \A k \in DOMAIN block[p] : new[k] = block[p][k]
        BY <1>2, <3>2
      <4>2. block'[p] = new
        BY <1>2, <3>2
      <4> HIDE DEF new
      <4> QED BY <1>2, <3>2, <4>1, <4>2 DEF InBlock
    <3> QED BY <3>1, <3>2
  <2> QED BY <2>1, <2>2 DEF At
<1>10. ASSUME NEW r \in Records PROVE Placed(r)'
  <2>0. Placed(r) /\ r \in 1 .. LineCount /\ UNCHANGED counted
    BY <1>1, <1>4 DEF CountInv, mainVars
  <2>1. CASE r # i
    <3>1. IsRead(r)' <=> IsRead(r)
      BY <1>6, <1>7, <2>0, <2>1 DEF IsRead
    <3> QED BY <1>9, <2>0, <2>1, <3>1 DEF Placed
  <2>2. CASE r = i
    <3>1. ~IsRead(i)
      <4>1. ASSUME NEW q \in Producers, Has(q, i) PROVE FALSE
        <5>1. input.first[i] < End(q)
          BY <4>1 DEF CountInv, ReadingInv
        <5>2. q = p
          BY <1>1, <1>2, <1>4, <4>1, <5>1, OneReader DEF Has
        <5> QED BY <1>1, <1>4, <4>1, <5>2 DEF Has
      <4>2. counted = 0
        BY <1>1 DEF CountInv, MainInv
      <4> QED BY <4>1, <4>2 DEF IsRead
    <3>2. \A w : ~At(w, i)
      BY <2>0, <2>2, <3>1 DEF Placed
    <3>3. IsRead(r)'
      BY <1>4, <1>6, <2>0, <2>2 DEF IsRead
    <3>4. \A w : ~At(w, r)
      BY <2>2, <3>2
    <3>5. \A w : At(w, r)' <=> w = <<"block", p, 0, Len(block[p]) + 1>>
      BY <1>9, <2>2, <3>4
    <3>6. \E w : At(w, r)'
      BY <3>5
    <3>7. \A v, w : At(v, r)' /\ At(w, r)' => v = w
      BY <3>5
    <3> QED BY <3>3, <3>6, <3>7 DEF Placed
  <2> QED BY <2>1, <2>2
<1> QED BY <1>3, <1>5, <1>8, <1>10 DEF CountInv

\* A producer pushes its block: the places in it become places in the queue.
LEMMA PushKeepsCount ==
    ASSUME TypeInv, CountInv, NEW p \in Producers, Push(p) PROVE CountInv'
<1>1. /\ UNCHANGED <<runVars, pos, consumerVars, closed, stopped, notEmpty, popped, contextVars, mainVars>>
      /\ ppc[p] = "push" /\ Given /\ ThreadsOK /\ BufferOK
  BY PushIs DEF TypeInv
<1>2. /\ LineCount' = LineCount /\ input' = input /\ run' = run
      /\ Records' = Records /\ Slots' = Slots
  BY <1>1, RunStays
<1>3. \A q \in Producers : q # p => pos'[q] = pos[q] /\ block'[q] = block[q]
  BY <1>1, PushIs DEF ThreadsOK
<1>4. PICK m \in {"done", "waiting", "notify"} : ppc' = [ppc EXCEPT ![p] = m] /\ (m = "done" => stopped)
  BY PushIs
<1>5. FailingInv' /\ DrainingInv' /\ MainInv'
  <2>1. m = "done" => failed
    BY <1>4 DEF CountInv, FailingInv
  <2> QED BY <1>1, <1>3, <1>4, <2>1, ProducerStepKeeps DEF consumerVars, contextVars, mainVars
<1>6. ReadingInv'
  <2>1. \A q \in Producers : ppc'[q] \in {"read", "push", "waiting", "notify"}
                               => ppc[q] \in {"read", "push", "waiting", "notify"}
    BY <1>1, <1>4 DEF ThreadsOK
  <2> QED BY <1>1, <2>1, ReadingStays DEF CountInv
<1>7. ASSUME NEW r \in Records PROVE Placed(r)'
  <2>0. IsRead(r)' <=> IsRead(r)
    BY <1>1, <1>2 DEF IsRead, Has, Start, mainVars
  <2>2. CASE UNCHANGED <<block, queue>>
    <3>1. \A w : At(w, r)' <=> At(w, r)
      BY <1>1, <1>2, <2>2 DEF At, InBlock, Queued, InHand, Added, consumerVars, contextVars
    <3> QED BY <2>0, <3>1 DEF CountInv, Placed
  <2>3. CASE queue' = Append(queue, block[p]) /\ block' = [block EXCEPT ![p] = <<>>]
    <3> DEFINE F(v) == IF v[1] = "block" /\ v[2] = p THEN <<"queue", 0, Len(queue) + 1, v[4]>> ELSE v
               B == block[p]
    <3>1. /\ \A q \in Producers : block'[q] = IF q = p THEN <<>> ELSE block[q]
          /\ DOMAIN <<>> = {}
      BY <1>1, <2>3 DEF ThreadsOK
    <3>2. /\ DOMAIN queue' = DOMAIN queue \union {Len(queue) + 1}
          /\ Len(queue) + 1 \notin DOMAIN queue
          /\ queue'[Len(queue) + 1] = B
          /\ \A j \in DOMAIN queue : queue'[j] = queue[j]
      BY <1>1, <2>3 DEF BufferOK, ThreadsOK
    <3>3. \A w : (InHand(w, r)' <=> InHand(w, r)) /\ (Added(w, r)' <=> Added(w, r))
      BY <1>1, <1>2 DEF InHand, Added, consumerVars, contextVars
    <3>4. \A w : InBlock(w, r)' => InBlock(w, r) /\ F(w) = w
      BY <3>1 DEF InBlock
    <3>5. \A w : Queued(w, r)' => \/ Queued(w, r) /\ F(w) = w
                                  \/ \E k \in DOMAIN B : /\ B[k] = r /\ w = <<"queue", 0, Len(queue) + 1, k>>
      BY <3>2 DEF Queued
    <3>6. \A k \in DOMAIN B : B[k] = r => /\ InBlock(<<"block", p, 0, k>>, r)
                                          /\ F(<<"block", p, 0, k>>) = <<"queue", 0, Len(queue) + 1, k>>
      BY DEF InBlock
    <3>7. \A w : InHand(w, r) \/ Added(w, r) => F(w) = w
      BY DEF InHand, Added
    <3>8. \A v, w : InBlock(v, r) /\ w = F(v) => InBlock(w, r)' \/ Queued(w, r)'
      <4> SUFFICES ASSUME NEW v, NEW q \in Producers, NEW k \in DOMAIN block[q],
                          v = <<"block", q, 0, k>>, block[q][k] = r, NEW w, w = F(v)
                   PROVE  InBlock(w, r)' \/ Queued(w, r)'
        BY DEF InBlock
      <4>1. CASE q = p
        <5>1. w = <<"queue", 0, Len(queue) + 1, k>>
          BY <4>1
        <5> QED BY <3>2, <4>1, <5>1 DEF Queued
      <4>2. CASE q # p
        <5>1. w = v
          BY <4>2
        <5> QED BY <3>1, <4>2, <5>1 DEF InBlock
      <4> QED BY <4>1, <4>2
    <3>9. \A v : Queued(v, r) => Queued(v, r)' /\ F(v) = v
      BY <3>2 DEF Queued
    <3> HIDE DEF F, B
    <3>10. \A w : At(w, r)' => \E v : At(v, r) /\ F(v) = w
      <4>1. \A w : InBlock(w, r)' \/ InHand(w, r)' \/ Added(w, r)' => At(w, r) /\ F(w) = w
        BY <3>3, <3>4, <3>7 DEF At
      <4>2. \A w : Queued(w, r)' => \E v : At(v, r) /\ F(v) = w
        BY <3>5, <3>6 DEF At
      <4> QED BY <4>1, <4>2 DEF At
    <3>11. \A v, w : At(v, r) /\ w = F(v) => At(w, r)'
      BY <3>3, <3>7, <3>8, <3>9 DEF At
    <3> QED BY <2>0, <3>10, <3>11 DEF CountInv, Placed
  <2> QED BY <2>2, <2>3, PushIs
<1> QED BY <1>2, <1>5, <1>6, <1>7 DEF CountInv

\* What a consumer that goes on must respect
LEMMA ConsumerStepKeeps ==
    ASSUME TypeInv, CountInv, NEW c \in Consumers, cpc[c] \notin {"created", "done"},
           UNCHANGED <<runVars, pos, block, closed, stopped, failed, mpc, counted, outcome>>,
           \A q \in Producers : ppc'[q] = ppc[q] \/ (ppc[q] = "waiting" /\ ppc'[q] = "push"),
           \A d \in Consumers : d # c => cpc'[d] = cpc[d] /\ hand'[d] = hand[d],
           cpc'[c] \notin {"notify", "apply"} => hand'[c] = <<>>,
           cpc'[c] = "done" => stopped \/ (closed /\ queue' = <<>>),
           queue' = queue \/ queue # <<>>
    PROVE  ReadingInv' /\ FailingInv' /\ DrainingInv' /\ MainInv'
<1>1. /\ Bad' = Bad /\ Accepted' = Accepted /\ run' = run /\ input' = input
      /\ \A q : End(q)' = End(q) /\ \A i : Refused(i)' = Refused(i)
  BY RunStays
<1>2. ReadingInv'
  <2>1. \A q \in Producers : ppc'[q] \in {"read", "push", "waiting", "notify"}
                               => ppc[q] \in {"read", "push", "waiting", "notify"}
    OBVIOUS
  <2> QED BY <2>1, ReadingStays DEF CountInv
<1>3. FailingInv'
  BY <1>1 DEF CountInv, FailingInv
<1>4. mpc \notin {"joinMonitor", "exit"} /\ run.mode # "seq"
  BY DEF CountInv, DrainingInv, MainInv
<1>5. DrainingInv'
  <2>1. closed => \A q \in Producers : ppc'[q] = "done"
    BY DEF CountInv, DrainingInv
  <2>2. ASSUME NEW d \in Consumers
        PROVE  /\ cpc'[d] \notin {"notify", "apply"} => hand'[d] = <<>>
               /\ cpc'[d] = "done" => stopped \/ (closed /\ queue' = <<>>)
    <3>1. CASE d = c
      BY <3>1
    <3>2. CASE d # c
      BY <3>2 DEF CountInv, DrainingInv
    <3> QED BY <3>1, <3>2
  <2>3. mpc \in {"notify", "joinConsumers", "joinMonitor"} => closed
    BY DEF CountInv, DrainingInv
  <2> QED BY <1>4, <2>1, <2>2, <2>3 DEF DrainingInv
<1>6. MainInv'
  BY <1>1, <1>4 DEF CountInv, MainInv
<1> QED BY <1>2, <1>3, <1>5, <1>6

\* A consumer notifies, or a wait ends with no notification.
LEMMA ConsumerWakesKeepCount ==
    ASSUME TypeInv, CountInv, Spurious \/ \E c \in Consumers : NotifyNotFull(c) PROVE CountInv'
<1>0. /\ UNCHANGED <<runVars, pos, block, hand, next, queue, closed, stopped, failed, tally, mpc, counted, outcome>>
      /\ ThreadsOK /\ ParkedOK
  BY DEF Spurious, NotifyNotFull, contextVars, mainVars, TypeInv
<1>1. ReadingInv' /\ FailingInv' /\ DrainingInv' /\ MainInv'
  <2>1. CASE \E p \in notFull : ppc' = [ppc EXCEPT ![p] = "push"] /\ UNCHANGED cpc
    <3>1. PICK p \in Producers : ppc[p] = "waiting" /\ ppc' = [ppc EXCEPT ![p] = "push"]
      BY <1>0, <2>1 DEF ParkedOK
    <3>2. FailingInv' /\ DrainingInv' /\ MainInv'
      BY <1>0, <2>1, <3>1, ProducerStepKeeps
    <3>3. \A q \in Producers : ppc'[q] \in {"read", "push", "waiting", "notify"}
                                 => ppc[q] \in {"read", "push", "waiting", "notify"}
      BY <1>0, <3>1 DEF ThreadsOK
    <3> QED BY <1>0, <3>2, <3>3, ReadingStays DEF CountInv
  <2>2. CASE \E c \in notEmpty : cpc' = [cpc EXCEPT ![c] = "pop"] /\ UNCHANGED ppc
    <3>1. PICK c \in Consumers : cpc[c] = "waiting" /\ cpc' = [cpc EXCEPT ![c] = "pop"]
      BY <1>0, <2>2 DEF ParkedOK
    <3>2. cpc'[c] = "pop" /\ \A d \in Consumers : d # c => cpc'[d] = cpc[d]
      BY <1>0, <3>1 DEF ThreadsOK
    <3>3. hand[c] = <<>>
      BY <3>1 DEF CountInv, DrainingInv
    <3> QED BY <1>0, <2>2, <3>1, <3>2, <3>3, ConsumerStepKeeps
  <2>3. CASE \E c \in Consumers : NotifyNotFull(c)
    <3>1. PICK c \in Consumers : NotifyNotFull(c)
      BY <2>3
    <3>2. cpc[c] = "notify" /\ cpc'[c] = "apply" /\ \A d \in Consumers : d # c => cpc'[d] = cpc[d]
      BY <1>0, <3>1 DEF NotifyNotFull, ConsumerGoto, ThreadsOK
    <3>3. UNCHANGED ppc \/ \E p \in notFull : ppc' = [ppc EXCEPT ![p] = "push"]
      BY <3>1 DEF NotifyNotFull, WakeProducer, ProducerGoto
    <3>4. \A q \in Producers : ppc'[q] = ppc[q] \/ (ppc[q] = "waiting" /\ ppc'[q] = "push")
      BY <1>0, <3>3 DEF ThreadsOK, ParkedOK
    <3> QED BY <1>0, <3>2, <3>4, ConsumerStepKeeps
  <2> QED BY <2>1, <2>2, <2>3 DEF Spurious, SpuriousWakeup, ProducerGoto, ConsumerGoto
<1>2. \A r \in Records' : Placed(r)'
  BY <1>0, PlacesStay DEF CountInv
<1> QED BY <1>1, <1>2 DEF CountInv

\* A consumer pops a block: the places of the first block become places in its
\* hand, those of the others move up.
LEMMA PopKeepsCount ==
    ASSUME TypeInv, CountInv, NEW c \in Consumers, Pop(c) PROVE CountInv'
<1>1. /\ UNCHANGED <<runVars, producerVars, closed, stopped, notFull, pushed, maxDepth, contextVars, mainVars>>
      /\ cpc[c] = "pop" /\ Given /\ ThreadsOK /\ BufferOK
  BY PopIs DEF TypeInv
<1>2. /\ LineCount' = LineCount /\ input' = input /\ run' = run
      /\ Records' = Records /\ Slots' = Slots
  BY <1>1, RunStays
<1>3. hand[c] = <<>>
  BY <1>1 DEF CountInv, DrainingInv
<1>4. PICK m \in {"done", "waiting", "notify"} :
        /\ cpc' = [cpc EXCEPT ![c] = m]
        /\ m = "done" => stopped \/ (closed /\ queue = <<>> /\ queue' = queue)
        /\ \/ m \in {"done", "waiting"} /\ UNCHANGED <<hand, next, queue>>
           \/ /\ m = "notify" /\ queue # <<>> /\ queue' = Tail(queue)
              /\ hand' = [hand EXCEPT ![c] = Head(queue)] /\ next' = [next EXCEPT ![c] = 1]
  BY PopIs
<1>5. ReadingInv' /\ FailingInv' /\ DrainingInv' /\ MainInv'
  <2>1. cpc'[c] = m /\ \A d \in Consumers : d # c => cpc'[d] = cpc[d] /\ hand'[d] = hand[d]
    BY <1>1, <1>4 DEF ThreadsOK
  <2>2. m \in {"done", "waiting"} => hand'[c] = <<>>
    BY <1>3, <1>4
  <2> QED BY <1>1, <1>4, <2>1, <2>2, ConsumerStepKeeps DEF producerVars, contextVars, mainVars
<1>6. ASSUME NEW r \in Records PROVE Placed(r)'
  <2>0. IsRead(r)' <=> IsRead(r)
    BY <1>1, <1>2 DEF IsRead, Has, Start, producerVars, mainVars
  <2>1. \A w : (InBlock(w, r)' <=> InBlock(w, r)) /\ (Added(w, r)' <=> Added(w, r))
    BY <1>1, <1>2 DEF InBlock, Added, producerVars, contextVars
  <2>2. CASE UNCHANGED <<hand, next, queue>>
    <3>1. \A w : At(w, r)' <=> At(w, r)
      BY <2>1, <2>2 DEF At, Queued, InHand
    <3> QED BY <2>0, <3>1 DEF CountInv, Placed
  <2>3. CASE /\ queue # <<>> /\ queue' = Tail(queue)
             /\ hand' = [hand EXCEPT ![c] = Head(queue)] /\ next' = [next EXCEPT ![c] = 1]
    <3> DEFINE F(v) == IF v[1] # "queue" THEN v
                       ELSE IF v[3] = 1 THEN <<"hand", c, 0, v[4]>> ELSE <<"queue", 0, v[3] - 1, v[4]>>
    <3>1. /\ \A d \in Consumers : hand'[d] = IF d = c THEN queue[1] ELSE hand[d]
          /\ \A d \in Consumers : next'[d] = IF d = c THEN 1 ELSE next[d]
          /\ DOMAIN <<>> = {} /\ \A k \in DOMAIN queue[1] : k >= 1 /\ 1 \in DOMAIN queue
      <4>1. Head(queue) = queue[1] /\ 1 \in DOMAIN queue /\ queue[1] \in Seq(Records)
        BY <1>1, <2>3 DEF BufferOK
      <4> QED BY <1>1, <2>3, <4>1 DEF ThreadsOK
    <3>2. /\ \A j \in DOMAIN queue' : j + 1 \in DOMAIN queue /\ queue'[j] = queue[j + 1] /\ j + 1 # 1 /\ (j + 1) - 1 = j
          /\ \A j \in DOMAIN queue : j # 1 => j - 1 \in DOMAIN queue' /\ queue'[j - 1] = queue[j]
      <4>1. queue \in Seq(Seq(Records)) /\ queue # <<>>
        BY <1>1, <2>3 DEF BufferOK
      <4>2. Tail(queue) \in Seq(Seq(Records)) /\ Len(Tail(queue)) = Len(queue) - 1
            /\ \A j \in 1 .. Len(queue) - 1 : Tail(queue)[j] = queue[j + 1]
        BY <4>1
      <4>3. DOMAIN queue = 1 .. Len(queue) /\ DOMAIN Tail(queue) = 1 .. Len(queue) - 1 /\ Len(queue) \in Nat
        BY <4>1, <4>2
      <4>4. \A j \in DOMAIN queue' : j + 1 \in DOMAIN queue /\ queue'[j] = queue[j + 1] /\ j + 1 # 1 /\ (j + 1) - 1 = j
        BY <2>3, <4>2, <4>3
      <4>5. ASSUME NEW j \in DOMAIN queue, j # 1 PROVE j - 1 \in DOMAIN queue' /\ queue'[j - 1] = queue[j]
        <5>1. j - 1 \in 1 .. Len(queue) - 1 /\ (j - 1) + 1 = j
          BY <4>3, <4>5
        <5> QED BY <2>3, <4>2, <4>3, <5>1
      <4> QED BY <4>4, <4>5
    <3>3. \A w : InBlock(w, r) \/ Added(w, r) => F(w) = w
      BY DEF InBlock, Added
    <3>4. \A w : Queued(w, r)' => \E v : Queued(v, r) /\ F(v) = w
      <4> SUFFICES ASSUME NEW w, Queued(w, r)' PROVE \E v : Queued(v, r) /\ F(v) = w
        OBVIOUS
      <4>0. PICK j \in DOMAIN queue' : \E k \in DOMAIN queue'[j] : w = <<"queue", 0, j, k>> /\ queue'[j][k] = r
        BY DEF Queued
      <4> PICK k \in DOMAIN queue'[j] : w = <<"queue", 0, j, k>> /\ queue'[j][k] = r
        BY <4>0
      <4>1. Queued(<<"queue", 0, j + 1, k>>, r)
        BY <3>2 DEF Queued
      <4>2. F(<<"queue", 0, j + 1, k>>) = w
        BY <3>2
      <4> QED BY <4>1, <4>2
    <3>5. \A w : InHand(w, r)' => \E v : (InHand(v, r) \/ Queued(v, r)) /\ F(v) = w
      <4> SUFFICES ASSUME NEW w, InHand(w, r)' PROVE \E v : (InHand(v, r) \/ Queued(v, r)) /\ F(v) = w
        OBVIOUS
      <4>0. PICK d \in Consumers : \E k \in DOMAIN hand'[d] :
                k >= next'[d] /\ w = <<"hand", d, 0, k>> /\ hand'[d][k] = r
        BY DEF InHand
      <4> PICK k \in DOMAIN hand'[d] : k >= next'[d] /\ w = <<"hand", d, 0, k>> /\ hand'[d][k] = r
        BY <4>0
      <4>1. CASE d = c
        <5>1. Queued(<<"queue", 0, 1, k>>, r)
          BY <3>1, <4>1 DEF Queued
        <5>2. F(<<"queue", 0, 1, k>>) = w
          BY <4>1
        <5> QED BY <5>1, <5>2
      <4>2. CASE d # c
        <5>1. InHand(<<"hand", d, 0, k>>, r)
          BY <3>1, <4>2 DEF InHand
        <5>2. F(<<"hand", d, 0, k>>) = w
          OBVIOUS
        <5> QED BY <5>1, <5>2
      <4> QED BY <4>1, <4>2
    <3>6. \A v, w : Queued(v, r) /\ w = F(v) => Queued(w, r)' \/ InHand(w, r)'
      <4> SUFFICES ASSUME NEW j \in DOMAIN queue, NEW k \in DOMAIN queue[j], queue[j][k] = r,
                          NEW w, w = F(<<"queue", 0, j, k>>)
                   PROVE  Queued(w, r)' \/ InHand(w, r)'
        BY DEF Queued
      <4>1. CASE j = 1
        <5>1. w = <<"hand", c, 0, k>>
          BY <4>1
        <5> QED BY <3>1, <4>1, <5>1 DEF InHand
      <4>2. CASE j # 1
        <5>1. w = <<"queue", 0, j - 1, k>>
          BY <4>2
        <5> QED BY <3>2, <4>2, <5>1 DEF Queued
      <4> QED BY <4>1, <4>2
    <3>7. \A v : InHand(v, r) => InHand(v, r)' /\ F(v) = v
      BY <1>3, <3>1 DEF InHand
    <3> HIDE DEF F
    <3>8. \A w : At(w, r)' => \E v : At(v, r) /\ F(v) = w
      BY <2>1, <3>3, <3>4, <3>5 DEF At
    <3>9. \A v, w : At(v, r) /\ w = F(v) => At(w, r)'
      BY <2>1, <3>3, <3>6, <3>7 DEF At
    <3> QED BY <2>0, <3>8, <3>9 DEF CountInv, Placed
  <2> QED BY <1>4, <2>2, <2>3
<1> QED BY <1>2, <1>5, <1>6 DEF CountInv

\* A record that was not added is in no array.
LEMMA NotAdded ==
    ASSUME TypeInv, NEW r \in Records, \A w : ~Added(w, r)
    PROVE  \A s \in Slots : tally[s][r] = 0
<1> SUFFICES ASSUME NEW s \in Slots, tally[s][r] # 0 PROVE FALSE
  OBVIOUS
<1>1. tally[s][r] \in Nat
  BY DEF TypeInv, CountersOK
<1>2. 1 \in 1 .. tally[s][r]
  BY <1>1
<1>3. Added(<<"tally", s, 0, 1>>, r)
  BY <1>2 DEF Added
<1> QED BY <1>3

\* A consumer adds a record, for the first time.
LEMMA ApplyRecordIs ==
    ASSUME TypeInv, CountInv, NEW c \in Consumers, ApplyRecord(c)
    PROVE  \E x \in Records, s \in Slots, n \in DOMAIN hand[c] :
             /\ n = next[c] /\ hand[c][n] = x
             /\ \A t \in Slots, r \in Records : tally'[t][r] = IF t = s /\ r = x THEN 1 ELSE tally[t][r]
             /\ \A d \in Consumers : next'[d] = IF d = c THEN n + 1 ELSE next[d]
             /\ \A t \in Slots : tally[t][x] = 0
             /\ \A w : At(w, x) => w = <<"hand", c, 0, n>>
<1> DEFINE n == next[c]
           x == hand[c][n]
           s == SlotOf(c)
<1>0. n \in DOMAIN hand[c] /\ x \in Records /\ n \in Nat /\ s \in Slots
  <2>1. hand[c] \in Seq(Records) /\ next[c] \in Nat /\ next[c] # 0 /\ next[c] <= Len(hand[c])
    BY DEF TypeInv, ThreadsOK, ApplyRecord
  <2> QED BY <2>1, SlotIsOne
<1>1. tally' = [tally EXCEPT ![s][x] = @ + 1] /\ next' = [next EXCEPT ![c] = n + 1]
  BY DEF ApplyRecord, TypeInv, ThreadsOK
<1>2. InHand(<<"hand", c, 0, n>>, x)
  BY <1>0 DEF InHand
<1>3. \A w : At(w, x) => w = <<"hand", c, 0, n>>
  BY <1>0, <1>2 DEF CountInv, Placed, At
<1>4. \A w : ~Added(w, x)
  <2>1. \A w : Added(w, x) => w[1] = "tally"
    BY DEF Added
  <2>2. \A w : Added(w, x) => w[1] = "hand"
    BY <1>3 DEF At
  <2> QED BY <2>1, <2>2
<1>5. \A t \in Slots : tally[t][x] = 0
  BY <1>0, <1>4, NotAdded
<1> HIDE DEF s, x, n
<1>6. \A t \in Slots, r \in Records : tally'[t][r] = IF t = s /\ r = x THEN 1 ELSE tally[t][r]
  BY <1>0, <1>1, <1>5 DEF TypeInv, CountersOK
<1>7. \A d \in Consumers : next'[d] = IF d = c THEN n + 1 ELSE next[d]
  BY <1>1 DEF TypeInv, ThreadsOK
<1>8. n = next[c] /\ hand[c][n] = x
  BY DEF n, x
<1> QED BY <1>0, <1>3, <1>5, <1>6, <1>7, <1>8

\* The record leaves the hand for an array.
LEMMA ApplyRecordKeepsCount ==
    ASSUME TypeInv, CountInv, NEW c \in Consumers, ApplyRecord(c) PROVE CountInv'
<1>1. /\ UNCHANGED <<runVars, producerVars, cpc, hand, bufferVars, failed, mainVars>>
      /\ cpc[c] = "apply" /\ Given /\ ThreadsOK
  BY DEF ApplyRecord, TypeInv
<1>2. /\ LineCount' = LineCount /\ input' = input /\ run' = run
      /\ Records' = Records /\ Slots' = Slots
  BY <1>1, RunStays
<1>3. ReadingInv' /\ FailingInv' /\ DrainingInv' /\ MainInv'
  BY <1>1, ConsumerStepKeeps DEF producerVars, bufferVars, mainVars
<1>4. PICK x \in Records, s \in Slots, n \in DOMAIN hand[c] :
        /\ n = next[c] /\ hand[c][n] = x
        /\ \A t \in Slots, r \in Records : tally'[t][r] = IF t = s /\ r = x THEN 1 ELSE tally[t][r]
        /\ \A d \in Consumers : next'[d] = IF d = c THEN n + 1 ELSE next[d]
        /\ \A t \in Slots : tally[t][x] = 0
        /\ \A w : At(w, x) => w = <<"hand", c, 0, n>>
  BY ApplyRecordIs
<1>5. ASSUME NEW r \in Records PROVE Placed(r)'
  <2>0. IsRead(r)' <=> IsRead(r)
    BY <1>1, <1>2 DEF IsRead, Has, Start, producerVars, mainVars
  <2>1. \A w : (InBlock(w, r)' <=> InBlock(w, r)) /\ (Queued(w, r)' <=> Queued(w, r))
    BY <1>1, <1>2 DEF InBlock, Queued, producerVars, bufferVars
  <2>2. n \in Nat /\ \A k \in DOMAIN hand[c] : k \in Nat
    BY <1>1 DEF ThreadsOK
  <2>3. CASE r # x
    <3>1. \A w : Added(w, r)' <=> Added(w, r)
      BY <1>2, <1>4, <2>3 DEF Added
    <3>2. \A k \in DOMAIN hand[c] : hand[c][k] = r => (k >= n <=> k >= n + 1)
      BY <1>4, <2>2, <2>3
    <3>3. \A w : InHand(w, r)' <=> InHand(w, r)
      BY <1>1, <1>4, <3>2 DEF InHand
    <3>4. \A w : At(w, r)' <=> At(w, r)
      BY <2>1, <3>1, <3>3 DEF At
    <3> QED BY <2>0, <3>4 DEF CountInv, Placed
  <2>4. CASE r = x
    <3>1. \A w : At(w, r) => w = <<"hand", c, 0, n>>
      BY <1>4, <2>4
    <3>2. \A w : ~InBlock(w, r) /\ ~Queued(w, r)
      <4>1. \A w : (InBlock(w, r) => w[1] = "block") /\ (Queued(w, r) => w[1] = "queue")
        BY DEF InBlock, Queued
      <4>2. \A w : At(w, r) => w[1] = "hand"
        BY <3>1
      <4> QED BY <4>1, <4>2 DEF At
    <3>3. \A w : ~(InHand(w, r)')
      <4> SUFFICES ASSUME NEW w, InHand(w, r)' PROVE FALSE
        OBVIOUS
      <4>1. PICK d \in Consumers : \E k \in DOMAIN hand[d] :
                k >= next'[d] /\ w = <<"hand", d, 0, k>> /\ hand[d][k] = r
        BY <1>1 DEF InHand
      <4>2. PICK k \in DOMAIN hand[d] : k >= next'[d] /\ w = <<"hand", d, 0, k>> /\ hand[d][k] = r
        BY <4>1
      <4>3. k >= next[d] /\ (d = c => k >= n + 1)
        <5>1. k \in Nat
          BY <1>1 DEF ThreadsOK
        <5> QED BY <1>4, <2>2, <4>2, <5>1
      <4>4. InHand(w, r)
        BY <4>2, <4>3 DEF InHand
      <4>5. w = <<"hand", c, 0, n>>
        BY <3>1, <4>4 DEF At
      <4>6. d = c /\ k = n
        BY <4>2, <4>5
      <4> QED BY <2>2, <4>3, <4>6
    <3>4. \A w : Added(w, r)' <=> w = <<"tally", s, 0, 1>>
      <4>1. \A t \in Slots : tally'[t][r] = IF t = s THEN 1 ELSE 0
        BY <1>4, <2>4
      <4>2. 1 .. 1 = {1} /\ 1 .. 0 = {}
        OBVIOUS
      <4> QED BY <1>2, <4>1, <4>2 DEF Added
    <3>5. \A w : At(w, r)' <=> w = <<"tally", s, 0, 1>>
      BY <2>1, <3>2, <3>3, <3>4 DEF At
    <3>6. \E w : At(w, r)
      <4>1. InHand(<<"hand", c, 0, n>>, r)
        BY <1>4, <2>2, <2>4 DEF InHand
      <4> QED BY <4>1 DEF At
    <3>7. IsRead(r)'
      BY <2>0, <3>6 DEF CountInv, Placed
    <3>8. \E w : At(w, r)'
      BY <3>5
    <3>9. \A v, w : At(v, r)' /\ At(w, r)' => v = w
      BY <3>5
    <3> QED BY <3>7, <3>8, <3>9 DEF Placed
  <2> QED BY <2>3, <2>4
<1> QED BY <1>2, <1>3, <1>5 DEF CountInv

\* A consumer is done with a block: nothing is left of it.
LEMMA EndOfBlockKeepsCount ==
    ASSUME TypeInv, CountInv, NEW c \in Consumers, EndOfBlock(c) PROVE CountInv'
<1>1. /\ UNCHANGED <<runVars, producerVars, bufferVars, tally, failed, mainVars>>
      /\ cpc[c] = "apply" /\ cpc' = [cpc EXCEPT ![c] = "pop"] /\ next[c] > Len(hand[c])
      /\ hand' = [hand EXCEPT ![c] = <<>>] /\ next' = [next EXCEPT ![c] = 1] /\ ThreadsOK
  BY DEF EndOfBlock, ConsumerGoto, TypeInv
<1>2. /\ LineCount' = LineCount /\ input' = input /\ run' = run
      /\ Records' = Records /\ Slots' = Slots
  BY <1>1, RunStays
<1>3. /\ \A d \in Consumers : hand'[d] = IF d = c THEN <<>> ELSE hand[d]
      /\ \A d \in Consumers : d # c => next'[d] = next[d] /\ cpc'[d] = cpc[d]
      /\ cpc'[c] = "pop"
  BY <1>1 DEF ThreadsOK
<1>4. ReadingInv' /\ FailingInv' /\ DrainingInv' /\ MainInv'
  BY <1>1, <1>3, ConsumerStepKeeps DEF producerVars, bufferVars, mainVars
<1>5. ASSUME NEW r \in Records PROVE Placed(r)'
  <2>1. IsRead(r)' <=> IsRead(r)
    BY <1>1, <1>2 DEF IsRead, Has, Start, producerVars, mainVars
  <2>2. \A k \in DOMAIN hand[c] : ~(k >= next[c])
    <3>1. hand[c] \in Seq(Records) /\ next[c] \in Nat
      BY <1>1 DEF ThreadsOK
    <3> QED BY <1>1, <3>1
  <2>3. DOMAIN <<>> = {}
    OBVIOUS
  <2>4. \A w : InHand(w, r)' <=> InHand(w, r)
    BY <1>3, <2>2, <2>3 DEF InHand
  <2>5. \A w : At(w, r)' <=> At(w, r)
    BY <1>1, <1>2, <2>4 DEF At, InBlock, Queued, Added, producerVars, bufferVars
  <2> QED BY <2>1, <2>5 DEF CountInv, Placed
<1> QED BY <1>2, <1>4, <1>5 DEF CountInv

\* main starts, joins and ends.
LEMMA MainKeepsCount ==
    ASSUME TypeInv, CountInv,
           \/ Reject \/ StartThreads \/ StartSequential \/ ReportSequential
           \/ Close \/ CloseNotify \/ JoinConsumers \/ Monitor \/ Finish \/ UNCHANGED vars
    PROVE  CountInv'
<1>1. /\ UNCHANGED <<runVars, pos, block, hand, next, queue, tally, counted, stopped, failed>>
      /\ ThreadsOK /\ ParkedOK /\ Begun
  BY DEF Reject, StartThreads, StartSequential, ReportSequential, Close, CloseNotify, JoinConsumers, Monitor, Finish,
     vars, producerVars, consumerVars, bufferVars, contextVars, mainVars, TypeInv
<1>2. /\ Bad' = Bad /\ Accepted' = Accepted /\ run' = run /\ input' = input
      /\ \A q : End(q)' = End(q) /\ \A i : Refused(i)' = Refused(i)
  BY <1>1, RunStays
<1>3. \A r \in Records' : Placed(r)'
  BY <1>1, PlacesStay DEF CountInv
<1>4. \/ UNCHANGED ppc
      \/ mpc = "start" /\ \A p \in Producers : ppc'[p] = "open"
  BY DEF Reject, StartThreads, StartSequential, ReportSequential, Close, CloseNotify, JoinConsumers, Monitor, Finish,
     vars, producerVars
<1>5. ReadingInv'
  <2>1. \A q \in Producers : ppc'[q] \in {"read", "push", "waiting", "notify"}
                               => ppc[q] \in {"read", "push", "waiting", "notify"}
    BY <1>4
  <2> QED BY <1>1, <2>1, ReadingStays DEF CountInv
<1>6. FailingInv'
  BY <1>1, <1>2, <1>4 DEF CountInv, FailingInv
<1>7. ASSUME Reject \/ StartSequential \/ ReportSequential \/ UNCHANGED vars PROVE DrainingInv' /\ MainInv'
  <2>1. UNCHANGED <<ppc, cpc, closed>>
    BY <1>7 DEF Reject, StartSequential, ReportSequential, vars, producerVars, consumerVars, bufferVars
  <2>2. CASE UNCHANGED vars
    <3>1. UNCHANGED <<mpc, outcome>>
      BY <2>2 DEF vars, mainVars
    <3> QED BY <1>1, <1>2, <2>1, <3>1 DEF CountInv, DrainingInv, MainInv
  <2>3. CASE Reject \/ StartSequential \/ ReportSequential
    <3>1. /\ mpc \in {"start", "count"} /\ outcome = "running"
          /\ \/ mpc' = "exit" /\ outcome' \in {"aborted", "reported"}
             \/ mpc' = "count" /\ UNCHANGED outcome /\ run.broken = {} /\ Accepted /\ input.probed
      BY <2>3 DEF Reject, StartSequential, ReportSequential, CountInv, MainInv
    <3>2. \A c \in Consumers : cpc[c] = "created"
      BY <1>1, <3>1 DEF Begun, CountInv, MainInv
    <3>3. DrainingInv'
      BY <1>1, <2>1, <3>1, <3>2 DEF CountInv, DrainingInv
    <3>4. MainInv'
      BY <1>1, <1>2, <2>1, <3>1 DEF CountInv, MainInv
    <3> QED BY <3>3, <3>4
  <2> QED BY <1>7, <2>2, <2>3
<1>8. ASSUME StartThreads PROVE DrainingInv' /\ MainInv'
  <2>1. /\ mpc = "start" /\ mpc' = "joinProducers" /\ UNCHANGED <<closed, outcome>>
        /\ Accepted /\ input.probed /\ run.mode # "seq"
        /\ \A c \in Consumers : cpc[c] = "created" /\ cpc'[c] = "pop"
    BY <1>1, <1>8 DEF StartThreads, bufferVars, Begun
  <2>2. ~closed
    BY <1>1, <2>1 DEF Begun
  <2>3. DrainingInv'
    BY <1>1, <2>1, <2>2 DEF CountInv, DrainingInv
  <2>4. MainInv'
    BY <1>1, <1>2, <2>1 DEF CountInv, MainInv
  <2> QED BY <2>3, <2>4
<1>9. ASSUME Close \/ CloseNotify \/ JoinConsumers \/ Monitor \/ Finish PROVE DrainingInv' /\ MainInv'
  <2>1. /\ UNCHANGED ppc /\ outcome = "running"
        /\ mpc \in {"joinProducers", "notify", "joinConsumers", "joinMonitor"}
        /\ \/ mpc' = "exit" /\ outcome' \in {"aborted", "reported"}
           \/ mpc' \in {"notify", "joinConsumers", "joinMonitor"} /\ UNCHANGED outcome
    BY <1>9 DEF Close, CloseNotify, JoinConsumers, Monitor, Finish, producerVars, CountInv, MainInv
  <2>2. /\ closed => closed'
        /\ closed' => \A p \in Producers : ppc[p] = "done"
        /\ mpc' \in {"notify", "joinConsumers", "joinMonitor"} => closed'
    BY <1>9 DEF Close, CloseNotify, JoinConsumers, Monitor, Finish, bufferVars, CountInv, DrainingInv
  <2>3. /\ \A c \in Consumers : cpc'[c] = cpc[c] \/ (cpc[c] = "waiting" /\ cpc'[c] = "pop")
        /\ mpc' \in {"joinMonitor", "exit"} => \A c \in Consumers : cpc'[c] = "done"
    <3>1. CASE CloseNotify
      BY <1>1, <3>1 DEF CloseNotify, WakeConsumers, ParkedOK
    <3>2. CASE Close \/ JoinConsumers \/ Monitor \/ Finish
      BY <3>2 DEF Close, JoinConsumers, Monitor, Finish, consumerVars, CountInv, DrainingInv
    <3> QED BY <1>9, <3>1, <3>2
  <2>4. DrainingInv'
    <3>1. ASSUME NEW c \in Consumers
          PROVE  /\ cpc'[c] \notin {"notify", "apply"} => hand[c] = <<>>
                 /\ cpc'[c] = "done" => stopped \/ (closed' /\ queue = <<>>)
      BY <2>2, <2>3 DEF CountInv, DrainingInv
    <3> QED BY <1>1, <2>1, <2>2, <2>3, <3>1 DEF DrainingInv
  <2>5. MainInv'
    BY <1>1, <1>2, <2>1 DEF CountInv, MainInv
  <2> QED BY <2>4, <2>5
<1> QED BY <1>3, <1>5, <1>6, <1>7, <1>8, <1>9 DEF CountInv

\* What main counts: the next line, if it is not refused.
LEMMA CountLineIs ==
    ASSUME TypeInv, CountInv, CountLine
    PROVE  \E i \in 1 .. LineCount :
             /\ i = counted + 1 /\ mpc = "count" /\ run.mode = "seq" /\ Slots = {"global"}
             /\ i \in Records => ~Refused(i)
             /\ \/ Refused(i) /\ mpc' = "exit" /\ outcome' = "aborted" /\ UNCHANGED <<counted, tally>>
                \/ /\ ~Refused(i) /\ counted' = i /\ UNCHANGED <<mpc, outcome>>
                   /\ i \notin Records => tally' = tally
                   /\ i \in Records =>
                        /\ \A r \in Records : tally'["global"][r] = IF r = i THEN 1 ELSE tally["global"][r]
                        /\ tally["global"][i] = 0
                        /\ \A w : ~At(w, i)
<1> DEFINE i == counted + 1
<1>1. mpc = "count" /\ run.mode = "seq" /\ Slots = {"global"} /\ Given
  BY DEF CountLine, TypeInv, Begun, Slots
<1>2. i \in 1 .. LineCount /\ counted \in Nat
  <2>1. counted \in 0 .. LineCount
    BY DEF TypeInv, CountersOK, LineCount
  <2>2. counted # LineCount
    BY DEF CountLine, FileRead, LineCount
  <2>3. LineCount \in Nat
    BY <1>1, RunIs DEF Given
  <2> QED BY <2>1, <2>2, <2>3
<1>3. i \in Records => ~Refused(i)
  BY <1>1, LinesWithText DEF Refused
<1>4. i \in Records => \A w : ~At(w, i)
  <2>1. ASSUME NEW p \in Producers, Has(p, i) PROVE FALSE
    <3>1. ppc[p] = "created"
      BY <1>1 DEF CountInv, MainInv
    <3>2. pos[p] = Start(p) /\ Start(p) \in Nat
      BY <1>1, <3>1, Ranges DEF TypeInv, Begun
    <3>3. input.first[i] \in Nat
      BY <1>1, <1>2, RunIs, FirstBytes DEF Given
    <3> QED BY <2>1, <3>2, <3>3 DEF Has
  <2>2. i \notin 1 .. counted
    BY <1>2
  <2>3. ~IsRead(i)
    BY <2>1, <2>2 DEF IsRead
  <2> HIDE DEF i
  <2> QED BY <2>3 DEF CountInv, Placed
<1>5. i \in Records => tally["global"][i] = 0
  <2> SUFFICES ASSUME i \in Records PROVE tally["global"][i] = 0
    OBVIOUS
  <2>1. \A w : ~Added(w, i)
    BY <1>4 DEF At
  <2> HIDE DEF i
  <2> QED BY <1>1, <2>1, NotAdded
<1>6. \/ Refused(i) /\ mpc' = "exit" /\ outcome' = "aborted" /\ UNCHANGED <<counted, tally>>
      \/ /\ ~Refused(i) /\ counted' = i /\ UNCHANGED <<mpc, outcome>>
         /\ tally' = IF i \in Records THEN [tally EXCEPT !["global"][i] = @ + 1] ELSE tally
  BY DEF CountLine
<1> HIDE DEF i
<1>7. i \in Records /\ tally' = [tally EXCEPT !["global"][i] = @ + 1] =>
        \A r \in Records : tally'["global"][r] = IF r = i THEN 1 ELSE tally["global"][r]
  BY <1>1, <1>5 DEF TypeInv, CountersOK
<1>8. i = counted + 1
  BY DEF i
<1> QED BY <1>1, <1>2, <1>3, <1>4, <1>5, <1>6, <1>7, <1>8

\* main reads a line in mode seq.
LEMMA CountLineKeepsCount ==
    ASSUME TypeInv, CountInv, CountLine PROVE CountInv'
<1>1. UNCHANGED <<runVars, producerVars, consumerVars, bufferVars, failed>>
  BY DEF CountLine
<1>2. PICK i \in 1 .. LineCount :
        /\ i = counted + 1 /\ mpc = "count" /\ run.mode = "seq" /\ Slots = {"global"}
        /\ i \in Records => ~Refused(i)
        /\ \/ Refused(i) /\ mpc' = "exit" /\ outcome' = "aborted" /\ UNCHANGED <<counted, tally>>
           \/ /\ ~Refused(i) /\ counted' = i /\ UNCHANGED <<mpc, outcome>>
              /\ i \notin Records => tally' = tally
              /\ i \in Records =>
                   /\ \A r \in Records : tally'["global"][r] = IF r = i THEN 1 ELSE tally["global"][r]
                   /\ tally["global"][i] = 0
                   /\ \A w : ~At(w, i)
  BY CountLineIs
<1>3. /\ Bad' = Bad /\ Accepted' = Accepted /\ run' = run /\ input' = input
      /\ Records' = Records /\ Slots' = Slots
      /\ \A q : End(q)' = End(q) /\ \A j : Refused(j)' = Refused(j)
  BY <1>1, RunStays
<1>4. ReadingInv'
  BY <1>1, ReadingStays DEF CountInv, producerVars
<1>5. FailingInv'
  BY <1>1, <1>3 DEF CountInv, FailingInv, producerVars, bufferVars
<1>6. /\ \A c \in Consumers : cpc[c] = "created"
      /\ outcome = "running" /\ counted \in Nat
  <2>1. counted \in Nat
    BY RunIs DEF TypeInv, CountersOK, Given, LineCount
  <2> QED BY <1>2, <2>1 DEF CountInv, MainInv
<1>7. DrainingInv'
  BY <1>1, <1>2, <1>6 DEF CountInv, DrainingInv, producerVars, consumerVars, bufferVars
<1>8. MainInv'
  <2>1. \A j \in 1 .. counted' : ~Refused(j)
    <3>1. \A j \in 1 .. counted : ~Refused(j)
      BY DEF CountInv, MainInv
    <3>2. counted' = counted \/ (counted' = counted + 1 /\ ~Refused(counted + 1))
      BY <1>2
    <3>3. \A j \in 1 .. counted + 1 : j \in 1 .. counted \/ j = counted + 1
      BY <1>6
    <3> QED BY <3>1, <3>2, <3>3
  <2>2. (outcome' = "running" <=> mpc' # "exit") /\ mpc' \in {"count", "exit"}
    BY <1>2, <1>6
  <2> QED BY <1>1, <1>2, <1>3, <2>1, <2>2 DEF CountInv, MainInv, producerVars, consumerVars, bufferVars
<1>9. ASSUME NEW r \in Records PROVE Placed(r)'
  <2>0. /\ Placed(r)
        /\ \A w : (InBlock(w, r)' <=> InBlock(w, r)) /\ (Queued(w, r)' <=> Queued(w, r))
                  /\ (InHand(w, r)' <=> InHand(w, r))
        /\ \A p : Has(p, r)' <=> Has(p, r)
    BY <1>1, <1>3 DEF CountInv, InBlock, Queued, InHand, Has, Start, producerVars, consumerVars, bufferVars
  <2>1. CASE UNCHANGED <<counted, tally>>
    <3>1. (IsRead(r)' <=> IsRead(r)) /\ \A w : At(w, r)' <=> At(w, r)
      BY <1>3, <2>0, <2>1 DEF IsRead, At, Added
    <3> QED BY <2>0, <3>1 DEF Placed
  <2>2. CASE r # i /\ counted' = i /\ ~Refused(i)
    <3>1. r \in 1 .. i <=> r \in 1 .. counted
      <4>1. r \in Nat
        BY LinesWithText, RunIs DEF TypeInv, Given
      <4> QED BY <1>2, <1>6, <2>2, <4>1
    <3>2. IsRead(r)' <=> IsRead(r)
      BY <2>0, <2>2, <3>1 DEF IsRead
    <3>3. tally'["global"][r] = tally["global"][r]
      BY <1>2, <2>2
    <3>4. \A w : Added(w, r)' <=> Added(w, r)
      BY <1>2, <1>3, <3>3 DEF Added
    <3>5. \A w : At(w, r)' <=> At(w, r)
      BY <2>0, <3>4 DEF At
    <3> QED BY <2>0, <3>2, <3>5 DEF Placed
  <2>3. CASE r = i /\ counted' = i /\ ~Refused(i)
    <3>1. IsRead(r)'
      <4>1. i \in 1 .. i
        BY <1>2, <1>6
      <4> QED BY <2>3, <4>1 DEF IsRead
    <3>2. tally'["global"][r] = 1 /\ \A w : ~At(w, r)
      BY <1>2, <2>3
    <3>3. \A w : Added(w, r)' <=> w = <<"tally", "global", 0, 1>>
      <4>1. 1 .. 1 = {1}
        OBVIOUS
      <4> QED BY <1>2, <1>3, <3>2, <4>1 DEF Added
    <3>4. \A w : At(w, r)' <=> w = <<"tally", "global", 0, 1>>
      BY <2>0, <3>2, <3>3 DEF At
    <3>5. \E w : At(w, r)'
      BY <3>4
    <3>6. \A v, w : At(v, r)' /\ At(w, r)' => v = w
      BY <3>4
    <3> QED BY <3>1, <3>5, <3>6 DEF Placed
  <2> QED BY <1>2, <2>1, <2>2, <2>3
<1> QED BY <1>3, <1>4, <1>5, <1>7, <1>8, <1>9 DEF CountInv

\* Nothing is read in the initial state.
LEMMA InitCount ==
    ASSUME Init PROVE CountInv
<1>1. /\ \A p \in Producers : ppc[p] = "created" /\ pos[p] = Start(p) /\ block[p] = <<>>
      /\ \A c \in Consumers : cpc[c] = "created" /\ hand[c] = <<>>
      /\ queue = <<>> /\ closed = FALSE /\ stopped = FALSE /\ failed = FALSE
      /\ mpc = "start" /\ outcome = "running" /\ counted = 0
      /\ \A s \in Slots, r \in Records : tally[s][r] = 0
  BY DEF Init
<1>2. Given
  BY DEF Init, Given
<1>3. \A p \in Producers, i \in 1 .. LineCount : ~Has(p, i)
  <2>0. LineCount \in Nat
    BY <1>2, RunIs DEF Given
  <2>1. \A i \in 1 .. LineCount : input.first[i] \in Nat
    BY <1>2, <2>0, FirstBytes
  <2>2. \A p \in Producers : Start(p) \in Nat
    BY <1>2, Ranges
  <2> QED BY <1>1, <2>1, <2>2 DEF Has
<1>4. ReadingInv
  BY <1>1, <1>3 DEF ReadingInv
<1>5. FailingInv /\ DrainingInv
  BY <1>1 DEF FailingInv, DrainingInv
<1>6. MainInv
  BY <1>1, <1>2 DEF MainInv
<1>7. ASSUME NEW r \in Records PROVE Placed(r)
  <2>1. ~IsRead(r)
    BY <1>1, <1>2, <1>3, LinesWithText DEF IsRead
  <2>2. \A w : ~InBlock(w, r) /\ ~InHand(w, r)
    BY <1>1, <1>2 DEF InBlock, InHand
  <2>3. \A w : ~Queued(w, r) /\ ~Added(w, r)
    BY <1>1, <1>2 DEF Queued, Added
  <2> QED BY <2>1, <2>2, <2>3 DEF Placed, At
<1> QED BY <1>4, <1>5, <1>6, <1>7 DEF CountInv

\* Every step keeps the invariant.
LEMMA StepCount ==
    ASSUME TypeInv, CountInv, ReadsSucceed, [Next]_vars PROVE CountInv'
<1>1. ASSUME NEW p \in Producers, Producer(p) PROVE CountInv'
  BY <1>1, FindFirstLineKeepsCount, ReadLineKeepsCount, EndOfRangeKeepsCount, PushKeepsCount, ProducerKeepsCount
     DEF Producer
<1>2. ASSUME NEW c \in Consumers, Consumer(c) PROVE CountInv'
  BY <1>2, PopKeepsCount, ConsumerWakesKeepCount, ApplyRecordKeepsCount, EndOfBlockKeepsCount DEF Consumer
<1>3. ASSUME Main \/ Monitor \/ Spurious \/ UNCHANGED vars PROVE CountInv'
  BY <1>3, MainKeepsCount, CountLineKeepsCount, ConsumerWakesKeepCount DEF Main, Sequential
<1> QED BY <1>1, <1>2, <1>3 DEF Next, Exited

-----------------------------------------------------------------------------
(* Totals                                                                  *)

\* The total of a record over arrays t
TotalOf(t, S, r) == MapThenSumSet(LAMBDA s : t[s][r], S)

\* It is the sum of one value per array.
LEMMA TotalIsSum ==
    ASSUME NEW t, NEW S, IsFiniteSet(S), NEW r, NEW w, \A s \in S : w[s] = t[s][r]
    PROVE  TotalOf(t, S, r) = SumFunctionOnSet(w, S)
<1> DEFINE Q(g) == g = [s \in SUBSET S |-> IF s = {} THEN 0 ELSE t[FirstOf(s)][r] + g[s \ {FirstOf(s)}]]
<1>1. TotalOf(t, S, r) = (CHOOSE g : Q(g))[S]
  BY DEF TotalOf, MapThenSumSet, MapThenFoldSet, FirstOf
<1>2. \A g : Q(g) <=> IsFold(g, w, S)
  <2> SUFFICES ASSUME NEW g PROVE Q(g) <=> IsFold(g, w, S)
    OBVIOUS
  <2>1. \A s \in SUBSET S : s # {} => t[FirstOf(s)][r] = w[FirstOf(s)]
    BY FirstIsIn
  <2> QED BY <2>1 DEF IsFold
<1> HIDE DEF Q
<1>3. (CHOOSE g : Q(g)) = (CHOOSE g : IsFold(g, w, S))
  BY <1>2
<1> QED BY <1>1, <1>3, SumIsFold

\* The totals of records that were added to no array or to one of them
LEMMA TotalOfNone ==
    ASSUME NEW t, NEW S, IsFiniteSet(S), NEW r, \A s \in S : t[s][r] = 0
    PROVE  TotalOf(t, S, r) = 0
<1> DEFINE w == [s \in S |-> t[s][r]]
<1>1. \A s \in S : w[s] = 0 /\ w[s] = t[s][r]
  OBVIOUS
<1> HIDE DEF w
<1> QED BY <1>1, TotalIsSum, SumOfZeros

\* A record added once, to one array, counts once.
LEMMA TotalOfOne ==
    ASSUME NEW t, NEW S, IsFiniteSet(S), NEW r, NEW e \in S, t[e][r] = 1, \A s \in S : s # e => t[s][r] = 0
    PROVE  TotalOf(t, S, r) = 1
<1> DEFINE w == [s \in S |-> t[s][r]]
           z == [s \in S |-> 0]
<1>1. /\ \A s \in S : w[s] = t[s][r] /\ w[s] \in Int /\ z[s] = 0
      /\ \A s \in S \ {e} : w[s] = z[s]
      /\ w[e] = 1
  OBVIOUS
<1> HIDE DEF w, z
<1>2. SumFunctionOnSet(z, S) = 0
  BY <1>1, SumOfZeros
<1>3. SumFunctionOnSet(w, S) = SumFunctionOnSet(z, S) + (w[e] - z[e])
  BY <1>1, SumChanges
<1> QED BY <1>1, <1>2, <1>3, TotalIsSum

\* A total depends only on the entries of its record.
LEMMA TotalOfSame ==
    ASSUME NEW t, NEW u, NEW S, IsFiniteSet(S), NEW r, \A s \in S : t[s][r] = u[s][r]
    PROVE  TotalOf(t, S, r) = TotalOf(u, S, r)
<1> DEFINE w == [s \in S |-> t[s][r]]
<1>1. \A s \in S : w[s] = t[s][r] /\ w[s] = u[s][r]
  OBVIOUS
<1> HIDE DEF w
<1>2. TotalOf(t, S, r) = SumFunctionOnSet(w, S)
  BY <1>1, TotalIsSum
<1>3. TotalOf(u, S, r) = SumFunctionOnSet(w, S)
  BY <1>1, TotalIsSum
<1> QED BY <1>2, <1>3

\* The arrays are finitely many, and Total adds them up.
LEMMA Totals ==
    /\ IsFiniteSet(Slots)
    /\ \A r : Total(r) = TotalOf(tally, Slots, r)
    /\ \A r : Total(r)' = TotalOf(tally', Slots', r)
<1>1. IsFiniteSet(Slots)
  <2>1. IsFiniteSet({"global"})
    BY FS_Singleton
  <2> QED BY <2>1, ThreadsAssumption DEF Slots
<1>2. \A r : Total(r) = TotalOf(tally, Slots, r)
  BY DEF Total, TotalOf
<1>3. ASSUME NEW r PROVE Total(r)' = TotalOf(tally', Slots', r)
  BY DEF Total, TotalOf, MapThenSumSet, MapThenFoldSet
<1> QED BY <1>1, <1>2, <1>3

\* Steps that add nothing
LEMMA TotalsStay ==
    ASSUME UNCHANGED <<runVars, tally>>
    PROVE  /\ Records' = Records /\ Bad' = Bad
           /\ [r \in Records |-> Total(r)]' = [r \in Records |-> Total(r)]
<1>1. Records' = Records /\ Bad' = Bad /\ Slots' = Slots
  BY RunStays
<1>2. \A r : Total(r)' = Total(r)
  BY <1>1, Totals
<1>3. [r \in Records |-> Total(r)]' = [r \in Records |-> Total(r)']
  BY <1>1
<1> QED BY <1>1, <1>2, <1>3

\* A record is added for the first time.
LEMMA TotalsCount ==
    ASSUME UNCHANGED runVars, NEW x \in Records, NEW s \in Slots, \A t \in Slots : tally[t][x] = 0,
           \A t \in Slots, r \in Records : tally'[t][r] = IF t = s /\ r = x THEN 1 ELSE tally[t][r]
    PROVE  /\ Records' = Records /\ Bad' = Bad /\ Total(x) = 0
           /\ [r \in Records |-> Total(r)]' = [[r \in Records |-> Total(r)] EXCEPT ![x] = 1]
<1>1. Records' = Records /\ Bad' = Bad /\ Slots' = Slots /\ IsFiniteSet(Slots)
  BY RunStays, Totals
<1>2. Total(x) = 0
  BY <1>1, Totals, TotalOfNone
<1>3. TotalOf(tally', Slots, x) = 1
  <2>1. tally'[s][x] = 1 /\ \A t \in Slots : t # s => tally'[t][x] = 0
    OBVIOUS
  <2> QED BY <1>1, <2>1, TotalOfOne
<1>4. ASSUME NEW r \in Records, r # x PROVE TotalOf(tally', Slots, r) = TotalOf(tally, Slots, r)
  <2>1. \A t \in Slots : tally'[t][r] = tally[t][r]
    BY <1>4
  <2> QED BY <1>1, <2>1, TotalOfSame
<1>5. \A r \in Records : Total(r)' = IF r = x THEN 1 ELSE Total(r)
  BY <1>1, <1>3, <1>4, Totals
<1>6. [r \in Records |-> Total(r)]' = [r \in Records |-> Total(r)']
  BY <1>1
<1> QED BY <1>1, <1>2, <1>5, <1>6

\* A record that was read and waits nowhere was added once.
LEMMA ReadIsAdded ==
    ASSUME TypeInv, CountInv, NEW r \in Records, IsRead(r), \A p \in Producers : block[p] = <<>>,
           queue = <<>>, \A c \in Consumers : hand[c] = <<>>
    PROVE  Total(r) = 1
<1>1. Placed(r) /\ DOMAIN <<>> = {}
  BY DEF CountInv
<1>2. \A w : At(w, r) => Added(w, r)
  BY <1>1 DEF At, InBlock, Queued, InHand
<1>3. PICK s \in Slots : \E k \in 1 .. tally[s][r] : Added(<<"tally", s, 0, k>>, r)
  <2>1. \E w : Added(w, r)
    BY <1>1, <1>2 DEF Placed
  <2> QED BY <2>1 DEF Added
<1>4. \A t \in Slots : tally[t][r] \in Nat
  BY DEF TypeInv, CountersOK
<1>5. \A t \in Slots : \A k \in 1 .. tally[t][r] : Added(<<"tally", t, 0, k>>, r)
  BY DEF Added
<1>6. \A v, w : Added(v, r) /\ Added(w, r) => v = w
  BY <1>1 DEF Placed, At
<1>7. tally[s][r] = 1
  <2>1. tally[s][r] \in Nat /\ tally[s][r] >= 1
    BY <1>3, <1>4
  <2>2. 1 \in 1 .. tally[s][r] /\ tally[s][r] \in 1 .. tally[s][r]
    BY <2>1
  <2>3. <<"tally", s, 0, 1>> = <<"tally", s, 0, tally[s][r]>>
    BY <1>5, <1>6, <2>2
  <2> QED BY <2>3
<1>8. ASSUME NEW t \in Slots, t # s PROVE tally[t][r] = 0
  <2> SUFFICES ASSUME tally[t][r] # 0 PROVE FALSE
    OBVIOUS
  <2>1. 1 \in 1 .. tally[t][r] /\ 1 \in 1 .. tally[s][r]
    BY <1>4, <1>7, <1>8
  <2>2. <<"tally", s, 0, 1>> = <<"tally", t, 0, 1>>
    BY <1>5, <1>6, <2>1
  <2> QED BY <1>8, <2>2
<1> QED BY <1>7, <1>8, Totals, TotalOfOne

\* What main reports after it read the file itself
LEMMA ReportSequentialRefines ==
    ASSUME TypeInv, CountInv, ReadsSucceed, ReportSequential
    PROVE  ~Bad /\ \A r \in Records : Total(r) = 1
<1>1. mpc = "count" /\ FileRead /\ Given /\ run.mode = "seq"
  BY DEF ReportSequential, TypeInv, Begun
<1>2. run.unreadable = {}
  BY <1>1 DEF ReadsSucceed, Given
<1>3. counted = LineCount
  BY <1>1, <1>2 DEF FileRead, LineCount
<1>4. \A i \in 1 .. LineCount : ~Refused(i)
  BY <1>3 DEF CountInv, MainInv
<1>5. input.refused \subseteq 1 .. LineCount /\ Records \subseteq 1 .. LineCount
  BY <1>1, LinesWithText
<1>6. ~Bad
  BY <1>1, <1>4, <1>5 DEF CountInv, MainInv, Bad, Refused
<1>7. \A r \in Records : IsRead(r)
  BY <1>3, <1>5 DEF IsRead
<1>8. \A r \in Records : Total(r) = 1
  BY <1>1, <1>7, ReadIsAdded DEF CountInv, MainInv
<1> QED BY <1>6, <1>8

\* What main reports after it joined the threads
LEMMA FinishRefines ==
    ASSUME TypeInv, CountInv, Finish, ~failed
    PROVE  ~Bad /\ \A r \in Records : Total(r) = 1
<1>1. mpc = "joinMonitor" /\ Given
  BY DEF Finish, TypeInv
<1>2. \A p \in Producers : p \notin run.broken /\ block[p] = <<>> /\ pos[p] >= End(p)
  BY <1>1 DEF CountInv, DrainingInv, FailingInv
<1>3. queue = <<>> /\ \A c \in Consumers : hand[c] = <<>>
  <2>1. ~stopped
    BY DEF CountInv, FailingInv
  <2>2. \A c \in Consumers : cpc[c] = "done"
    BY <1>1 DEF CountInv, DrainingInv
  <2>3. Consumers # {}
    BY ThreadsAssumption
  <2> QED BY <2>1, <2>2, <2>3 DEF CountInv, DrainingInv
<1>4. Accepted /\ input.probed
  BY <1>1 DEF CountInv, MainInv
<1>5. ASSUME NEW i \in Records \union input.refused
      PROVE  i \in 1 .. LineCount /\ \E p \in Producers : Has(p, i)
  <2>1. i \in 1 .. LineCount /\ input.first[i] < FileSize(file)
    BY <1>1, LinesWithText
  <2>2. input.first[i] \in Nat
    BY <1>1, <2>1, RunIs, FirstBytes DEF Given
  <2>3. PICK p \in Producers : Start(p) <= input.first[i] /\ input.first[i] < End(p)
    BY <1>1, <2>1, <2>2, Ranges
  <2>4. pos[p] \in Nat /\ End(p) \in Nat /\ pos[p] >= End(p)
    BY <1>1, <1>2, Ranges DEF TypeInv, ThreadsOK
  <2>5. Has(p, i)
    BY <2>2, <2>3, <2>4 DEF Has
  <2> QED BY <2>1, <2>5
<1>6. ~Bad
  <2>1. input.refused = {}
    BY <1>5 DEF CountInv, ReadingInv, Refused
  <2>2. run.broken = {}
    BY <1>1, <1>2, RunIs DEF Given
  <2> QED BY <1>4, <2>1, <2>2 DEF Bad
<1>7. \A r \in Records : IsRead(r)
  BY <1>5 DEF IsRead
<1>8. \A r \in Records : Total(r) = 1
  BY <1>2, <1>3, <1>7, ReadIsAdded
<1> QED BY <1>6, <1>8

\* A step that adds nothing and does not end the run is a stutter.
LEMMA QuietStutters ==
    ASSUME UNCHANGED <<runVars, tally, outcome>> PROVE UNCHANGED CO!vars
BY TotalsStay DEF CO!vars

\* A record added for the first time is a step Count.
LEMMA CountRefines ==
    ASSUME outcome = "running", outcome' = outcome, UNCHANGED runVars, NEW x \in Records, NEW s \in Slots,
           \A t \in Slots : tally[t][x] = 0,
           \A t \in Slots, r \in Records : tally'[t][r] = IF t = s /\ r = x THEN 1 ELSE tally[t][r]
    PROVE  CO!Count
<1>1. /\ Records' = Records /\ Bad' = Bad /\ Total(x) = 0
      /\ [r \in Records |-> Total(r)]' = [[r \in Records |-> Total(r)] EXCEPT ![x] = 1]
  BY TotalsCount
<1>2. [r \in Records |-> Total(r)][x] = 0
  BY <1>1
<1> QED BY <1>1, <1>2 DEF CO!Count

\* The end of a run is a step Report or Abort.
LEMMA EndRefines ==
    ASSUME outcome = "running", UNCHANGED <<runVars, tally>>,
           \/ outcome' = "aborted" /\ Bad
           \/ outcome' = "reported" /\ ~Bad /\ \A r \in Records : Total(r) = 1
    PROVE  CO!Report \/ CO!Abort
<1>1. /\ Records' = Records /\ Bad' = Bad
      /\ [r \in Records |-> Total(r)]' = [r \in Records |-> Total(r)]
  BY TotalsStay
<1>2. ASSUME \A r \in Records : Total(r) = 1 PROVE \A r \in Records : [q \in Records |-> Total(q)][r] = 1
  BY <1>2
<1> QED BY <1>1, <1>2 DEF CO!Report, CO!Abort

\* Every step of the program is a step of CountOnce or a stutter.
LEMMA StepRefines ==
    ASSUME TypeInv, CountInv, ReadsSucceed, [Next]_vars PROVE [CO!Next]_(CO!vars)
<1>1. ASSUME NEW p \in Producers, Producer(p) PROVE UNCHANGED CO!vars
  <2>1. UNCHANGED <<runVars, tally, outcome>>
    BY <1>1 DEF Producer, FindFirstLine, ReadLine, EndOfRange, Push, NotifyNotEmpty, FailText, FailFlag, Stop,
       StopNotEmpty, StopNotFull, contextVars, mainVars
  <2> QED BY <2>1, QuietStutters
<1>2. ASSUME NEW c \in Consumers, Consumer(c) PROVE CO!Count \/ UNCHANGED CO!vars
  <2>1. CASE Pop(c) \/ NotifyNotFull(c) \/ EndOfBlock(c)
    <3>1. UNCHANGED <<runVars, tally, outcome>>
      BY <2>1 DEF Pop, NotifyNotFull, EndOfBlock, contextVars, mainVars
    <3> QED BY <3>1, QuietStutters
  <2>2. CASE ApplyRecord(c)
    <3>1. cpc[c] = "apply" /\ UNCHANGED <<runVars, outcome>>
      BY <2>2 DEF ApplyRecord, mainVars
    <3>2. outcome = "running"
      BY <3>1 DEF CountInv, DrainingInv, MainInv
    <3>3. \E x \in Records, s \in Slots :
            /\ \A t \in Slots : tally[t][x] = 0
            /\ \A t \in Slots, r \in Records : tally'[t][r] = IF t = s /\ r = x THEN 1 ELSE tally[t][r]
      BY <2>2, ApplyRecordIs
    <3> QED BY <3>1, <3>2, <3>3, CountRefines
  <2> QED BY <1>2, <2>1, <2>2 DEF Consumer
<1>3. ASSUME Main PROVE CO!Next \/ UNCHANGED CO!vars
  <2>1. CASE StartThreads \/ Close \/ CloseNotify \/ JoinConsumers
    <3>1. UNCHANGED <<runVars, tally, outcome>>
      BY <2>1 DEF StartThreads, Close, CloseNotify, JoinConsumers, contextVars
    <3> QED BY <3>1, QuietStutters
  <2>2. CASE Reject
    <3>1. UNCHANGED <<runVars, tally>> /\ outcome' = "aborted" /\ outcome = "running" /\ Bad
      BY <2>2 DEF Reject, contextVars, CountInv, MainInv, Bad
    <3> QED BY <3>1, EndRefines DEF CO!Next
  <2>3. CASE StartSequential
    <3>1. /\ UNCHANGED <<runVars, tally>> /\ outcome = "running"
          /\ \/ outcome' = outcome
             \/ outcome' = "aborted" /\ Bad
      BY <2>3 DEF StartSequential, contextVars, CountInv, MainInv, Bad
    <3> QED BY <3>1, QuietStutters, EndRefines DEF CO!Next
  <2>4. CASE CountLine
    <3>1. UNCHANGED runVars /\ outcome = "running"
      BY <2>4 DEF CountLine, CountInv, MainInv
    <3>2. PICK i \in 1 .. LineCount :
            /\ Slots = {"global"}
            /\ i \in Records => ~Refused(i)
            /\ \/ Refused(i) /\ outcome' = "aborted" /\ UNCHANGED tally
               \/ /\ ~Refused(i) /\ UNCHANGED outcome
                  /\ i \notin Records => tally' = tally
                  /\ i \in Records =>
                       /\ \A r \in Records : tally'["global"][r] = IF r = i THEN 1 ELSE tally["global"][r]
                       /\ tally["global"][i] = 0
      BY <2>4, CountLineIs
    <3>3. CASE Refused(i) /\ outcome' = "aborted" /\ UNCHANGED tally
      <4>1. Bad
        BY <3>3 DEF Bad, Refused
      <4> QED BY <3>1, <3>3, <4>1, EndRefines DEF CO!Next
    <3>4. CASE i \notin Records /\ UNCHANGED <<outcome, tally>>
      BY <3>1, <3>4, QuietStutters
    <3>5. CASE i \in Records /\ UNCHANGED outcome
      <4>1. /\ \A t \in Slots : tally[t][i] = 0
            /\ \A t \in Slots, r \in Records : tally'[t][r] = IF t = "global" /\ r = i THEN 1 ELSE tally[t][r]
        BY <3>2, <3>5
      <4>2. "global" \in Slots
        BY <3>2
      <4> QED BY <3>1, <3>5, <4>1, <4>2, CountRefines DEF CO!Next
    <3> QED BY <3>2, <3>3, <3>4, <3>5
  <2>5. CASE ReportSequential
    <3>1. UNCHANGED <<runVars, tally>> /\ outcome = "running" /\ outcome' = "reported"
      BY <2>5 DEF ReportSequential, contextVars, CountInv, MainInv
    <3> QED BY <2>5, <3>1, ReportSequentialRefines, EndRefines DEF CO!Next
  <2>6. CASE Finish
    <3>1. /\ UNCHANGED <<runVars, tally>> /\ outcome = "running"
          /\ \/ failed /\ outcome' = "aborted"
             \/ ~failed /\ outcome' = "reported"
      BY <2>6 DEF Finish, contextVars, CountInv, MainInv
    <3>2. failed => Bad
      BY DEF CountInv, FailingInv
    <3> QED BY <2>6, <3>1, <3>2, FinishRefines, EndRefines DEF CO!Next
  <2> QED BY <1>3, <2>1, <2>2, <2>3, <2>4, <2>5, <2>6 DEF Main, Sequential
<1>4. ASSUME Monitor \/ Spurious \/ UNCHANGED vars PROVE UNCHANGED CO!vars
  <2>1. UNCHANGED <<runVars, tally, outcome>>
    BY <1>4 DEF Monitor, Spurious, vars, contextVars, mainVars
  <2> QED BY <2>1, QuietStutters
<1> QED BY <1>1, <1>2, <1>3, <1>4 DEF Next, Exited, CO!Next

(* Where every file can be read to its end, a run counts every record once *)
(* and reports the totals exactly when options, file and lines give no     *)
(* reason to abort, whatever the bytes, the ranges, the interleaving of    *)
(* the threads, the capacity, the block size and the mode.                 *)
THEOREM CountsOnce == ReadsSucceed /\ Spec => CountOnceSpec
<1>1. CASE ReadsSucceed
  <2>1. Init => CO!Init
    <3> SUFFICES ASSUME Init PROVE CO!Init
      OBVIOUS
    <3>1. Bad \in BOOLEAN /\ outcome = "running"
      BY DEF Bad, Init
    <3>2. \A r \in Records : Total(r) = 0
      <4>1. \A s \in Slots, r \in Records : tally[s][r] = 0
        BY DEF Init
      <4> QED BY <4>1, Totals, TotalOfNone
    <3> QED BY <3>1, <3>2 DEF CO!Init
  <2>2. Init => TypeInv /\ CountInv
    BY InitType, InitCount
  <2>3. TypeInv /\ CountInv /\ [Next]_vars => (TypeInv /\ CountInv)'
    BY <1>1, StepType, StepCount
  <2>4. TypeInv /\ CountInv /\ [Next]_vars => [CO!Next]_(CO!vars)
    BY <1>1, StepRefines
  <2> QED BY <2>1, <2>2, <2>3, <2>4, PTL DEF Spec, CountOnceSpec, CO!Spec
<1>2. CASE ~ReadsSucceed
  BY <1>2
<1> QED BY <1>1, <1>2

-----------------------------------------------------------------------------
(* The calendar: an era of 400 years, its years from March, their months   *)

\* The days of an era, the first day of one and the era of a day
EraDays == 146097
EraStart(era) == era * 146097 - 719468
EraOf(z) == (z + 719468) \div 146097

\* The first day of a year of an era, and what civilFromDays makes of a day.
YearStart(y) == 365 * y + y \div 4 - y \div 100
YearOf(doe) == (doe - doe \div 1460 + doe \div 36524 - doe \div 146096) \div 365

\* The later of two years begins when the year after the earlier one does, or later.
YearsApart(y, z) == y < z => /\ y < 399 /\ YearStart(y + 1) \in Int /\ YearStart(z) \in Int
                             /\ YearStart(y + 1) <= YearStart(z)

\* No two years of an era overlap.
LEMMA YearStarts ==
  ASSUME NEW y \in 0 .. 399, NEW z \in 0 .. 399 PROVE YearsApart(y, z)
<1> SUFFICES ASSUME y < z
             PROVE /\ y < 399 /\ YearStart(y + 1) \in Int /\ YearStart(z) \in Int
                   /\ YearStart(y + 1) <= YearStart(z)
  BY DEF YearsApart
<1>1. /\ (y + 1) \div 4 <= z \div 4 /\ (y + 1) \div 4 \in Int /\ z \div 4 \in Int
      /\ (y + 1) \div 100 \in 0 .. 4 /\ z \div 100 \in 0 .. 3
  OBVIOUS
<1>2. y + 1 = z \/ y + 2 <= z
  OBVIOUS
<1>3. CASE y + 1 = z
  BY <1>1, <1>3 DEF YearStart
<1>4. CASE y + 2 <= z
  BY <1>1, <1>4 DEF YearStart
<1> QED BY <1>2, <1>3, <1>4

\* The code's year of a day is the one that the day is in.
LEMMA YearIs ==
  ASSUME NEW doe \in Nat, doe < EraDays
  PROVE  /\ YearOf(doe) \in 0 .. 399
         /\ YearStart(YearOf(doe)) <= doe
         /\ YearOf(doe) < 399 => doe < YearStart(YearOf(doe) + 1)
<1> DEFINE a == doe \div 1460
           b == doe \div 36524
           e == doe \div 146096
<1>1. a \in Int /\ 1460 * a <= doe /\ doe < 1460 * a + 1460
  BY SMT
<1>2. b \in Int /\ 36524 * b <= doe /\ doe < 36524 * b + 36524
  BY SMT
<1>3. e \in Int /\ 146096 * e <= doe /\ doe < 146096 * e + 146096
  BY SMT
<1> DEFINE y == (doe - a + b - e) \div 365
           q == y \div 4
           c == y \div 100
<1>4. YearOf(doe) = y /\ YearStart(y) = 365 * y + q - c
  BY DEF YearOf, YearStart
<1> HIDE DEF a, b, e
<1>5. y \in Int /\ 365 * y <= doe - a + b - e /\ doe - a + b - e < 365 * y + 365
  BY <1>1, <1>2, <1>3, SMT
<1> HIDE DEF y
<1>6. q \in Int /\ 4 * q <= y /\ y < 4 * q + 4 /\ c \in Int /\ 100 * c <= y /\ y < 100 * c + 100
  BY <1>5, SMT
<1> DEFINE r == (y + 1) \div 4
           s == (y + 1) \div 100
<1>7. r \in Int /\ 4 * r <= y + 1 /\ y + 1 < 4 * r + 4 /\ s \in Int /\ 100 * s <= y + 1 /\ y + 1 < 100 * s + 100
  BY <1>5, SMT
<1>8. YearStart(y + 1) = 365 * (y + 1) + r - s
  BY SMT DEF YearStart
<1> HIDE DEF q, c, r, s
<1>0. doe <= 146096
  BY SMT DEF EraDays
<1> DEFINE good == 0 <= y /\ y <= 399 /\ 365 * y + q - c <= doe /\ (y < 399 => doe < 365 * (y + 1) + r - s)
<1>9. good
  <2>1. CASE b = 0
    BY <1>0, <1>1, <1>2, <1>3, <1>5, <1>6, <1>7, <2>1, SMT
  <2>2. CASE b = 1
    BY <1>0, <1>1, <1>2, <1>3, <1>5, <1>6, <1>7, <2>2, SMT
  <2>3. CASE b = 2
    BY <1>0, <1>1, <1>2, <1>3, <1>5, <1>6, <1>7, <2>3, SMT
  <2>4. CASE b = 3
    BY <1>0, <1>1, <1>2, <1>3, <1>5, <1>6, <1>7, <2>4, SMT
  <2>5. CASE b = 4
    BY <1>0, <1>1, <1>2, <1>3, <1>5, <1>6, <1>7, <2>5, SMT
  <2>6. b = 0 \/ b = 1 \/ b = 2 \/ b = 3 \/ b = 4
    BY <1>0, <1>2, SMT
  <2> QED BY <2>1, <2>2, <2>3, <2>4, <2>5, <2>6, SMT
<1> DEFINE z == YearOf(doe)
<1>10. z = y
  BY <1>4, SMT
<1> HIDE DEF z
<1> SUFFICES z \in 0 .. 399 /\ YearStart(z) <= doe /\ (z < 399 => doe < YearStart(z + 1))
  BY SMT DEF z
<1> QED BY <1>4, <1>5, <1>8, <1>9, <1>10, SMT

\* A day of a year is a day of no other one.
LEMMA YearFrom ==
  ASSUME NEW y \in 0 .. 399, NEW doe \in Nat, doe < EraDays, YearStart(y) <= doe, y < 399 => doe < YearStart(y + 1)
  PROVE  YearOf(doe) = y
<1> DEFINE z == YearOf(doe)
<1>1. z \in 0 .. 399 /\ YearStart(z) <= doe /\ (z < 399 => doe < YearStart(z + 1))
  BY YearIs, SMT
<1> HIDE DEF z
<1>2. YearsApart(y, z) /\ YearsApart(z, y)
  BY <1>1, YearStarts
<1>3. ~(y < z)
  BY <1>1, <1>2, SMT DEF YearsApart
<1>4. ~(z < y)
  BY <1>1, <1>2, SMT DEF YearsApart
<1>5. z \in Int /\ y \in Int
  BY <1>1
<1>6. z = y
  BY ONLY <1>3, <1>4, <1>5
<1> QED BY <1>6 DEF z

\* The first day of a month, counted from March
MonthStart(mp) == (153 * mp + 2) \div 5

\* The code's month of a day is the one that the day is in.
LEMMA MonthIs ==
  ASSUME NEW doy \in 0 .. 365, NEW mp, mp = (5 * doy + 2) \div 153
  PROVE  /\ mp \in 0 .. 11 /\ MonthStart(mp) <= doy /\ MonthStart(mp) \in Nat
         /\ doy - MonthStart(mp) <= (IF mp \in {1, 3, 6, 8} THEN 29 ELSE IF mp = 11 THEN 28 ELSE 30)
<1>1. mp \in 0 .. 11 /\ 153 * mp <= 5 * doy + 2 /\ 5 * doy + 2 < 153 * mp + 153
  BY SMT
<1> QED BY <1>1, SMT DEF MonthStart

\* A day of a month is a day of no other one.
LEMMA MonthFrom ==
  ASSUME NEW mp \in 0 .. 11, NEW k \in Nat, k <= (IF mp \in {1, 3, 6, 8} THEN 29 ELSE IF mp = 11 THEN 28 ELSE 30)
  PROVE  /\ MonthStart(mp) \in 0 .. 337
         /\ (5 * (MonthStart(mp) + k) + 2) \div 153 = mp
<1>1. \A i \in 0 .. 11 : i = 0 \/ i = 1 \/ i = 2 \/ i = 3 \/ i = 4 \/ i = 5 \/ i = 6 \/ i = 7 \/ i = 8 \/ i = 9 \/ i = 10 \/ i = 11
  BY SMT
<1> QED BY <1>1, SMT DEF MonthStart

\* The month that the code numbers mp, and the year it is in
Month(mp) == mp + (IF mp < 10 THEN 3 ELSE -9)
YearAt(era, y, mp) == y + era * 400 + (IF Month(mp) <= 2 THEN 1 ELSE 0)

\* A day of an era is in that era, and every day is in one.
LEMMA EraIs ==
  ASSUME NEW era \in Int, NEW doe \in Nat, doe < EraDays, NEW z, z = EraStart(era) + doe
  PROVE  EraStart(era) \in Int /\ z \in Int /\ EraOf(z) = era
<1> DEFINE w == z + 719468
<1>1. doe <= 146096 /\ w \in Int /\ w = era * 146097 + doe
  BY SMT DEF EraDays, EraStart
<1>2. EraStart(era) \in Int /\ z \in Int
  BY SMT DEF EraStart
<1> HIDE DEF w
<1>3. w \div 146097 = era
  BY <1>1, SMT
<1> QED BY <1>2, <1>3, SMT DEF EraOf, w

\* The era of a day and its place in it
LEMMA EraFrom ==
  ASSUME NEW z \in Int
  PROVE  \E era \in Int, doe \in Nat : doe < EraDays /\ z = EraStart(era) + doe
<1> DEFINE era == (z + 719468) \div 146097
           doe == (z + 719468) - era * 146097
<1>1. era \in Int /\ era * 146097 <= z + 719468 /\ z + 719468 < era * 146097 + 146097
  BY SMT
<1> HIDE DEF era
<1>2. doe \in Nat /\ doe < EraDays /\ z = EraStart(era) + doe
  BY <1>1, SMT DEF EraDays, EraStart
<1> HIDE DEF doe
<1> QED BY <1>1, <1>2

\* What civilFromDays makes of a day of an era
LEMMA CivilIs ==
  ASSUME NEW era \in Int, NEW doe \in Nat, doe < EraDays, NEW z, z = EraStart(era) + doe,
         NEW y, y = YearOf(doe), NEW doy, doy = doe - YearStart(y), NEW mp, mp = (5 * doy + 2) \div 153
  PROVE  CivilFromDays(z) = <<YearAt(era, y, mp), Month(mp), doy - MonthStart(mp) + 1>>
<1> DEFINE e == EraOf(z)
           o == z + 719468 - e * 146097
           n == YearOf(o)
           d == o - (365 * n + n \div 4 - n \div 100)
           p == (5 * d + 2) \div 153
           m == p + (IF p < 10 THEN 3 ELSE -9)
<1>1. CivilFromDays(z) = <<n + e * 400 + (IF m <= 2 THEN 1 ELSE 0), m, d - (153 * p + 2) \div 5 + 1>>
  BY DEF CivilFromDays, EraOf, YearOf
<1>2. e = era /\ z \in Int
  BY EraIs
<1> HIDE DEF e
<1>3. o = doe
  BY <1>2, SMT DEF EraStart
<1> HIDE DEF o
<1>5. n = y
  BY <1>3
<1> HIDE DEF n
<1>6. d = doy
  BY <1>3, <1>5 DEF YearStart
<1> HIDE DEF d
<1>7. p = mp
  BY <1>6
<1> HIDE DEF p
<1>8. m = Month(mp)
  BY <1>7 DEF Month
<1> HIDE DEF m
<1> QED BY <1>1, <1>2, <1>5, <1>6, <1>7, <1>8 DEF YearAt, MonthStart

\* daysFromCivil gives the day of a date of an era.
DayOf(era, y, mp, k) ==
  DaysFromCivil(YearAt(era, y, mp), Month(mp), k + 1) = EraStart(era) + (YearStart(y) + MonthStart(mp) + k)

\* It does so for every date.
LEMMA DaysIs ==
  ASSUME NEW era \in Int, NEW y \in 0 .. 399, NEW mp \in 0 .. 11, NEW k \in Nat PROVE DayOf(era, y, mp, k)
<1> DEFINE Y == YearAt(era, y, mp)
           m == Month(mp)
           year == IF m <= 2 THEN Y - 1 ELSE Y
           e == year \div 400
           n == year - e * 400
           p == m + (IF m > 2 THEN -3 ELSE 9)
           d == (153 * p + 2) \div 5 + (k + 1) - 1
<1>1. DaysFromCivil(Y, m, k + 1) = e * 146097 + n * 365 + n \div 4 - n \div 100 + d - 719468
  BY DEF DaysFromCivil
<1>2. year = y + era * 400
  BY SMT DEF YearAt, Month
<1>3. p = mp
  BY SMT DEF Month
<1> HIDE DEF year, p
<1>4. e = era
  BY <1>2, SMT
<1> HIDE DEF e
<1>5. n = y
  BY <1>2, <1>4, SMT
<1> HIDE DEF n
<1>6. d = MonthStart(mp) + k
  BY <1>3, SMT DEF MonthStart
<1> HIDE DEF d
<1>7. y * 365 = 365 * y /\ y * 365 \in Int /\ y \div 4 \in Int /\ y \div 100 \in Int /\ MonthStart(mp) \in Int
  BY DEF MonthStart
<1> DEFINE q == y \div 4
           c == y \div 100
           g == MonthStart(mp)
           h == y * 365
<1>8. YearStart(y) = h + q - c
  BY <1>7 DEF YearStart
<1>9. DaysFromCivil(Y, m, k + 1) = era * 146097 + h + q - c + (g + k) - 719468
  BY <1>1, <1>4, <1>5, <1>6
<1> HIDE DEF q, c, g, h
<1>10. q \in Int /\ c \in Int /\ g \in Int /\ h \in Int
  BY <1>7 DEF q, c, g, h
<1>11. DaysFromCivil(Y, m, k + 1) = EraStart(era) + (YearStart(y) + g + k)
  BY <1>8, <1>9, <1>10, SMT DEF EraStart
<1> QED BY <1>11 DEF g, DayOf

\* A year has a day more when the civil year of its last month is a leap year.
YearLasts(era, y) ==
  /\ YearStart(y) \in Nat /\ YearStart(y + 1) \in Nat
  /\ YearStart(y + 1) = YearStart(y) + (IF Leap(y + 1 + era * 400) /\ y # 399 THEN 366 ELSE 365)
  /\ y = 399 => Leap(y + 1 + era * 400) /\ YearStart(y) + 366 = EraDays
  /\ YearStart(y) + 366 <= EraDays

\* It is so for every year.
LEMMA YearHas ==
  ASSUME NEW era \in Int, NEW y \in 0 .. 399 PROVE YearLasts(era, y)
<1> DEFINE Y == y + 1 + era * 400
<1>1. Y % 4 = (y + 1) % 4 /\ Y % 100 = (y + 1) % 100 /\ Y % 400 = (y + 1) % 400
  BY SMT
<1>2. /\ (y + 1) \div 4 = y \div 4 + (IF (y + 1) % 4 = 0 THEN 1 ELSE 0)
      /\ (y + 1) \div 100 = y \div 100 + (IF (y + 1) % 100 = 0 THEN 1 ELSE 0)
      /\ (y + 1) % 100 = 0 => (y + 1) % 4 = 0
      /\ (y + 1) % 400 = 0 <=> y = 399
      /\ y \div 4 \in 0 .. 99 /\ y \div 100 \in 0 .. 3
  BY SMT
<1>3. y = 399 => (y + 1) % 4 = 0 /\ (y + 1) % 100 = 0 /\ y \div 4 = 99 /\ y \div 100 = 3
  BY SMT
<1>4. Leap(Y) <=> ((y + 1) % 4 = 0 /\ ((y + 1) % 100 # 0 \/ y = 399))
  BY <1>1, <1>2 DEF Leap
<1> HIDE DEF Y
<1>5. /\ YearStart(y) \in Nat /\ YearStart(y + 1) \in Nat
      /\ YearStart(y + 1) = YearStart(y) + (IF Leap(Y) /\ y # 399 THEN 366 ELSE 365)
  BY <1>2, <1>3, <1>4, SMT DEF YearStart
<1>6. y = 399 => Leap(Y) /\ YearStart(y) + 366 = EraDays
  BY <1>2, <1>3, <1>4, SMT DEF YearStart, EraDays
<1>7. YearStart(y) + 366 <= EraDays
  BY <1>2, SMT DEF YearStart, EraDays
<1> QED BY <1>5, <1>6, <1>7 DEF Y, YearLasts

\* Every day is a day of the calendar, and it is the one that the calendar's
\* date stands for.
LEMMA DayHasDate ==
  ASSUME NEW z \in Int
  PROVE  \E Y \in Int, m \in 1 .. 12, d \in 1 .. 31 :
           /\ CivilFromDays(z) = <<Y, m, d>> /\ IsDay(Y, m, d) /\ DaysFromCivil(Y, m, d) = z
<1>1. PICK era \in Int, doe \in Nat : doe < EraDays /\ z = EraStart(era) + doe
  BY EraFrom
<1>0. EraStart(era) \in Int
  BY <1>1, EraIs
<1> DEFINE y == YearOf(doe)
           doy == doe - YearStart(y)
           mp == (5 * doy + 2) \div 153
           k == doy - MonthStart(mp)
           Y == YearAt(era, y, mp)
           m == Month(mp)
<1>2. y \in 0 .. 399 /\ YearStart(y) <= doe /\ (y < 399 => doe < YearStart(y + 1))
  BY <1>1, YearIs
<1>3. CivilFromDays(z) = <<Y, m, k + 1>>
  BY <1>1, CivilIs
<1> HIDE DEF y
<1>4. /\ YearStart(y) \in Nat /\ YearStart(y + 1) \in Nat
      /\ YearStart(y + 1) = YearStart(y) + (IF Leap(y + 1 + era * 400) /\ y # 399 THEN 366 ELSE 365)
      /\ y = 399 => Leap(y + 1 + era * 400) /\ YearStart(y) + 366 = EraDays
  <2>1. YearLasts(era, y)
    BY <1>1, <1>2, YearHas
  <2> QED BY <2>1 DEF YearLasts
<1> DEFINE leap == Leap(y + 1 + era * 400)
<1>5. doy \in Nat /\ doy <= 365 /\ (~leap => doy <= 364)
  BY <1>1, <1>2, <1>4, SMT
<1>6. YearStart(y) + doy = doe
  BY <1>1, <1>4
<1> HIDE DEF doy, leap
<1>7. /\ mp \in 0 .. 11 /\ MonthStart(mp) <= doy /\ MonthStart(mp) \in Nat
      /\ doy - MonthStart(mp) <= (IF mp \in {1, 3, 6, 8} THEN 29 ELSE IF mp = 11 THEN 28 ELSE 30)
  BY <1>5, MonthIs
<1> HIDE DEF mp
<1>8. k \in Nat /\ k <= (IF mp \in {1, 3, 6, 8} THEN 29 ELSE IF mp = 11 THEN 28 ELSE 30)
      /\ MonthStart(mp) + k = doy
  BY <1>5, <1>7
<1>9. mp = 11 /\ ~leap => k <= 27
  BY <1>5, <1>8, SMT DEF MonthStart
<1> HIDE DEF k
<1>10. DaysFromCivil(Y, m, k + 1) = EraStart(era) + (YearStart(y) + MonthStart(mp) + k)
  <2>1. DayOf(era, y, mp, k)
    BY <1>1, <1>2, <1>7, <1>8, DaysIs
  <2> QED BY <2>1 DEF DayOf, Y, m
<1>11. YearStart(y) + MonthStart(mp) + k = doe
  BY <1>4, <1>6, <1>7, <1>8
<1>12. DaysFromCivil(Y, m, k + 1) = z
  BY <1>1, <1>10, <1>11
<1>13. Y \in Int /\ m \in 1 .. 12 /\ (m = 2 <=> mp = 11) /\ (m \in {4, 6, 9, 11} <=> mp \in {1, 3, 6, 8})
       /\ (mp = 11 => Y = y + 1 + era * 400)
  BY <1>1, <1>2, <1>7, SMT DEF YearAt, Month
<1> HIDE DEF Y, m
<1>14. k + 1 \in 1 .. DaysIn(Y, m) /\ k + 1 \in 1 .. 31
  BY <1>8, <1>9, <1>13 DEF DaysIn, leap
<1> QED BY <1>3, <1>12, <1>13, <1>14 DEF IsDay

\* The last day of a month, counted from 0
LastOf(mp, leap) == IF mp \in {1, 3, 6, 8} THEN 29 ELSE IF mp = 11 THEN (IF leap THEN 28 ELSE 27) ELSE 30

\* Day k of the month that the code numbers mp, of a year of an era
IsDateAt(Y, m, d, era, y, mp, k) ==
  /\ YearAt(era, y, mp) = Y /\ Month(mp) = m /\ k + 1 = d
  /\ k <= LastOf(mp, Leap(y + 1 + era * 400))
  /\ k = LastOf(mp, Leap(y + 1 + era * 400)) <=> d = DaysIn(Y, m)

\* Every date of the calendar is such a day.
LEMMA DateIsAt ==
  ASSUME NEW Y, NEW m, NEW d, IsDay(Y, m, d)
  PROVE  \E era \in Int, y \in 0 .. 399, mp \in 0 .. 11, k \in Nat : IsDateAt(Y, m, d, era, y, mp, k)
<1> DEFINE mp == IF m > 2 THEN m - 3 ELSE m + 9
           years == IF m <= 2 THEN Y - 1 ELSE Y
           era == years \div 400
           y == years - era * 400
           k == d - 1
           leap == Leap(y + 1 + era * 400)
<1>0. Y \in Int /\ m \in 1 .. 12 /\ d \in 1 .. DaysIn(Y, m) /\ DaysIn(Y, m) \in 28 .. 31
  BY DEF IsDay, DaysIn
<1>1. mp \in 0 .. 11 /\ years \in Int /\ Month(mp) = m /\ k \in Nat
      /\ (m = 2 <=> mp = 11) /\ (m \in {4, 6, 9, 11} <=> mp \in {1, 3, 6, 8})
      /\ (m <= 2 => years + 1 = Y) /\ (m > 2 => years = Y) /\ k + 1 = d
  BY <1>0, SMT DEF Month
<1> HIDE DEF mp, years
<1>2. era \in Int /\ y \in 0 .. 399 /\ years = y + era * 400
  <2>1. era \in Int /\ era * 400 <= years /\ years < era * 400 + 400
    BY <1>1, SMT
  <2> HIDE DEF era
  <2> QED BY <1>1, <2>1, SMT
<1> HIDE DEF era, y
<1>3. YearAt(era, y, mp) = Y
  BY <1>0, <1>1, <1>2 DEF YearAt
<1>4. LastOf(mp, leap) + 1 = DaysIn(Y, m) /\ LastOf(mp, leap) \in Nat
  <2>1. mp = 11 => Y = y + 1 + era * 400
    BY <1>0, <1>1, <1>2
  <2> QED BY <1>0, <1>1, <2>1 DEF DaysIn, LastOf
<1> HIDE DEF k, leap
<1>5. k <= LastOf(mp, leap) /\ (k = LastOf(mp, leap) <=> d = DaysIn(Y, m))
  BY <1>0, <1>1, <1>4
<1>6. IsDateAt(Y, m, d, era, y, mp, k)
  BY <1>1, <1>3, <1>5 DEF IsDateAt, leap
<1> QED BY <1>1, <1>2, <1>6

\* The date that a day of the calendar is printed as is its own.
LEMMA DateIsDays ==
  ASSUME NEW Y, NEW m, NEW d, IsDay(Y, m, d)
  PROVE  DaysFromCivil(Y, m, d) \in Int /\ CivilFromDays(DaysFromCivil(Y, m, d)) = <<Y, m, d>>
<1>0. PICK era \in Int, y \in 0 .. 399, mp \in 0 .. 11, k \in Nat : IsDateAt(Y, m, d, era, y, mp, k)
  BY DateIsAt
<1> DEFINE doy == MonthStart(mp) + k
           doe == YearStart(y) + doy
           leap == Leap(y + 1 + era * 400)
<1>1. mp \in 0 .. 11 /\ Month(mp) = m /\ k \in Nat /\ k + 1 = d
  BY <1>0 DEF IsDateAt
<1>2. era \in Int /\ y \in 0 .. 399
  BY <1>0
<1>3. YearAt(era, y, mp) = Y
  BY <1>0 DEF IsDateAt
<1>4. k <= (IF mp \in {1, 3, 6, 8} THEN 29 ELSE IF mp = 11 THEN (IF leap THEN 28 ELSE 27) ELSE 30)
  BY <1>0 DEF IsDateAt, LastOf
<1> HIDE DEF leap
<1>5. MonthStart(mp) \in 0 .. 337 /\ (5 * (MonthStart(mp) + k) + 2) \div 153 = mp
  BY <1>1, <1>4, MonthFrom
<1>6. /\ YearStart(y) \in Nat /\ YearStart(y + 1) \in Nat
      /\ YearStart(y + 1) = YearStart(y) + (IF leap /\ y # 399 THEN 366 ELSE 365)
      /\ y = 399 => leap /\ YearStart(y) + 366 = EraDays
      /\ YearStart(y) + 366 <= EraDays
  <2>1. YearLasts(era, y)
    BY <1>2, YearHas
  <2> QED BY <2>1 DEF YearLasts, leap
<1>7. doy \in Nat /\ doy <= 365 /\ (~leap => doy <= 364) /\ mp = (5 * doy + 2) \div 153 /\ doy - MonthStart(mp) = k
  <2>1. mp # 11 => MonthStart(mp) <= 306
    BY <1>1, SMT DEF MonthStart
  <2>2. MonthStart(mp) = 306 => mp = 10
    BY <1>1, SMT DEF MonthStart
  <2>3. MonthStart(mp) + k <= 365 /\ (~leap => MonthStart(mp) + k <= 364)
    BY <1>1, <1>4, <1>5, <2>1, SMT
  <2> QED BY <1>1, <1>5, <2>3
<1> HIDE DEF doy
<1>8. doe \in Nat /\ doe < EraDays /\ YearStart(y) <= doe /\ (y < 399 => doe < YearStart(y + 1))
      /\ doe - YearStart(y) = doy
  <2>1. EraDays \in Nat
    BY DEF EraDays
  <2> QED BY <1>2, <1>6, <1>7, <2>1
<1> HIDE DEF doe
<1>9. YearOf(doe) = y
  BY <1>2, <1>8, YearFrom
<1>10. DaysFromCivil(Y, m, d) = EraStart(era) + doe
  <2>1. DaysFromCivil(YearAt(era, y, mp), Month(mp), k + 1)
          = EraStart(era) + (YearStart(y) + MonthStart(mp) + k)
    <3>1. DayOf(era, y, mp, k)
      BY <1>1, <1>2, DaysIs
    <3> QED BY <3>1 DEF DayOf
  <2>2. YearStart(y) + MonthStart(mp) + k = doe
    BY <1>1, <1>5, <1>6 DEF doe, doy
  <2> QED BY <1>1, <1>3, <2>1, <2>2
<1> DEFINE z == DaysFromCivil(Y, m, d)
<1>11. z \in Int /\ z = EraStart(era) + doe
  BY <1>2, <1>8, <1>10, EraIs
<1> HIDE DEF z
<1>12. CivilFromDays(z) = <<YearAt(era, y, mp), Month(mp), doy - MonthStart(mp) + 1>>
  BY <1>2, <1>7, <1>8, <1>9, <1>11, CivilIs
<1> QED BY <1>1, <1>3, <1>7, <1>11, <1>12 DEF z

\* The date after a date
NextDate(Y, m, d) ==
  IF d < DaysIn(Y, m) THEN <<Y, m, d + 1>> ELSE IF m < 12 THEN <<Y, m + 1, 1>> ELSE <<Y + 1, 1, 1>>

\* The day after a day of the calendar is the next number, through the ends of
\* months and years, leap years and eras.
LEMMA DaysFollow ==
  ASSUME NEW Y, NEW m, NEW d, IsDay(Y, m, d), NEW n, n = NextDate(Y, m, d)
  PROVE  DaysFromCivil(n[1], n[2], n[3]) = DaysFromCivil(Y, m, d) + 1
<1>0. PICK era \in Int, y \in 0 .. 399, mp \in 0 .. 11, k \in Nat : IsDateAt(Y, m, d, era, y, mp, k)
  BY DateIsAt
<1> DEFINE leap == Leap(y + 1 + era * 400)
           Day(e, yy, p, j) == EraStart(e) + (YearStart(yy) + MonthStart(p) + j)
<1>1. /\ Y \in Int /\ m \in 1 .. 12 /\ d \in 1 .. DaysIn(Y, m) /\ DaysIn(Y, m) \in 28 .. 31
      /\ Y = YearAt(era, y, mp) /\ m = Month(mp) /\ d = k + 1
      /\ k = LastOf(mp, leap) <=> d = DaysIn(Y, m)
  BY <1>0 DEF IsDay, DaysIn, IsDateAt
<1>3. DaysFromCivil(Y, m, d) = Day(era, y, mp, k)
  <2>1. DayOf(era, y, mp, k)
    BY DaysIs
  <2> QED BY <1>1, <2>1 DEF DayOf
<1>4. /\ YearStart(y) \in Nat /\ YearStart(y + 1) \in Nat
      /\ YearStart(y + 1) = YearStart(y) + (IF leap /\ y # 399 THEN 366 ELSE 365)
      /\ y = 399 => leap /\ YearStart(y) + 366 = EraDays
  <2>1. YearLasts(era, y)
    BY YearHas
  <2> QED BY <2>1 DEF YearLasts
<1>5. EraStart(era) \in Int /\ EraStart(era + 1) = EraStart(era) + EraDays /\ EraDays \in Int
  BY SMT DEF EraStart, EraDays
<1>6. \A p \in 0 .. 11 : MonthStart(p) \in Nat
  BY SMT DEF MonthStart
<1>7. MonthStart(0) = 0 /\ MonthStart(11) = 337 /\ YearStart(0) = 0
  <2>1. (153 * 0 + 2) \div 5 = 0 /\ (153 * 11 + 2) \div 5 = 337
    BY SMT
  <2>2. MonthStart(0) = 0 /\ MonthStart(11) = 337
    BY <2>1 DEF MonthStart
  <2>3. 365 * 0 = 0 /\ 0 \div 4 = 0 /\ 0 \div 100 = 0
    BY SMT
  <2> QED BY <2>1, <2>2, <2>3 DEF YearStart
<1>8. CASE d < DaysIn(Y, m)
  <2>1. n[1] = Y /\ n[2] = m /\ n[3] = (k + 1) + 1
    BY <1>1, <1>8 DEF NextDate
  <2>2. DaysFromCivil(n[1], n[2], n[3]) = Day(era, y, mp, k + 1)
    <3>1. k + 1 \in Nat
      OBVIOUS
    <3>2. DayOf(era, y, mp, k + 1)
      BY <3>1, DaysIs
    <3> QED BY <1>1, <2>1, <3>2 DEF DayOf
  <2> HIDE DEF leap
  <2> QED BY <1>3, <1>4, <1>5, <1>6, <2>2
<1>9. CASE d = DaysIn(Y, m) /\ mp < 11
  <2>1. n[1] = YearAt(era, y, mp + 1) /\ n[2] = Month(mp + 1) /\ n[3] = 1
    <3>1. n = IF m < 12 THEN <<Y, m + 1, 1>> ELSE <<Y + 1, 1, 1>>
      BY <1>1, <1>9 DEF NextDate
    <3> QED BY <1>1, <1>9, <3>1, SMT DEF YearAt, Month
  <2>2. DaysFromCivil(n[1], n[2], n[3]) = Day(era, y, mp + 1, 0)
    <3>1. mp + 1 \in 0 .. 11 /\ 0 \in Nat
      BY <1>9
    <3>2. DayOf(era, y, mp + 1, 0)
      BY <3>1, DaysIs
    <3> HIDE DEF leap
    <3> QED BY <2>1, <3>2 DEF DayOf
  <2>3. k = IF mp \in {1, 3, 6, 8} THEN 29 ELSE 30
    BY <1>1, <1>9 DEF LastOf
  <2>4. MonthStart(mp + 1) = MonthStart(mp) + k + 1
    BY <1>9, <2>3, SMT DEF MonthStart
  <2>5. MonthStart(mp) \in Nat
    BY <1>6
  <2> HIDE DEF leap
  <2> QED BY <1>3, <1>4, <1>5, <2>2, <2>4, <2>5
<1>10. CASE d = DaysIn(Y, m) /\ mp = 11
  <2> DEFINE e == IF y = 399 THEN era + 1 ELSE era
             z == IF y = 399 THEN 0 ELSE y + 1
  <2>1. n[1] = YearAt(e, z, 0) /\ n[2] = Month(0) /\ n[3] = 0 + 1
    <3>1. n = IF m < 12 THEN <<Y, m + 1, 1>> ELSE <<Y + 1, 1, 1>>
      BY <1>1, <1>10 DEF NextDate
    <3>2. m = 2 /\ Y = y + 1 + era * 400 /\ Month(0) = 3
      BY <1>1, <1>10, SMT DEF YearAt, Month
    <3>3. YearAt(e, z, 0) = z + e * 400
      BY <1>1, SMT DEF YearAt, Month
    <3>4. z + e * 400 = y + 1 + era * 400
      BY SMT
    <3> QED BY <3>1, <3>2, <3>3, <3>4
  <2>2. DaysFromCivil(n[1], n[2], n[3]) = Day(e, z, 0, 0)
    <3>1. e \in Int /\ z \in 0 .. 399 /\ 0 \in 0 .. 11 /\ 0 \in Nat
      OBVIOUS
    <3> HIDE DEF e, z
    <3>2. DayOf(e, z, 0, 0)
      BY <3>1, DaysIs
    <3> QED BY <2>1, <3>2 DEF DayOf
  <2>3. k = IF leap THEN 28 ELSE 27
    BY <1>1, <1>10 DEF LastOf
  <2> HIDE DEF leap
  <2>4. DaysFromCivil(Y, m, d) = EraStart(era) + (YearStart(y) + 337 + k)
    BY <1>3, <1>7, <1>10
  <2>5. DaysFromCivil(n[1], n[2], n[3]) = EraStart(e) + (YearStart(z) + 0 + 0)
    BY <1>7, <2>2
  <2>6. CASE y = 399
    <3>1. e = era + 1 /\ z = 0
      BY <2>6
    <3>2. k = 28
      BY <1>4, <2>3, <2>6
    <3> HIDE DEF e, z
    <3> QED BY <1>4, <1>5, <1>7, <2>4, <2>5, <2>6, <3>1, <3>2
  <2>7. CASE y # 399
    <3>1. e = era /\ z = y + 1
      BY <2>7
    <3> HIDE DEF e, z
    <3> QED BY <1>4, <1>5, <2>3, <2>4, <2>5, <2>7, <3>1
  <2> QED BY <2>6, <2>7
<1> QED BY <1>1, <1>8, <1>9, <1>10

\* daysFromCivil numbers the days of the Gregorian calendar from the first of
\* 1970, each with the number after the one of the day before, leap years and
\* centuries included, and civilFromDays, which labels the hours of the
\* report, takes every number back to its date.
THEOREM CalendarIsGregorian ==
  /\ DaysFromCivil(1970, 1, 1) = 0
  /\ \A Y, m, d : IsDay(Y, m, d) =>
        /\ LET n == NextDate(Y, m, d)
           IN  DaysFromCivil(n[1], n[2], n[3]) = DaysFromCivil(Y, m, d) + 1
        /\ CivilFromDays(DaysFromCivil(Y, m, d)) = <<Y, m, d>>
  /\ \A z \in Int : \E Y \in Int, m \in 1 .. 12, d \in 1 .. 31 :
        IsDay(Y, m, d) /\ CivilFromDays(z) = <<Y, m, d>> /\ DaysFromCivil(Y, m, d) = z
<1>1. DaysFromCivil(1970, 1, 1) = 0
  BY SMT DEF DaysFromCivil
<1>2. \A Y, m, d : IsDay(Y, m, d) =>
        /\ LET n == NextDate(Y, m, d)
           IN  DaysFromCivil(n[1], n[2], n[3]) = DaysFromCivil(Y, m, d) + 1
        /\ CivilFromDays(DaysFromCivil(Y, m, d)) = <<Y, m, d>>
  BY DaysFollow, DateIsDays
<1> QED BY <1>1, <1>2, DayHasDate

-----------------------------------------------------------------------------
(* The ranking                                                             *)

\* The first members of an order, as many as are asked for and there are
LEMMA FirstMembers ==
    ASSUME NEW S, IsFiniteSet(S), NEW L, IsOrder(S, L), NEW top \in Nat
    PROVE  LET T == {x \in S : Cardinality(Under(S, L, x)) < top}
           IN  Cardinality(T) = IF top <= Cardinality(S) THEN top ELSE Cardinality(S)
<1> DEFINE T == {x \in S : Cardinality(Under(S, L, x)) < top}
           place == [x \in S |-> Cardinality(Under(S, L, x))]
           n == Cardinality(S)
           m == IF top <= n THEN top ELSE n
<1>1. Numbers(S, L, place)
  <2>1. \A x \in S : place[x] = Cardinality(Under(S, L, x))
    OBVIOUS
  <2> HIDE DEF place
  <2> QED BY <2>1, PlacesInOrder
<1>2. T = {x \in S : place[x] < top}
  OBVIOUS
<1> HIDE DEF place
<1>3. n \in Nat /\ m \in Nat /\ m <= n /\ m <= top
  BY <1>1 DEF Numbers
<1>4. IsFiniteSet(T) /\ T \subseteq S
  BY <1>2, FS_Subset
<1>5. {place[x] : x \in T} = 0 .. m - 1
  <2>1. \A x \in T : place[x] \in 0 .. m - 1
    BY <1>1, <1>2, <1>3 DEF Numbers
  <2>2. ASSUME NEW p \in 0 .. m - 1 PROVE \E x \in T : place[x] = p
    <3>1. p \in 0 .. n - 1 /\ p < top
      BY <1>3
    <3>2. PICK x \in S : place[x] = p
      BY <1>1, <3>1 DEF Numbers
    <3> QED BY <1>2, <3>1, <3>2
  <2> HIDE DEF T, m
  <2> QED BY <2>1, <2>2
<1>6. \A x \in T, y \in T : place[x] = place[y] => x = y
  BY <1>1, <1>4 DEF Numbers
<1> HIDE DEF T, m, n
<1>7. Cardinality({place[x] : x \in T}) = Cardinality(T)
  BY <1>4, <1>6, SizeOfImage
<1>8. Cardinality(0 .. m - 1) = m
  <2>1. IF 0 > m - 1 THEN Cardinality(0 .. m - 1) = 0 ELSE Cardinality(0 .. m - 1) = (m - 1) - 0 + 1
    BY <1>3, FS_Interval
  <2> QED BY <1>3, <2>1
<1> QED BY <1>5, <1>7, <1>8 DEF T, m, n

\* The smaller of two numbers
LEMMA SmallerOf ==
    ASSUME NEW a \in Nat, NEW b \in Nat
    PROVE  Min({a, b}) = IF a <= b THEN a ELSE b
<1>1. \A x \in {a, b} : (\A y \in {a, b} : x =< y) <=> x = IF a <= b THEN a ELSE b
  OBVIOUS
<1>2. (IF a <= b THEN a ELSE b) \in {a, b}
  OBVIOUS
<1> QED BY <1>1, <1>2 DEF Min

\* The cars of some lines, with the times that each is counted, and without
CarsCounted(times, S) == MapThenSumSet(LAMBDA r : times[r] * lines[r].cars, S)
CarsIn(S) == MapThenSumSet(LAMBDA r : lines[r].cars, S)

\* Both are sums, and the same when every line is counted once.
LEMMA CarsCountedIsSum ==
    ASSUME NEW times, NEW S, IsFiniteSet(S), NEW w, \A r \in S : w[r] = times[r] * lines[r].cars
    PROVE  CarsCounted(times, S) = SumFunctionOnSet(w, S)
<1> DEFINE Q(g) == g = [s \in SUBSET S |-> IF s = {} THEN 0
                          ELSE (times[FirstOf(s)] * lines[FirstOf(s)].cars) + g[s \ {FirstOf(s)}]]
<1>1. CarsCounted(times, S) = (CHOOSE g : Q(g))[S]
  BY DEF CarsCounted, MapThenSumSet, MapThenFoldSet, FirstOf
<1>2. \A g : Q(g) <=> IsFold(g, w, S)
  <2> SUFFICES ASSUME NEW g PROVE Q(g) <=> IsFold(g, w, S)
    OBVIOUS
  <2>1. \A s \in SUBSET S : s # {} => times[FirstOf(s)] * lines[FirstOf(s)].cars = w[FirstOf(s)]
    BY FirstIsIn
  <2> QED BY <2>1 DEF IsFold
<1> HIDE DEF Q
<1>3. (CHOOSE g : Q(g)) = (CHOOSE g : IsFold(g, w, S))
  BY <1>2
<1> QED BY <1>1, <1>3, SumIsFold

\* The cars of some lines are the sum of them.
LEMMA CarsIsSum ==
    ASSUME NEW S, IsFiniteSet(S), NEW w, \A r \in S : w[r] = lines[r].cars
    PROVE  CarsIn(S) = SumFunctionOnSet(w, S)
<1> DEFINE Q(g) == g = [s \in SUBSET S |-> IF s = {} THEN 0 ELSE lines[FirstOf(s)].cars + g[s \ {FirstOf(s)}]]
<1>1. CarsIn(S) = (CHOOSE g : Q(g))[S]
  BY DEF CarsIn, MapThenSumSet, MapThenFoldSet, FirstOf
<1>2. \A g : Q(g) <=> IsFold(g, w, S)
  <2> SUFFICES ASSUME NEW g PROVE Q(g) <=> IsFold(g, w, S)
    OBVIOUS
  <2>1. \A s \in SUBSET S : s # {} => lines[FirstOf(s)].cars = w[FirstOf(s)]
    BY FirstIsIn
  <2> QED BY <2>1 DEF IsFold
<1> HIDE DEF Q
<1>3. (CHOOSE g : Q(g)) = (CHOOSE g : IsFold(g, w, S))
  BY <1>2
<1> QED BY <1>1, <1>3, SumIsFold

\* A record is a line that parses, of an hour and a light with room for it.
LEMMA RecordsAre ==
    ASSUME Given, NEW r \in Records
    PROVE  /\ r \in DOMAIN lines /\ Parses(lines[r]) /\ CellOf(file, lines[r]) \in Cells(file, run)
           /\ lines[r].cars \in Nat /\ lines[r].light \in Nat
<1>1. run \in Options
  BY RunsAssumption DEF Given
<1> DEFINE LineSet == [text : Texts, len : Nat, date : Seq(Nat), light : Nat, cars : Nat]
<1>2. run.file \in [lines : Seq(LineSet), ended : BOOLEAN]
  BY <1>1 DEF Options
<1>3. lines \in Seq(LineSet)
  BY <1>2 DEF lines, file
<1>4. r \in DOMAIN lines /\ lines[r].text = "record" /\ ~LineRefused(file, run, lines[r])
  BY DEF Given, InputOf, Records, file, lines
<1> HIDE DEF LineSet
<1>5. lines[r] \in LineSet
  BY <1>3, <1>4
<1>6. Parses(lines[r]) /\ CellOf(file, lines[r]) \in Cells(file, run)
  BY <1>4 DEF LineRefused
<1> QED BY <1>4, <1>5, <1>6 DEF LineSet

\* The label of a date's hour is the date itself.
LEMMA LabelOf ==
    ASSUME NEW date \in Seq(Nat), IsDate(date)
    PROVE  AbsHour(date) \in Nat /\ HourLabel(AbsHour(date)) = date
<1> DEFINE n == DaysFromCivil(date[1], date[2], date[3])
           day == IF AbsHour(date) >= 0 THEN AbsHour(date) \div 24 ELSE -((-AbsHour(date)) \div 24)
<1>1. /\ Len(date) = 4 /\ IsDay(date[1], date[2], date[3]) /\ date[4] \in 0 .. 23 /\ AbsHour(date) >= 0
      /\ AbsHour(date) = n * 24 + date[4]
  BY DEF IsDate, AbsHour
<1>2. n \in Int /\ CivilFromDays(n) = <<date[1], date[2], date[3]>>
  BY <1>1, DateIsDays
<1>3. HourLabel(AbsHour(date)) = Append(CivilFromDays(day), AbsHour(date) - 24 * day)
  BY DEF HourLabel
<1> HIDE DEF n
<1>4. AbsHour(date) \in Nat /\ day = n /\ AbsHour(date) - 24 * day = date[4]
  <2>1. \A a \in Int, k \in Int, j \in 0 .. 23 : a >= 0 /\ a = k * 24 + j => a \in Nat /\ a \div 24 = k /\ a - 24 * k = j
    OBVIOUS
  <2>2. n * 24 + date[4] \in Int
    BY <1>1, <1>2
  <2> QED BY <1>1, <1>2, <2>1, <2>2
<1>5. Append(<<date[1], date[2], date[3]>>, date[4]) = date
  BY <1>1
<1> QED BY <1>2, <1>3, <1>4, <1>5

\* The records of the line numbers in a date's hour, for a light
RecordsOf(date, l) == {r \in Records : lines[r].date = date /\ lines[r].light = l}

\* The cell of a record names its date and light.
LEMMA CellNames ==
    ASSUME Given, ~Bad, Regular(run), NEW r \in Records, NEW s \in Records,
           NEW h, h = AbsHour(lines[r].date) - BaseHour(file), NEW l
    PROVE  /\ h \in Int /\ HourLabel(BaseHour(file) + h) = lines[r].date
           /\ CellOf(file, lines[s]) = <<h, l>> <=> s \in RecordsOf(lines[r].date, l)
<1>1. run \in Options
  BY RunsAssumption DEF Given
<1> DEFINE LineSet == [text : Texts, len : Nat, date : Seq(Nat), light : Nat, cars : Nat]
<1>2. run.file \in [lines : Seq(LineSet), ended : BOOLEAN]
  BY <1>1 DEF Options
<1>3. lines \in Seq(LineSet)
  BY <1>2 DEF lines, file
<1>4. r \in DOMAIN lines /\ Parses(lines[r]) /\ s \in DOMAIN lines /\ Parses(lines[s])
  BY RecordsAre
<1>5. Parses(file.lines[1]) /\ lines[1] = file.lines[1]
  BY DEF Bad, Given, InputOf, Probed, file, lines
<1> HIDE DEF LineSet
<1>6. 1 \in DOMAIN lines
  BY <1>3, <1>4
<1>7. \A i \in DOMAIN lines : lines[i] \in LineSet
  BY <1>3
<1>8. \A i \in DOMAIN lines : lines[i].date \in Seq(Nat)
  BY <1>7 DEF LineSet
<1>9. IsDate(lines[r].date) /\ IsDate(lines[s].date) /\ IsDate(lines[1].date)
  BY <1>4, <1>5, <1>6 DEF Regular, lines, file
<1>10. /\ AbsHour(lines[r].date) \in Nat /\ HourLabel(AbsHour(lines[r].date)) = lines[r].date
       /\ AbsHour(lines[s].date) \in Nat /\ HourLabel(AbsHour(lines[s].date)) = lines[s].date
       /\ AbsHour(lines[1].date) \in Nat
  BY <1>4, <1>6, <1>8, <1>9, LabelOf
<1>11. BaseHour(file) = AbsHour(lines[1].date)
  BY <1>5 DEF BaseHour
<1>12. CellOf(file, lines[s]) = <<AbsHour(lines[s].date) - BaseHour(file), lines[s].light>>
  BY DEF CellOf
<1>13. h \in Int /\ BaseHour(file) + h = AbsHour(lines[r].date)
  BY <1>10, <1>11
<1>14. AbsHour(lines[s].date) - BaseHour(file) = h <=> lines[s].date = lines[r].date
  BY <1>10, <1>11
<1> QED BY <1>10, <1>12, <1>13, <1>14 DEF RecordsOf

\* The total of a cell in which every record counts once is the cars that
\* the lines name.
LEMMA TotalNames ==
    ASSUME Given, ~Bad, Regular(run), NEW times, \A r \in Records : times[r] = 1,
           NEW r \in Records, NEW h, h = AbsHour(lines[r].date) - BaseHour(file),
           NEW l, <<h, l>> \in Cells(file, run)
    PROVE  /\ Sums(times)[<<h, l>>] = CarsOf(lines[r].date, l)
           /\ CarsOf(lines[r].date, l) \in Nat
           /\ CarsOf(lines[r].date, l) > 0 => \E s \in Records : s \in RecordsOf(lines[r].date, l)
<1> DEFINE S == RecordsOf(lines[r].date, l)
           w == [s \in S |-> lines[s].cars]
<1>1. \A s \in Records : CellOf(file, lines[s]) = <<h, l>> <=> s \in S
  BY CellNames
<1>2. S \subseteq Records
  BY DEF RecordsOf
<1>3. {s \in Records : CellOf(file, lines[s]) = <<h, l>>} = S
  BY <1>1, <1>2
<1>4. Sums(times)[<<h, l>>] = CarsCounted(times, S)
  BY <1>3 DEF Sums, CarsCounted
<1>5. CarsOf(lines[r].date, l) = CarsIn(S)
  BY DEF CarsOf, CarsIn, RecordsOf
<1>6. IsFiniteSet(Records)
  <2>1. LineCount \in Nat /\ DOMAIN lines = 1 .. LineCount
    BY RunIs DEF Given
  <2>2. Records \subseteq 1 .. LineCount
    BY <2>1, RecordsAre
  <2>3. IsFiniteSet(1 .. LineCount)
    BY <2>1, FS_Interval
  <2> QED BY <2>2, <2>3, FS_Subset
<1>7. IsFiniteSet(S)
  BY <1>2, <1>6, FS_Subset
<1> HIDE DEF S
<1>8. \A s \in S : lines[s].cars \in Nat
  BY <1>2, RecordsAre
<1>9. \A s \in S : w[s] = lines[s].cars /\ w[s] = times[s] * lines[s].cars /\ w[s] \in Nat
  BY <1>2, <1>8
<1> HIDE DEF w
<1>10. CarsCounted(times, S) = SumFunctionOnSet(w, S) /\ CarsIn(S) = SumFunctionOnSet(w, S)
  BY <1>7, <1>9, CarsCountedIsSum, CarsIsSum
<1>11. SumFunctionOnSet(w, S) \in Nat
  <2>1. 0 \in Nat /\ \A a \in Nat, b \in Nat : a + b \in Nat
    OBVIOUS
  <2> QED BY <1>7, <1>9, <2>1, SumIsIn, Zenon
<1>12. S = {} => SumFunctionOnSet(w, S) = 0
  BY SumOfNone
<1> QED BY <1>2, <1>4, <1>5, <1>10, <1>11, <1>12 DEF S

\* The lights with cars in a date's hour, those before one, and its entry
BusyAt(date) ==
    {l \in {lines[r].light : r \in {x \in Records : lines[x].date = date}} : CarsOf(date, l) > 0}
BeforeAt(date, l) ==
    {m \in BusyAt(date) : CarsOf(date, m) > CarsOf(date, l) \/ (CarsOf(date, m) = CarsOf(date, l) /\ m < l)}
EntryAt(date, l) == [light |-> l, cars |-> CarsOf(date, l)]

\* What rankAndReport finds busy in an hour
BusyIn(sums, h) ==
    {[light |-> c[2], cars |-> sums[c]] : c \in {x \in DOMAIN sums : x[1] = h /\ sums[x] > 0}}

\* The lights with cars are numbers, finitely many, each with a cell.
LEMMA BusyIs ==
    ASSUME Given, ~Bad, Regular(run), NEW r \in Records, NEW date, date = lines[r].date,
           NEW h, h = AbsHour(date) - BaseHour(file)
    PROVE  /\ IsFiniteSet(BusyAt(date))
           /\ \A l \in BusyAt(date) :
                 l \in Nat /\ CarsOf(date, l) \in Nat /\ CarsOf(date, l) > 0 /\ <<h, l>> \in Cells(file, run)
<1>1. IsFiniteSet(Records)
  <2>1. LineCount \in Nat /\ DOMAIN lines = 1 .. LineCount
    BY RunIs DEF Given
  <2>2. Records \subseteq 1 .. LineCount
    BY <2>1, RecordsAre
  <2>3. IsFiniteSet(1 .. LineCount)
    BY <2>1, FS_Interval
  <2> QED BY <2>2, <2>3, FS_Subset
<1> DEFINE R == {x \in Records : lines[x].date = date}
           named == {lines[x].light : x \in R}
<1>2. IsFiniteSet(named)
  <2> DEFINE g == [x \in R |-> lines[x].light]
  <2>1. IsFiniteSet(R)
    BY <1>1, FS_Subset
  <2>2. g \in Surjection(R, named)
    BY DEF Surjection
  <2> HIDE DEF R, g, named
  <2> QED BY <2>1, <2>2, FS_Surjection
<1>3. IsFiniteSet(BusyAt(date))
  BY <1>2, FS_Subset DEF BusyAt
<1>4. ASSUME NEW l \in BusyAt(date)
      PROVE  l \in Nat /\ CarsOf(date, l) \in Nat /\ CarsOf(date, l) > 0 /\ <<h, l>> \in Cells(file, run)
  <2>1. PICK s \in Records : lines[s].date = date /\ lines[s].light = l
    BY DEF BusyAt
  <2>2. s \in RecordsOf(date, l)
    BY <2>1 DEF RecordsOf
  <2>3. CellOf(file, lines[s]) = <<h, l>>
    BY <2>2, CellNames
  <2>4. <<h, l>> \in Cells(file, run) /\ l \in Nat
    BY <2>1, <2>3, RecordsAre
  <2> DEFINE times == [x \in Records |-> 1]
  <2>5. \A x \in Records : times[x] = 1
    OBVIOUS
  <2> HIDE DEF times
  <2>6. CarsOf(date, l) \in Nat
    BY <2>4, <2>5, TotalNames
  <2> QED BY <2>4, <2>6 DEF BusyAt
<1> QED BY <1>3, <1>4

\* rankAndReport finds busy what the lines name so.
LEMMA BusyFound ==
    ASSUME Given, ~Bad, Regular(run), NEW times, \A r \in Records : times[r] = 1,
           NEW r \in Records, NEW date, date = lines[r].date,
           NEW h, h = AbsHour(date) - BaseHour(file)
    PROVE  /\ BusyIn(Sums(times), h) = {EntryAt(date, l) : l \in BusyAt(date)}
           /\ \A l \in BusyAt(date) : Sums(times)[<<h, l>>] > 0 /\ <<h, l>> \in DOMAIN Sums(times)
<1> DEFINE sums == Sums(times)
<1>1. DOMAIN sums = Cells(file, run)
  BY DEF Sums
<1>2. \A l : <<h, l>> \in Cells(file, run) =>
          /\ sums[<<h, l>>] = CarsOf(date, l) /\ CarsOf(date, l) \in Nat
          /\ CarsOf(date, l) > 0 => \E s \in Records : s \in RecordsOf(date, l)
  BY TotalNames
<1> HIDE DEF sums
<1>3. ASSUME NEW l \in BusyAt(date) PROVE sums[<<h, l>>] > 0 /\ <<h, l>> \in DOMAIN sums /\ sums[<<h, l>>] = CarsOf(date, l)
  <2>1. <<h, l>> \in Cells(file, run) /\ CarsOf(date, l) > 0
    BY BusyIs
  <2> QED BY <1>1, <1>2, <2>1
<1>4. \A l \in BusyAt(date) : EntryAt(date, l) \in BusyIn(sums, h)
  <2> TAKE l \in BusyAt(date)
  <2>1. <<h, l>>[1] = h /\ <<h, l>>[2] = l
    OBVIOUS
  <2>2. <<h, l>> \in {x \in DOMAIN sums : x[1] = h /\ sums[x] > 0}
    BY <1>3, <2>1
  <2>3. EntryAt(date, l) = [light |-> <<h, l>>[2], cars |-> sums[<<h, l>>]]
    BY <1>3, <2>1 DEF EntryAt
  <2> QED BY <2>2, <2>3, Zenon DEF BusyIn
<1>5. ASSUME NEW t \in BusyIn(sums, h) PROVE \E l \in BusyAt(date) : t = EntryAt(date, l)
  <2>1. PICK c \in DOMAIN sums : c[1] = h /\ sums[c] > 0 /\ t = [light |-> c[2], cars |-> sums[c]]
    BY DEF BusyIn
  <2>2. c = <<c[1], c[2]>> /\ c \in Cells(file, run)
    BY <1>1, <2>1 DEF Cells
  <2>3. <<h, c[2]>> = c
    BY <2>1, <2>2
  <2>4. sums[c] = CarsOf(date, c[2]) /\ CarsOf(date, c[2]) > 0
    BY <1>2, <2>1, <2>2, <2>3
  <2>5. PICK s \in Records : lines[s].date = date /\ lines[s].light = c[2]
    BY <1>2, <2>2, <2>3, <2>4 DEF RecordsOf
  <2>6. c[2] \in BusyAt(date)
    BY <2>4, <2>5 DEF BusyAt
  <2>7. t = EntryAt(date, c[2])
    BY <2>1, <2>4 DEF EntryAt
  <2> QED BY <2>6, <2>7
<1> QED BY <1>3, <1>4, <1>5 DEF sums
\* The order of the lights of an hour
OrderAt(date) ==
    {e \in BusyAt(date) \X BusyAt(date) : \/ CarsOf(date, e[1]) > CarsOf(date, e[2])
                                          \/ CarsOf(date, e[1]) = CarsOf(date, e[2]) /\ e[1] < e[2]}

\* It is one, and the lights before another are those under it.
LEMMA LightsAreOrdered ==
    ASSUME NEW date, \A l \in BusyAt(date) : l \in Nat /\ CarsOf(date, l) \in Nat
    PROVE  /\ IsOrder(BusyAt(date), OrderAt(date))
           /\ \A l \in BusyAt(date) : Under(BusyAt(date), OrderAt(date), l) = BeforeAt(date, l)
<1> DEFINE B == BusyAt(date)
           cars == [l \in B |-> CarsOf(date, l)]
<1>1. \A a \in B, b \in B : <<a, b>> \in OrderAt(date) <=> (cars[a] > cars[b] \/ (cars[a] = cars[b] /\ a < b))
  BY DEF OrderAt
<1>2. \A a \in B : a \in Nat /\ cars[a] \in Nat
  OBVIOUS
<1>3. \A l \in B : BeforeAt(date, l) = {a \in B : cars[a] > cars[l] \/ (cars[a] = cars[l] /\ a < l)}
  BY DEF BeforeAt
<1> HIDE DEF B, cars
<1>4. IsOrder(B, OrderAt(date))
  <2>1. \A a \in B : <<a, a>> \notin OrderAt(date)
    BY <1>1, <1>2
  <2>2. \A a \in B, b \in B, c \in B : <<a, b>> \in OrderAt(date) /\ <<b, c>> \in OrderAt(date) => <<a, c>> \in OrderAt(date)
    BY <1>1, <1>2
  <2>3. \A a \in B, b \in B : a # b => <<a, b>> \in OrderAt(date) \/ <<b, a>> \in OrderAt(date)
    BY <1>1, <1>2
  <2> QED BY <2>1, <2>2, <2>3, Zenon DEF IsOrder
<1>5. \A l \in B : Under(B, OrderAt(date), l) = BeforeAt(date, l)
  BY <1>1, <1>3 DEF Under
<1> QED BY <1>4, <1>5 DEF B

\* The entries of an hour before one are the entries of the lights before
\* its own, as many.
LEMMA EntriesBefore ==
    ASSUME NEW date, IsFiniteSet(BusyAt(date)), NEW l \in BusyAt(date),
           NEW T, T = {EntryAt(date, m) : m \in BusyAt(date)}
    PROVE  /\ Cardinality({u \in T : BusierFirst(u, EntryAt(date, l))}) = Cardinality(BeforeAt(date, l))
           /\ Cardinality(T) = Cardinality(BusyAt(date))
<1> DEFINE B == BusyAt(date)
           e == [m \in B |-> EntryAt(date, m)]
           C == BeforeAt(date, l)
<1>1. \A m \in B : e[m].light = m /\ e[m].cars = CarsOf(date, m) /\ e[m] = EntryAt(date, m)
  BY DEF EntryAt
<1>2. T = {e[m] : m \in B}
  OBVIOUS
<1>3. C \subseteq B /\ \A m \in B : m \in C <=> (CarsOf(date, m) > CarsOf(date, l) \/ (CarsOf(date, m) = CarsOf(date, l) /\ m < l))
  BY DEF BeforeAt
<1> HIDE DEF e, C
<1>4. \A m \in B : BusierFirst(e[m], e[l]) <=> m \in C
  BY <1>1, <1>3 DEF BusierFirst
<1> HIDE DEF B
<1>5. {u \in T : BusierFirst(u, e[l])} = {e[m] : m \in C}
  BY <1>2, <1>3, <1>4
<1>6. \A a \in B, b \in B : e[a] = e[b] => a = b
  BY <1>1
<1>7. IsFiniteSet(B) /\ IsFiniteSet(C)
  BY <1>3, FS_Subset DEF B
<1>8. \A a \in C, b \in C : e[a] = e[b] => a = b
  BY <1>3, <1>6
<1>9. Cardinality({e[m] : m \in C}) = Cardinality(C) /\ Cardinality({e[m] : m \in B}) = Cardinality(B)
  BY <1>6, <1>7, <1>8, SizeOfImage
<1> QED BY <1>1, <1>2, <1>5, <1>9 DEF B, C

\* What a line of the report names: the light at every place below top
ListsAt(date, list, top) ==
    LET ranked == {l \in BusyAt(date) : Cardinality(BeforeAt(date, l)) < top}
    IN  /\ Len(list) = Cardinality(ranked)
        /\ \A l \in ranked : list[Cardinality(BeforeAt(date, l)) + 1] = EntryAt(date, l)

\* The list that rankAndReport makes of the entries of an hour
LEMMA ListIsTrue ==
    ASSUME NEW date, IsFiniteSet(BusyAt(date)), \A l \in BusyAt(date) : l \in Nat /\ CarsOf(date, l) \in Nat,
           NEW top \in Nat, NEW sums, NEW h, BusyIn(sums, h) = {EntryAt(date, l) : l \in BusyAt(date)}
    PROVE  ListsAt(date, TopLights(sums, h, top), top)
<1> DEFINE B == BusyAt(date)
           T == BusyIn(sums, h)
           Place(t) == Cardinality({u \in T : BusierFirst(u, t)}) + 1
           place == [l \in B |-> Cardinality(Under(B, OrderAt(date), l))]
           n == Min({top, Cardinality(T)})
           list == TopLights(sums, h, top)
           ranked == {l \in B : Cardinality(BeforeAt(date, l)) < top}
<1>1. list = [k \in 1 .. n |-> CHOOSE t \in T : Place(t) = k]
  BY DEF TopLights, BusyIn
<1>2. /\ \A l \in B : Place(EntryAt(date, l)) = Cardinality(BeforeAt(date, l)) + 1
      /\ Cardinality(T) = Cardinality(B)
  <2>1. \A l \in B : Cardinality({u \in T : BusierFirst(u, EntryAt(date, l))}) = Cardinality(BeforeAt(date, l))
    BY EntriesBefore
  <2>2. Cardinality(T) = Cardinality(B)
    <3>1. CASE B # {}
      BY <3>1, EntriesBefore
    <3>2. CASE B = {}
      <4>1. T = B
        BY <3>2
      <4> QED BY <4>1
    <3> QED BY <3>1, <3>2
  <2> QED BY <2>1, <2>2
<1>3. /\ IsOrder(B, OrderAt(date))
      /\ \A l \in B : Under(B, OrderAt(date), l) = BeforeAt(date, l)
  BY LightsAreOrdered
<1>4. \A l \in B : place[l] = Cardinality(Under(B, OrderAt(date), l)) /\ place[l] = Cardinality(BeforeAt(date, l))
  BY <1>3
<1> HIDE DEF place
<1>5. Numbers(B, OrderAt(date), place)
  BY <1>3, <1>4, PlacesInOrder
<1>6. Cardinality(B) \in Nat /\ \A l \in B : place[l] \in 0 .. Cardinality(B) - 1
  BY <1>5 DEF Numbers
<1>7. n = IF top <= Cardinality(B) THEN top ELSE Cardinality(B)
  BY <1>2, <1>6, SmallerOf
<1>8. Cardinality(ranked) = n
  <2>1. ranked = {l \in B : Cardinality(Under(B, OrderAt(date), l)) < top}
    BY <1>4
  <2>2. Cardinality({l \in B : Cardinality(Under(B, OrderAt(date), l)) < top})
        = IF top <= Cardinality(B) THEN top ELSE Cardinality(B)
    BY <1>3, FirstMembers
  <2> QED BY <1>7, <2>1, <2>2
<1>9. n \in Nat
  BY <1>6, <1>7
<1> HIDE DEF n, list, Place
<1>10. Len(list) = n
  BY <1>1, <1>9
<1>11. ASSUME NEW l \in B, Cardinality(BeforeAt(date, l)) < top
       PROVE  list[Cardinality(BeforeAt(date, l)) + 1] = EntryAt(date, l)
  <2> DEFINE k == place[l] + 1
  <2>1. k = Cardinality(BeforeAt(date, l)) + 1 /\ k \in 1 .. n
    BY <1>4, <1>6, <1>7, <1>9, <1>11
  <2>2. EntryAt(date, l) \in T /\ Place(EntryAt(date, l)) = k
    BY <1>2, <2>1
  <2>3. ASSUME NEW t \in T, Place(t) = k PROVE t = EntryAt(date, l)
    <3>1. PICK m \in B : t = EntryAt(date, m)
      BY <2>3
    <3>2. Place(t) = place[m] + 1 /\ place[m] \in Nat /\ place[l] \in Nat
      BY <1>2, <1>4, <1>6, <3>1
    <3>3. place[m] = place[l]
      BY <2>3, <3>2
    <3>4. m = l
      BY <1>5, <3>3 DEF Numbers
    <3> QED BY <3>1, <3>4
  <2> HIDE DEF T
  <2>4. list[k] = CHOOSE t \in T : Place(t) = k
    BY <1>1, <2>1
  <2>5. (CHOOSE t \in T : Place(t) = k) = EntryAt(date, l)
    BY <2>2, <2>3
  <2> QED BY <2>1, <2>4, <2>5
<1> QED BY <1>8, <1>10, <1>11 DEF ListsAt, list

\* The lines of the report rep name the lights of every hour with cars.
RankingOf(rep) ==
    \A date \in {lines[r].date : r \in Records} :
        BusyAt(date) # {} => \E hour \in rep : hour.label = date /\ ListsAt(date, hour.lights, run.top)

\* What rankAndReport makes of totals in which every record counts once is
\* the ranking that the lines name.
LEMMA RankingIsTrue ==
    ASSUME Given, ~Bad, Regular(run), NEW times, \A r \in Records : times[r] = 1,
           NEW rep, rep = RankAndReport(file, Sums(times), run.top)
    PROVE  RankingOf(rep)
<1> DEFINE top == run.top
           sums == Sums(times)
           base == BaseHour(file)
<1>1. top \in Nat
  BY RunsAssumption DEF Given, Options
<1>2. ASSUME NEW date \in {lines[r].date : r \in Records}, BusyAt(date) # {}
      PROVE  \E hour \in rep : hour.label = date /\ ListsAt(date, hour.lights, top)
  <2>1. PICK r \in Records : date = lines[r].date
    BY <1>2
  <2> DEFINE h == AbsHour(date) - base
  <2>2. /\ IsFiniteSet(BusyAt(date))
        /\ \A l \in BusyAt(date) : l \in Nat /\ CarsOf(date, l) \in Nat
    BY <2>1, BusyIs
  <2>3. HourLabel(base + h) = date
    BY <2>1, CellNames
  <2>4. /\ BusyIn(sums, h) = {EntryAt(date, l) : l \in BusyAt(date)}
        /\ \A l \in BusyAt(date) : sums[<<h, l>>] > 0 /\ <<h, l>> \in DOMAIN sums
    BY <2>1, BusyFound
  <2> HIDE DEF h, base, sums, top
  <2>5. ListsAt(date, TopLights(sums, h, top), top)
    BY <1>1, <2>2, <2>4, ListIsTrue
  <2>6. PICK l \in BusyAt(date) : TRUE
    BY <1>2
  <2>7. <<h, l>> \in {x \in DOMAIN sums : sums[x] > 0} /\ <<h, l>>[1] = h
    BY <2>4
  <2>8. h \in {c[1] : c \in {x \in DOMAIN sums : sums[x] > 0}}
    BY <2>7
  <2> DEFINE hour == [label |-> HourLabel(base + h), lights |-> TopLights(sums, h, top)]
  <2>9. hour \in RankAndReport(file, sums, top)
    BY <2>8 DEF RankAndReport, base
  <2>10. hour \in rep
    BY <2>9 DEF sums, top
  <2>11. hour.label = date /\ hour.lights = TopLights(sums, h, top)
    BY <2>3
  <2> QED BY <2>5, <2>10, <2>11
<1> QED BY <1>2 DEF RankingOf, top

\* This is what RankingTrue says of the report.
LEMMA RankingIs == RankingTrue <=> RankingOf(report)
<1> SUFFICES ASSUME NEW date \in {lines[r].date : r \in Records}
             PROVE  (LET named == {lines[r].light : r \in {x \in Records : lines[x].date = date}}
                         busy  == {l \in named : CarsOf(date, l) > 0}
                         Before(l) == {m \in busy : \/ CarsOf(date, m) > CarsOf(date, l)
                                                    \/ CarsOf(date, m) = CarsOf(date, l) /\ m < l}
                         ranked == {l \in busy : Cardinality(Before(l)) < run.top}
                     IN  busy # {} =>
                           \E hour \in report :
                             /\ hour.label = date
                             /\ Len(hour.lights) = Cardinality(ranked)
                             /\ \A l \in ranked :
                                  hour.lights[Cardinality(Before(l)) + 1] = [light |-> l, cars |-> CarsOf(date, l)])
                    <=> (BusyAt(date) # {} => \E hour \in report : hour.label = date /\ ListsAt(date, hour.lights, run.top))
  BY Zenon DEF RankingTrue, RankingOf
<1> QED BY Zenon DEF BusyAt, BeforeAt, EntryAt, ListsAt

\* The cars of a set of the lines ls
CarsFrom(ls, S) == MapThenSumSet(LAMBDA r : ls[r].cars, S)

\* The run does not change, nor what its lines name.
LEMMA RankingStays ==
    ASSUME UNCHANGED runVars
    PROVE  RankingTrue' <=> RankingOf(report')
<1>1. Records' = Records /\ lines' = lines /\ run' = run
  BY RunStays
<1>2. ASSUME NEW date, NEW l PROVE CarsOf(date, l)' = CarsOf(date, l)
  <2>1. RecordsOf(date, l)' = RecordsOf(date, l)
    BY <1>1 DEF RecordsOf
  <2>2. CarsOf(date, l) = CarsFrom(lines, RecordsOf(date, l))
    BY DEF CarsOf, CarsFrom, RecordsOf
  <2>3. CarsOf(date, l)' = CarsFrom(lines', RecordsOf(date, l)')
    BY DEF CarsOf, CarsFrom, RecordsOf, MapThenSumSet, MapThenFoldSet
  <2> QED BY <1>1, <2>1, <2>2, <2>3
<1>3. \A date : BusyAt(date)' = BusyAt(date)
  BY <1>1, <1>2 DEF BusyAt
<1>4. ASSUME NEW date, NEW l PROVE BeforeAt(date, l)' = BeforeAt(date, l) /\ EntryAt(date, l)' = EntryAt(date, l)
  BY <1>2, <1>3 DEF BeforeAt, EntryAt
<1>5. ASSUME NEW date, NEW list, NEW top PROVE ListsAt(date, list, top)' <=> ListsAt(date, list, top)
  BY <1>3, <1>4 DEF ListsAt
<1>6. RankingOf(report)' <=> RankingOf(report')
  BY <1>1, <1>3, <1>5 DEF RankingOf
<1>7. RankingTrue' <=> RankingOf(report)'
  BY RankingIs, PTL
<1> QED BY <1>6, <1>7

-----------------------------------------------------------------------------
(* The counters                                                            *)

\* The records that were added, those that begin in a producer's range, and
\* what each thread contributes to the counters
AddedRecords == {r \in Records : \E s \in Slots : tally[s][r] # 0}
OwnRecords(p) == {r \in Records : Start(p) <= input.first[r] /\ input.first[r] < End(p)}
Applied == [c \in Consumers |-> next[c] - 1]
ReadBy == [p \in Producers |-> IF ppc[p] = "done" THEN Cardinality(OwnRecords(p)) ELSE 0]

\* A consumer does not pass the end of its block. What was pushed was popped
\* or is queued, what was added is accounted for or of a block still at hand,
\* and unless a producer gave up, those that are done account for their range.
CountersInv ==
    /\ \A c \in Consumers : next[c] <= Len(hand[c]) + 1
    /\ \A p \in Producers : ppc[p] \in {"stopNotEmpty", "stopNotFull"} => stopped
    /\ pushed = popped + Len(queue)
    /\ run.mode # "seq" => Cardinality(AddedRecords) = consumed + SumFunctionOnSet(Applied, Consumers)
    /\ ~stopped => produced = SumFunctionOnSet(ReadBy, Producers)

\* The counters are numbers.
LEMMA CountersAre ==
    ASSUME TypeInv
    PROVE  /\ IsFiniteSet(Producers) /\ IsFiniteSet(Consumers)
           /\ \A c \in Consumers : Applied[c] \in Nat /\ Applied[c] = next[c] - 1
           /\ \A p \in Producers : /\ IsFiniteSet(OwnRecords(p)) /\ Cardinality(OwnRecords(p)) \in Nat
                                   /\ ReadBy[p] \in Nat
                                   /\ ReadBy[p] = IF ppc[p] = "done" THEN Cardinality(OwnRecords(p)) ELSE 0
           /\ IsFiniteSet(AddedRecords)
           /\ SumFunctionOnSet(Applied, Consumers) \in Int /\ SumFunctionOnSet(ReadBy, Producers) \in Int
<1>1. IsFiniteSet(Producers) /\ IsFiniteSet(Consumers)
  BY ThreadsAssumption
<1>2. IsFiniteSet(Records)
  BY LinesWithText DEF TypeInv
<1>3. \A p \in Producers : IsFiniteSet(OwnRecords(p)) /\ Cardinality(OwnRecords(p)) \in Nat
  <2> TAKE p \in Producers
  <2>1. OwnRecords(p) \subseteq Records
    BY DEF OwnRecords
  <2> QED BY <1>2, <2>1, FS_Subset, FS_CardinalityType
<1>4. AddedRecords \subseteq Records
  BY DEF AddedRecords
<1>5. \A c \in Consumers : Applied[c] \in Nat /\ Applied[c] = next[c] - 1
  BY DEF Applied, TypeInv, ThreadsOK
<1>6. \A p \in Producers : /\ ReadBy[p] \in Nat
                           /\ ReadBy[p] = IF ppc[p] = "done" THEN Cardinality(OwnRecords(p)) ELSE 0
  BY <1>3 DEF ReadBy
<1>7. SumFunctionOnSet(Applied, Consumers) \in Int
  BY <1>1, <1>5, SumIsInt
<1>8. SumFunctionOnSet(ReadBy, Producers) \in Int
  BY <1>1, <1>6, SumIsInt
<1> QED BY <1>1, <1>2, <1>3, <1>4, <1>5, <1>6, <1>7, <1>8, FS_Subset

\* Steps after which the run's data are the same
LEMMA OwnStays ==
    ASSUME UNCHANGED runVars
    PROVE  /\ \A p \in Producers : OwnRecords(p)' = OwnRecords(p)
           /\ tally' = tally => AddedRecords' = AddedRecords
BY RunStays DEF OwnRecords, AddedRecords

\* The sums change with the place or the next record of one thread.
LEMMA AppliedStays ==
    ASSUME UNCHANGED <<runVars, tally, next>>
    PROVE  Applied' = Applied /\ AddedRecords' = AddedRecords
BY OwnStays DEF Applied

\* The other one changes when a producer is done.
LEMMA ReadByStays ==
    ASSUME UNCHANGED runVars, \A p \in Producers : ppc'[p] = "done" <=> ppc[p] = "done"
    PROVE  ReadBy' = ReadBy
<1>1. \A p \in Producers : OwnRecords(p)' = OwnRecords(p)
  BY OwnStays
<1> QED BY <1>1 DEF ReadBy

\* Steps that move no block and count nothing
LEMMA QuietKeepsCounters ==
    ASSUME TypeInv, CountersInv, UNCHANGED <<runVars, hand, next, queue, pushed, popped, produced, consumed>>,
           tally' = tally \/ run.mode = "seq", stopped => stopped',
           ~stopped' => \A p \in Producers : ppc'[p] = "done" <=> ppc[p] = "done",
           \A p \in Producers : ppc'[p] \in {"stopNotEmpty", "stopNotFull"} => stopped'
    PROVE  CountersInv'
<1>1. run' = run
  BY RunStays
<1>2. run.mode # "seq" => Applied' = Applied /\ AddedRecords' = AddedRecords
  BY AppliedStays
<1>3. ~stopped' => ReadBy' = ReadBy
  BY ReadByStays
<1>4. run.mode # "seq" => Cardinality(AddedRecords)' = consumed' + SumFunctionOnSet(Applied, Consumers)'
  BY <1>2 DEF CountersInv
<1>5. ~stopped' => produced' = SumFunctionOnSet(ReadBy, Producers)'
  BY <1>3 DEF CountersInv
<1> QED BY <1>1, <1>4, <1>5 DEF CountersInv

\* A producer goes on to another place than the end.
LEMMA ProducerGoesOn ==
    ASSUME TypeInv, CountersInv, NEW p \in Producers, NEW m \in ProducerPlaces \ {"done"},
           ppc[p] # "done", ppc' = [ppc EXCEPT ![p] = m],
           UNCHANGED <<runVars, hand, next, queue, pushed, popped, produced, consumed, tally>>,
           stopped => stopped', m \in {"stopNotEmpty", "stopNotFull"} => stopped'
    PROVE  CountersInv'
<1>1. \A q \in Producers : ppc'[q] = IF q = p THEN m ELSE ppc[q]
  BY DEF TypeInv, ThreadsOK
<1>2. \A q \in Producers : ppc'[q] = "done" <=> ppc[q] = "done"
  BY <1>1
<1>3. \A q \in Producers : ppc'[q] \in {"stopNotEmpty", "stopNotFull"} => stopped'
  BY <1>1 DEF CountersInv
<1> QED BY <1>2, <1>3, QuietKeepsCounters

\* A producer that is done accounts for its range.
LEMMA EndOfRangeKeepsCounters ==
    ASSUME TypeInv, CountInv, CountersInv, ReadsSucceed, NEW p \in Producers, EndOfRange(p) PROVE CountersInv'
<1>1. /\ UNCHANGED <<runVars, pos, block, consumerVars, bufferVars, tally, consumed>>
      /\ ppc[p] = "read" /\ Given /\ ThreadsOK
      /\ \/ ppc' = [ppc EXCEPT ![p] = "push"] /\ UNCHANGED produced
         \/ ppc' = [ppc EXCEPT ![p] = "done"] /\ produced' = produced + Cardinality(RecordsRead(p))
  BY DEF EndOfRange, ProducerGoto, TypeInv
<1>2. CASE ppc' = [ppc EXCEPT ![p] = "push"] /\ UNCHANGED produced
  <2>1. UNCHANGED <<runVars, hand, next, queue, pushed, popped, produced, consumed, tally, stopped>>
    BY <1>1, <1>2 DEF consumerVars, bufferVars
  <2>2. "push" \in ProducerPlaces \ {"done"}
    BY DEF ProducerPlaces
  <2> QED BY <1>1, <1>2, <2>1, <2>2, ProducerGoesOn
<1>3. CASE ppc' = [ppc EXCEPT ![p] = "done"] /\ produced' = produced + Cardinality(RecordsRead(p))
  <2>1. RecordsRead(p) = OwnRecords(p)
    <3>1. pos[p] >= End(p) /\ End(p) \in Nat /\ pos[p] \in Nat
      <4>1. run.unreadable = {}
        BY <1>1 DEF ReadsSucceed, Given
      <4>2. End(p) \in Nat /\ pos[p] \in Nat
        BY <1>1, Ranges DEF ThreadsOK
      <4> QED BY <4>1, <4>2 DEF EndOfRange, RangeRead
    <3>2. Records \subseteq 1 .. LineCount
      BY <1>1, LinesWithText
    <3>3. \A r \in Records : input.first[r] \in Nat
      BY <1>1, <3>2, FirstBytes, RunIs DEF Given
    <3>4. \A r \in Records : Start(p) <= input.first[r] /\ input.first[r] < pos[p] => input.first[r] < End(p)
      BY <3>2 DEF CountInv, ReadingInv, Has
    <3>5. \A r \in Records : input.first[r] < End(p) => input.first[r] < pos[p]
      BY <3>1, <3>3
    <3> QED BY <3>4, <3>5 DEF RecordsRead, OwnRecords
  <2>2. \A q \in Producers : ppc'[q] = IF q = p THEN "done" ELSE ppc[q]
    BY <1>1, <1>3 DEF ThreadsOK
  <2>3. \A q \in Producers : OwnRecords(q)' = OwnRecords(q)
    BY <1>1, OwnStays
  <2>4. /\ IsFiniteSet(Producers) /\ produced \in Nat
        /\ \A q \in Producers : /\ Cardinality(OwnRecords(q)) \in Nat /\ ReadBy[q] \in Nat
                                /\ ReadBy[q] = IF ppc[q] = "done" THEN Cardinality(OwnRecords(q)) ELSE 0
        /\ SumFunctionOnSet(ReadBy, Producers) \in Int
    BY CountersAre DEF TypeInv, CountersOK
  <2> DEFINE g == [q \in Producers |-> IF ppc'[q] = "done" THEN Cardinality(OwnRecords(q)) ELSE 0]
  <2>5. ReadBy' = g
    BY <2>3 DEF ReadBy
  <2>6. \A q \in Producers : g[q] = IF q = p THEN Cardinality(OwnRecords(q)) ELSE ReadBy[q]
    BY <2>2, <2>4
  <2> HIDE DEF g
  <2>7. SumFunctionOnSet(g, Producers) = SumFunctionOnSet(ReadBy, Producers) + (g[p] - ReadBy[p])
    <3>1. \A q \in Producers : g[q] \in Int /\ ReadBy[q] \in Int
      BY <2>4, <2>6
    <3>2. \A q \in Producers \ {p} : g[q] = ReadBy[q]
      BY <2>6
    <3> QED BY <2>4, <3>1, <3>2, SumChanges
  <2>8. ReadBy[p] = 0 /\ g[p] = Cardinality(OwnRecords(p))
    BY <1>1, <2>4, <2>6
  <2>9. ~stopped => produced' = SumFunctionOnSet(g, Producers)
    BY <1>3, <2>1, <2>4, <2>7, <2>8 DEF CountersInv
  <2>10. /\ Applied' = Applied /\ AddedRecords' = AddedRecords /\ run' = run
         /\ UNCHANGED <<hand, next, queue, pushed, popped, consumed, stopped>>
    BY <1>1, AppliedStays, RunStays DEF consumerVars, bufferVars
  <2>11. run.mode # "seq" => Cardinality(AddedRecords)' = consumed' + SumFunctionOnSet(Applied, Consumers)'
    BY <2>10 DEF CountersInv
  <2>12. ~stopped => produced' = SumFunctionOnSet(ReadBy, Producers)'
    BY <2>5, <2>9
  <2>13. \A q \in Producers : ppc'[q] \in {"stopNotEmpty", "stopNotFull"} => stopped
    BY <2>2 DEF CountersInv
  <2> QED BY <2>10, <2>11, <2>12, <2>13 DEF CountersInv
<1> QED BY <1>1, <1>2, <1>3

\* A push counts its block.
LEMMA PushKeepsCounters ==
    ASSUME TypeInv, CountersInv, NEW p \in Producers, Push(p) PROVE CountersInv'
<1>1. /\ UNCHANGED <<runVars, pos, consumerVars, closed, stopped, notEmpty, popped, contextVars, mainVars>>
      /\ ppc[p] = "push" /\ ThreadsOK
  BY PushIs DEF TypeInv
<1>2. UNCHANGED <<hand, next, tally, produced, consumed>>
  BY <1>1 DEF consumerVars, contextVars
<1>3. CASE stopped /\ ppc' = [ppc EXCEPT ![p] = "done"] /\ UNCHANGED <<queue, pushed>>
  <2>1. \A q \in Producers : ppc'[q] \in {"stopNotEmpty", "stopNotFull"} => stopped'
    BY <1>1, <1>3
  <2> QED BY <1>1, <1>2, <1>3, <2>1, QuietKeepsCounters
<1>4. CASE ppc' = [ppc EXCEPT ![p] = "waiting"] /\ UNCHANGED <<queue, pushed>>
  <2>1. "waiting" \in ProducerPlaces \ {"done"}
    BY DEF ProducerPlaces
  <2> QED BY <1>1, <1>2, <1>4, <2>1, ProducerGoesOn
<1>5. CASE /\ ppc' = [ppc EXCEPT ![p] = "notify"]
           /\ queue' = Append(queue, block[p]) /\ pushed' = pushed + 1
  <2>1. \A q \in Producers : ppc'[q] = IF q = p THEN "notify" ELSE ppc[q]
    BY <1>1, <1>5 DEF ThreadsOK
  <2>2. queue \in Seq(Seq(Records)) /\ block[p] \in Seq(Records) /\ pushed \in Nat /\ popped \in Nat
    BY DEF TypeInv, ThreadsOK, BufferOK
  <2>3. Len(queue') = Len(queue) + 1 /\ Len(queue) \in Nat
    BY <1>5, <2>2
  <2>4. pushed' = popped + Len(queue')
    BY <1>5, <2>2, <2>3 DEF CountersInv
  <2>5. ReadBy' = ReadBy
    BY <1>1, <2>1, ReadByStays
  <2>6. Applied' = Applied /\ AddedRecords' = AddedRecords /\ run' = run
    BY <1>1, <1>2, AppliedStays, RunStays
  <2>7. run.mode # "seq" => Cardinality(AddedRecords)' = consumed' + SumFunctionOnSet(Applied, Consumers)'
    BY <1>2, <2>6 DEF CountersInv
  <2>8. ~stopped => produced' = SumFunctionOnSet(ReadBy, Producers)'
    BY <1>2, <2>5 DEF CountersInv
  <2>9. \A q \in Producers : ppc'[q] \in {"stopNotEmpty", "stopNotFull"} => stopped
    BY <2>1 DEF CountersInv
  <2> QED BY <1>1, <1>2, <2>4, <2>6, <2>7, <2>8, <2>9 DEF CountersInv
<1> QED BY <1>3, <1>4, <1>5, PushIs

\* A producer keeps the counters right.
LEMMA ProducerKeepsCounters ==
    ASSUME TypeInv, CountInv, CountersInv, ReadsSucceed, NEW p \in Producers, Producer(p) PROVE CountersInv'
<1>0. ThreadsOK /\ ParkedOK /\ Given /\ {"failText", "read", "push", "failFlag", "stop", "stopNotEmpty", "stopNotFull"} \subseteq ProducerPlaces \ {"done"}
  BY DEF TypeInv, ProducerPlaces
<1>1. CASE FindFirstLine(p)
  <2>1. run.unreadable = {}
    BY <1>0 DEF ReadsSucceed, Given
  <2>2. \E m \in {"failText", "read"} : ppc[p] = "open" /\ ppc' = [ppc EXCEPT ![p] = m]
    BY <1>1, <2>1 DEF FindFirstLine, ProducerGoto
  <2>3. UNCHANGED <<runVars, hand, next, queue, pushed, popped, produced, consumed, tally, stopped>>
    BY <1>1 DEF FindFirstLine, consumerVars, bufferVars, contextVars
  <2> QED BY <1>0, <2>2, <2>3, ProducerGoesOn
<1>2. CASE ReadLine(p)
  <2>1. \E m \in {"failText", "push", "read"} : ppc[p] = "read" /\ ppc' = [ppc EXCEPT ![p] = m]
    BY <1>2, ReadLineIs
  <2>2. UNCHANGED <<runVars, hand, next, queue, pushed, popped, produced, consumed, tally, stopped>>
    BY <1>2 DEF ReadLine, consumerVars, bufferVars, contextVars
  <2> QED BY <1>0, <2>1, <2>2, ProducerGoesOn
<1>3. CASE NotifyNotEmpty(p)
  <2>1. ppc[p] = "notify" /\ ppc' = [ppc EXCEPT ![p] = "read"]
    BY <1>3 DEF NotifyNotEmpty, ProducerGoto
  <2>2. UNCHANGED <<runVars, hand, next, queue, pushed, popped, produced, consumed, tally, stopped>>
    BY <1>3 DEF NotifyNotEmpty, contextVars
  <2> QED BY <1>0, <2>1, <2>2, ProducerGoesOn
<1>4. CASE FailText(p) \/ FailFlag(p)
  <2>1. \E m \in {"failFlag", "stop"} : ppc[p] # "done" /\ ppc' = [ppc EXCEPT ![p] = m]
    BY <1>4 DEF FailText, FailFlag, ProducerGoto
  <2>2. UNCHANGED <<runVars, hand, next, queue, pushed, popped, produced, consumed, tally, stopped>>
    BY <1>4 DEF FailText, FailFlag, consumerVars, bufferVars
  <2> QED BY <1>0, <2>1, <2>2, ProducerGoesOn
<1>5. CASE Stop(p)
  <2>1. ppc[p] = "stop" /\ ppc' = [ppc EXCEPT ![p] = "stopNotEmpty"] /\ stopped'
    BY <1>5 DEF Stop, ProducerGoto
  <2>2. UNCHANGED <<runVars, hand, next, queue, pushed, popped, produced, consumed, tally>>
    BY <1>5 DEF Stop, consumerVars, contextVars
  <2> QED BY <1>0, <2>1, <2>2, ProducerGoesOn
<1>6. CASE StopNotEmpty(p)
  <2>1. ppc[p] = "stopNotEmpty" /\ ppc' = [ppc EXCEPT ![p] = "stopNotFull"] /\ stopped
    BY <1>6 DEF StopNotEmpty, ProducerGoto, CountersInv
  <2>2. UNCHANGED <<runVars, hand, next, queue, pushed, popped, produced, consumed, tally, stopped>>
    BY <1>6 DEF StopNotEmpty, contextVars
  <2> QED BY <1>0, <2>1, <2>2, ProducerGoesOn
<1>7. CASE StopNotFull(p)
  <2>1. ppc[p] = "stopNotFull" /\ UNCHANGED stopped /\ stopped
    BY <1>7 DEF StopNotFull, CountersInv
  <2>2. UNCHANGED <<runVars, hand, next, queue, pushed, popped, produced, consumed, tally, stopped>>
    BY <1>7 DEF StopNotFull, consumerVars, contextVars
  <2> QED BY <2>1, <2>2, QuietKeepsCounters
<1> QED BY <1>1, <1>2, <1>3, <1>4, <1>5, <1>6, <1>7, PushKeepsCounters, EndOfRangeKeepsCounters DEF Producer

\* A consumer that pops counts its block.
LEMMA PopKeepsCounters ==
    ASSUME TypeInv, CountInv, CountersInv, NEW c \in Consumers, Pop(c) PROVE CountersInv'
<1>1. /\ UNCHANGED <<runVars, producerVars, closed, stopped, notFull, pushed, maxDepth, contextVars, mainVars>>
      /\ cpc[c] = "pop" /\ ThreadsOK
  BY PopIs DEF TypeInv
<1>2. UNCHANGED <<ppc, tally, produced, consumed>>
  BY <1>1 DEF producerVars, contextVars
<1>3. CASE UNCHANGED <<hand, next, queue, popped>>
  <2>1. \A q \in Producers : ppc'[q] \in {"stopNotEmpty", "stopNotFull"} => stopped'
    BY <1>1, <1>2 DEF CountersInv
  <2> QED BY <1>1, <1>2, <1>3, <2>1, QuietKeepsCounters
<1>4. CASE /\ hand' = [hand EXCEPT ![c] = Head(queue)] /\ next' = [next EXCEPT ![c] = 1]
           /\ queue # <<>> /\ queue' = Tail(queue) /\ popped' = popped + 1
  <2>1. queue \in Seq(Seq(Records)) /\ pushed \in Nat /\ popped \in Nat
    BY DEF TypeInv, BufferOK
  <2>2. Len(queue) \in Nat /\ Len(queue') = Len(queue) - 1 /\ Len(Head(queue)) \in Nat
    BY <1>4, <2>1
  <2>3. pushed = popped' + Len(queue')
    BY <1>4, <2>1, <2>2 DEF CountersInv
  <2>4. next[c] = 1
    <3>1. hand[c] = <<>> /\ next[c] <= Len(hand[c]) + 1 /\ next[c] \in Nat \ {0}
      BY <1>1 DEF CountInv, DrainingInv, CountersInv, ThreadsOK
    <3> QED BY <3>1
  <2>5. next' = next
    BY <1>1, <1>4, <2>4 DEF ThreadsOK
  <2>6. \A d \in Consumers : next'[d] <= Len(hand'[d]) + 1
    <3> TAKE d \in Consumers
    <3>1. CASE d = c
      <4>1. hand'[d] = Head(queue) /\ next'[d] = 1
        BY <1>1, <1>4, <2>4, <2>5, <3>1 DEF ThreadsOK
      <4> QED BY <2>2, <4>1
    <3>2. CASE d # c
      <4>1. hand'[d] = hand[d]
        BY <1>1, <1>4, <3>2 DEF ThreadsOK
      <4> QED BY <2>5, <4>1 DEF CountersInv
    <3> QED BY <3>1, <3>2
  <2>7. Applied' = Applied /\ AddedRecords' = AddedRecords /\ run' = run /\ ReadBy' = ReadBy
    BY <1>1, <1>2, <2>5, AppliedStays, ReadByStays, RunStays
  <2>8. run.mode # "seq" => Cardinality(AddedRecords)' = consumed' + SumFunctionOnSet(Applied, Consumers)'
    BY <1>2, <2>7 DEF CountersInv
  <2>9. ~stopped => produced' = SumFunctionOnSet(ReadBy, Producers)'
    BY <1>2, <2>7 DEF CountersInv
  <2> QED BY <1>1, <1>2, <2>3, <2>6, <2>7, <2>8, <2>9 DEF CountersInv
<1> QED BY <1>3, <1>4, PopIs

\* A record that is added counts as applied, ...
LEMMA ApplyRecordKeepsCounters ==
    ASSUME TypeInv, CountInv, CountersInv, NEW c \in Consumers, ApplyRecord(c) PROVE CountersInv'
<1>1. /\ UNCHANGED <<runVars, producerVars, cpc, hand, bufferVars, produced, consumed>> /\ ThreadsOK
  BY DEF ApplyRecord, TypeInv
<1>2. PICK x \in Records, s \in Slots, n \in DOMAIN hand[c] :
        /\ n = next[c]
        /\ \A t \in Slots, r \in Records : tally'[t][r] = IF t = s /\ r = x THEN 1 ELSE tally[t][r]
        /\ \A d \in Consumers : next'[d] = IF d = c THEN n + 1 ELSE next[d]
        /\ \A t \in Slots : tally[t][x] = 0
  BY ApplyRecordIs
<1>3. Records' = Records /\ Slots' = Slots /\ run' = run /\ UNCHANGED <<queue, pushed, popped, stopped, ppc>>
  BY <1>1, RunStays DEF producerVars, bufferVars
<1>4. hand[c] \in Seq(Records) /\ n \in 1 .. Len(hand[c]) /\ Len(hand[c]) \in Nat
  BY <1>1 DEF ThreadsOK
<1>5. AddedRecords' = AddedRecords \cup {x} /\ x \notin AddedRecords
  <2>1. \A r \in Records : (\E t \in Slots : tally'[t][r] # 0) <=> r = x \/ \E t \in Slots : tally[t][r] # 0
    BY <1>2
  <2> QED BY <1>2, <1>3, <2>1 DEF AddedRecords
<1>6. /\ IsFiniteSet(Consumers) /\ IsFiniteSet(AddedRecords) /\ Cardinality(AddedRecords) \in Nat
      /\ \A d \in Consumers : Applied[d] \in Nat /\ Applied[d] = next[d] - 1
      /\ SumFunctionOnSet(Applied, Consumers) \in Int /\ consumed \in Nat
  BY CountersAre, FS_CardinalityType DEF TypeInv, CountersOK
<1>7. Cardinality(AddedRecords') = Cardinality(AddedRecords) + 1
  BY <1>5, <1>6, FS_AddElement
<1> DEFINE g == [d \in Consumers |-> next'[d] - 1]
<1>8. Applied' = g
  BY DEF Applied
<1>9. \A d \in Consumers : g[d] = IF d = c THEN Applied[d] + 1 ELSE Applied[d]
  <2>1. \A d \in Consumers : next[d] \in Nat
    BY <1>1 DEF ThreadsOK
  <2> QED BY <1>2, <1>6, <2>1
<1> HIDE DEF g
<1>10. SumFunctionOnSet(g, Consumers) = SumFunctionOnSet(Applied, Consumers) + (g[c] - Applied[c])
  <2>1. \A d \in Consumers : g[d] \in Int /\ Applied[d] \in Int
    BY <1>6, <1>9
  <2>2. \A d \in Consumers \ {c} : g[d] = Applied[d]
    BY <1>9
  <2> QED BY <1>6, <2>1, <2>2, SumChanges
<1>11. SumFunctionOnSet(g, Consumers) = SumFunctionOnSet(Applied, Consumers) + 1
  <2>1. g[c] = Applied[c] + 1 /\ Applied[c] \in Nat
    BY <1>6, <1>9
  <2> QED BY <1>6, <1>10, <2>1
<1>12. run.mode # "seq" => Cardinality(AddedRecords)' = consumed' + SumFunctionOnSet(Applied, Consumers)'
  <2>1. run.mode # "seq" => Cardinality(AddedRecords') = consumed + SumFunctionOnSet(g, Consumers)
    BY <1>6, <1>7, <1>11 DEF CountersInv
  <2> QED BY <1>1, <1>8, <2>1
<1>13. \A d \in Consumers : next'[d] <= Len(hand'[d]) + 1
  <2> TAKE d \in Consumers
  <2>1. CASE d = c
    BY <1>1, <1>2, <1>4, <2>1
  <2>2. CASE d # c
    BY <1>1, <1>2, <2>2 DEF CountersInv
  <2> QED BY <2>1, <2>2
<1>14. ~stopped => produced' = SumFunctionOnSet(ReadBy, Producers)'
  <2>1. ReadBy' = ReadBy
    BY <1>1, <1>3, ReadByStays
  <2> QED BY <1>1, <2>1 DEF CountersInv
<1> QED BY <1>1, <1>3, <1>12, <1>13, <1>14 DEF CountersInv

\* ... until its block is accounted for.
LEMMA EndOfBlockKeepsCounters ==
    ASSUME TypeInv, CountInv, CountersInv, NEW c \in Consumers, EndOfBlock(c) PROVE CountersInv'
<1>1. /\ UNCHANGED <<runVars, producerVars, bufferVars, tally, produced>> /\ ThreadsOK
      /\ next[c] > Len(hand[c]) /\ consumed' = consumed + Len(hand[c])
      /\ hand' = [hand EXCEPT ![c] = <<>>] /\ next' = [next EXCEPT ![c] = 1]
  BY DEF EndOfBlock, TypeInv
<1>2. run' = run /\ AddedRecords' = AddedRecords /\ UNCHANGED <<queue, pushed, popped, stopped, ppc>>
  BY <1>1, RunStays, OwnStays DEF producerVars, bufferVars
<1>3. /\ \A d \in Consumers : next'[d] = IF d = c THEN 1 ELSE next[d]
      /\ \A d \in Consumers : hand'[d] = IF d = c THEN <<>> ELSE hand[d]
      /\ \A d \in Consumers : next[d] \in Nat
      /\ Len(hand[c]) \in Nat
  <2>1. hand[c] \in Seq(Records)
    BY <1>1 DEF ThreadsOK
  <2> QED BY <1>1, <2>1 DEF ThreadsOK
<1>4. next[c] - 1 = Len(hand[c])
  <2>1. next[c] <= Len(hand[c]) + 1
    BY DEF CountersInv
  <2> QED BY <1>1, <1>3, <2>1
<1>6. /\ IsFiniteSet(Consumers) /\ Cardinality(AddedRecords) \in Nat
      /\ \A d \in Consumers : Applied[d] \in Nat /\ Applied[d] = next[d] - 1
      /\ SumFunctionOnSet(Applied, Consumers) \in Int /\ consumed \in Nat
  BY CountersAre, FS_CardinalityType DEF TypeInv, CountersOK
<1> DEFINE g == [d \in Consumers |-> next'[d] - 1]
<1>8. Applied' = g
  BY DEF Applied
<1>9. \A d \in Consumers : g[d] = IF d = c THEN 0 ELSE Applied[d]
  BY <1>3, <1>6
<1> HIDE DEF g
<1>10. SumFunctionOnSet(g, Consumers) = SumFunctionOnSet(Applied, Consumers) + (g[c] - Applied[c])
  <2>1. \A d \in Consumers : g[d] \in Int /\ Applied[d] \in Int
    BY <1>6, <1>9
  <2>2. \A d \in Consumers \ {c} : g[d] = Applied[d]
    BY <1>9
  <2> QED BY <1>6, <2>1, <2>2, SumChanges
<1>11. g[c] = 0 /\ Applied[c] = Len(hand[c])
  BY <1>4, <1>6, <1>9
<1>12. run.mode # "seq" => Cardinality(AddedRecords)' = consumed' + SumFunctionOnSet(Applied, Consumers)'
  <2>1. run.mode # "seq" => Cardinality(AddedRecords) = consumed' + SumFunctionOnSet(g, Consumers)
    BY <1>1, <1>3, <1>6, <1>10, <1>11 DEF CountersInv
  <2> QED BY <1>2, <1>8, <2>1
<1>13. \A d \in Consumers : next'[d] <= Len(hand'[d]) + 1
  <2> TAKE d \in Consumers
  <2>1. CASE d = c
    BY <1>3, <2>1
  <2>2. CASE d # c
    BY <1>3, <2>2 DEF CountersInv
  <2> QED BY <2>1, <2>2
<1>14. ~stopped => produced' = SumFunctionOnSet(ReadBy, Producers)'
  <2>1. ReadBy' = ReadBy
    BY <1>1, <1>2, ReadByStays
  <2> QED BY <1>1, <2>1 DEF CountersInv
<1> QED BY <1>1, <1>2, <1>12, <1>13, <1>14 DEF CountersInv

\* The other steps count nothing, or in mode seq.
LEMMA OthersKeepCounters ==
    ASSUME TypeInv, CountInv, CountersInv,
           Main \/ Monitor \/ Spurious \/ UNCHANGED vars \/ \E c \in Consumers : NotifyNotFull(c)
    PROVE  CountersInv'
<1>1. ThreadsOK /\ ParkedOK /\ Begun
  BY DEF TypeInv
<1>2. UNCHANGED <<runVars, hand, next, queue, pushed, popped, produced, consumed, stopped>>
  BY DEF Main, Sequential, Reject, StartThreads, StartSequential, CountLine, ReportSequential, Close, CloseNotify,
     JoinConsumers, Finish, Monitor, Spurious, NotifyNotFull, vars, consumerVars, bufferVars, contextVars
<1>3. tally' = tally \/ run.mode = "seq"
  BY <1>1 DEF Main, Sequential, Reject, StartThreads, StartSequential, CountLine, ReportSequential, Close, CloseNotify,
     JoinConsumers, Finish, Monitor, Spurious, NotifyNotFull, vars, contextVars, Begun
<1>4. \A p \in Producers : \/ ppc'[p] = ppc[p]
                           \/ ppc[p] = "created" /\ ppc'[p] = "open"
                           \/ ppc[p] = "waiting" /\ ppc'[p] = "push"
  <2>1. CASE StartThreads
    BY <1>1, <2>1 DEF StartThreads, Begun
  <2>2. CASE Spurious \/ \E c \in Consumers : NotifyNotFull(c)
    <3>1. ppc' = ppc \/ \E p \in notFull : ppc' = [ppc EXCEPT ![p] = "push"]
      BY <2>2 DEF Spurious, SpuriousWakeup, NotifyNotFull, WakeProducer, ProducerGoto
    <3> QED BY <1>1, <3>1 DEF ThreadsOK, ParkedOK
  <2>3. CASE Reject \/ Sequential \/ Close \/ CloseNotify \/ JoinConsumers \/ Finish \/ Monitor \/ UNCHANGED vars
    <3>1. ppc' = ppc
      BY <2>3 DEF Sequential, Reject, StartSequential, CountLine, ReportSequential, Close, CloseNotify,
         JoinConsumers, Finish, Monitor, vars, producerVars
    <3> QED BY <3>1
  <2> QED BY <2>1, <2>2, <2>3 DEF Main
<1>5. \A p \in Producers : ppc'[p] = "done" <=> ppc[p] = "done"
  BY <1>4
<1>6. \A p \in Producers : ppc'[p] \in {"stopNotEmpty", "stopNotFull"} => stopped'
  BY <1>2, <1>4 DEF CountersInv
<1> QED BY <1>2, <1>3, <1>5, <1>6, QuietKeepsCounters

\* Nothing is counted in the initial state.
LEMMA InitCounters ==
    ASSUME Init PROVE CountersInv
<1>1. TypeInv
  BY InitType
<1>2. /\ \A p \in Producers : ppc[p] = "created"
      /\ \A c \in Consumers : next[c] = 1 /\ hand[c] = <<>>
      /\ \A s \in Slots, r \in Records : tally[s][r] = 0
      /\ pushed = 0 /\ popped = 0 /\ queue = <<>> /\ produced = 0 /\ consumed = 0
  BY DEF Init
<1>3. AddedRecords = {}
  BY <1>2 DEF AddedRecords
<1>4. Cardinality(AddedRecords) = 0
  BY <1>3, FS_EmptySet
<1>5. /\ IsFiniteSet(Producers) /\ IsFiniteSet(Consumers)
      /\ \A c \in Consumers : Applied[c] = 0
      /\ \A p \in Producers : ReadBy[p] = 0
  <2>1. \A p \in Producers : ReadBy[p] = IF ppc[p] = "done" THEN Cardinality(OwnRecords(p)) ELSE 0
    BY <1>1, CountersAre
  <2>2. \A c \in Consumers : Applied[c] = next[c] - 1
    BY <1>1, CountersAre
  <2> QED BY <1>2, <2>1, <2>2, ThreadsAssumption
<1>6. SumFunctionOnSet(Applied, Consumers) = 0 /\ SumFunctionOnSet(ReadBy, Producers) = 0
  BY <1>5, SumOfZeros
<1>7. \A c \in Consumers : next[c] <= Len(hand[c]) + 1
  BY <1>2
<1> QED BY <1>2, <1>4, <1>6, <1>7 DEF CountersInv

\* Every step keeps the counters right.
LEMMA StepCounters ==
    ASSUME TypeInv, CountInv, CountersInv, ReadsSucceed, [Next]_vars PROVE CountersInv'
<1>1. ASSUME NEW c \in Consumers, Consumer(c) PROVE CountersInv'
  BY <1>1, PopKeepsCounters, ApplyRecordKeepsCounters, EndOfBlockKeepsCounters, OthersKeepCounters DEF Consumer
<1> QED BY <1>1, ProducerKeepsCounters, OthersKeepCounters DEF Next, Exited

-----------------------------------------------------------------------------
(* The reason of a run that fails                                          *)

\* The text names a producer without a file or a line that is refused.
Named == \/ errorText \in {<<p>> : p \in run.broken}
         \/ \E p \in Producers, i \in DOMAIN lines : Refused(i) /\ errorText = <<p, input.first[i]>>

\* A producer that fails stands at a refused line or has no file. The text is
\* there before the flag, and it stays.
ErrorInv ==
    /\ errorText = NoError \/ Named
    /\ failed => Named
    /\ \A p \in Producers :
        /\ ppc[p] = "failText" => p \in run.broken \/ \E i \in DOMAIN lines : Refused(i) /\ pos[p] = input.first[i]
        /\ ppc[p] \in {"failFlag", "stop", "stopNotEmpty", "stopNotFull"} => Named

\* Steps that write no text and in which nobody fails
LEMMA QuietKeepsErrors ==
    ASSUME ErrorInv, UNCHANGED <<runVars, errorText>>, failed' => failed \/ Named,
           \A p \in Producers :
             /\ ppc'[p] = "failText" => ppc[p] = "failText" /\ pos'[p] = pos[p]
             /\ ppc'[p] \in {"failFlag", "stop", "stopNotEmpty", "stopNotFull"} => Named
    PROVE  ErrorInv'
<1>1. Named' <=> Named
  BY RunStays DEF Named
<1>2. run' = run /\ input' = input /\ lines' = lines /\ \A i : Refused(i)' = Refused(i)
  BY RunStays
<1>3. \A p \in Producers : ppc'[p] = "failText" =>
         p \in run.broken \/ \E i \in DOMAIN lines : Refused(i) /\ pos'[p] = input.first[i]
  BY DEF ErrorInv
<1> QED BY <1>1, <1>2, <1>3 DEF ErrorInv, NoError

\* A producer finds a reason to fail, ...
LEMMA ReaderKeepsErrors ==
    ASSUME TypeInv, CountInv, ErrorInv, NEW p \in Producers, FindFirstLine(p) \/ ReadLine(p) PROVE ErrorInv'
<1>1. /\ UNCHANGED <<runVars, errorText, failed>> /\ ThreadsOK /\ Given
  BY DEF FindFirstLine, ReadLine, contextVars, TypeInv
<1>2. PICK m \in {"failText", "read", "push", "done"} :
        /\ ppc' = [ppc EXCEPT ![p] = m]
        /\ m = "failText" => p \in run.broken \/ \E i \in DOMAIN lines : Refused(i) /\ pos'[p] = input.first[i]
        /\ \A q \in Producers : q # p => pos'[q] = pos[q]
  <2>1. CASE FindFirstLine(p)
    <3>1. \E m \in {"failText", "read", "done"} :
            ppc' = [ppc EXCEPT ![p] = m] /\ (m = "failText" => p \in run.broken)
      BY <2>1 DEF FindFirstLine, ProducerGoto
    <3>2. \A q \in Producers : q # p => pos'[q] = pos[q]
      BY <1>1, <2>1 DEF FindFirstLine, ThreadsOK
    <3> QED BY <3>1, <3>2
  <2>2. CASE ReadLine(p)
    <3>1. PICK i \in 1 .. LineCount, m \in {"failText", "push", "read"} :
            /\ pos[p] = input.first[i] /\ ppc' = [ppc EXCEPT ![p] = m]
            /\ pos' = IF Refused(i) THEN pos ELSE [pos EXCEPT ![p] = input.first[i + 1]]
            /\ m = "failText" <=> Refused(i)
      BY <2>2, ReadLineIs
    <3>2. i \in DOMAIN lines
      BY <1>1, RunIs DEF Given
    <3>3. \A q \in Producers : q # p => pos'[q] = pos[q]
      BY <1>1, <3>1 DEF ThreadsOK
    <3>4. m = "failText" => Refused(i) /\ pos'[p] = input.first[i]
      BY <3>1
    <3> QED BY <3>1, <3>2, <3>3, <3>4
  <2> QED BY <2>1, <2>2
<1>3. \A q \in Producers : ppc'[q] = IF q = p THEN m ELSE ppc[q]
  BY <1>1, <1>2 DEF ThreadsOK
<1>4. run' = run /\ input' = input /\ lines' = lines /\ \A i : Refused(i)' = Refused(i)
  BY <1>1, RunStays
<1>5. Named' <=> Named
  BY <1>1, <1>4 DEF Named
<1>6. \A q \in Producers :
        /\ ppc'[q] = "failText" => q \in run.broken \/ \E i \in DOMAIN lines : Refused(i) /\ pos'[q] = input.first[i]
        /\ ppc'[q] \in {"failFlag", "stop", "stopNotEmpty", "stopNotFull"} => Named
  <2> TAKE q \in Producers
  <2>1. CASE q = p
    BY <1>2, <1>3, <2>1
  <2>2. CASE q # p
    BY <1>2, <1>3, <2>2 DEF ErrorInv
  <2> QED BY <2>1, <2>2
<1> QED BY <1>1, <1>4, <1>5, <1>6 DEF ErrorInv, NoError

\* ... and writes it, unless another one did.
LEMMA FailTextKeepsErrors ==
    ASSUME TypeInv, ErrorInv, NEW p \in Producers, FailText(p) PROVE ErrorInv'
<1>1. /\ UNCHANGED <<runVars, pos, failed>> /\ ThreadsOK /\ ppc[p] = "failText"
      /\ errorText' = IF errorText = NoError THEN Message(p) ELSE errorText
      /\ ppc' = [ppc EXCEPT ![p] = "failFlag"]
  BY DEF FailText, ProducerGoto, TypeInv
<1>2. run' = run /\ input' = input /\ lines' = lines /\ \A i : Refused(i)' = Refused(i)
  BY <1>1, RunStays
<1>3. Named'
  <2>1. CASE errorText # NoError
    BY <1>1, <1>2, <2>1 DEF Named, ErrorInv
  <2>2. CASE errorText = NoError /\ p \in run.broken
    BY <1>1, <1>2, <2>2 DEF Named, Message
  <2>3. CASE errorText = NoError /\ p \notin run.broken
    <3>1. PICK i \in DOMAIN lines : Refused(i) /\ pos[p] = input.first[i]
      BY <1>1, <2>3 DEF ErrorInv
    <3>2. errorText' = <<p, input.first[i]>>
      BY <1>1, <2>3, <3>1 DEF Message
    <3> QED BY <1>2, <3>1, <3>2 DEF Named
  <2> QED BY <2>1, <2>2, <2>3
<1>4. \A q \in Producers : ppc'[q] = IF q = p THEN "failFlag" ELSE ppc[q]
  BY <1>1 DEF ThreadsOK
<1> QED BY <1>1, <1>2, <1>3, <1>4 DEF ErrorInv

\* Every step keeps the reason.
LEMMA StepErrors ==
    ASSUME TypeInv, CountInv, ErrorInv, [Next]_vars PROVE ErrorInv'
<1>0. ThreadsOK /\ ParkedOK /\ Begun
  BY DEF TypeInv
<1>1. ASSUME NEW p \in Producers,
             NotifyNotEmpty(p) \/ FailFlag(p) \/ Stop(p) \/ StopNotEmpty(p) \/ Push(p) \/ EndOfRange(p)
      PROVE  ErrorInv'
  <2>1. /\ UNCHANGED <<runVars, pos, errorText>>
        /\ \E m \in {"read", "push", "waiting", "notify", "done", "stop", "stopNotEmpty", "stopNotFull"} :
             /\ ppc' = [ppc EXCEPT ![p] = m]
             /\ m \in {"stop", "stopNotEmpty", "stopNotFull"} => ppc[p] \in {"failFlag", "stop", "stopNotEmpty"}
        /\ failed' => failed \/ ppc[p] = "failFlag"
    BY <1>1 DEF NotifyNotEmpty, FailFlag, Stop, StopNotEmpty, Push, EndOfRange, ProducerGoto, contextVars
  <2>2. PICK m : /\ ppc' = [ppc EXCEPT ![p] = m] /\ m \notin {"failText", "failFlag"}
                 /\ m \in {"stop", "stopNotEmpty", "stopNotFull"} => ppc[p] \in {"failFlag", "stop", "stopNotEmpty"}
    BY <2>1
  <2>3. \A q \in Producers : ppc'[q] = IF q = p THEN m ELSE ppc[q]
    BY <1>0, <2>2 DEF ThreadsOK
  <2>4. \A q \in Producers :
             /\ ppc'[q] = "failText" => ppc[q] = "failText" /\ pos'[q] = pos[q]
             /\ ppc'[q] \in {"failFlag", "stop", "stopNotEmpty", "stopNotFull"} => Named
    BY <2>1, <2>2, <2>3 DEF ErrorInv
  <2>5. failed' => failed \/ Named
    BY <2>1 DEF ErrorInv
  <2> QED BY <2>1, <2>4, <2>5, QuietKeepsErrors
<1>2. ASSUME NEW p \in Producers, StopNotFull(p) PROVE ErrorInv'
  <2>1. UNCHANGED <<runVars, pos, errorText, failed>>
    BY <1>2 DEF StopNotFull, contextVars
  <2>2. \A q \in Producers : ppc'[q] \in {"done", "push", ppc[q]}
    BY <1>2 DEF StopNotFull
  <2> QED BY <2>1, <2>2, QuietKeepsErrors DEF ErrorInv
<1>3. ASSUME NEW p \in Producers, Producer(p) PROVE ErrorInv'
  BY <1>1, <1>2, <1>3, ReaderKeepsErrors, FailTextKeepsErrors DEF Producer
<1>4. ASSUME (\E c \in Consumers : Consumer(c)) \/ Main \/ Monitor \/ Spurious \/ UNCHANGED vars PROVE ErrorInv'
  <2>1. UNCHANGED <<runVars, pos, errorText, failed>>
    BY <1>4 DEF Consumer, Pop, ApplyRecord, EndOfBlock, Main, Sequential, Reject, StartThreads, StartSequential,
       CountLine, ReportSequential, Close, CloseNotify, JoinConsumers, Finish, Monitor, Spurious, NotifyNotFull, vars,
       producerVars, contextVars
  <2>2. \A p \in Producers : ppc'[p] \in {"open", "push", ppc[p]}
    <3>1. CASE StartThreads
      BY <3>1 DEF StartThreads
    <3>2. CASE Spurious \/ \E c \in Consumers : NotifyNotFull(c)
      <4>1. ppc' = ppc \/ \E p \in notFull : ppc' = [ppc EXCEPT ![p] = "push"]
        BY <3>2 DEF Spurious, SpuriousWakeup, NotifyNotFull, WakeProducer, ProducerGoto
      <4> QED BY <1>0, <4>1 DEF ThreadsOK, ParkedOK
    <3>3. CASE \/ Reject \/ Sequential \/ Close \/ CloseNotify \/ JoinConsumers \/ Finish \/ Monitor
               \/ UNCHANGED vars \/ \E c \in Consumers : Pop(c) \/ ApplyRecord(c) \/ EndOfBlock(c)
      <4>1. ppc' = ppc
        BY <3>3 DEF Sequential, Reject, StartSequential, CountLine, ReportSequential, Close, CloseNotify,
           JoinConsumers, Finish, Monitor, vars, producerVars, Pop, ApplyRecord, EndOfBlock
      <4> QED BY <4>1
    <3> QED BY <1>4, <3>1, <3>2, <3>3 DEF Main, Consumer
  <2> QED BY <2>1, <2>2, QuietKeepsErrors DEF ErrorInv
<1> QED BY <1>3, <1>4 DEF Next, Exited

\* Nobody has failed in the initial state.
LEMMA InitErrors ==
    ASSUME Init PROVE ErrorInv
<1>1. errorText = NoError /\ ~failed /\ \A p \in Producers : ppc[p] = "created"
  BY DEF Init
<1> QED BY <1>1 DEF ErrorInv

-----------------------------------------------------------------------------
(* The end of a run                                                        *)

\* What a report needs to be true, with the buffer closed behind it
EndInv ==
    /\ outcome = "aborted" => Bad
    /\ outcome = "reported" =>
          /\ ~Bad
          /\ Regular(run) => RankingTrue
          /\ run.mode # "seq" => /\ closed /\ produced = Cardinality(Records) /\ consumed = produced
                                 /\ pushed = popped /\ queue = <<>>

\* Nothing happens after a report.
LEMMA NothingAfterReport ==
    ASSUME TypeInv, CountInv, EndInv, outcome = "reported", [Next]_vars
    PROVE  UNCHANGED vars
<1>1. mpc = "exit"
  BY DEF CountInv, MainInv
<1>2. \A p \in Producers : ppc[p] \in {"created", "done"}
  BY DEF CountInv, MainInv, DrainingInv, EndInv
<1>3. \A c \in Consumers : cpc[c] \in {"created", "done"}
  BY <1>1 DEF CountInv, DrainingInv
<1>4. notFull = {} /\ notEmpty = {}
  BY <1>2, <1>3 DEF TypeInv, ParkedOK
<1>5. \A p \in Producers : ~Producer(p)
  BY <1>2 DEF Producer, FindFirstLine, ReadLine, EndOfRange, Push, NotifyNotEmpty, FailText, FailFlag, Stop,
     StopNotEmpty, StopNotFull
<1>6. \A c \in Consumers : ~Consumer(c)
  BY <1>3 DEF Consumer, Pop, NotifyNotFull, ApplyRecord, EndOfBlock
<1>7. ~Main /\ ~Monitor
  BY <1>1 DEF Main, Sequential, Reject, StartThreads, StartSequential, CountLine, ReportSequential, Close,
     CloseNotify, JoinConsumers, Finish, Monitor
<1>8. ~Spurious
  BY <1>4 DEF Spurious, SpuriousWakeup
<1> QED BY <1>5, <1>6, <1>7, <1>8 DEF Next, Exited

\* When all threads are done and nobody failed, the counters name all records.
LEMMA CountersAtEnd ==
    ASSUME TypeInv, CountInv, CountersInv, mpc = "joinMonitor", ~failed, \A r \in Records : Total(r) = 1
    PROVE  /\ produced = Cardinality(Records) /\ consumed = produced
           /\ pushed = popped /\ queue = <<>> /\ closed
<1>1. /\ closed /\ ~stopped /\ queue = <<>> /\ run.mode # "seq"
      /\ \A p \in Producers : ppc[p] = "done"
      /\ \A c \in Consumers : hand[c] = <<>>
  <2>1. Consumers # {}
    BY ThreadsAssumption
  <2> QED BY <2>1 DEF CountInv, DrainingInv, FailingInv, MainInv
<1>2. Given /\ IsFiniteSet(Records) /\ Records \subseteq 1 .. LineCount /\ Cardinality(Records) \in Nat
  BY LinesWithText, FS_CardinalityType DEF TypeInv
<1>3. pushed = popped
  <2>1. Len(queue) = 0 /\ pushed \in Nat /\ popped \in Nat
    BY <1>1 DEF TypeInv, BufferOK
  <2> QED BY <2>1 DEF CountersInv
<1>4. consumed = Cardinality(Records)
  <2>1. \A c \in Consumers : Applied[c] = 0
    <3> TAKE c \in Consumers
    <3>1. next[c] = 1
      <4>1. next[c] <= Len(hand[c]) + 1
        BY DEF CountersInv
      <4>2. next[c] \in Nat \ {0}
        BY DEF TypeInv, ThreadsOK
      <4> QED BY <1>1, <4>1, <4>2
    <3>2. Applied[c] = next[c] - 1
      BY CountersAre
    <3> QED BY <3>1, <3>2
  <2>2. SumFunctionOnSet(Applied, Consumers) = 0
    BY <2>1, CountersAre, SumOfZeros
  <2>3. ASSUME NEW r \in Records, r \notin AddedRecords PROVE FALSE
    <3>1. \A s \in Slots : tally[s][r] = 0
      BY <2>3 DEF AddedRecords
    <3>2. Total(r) = 0
      BY <3>1, Totals, TotalOfNone
    <3> QED BY <3>2
  <2>4. AddedRecords = Records
    BY <2>3 DEF AddedRecords
  <2>5. consumed \in Nat
    BY DEF TypeInv, CountersOK
  <2> QED BY <1>1, <2>2, <2>4, <2>5 DEF CountersInv
<1>5. produced = Cardinality(Records)
  <2> DEFINE part == [p \in Producers |-> OwnRecords(p)]
  <2>1. \A p \in Producers : part[p] = OwnRecords(p)
    OBVIOUS
  <2>2. /\ IsFiniteSet(Producers) /\ \A p \in Producers : IsFiniteSet(part[p])
        /\ \A p \in Producers : ReadBy[p] = Cardinality(part[p])
    BY <1>1, <2>1, CountersAre
  <2>3. \A r \in Records : input.first[r] \in Nat /\ input.first[r] < FileSize(file)
    BY <1>2, LinesWithText, FirstBytes, RunIs DEF Given
  <2> HIDE DEF part
  <2>4. \A p \in Producers, q \in Producers : p # q => part[p] \cap part[q] = {}
    <3> SUFFICES ASSUME NEW p \in Producers, NEW q \in Producers, NEW r, r \in part[p], r \in part[q]
                 PROVE  p = q
      OBVIOUS
    <3>1. r \in Records /\ Start(p) <= input.first[r] /\ input.first[r] < End(p)
          /\ Start(q) <= input.first[r] /\ input.first[r] < End(q)
      BY <2>1 DEF OwnRecords
    <3> QED BY <1>2, <2>3, <3>1, OneReader
  <2>5. UNION {part[p] : p \in Producers} = Records
    <3>1. \A p \in Producers : part[p] \subseteq Records
      BY <2>1 DEF OwnRecords
    <3>2. ASSUME NEW r \in Records PROVE \E p \in Producers : r \in part[p]
      <4>1. PICK p \in Producers : Start(p) <= input.first[r] /\ input.first[r] < End(p)
        BY <1>2, <2>3, Ranges
      <4> QED BY <2>1, <4>1 DEF OwnRecords
    <3> QED BY <3>1, <3>2
  <2>6. Cardinality(UNION {part[p] : p \in Producers}) = SumFunctionOnSet(ReadBy, Producers)
    BY <2>2, <2>4, SumOfSizes
  <2> QED BY <1>1, <2>5, <2>6 DEF CountersInv
<1> QED BY <1>1, <1>3, <1>4, <1>5

\* A step that does not end the run
LEMMA OutcomeStays ==
    ASSUME UNCHANGED <<runVars, outcome>>, EndInv, outcome # "reported" PROVE EndInv'
BY RunStays DEF EndInv

\* Every step keeps the end explained.
LEMMA StepEnd ==
    ASSUME TypeInv, CountInv, CountersInv, EndInv, ReadsSucceed, [Next]_vars PROVE EndInv'
<1>1. CASE outcome = "reported"
  <2>1. UNCHANGED vars
    BY <1>1, NothingAfterReport
  <2>2. UNCHANGED <<runVars, outcome, closed, produced, consumed, pushed, popped, queue, report>>
    BY <2>1 DEF vars, bufferVars, contextVars, mainVars
  <2>3. RankingTrue' <=> RankingTrue
    BY <2>2, RankingStays, RankingIs
  <2> QED BY <2>2, <2>3, RunStays DEF EndInv
<1>2. CASE outcome # "reported"
  <2>1. CASE UNCHANGED <<runVars, outcome>>
    BY <1>2, <2>1, OutcomeStays
  <2>2. ASSUME UNCHANGED runVars, outcome' = "aborted", Bad PROVE EndInv'
    BY <2>2, RunStays DEF EndInv
  <2>3. ASSUME NEW p \in Producers, Producer(p) PROVE EndInv'
    <3>1. UNCHANGED <<runVars, outcome>>
      BY <2>3 DEF Producer, FindFirstLine, ReadLine, EndOfRange, Push, NotifyNotEmpty, FailText, FailFlag, Stop,
         StopNotEmpty, StopNotFull, mainVars
    <3> QED BY <2>1, <3>1
  <2>4. ASSUME NEW c \in Consumers, Consumer(c) PROVE EndInv'
    <3>1. UNCHANGED <<runVars, outcome>>
      BY <2>4 DEF Consumer, Pop, NotifyNotFull, ApplyRecord, EndOfBlock, mainVars
    <3> QED BY <2>1, <3>1
  <2>5. ASSUME Monitor \/ Spurious \/ UNCHANGED vars \/ StartThreads \/ Close \/ CloseNotify \/ JoinConsumers PROVE EndInv'
    <3>1. UNCHANGED <<runVars, outcome>>
      BY <2>5 DEF Monitor, Spurious, StartThreads, Close, CloseNotify, JoinConsumers, vars, mainVars
    <3> QED BY <2>1, <3>1
  <2>6. ASSUME Reject \/ StartSequential \/ CountLine PROVE EndInv'
    <3>1. UNCHANGED runVars /\ (outcome' = outcome \/ (outcome' = "aborted" /\ Bad))
      <4>1. CASE Reject \/ StartSequential
        BY <4>1 DEF Reject, StartSequential, Bad
      <4>2. CASE CountLine
        <5>1. \E i \in 1 .. LineCount : outcome' = outcome \/ (outcome' = "aborted" /\ Refused(i))
          BY <4>2, CountLineIs
        <5> QED BY <4>2, <5>1 DEF CountLine, Bad, Refused
      <4> QED BY <2>6, <4>1, <4>2
    <3> QED BY <2>1, <2>2, <3>1
  <2>7. ASSUME ReportSequential \/ (Finish /\ ~failed) PROVE EndInv'
    <3>1. /\ UNCHANGED <<runVars, closed, produced, consumed, pushed, popped, queue>>
          /\ outcome' = "reported"
          /\ report' = RankAndReport(file, summary', run.top)
          /\ summary' = Sums([r \in Records |-> Total(r)])
      BY <2>7 DEF ReportSequential, Finish, bufferVars, contextVars
    <3>2. ~Bad /\ \A r \in Records : Total(r) = 1
      BY <2>7, ReportSequentialRefines, FinishRefines
    <3>3. Regular(run) => RankingTrue'
      <4> DEFINE times == [r \in Records |-> Total(r)]
      <4>1. \A r \in Records : times[r] = 1
        BY <3>2
      <4>2. report' = RankAndReport(file, Sums(times), run.top)
        BY <3>1
      <4> HIDE DEF times
      <4>3. Regular(run) => RankingOf(report')
        BY <3>2, <4>1, <4>2, RankingIsTrue DEF TypeInv
      <4> QED BY <3>1, <4>3, RankingStays
    <3>4. run.mode # "seq" => /\ closed' /\ produced' = Cardinality(Records) /\ consumed' = produced'
                              /\ pushed' = popped' /\ queue' = <<>>
      <4> SUFFICES ASSUME run.mode # "seq"
                   PROVE  /\ closed' /\ produced' = Cardinality(Records) /\ consumed' = produced'
                          /\ pushed' = popped' /\ queue' = <<>>
        OBVIOUS
      <4>1. Finish /\ ~failed /\ mpc = "joinMonitor"
        BY <2>7 DEF ReportSequential, Finish, TypeInv, Begun
      <4> QED BY <3>1, <3>2, <4>1, CountersAtEnd
    <3> QED BY <3>1, <3>2, <3>3, <3>4, RunStays DEF EndInv
  <2>8. ASSUME Finish, failed PROVE EndInv'
    <3>1. UNCHANGED runVars /\ outcome' = "aborted" /\ Bad
      BY <2>8 DEF Finish, CountInv, FailingInv
    <3> QED BY <2>2, <3>1
  <2> QED BY <2>3, <2>4, <2>5, <2>6, <2>7, <2>8 DEF Next, Main, Sequential, Exited
<1> QED BY <1>1, <1>2

\* A file that a generator wrote gives no reason to abort.
LEMMA WrittenIsGood ==
    ASSUME Given, Regular(run), run.generated PROVE ~Bad
<1> DEFINE last == LineCount
           LineSet == [text : Texts, len : Nat, date : Seq(Nat), light : Nat, cars : Nat]
<1>1. run \in Options
  BY RunsAssumption DEF Given
<1>2. run.file \in [lines : Seq(LineSet), ended : BOOLEAN] /\ run.lights \in Nat /\ run.hours \in Nat
  BY <1>1 DEF Options
<1>3. lines \in Seq(LineSet)
  BY <1>2 DEF lines, file
<1> HIDE DEF LineSet
<1>4. LineCount \in Nat /\ DOMAIN lines = 1 .. LineCount
  BY <1>3 DEF LineCount
<1>5. \A i \in DOMAIN lines : lines[i] \in LineSet
  BY <1>3
<1>6. \A i \in DOMAIN lines : lines[i].len \in Nat /\ lines[i].date \in Seq(Nat) /\ lines[i].light \in Nat
  BY <1>5 DEF LineSet
<1>7. Written(file, run) /\ run.block >= 1 /\ run.broken = {}
  BY DEF Regular, file
<1>8. /\ file.ended /\ lines # <<>> /\ lines[last].len < TailBytes
      /\ \A i \in DOMAIN lines :
            /\ lines[i].text = "record" /\ IsDate(lines[i].date)
            /\ AbsHour(lines[1].date) <= AbsHour(lines[i].date) /\ AbsHour(lines[i].date) <= AbsHour(lines[last].date)
            /\ lines[i].light < Lights(file, run)
      /\ run.hours = 0 \/ run.hours > AbsHour(lines[last].date) - AbsHour(lines[1].date)
  BY <1>7 DEF Written, lines, LineCount
<1>9. 1 \in DOMAIN lines /\ last \in DOMAIN lines
  BY <1>3, <1>4, <1>8
<1>10. \A i \in DOMAIN lines : Parses(lines[i]) /\ AbsHour(lines[i].date) \in Nat
  <2> TAKE i \in DOMAIN lines
  <2>1. AbsHour(lines[i].date) \in Nat
    BY <1>6, <1>8, LabelOf
  <2>2. lines[i].date[2] \in 1 .. 12 /\ lines[i].date[3] \in 1 .. 31 /\ lines[i].date[4] \in 0 .. 23
    <3> DEFINE date == lines[i].date
    <3>1. date[2] \in 1 .. 12 /\ date[3] \in 1 .. DaysIn(date[1], date[2]) /\ date[4] \in 0 .. 23
      BY <1>8 DEF IsDate, IsDay
    <3>2. DaysIn(date[1], date[2]) \in {28, 29, 30, 31}
      BY DEF DaysIn
    <3> HIDE DEF date
    <3>3. date[3] \in 1 .. 31
      BY <3>1, <3>2
    <3> QED BY <3>1, <3>3 DEF date
  <2> QED BY <1>8, <2>1, <2>2 DEF Parses
<1>11. LastText(file) = last
  <2>1. {i \in DOMAIN lines : lines[i].text # "blank"} = 1 .. last
    BY <1>4, <1>8
  <2>2. LastText(file) = Max(1 .. last)
    BY <2>1 DEF LastText, lines
  <2>3. last \in 1 .. last /\ \A x \in 1 .. last : last >= x
    BY <1>4, <1>9
  <2>4. \A x \in 1 .. last : (\A y \in 1 .. last : x >= y) => x = last
    BY <2>3
  <2> QED BY <2>2, <2>3, <2>4 DEF Max
<1>12. FileSize(file) > 0 /\ FileSize(file) - FirstByte(file, last) <= TailBytes
  <2>1. FileSize(file) = FirstByte(file, last + 1)
    <3>1. FirstByte(file, last + 1) \in Nat
      BY <1>4, FirstBytes
    <3> QED BY <1>8, <3>1 DEF FileSize, lines, LineCount
  <2>2. /\ FirstByte(file, last + 1) = (FirstByte(file, last) + lines[last].len) + 1
        /\ FirstByte(file, last) \in Nat /\ lines[last].len \in Nat
    <3>1. last \in 1 .. LineCount /\ last \in 1 .. LineCount + 1 /\ last + 1 \in 1 .. LineCount + 1
      BY <1>4, <1>9
    <3>2. input.first[last + 1] = (input.first[last] + lines[last].len) + 1
      BY <3>1, FirstBytes
    <3>3. input.first[last] \in Nat /\ input.first[last] = FirstByte(file, last)
      BY <3>1, FirstBytes
    <3>4. input.first[last + 1] = FirstByte(file, last + 1)
      BY <3>1, FirstBytes
    <3>5. lines[last].len \in Nat
      BY <1>6, <1>9
    <3> QED BY <3>2, <3>3, <3>4, <3>5
  <2> QED BY <1>8, <2>1, <2>2, TailAssumption
<1>13. Probed(file)
  BY <1>9, <1>10, <1>11, <1>12 DEF Probed, lines
<1>14. ASSUME NEW i \in DOMAIN lines PROVE ~LineRefused(file, run, lines[i])
  <2>1. CellOf(file, lines[i]) = <<AbsHour(lines[i].date) - AbsHour(lines[1].date), lines[i].light>>
    BY DEF CellOf, BaseHour, lines
  <2>2. Hours(file, run) = IF run.hours # 0 THEN run.hours ELSE AbsHour(lines[last].date) - AbsHour(lines[1].date) + 1
    BY <1>11 DEF Hours, BaseHour, lines
  <2>3. Lights(file, run) \in Nat
    BY <1>2, <1>6, <1>9, <1>11 DEF Lights, lines
  <2>4. AbsHour(lines[i].date) - AbsHour(lines[1].date) \in 0 .. Hours(file, run) - 1
    <3>1. \A a \in Nat, b \in Nat, c \in Nat, h \in Nat :
             a <= b /\ b <= c /\ (h = 0 \/ h > c - a) => b - a \in 0 .. (IF h # 0 THEN h ELSE c - a + 1) - 1
      OBVIOUS
    <3> QED BY <1>2, <1>8, <1>9, <1>10, <2>2, <3>1
  <2>5. lines[i].light \in 0 .. Lights(file, run) - 1
    BY <1>6, <1>8, <2>3
  <2>6. CellOf(file, lines[i]) \in Cells(file, run)
    BY <2>1, <2>4, <2>5 DEF Cells
  <2> QED BY <1>8, <1>10, <2>6 DEF LineRefused
<1>15. input.probed /\ input.refused = {}
  BY <1>13, <1>14 DEF Given, InputOf, lines, file
<1>16. Accepted
  BY <1>7 DEF Accepted
<1> QED BY <1>7, <1>15, <1>16 DEF Bad

\* What the invariants say of a run's end
LEMMA EndIsExplained ==
    ASSUME TypeInv, CountInv, ErrorInv, EndInv, \A r \in Runs : Regular(r)
    PROVE  OutcomeExplained
<1>1. Regular(run) /\ Given
  BY DEF TypeInv, Given
<1>2. ReportAgrees
  BY <1>1 DEF EndInv, ReportAgrees
<1>3. outcome = "aborted" => ~run.generated
  BY <1>1, WrittenIsGood DEF EndInv
<1>4. AbortsExplained
  BY <1>3 DEF AbortsExplained, ErrorInv, Named, CountInv, FailingInv
<1> QED BY <1>2, <1>4 DEF OutcomeExplained

(* Where every file can be read to its end, and over files with dates that *)
(* exist: a report ranks the lights as the lines of the file name them,    *)
(* under their own dates, and its counters agree with one another and with *)
(* the file; a run that fails names a reason, no run fails over a file     *)
(* that a generator wrote, and only a run that fails gives up a block.     *)
THEOREM OutcomeIsExplained == ReadsSucceed /\ (\A r \in Runs : Regular(r)) /\ Spec => []OutcomeExplained
<1>1. CASE ReadsSucceed /\ \A r \in Runs : Regular(r)
  <2> DEFINE Inv == TypeInv /\ CountInv /\ CountersInv /\ ErrorInv /\ EndInv
  <2>1. Init => Inv
    <3> SUFFICES ASSUME Init PROVE Inv
      OBVIOUS
    <3>1. EndInv
      BY DEF Init, EndInv
    <3> QED BY <3>1, InitType, InitCount, InitCounters, InitErrors
  <2>2. Inv /\ [Next]_vars => Inv'
    <3> SUFFICES ASSUME Inv, [Next]_vars PROVE Inv'
      OBVIOUS
    <3> QED BY <1>1, StepType, StepCount, StepCounters, StepErrors, StepEnd
  <2>3. Inv => OutcomeExplained
    BY <1>1, EndIsExplained
  <2> QED BY <2>1, <2>2, <2>3, PTL DEF Spec
<1>2. CASE ~(ReadsSucceed /\ \A r \in Runs : Regular(r))
  BY <1>2
<1> QED BY <1>1, <1>2

-----------------------------------------------------------------------------
(* The files of mode gen                                                   *)

\* Dividing by a positive number keeps the order and leaves a remainder.
LEMMA Divided ==
    ASSUME NEW a \in Nat, NEW b \in Nat, a <= b, NEW k \in Nat \ {0}
    PROVE  /\ a \div k \in Nat /\ b \div k \in Nat /\ a \div k <= b \div k
           /\ a % k \in 0 .. k - 1
<1> DEFINE q == a \div k
           r == b \div k
<1>1. q \in Nat /\ r \in Nat /\ k * q <= a /\ a < k * q + k /\ k * r <= b /\ b < k * r + k /\ a % k \in 0 .. k - 1
  BY SMT
<1> HIDE DEF q, r
<1>2. q <= r
  <2> SUFFICES ASSUME q >= r + 1 PROVE FALSE
    BY <1>1
  <2>1. k * q >= k * (r + 1)
    BY <1>1, SMT
  <2>2. k * (r + 1) = k * r + k
    BY <1>1, SMT
  <2> QED BY <1>1, <2>1, <2>2
<1> QED BY <1>1, <1>2 DEF q, r

\* The remainder of the last number below a multiple
LEMMA LastRemainder ==
    ASSUME NEW k \in Nat \ {0}, NEW m \in Nat \ {0}
    PROVE  m * k - 1 \in Nat /\ (m * k - 1) % k = k - 1
<1>1. m * k - 1 = k * (m - 1) + (k - 1)
  BY SMT
<1>2. k * (m - 1) \in Nat
  BY SMT
<1> DEFINE a == m * k - 1
           q == a \div k
           r == a % k
<1>3. a \in Nat
  BY <1>1, <1>2
<1> HIDE DEF a
<1>4. q \in Int /\ a = k * q + r /\ r \in 0 .. k - 1
  BY <1>3, SMT
<1> HIDE DEF q, r
<1>5. k * (q - (m - 1)) = (k - 1) - r
  <2>1. k * (q - (m - 1)) = k * q - k * (m - 1)
    BY <1>4, SMT
  <2>2. a = k * (m - 1) + (k - 1) /\ k * q \in Int
    BY <1>1, <1>4, SMT DEF a
  <2> QED BY <1>2, <1>4, <2>1, <2>2
<1>6. q = m - 1
  <2> DEFINE e == q - (m - 1)
  <2>1. e \in Int /\ k * e \in 0 .. k - 1
    BY <1>4, <1>5
  <2> HIDE DEF e
  <2>2. e >= 1 => k * e >= k
    BY <2>1, SMT
  <2>3. e <= -1 => k * e <= -k
    BY <2>1, SMT
  <2>4. e = 0
    BY <2>1, <2>2, <2>3
  <2> QED BY <1>4, <2>4 DEF e
<1>7. (k - 1) - r = 0
  <2>1. q - (m - 1) = 0 /\ k * 0 = 0
    BY <1>4, <1>6
  <2> QED BY <1>5, <2>1
<1> QED BY <1>3, <1>4, <1>7 DEF a, r

\* The first hour that the generator writes, and the date of an hour
FirstHour == DaysFromCivil(2026, 8, 1) * 24
DateOf(hour) == Append(CivilFromDays(hour \div 24), hour % 24)

\* The date of an hour since 1970 is one, of that hour.
LEMMA HourHasDate ==
    ASSUME NEW hour \in Nat
    PROVE  IsDate(DateOf(hour)) /\ AbsHour(DateOf(hour)) = hour
<1> DEFINE n == hour \div 24
           h == hour % 24
<1>1. n \in Int /\ h \in 0 .. 23 /\ hour = n * 24 + h
  OBVIOUS
<1> HIDE DEF n, h
<1>2. PICK Y \in Int, m \in 1 .. 12, d \in 1 .. 31 :
         CivilFromDays(n) = <<Y, m, d>> /\ IsDay(Y, m, d) /\ DaysFromCivil(Y, m, d) = n
  BY <1>1, DayHasDate
<1>3. DateOf(hour) = Append(<<Y, m, d>>, h)
  BY <1>2 DEF DateOf, n, h
<1>4. Append(<<Y, m, d>>, h) = <<Y, m, d, h>>
  <2> DEFINE t == <<Y, m, d, h>>
  <2>1. t \in Seq(Int) /\ Len(t) = 4 /\ t[1] = Y /\ t[2] = m /\ t[3] = d /\ t[4] = h
    BY <1>1
  <2> HIDE DEF t
  <2>2. Append(<<t[1], t[2], t[3]>>, t[4]) = t
    BY <2>1
  <2> QED BY <2>1, <2>2 DEF t
<1> DEFINE date == <<Y, m, d, h>>
<1>5. date[1] = Y /\ date[2] = m /\ date[3] = d /\ date[4] = h /\ Len(date) = 4 /\ DateOf(hour) = date
  BY <1>3, <1>4
<1> HIDE DEF date
<1>6. AbsHour(date) = hour
  BY <1>1, <1>2, <1>5 DEF AbsHour
<1>7. IsDate(date)
  BY <1>1, <1>2, <1>5, <1>6 DEF IsDate
<1> QED BY <1>5, <1>6, <1>7

\* The generator begins after 1970.
LEMMA FirstHourIs == FirstHour \in Nat
<1>1. DaysFromCivil(2026, 8, 1) \in Nat
  BY SMT DEF DaysFromCivil
<1> QED BY <1>1 DEF FirstHour

(* A file of mode gen is Written, over any number of lights, of hours and  *)
(* of cars, and with the options that leave both to the probe, if its last *)
(* line is short enough for the tail that the probe reads.                 *)
THEOREM GeneratedIsWritten ==
    ASSUME NEW lights \in Nat \ {0}, NEW hours \in Nat \ {0}, NEW random,
           NEW f, f = Generated(lights, hours, random), f.lines[Len(f.lines)].len < TailBytes,
           NEW o, o.lights = 0, o.hours = 0
    PROVE  Written(f, o)
<1> DEFINE n == hours * 12 * lights
           k == 12 * lights
           LineOf(h, l) ==
              LET cars == CarCount(l, FirstHour + h, random)
              IN  [text |-> "record", light |-> l, cars |-> cars,
                   len |-> 20 + Max({4, Digits(l)}) + Digits(cars),
                   date |-> DateOf(FirstHour + h)]
           h(i) == (i - 1) \div k
           l(i) == (i - 1) % lights
<1>1. f = [lines |-> [i \in 1 .. n |-> LineOf(h(i), l(i))], ended |-> TRUE]
  BY DEF Generated, FirstHour, DateOf
<1>2. n \in Nat \ {0} /\ k \in Nat \ {0} /\ FirstHour \in Nat /\ n = hours * 12 * lights
  <2>1. hours * 12 \in Nat \ {0}
    BY SMT
  <2>2. (hours * 12) * lights \in Nat \ {0}
    BY <2>1, SMT
  <2> QED BY <2>2, FirstHourIs
<1> HIDE DEF n, k
<1>3. /\ DOMAIN f.lines = 1 .. n /\ Len(f.lines) = n /\ f.ended /\ f.lines # <<>>
      /\ \A i \in 1 .. n : /\ f.lines[i].text = "record" /\ f.lines[i].date = DateOf(FirstHour + h(i))
                           /\ f.lines[i].light = l(i)
  <2> DEFINE ls == [i \in 1 .. n |-> LineOf(h(i), l(i))]
  <2>1. f.lines = ls /\ f.ended
    BY <1>1
  <2>2. \A i \in 1 .. n : ls[i].text = "record" /\ ls[i].date = DateOf(FirstHour + h(i)) /\ ls[i].light = l(i)
    OBVIOUS
  <2>3. DOMAIN ls = 1 .. n /\ Len(ls) = n
    BY <1>2
  <2> HIDE DEF ls
  <2>4. ls # <<>>
    BY <1>2, <2>3
  <2> QED BY <2>1, <2>2, <2>3, <2>4
<1>4. \A i \in 1 .. n : /\ h(i) \in Nat /\ h(1) <= h(i) /\ h(i) <= h(n)
                        /\ l(i) \in 0 .. lights - 1
  <2> TAKE i \in 1 .. n
  <2>1. i - 1 \in Nat /\ n - 1 \in Nat /\ 1 - 1 \in Nat /\ 1 - 1 <= i - 1 /\ i - 1 <= n - 1
    BY <1>2
  <2>2. h(i) \in Nat /\ h(i) <= h(n)
    BY <1>2, <2>1, Divided
  <2>3. h(1) <= h(i)
    BY <1>2, <2>1, Divided
  <2>4. l(i) \in 0 .. lights - 1
    BY <2>1, Divided
  <2> QED BY <2>2, <2>3, <2>4
<1>5. l(n) = lights - 1
  <2>1. hours * 12 \in Nat \ {0}
    BY SMT
  <2>2. ((hours * 12) * lights - 1) % lights = lights - 1
    BY <2>1, LastRemainder
  <2> QED BY <1>2, <2>2
<1>6. 1 \in 1 .. n /\ n \in 1 .. n
  BY <1>2
<1> HIDE DEF h, l
<1>7. \A i \in 1 .. n : IsDate(f.lines[i].date) /\ AbsHour(f.lines[i].date) = FirstHour + h(i)
  <2> TAKE i \in 1 .. n
  <2>1. FirstHour + h(i) \in Nat
    BY <1>2, <1>4
  <2> QED BY <1>3, <2>1, HourHasDate
<1>8. LastText(f) = n
  <2>1. {i \in DOMAIN f.lines : f.lines[i].text # "blank"} = 1 .. n
    BY <1>3
  <2>2. LastText(f) = Max(1 .. n)
    BY <2>1 DEF LastText
  <2>3. n \in 1 .. n /\ \A x \in 1 .. n : n >= x
    BY <1>2
  <2>4. \A x \in 1 .. n : (\A y \in 1 .. n : x >= y) => x = n
    BY <2>3
  <2> QED BY <2>2, <2>3, <2>4 DEF Max
<1>9. Lights(f, o) = lights
  BY <1>3, <1>5, <1>6, <1>8 DEF Lights
<1>10. \A i \in 1 .. n : AbsHour(f.lines[1].date) <= AbsHour(f.lines[i].date) /\ AbsHour(f.lines[i].date) <= AbsHour(f.lines[n].date)
  <2> TAKE i \in 1 .. n
  <2>1. h(1) \in Nat /\ h(i) \in Nat /\ h(n) \in Nat /\ h(1) <= h(i) /\ h(i) <= h(n)
    BY <1>4, <1>6
  <2>2. /\ AbsHour(f.lines[1].date) = FirstHour + h(1) /\ AbsHour(f.lines[i].date) = FirstHour + h(i)
        /\ AbsHour(f.lines[n].date) = FirstHour + h(n)
    BY <1>6, <1>7
  <2> QED BY <1>2, <2>1, <2>2
<1>11. \A i \in 1 .. n : f.lines[i].light < Lights(f, o)
  BY <1>3, <1>4, <1>9
<1> QED BY <1>3, <1>7, <1>10, <1>11 DEF Written
=============================================================================
