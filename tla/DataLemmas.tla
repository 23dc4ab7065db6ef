---------------------------- MODULE DataLemmas -----------------------------
(***************************************************************************)
(* Lemmas about the data that the models are built from: SumFunctionOnSet, *)
(* the fold that adds up the values of a function over a finite set; the   *)
(* sizes of finite sets; induction and recursion along a measure; the      *)
(* place of a member in an order.                                          *)
(***************************************************************************)
EXTENDS FiniteSetsExt, FiniteSetTheorems, WellFoundedInduction, TLAPS

\* The element that the fold takes out of a set first
FirstOf(s) == CHOOSE x \in s : TRUE

\* g is the recursive function that the fold over S evaluates.
IsFold(g, f, S) ==
  g = [s \in SUBSET S |-> IF s = {} THEN 0 ELSE f[FirstOf(s)] + g[s \ {FirstOf(s)}]]

\* The sum is that function on the whole set.
LEMMA SumIsFold ==
  ASSUME NEW f, NEW S
  PROVE  SumFunctionOnSet(f, S) = (CHOOSE g : IsFold(g, f, S))[S]
  BY DEF SumFunctionOnSet, FoldFunctionOnSet, MapThenFoldSet, IsFold, FirstOf

\* Some set of a nonempty family of subsets of a finite set contains no other one.
LEMMA Smallest ==
  ASSUME NEW S, IsFiniteSet(S), NEW P, P \subseteq SUBSET S, P # {}
  PROVE  \E s \in P : \A t \in P : ~(t \subseteq s /\ t # s)
<1>1. P \subseteq FiniteSubsetsOf(S)
  BY FS_Subset DEF FiniteSubsetsOf
<1>2. PICK s \in P : \A t \in P : ~(<<t, s>> \in StrictSubsetOrdering(S))
  BY <1>1, FS_StrictSubsetOrderingWellFounded, WFMin
<1> QED
  BY <1>2 DEF StrictSubsetOrdering

\* The first element is one of them.
LEMMA FirstIsIn ==
  ASSUME NEW s, s # {}
  PROVE  FirstOf(s) \in s
  BY DEF FirstOf

\* Two folds agree where both are defined.
LEMMA FoldUnique ==
  ASSUME NEW S, IsFiniteSet(S), NEW T, T \subseteq S, NEW f, NEW g, NEW h,
         IsFold(g, f, S), IsFold(h, f, T)
  PROVE  \A s \in SUBSET T : g[s] = h[s]
<1> DEFINE bad == {s \in SUBSET T : g[s] # h[s]}
<1> SUFFICES ASSUME bad # {} PROVE FALSE
  OBVIOUS
<1>1. PICK s \in bad : \A t \in bad : ~(t \subseteq s /\ t # s)
  <2>1. bad \subseteq SUBSET S
    OBVIOUS
  <2> HIDE DEF bad
  <2> QED
    BY <2>1, Smallest
<1>2. s \in SUBSET S /\ s \in SUBSET T /\ g[s] # h[s]
  OBVIOUS
<1>3. /\ g[s] = IF s = {} THEN 0 ELSE f[FirstOf(s)] + g[s \ {FirstOf(s)}]
      /\ h[s] = IF s = {} THEN 0 ELSE f[FirstOf(s)] + h[s \ {FirstOf(s)}]
  BY <1>2 DEF IsFold
<1>4. s # {}
  BY <1>2, <1>3
<1>5. s \ {FirstOf(s)} \in SUBSET T /\ s \ {FirstOf(s)} \subseteq s /\ s \ {FirstOf(s)} # s
  BY <1>2, <1>4, FirstIsIn
<1>6. g[s \ {FirstOf(s)}] = h[s \ {FirstOf(s)}]
  BY <1>1, <1>5
<1> QED
  BY <1>2, <1>3, <1>6

\* The fold over a finite set is defined.
LEMMA FoldExists ==
  ASSUME NEW S, IsFiniteSet(S), NEW f
  PROVE  \E g : IsFold(g, f, S)
<1> DEFINE bad == {t \in SUBSET S : ~\E g : IsFold(g, f, t)}
<1> SUFFICES ASSUME bad # {} PROVE FALSE
  OBVIOUS
<1>1. PICK t \in bad : \A u \in bad : ~(u \subseteq t /\ u # t)
  <2>1. bad \subseteq SUBSET S
    OBVIOUS
  <2> HIDE DEF bad
  <2> QED
    BY <2>1, Smallest
<1>2. t \in SUBSET S /\ ~\E g : IsFold(g, f, t)
  OBVIOUS
<1> DEFINE G(u) == CHOOSE g : IsFold(g, f, u)
<1>3. ASSUME NEW u \in SUBSET t, u # t PROVE IsFold(G(u), f, u) /\ IsFiniteSet(u)
  <2>1. u \in SUBSET S /\ u \notin bad
    BY <1>1, <1>2, <1>3
  <2>2. \E g : IsFold(g, f, u)
    BY <2>1
  <2> QED
    BY <2>1, <2>2, FS_Subset
<1> HIDE DEF G
<1> DEFINE rest(s) == s \ {FirstOf(s)}
           h == [s \in SUBSET t |-> IF s = {} THEN 0
                                    ELSE f[FirstOf(s)] + G(rest(s))[rest(s)]]
<1>4. ASSUME NEW s \in SUBSET t, s # {}
      PROVE  rest(s) \in SUBSET t /\ rest(s) # t /\ rest(s) \subseteq s
  BY <1>4, FirstIsIn
<1>5. ASSUME NEW s \in SUBSET t, s # {} PROVE h[rest(s)] = G(rest(s))[rest(s)]
  <2> DEFINE r == rest(s)
  <2>1. r \in SUBSET t /\ r # t
    BY <1>4, <1>5
  <2>2. IsFold(G(r), f, r) /\ IsFiniteSet(r)
    BY <1>3, <2>1
  <2>3. r \in SUBSET r
    OBVIOUS
  <2> HIDE DEF r
  <2>4. G(r)[r] = IF r = {} THEN 0 ELSE f[FirstOf(r)] + G(r)[rest(r)]
    BY <2>2, <2>3 DEF IsFold
  <2>5. CASE r = {}
    BY <2>1, <2>4, <2>5 DEF r
  <2>6. CASE r # {}
    <3>1. rest(r) \in SUBSET t /\ rest(r) # t /\ rest(r) \subseteq r
      BY <1>4, <2>1, <2>6
    <3>2. IsFold(G(rest(r)), f, rest(r))
      BY <1>3, <3>1
    <3>3. rest(r) \in SUBSET rest(r)
      OBVIOUS
    <3> HIDE DEF rest
    <3>4. G(r)[rest(r)] = G(rest(r))[rest(r)]
      BY <2>2, <3>1, <3>2, <3>3, FoldUnique
    <3>5. h[r] = f[FirstOf(r)] + G(rest(r))[rest(r)]
      BY <2>1, <2>6
    <3>6. h[r] = G(r)[r]
      BY <2>4, <2>6, <3>4, <3>5
    <3> QED
      BY <3>6 DEF r
  <2> QED
    BY <2>5, <2>6
<1>6. IsFold(h, f, t)
  <2>1. h = [s \in SUBSET t |-> IF s = {} THEN 0 ELSE f[FirstOf(s)] + h[rest(s)]]
    <3> HIDE DEF rest
    <3>1. \A s \in SUBSET t : h[s] = IF s = {} THEN 0 ELSE f[FirstOf(s)] + h[rest(s)]
      BY <1>5
    <3>2. h = [s \in SUBSET t |-> h[s]]
      OBVIOUS
    <3> HIDE DEF h
    <3> QED
      BY <3>1, <3>2
  <2> HIDE DEF h
  <2> QED
    BY <2>1 DEF IsFold
<1> QED
  BY <1>2, <1>6

-----------------------------------------------------------------------------
\* The sum, one element at a time
LEMMA SumFirst ==
  ASSUME NEW S, IsFiniteSet(S), NEW f
  PROVE  SumFunctionOnSet(f, S) = IF S = {} THEN 0
                                  ELSE f[FirstOf(S)] + SumFunctionOnSet(f, S \ {FirstOf(S)})
<1> DEFINE G(u) == CHOOSE g : IsFold(g, f, u)
           rest == S \ {FirstOf(S)}
<1>1. rest \subseteq S /\ IsFiniteSet(rest)
  BY FS_Subset
<1>2. IsFold(G(S), f, S) /\ IsFold(G(rest), f, rest)
  BY <1>1, FoldExists
<1>3. SumFunctionOnSet(f, S) = G(S)[S] /\ SumFunctionOnSet(f, rest) = G(rest)[rest]
  BY SumIsFold
<1> HIDE DEF G
<1>4. S \in SUBSET S /\ rest \in SUBSET rest
  OBVIOUS
<1>5. G(S)[S] = IF S = {} THEN 0 ELSE f[FirstOf(S)] + G(S)[rest]
  BY <1>2, <1>4 DEF IsFold
<1> HIDE DEF rest
<1>6. G(S)[rest] = G(rest)[rest]
  BY <1>1, <1>2, <1>4, FoldUnique
<1> QED
  BY <1>3, <1>5, <1>6 DEF rest

\* The sum of no value
LEMMA SumOfNone ==
  ASSUME NEW f
  PROVE  SumFunctionOnSet(f, {}) = 0
  BY SumFirst, FS_EmptySet

\* The sum of equal values
LEMMA SumOfEqual ==
  ASSUME NEW S, IsFiniteSet(S), NEW f, NEW g, \A x \in S : f[x] = g[x]
  PROVE  SumFunctionOnSet(f, S) = SumFunctionOnSet(g, S)
<1> DEFINE bad == {s \in SUBSET S : SumFunctionOnSet(f, s) # SumFunctionOnSet(g, s)}
<1> SUFFICES ASSUME bad # {} PROVE FALSE
  OBVIOUS
<1>1. PICK s \in bad : \A t \in bad : ~(t \subseteq s /\ t # s)
  <2>1. bad \subseteq SUBSET S
    OBVIOUS
  <2> HIDE DEF bad
  <2> QED
    BY <2>1, Smallest
<1>2. s \in SUBSET S /\ IsFiniteSet(s) /\ SumFunctionOnSet(f, s) # SumFunctionOnSet(g, s)
  BY FS_Subset
<1>3. s # {}
  BY <1>2, SumOfNone
<1>4. FirstOf(s) \in s /\ f[FirstOf(s)] = g[FirstOf(s)]
  BY <1>2, <1>3, FirstIsIn
<1>5. SumFunctionOnSet(f, s \ {FirstOf(s)}) = SumFunctionOnSet(g, s \ {FirstOf(s)})
  <2>1. s \ {FirstOf(s)} \in SUBSET S /\ s \ {FirstOf(s)} \subseteq s /\ s \ {FirstOf(s)} # s
    BY <1>2, <1>4
  <2> QED
    BY <1>1, <2>1
<1>6. /\ SumFunctionOnSet(f, s) = f[FirstOf(s)] + SumFunctionOnSet(f, s \ {FirstOf(s)})
      /\ SumFunctionOnSet(g, s) = g[FirstOf(s)] + SumFunctionOnSet(g, s \ {FirstOf(s)})
  BY <1>2, <1>3, SumFirst
<1> QED
  BY <1>2, <1>4, <1>5, <1>6

\* A sum is where its values are, if sums of two stay there.
LEMMA SumIsIn ==
  ASSUME NEW V, 0 \in V, \A a \in V, b \in V : a + b \in V,
         NEW S, IsFiniteSet(S), NEW f, \A x \in S : f[x] \in V
  PROVE  SumFunctionOnSet(f, S) \in V
<1> DEFINE bad == {s \in SUBSET S : SumFunctionOnSet(f, s) \notin V}
<1> SUFFICES ASSUME bad # {} PROVE FALSE
  OBVIOUS
<1>1. PICK s \in bad : \A t \in bad : ~(t \subseteq s /\ t # s)
  <2>1. bad \subseteq SUBSET S
    OBVIOUS
  <2> HIDE DEF bad
  <2> QED
    BY <2>1, Smallest
<1>2. s \in SUBSET S /\ IsFiniteSet(s) /\ SumFunctionOnSet(f, s) \notin V
  BY FS_Subset
<1>3. s # {}
  BY <1>2, SumOfNone
<1>4. FirstOf(s) \in s /\ f[FirstOf(s)] \in V
  BY <1>2, <1>3, FirstIsIn
<1>5. SumFunctionOnSet(f, s \ {FirstOf(s)}) \in V
  <2>1. s \ {FirstOf(s)} \in SUBSET S /\ s \ {FirstOf(s)} \subseteq s /\ s \ {FirstOf(s)} # s
    BY <1>2, <1>4
  <2> QED
    BY <1>1, <2>1
<1>6. SumFunctionOnSet(f, s) = f[FirstOf(s)] + SumFunctionOnSet(f, s \ {FirstOf(s)})
  BY <1>2, <1>3, SumFirst
<1> QED
  BY <1>2, <1>4, <1>5, <1>6

\* A sum of integers
LEMMA SumIsInt ==
  ASSUME NEW S, IsFiniteSet(S), NEW f, \A x \in S : f[x] \in Int
  PROVE  SumFunctionOnSet(f, S) \in Int
<1>1. 0 \in Int /\ \A a \in Int, b \in Int : a + b \in Int
  OBVIOUS
<1> QED
  BY <1>1, SumIsIn, Zenon

\* A sum of zeros
LEMMA SumOfZeros ==
  ASSUME NEW S, IsFiniteSet(S), NEW f, \A x \in S : f[x] = 0
  PROVE  SumFunctionOnSet(f, S) = 0
<1>1. \A a \in {0}, b \in {0} : a + b \in {0}
  OBVIOUS
<1>2. SumFunctionOnSet(f, S) \in {0}
  BY <1>1, SumIsIn
<1> QED
  BY <1>2

\* Any value can be taken out of a sum.
LEMMA SumWithout ==
  ASSUME NEW S, IsFiniteSet(S), NEW f, \A x \in S : f[x] \in Int, NEW e \in S
  PROVE  SumFunctionOnSet(f, S) = f[e] + SumFunctionOnSet(f, S \ {e})
<1> DEFINE bad == {s \in SUBSET S : \E x \in s : SumFunctionOnSet(f, s) # f[x] + SumFunctionOnSet(f, s \ {x})}
<1> SUFFICES ASSUME bad # {} PROVE FALSE
  OBVIOUS
<1>1. PICK s \in bad : \A t \in bad : ~(t \subseteq s /\ t # s)
  <2>1. bad \subseteq SUBSET S
    OBVIOUS
  <2> HIDE DEF bad
  <2> QED
    BY <2>1, Smallest
<1>2. PICK x \in s : SumFunctionOnSet(f, s) # f[x] + SumFunctionOnSet(f, s \ {x})
  OBVIOUS
<1> DEFINE y == FirstOf(s)
<1>3. s \in SUBSET S /\ s # {} /\ y \in s /\ IsFiniteSet(s)
  BY <1>2, FirstIsIn, FS_Subset
<1>4. SumFunctionOnSet(f, s) = f[y] + SumFunctionOnSet(f, s \ {y})
  BY <1>3, SumFirst
<1> HIDE DEF y
<1>5. x # y
  BY <1>2, <1>4
<1>6. /\ SumFunctionOnSet(f, s \ {y}) = f[x] + SumFunctionOnSet(f, (s \ {y}) \ {x})
      /\ SumFunctionOnSet(f, s \ {x}) = f[y] + SumFunctionOnSet(f, (s \ {x}) \ {y})
  <2>1. s \ {x} \notin bad /\ s \ {y} \notin bad
    BY <1>1, <1>2, <1>3
  <2>2. /\ s \ {x} \in SUBSET S /\ s \ {y} \in SUBSET S
        /\ x \in s \ {y} /\ y \in s \ {x}
    BY <1>2, <1>3, <1>5
  <2> QED
    BY <2>1, <2>2
<1>7. (s \ {y}) \ {x} = (s \ {x}) \ {y}
  OBVIOUS
<1>8. f[x] \in Int /\ f[y] \in Int /\ SumFunctionOnSet(f, (s \ {x}) \ {y}) \in Int
  <2>1. IsFiniteSet((s \ {x}) \ {y}) /\ (s \ {x}) \ {y} \subseteq S
    BY <1>3, FS_Subset
  <2>2. SumFunctionOnSet(f, (s \ {x}) \ {y}) \in Int
    BY <2>1, SumIsInt
  <2> QED
    BY <1>2, <1>3, <2>2
<1> QED
  BY <1>2, <1>4, <1>6, <1>7, <1>8

\* One value changes.
LEMMA SumChanges ==
  ASSUME NEW S, IsFiniteSet(S), NEW f, \A x \in S : f[x] \in Int,
         NEW g, \A x \in S : g[x] \in Int,
         NEW e \in S, \A x \in S \ {e} : g[x] = f[x]
  PROVE  SumFunctionOnSet(g, S) = SumFunctionOnSet(f, S) + (g[e] - f[e])
<1>1. IsFiniteSet(S \ {e})
  BY FS_Subset
<1>2. SumFunctionOnSet(g, S \ {e}) = SumFunctionOnSet(f, S \ {e})
  BY <1>1, SumOfEqual
<1>3. SumFunctionOnSet(f, S \ {e}) \in Int
  BY <1>1, SumIsInt
<1>4. /\ SumFunctionOnSet(f, S) = f[e] + SumFunctionOnSet(f, S \ {e})
      /\ SumFunctionOnSet(g, S) = g[e] + SumFunctionOnSet(g, S \ {e})
  BY SumWithout
<1>5. f[e] \in Int /\ g[e] \in Int
  OBVIOUS
<1> QED
  BY <1>2, <1>3, <1>4, <1>5

-----------------------------------------------------------------------------
(* Sizes                                                                   *)

\* An injective function keeps the size of a set.
LEMMA SizeOfImage ==
  ASSUME NEW S, IsFiniteSet(S), NEW f, \A x \in S, y \in S : f[x] = f[y] => x = y
  PROVE  /\ IsFiniteSet({f[x] : x \in S})
         /\ Cardinality({f[x] : x \in S}) = Cardinality(S)
<1> DEFINE T == {f[x] : x \in S}
           g == [x \in S |-> f[x]]
<1>1. g \in Bijection(S, T)
  BY DEF Bijection, Injection, Surjection, IsInjective
<1>2. ExistsBijection(S, T)
  BY <1>1 DEF ExistsBijection
<1> QED
  BY <1>2, FS_Bijection

\* The size of two disjoint sets
LEMMA SizeOfDisjoint ==
  ASSUME NEW S, IsFiniteSet(S), NEW T, IsFiniteSet(T), S \cap T = {}
  PROVE  /\ IsFiniteSet(S \cup T)
         /\ Cardinality(S \cup T) = Cardinality(S) + Cardinality(T)
<1>1. Cardinality(S) \in Nat /\ Cardinality(T) \in Nat /\ Cardinality(S \cap T) = 0
  BY FS_CardinalityType, FS_EmptySet
<1>2. /\ IsFiniteSet(S \cup T)
      /\ Cardinality(S \cup T) = Cardinality(S) + Cardinality(T) - Cardinality(S \cap T)
  BY FS_Union
<1> QED
  BY <1>1, <1>2

\* The size of what is left of a set
LEMMA SizeOfRest ==
  ASSUME NEW S, IsFiniteSet(S), NEW T, T \subseteq S
  PROVE  /\ IsFiniteSet(S \ T) /\ IsFiniteSet(T)
         /\ Cardinality(S \ T) \in Nat /\ Cardinality(T) \in Nat /\ Cardinality(S) \in Nat
         /\ Cardinality(S) = Cardinality(S \ T) + Cardinality(T)
<1>1. S \cap T = T
  OBVIOUS
<1>2. IsFiniteSet(S \ T) /\ IsFiniteSet(T) /\ Cardinality(S \ T) = Cardinality(S) - Cardinality(T)
  BY <1>1, FS_Difference, FS_Subset, ZenonT(30)
<1>3. Cardinality(S \ T) \in Nat /\ Cardinality(T) \in Nat /\ Cardinality(S) \in Nat
  BY <1>2, FS_CardinalityType
<1> QED
  BY <1>2, <1>3

\* Triples of finite sets
LEMMA TriplesAreFinite ==
  ASSUME NEW A, IsFiniteSet(A), NEW B, IsFiniteSet(B), NEW C, IsFiniteSet(C)
  PROVE  IsFiniteSet(A \X B \X C)
<1> DEFINE P == (A \X B) \X C
           f == [x \in P |-> <<x[1][1], x[1][2], x[2]>>]
<1>1. IsFiniteSet(P)
  BY FS_Product
<1>2. f \in Surjection(P, A \X B \X C)
  <2>1. f \in [P -> A \X B \X C]
    OBVIOUS
  <2>2. ASSUME NEW t \in A \X B \X C PROVE \E x \in P : f[x] = t
    <3>1. PICK a \in A, b \in B, c \in C : t = <<a, b, c>>
      OBVIOUS
    <3>2. <<<<a, b>>, c>> \in P /\ f[<<<<a, b>>, c>>] = t
      BY <3>1
    <3> QED
      BY <3>2
  <2> QED
    BY <2>1, <2>2 DEF Surjection
<1> QED
  BY <1>1, <1>2, FS_Surjection


-----------------------------------------------------------------------------
(* Shares                                                                  *)

\* The i-th share of S among P starts at a natural number, rounded down.
LEMMA ShareOf ==
    ASSUME NEW S \in Nat, NEW P \in Nat \ {0}, NEW i \in Nat
    PROVE  /\ (S * i) \div P \in Nat
           /\ ((S * i) \div P) * P <= S * i
           /\ S * i < (((S * i) \div P) * P) + P
<1> DEFINE x == S * i
<1>1. x \in Nat
  OBVIOUS
<1> HIDE DEF x
<1>2. x \div P \in Int /\ x % P \in 0 .. P - 1 /\ x = ((x \div P) * P) + (x % P)
  BY <1>1
<1> DEFINE d == x \div P
           m == x % P
<1>3. d \in Int /\ m \in 0 .. P - 1 /\ x = (d * P) + m
  BY <1>2
<1> HIDE DEF d, m
<1>4. d >= 0
  <2>1. ASSUME d < 0 PROVE d * P <= -P
    BY <1>3, <2>1
  <2>2. d * P \in Int
    BY <1>3
  <2> QED BY <1>1, <1>3, <2>1, <2>2
<1>5. d * P \in Int
  BY <1>3
<1>6. d \in Nat /\ d * P <= x /\ x < (d * P) + P
  BY <1>1, <1>3, <1>4, <1>5
<1> QED BY <1>6 DEF d, x

\* Later shares start no earlier.
LEMMA SharesGrow ==
    ASSUME NEW S \in Nat, NEW P \in Nat \ {0}, NEW i \in Nat, NEW j \in Nat, i <= j
    PROVE  (S * i) \div P <= (S * j) \div P
<1> DEFINE d == (S * i) \div P
           e == (S * j) \div P
<1>1. d \in Nat /\ d * P <= S * i /\ e \in Nat /\ S * j < (e * P) + P
  BY ShareOf
<1> HIDE DEF d, e
<1>2. S * i <= S * j /\ S * i \in Nat /\ S * j \in Nat
  BY SMTT(20)
<1>3. ASSUME d > e PROVE FALSE
  <2>1. d - e >= 1 /\ d - e \in Nat
    BY <1>1, <1>3
  <2>2. (d - e) * P >= P
    <3> DEFINE k == d - e
    <3>1. k \in Nat /\ k >= 1
      BY <2>1
    <3> HIDE DEF k
    <3>2. k * P >= P
      BY <3>1
    <3> QED BY <3>2 DEF k
  <2>3. (d - e) * P = (d * P) - (e * P)
    BY <1>1
  <2>4. d * P \in Nat /\ e * P \in Nat
    BY <1>1
  <2> QED BY <1>1, <1>2, <2>2, <2>3, <2>4
<1>4. d <= e
  BY <1>1, <1>3
<1> QED BY <1>4 DEF d, e

-----------------------------------------------------------------------------
(* Induction, recursion and orders                                         *)

\* A set of naturals has a least element.
LEMMA LeastOf ==
    ASSUME NEW S, S \subseteq Nat, S # {}
    PROVE  \E x \in S : \A y \in S : x <= y
<1>1. PICK x \in S : \A y \in S : ~(<<y, x>> \in OpToRel(<, Nat))
  BY NatLessThanWellFounded, WFMin
<1>2. \A y \in S : ~(y < x)
  BY <1>1 DEF OpToRel
<1> QED BY <1>2

\* What holds at 0 and is handed on by every step holds up to n.
LEMMA Climb ==
    ASSUME NEW n \in Nat, NEW S, 0 \in S, \A k \in 1 .. n : k - 1 \in S => k \in S
    PROVE  \A k \in 0 .. n : k \in S
<1> DEFINE bad == {k \in 0 .. n : k \notin S}
<1> SUFFICES ASSUME bad # {} PROVE FALSE
  OBVIOUS
<1>1. bad \subseteq Nat
  OBVIOUS
<1>2. PICK k \in bad : \A j \in bad : k <= j
  <2> HIDE DEF bad
  <2> QED BY <1>1, LeastOf
<1>3. k \in 1 .. n /\ k - 1 \in 0 .. n /\ ~(k <= k - 1)
  BY <1>2
<1>4. k - 1 \notin bad
  BY <1>2, <1>3
<1> QED BY <1>2, <1>3, <1>4

\* f is defined by recursion along next, from the values at the members of stop.
Recurs(f, D, stop, next, val, o) ==
    \A x \in D : f[x] = IF x \in stop THEN val[x] ELSE o[<<x, f[next[x]]>>]

\* Two functions defined by the same recursion agree where both are defined.
LEMMA RecursionIsOne ==
    ASSUME NEW D, NEW m \in [D -> Nat], NEW stop, NEW next, NEW val, NEW o,
           NEW C, NEW E, C \subseteq D, E \subseteq D,
           \A x \in C \ stop : next[x] \in C /\ m[next[x]] < m[x],
           \A x \in E \ stop : next[x] \in E /\ m[next[x]] < m[x],
           NEW f, Recurs(f, C, stop, next, val, o), NEW g, Recurs(g, E, stop, next, val, o)
    PROVE  \A x \in C \cap E : f[x] = g[x]
<1> DEFINE bad == {x \in C \cap E : f[x] # g[x]}
           sizes == {m[x] : x \in bad}
<1> SUFFICES ASSUME bad # {} PROVE FALSE
  OBVIOUS
<1>1. sizes \subseteq Nat /\ sizes # {}
  OBVIOUS
<1>2. PICK k \in sizes : \A j \in sizes : k <= j
  <2> HIDE DEF sizes
  <2> QED BY <1>1, LeastOf
<1>3. PICK x \in bad : m[x] = k
  BY <1>2
<1>4. x \in C /\ x \in E /\ f[x] # g[x] /\ m[x] \in Nat
  BY <1>3
<1>5. x \notin stop
  BY <1>4 DEF Recurs
<1>6. next[x] \in C \cap E /\ m[next[x]] < m[x] /\ m[next[x]] \in Nat
  BY <1>4, <1>5
<1>7. next[x] \notin bad
  <2>1. ~(k <= m[next[x]])
    BY <1>3, <1>4, <1>6
  <2> QED BY <1>2, <2>1
<1>8. f[next[x]] = g[next[x]]
  BY <1>6, <1>7
<1> QED BY <1>4, <1>5, <1>8 DEF Recurs

\* A recursion that a measure bounds defines a function.
LEMMA RecursionDefines ==
    ASSUME NEW D, NEW m \in [D -> Nat], NEW stop, NEW next, NEW A, NEW val, NEW o,
           \A x \in D \ stop : next[x] \in D /\ m[next[x]] < m[x],
           \A x \in D \cap stop : val[x] \in A,
           \A x \in D \ stop : \A a \in A : o[<<x, a>>] \in A
    PROVE  \E f \in [D -> A] : Recurs(f, D, stop, next, val, o)
<1> DEFINE Up(k) == {x \in D : m[x] < k}
           P(k) == \E f \in [Up(k) -> A] : Recurs(f, Up(k), stop, next, val, o)
           bad == {k \in Nat : ~P(k)}
<1>1. \A k \in Nat : P(k)
  <2> SUFFICES ASSUME bad # {} PROVE FALSE
    OBVIOUS
  <2>1. bad \subseteq Nat
    OBVIOUS
  <2>2. PICK k \in bad : \A j \in bad : k <= j
    <3> HIDE DEF bad
    <3> QED BY <2>1, LeastOf
  <2>3. k \in Nat /\ ~P(k)
    BY <2>2
  <2>4. k # 0
    <3> SUFFICES P(0)
      BY <2>3
    <3>1. Up(0) = {}
      OBVIOUS
    <3> HIDE DEF Up
    <3>2. [x \in Up(0) |-> 0] \in [Up(0) -> A]
      BY <3>1
    <3>3. Recurs([x \in Up(0) |-> 0], Up(0), stop, next, val, o)
      BY <3>1 DEF Recurs
    <3> QED BY <3>2, <3>3
  <2>5. k - 1 \in Nat /\ ~(k <= k - 1)
    BY <2>3, <2>4
  <2>6. P(k - 1)
    <3> HIDE DEF P
    <3> QED BY <2>2, <2>5
  <2>7. PICK f \in [Up(k - 1) -> A] : Recurs(f, Up(k - 1), stop, next, val, o)
    BY <2>6
  <2> DEFINE g == [x \in Up(k) |-> IF x \in stop THEN val[x] ELSE o[<<x, f[next[x]]>>]]
  <2>8. \A x \in Up(k) : x \notin stop => next[x] \in Up(k - 1) /\ next[x] \in Up(k)
    BY <2>3, <2>5
  <2>9. \A x \in Up(k - 1) : x \in Up(k)
    BY <2>3, <2>5
  <2>10. \A x \in Up(k) : x \in D
    OBVIOUS
  <2>11. P(k)
    <3> HIDE DEF Up
    <3>1. \A x \in Up(k - 1) : g[x] = f[x]
      BY <2>7, <2>9 DEF Recurs
    <3>2. Recurs(g, Up(k), stop, next, val, o)
      <4> SUFFICES ASSUME NEW x \in Up(k) PROVE g[x] = IF x \in stop THEN val[x] ELSE o[<<x, g[next[x]]>>]
        BY DEF Recurs
      <4>1. CASE x \in stop
        BY <4>1
      <4>2. CASE x \notin stop
        <5>1. g[next[x]] = f[next[x]]
          BY <2>8, <3>1, <4>2
        <5>2. g[x] = o[<<x, f[next[x]]>>]
          BY <4>2
        <5> HIDE DEF g
        <5> QED BY <4>2, <5>1, <5>2
      <4> QED BY <4>1, <4>2
    <3>3. \A x \in Up(k) : g[x] \in A
      <4> SUFFICES ASSUME NEW x \in Up(k) PROVE g[x] \in A
        OBVIOUS
      <4>1. CASE x \in stop
        BY <2>10, <4>1
      <4>2. CASE x \notin stop
        BY <2>7, <2>8, <2>10, <4>2
      <4> QED BY <4>1, <4>2
    <3>4. g \in [Up(k) -> A]
      BY <3>3
    <3> HIDE DEF g
    <3> QED BY <3>2, <3>4
  <2> HIDE DEF P
  <2> QED BY <2>3, <2>11
<1> DEFINE F(k) == CHOOSE f \in [Up(k) -> A] : Recurs(f, Up(k), stop, next, val, o)
           h == [x \in D |-> F(m[x] + 1)[x]]
<1>2. ASSUME NEW k \in Nat PROVE F(k) \in [Up(k) -> A] /\ Recurs(F(k), Up(k), stop, next, val, o)
  BY <1>1
<1>3. ASSUME NEW x \in D PROVE m[x] + 1 \in Nat /\ x \in Up(m[x] + 1)
  OBVIOUS
<1>4. ASSUME NEW x \in D PROVE h[x] \in A
  <2>1. F(m[x] + 1) \in [Up(m[x] + 1) -> A]
    BY <1>2, <1>3
  <2> HIDE DEF F, Up
  <2> QED BY <1>3, <2>1
<1>5. ASSUME NEW k \in Nat PROVE /\ Up(k) \subseteq D
                                 /\ \A x \in Up(k) \ stop : next[x] \in Up(k) /\ m[next[x]] < m[x]
  OBVIOUS
<1>6. Recurs(h, D, stop, next, val, o)
  <2> SUFFICES ASSUME NEW x \in D PROVE h[x] = IF x \in stop THEN val[x] ELSE o[<<x, h[next[x]]>>]
    BY DEF Recurs
  <2> DEFINE f == F(m[x] + 1)
             U == Up(m[x] + 1)
  <2>1. x \in U /\ Recurs(f, U, stop, next, val, o) /\ h[x] = f[x]
    BY <1>2, <1>3
  <2>2. h[x] = IF x \in stop THEN val[x] ELSE o[<<x, f[next[x]]>>]
    <3> HIDE DEF f, U, h
    <3> QED BY <2>1 DEF Recurs
  <2>3. CASE x \in stop
    <3> HIDE DEF h
    <3> QED BY <2>2, <2>3
  <2>4. CASE x \notin stop
    <3> DEFINE y == next[x]
               V == Up(m[y] + 1)
               g == F(m[y] + 1)
    <3>1. y \in D /\ y \in U /\ y \in V
      <4>1. y \in D
        BY <2>4
      <4>2. y \in U
        <5> HIDE DEF y
        <5>1. m[y] < m[x] + 1 /\ y \in D
          BY <2>4, <4>1 DEF y
        <5> QED BY <5>1
      <4> QED BY <1>3, <4>1, <4>2
    <3>2. Recurs(g, V, stop, next, val, o) /\ h[y] = g[y]
      BY <1>2, <1>3, <3>1
    <3>3. /\ U \subseteq D /\ \A z \in U \ stop : next[z] \in U /\ m[next[z]] < m[z]
          /\ V \subseteq D /\ \A z \in V \ stop : next[z] \in V /\ m[next[z]] < m[z]
      BY <1>3, <1>5, <3>1
    <3> HIDE DEF U, V, f, g, h, y
    <3>4. f[y] = g[y]
      BY <2>1, <3>1, <3>2, <3>3, RecursionIsOne
    <3>5. h[x] = o[<<x, f[y]>>]
      BY <2>2, <2>4 DEF y
    <3>6. h[x] = o[<<x, h[y]>>]
      BY <3>2, <3>4, <3>5
    <3> QED BY <2>4, <3>6 DEF y
  <2> QED BY <2>3, <2>4
<1>7. h \in [D -> A]
  <2> HIDE DEF F
  <2>1. \A x \in D : h[x] \in A
    BY <1>4
  <2> QED BY <2>1
<1> HIDE DEF h
<1> QED BY <1>6, <1>7

\* The members of S before x in the order L
Under(S, L, x) == {y \in S : <<y, x>> \in L}

\* L orders the members of S, any two of them.
IsOrder(S, L) ==
    /\ \A x \in S : <<x, x>> \notin L
    /\ \A x \in S, y \in S, z \in S : <<x, y>> \in L /\ <<y, z>> \in L => <<x, z>> \in L
    /\ \A x \in S, y \in S : x # y => <<x, y>> \in L \/ <<y, x>> \in L

\* place numbers the members of S, from 0, in the order L.
Numbers(S, L, place) ==
    /\ Cardinality(S) \in Nat
    /\ \A x \in S : place[x] \in 0 .. Cardinality(S) - 1
    /\ \A x \in S, y \in S : <<x, y>> \in L <=> place[x] < place[y]
    /\ \A x \in S, y \in S : place[x] = place[y] => x = y
    /\ \A p \in 0 .. Cardinality(S) - 1 : \E x \in S : place[x] = p

\* In a finite set with a total order, the numbers of members before a member
\* are the numbers below its size, each once, in that order.
LEMMA PlacesInOrder ==
    ASSUME NEW S, IsFiniteSet(S), NEW L,
           IsOrder(S, L),
           NEW place, \A x \in S : place[x] = Cardinality(Under(S, L, x))
    PROVE  Numbers(S, L, place)
<1> DEFINE Less(x) == {y \in S : <<y, x>> \in L}
           n == Cardinality(S)
<1> USE DEF Under, IsOrder
<1>0. n \in Nat
  BY FS_CardinalityType
<1>1. ASSUME NEW x \in S
      PROVE  Less(x) \subseteq S /\ IsFiniteSet(Less(x)) /\ x \notin Less(x) /\ place[x] = Cardinality(Less(x))
  <2>1. Less(x) \subseteq S
    OBVIOUS
  <2> QED BY <2>1, FS_Subset
<1>2. ASSUME NEW x \in S PROVE place[x] \in 0 .. n - 1 /\ place[x] \in Nat
  <2>1. Less(x) \subseteq S /\ Less(x) # S
    BY <1>1
  <2> HIDE DEF Less
  <2>2. Cardinality(Less(x)) < n /\ Cardinality(Less(x)) \in Nat
    BY <1>1, <2>1, FS_Subset, FS_CardinalityType
  <2> QED BY <1>0, <1>1, <2>2
<1>3. ASSUME NEW x \in S, NEW y \in S, <<x, y>> \in L PROVE place[x] < place[y]
  <2>1. Less(x) \subseteq Less(y) /\ x \in Less(y) /\ x \notin Less(x)
    BY <1>3
  <2> HIDE DEF Less
  <2>2. IsFiniteSet(Less(y)) /\ Cardinality(Less(x)) \in Nat /\ Cardinality(Less(y)) \in Nat
    BY <1>1, FS_CardinalityType
  <2>3. Cardinality(Less(x)) <= Cardinality(Less(y))
    BY <2>1, <2>2, FS_Subset
  <2>4. Cardinality(Less(x)) # Cardinality(Less(y))
    BY <2>1, <2>2, FS_Subset
  <2>5. Cardinality(Less(x)) < Cardinality(Less(y))
    BY <2>2, <2>3, <2>4
  <2> QED BY <1>1, <2>5
<1>4. \A x \in S, y \in S : <<x, y>> \in L <=> place[x] < place[y]
  <2> SUFFICES ASSUME NEW x \in S, NEW y \in S, place[x] < place[y] PROVE <<x, y>> \in L
    BY <1>3
  <2>1. x # y
    BY <1>2
  <2>2. ~(place[y] < place[x])
    BY <1>2
  <2> QED BY <1>3, <2>1, <2>2
<1>5. \A x \in S, y \in S : place[x] = place[y] => x = y
  <2> SUFFICES ASSUME NEW x \in S, NEW y \in S, place[x] = place[y], x # y PROVE FALSE
    OBVIOUS
  <2>1. ~(place[y] < place[x]) /\ ~(place[x] < place[y])
    BY <1>2
  <2> QED BY <1>3, <2>1
<1>6. \A p \in 0 .. n - 1 : \E x \in S : place[x] = p
  <2> DEFINE I == {place[x] : x \in S}
             N == 0 .. n - 1
  <2>1. IsFiniteSet(I) /\ Cardinality(I) = n
    <3>1. \A x \in S, y \in S : place[x] = place[y] => x = y
      BY <1>5
    <3> HIDE DEF n
    <3> QED BY <3>1, SizeOfImage DEF n
  <2>2. I \subseteq N
    BY <1>2
  <2>3. IsFiniteSet(N) /\ Cardinality(N) = n
    <3>1. IsFiniteSet(N) /\ Cardinality(N) = IF 0 > n - 1 THEN 0 ELSE ((n - 1) - 0) + 1
      <4>1. 0 \in Int /\ n - 1 \in Int
        BY <1>0
      <4> QED BY <4>1, FS_Interval
    <3> HIDE DEF n
    <3> QED BY <1>0, <3>1
  <2>4. I = N
    <3> HIDE DEF I, N
    <3> QED BY <2>1, <2>2, <2>3, FS_Subset
  <2> HIDE DEF n
  <2> QED BY <2>4
<1> QED BY <1>0, <1>2, <1>4, <1>5, <1>6 DEF Numbers

\* q lists the members of S by their places in the order L.
Lists(q, S, L) ==
    /\ q = [p \in 1 .. Cardinality(S) |-> q[p]]
    /\ \A p \in 1 .. Cardinality(S) : q[p] \in S /\ Cardinality(Under(S, L, q[p])) = p - 1

\* There is a member at every place.
LEMMA PlacesExist ==
    ASSUME NEW S, IsFiniteSet(S), NEW L, IsOrder(S, L)
    PROVE  \A p \in 1 .. Cardinality(S) : \E x \in S : Cardinality(Under(S, L, x)) = p - 1
<1> DEFINE place == [x \in S |-> Cardinality(Under(S, L, x))]
           n == Cardinality(S)
<1>1. \A x \in S : place[x] = Cardinality(Under(S, L, x))
  OBVIOUS
<1> HIDE DEF place, n
<1>2. Numbers(S, L, place)
  BY <1>1, PlacesInOrder
<1>3. n \in Nat /\ \A p \in 0 .. n - 1 : \E x \in S : place[x] = p
  BY <1>2 DEF Numbers, n
<1>4. ASSUME NEW p \in 1 .. n PROVE \E x \in S : Cardinality(Under(S, L, x)) = p - 1
  <2>1. p - 1 \in 0 .. n - 1
    BY <1>3
  <2> QED BY <1>1, <1>3, <2>1
<1> QED BY <1>4 DEF n

\* Such a list has every member once, in that order.
LEMMA ListIs ==
    ASSUME NEW S, IsFiniteSet(S), NEW L, IsOrder(S, L), NEW q, Lists(q, S, L)
    PROVE  /\ Cardinality(S) \in Nat
           /\ q \in [1 .. Cardinality(S) -> S]
           /\ \A x \in S : \E p \in 1 .. Cardinality(S) : q[p] = x
           /\ \A i \in 1 .. Cardinality(S), k \in 1 .. Cardinality(S) : i < k <=> <<q[i], q[k]>> \in L
           /\ \A i \in 1 .. Cardinality(S), k \in 1 .. Cardinality(S) : q[i] = q[k] => i = k
<1> DEFINE place == [x \in S |-> Cardinality(Under(S, L, x))]
           n == Cardinality(S)
<1>1. /\ n \in Nat
      /\ \A x \in S : place[x] \in 0 .. n - 1
      /\ \A x \in S, y \in S : <<x, y>> \in L <=> place[x] < place[y]
      /\ \A x \in S, y \in S : place[x] = place[y] => x = y
  <2>1. \A x \in S : place[x] = Cardinality(Under(S, L, x))
    OBVIOUS
  <2> HIDE DEF place, n
  <2>2. Numbers(S, L, place)
    BY <2>1, PlacesInOrder
  <2> QED BY <2>2 DEF n, Numbers
<1>2. q = [p \in 1 .. n |-> q[p]] /\ \A p \in 1 .. n : q[p] \in S /\ place[q[p]] = p - 1
  BY DEF Lists
<1> HIDE DEF place, n
<1>3. q \in [1 .. n -> S]
  BY <1>2
<1>4. ASSUME NEW x \in S PROVE \E p \in 1 .. n : q[p] = x
  <2>1. place[x] + 1 \in 1 .. n /\ (place[x] + 1) - 1 = place[x]
    BY <1>1
  <2>2. place[q[place[x] + 1]] = place[x] /\ q[place[x] + 1] \in S
    BY <1>2, <2>1
  <2>3. q[place[x] + 1] = x
    BY <1>1, <2>2
  <2> QED BY <2>1, <2>3
<1>5. ASSUME NEW i \in 1 .. n, NEW k \in 1 .. n
      PROVE  (i < k <=> <<q[i], q[k]>> \in L) /\ (q[i] = q[k] => i = k)
  <2>1. place[q[i]] = i - 1 /\ place[q[k]] = k - 1 /\ q[i] \in S /\ q[k] \in S
    BY <1>2
  <2>2. i < k <=> place[q[i]] < place[q[k]]
    BY <1>1, <2>1
  <2>3. q[i] = q[k] => i = k
    BY <1>1, <2>1
  <2> QED BY <1>1, <2>1, <2>2, <2>3
<1> QED BY <1>1, <1>3, <1>4, <1>5 DEF n

\* The sets that a fold from the last place of a sequence goes through.
LEMMA PrefixOf ==
    ASSUME NEW k \in Nat \ {0}
    PROVE  Max(1 .. k) = k /\ (1 .. k) \ {k} = 1 .. k - 1 /\ 1 .. k # {}
<1>1. k \in 1 .. k /\ \A y \in 1 .. k : k >= y
  OBVIOUS
<1>2. \A x \in 1 .. k : (\A y \in 1 .. k : x >= y) => x = k
  OBVIOUS
<1>3. Max(1 .. k) = k
  BY <1>1, <1>2 DEF Max
<1>4. (1 .. k) \ {k} = 1 .. k - 1
  OBVIOUS
<1> QED BY <1>1, <1>3, <1>4

\* A nonempty set of places has a last one.
LEMMA LastPlace ==
    ASSUME NEW n \in Nat, NEW u, u \subseteq 1 .. n, u # {}
    PROVE  Max(u) \in u
<1> DEFINE S == {n - x : x \in u}
<1>1. S \subseteq Nat /\ S # {}
  <2>1. \A x \in u : n - x \in Nat
    OBVIOUS
  <2>2. PICK x \in u : TRUE
    OBVIOUS
  <2>3. n - x \in S
    BY <2>2
  <2> QED BY <2>1, <2>3
<1>2. PICK d \in S : \A y \in S : d <= y
  <2> HIDE DEF S
  <2> QED BY <1>1, LeastOf
<1>3. PICK x \in u : d = n - x
  BY <1>2
<1>4. \A y \in u : x >= y
  <2> SUFFICES ASSUME NEW y \in u PROVE x >= y
    OBVIOUS
  <2>1. n - y \in S
    OBVIOUS
  <2>2. n - x <= n - y
    BY <1>2, <1>3, <2>1
  <2> QED BY <1>3, <2>2
<1> QED BY <1>3, <1>4 DEF Max

\* The steps of a fold over a sequence of length n stay in A.
StaysIn(o, n, A) == \A k \in 1 .. n : \A a \in A : o[<<k, a>>] \in A

\* What FoldLeft computes on the way, for every set of places
FoldsSets(f, n, base, o) ==
    \A u \in SUBSET (1 .. n) : f[u] = IF u = {} THEN base ELSE o[<<Max(u), f[u \ {Max(u)}]>>]

\* A fold over a sequence of length n is defined where its steps stay in A.
LEMMA FoldDefines ==
    ASSUME NEW n \in Nat, NEW A, NEW base \in A, NEW o, StaysIn(o, n, A)
    PROVE  \E f \in [SUBSET (1 .. n) -> A] : FoldsSets(f, n, base, o)
<1> DEFINE D == SUBSET (1 .. n)
           m == [u \in D |-> Cardinality(u)]
           next == [u \in D |-> u \ {Max(u)}]
           val == [u \in D |-> base]
           ou == [w \in D \X A |-> o[<<Max(w[1]), w[2]>>]]
<1>1. IsFiniteSet(1 .. n)
  <2>1. 1 \in Int /\ n \in Int
    OBVIOUS
  <2> QED BY <2>1, FS_Interval
<1>2. ASSUME NEW u \in D PROVE IsFiniteSet(u) /\ m[u] \in Nat
  BY <1>1, FS_Subset, FS_CardinalityType
<1>3. m \in [D -> Nat]
  BY <1>2
<1>4. ASSUME NEW u \in D \ {{}} PROVE next[u] \in D /\ m[next[u]] < m[u] /\ Max(u) \in u
  <2>1. Max(u) \in u
    BY LastPlace
  <2>2. next[u] \in D /\ next[u] = u \ {Max(u)}
    OBVIOUS
  <2>3. Cardinality(u \ {Max(u)}) = Cardinality(u) - 1
    BY <1>2, <2>1, FS_RemoveElement
  <2>4. m[next[u]] = m[u] - 1
    BY <2>2, <2>3
  <2> HIDE DEF m, next
  <2> QED BY <1>2, <2>1, <2>2, <2>4
<1>5. ASSUME NEW u \in D \ {{}}, NEW a \in A PROVE ou[<<u, a>>] = o[<<Max(u), a>>] /\ ou[<<u, a>>] \in A
  <2>1. Max(u) \in 1 .. n
    BY <1>4
  <2> QED BY <2>1 DEF StaysIn
<1>6. \A u \in D \cap {{}} : val[u] \in A
  OBVIOUS
<1>7. PICK f \in [D -> A] : Recurs(f, D, {{}}, next, val, ou)
  <2> HIDE DEF m, next, val, ou, D
  <2> QED BY <1>3, <1>4, <1>5, <1>6, RecursionDefines
<1>8. ASSUME NEW u \in D PROVE f[u] = IF u = {} THEN base ELSE o[<<Max(u), f[u \ {Max(u)}]>>]
  <2>1. f[u] = IF u = {} THEN val[u] ELSE ou[<<u, f[next[u]]>>]
    <3> HIDE DEF ou, val, next, D
    <3> QED BY <1>7 DEF Recurs
  <2>2. CASE u = {}
    BY <2>1, <2>2
  <2>3. CASE u # {}
    <3>1. f[next[u]] \in A /\ next[u] = u \ {Max(u)}
      BY <1>4, <1>7, <2>3
    <3>2. ou[<<u, f[next[u]]>>] = o[<<Max(u), f[next[u]]>>]
      <4> HIDE DEF ou, next
      <4> QED BY <1>5, <2>3, <3>1
    <3> HIDE DEF ou, next
    <3> QED BY <2>1, <2>3, <3>1, <3>2
  <2> QED BY <2>2, <2>3
<1> QED BY <1>7, <1>8 DEF FoldsSets

\* The values a fold passes through, from the first place to the last
RunsTo(F, n, base, o) == F[0] = base /\ \A k \in 1 .. n : F[k] = o[<<k, F[k - 1]>>]

\* What FoldLeft computes, where the step before was in A
FoldsIn(f, n, A, base, o) ==
    /\ f[{}] = base
    /\ \A u \in SUBSET (1 .. n) : u # {} /\ f[u \ {Max(u)}] \in A => f[u] = o[<<Max(u), f[u \ {Max(u)}]>>]

\* A fold goes through the places in order.
LEMMA FoldRuns ==
    ASSUME NEW n \in Nat, NEW A, NEW base \in A, NEW o, StaysIn(o, n, A), NEW f, FoldsIn(f, n, A, base, o)
    PROVE  \E F \in [0 .. n -> A] : RunsTo(F, n, base, o) /\ f[1 .. n] = F[n]
<1> DEFINE S == {k \in 0 .. n : f[1 .. k] \in A}
           F == [k \in 0 .. n |-> f[1 .. k]]
<1>1. f[1 .. 0] = base
  <2>1. 1 .. 0 = {}
    OBVIOUS
  <2> QED BY <2>1 DEF FoldsIn
<1>2. ASSUME NEW k \in 1 .. n, f[1 .. k - 1] \in A
      PROVE  f[1 .. k] = o[<<k, f[1 .. k - 1]>>] /\ f[1 .. k] \in A
  <2>1. Max(1 .. k) = k /\ (1 .. k) \ {k} = 1 .. k - 1 /\ 1 .. k # {}
    <3>1. k \in Nat \ {0}
      OBVIOUS
    <3> QED BY <3>1, PrefixOf
  <2>2. 1 .. k \in SUBSET (1 .. n)
    OBVIOUS
  <2>3. f[1 .. k] = o[<<k, f[1 .. k - 1]>>]
    BY <1>2, <2>1, <2>2 DEF FoldsIn
  <2> QED BY <1>2, <2>3 DEF StaysIn
<1>3. 0 \in S
  BY <1>1
<1>4. ASSUME NEW k \in 1 .. n, k - 1 \in S PROVE k \in S
  <2>1. f[1 .. k - 1] \in A
    BY <1>4
  <2>2. f[1 .. k] \in A
    <3> HIDE DEF S
    <3> QED BY <1>2, <2>1
  <2> QED BY <2>2
<1>5. \A k \in 0 .. n : k \in S
  <2> HIDE DEF S
  <2> QED BY <1>3, <1>4, Climb
<1>6. F \in [0 .. n -> A] /\ f[1 .. n] = F[n]
  BY <1>5
<1>7. F[0] = base
  BY <1>1
<1>8. ASSUME NEW k \in 1 .. n PROVE F[k] = o[<<k, F[k - 1]>>]
  <2>1. k - 1 \in 0 .. n /\ k \in 0 .. n
    OBVIOUS
  <2>2. f[1 .. k - 1] \in A
    BY <1>5, <2>1
  <2>3. F[k] = f[1 .. k] /\ F[k - 1] = f[1 .. k - 1]
    BY <2>1
  <2> HIDE DEF F
  <2> QED BY <1>2, <2>2, <2>3
<1> HIDE DEF F
<1>9. RunsTo(F, n, base, o)
  BY <1>7, <1>8 DEF RunsTo
<1> QED BY <1>6, <1>9
-----------------------------------------------------------------------------
(* Powers of two                                                           *)

\* One more doubles the power: half of the subsets of 1 .. n + 1 contain n + 1.
LEMMA PowerStep ==
    ASSUME NEW n \in Nat
    PROVE  2 ^ n \in Nat /\ 2 ^ (n + 1) = 2 * 2 ^ n
<1> DEFINE P == SUBSET (1 .. n)
           with == [s \in P |-> s \cup {n + 1}]
           Q == {with[s] : s \in P}
<1>1. /\ IsFiniteSet(1 .. n) /\ Cardinality(1 .. n) = n
      /\ IsFiniteSet(1 .. n + 1) /\ Cardinality(1 .. n + 1) = n + 1
  BY FS_Interval
<1>2. /\ IsFiniteSet(P) /\ Cardinality(P) = 2 ^ n
      /\ Cardinality(SUBSET (1 .. n + 1)) = 2 ^ (n + 1)
  BY <1>1, FS_SUBSET
<1>3. IsFiniteSet(Q) /\ Cardinality(Q) = Cardinality(P)
  <2>1. \A s \in P, t \in P : with[s] = with[t] => s = t
    OBVIOUS
  <2> HIDE DEF P, with
  <2> QED BY <1>2, <2>1, SizeOfImage
<1>4. P \cap Q = {}
  <2>1. \A s \in P : n + 1 \in with[s]
    OBVIOUS
  <2>2. \A s \in P : n + 1 \notin s
    OBVIOUS
  <2> HIDE DEF P, with
  <2> QED BY <2>1, <2>2
<1>5. SUBSET (1 .. n + 1) = P \cup Q
  <2>1. ASSUME NEW u \in SUBSET (1 .. n + 1) PROVE u \in P \cup Q
    <3>1. CASE n + 1 \in u
      <4>1. u \ {n + 1} \in P
        OBVIOUS
      <4>2. u = with[u \ {n + 1}]
        BY <3>1
      <4> HIDE DEF P, with
      <4> QED BY <4>1, <4>2
    <3>2. CASE n + 1 \notin u
      <4>1. \A x \in u : x \in 1 .. n
        BY <3>2
      <4> QED BY <4>1
    <3> QED BY <3>1, <3>2
  <2>2. ASSUME NEW u \in P \cup Q PROVE u \in SUBSET (1 .. n + 1)
    <3>1. \A s \in P : s \in SUBSET (1 .. n + 1) /\ with[s] \in SUBSET (1 .. n + 1)
      OBVIOUS
    <3> HIDE DEF P, with
    <3> QED BY <3>1
  <2> QED BY <2>1, <2>2
<1> HIDE DEF P, Q
<1>6. Cardinality(P \cup Q) = Cardinality(P) + Cardinality(Q) /\ Cardinality(P) \in Nat
  BY <1>2, <1>3, <1>4, SizeOfDisjoint, FS_CardinalityType
<1> DEFINE x == 2 ^ n
           y == 2 ^ (n + 1)
<1>7. x \in Nat /\ y = x + x
  BY <1>2, <1>3, <1>5, <1>6
<1> HIDE DEF x, y
<1>8. x \in Nat /\ y = 2 * x
  BY <1>7
<1> QED BY <1>8 DEF x, y

\* A power of two is greater than its exponent, and a greater one is no smaller.
LEMMA PowerGrows ==
    ASSUME NEW n \in Nat
    PROVE  /\ 2 ^ n \in Nat /\ 2 ^ n > n
           /\ \A k \in 0 .. n : 2 ^ k <= 2 ^ n
<1> DEFINE S == {k \in 0 .. n : 2 ^ k > k}
           T == {k \in 0 .. n : 2 ^ (n - k) <= 2 ^ n}
<1>0. \A k \in Nat : 2 ^ k \in Nat /\ 2 ^ (k + 1) = 2 * 2 ^ k
  BY PowerStep
<1>1. 0 \in S
  BY <1>0
<1>2. ASSUME NEW k \in 1 .. n, k - 1 \in S PROVE k \in S
  <2>1. k - 1 \in Nat /\ (k - 1) + 1 = k /\ 2 ^ (k - 1) > k - 1
    BY <1>2
  <2>2. 2 ^ k = 2 * 2 ^ (k - 1) /\ 2 ^ (k - 1) \in Nat
    BY <1>0, <2>1
  <2> QED BY <2>1, <2>2
<1>3. n \in S
  <2> HIDE DEF S
  <2> QED BY <1>1, <1>2, Climb
<1>4. 0 \in T
  BY <1>0
<1>5. ASSUME NEW k \in 1 .. n, k - 1 \in T PROVE k \in T
  <2>1. n - k \in Nat /\ (n - k) + 1 = n - (k - 1) /\ 2 ^ (n - (k - 1)) <= 2 ^ n
    BY <1>5
  <2>2. 2 ^ (n - (k - 1)) = 2 * 2 ^ (n - k) /\ 2 ^ (n - k) \in Nat
    BY <1>0, <2>1
  <2>3. 2 ^ n \in Nat
    BY <1>0
  <2>4. 2 ^ (n - k) <= 2 ^ n
    BY <2>1, <2>2, <2>3
  <2> QED BY <2>4
<1>6. ASSUME NEW k \in 0 .. n PROVE 2 ^ k <= 2 ^ n
  <2>1. n - k \in 0 .. n
    OBVIOUS
  <2>2. n - k \in T
    <3> HIDE DEF T
    <3> QED BY <1>4, <1>5, <2>1, Climb
  <2>3. n - (n - k) = k
    OBVIOUS
  <2> QED BY <2>2, <2>3
<1> QED BY <1>0, <1>3, <1>6
-----------------------------------------------------------------------------
(* Counting                                                                *)

\* No more members have the value one than the sum of the values of all.
LEMMA SumCounts ==
    ASSUME NEW S, IsFiniteSet(S), NEW f, \A x \in S : f[x] \in Nat,
           NEW T, T \subseteq S, \A x \in T : f[x] = 1
    PROVE  Cardinality(T) <= SumFunctionOnSet(f, S)
<1> DEFINE Ones(s) == {x \in s : x \in T}
           bad == {s \in SUBSET S : ~(Cardinality(Ones(s)) <= SumFunctionOnSet(f, s))}
<1>0. bad = {}
  <2> SUFFICES ASSUME bad # {} PROVE FALSE
    OBVIOUS
  <2>1. PICK s \in bad : \A t \in bad : ~(t \subseteq s /\ t # s)
    <3>1. bad \subseteq SUBSET S
      OBVIOUS
    <3> HIDE DEF bad
    <3> QED BY <3>1, Smallest
  <2>2. s \in SUBSET S /\ ~(Cardinality(Ones(s)) <= SumFunctionOnSet(f, s)) /\ IsFiniteSet(s)
    BY FS_Subset
  <2>3. s # {}
    <3> SUFFICES ASSUME s = {} PROVE FALSE
      OBVIOUS
    <3>1. Ones(s) = {}
      OBVIOUS
    <3>2. Cardinality(Ones(s)) = 0 /\ SumFunctionOnSet(f, s) = 0
      BY <3>1, FS_EmptySet, SumOfNone
    <3> QED BY <2>2, <3>2
  <2>4. PICK x \in s : TRUE
    BY <2>3
  <2> DEFINE r == s \ {x}
  <2>5. r \subseteq s /\ r # s /\ r \in SUBSET S /\ IsFiniteSet(r)
    BY <2>2, <2>4, FS_Subset
  <2>6. Cardinality(Ones(r)) <= SumFunctionOnSet(f, r)
    BY <2>1, <2>5
  <2>7. SumFunctionOnSet(f, s) = f[x] + SumFunctionOnSet(f, r) /\ f[x] \in Nat
    BY <2>2, <2>4, SumWithout
  <2>8. IsFiniteSet(Ones(r)) /\ Cardinality(Ones(r)) \in Nat
    BY <2>5, FS_Subset, FS_CardinalityType
  <2>9. SumFunctionOnSet(f, r) \in Int
    BY <2>5, SumIsInt
  <2>10. CASE x \in T
    <3>1. Ones(s) = Ones(r) \cup {x} /\ x \notin Ones(r)
      BY <2>4, <2>10
    <3>2. Cardinality(Ones(s)) = Cardinality(Ones(r)) + 1
      <4> HIDE DEF Ones
      <4> QED BY <2>8, <3>1, FS_AddElement
    <3>3. f[x] = 1
      BY <2>10
    <3> HIDE DEF Ones, r
    <3> QED BY <2>2, <2>6, <2>7, <2>8, <2>9, <3>2, <3>3
  <2>11. CASE x \notin T
    <3>1. Ones(s) = Ones(r)
      BY <2>11
    <3> HIDE DEF Ones, r
    <3> QED BY <2>2, <2>6, <2>7, <2>8, <2>9, <3>1
  <2> QED BY <2>10, <2>11
<1>1. Cardinality(Ones(S)) <= SumFunctionOnSet(f, S)
  BY <1>0
<1>2. Ones(S) = T
  OBVIOUS
<1> QED BY <1>1, <1>2

\* The sizes of parts that have nothing in common add up to the size of the whole.
LEMMA SumOfSizes ==
    ASSUME NEW P, IsFiniteSet(P), NEW part, \A p \in P : IsFiniteSet(part[p]),
           \A p \in P, q \in P : p # q => part[p] \cap part[q] = {},
           NEW size, \A p \in P : size[p] = Cardinality(part[p])
    PROVE  Cardinality(UNION {part[p] : p \in P}) = SumFunctionOnSet(size, P)
<1> DEFINE Over(s) == UNION {part[p] : p \in s}
           Good(s) == IsFiniteSet(Over(s)) /\ Cardinality(Over(s)) = SumFunctionOnSet(size, s)
           bad == {s \in SUBSET P : ~Good(s)}
<1>0. \A p \in P : size[p] \in Int
  BY FS_CardinalityType
<1>1. bad = {}
  <2> SUFFICES ASSUME bad # {} PROVE FALSE
    OBVIOUS
  <2>1. PICK s \in bad : \A t \in bad : ~(t \subseteq s /\ t # s)
    <3>1. bad \subseteq SUBSET P
      OBVIOUS
    <3> HIDE DEF bad
    <3> QED BY <3>1, Smallest
  <2>2. s \in SUBSET P /\ ~Good(s) /\ IsFiniteSet(s)
    BY FS_Subset
  <2>3. s # {}
    <3> SUFFICES ASSUME s = {} PROVE FALSE
      OBVIOUS
    <3>1. Over(s) = {}
      OBVIOUS
    <3>2. IsFiniteSet(Over(s)) /\ Cardinality(Over(s)) = 0 /\ SumFunctionOnSet(size, s) = 0
      BY <3>1, FS_EmptySet, SumOfNone
    <3> QED BY <2>2, <3>2
  <2>4. PICK x \in s : TRUE
    BY <2>3
  <2> DEFINE r == s \ {x}
  <2>5. r \subseteq s /\ r # s /\ r \in SUBSET P /\ IsFiniteSet(r) /\ x \in P
    BY <2>2, <2>4, FS_Subset
  <2>6. Good(r)
    BY <2>1, <2>5
  <2>7. SumFunctionOnSet(size, s) = size[x] + SumFunctionOnSet(size, r)
    BY <1>0, <2>2, <2>4, SumWithout
  <2>8. Over(s) = Over(r) \cup part[x] /\ Over(r) \cap part[x] = {}
    <3>1. \A p \in r : part[p] \cap part[x] = {}
      BY <2>5
    <3> QED BY <2>4, <3>1
  <2> HIDE DEF Over, r
  <2>9. IsFiniteSet(Over(s)) /\ Cardinality(Over(s)) = Cardinality(Over(r)) + Cardinality(part[x])
    BY <2>5, <2>6, <2>8, SizeOfDisjoint
  <2>10. Cardinality(Over(r)) \in Nat /\ Cardinality(part[x]) \in Nat
    BY <2>5, <2>6, FS_CardinalityType
  <2> QED BY <2>2, <2>5, <2>6, <2>7, <2>9, <2>10
<1>2. Good(P)
  BY <1>1
<1> QED BY <1>2
=============================================================================
