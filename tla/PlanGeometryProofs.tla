------------------------- MODULE PlanGeometryProofs -------------------------
(* What every plan's geometry satisfies, whatever the price, the walls and  *)
(* the volatility: the arithmetic behind LevelsAreOrdered and TargetIsHonest *)
(* of SwingRadar.  The walls of LongPathIsClear and the supports of          *)
(* ShortPathIsClear are walks of a set of levels, which NearestAbove and     *)
(* NearestBelow give; those of the other theorems are any numbers.           *)
EXTENDS PlanGeometry, FiniteSetTheorems, WellFoundedInduction, TLAPS

-----------------------------------------------------------------------------
(* Least numbers.                                                          *)

Precedes == {ss \in Nat \X Nat : ss[1] < ss[2]}

LEMMA LeastExists ==
  ASSUME NEW S, S \subseteq Nat, S # {}
  PROVE  \E x \in S : \A y \in S : x <= y
<1>1. IsWellFoundedOn(Precedes, Nat)
  BY NatLessThanWellFounded DEF OpToRel, Precedes
<1>2. PICK x \in S : \A y \in S : ~ (<<y, x>> \in Precedes)
  BY <1>1, WFMin
<1>3. ASSUME NEW y \in S PROVE x <= y
  <2>1. x \in Nat /\ y \in Nat
    OBVIOUS
  <2>2. <<y, x>> \in Nat \X Nat /\ <<y, x>>[1] = y /\ <<y, x>>[2] = x
    BY <2>1
  <2>3. ~ (y < x)
    BY <1>2, <2>2 DEF Precedes
  <2> QED
    BY <2>1, <2>3
<1> QED
  BY <1>3

-----------------------------------------------------------------------------
(* Sorting.                                                                 *)

UpTo(S, x) == {y \in S : y <= x}

LEMMA RankGrows ==
  ASSUME NEW S, IsFiniteSet(S), S \subseteq Nat, NEW x \in S, NEW y \in S
  PROVE  /\ Cardinality(UpTo(S, x)) \in 1..Cardinality(S)
         /\ x < y => Cardinality(UpTo(S, x)) < Cardinality(UpTo(S, y))
<1>1. /\ IsFiniteSet(UpTo(S, x)) /\ Cardinality(UpTo(S, x)) <= Cardinality(S)
      /\ IsFiniteSet(UpTo(S, y))
  BY FS_Subset DEF UpTo
<1>2. Cardinality(UpTo(S, x)) \in Nat /\ Cardinality(S) \in Nat /\ Cardinality(UpTo(S, y)) \in Nat
  BY <1>1, FS_CardinalityType
<1>3. Cardinality(UpTo(S, x)) # 0
  <2>1. x \in UpTo(S, x)
    BY DEF UpTo
  <2> QED
    BY <1>1, <2>1, FS_EmptySet
<1>4. ASSUME x < y PROVE Cardinality(UpTo(S, x)) < Cardinality(UpTo(S, y))
  <2>a. x \in Nat /\ y \in Nat /\ ~(y <= x) /\ y <= y /\ \A z \in S : z <= x => z <= y
    BY <1>4
  <2>1. UpTo(S, x) \in SUBSET UpTo(S, y) /\ y \in UpTo(S, y) /\ y \notin UpTo(S, x)
    BY <2>a, Zenon DEF UpTo
  <2> DEFINE T == UpTo(S, x)
             U == UpTo(S, y)
  <2>2. T # U
    BY <2>1
  <2>3. IsFiniteSet(U) /\ T \in SUBSET U
    BY <1>1, <2>1
  <2>4. Cardinality(T) <= Cardinality(U) /\ Cardinality(T) # Cardinality(U)
    <3> HIDE DEF T, U
    <3> QED
      BY <2>2, <2>3, FS_Subset
  <2> QED
    BY <1>2, <2>4
<1> QED
  BY <1>1, <1>2, <1>3, <1>4

\* Every rank is some member's.
LEMMA Ranked ==
  ASSUME NEW S, IsFiniteSet(S), S \subseteq Nat, NEW i \in 1..Cardinality(S)
  PROVE  \E x \in S : Cardinality(UpTo(S, x)) = i
<1> DEFINE n == Cardinality(S)
           rank == [x \in S |-> Cardinality(UpTo(S, x))]
<1>1. n \in Nat
  BY FS_CardinalityType
<1>2. rank \in [S -> 1..n]
  BY RankGrows
<1>3. \A x, y \in S : x # y => rank[x] # rank[y]
  <2>1. ASSUME NEW x \in S, NEW y \in S, x # y PROVE rank[x] # rank[y]
    <3>1. x \in Nat /\ y \in Nat
      OBVIOUS
    <3>2. /\ Cardinality(UpTo(S, x)) \in 1..n /\ Cardinality(UpTo(S, y)) \in 1..n
          /\ x < y => Cardinality(UpTo(S, x)) < Cardinality(UpTo(S, y))
          /\ y < x => Cardinality(UpTo(S, y)) < Cardinality(UpTo(S, x))
      BY RankGrows
    <3> QED
      BY <2>1, <3>1, <3>2
  <2> QED
    BY <2>1
<1>4. rank \in Injection(S, 1..n)
  BY <1>2, <1>3 DEF Injection, IsInjective
<1>5. IsFiniteSet(1..n) /\ Cardinality(1..n) = n
  BY <1>1, FS_Interval
<1>6. rank \in Surjection(S, 1..n)
  BY <1>4, <1>5, FS_Injection
<1>7. \E x \in S : rank[x] = i
  BY <1>6 DEF Surjection
<1> QED
  BY <1>7

\* Ascending lists the members of a finite set of numbers, the least first.
LEMMA AscendingSorts ==
  ASSUME NEW S, IsFiniteSet(S), S \subseteq Nat
  PROVE  /\ Ascending(S) \in Seq(S) /\ Len(Ascending(S)) = Cardinality(S)
         /\ \A i, j \in 1..Cardinality(S) : i < j => Ascending(S)[i] < Ascending(S)[j]
         /\ \A x \in S : \E i \in 1..Cardinality(S) : Ascending(S)[i] = x
<1> DEFINE n == Cardinality(S)
           A == Ascending(S)
<1>1. n \in Nat
  BY FS_CardinalityType
<1>2. \A i \in 1..n : A[i] \in S /\ Cardinality(UpTo(S, A[i])) = i
  <2>1. ASSUME NEW i \in 1..n PROVE A[i] \in S /\ Cardinality(UpTo(S, A[i])) = i
    <3>1. A[i] = CHOOSE x \in S : Cardinality(UpTo(S, x)) = i
      BY DEF Ascending, UpTo
    <3> QED
      BY <3>1, Ranked
  <2> QED
    BY <2>1
<1>3. A \in Seq(S) /\ Len(A) = n
  <2>1. A \in [1..n -> S]
    BY <1>2 DEF Ascending
  <2> QED
    BY <1>1, <2>1
<1>4. ASSUME NEW i \in 1..n, NEW j \in 1..n, i < j PROVE A[i] < A[j]
  <2>1. A[i] \in Nat /\ A[j] \in Nat /\ A[i] \in S /\ A[j] \in S
    BY <1>2
  <2>2. A[j] < A[i] => j < i
    BY <1>2, <2>1, RankGrows
  <2>3. A[j] # A[i]
    BY <1>2, <1>4
  <2> QED
    BY <1>4, <2>1, <2>2, <2>3
<1>5. ASSUME NEW x \in S PROVE \E i \in 1..n : A[i] = x
  <2> DEFINE i == Cardinality(UpTo(S, x))
  <2>1. i \in 1..n
    BY RankGrows
  <2>2. A[i] \in S /\ Cardinality(UpTo(S, A[i])) = i
    BY <1>2, <2>1
  <2>3. A[i] < x \/ x < A[i] \/ A[i] = x
    <3>1. A[i] \in Nat /\ x \in Nat
      BY <2>2
    <3> QED
      BY <3>1
  <2>4. \A y \in S : /\ y < x => Cardinality(UpTo(S, y)) < i
                     /\ x < y => i < Cardinality(UpTo(S, y))
    BY RankGrows
  <2>5. A[i] = x
    <3>1. PICK r \in S : r = A[i] /\ Cardinality(UpTo(S, r)) = i
      BY <2>2
    <3>2. (r < x => i < i) /\ (x < r => i < i)
      BY <2>4, <3>1
    <3>3. ~(i < i)
      BY <1>1, <2>1
    <3> QED
      BY <2>3, <3>1, <3>2, <3>3
  <2> QED
    BY <2>1, <2>5
<1> QED
  BY <1>1, <1>3, <1>4, <1>5
DownTo(S, x) == {y \in S : y >= x}

LEMMA RankFalls ==
  ASSUME NEW S, IsFiniteSet(S), S \subseteq Nat, NEW x \in S, NEW y \in S
  PROVE  /\ Cardinality(DownTo(S, x)) \in 1..Cardinality(S)
         /\ x > y => Cardinality(DownTo(S, x)) < Cardinality(DownTo(S, y))
<1>1. /\ IsFiniteSet(DownTo(S, x)) /\ Cardinality(DownTo(S, x)) <= Cardinality(S)
      /\ IsFiniteSet(DownTo(S, y))
  BY FS_Subset DEF DownTo
<1>2. Cardinality(DownTo(S, x)) \in Nat /\ Cardinality(S) \in Nat /\ Cardinality(DownTo(S, y)) \in Nat
  BY <1>1, FS_CardinalityType
<1>3. Cardinality(DownTo(S, x)) # 0
  <2>1. x \in DownTo(S, x)
    BY DEF DownTo
  <2> QED
    BY <1>1, <2>1, FS_EmptySet
<1>4. ASSUME x > y PROVE Cardinality(DownTo(S, x)) < Cardinality(DownTo(S, y))
  <2>a. x \in Nat /\ y \in Nat /\ ~(y >= x) /\ y >= y /\ \A z \in S : z >= x => z >= y
    BY <1>4
  <2>1. DownTo(S, x) \in SUBSET DownTo(S, y) /\ y \in DownTo(S, y) /\ y \notin DownTo(S, x)
    BY <2>a, Zenon DEF DownTo
  <2> DEFINE T == DownTo(S, x)
             U == DownTo(S, y)
  <2>2. T # U
    BY <2>1
  <2>3. IsFiniteSet(U) /\ T \in SUBSET U
    BY <1>1, <2>1
  <2>4. Cardinality(T) <= Cardinality(U) /\ Cardinality(T) # Cardinality(U)
    <3> HIDE DEF T, U
    <3> QED
      BY <2>2, <2>3, FS_Subset
  <2> QED
    BY <1>2, <2>4
<1> QED
  BY <1>1, <1>2, <1>3, <1>4

\* Every rank is some member's.
LEMMA RankedDown ==
  ASSUME NEW S, IsFiniteSet(S), S \subseteq Nat, NEW i \in 1..Cardinality(S)
  PROVE  \E x \in S : Cardinality(DownTo(S, x)) = i
<1> DEFINE n == Cardinality(S)
           rank == [x \in S |-> Cardinality(DownTo(S, x))]
<1>1. n \in Nat
  BY FS_CardinalityType
<1>2. rank \in [S -> 1..n]
  BY RankFalls
<1>3. \A x, y \in S : x # y => rank[x] # rank[y]
  <2>1. ASSUME NEW x \in S, NEW y \in S, x # y PROVE rank[x] # rank[y]
    <3>1. x \in Nat /\ y \in Nat
      OBVIOUS
    <3>2. /\ Cardinality(DownTo(S, x)) \in 1..n /\ Cardinality(DownTo(S, y)) \in 1..n
          /\ x > y => Cardinality(DownTo(S, x)) < Cardinality(DownTo(S, y))
          /\ y > x => Cardinality(DownTo(S, y)) < Cardinality(DownTo(S, x))
      BY RankFalls
    <3> QED
      BY <2>1, <3>1, <3>2
  <2> QED
    BY <2>1
<1>4. rank \in Injection(S, 1..n)
  BY <1>2, <1>3 DEF Injection, IsInjective
<1>5. IsFiniteSet(1..n) /\ Cardinality(1..n) = n
  BY <1>1, FS_Interval
<1>6. rank \in Surjection(S, 1..n)
  BY <1>4, <1>5, FS_Injection
<1>7. \E x \in S : rank[x] = i
  BY <1>6 DEF Surjection
<1> QED
  BY <1>7

\* Descending lists the members of a finite set of numbers, the greatest first.
LEMMA DescendingSorts ==
  ASSUME NEW S, IsFiniteSet(S), S \subseteq Nat
  PROVE  /\ Descending(S) \in Seq(S) /\ Len(Descending(S)) = Cardinality(S)
         /\ \A i, j \in 1..Cardinality(S) : i < j => Descending(S)[i] > Descending(S)[j]
         /\ \A x \in S : \E i \in 1..Cardinality(S) : Descending(S)[i] = x
<1> DEFINE n == Cardinality(S)
           A == Descending(S)
<1>1. n \in Nat
  BY FS_CardinalityType
<1>2. \A i \in 1..n : A[i] \in S /\ Cardinality(DownTo(S, A[i])) = i
  <2>1. ASSUME NEW i \in 1..n PROVE A[i] \in S /\ Cardinality(DownTo(S, A[i])) = i
    <3>1. A[i] = CHOOSE x \in S : Cardinality(DownTo(S, x)) = i
      BY DEF Descending, DownTo
    <3> QED
      BY <3>1, RankedDown
  <2> QED
    BY <2>1
<1>3. A \in Seq(S) /\ Len(A) = n
  <2>1. A \in [1..n -> S]
    BY <1>2 DEF Descending
  <2> QED
    BY <1>1, <2>1
<1>4. ASSUME NEW i \in 1..n, NEW j \in 1..n, i < j PROVE A[i] > A[j]
  <2>1. A[i] \in Nat /\ A[j] \in Nat /\ A[i] \in S /\ A[j] \in S
    BY <1>2
  <2>2. A[j] > A[i] => j < i
    BY <1>2, <2>1, RankFalls
  <2>3. A[j] # A[i]
    BY <1>2, <1>4
  <2> QED
    BY <1>4, <2>1, <2>2, <2>3
<1>5. ASSUME NEW x \in S PROVE \E i \in 1..n : A[i] = x
  <2> DEFINE i == Cardinality(DownTo(S, x))
  <2>1. i \in 1..n
    BY RankFalls
  <2>2. A[i] \in S /\ Cardinality(DownTo(S, A[i])) = i
    BY <1>2, <2>1
  <2>3. A[i] > x \/ x > A[i] \/ A[i] = x
    <3>1. A[i] \in Nat /\ x \in Nat
      BY <2>2
    <3> QED
      BY <3>1
  <2>4. \A y \in S : /\ y > x => Cardinality(DownTo(S, y)) < i
                     /\ x > y => i < Cardinality(DownTo(S, y))
    BY RankFalls
  <2>5. A[i] = x
    <3>1. PICK r \in S : r = A[i] /\ Cardinality(DownTo(S, r)) = i
      BY <2>2
    <3>2. (r > x => i < i) /\ (x > r => i < i)
      BY <2>4, <3>1
    <3>3. ~(i < i)
      BY <1>1, <2>1
    <3> QED
      BY <2>3, <3>1, <3>2, <3>3
  <2> QED
    BY <2>1, <2>5
<1> QED
  BY <1>1, <1>3, <1>4, <1>5
LEMMA Topped ==
  ASSUME NEW S, IsFiniteSet(S), S \subseteq Nat
  PROVE  \E m \in Nat : \A x \in S : x < m
<1> DEFINE n == Cardinality(S)
           A == Ascending(S)
<1>1. n \in Nat
  BY FS_CardinalityType
<1>2. /\ A \in Seq(S) /\ Len(A) = n
      /\ \A i, j \in 1..n : i < j => A[i] < A[j]
      /\ \A x \in S : \E i \in 1..n : A[i] = x
  BY AscendingSorts
<1> HIDE DEF A, n
<1>3. CASE n = 0
  <2>1. 1..n = {}
    BY <1>3
  <2>2. S = {}
    BY <1>2, <2>1
  <2> QED
    BY <2>2
<1>4. CASE n # 0
  <2>0. n \in 1..n
    BY <1>1, <1>4
  <2>1. n \in 1..n /\ A[n] \in Nat
    <3>1. A[n] \in S
      BY <1>2, <2>0
    <3> QED
      BY <2>0, <3>1
  <2>2. ASSUME NEW x \in S PROVE x < A[n] + 1
    <3>1. PICK i \in 1..n : A[i] = x
      BY <1>2
    <3>2. i = n \/ A[i] < A[n]
      BY <1>1, <1>2, <2>1
    <3>3. x \in Nat
      OBVIOUS
    <3> QED
      BY <2>1, <3>1, <3>2, <3>3
  <2>3. A[n] + 1 \in Nat
    BY <2>1
  <2> QED
    BY <2>2, <2>3
<1> QED
  BY <1>3, <1>4

\* What g says of v, by what it says of the levels below.
KeepsAt(g, S, v) == \A k \in S : (k < v /\ Merges(v, k)) => ~g[k]

KeepsBelow(g, S, n) ==
  g \in [S -> BOOLEAN] /\ \A v \in S : v < n => (g[v] <=> KeepsAt(g, S, v))

LEMMA KeepsGrow ==
  ASSUME NEW S, S \subseteq Nat, NEW n \in Nat, NEW g, KeepsBelow(g, S, n)
  PROVE  \E h : KeepsBelow(h, S, n + 1)
<1> DEFINE h == [v \in S |-> IF v = n THEN KeepsAt(g, S, n) ELSE g[v]]
<1>1. h \in [S -> BOOLEAN]
  <2>1. g \in [S -> BOOLEAN]
    BY DEF KeepsBelow
  <2>2. KeepsAt(g, S, n) \in BOOLEAN
    BY DEF KeepsAt
  <2> QED
    BY <2>1, <2>2, Zenon
<1>2. \A v \in S : h[v] = IF v = n THEN KeepsAt(g, S, n) ELSE g[v]
  BY Zenon
<1> HIDE DEF h
<1>3. ASSUME NEW v \in S, v < n + 1 PROVE h[v] <=> KeepsAt(h, S, v)
  <2>0. v \in Nat /\ v <= n
    BY <1>3
  <2>1. \A k \in S : k < v => h[k] = g[k]
    <3>1. \A k \in S : k < v => k # n
      BY <2>0
    <3> QED
      BY <1>2, <3>1, Zenon
  <2>2. KeepsAt(h, S, v) <=> KeepsAt(g, S, v)
    BY <2>1, Zenon DEF KeepsAt
  <2>3. CASE v = n
    BY <1>2, <2>2, <2>3, Zenon
  <2>4. CASE v # n
    <3>1. v < n
      BY <2>0, <2>4
    <3> QED
      BY <1>2, <2>2, <2>4, <3>1, Zenon DEF KeepsBelow
  <2> QED
    BY <2>3, <2>4
<1>4. KeepsBelow(h, S, n + 1)
  BY <1>1, <1>3, Zenon DEF KeepsBelow
<1> QED
  BY <1>4

LEMMA KeepsExist ==
  ASSUME NEW S, S \subseteq Nat, NEW n \in Nat
  PROVE  \E g : KeepsBelow(g, S, n)
<1> DEFINE Bad == {k \in Nat : ~\E g : KeepsBelow(g, S, k)}
<1>1. SUFFICES ASSUME Bad # {} PROVE FALSE
  OBVIOUS
<1>2. PICK k \in Bad : \A j \in Bad : k <= j
  <2>1. Bad \subseteq Nat
    OBVIOUS
  <2> HIDE DEF Bad
  <2> QED
    BY <1>1, <2>1, LeastExists
<1>3. k # 0
  <2>1. KeepsBelow([v \in S |-> TRUE], S, 0)
    <3>1. \A v \in S : ~(v < 0)
      OBVIOUS
    <3>2. [v \in S |-> TRUE] \in [S -> BOOLEAN]
      BY Zenon
    <3> QED
      BY <3>1, <3>2, Zenon DEF KeepsBelow
  <2> QED
    BY <2>1
<1>4. k - 1 \in Nat /\ k - 1 \notin Bad
  BY <1>2, <1>3
<1>5. PICK g : KeepsBelow(g, S, k - 1)
  BY <1>4
<1>6. \E h : KeepsBelow(h, S, (k - 1) + 1)
  BY <1>4, <1>5, KeepsGrow
<1>7. (k - 1) + 1 = k
  BY <1>4
<1> QED
  BY <1>6, <1>7

\* A level is kept when it merges with no kept level between it and the price.
LEMMA AboveIsKernel ==
  ASSUME NEW S, IsFiniteSet(S), S \subseteq Nat
  PROVE  /\ NearestAbove(S) \subseteq S
         /\ \A v \in S : v \in NearestAbove(S) <=>
              \A k \in NearestAbove(S) : k < v => ~Merges(v, k)
<1> DEFINE Keeps(f) == f = [v \in S |-> \A k \in S : (k < v /\ Merges(v, k)) => ~f[k]]
           f == CHOOSE f : Keeps(f)
<1>1. NearestAbove(S) = {v \in S : f[v]}
  BY DEF NearestAbove
<1>2. PICK m \in Nat : \A x \in S : x < m
  BY Topped
<1>3. PICK g : KeepsBelow(g, S, m)
  BY KeepsExist
<1>4. Keeps(g)
  <2>1. g \in [S -> BOOLEAN]
    BY <1>3 DEF KeepsBelow
  <2>2. \A v \in S : g[v] <=> \A k \in S : (k < v /\ Merges(v, k)) => ~g[k]
    BY <1>2, <1>3, Zenon DEF KeepsBelow, KeepsAt
  <2>3. \A v \in S : g[v] = (\A k \in S : (k < v /\ Merges(v, k)) => ~g[k])
    BY <2>1, <2>2, Zenon
  <2> QED
    BY <2>1, <2>3, Zenon
<1>5. Keeps(f)
  <2> HIDE DEF Keeps
  <2> QED
    BY <1>4, Zenon
<1> HIDE DEF f
<1>6. \A v \in S : f[v] <=> \A k \in S : (k < v /\ Merges(v, k)) => ~f[k]
  BY <1>5, Zenon
<1> QED
  BY <1>1, <1>6, Zenon

\* The same, walking down.
KeepsDownAt(g, S, v) == \A k \in S : (k > v /\ Merges(v, k)) => ~g[k]

KeepsFrom(g, S, n) ==
  g \in [S -> BOOLEAN] /\ \A v \in S : v >= n => (g[v] <=> KeepsDownAt(g, S, v))

LEMMA KeepsSink ==
  ASSUME NEW S, S \subseteq Nat, NEW n \in Nat, NEW g, KeepsFrom(g, S, n + 1)
  PROVE  \E h : KeepsFrom(h, S, n)
<1> DEFINE h == [v \in S |-> IF v = n THEN KeepsDownAt(g, S, n) ELSE g[v]]
<1>1. h \in [S -> BOOLEAN]
  <2>1. g \in [S -> BOOLEAN]
    BY DEF KeepsFrom
  <2>2. KeepsDownAt(g, S, n) \in BOOLEAN
    BY DEF KeepsDownAt
  <2> QED
    BY <2>1, <2>2, Zenon
<1>2. \A v \in S : h[v] = IF v = n THEN KeepsDownAt(g, S, n) ELSE g[v]
  BY Zenon
<1> HIDE DEF h
<1>3. ASSUME NEW v \in S, v >= n PROVE h[v] <=> KeepsDownAt(h, S, v)
  <2>0. v \in Nat /\ v >= n
    BY <1>3
  <2>1. \A k \in S : k > v => h[k] = g[k]
    <3>1. \A k \in S : k > v => k # n
      BY <2>0
    <3> QED
      BY <1>2, <3>1, Zenon
  <2>2. KeepsDownAt(h, S, v) <=> KeepsDownAt(g, S, v)
    BY <2>1, Zenon DEF KeepsDownAt
  <2>3. CASE v = n
    BY <1>2, <2>2, <2>3, Zenon
  <2>4. CASE v # n
    <3>1. v >= n + 1
      BY <2>0, <2>4
    <3> QED
      BY <1>2, <2>2, <2>4, <3>1, Zenon DEF KeepsFrom
  <2> QED
    BY <2>3, <2>4
<1>4. KeepsFrom(h, S, n)
  BY <1>1, <1>3, Zenon DEF KeepsFrom
<1> QED
  BY <1>4

LEMMA KeepsDownExist ==
  ASSUME NEW S, S \subseteq Nat, NEW m \in Nat, \A x \in S : x < m
  PROVE  \E g : KeepsFrom(g, S, 0)
<1> DEFINE Good == {k \in Nat : \E g : KeepsFrom(g, S, k)}
<1>1. m \in Good
  <2>1. KeepsFrom([v \in S |-> TRUE], S, m)
    <3>1. \A v \in S : ~(v >= m)
      OBVIOUS
    <3>2. [v \in S |-> TRUE] \in [S -> BOOLEAN]
      BY Zenon
    <3> QED
      BY <3>1, <3>2, Zenon DEF KeepsFrom
  <2> QED
    BY <2>1
<1>2. PICK k \in Good : \A j \in Good : k <= j
  <2>1. Good \subseteq Nat /\ Good # {}
    BY <1>1
  <2> HIDE DEF Good
  <2> QED
    BY <2>1, LeastExists
<1>3. k = 0
  <2>1. SUFFICES ASSUME k # 0 PROVE FALSE
    OBVIOUS
  <2>2. k - 1 \in Nat /\ (k - 1) + 1 = k
    BY <1>2, <2>1
  <2>3. PICK g : KeepsFrom(g, S, (k - 1) + 1)
    BY <1>2, <2>2
  <2>4. \E h : KeepsFrom(h, S, k - 1)
    BY <2>2, <2>3, KeepsSink
  <2>5. k - 1 \in Good
    BY <2>2, <2>4
  <2> QED
    BY <1>2, <2>2, <2>5
<1> QED
  BY <1>2, <1>3

LEMMA BelowIsKernel ==
  ASSUME NEW S, IsFiniteSet(S), S \subseteq Nat
  PROVE  /\ NearestBelow(S) \subseteq S
         /\ \A v \in S : v \in NearestBelow(S) <=>
              \A k \in NearestBelow(S) : k > v => ~Merges(v, k)
<1> DEFINE Keeps(f) == f = [v \in S |-> \A k \in S : (k > v /\ Merges(v, k)) => ~f[k]]
           f == CHOOSE f : Keeps(f)
<1>1. NearestBelow(S) = {v \in S : f[v]}
  BY DEF NearestBelow
<1>2. PICK m \in Nat : \A x \in S : x < m
  BY Topped
<1>3. PICK g : KeepsFrom(g, S, 0)
  BY <1>2, KeepsDownExist
<1>4. Keeps(g)
  <2>1. g \in [S -> BOOLEAN]
    BY <1>3 DEF KeepsFrom
  <2>0. \A v \in S : v >= 0
    OBVIOUS
  <2>2. \A v \in S : g[v] <=> \A k \in S : (k > v /\ Merges(v, k)) => ~g[k]
    BY <2>0, <1>3, Zenon DEF KeepsFrom, KeepsDownAt
  <2>3. \A v \in S : g[v] = (\A k \in S : (k > v /\ Merges(v, k)) => ~g[k])
    BY <2>1, <2>2, Zenon
  <2> QED
    BY <2>1, <2>3, Zenon
<1>5. Keeps(f)
  <2> HIDE DEF Keeps
  <2> QED
    BY <1>4, Zenon
<1> HIDE DEF f
<1>6. \A v \in S : f[v] <=> \A k \in S : (k > v /\ Merges(v, k)) => ~f[k]
  BY <1>5, Zenon
<1> QED
  BY <1>1, <1>6, Zenon

-----------------------------------------------------------------------------
(* The walls and the supports a plan sees.                                  *)

\* s are the levels of S that a plan keeps, outwards: its first is the nearest,
\* and no level is between one of them and the next, except those that merge with
\* the nearer one.
WalkUp(s, S) ==
  /\ s \in Seq(S)
  /\ S # {} => s # <<>> /\ \A l \in S : s[1] <= l
  /\ \A i \in 1..Len(s), l \in S :
       (l > s[i] /\ ~Merges(l, s[i])) => i < Len(s) /\ s[i + 1] <= l

WalkDown(s, S) ==
  /\ s \in Seq(S)
  /\ S # {} => s # <<>> /\ \A l \in S : s[1] >= l
  /\ \A i \in 1..Len(s), l \in S :
       (l < s[i] /\ ~Merges(l, s[i])) => i < Len(s) /\ s[i + 1] >= l

LEMMA MergesNearer ==
  ASSUME NEW k \in Nat, NEW w \in Nat, NEW l \in Nat, k <= w, w < l, Merges(l, k)
  PROVE  Merges(l, w)
BY DEF Merges

LEMMA NearestWalk ==
  ASSUME NEW S, IsFiniteSet(S), S \subseteq Nat
  PROVE  WalkUp(Ascending(NearestAbove(S)), S)
<1> DEFINE K == NearestAbove(S)
           s == Ascending(K)
           n == Cardinality(K)
<1>1. K \subseteq S /\ \A v \in S : v \in K <=> \A k \in K : k < v => ~Merges(v, k)
  BY AboveIsKernel
<1>2. IsFiniteSet(K) /\ K \subseteq Nat
  BY <1>1, FS_Subset
<1> HIDE DEF K
<1>3. /\ s \in Seq(K) /\ Len(s) = n
      /\ \A i, j \in 1..n : i < j => s[i] < s[j]
      /\ \A x \in K : \E i \in 1..n : s[i] = x
  BY <1>2, AscendingSorts
<1>4. n \in Nat
  BY <1>2, FS_CardinalityType
<1> HIDE DEF s, n
<1>5. \A i \in 1..n : s[i] \in K /\ s[i] \in S /\ s[i] \in Nat
  <2>1. \A i \in 1..n : s[i] \in K
    BY <1>3
  <2> QED
    BY <1>1, <1>2, <2>1
<1>6. s \in Seq(S)
  <2>1. s \in [1..n -> S]
    <3>1. DOMAIN s = 1..n /\ s = [i \in 1..n |-> s[i]]
      BY <1>3
    <3> QED
      BY <1>5, <3>1
  <2> QED
    BY <1>4, <2>1
<1>7. ASSUME S # {} PROVE s # <<>> /\ \A l \in S : s[1] <= l
  <2>1. PICK x \in S : \A y \in S : x <= y
    BY <1>7, LeastExists
  <2>2. x \in K
    <3>1. \A k \in K : ~(k < x)
      BY <1>1, <2>1
    <3> QED
      BY <1>1, <3>1, Zenon
  <2>3. PICK i \in 1..n : s[i] = x
    BY <1>3, <2>2
  <2>4. 1 \in 1..n /\ (i = 1 \/ 1 < i)
    BY <1>4
  <2>5. s[1] <= s[i]
    <3>1. s[1] \in Nat /\ s[i] \in Nat
      BY <1>5, <2>4
    <3> QED
      BY <1>3, <2>4, <3>1
  <2>6. \A l \in S : s[1] <= l
    <3>1. s[1] \in Nat /\ x \in Nat /\ s[1] <= x
      BY <1>5, <2>3, <2>4, <2>5
    <3>2. \A l \in S : l \in Nat /\ x <= l
      BY <2>1
    <3> QED
      BY <3>1, <3>2
  <2>7. s # <<>>
    <3>1. Len(s) # 0
      BY <1>3, <1>4, <2>4
    <3> QED
      BY <3>1
  <2> QED
    BY <2>6, <2>7
<1>8. ASSUME NEW i \in 1..n, NEW l \in S, l > s[i], ~Merges(l, s[i])
      PROVE  i < n /\ s[i + 1] <= l
  <2>0. s[i] \in Nat /\ l \in Nat
    BY <1>5
  <2>1. \E k \in K : s[i] < k /\ k <= l
    <3>1. CASE l \in K
      BY <1>8, <2>0, <3>1
    <3>2. CASE l \notin K
      <4>1. PICK k \in K : k < l /\ Merges(l, k)
        BY <1>1, <3>2, Zenon
      <4>2. k \in Nat
        BY <1>2
      <4>3. ~(k <= s[i])
        BY <1>8, <2>0, <4>1, <4>2, MergesNearer
      <4> QED
        BY <2>0, <4>1, <4>2, <4>3
    <3> QED
      BY <3>1, <3>2
  <2>2. PICK k \in K : s[i] < k /\ k <= l
    BY <2>1
  <2>3. PICK j \in 1..n : s[j] = k
    BY <1>3
  <2>4. i < j
    <3>1. j < i => s[j] < s[i]
      BY <1>3
    <3>2. k \in Nat /\ j # i /\ ~(s[j] < s[i])
      BY <1>2, <2>0, <2>2, <2>3
    <3> QED
      BY <1>4, <3>1, <3>2
  <2>5. i + 1 \in 1..n /\ i < n /\ (i + 1 = j \/ i + 1 < j)
    BY <1>4, <2>4
  <2>6. s[i + 1] <= s[j]
    <3>1. s[i + 1] \in Nat /\ s[j] \in Nat
      BY <1>5, <2>5
    <3> QED
      BY <1>3, <2>5, <3>1
  <2>7. s[i + 1] <= l
    <3>1. s[i + 1] \in Nat /\ k \in Nat
      BY <1>5, <1>2, <2>5
    <3> QED
      BY <2>0, <2>2, <2>3, <2>6, <3>1
  <2> QED
    BY <2>5, <2>7
<1>9. WalkUp(s, S)
  BY <1>3, <1>6, <1>7, <1>8 DEF WalkUp
<1> QED
  BY <1>9 DEF s, K
LEMMA GreatestOf ==
  ASSUME NEW S, IsFiniteSet(S), S \subseteq Nat, S # {}
  PROVE  \E x \in S : \A y \in S : x >= y
<1> DEFINE n == Cardinality(S)
           D == Descending(S)
<1>1. /\ n \in Nat
      /\ D \in Seq(S) /\ Len(D) = n
      /\ \A i, j \in 1..n : i < j => D[i] > D[j]
      /\ \A x \in S : \E i \in 1..n : D[i] = x
  BY DescendingSorts, FS_CardinalityType
<1> HIDE DEF D, n
<1>2. PICK z \in S : TRUE
  OBVIOUS
<1>3. 1 \in 1..n
  <2>1. PICK i \in 1..n : D[i] = z
    BY <1>1, <1>2
  <2> QED
    BY <1>1, <2>1
<1>4. D[1] \in S
  BY <1>1, <1>3
<1>5. ASSUME NEW y \in S PROVE D[1] >= y
  <2>1. PICK j \in 1..n : D[j] = y
    BY <1>1
  <2>2. j = 1 \/ 1 < j
    BY <1>1, <2>1
  <2>3. j = 1 \/ D[1] > D[j]
    BY <1>1, <1>3, <2>2
  <2>4. D[1] \in Nat /\ y \in Nat
    BY <1>4
  <2> QED
    BY <2>1, <2>3, <2>4
<1> QED
  BY <1>4, <1>5

LEMMA MergesNearerDown ==
  ASSUME NEW k \in Nat, NEW w \in Nat, NEW l \in Nat, k >= w, w > l, Merges(l, k)
  PROVE  Merges(l, w)
BY DEF Merges

LEMMA NearestWalkDown ==
  ASSUME NEW S, IsFiniteSet(S), S \subseteq Nat
  PROVE  WalkDown(Descending(NearestBelow(S)), S)
<1> DEFINE K == NearestBelow(S)
           s == Descending(K)
           n == Cardinality(K)
<1>1. K \subseteq S /\ \A v \in S : v \in K <=> \A k \in K : k > v => ~Merges(v, k)
  BY BelowIsKernel
<1>2. IsFiniteSet(K) /\ K \subseteq Nat
  BY <1>1, FS_Subset
<1> HIDE DEF K
<1>3. /\ s \in Seq(K) /\ Len(s) = n
      /\ \A i, j \in 1..n : i < j => s[i] > s[j]
      /\ \A x \in K : \E i \in 1..n : s[i] = x
  BY <1>2, DescendingSorts
<1>4. n \in Nat
  BY <1>2, FS_CardinalityType
<1> HIDE DEF s, n
<1>5. \A i \in 1..n : s[i] \in K /\ s[i] \in S /\ s[i] \in Nat
  <2>1. \A i \in 1..n : s[i] \in K
    BY <1>3
  <2> QED
    BY <1>1, <1>2, <2>1
<1>6. s \in Seq(S)
  <2>1. s \in [1..n -> S]
    <3>1. DOMAIN s = 1..n /\ s = [i \in 1..n |-> s[i]]
      BY <1>3
    <3> QED
      BY <1>5, <3>1
  <2> QED
    BY <1>4, <2>1
<1>7. ASSUME S # {} PROVE s # <<>> /\ \A l \in S : s[1] >= l
  <2>1. PICK x \in S : \A y \in S : x >= y
    BY <1>7, GreatestOf
  <2>2. x \in K
    <3>1. \A k \in K : ~(k > x)
      BY <1>1, <2>1
    <3> QED
      BY <1>1, <3>1, Zenon
  <2>3. PICK i \in 1..n : s[i] = x
    BY <1>3, <2>2
  <2>4. 1 \in 1..n /\ (i = 1 \/ 1 < i)
    BY <1>4
  <2>5. s[1] >= s[i]
    <3>1. s[1] \in Nat /\ s[i] \in Nat
      BY <1>5, <2>4
    <3> QED
      BY <1>3, <2>4, <3>1
  <2>6. \A l \in S : s[1] >= l
    <3>1. s[1] \in Nat /\ x \in Nat /\ s[1] >= x
      BY <1>5, <2>3, <2>4, <2>5
    <3>2. \A l \in S : l \in Nat /\ x >= l
      BY <2>1
    <3> QED
      BY <3>1, <3>2
  <2>7. s # <<>>
    <3>1. Len(s) # 0
      BY <1>3, <1>4, <2>4
    <3> QED
      BY <3>1
  <2> QED
    BY <2>6, <2>7
<1>8. ASSUME NEW i \in 1..n, NEW l \in S, l < s[i], ~Merges(l, s[i])
      PROVE  i < n /\ s[i + 1] >= l
  <2>0. s[i] \in Nat /\ l \in Nat
    BY <1>5
  <2>1. \E k \in K : s[i] > k /\ k >= l
    <3>1. CASE l \in K
      BY <1>8, <2>0, <3>1
    <3>2. CASE l \notin K
      <4>1. PICK k \in K : k > l /\ Merges(l, k)
        BY <1>1, <3>2, Zenon
      <4>2. k \in Nat
        BY <1>2
      <4>3. ~(k >= s[i])
        BY <1>8, <2>0, <4>1, <4>2, MergesNearerDown
      <4> QED
        BY <2>0, <4>1, <4>2, <4>3
    <3> QED
      BY <3>1, <3>2
  <2>2. PICK k \in K : s[i] > k /\ k >= l
    BY <2>1
  <2>3. PICK j \in 1..n : s[j] = k
    BY <1>3
  <2>4. i < j
    <3>1. j < i => s[j] > s[i]
      BY <1>3
    <3>2. k \in Nat /\ j # i /\ ~(s[j] > s[i])
      BY <1>2, <2>0, <2>2, <2>3
    <3> QED
      BY <1>4, <3>1, <3>2
  <2>5. i + 1 \in 1..n /\ i < n /\ (i + 1 = j \/ i + 1 < j)
    BY <1>4, <2>4
  <2>6. s[i + 1] >= s[j]
    <3>1. s[i + 1] \in Nat /\ s[j] \in Nat
      BY <1>5, <2>5
    <3> QED
      BY <1>3, <2>5, <3>1
  <2>7. s[i + 1] >= l
    <3>1. s[i + 1] \in Nat /\ k \in Nat
      BY <1>5, <1>2, <2>5
    <3> QED
      BY <2>0, <2>2, <2>3, <2>6, <3>1
  <2> QED
    BY <2>5, <2>7
<1>9. WalkDown(s, S)
  BY <1>3, <1>6, <1>7, <1>8 DEF WalkDown
<1> QED
  BY <1>9 DEF s, K

-----------------------------------------------------------------------------
(* Numbers of the plan.                                                    *)

Paces == {Tuning[pace] : pace \in DOMAIN Tuning}

LEMMA PaceFacts ==
  ASSUME NEW t \in Paces
  PROVE  /\ t.stop \in Nat /\ t.root \in Nat /\ t.cap \in Nat /\ t.move \in Nat
         /\ t.move >= 300 /\ t.cap <= 1500
         /\ 10 * t.root <= 27000 * t.stop
  BY DEF Paces, Tuning

\* A fraction of a price, rounded down.
FloorOf(x, bp, y) ==
  y \in Nat /\ 10000 * y <= x * bp /\ x * bp < 10000 * y + 10000

LEMMA TimesBounds ==
  ASSUME NEW x \in Nat, NEW bp \in Nat
  PROVE  FloorOf(x, bp, Times(x, bp))
<1>1. x * bp \in Nat
  OBVIOUS
<1> QED
  BY <1>1, SMT DEF Times, FloorOf

LEMMA TimesIsNat ==
  ASSUME NEW x \in Nat, NEW bp \in Nat
  PROVE  Times(x, bp) \in Nat
<1>1. x * bp \in Nat
  OBVIOUS
<1> QED
  BY <1>1, SMT DEF Times

LEMMA TimesAreNat == \A x, bp \in Nat : Times(x, bp) \in Nat
BY TimesIsNat

LEMMA UnderIsNat ==
  ASSUME NEW w \in Nat
  PROVE  Under(w) \in Nat
BY SMT DEF Under, Times

LEMMA UnderBounds ==
  ASSUME NEW w \in Nat
  PROVE  10000 * Under(w) <= 9950 * w /\ 9950 * w < 10000 * Under(w) + 10000
BY SMT DEF Under, Times

\* The rung the ladder stops at is one of its first three, so it has a least one.
LEMMA LeastRung ==
  ASSUME NEW S, S \subseteq 1..3, S # {}
  PROVE  Min(S) \in S
<1>1. \A x \in S : x \in Int /\ (x = 1 \/ x = 2 \/ x = 3)
  OBVIOUS
<1>2. \E x \in S : \A y \in S : x =< y
  <2>1. CASE 1 \in S
    BY <1>1, <2>1
  <2>2. CASE 1 \notin S /\ 2 \in S
    BY <1>1, <2>2
  <2>3. CASE 1 \notin S /\ 2 \notin S
    <3>1. \A x \in S : x = 3
      BY <1>1, <2>3
    <3>2. PICK x \in S : TRUE
      OBVIOUS
    <3>3. x = 3 /\ x =< x
      BY <3>1
    <3> QED
      BY <3>1, <3>3
  <2> QED
    BY <2>1, <2>2, <2>3
<1> QED
  BY <1>2, Zenon DEF Min

LEMMA LongLadderPlan ==
  ASSUME NEW price \in Nat, NEW wall \in Seq(Nat), NEW gap \in Nat, NEW cap \in Nat,
         NEW t \in Paces
  PROVE  \/ LongLadder(price, wall, gap, cap, t) = LongNoTrade(price, wall, gap)
         \/ \E i \in 1..Len(wall) :
              /\ LongLadder(price, wall, gap, cap, t) = LongBreakout(wall, i, gap, cap)
              /\ LongLeg(wall, i, cap, t)
              /\ ~LongFar(price, wall, i, cap)
<1> DEFINE S == {i \in 1..Lesser(3, Len(wall)) :
                   LongFar(price, wall, i, cap) \/ LongLeg(wall, i, cap, t)}
           m == Min(S)
<1>1. CASE S = {} \/ LongFar(price, wall, m, cap)
  BY <1>1, Zenon DEF LongLadder
<1>2. CASE S # {} /\ ~LongFar(price, wall, m, cap)
  <2>1. S \subseteq 1..3 /\ S \subseteq 1..Len(wall)
    BY DEF Lesser
  <2>2. m \in S
    BY <1>2, <2>1, LeastRung
  <2>3. LongLadder(price, wall, gap, cap, t) = LongBreakout(wall, m, gap, cap)
    BY <1>2, Zenon DEF LongLadder
  <2>4. m \in 1..Len(wall) /\ LongLeg(wall, m, cap, t)
    BY <1>2, <2>1, <2>2
  <2> QED
    BY <1>2, <2>3, <2>4, Zenon
<1> QED
  BY <1>1, <1>2

\* Room of at least 3% to a wall leaves a target under it that is over the price.
LEMMA RoomUnderWall ==
  ASSUME NEW price \in Nat, price >= 10000, NEW wall \in Nat, 10000 * wall >= 10300 * price
  PROVE  Under(wall) \in Nat /\ Under(wall) >= price + 100
BY SMT DEF Under, Times

LEMMA RoomBelowWall ==
  ASSUME NEW price \in Nat, price >= 10000, NEW wall \in Nat, NEW t \in Paces,
         10000 * (wall - price) >= t.move * price
  PROVE  Under(wall) \in Nat /\ Under(wall) >= price + 100
<1>1. t.move * price >= 300 * price
  BY PaceFacts
<1>2. 10000 * wall >= 10300 * price
  BY <1>1, PaceFacts
<1> QED
  BY <1>2, RoomUnderWall

\* The budget is worth a width.
Affords(price, cap, width) == cap * price >= 10000 * width

LEMMA AffordsNothing ==
  ASSUME NEW price \in Nat, NEW cap \in Nat
  PROVE  0 \in Nat /\ 0 <= 100 /\ Affords(price, cap, 0)
<1>1. cap * price \in Nat
  OBVIOUS
<1> QED
  BY <1>1 DEF Affords

LEMMA CapAbove ==
  ASSUME NEW price \in Nat, NEW cap \in Nat, NEW width \in Nat,
         Affords(price, cap, width)
  PROVE  /\ Times(price, 10000 + cap) \in Nat
         /\ Times(price, 10000 + cap) >= price + width
         /\ 10000 * (Times(price, 10000 + cap) - price) <= cap * price
         /\ cap * price \in Nat
<1>1. cap * price \in Nat
  OBVIOUS
<1>2. price * (10000 + cap) = 10000 * price + cap * price
  OBVIOUS
<1>3. /\ Times(price, 10000 + cap) \in Nat
      /\ 10000 * Times(price, 10000 + cap) <= price * (10000 + cap)
      /\ price * (10000 + cap) < 10000 * Times(price, 10000 + cap) + 10000
  <2> DEFINE bp == 10000 + cap
  <2>1. bp \in Nat
    OBVIOUS
  <2> HIDE DEF bp
  <2>2. /\ Times(price, bp) \in Nat
        /\ 10000 * Times(price, bp) <= price * bp
        /\ price * bp < 10000 * Times(price, bp) + 10000
    <3>1. FloorOf(price, bp, Times(price, bp))
      BY <2>1, TimesBounds
    <3> QED
      BY <3>1 DEF FloorOf
  <2> QED
    BY <2>2 DEF bp
<1> DEFINE a == cap * price
           x == Times(price, 10000 + cap)
<1>4. /\ a \in Nat /\ x \in Nat /\ 10000 * x <= 10000 * price + a
      /\ 10000 * price + a < 10000 * x + 10000
  BY <1>1, <1>2, <1>3
<1>6. a >= 10000 * width
  BY DEF Affords
<1>5. x >= price + width /\ 10000 * (x - price) <= a
  <2> HIDE DEF a, x
  <2> QED
    BY <1>4, <1>6
<1> QED
  BY <1>4, <1>5

\* The reach of a capped target, with no width asked for.
LEMMA CapReach ==
  ASSUME NEW price \in Nat, NEW cap \in Nat
  PROVE  /\ Times(price, 10000 + cap) \in Nat
         /\ 10000 * (Times(price, 10000 + cap) - price) <= cap * price
<1>1. 0 \in Nat /\ Affords(price, cap, 0)
  BY AffordsNothing
<1> QED
  BY <1>1, CapAbove

\* Three quarters of a move of 3%.
LEMMA Gains ==
  ASSUME NEW w \in Nat, w >= 8500, NEW d \in Int, NEW move \in Nat, move >= 300,
         40000 * d >= 3 * move * w
  PROVE  d >= 100
<1>1. move * w >= 300 * w /\ move * w \in Nat
  OBVIOUS
<1>2. 3 * move * w = 3 * (move * w)
  OBVIOUS
<1> QED
  BY <1>1, <1>2

LEMMA BelowWall ==
  ASSUME NEW w \in Nat
  PROVE  Times(w, 9980) \in Nat
BY SMT DEF Times

LEMMA LongLegTargetIsNat ==
  ASSUME NEW wall \in Seq(Nat), NEW i \in 1..Len(wall), NEW cap \in Nat
  PROVE  LongLegTarget(wall, i, cap) \in Nat
<1> DEFINE bp == 10000 + cap
<1>1. wall[i] \in Nat /\ bp \in Nat
  OBVIOUS
<1>2. i < Len(wall) => wall[i + 1] \in Nat
  OBVIOUS
<1>3. LongLegTarget(wall, i, cap) =
        IF i < Len(wall) THEN Under(wall[i + 1]) ELSE Times(wall[i], bp)
  BY DEF LongLegTarget
<1> HIDE DEF bp
<1> QED
  BY <1>1, <1>2, <1>3, TimesIsNat, UnderIsNat, Zenon

LEMMA LongLegGains ==
  ASSUME NEW wall \in Seq(Nat), NEW i \in 1..Len(wall), NEW cap \in Nat, NEW t \in Paces,
         wall[i] >= 10000, LongLeg(wall, i, cap, t)
  PROVE  LongLegTarget(wall, i, cap) >= wall[i] + 100
<1> DEFINE w == wall[i]
           d == LongLegTarget(wall, i, cap) - wall[i]
           move == t.move
<1>1. w \in Nat /\ w >= 10000
  <2>1. wall[i] \in Nat
    OBVIOUS
  <2> QED
    BY <2>1
<1>2. LongLegTarget(wall, i, cap) \in Nat
  BY LongLegTargetIsNat
<1>3. move \in Nat /\ move >= 300
  BY PaceFacts
<1>4. 40000 * d >= 3 * move * w
  BY DEF LongLeg
<1>5. d \in Int
  BY <1>1, <1>2
<1>6. d >= 100
  <2> HIDE DEF w, d, move
  <2> QED
    BY <1>1, <1>3, <1>4, <1>5, Gains
<1> QED
  BY <1>1, <1>2, <1>6

LEMMA LongLegReach ==
  ASSUME NEW wall \in Seq(Nat), NEW i \in 1..Len(wall), NEW cap \in Nat,
         ~LongFloating(wall, i, cap)
  PROVE  10000 * (LongLegTarget(wall, i, cap) - wall[i]) <= cap * wall[i]
<1> DEFINE w == wall[i]
           next == wall[i + 1]
<1>1. w \in Nat
  OBVIOUS
<1>2. CASE i < Len(wall)
  <2>0. next \in Nat
    BY <1>2
  <2>1. next * 9950 <= w * (10000 + cap)
    BY <1>1, <1>2, <2>0, SMTT(30) DEF LongFloating
  <2>2. 10000 * (Under(next) - w) <= cap * w
    <3> HIDE DEF w, next
    <3>1. w * (10000 + cap) = 10000 * w + cap * w /\ cap * w \in Nat
      BY <1>1
    <3>2. Under(next) \in Nat /\ 10000 * Under(next) <= 9950 * next
      BY <2>0, SMT DEF Under, Times
    <3> QED
      BY <1>1, <2>0, <2>1, <3>1, <3>2
  <2>3. LongLegTarget(wall, i, cap) = Under(next)
    BY <1>2 DEF LongLegTarget
  <2> QED
    BY <2>2, <2>3
<1>3. CASE ~(i < Len(wall))
  <2>1. 10000 * (Times(w, 10000 + cap) - w) <= cap * w
    <3> HIDE DEF w
    <3> QED
      BY <1>1, CapReach
  <2>2. LongLegTarget(wall, i, cap) = Times(w, 10000 + cap)
    BY <1>3 DEF LongLegTarget
  <2> QED
    BY <2>1, <2>2
<1> QED
  BY <1>2, <1>3

LEMMA UnderIsUnder ==
  ASSUME NEW w \in Nat
  PROVE  Under(w) \in Nat /\ Under(w) <= w
<1>1. Under(w) \in Nat /\ 10000 * Under(w) <= 9950 * w
  BY UnderIsNat, UnderBounds
<1> QED
  BY <1>1

\* Every wall is a level it was made of.
LEMMA WalkMembers ==
  ASSUME NEW S, NEW s, s \in Seq(S)
  PROVE  /\ \A i \in 1..Len(s) : s[i] \in S
         /\ S \subseteq Nat => s \in Seq(Nat)
<1>1. \A i \in 1..Len(s) : s[i] \in S
  OBVIOUS
<1>2. ASSUME S \subseteq Nat PROVE s \in Seq(Nat)
  <2>1. s \in [1..Len(s) -> S] /\ Len(s) \in Nat
    OBVIOUS
  <2>2. s \in [1..Len(s) -> Nat]
    BY <1>2, <2>1
  <2> QED
    BY <2>1, <2>2
<1> QED
  BY <1>1, <1>2

-----------------------------------------------------------------------------
(* The shapes of a long plan.                                              *)

\* The target of an immediate long plan.
LongRoom(price, wall, cap) ==
  IF wall = <<>> THEN Times(price, 10000 + cap)
  ELSE Lesser(Under(wall[1]), Times(price, 10000 + cap))

HasLongRoom(price, wall, t) == wall # <<>> => 10000 * (wall[1] - price) >= t.move * price

LEMMA LongShapes ==
  ASSUME NEW price \in Nat, NEW wall \in Seq(Nat), NEW gap \in Nat, NEW cap \in Nat,
         NEW t \in Paces, NEW countertrend \in BOOLEAN, NEW spent \in BOOLEAN
  PROVE  LET g == LongGeometry(price, wall, gap, cap, t, countertrend, spent)
         IN  \/ /\ g = LongImmediate(price, gap, LongRoom(price, wall, cap))
                /\ HasLongRoom(price, wall, t)
             \/ wall # <<>> /\ g = LongNoTrade(price, wall, gap)
             \/ \E i \in 1..Len(wall) :
                  /\ g = LongBreakout(wall, i, gap, cap)
                  /\ LongLeg(wall, i, cap, t)
                  /\ ~LongFar(price, wall, i, cap)
                  /\ ~countertrend /\ ~spent
<1> DEFINE g == LongGeometry(price, wall, gap, cap, t, countertrend, spent)
           room == 10000 * (wall[1] - price) >= t.move * price
<1>1. CASE wall = <<>>
  BY <1>1 DEF LongGeometry, LongRoom, HasLongRoom
<1>2. CASE wall # <<>> /\ room
  BY <1>2 DEF LongGeometry, LongRoom, HasLongRoom
<1>3. CASE wall # <<>> /\ ~room /\ (countertrend \/ spent)
  BY <1>3 DEF LongGeometry
<1>4. CASE wall # <<>> /\ ~room /\ ~(countertrend \/ spent)
  <2>1. g = LongLadder(price, wall, gap, cap, t)
    BY <1>4 DEF LongGeometry
  <2> QED
    BY <1>4, <2>1, LongLadderPlan
<1> QED
  BY <1>1, <1>2, <1>3, <1>4

LEMMA LongRoomFacts ==
  ASSUME NEW price \in Nat, price >= 10000, NEW wall \in Seq(Nat), NEW cap \in Nat,
         NEW t \in Paces, HasLongRoom(price, wall, t),
         NEW width \in Nat, width <= 100, Affords(price, cap, width)
  PROVE  /\ LongRoom(price, wall, cap) \in Nat
         /\ LongRoom(price, wall, cap) >= price + width
         /\ 10000 * (LongRoom(price, wall, cap) - price) <= cap * price
         /\ wall # <<>> => LongRoom(price, wall, cap) <= wall[1]
<1> DEFINE full == Times(price, 10000 + cap)
           room == LongRoom(price, wall, cap)
<1>1. /\ full \in Nat /\ cap * price \in Nat /\ full >= price + width
      /\ 10000 * (full - price) <= cap * price
  BY CapAbove
<1>2. CASE wall = <<>>
  <2>1. room = full
    BY <1>2 DEF LongRoom
  <2> QED
    BY <1>1, <1>2, <2>1
<1>3. CASE wall # <<>>
  <2> DEFINE w == wall[1]
             under == Under(w)
  <2>1. w \in Nat /\ 10000 * (w - price) >= t.move * price
    BY <1>3 DEF HasLongRoom
  <2>2. room = Lesser(under, full)
    BY <1>3 DEF LongRoom
  <2>3. /\ room \in Nat /\ room >= price + width
        /\ 10000 * (room - price) <= cap * price
        /\ room <= w
    <3> HIDE DEF full, room, w
    <3>1. under \in Nat /\ under >= price + 100
      BY <2>1, RoomBelowWall
    <3>2. 10000 * under <= 9950 * w
      BY <2>1, UnderBounds
    <3> HIDE DEF under
    <3>3. room \in Nat /\ room >= price + width /\ room <= under /\ room <= full
      BY <1>1, <2>2, <3>1 DEF Lesser
    <3>4. room <= w
      BY <2>1, <3>1, <3>2, <3>3
    <3>5. 10000 * (room - price) <= cap * price
      <4> DEFINE budget == cap * price
      <4>1. budget \in Nat /\ 10000 * (full - price) <= budget
        BY <1>1
      <4> HIDE DEF budget
      <4>2. 10000 * (room - price) <= budget
        BY <1>1, <3>3, <4>1
      <4> QED
        BY <4>2 DEF budget
    <3> QED
      BY <3>3, <3>4, <3>5
  <2> QED
    BY <2>3
<1> QED
  BY <1>2, <1>3

LEMMA LongRoomIsNat ==
  ASSUME NEW price \in Nat, NEW wall \in Seq(Nat), NEW cap \in Nat
  PROVE  LongRoom(price, wall, cap) \in Nat
<1> DEFINE bp == 10000 + cap
           full == Times(price, bp)
<1>1. bp \in Nat
  OBVIOUS
<1>2. full \in Nat
  <2> HIDE DEF bp
  <2> QED
    BY <1>1, TimesAreNat
<1>3. CASE wall = <<>>
  BY <1>2, <1>3 DEF LongRoom
<1>4. CASE wall # <<>>
  <2> DEFINE w == wall[1]
             under == Under(w)
  <2>1. w \in Nat
    BY <1>4
  <2> HIDE DEF w, full
  <2>2. under \in Nat
    BY <2>1, UnderIsNat
  <2>3. LongRoom(price, wall, cap) = Lesser(under, full)
    BY <1>4 DEF LongRoom, w, full
  <2> HIDE DEF under
  <2> QED
    BY <1>2, <2>2, <2>3 DEF Lesser
<1> QED
  BY <1>3, <1>4

\* A price with room to the first wall for a budget of a width.
RoomFor(price, wall, cap, t, width) ==
  /\ price >= 10000 /\ HasLongRoom(price, wall, t)
  /\ width <= 100 /\ Affords(price, cap, width)

LEMMA LongRoomIsWide ==
  ASSUME NEW price \in Nat, NEW wall \in Seq(Nat), NEW cap \in Nat, NEW t \in Paces,
         NEW width \in Nat, RoomFor(price, wall, cap, t, width)
  PROVE  LongRoom(price, wall, cap) \in Nat /\ LongRoom(price, wall, cap) >= price + width
<1>1. /\ price >= 10000 /\ HasLongRoom(price, wall, t)
      /\ width <= 100 /\ Affords(price, cap, width)
  BY DEF RoomFor
<1> QED
  BY <1>1, LongRoomFacts

LEMMA LongRungFacts ==
  ASSUME NEW price \in Nat, price >= 10000, NEW wall \in Seq(Nat),
         \A i \in 1..Len(wall) : wall[i] > price,
         NEW cap \in Nat, NEW t \in Paces, NEW i \in 1..Len(wall), LongLeg(wall, i, cap, t)
  PROVE  /\ wall[i] \in Nat /\ wall[i] > price
         /\ LongLegTarget(wall, i, cap) \in Nat
         /\ LongLegTarget(wall, i, cap) >= wall[i] + 100
         /\ 10000 * (LongLegTarget(wall, i, cap) - wall[i]) <= cap * wall[i]
<1>1. wall[i] \in Nat /\ wall[i] > price /\ wall[i] >= 10000
  <2>1. wall[i] \in Nat /\ wall[i] > price
    OBVIOUS
  <2> QED
    BY <2>1
<1>2. LongLegTarget(wall, i, cap) \in Nat
  BY LongLegTargetIsNat
<1>3. LongLegTarget(wall, i, cap) >= wall[i] + 100
  BY <1>1, LongLegGains
<1>4. 10000 * (LongLegTarget(wall, i, cap) - wall[i]) <= cap * wall[i]
  BY LongLegReach DEF LongLeg
<1> QED
  BY <1>1, <1>2, <1>3, <1>4

\* A wall above the price that a leg of the ladder starts from.
RungFor(price, wall, i, cap, t) ==
  /\ price >= 10000 /\ LongLeg(wall, i, cap, t)
  /\ \A n \in 1..Len(wall) : wall[n] > price

\* A rung whose leg gains a cent at least.
WideRung(wall, i, cap) ==
  /\ wall[i] \in Nat /\ wall[i] >= 10000
  /\ LongLegTarget(wall, i, cap) \in Nat
  /\ LongLegTarget(wall, i, cap) >= wall[i] + 100

LEMMA LongRungIsWide ==
  ASSUME NEW price \in Nat, NEW wall \in Seq(Nat), NEW i \in 1..Len(wall),
         NEW cap \in Nat, NEW t \in Paces, RungFor(price, wall, i, cap, t)
  PROVE  WideRung(wall, i, cap)
<1>1. /\ price >= 10000 /\ LongLeg(wall, i, cap, t)
      /\ \A n \in 1..Len(wall) : wall[n] > price
  BY DEF RungFor
<1>2. /\ wall[i] \in Nat /\ wall[i] > price
      /\ LongLegTarget(wall, i, cap) \in Nat
      /\ LongLegTarget(wall, i, cap) >= wall[i] + 100
  BY <1>1, LongRungFacts
<1> QED
  BY <1>1, <1>2 DEF WideRung

\* A wall with room for a stop of a width under it.
StopFor(w, gap, width) == w >= 10000 /\ width <= 100 /\ gap >= width

\* A breakout stop is at least a width under its entry.
LEMMA LongBreakoutStop ==
  ASSUME NEW wall \in Seq(Nat), NEW i \in 1..Len(wall), NEW gap \in Nat,
         NEW cap \in Nat, NEW width \in Nat, StopFor(wall[i], gap, width)
  PROVE  /\ LongBreakout(wall, i, gap, cap).stop \in Nat
         /\ wall[i] - LongBreakout(wall, i, gap, cap).stop >= width
<1> DEFINE w == wall[i]
           near == Times(w, 9980)
           stop == Greater(Cent, Lesser(near, w - gap))
<1>1. w \in Nat /\ w >= 10000 /\ width <= 100 /\ gap >= width
  BY DEF StopFor
<1>2. near \in Nat
  <2> HIDE DEF w
  <2> QED
    BY <1>1, SMT DEF Times
<1>3. LongBreakout(wall, i, gap, cap).stop = stop
  BY DEF LongBreakout
<1>4. stop \in Nat /\ w - stop >= width
  <2> HIDE DEF w, near
  <2> QED
    BY <1>1, <1>2 DEF Greater, Lesser, Cent
<1> QED
  BY <1>3, <1>4

\* The levels of a plan are prices, and it waits for a trigger if it must.
PlanTyped(g) ==
  /\ g.entry \in Nat /\ g.stop \in Nat /\ g.target \in Nat
  /\ g.kind \in {"immediate", "breakout_wait", "no_trade"}
  /\ g.kind # "breakout_wait" => g.trigger = None
  /\ g.kind = "breakout_wait" => g.trigger \in Nat

LEMMA LongImmediateTyped ==
  ASSUME NEW price \in Nat, NEW wall \in Seq(Nat), NEW gap \in Nat, NEW cap \in Nat
  PROVE  PlanTyped(LongImmediate(price, gap, LongRoom(price, wall, cap)))
<1>1. LongRoom(price, wall, cap) \in Nat
  BY LongRoomIsNat
<1>2. LongStop(price, gap) \in Nat
  BY DEF LongStop, Greater, Cent
<1> QED
  BY <1>1, <1>2 DEF LongImmediate, PlanTyped

LEMMA LongNoTradeTyped ==
  ASSUME NEW price \in Nat, NEW wall \in Seq(Nat), NEW gap \in Nat, wall # <<>>
  PROVE  PlanTyped(LongNoTrade(price, wall, gap))
<1> DEFINE w == wall[1]
<1>1. w \in Nat
  OBVIOUS
<1>2. Under(w) \in Nat
  <2> HIDE DEF w
  <2> QED
    BY <1>1, UnderIsNat
<1>3. Greater(Under(w), price) \in Nat
  BY <1>2 DEF Greater
<1>4. LongStop(price, gap) \in Nat
  BY DEF LongStop, Greater, Cent
<1> QED
  BY <1>3, <1>4 DEF LongNoTrade, PlanTyped

LEMMA LongTyped ==
  ASSUME NEW price \in Nat, price >= 10000, NEW wall \in Seq(Nat),
         \A i \in 1..Len(wall) : wall[i] > price,
         NEW gap \in Nat, NEW cap \in Nat, NEW t \in Paces,
         NEW countertrend \in BOOLEAN, NEW spent \in BOOLEAN
  PROVE  PlanTyped(LongGeometry(price, wall, gap, cap, t, countertrend, spent))
<1> DEFINE g == LongGeometry(price, wall, gap, cap, t, countertrend, spent)
<1>1. ASSUME HasLongRoom(price, wall, t)
      PROVE  PlanTyped(LongImmediate(price, gap, LongRoom(price, wall, cap)))
  BY LongImmediateTyped
<1>2. ASSUME wall # <<>> PROVE PlanTyped(LongNoTrade(price, wall, gap))
  BY <1>2, LongNoTradeTyped
<1>3. ASSUME NEW i \in 1..Len(wall), LongLeg(wall, i, cap, t)
      PROVE  PlanTyped(LongBreakout(wall, i, gap, cap))
  <2>1. /\ wall[i] \in Nat /\ wall[i] >= 10000
        /\ LongLegTarget(wall, i, cap) \in Nat
    BY <1>3, LongRungFacts
  <2>2. LongBreakout(wall, i, gap, cap).stop \in Nat
    <3>1. 0 \in Nat /\ StopFor(wall[i], gap, 0)
      BY <2>1 DEF StopFor
    <3> QED
      BY <3>1, LongBreakoutStop
  <2> QED
    BY <2>1, <2>2 DEF LongBreakout, PlanTyped
<1>4. \/ /\ g = LongImmediate(price, gap, LongRoom(price, wall, cap))
         /\ HasLongRoom(price, wall, t)
      \/ wall # <<>> /\ g = LongNoTrade(price, wall, gap)
      \/ \E i \in 1..Len(wall) : g = LongBreakout(wall, i, gap, cap) /\ LongLeg(wall, i, cap, t)
  BY LongShapes
<1> QED
  BY <1>1, <1>2, <1>3, <1>4

-----------------------------------------------------------------------------
(* What a long plan that trades satisfies.                                 *)

\* Every long trade _long_geometry proposes loses at its stop and wins at its
\* target, by any width its stop and its budget are worth: with a cent (100), the order
\* survives the rounding to cents.
THEOREM LongLevelsOrdered ==
  ASSUME NEW price \in Nat, price >= 100 * Cent, NEW wall \in Seq(Nat),
         \A i \in 1..Len(wall) : wall[i] > price,
         NEW gap \in Nat, NEW cap \in Nat, NEW t \in Paces,
         NEW width \in Nat, width >= 1, width <= 100, gap >= width, Affords(price, cap, width),
         NEW countertrend \in BOOLEAN, NEW spent \in BOOLEAN,
         LongGeometry(price, wall, gap, cap, t, countertrend, spent).kind # "no_trade"
  PROVE  LET g == LongGeometry(price, wall, gap, cap, t, countertrend, spent)
         IN  g.entry - g.stop >= width /\ g.target - g.entry >= width
<1> DEFINE g == LongGeometry(price, wall, gap, cap, t, countertrend, spent)
<1>0. price >= 10000
  BY DEF Cent
<1>1. ASSUME g = LongImmediate(price, gap, LongRoom(price, wall, cap)),
             HasLongRoom(price, wall, t)
      PROVE  g.entry - g.stop >= width /\ g.target - g.entry >= width
  <2>1. LongRoom(price, wall, cap) \in Nat /\ LongRoom(price, wall, cap) >= price + width
    <3>1. HasLongRoom(price, wall, t)
      BY <1>1
    <3> HIDE DEF g
    <3>2. RoomFor(price, wall, cap, t, width)
      BY <1>0, <3>1 DEF RoomFor
    <3> QED
      BY <3>2, LongRoomIsWide, Zenon
  <2>2. price - LongStop(price, gap) >= width
    BY <1>0 DEF LongStop, Greater, Cent
  <2> QED
    BY <1>1, <2>1, <2>2 DEF LongImmediate
<1>2. ASSUME NEW i \in 1..Len(wall), g = LongBreakout(wall, i, gap, cap),
             LongLeg(wall, i, cap, t)
      PROVE  g.entry - g.stop >= width /\ g.target - g.entry >= width
  <2>1. /\ wall[i] \in Nat /\ wall[i] >= 10000
        /\ LongLegTarget(wall, i, cap) \in Nat
        /\ LongLegTarget(wall, i, cap) >= wall[i] + 100
    <3>1. LongLeg(wall, i, cap, t)
      BY <1>2
    <3> HIDE DEF g
    <3>2. RungFor(price, wall, i, cap, t)
      BY <1>0, <3>1 DEF RungFor
    <3>3. WideRung(wall, i, cap)
      BY <3>2, LongRungIsWide, Zenon
    <3> QED
      BY <3>3 DEF WideRung
  <2>2. wall[i] - LongBreakout(wall, i, gap, cap).stop >= width
    <3> HIDE DEF g
    <3>1. StopFor(wall[i], gap, width)
      BY <2>1 DEF StopFor
    <3> QED
      BY <3>1, LongBreakoutStop, Zenon
  <2>3. LongLegTarget(wall, i, cap) - wall[i] >= width
    BY <1>0, <2>1
  <2> QED
    BY <1>2, <2>2, <2>3 DEF LongBreakout
<1>3. \/ /\ g = LongImmediate(price, gap, LongRoom(price, wall, cap))
         /\ HasLongRoom(price, wall, t)
      \/ \E i \in 1..Len(wall) : g = LongBreakout(wall, i, gap, cap) /\ LongLeg(wall, i, cap, t)
  <2>1. g # LongNoTrade(price, wall, gap)
    BY DEF LongNoTrade
  <2> QED
    BY <2>1, LongShapes
<1> QED
  BY <1>1, <1>2, <1>3

\* No long trade aims further from its entry than the budget it was given, and
\* none waits for a trigger that is further from the price than that: the cap
\* holds for blue skies, for walls and for every rung of the ladder.
THEOREM LongTargetInReach ==
  ASSUME NEW price \in Nat, price >= 100 * Cent, NEW wall \in Seq(Nat),
         \A i \in 1..Len(wall) : wall[i] > price,
         NEW gap \in Nat, NEW cap \in Nat, NEW t \in Paces,
         NEW countertrend \in BOOLEAN, NEW spent \in BOOLEAN,
         LongGeometry(price, wall, gap, cap, t, countertrend, spent).kind # "no_trade"
  PROVE  LET g == LongGeometry(price, wall, gap, cap, t, countertrend, spent)
         IN  /\ 10000 * (g.target - g.entry) <= cap * g.entry
             /\ 10000 * (g.entry - price) <= cap * price
<1> DEFINE g == LongGeometry(price, wall, gap, cap, t, countertrend, spent)
<1>0. price >= 10000
  BY DEF Cent
<1>1. ASSUME g = LongImmediate(price, gap, LongRoom(price, wall, cap)),
             HasLongRoom(price, wall, t)
      PROVE  /\ 10000 * (g.target - g.entry) <= cap * g.entry
             /\ 10000 * (g.entry - price) <= cap * price
  <2>1. 0 \in Nat /\ 0 <= 100 /\ Affords(price, cap, 0)
    BY AffordsNothing
  <2>2. 10000 * (LongRoom(price, wall, cap) - price) <= cap * price
    BY <1>0, <1>1, <2>1, LongRoomFacts
  <2>3. 10000 * (price - price) <= cap * price
    <3>1. cap * price \in Nat
      OBVIOUS
    <3> QED
      BY <3>1
  <2>4. g.target = LongRoom(price, wall, cap) /\ g.entry = price
    BY <1>1 DEF LongImmediate
  <2> QED
    BY <2>2, <2>3, <2>4
<1>2. ASSUME NEW i \in 1..Len(wall), g = LongBreakout(wall, i, gap, cap),
             LongLeg(wall, i, cap, t), ~LongFar(price, wall, i, cap)
      PROVE  /\ 10000 * (g.target - g.entry) <= cap * g.entry
             /\ 10000 * (g.entry - price) <= cap * price
  <2>1. /\ wall[i] \in Nat
        /\ 10000 * (LongLegTarget(wall, i, cap) - wall[i]) <= cap * wall[i]
    BY <1>0, <1>2, LongRungFacts
  <2>2. 10000 * (wall[i] - price) <= cap * price
    BY <1>2, <2>1 DEF LongFar
  <2> QED
    BY <1>2, <2>1, <2>2 DEF LongBreakout
<1>3. \/ /\ g = LongImmediate(price, gap, LongRoom(price, wall, cap))
         /\ HasLongRoom(price, wall, t)
      \/ \E i \in 1..Len(wall) : /\ g = LongBreakout(wall, i, gap, cap)
                                 /\ LongLeg(wall, i, cap, t)
                                 /\ ~LongFar(price, wall, i, cap)
  <2>1. g # LongNoTrade(price, wall, gap)
    BY DEF LongNoTrade
  <2> QED
    BY <2>1, LongShapes
<1> QED
  BY <1>1, <1>2, <1>3

\* Levels over a price, and no one of a set in the way of a plan.
LieAbove(S, price) == S \subseteq Nat /\ \A l \in S : l > price

ClearUp(S, g) == ~\E l \in S : l < g.target /\ 1000 * l >= 1006 * g.entry

\* No level that the walls were made of lies in the way of a long trade, but for
\* those that cluster with its entry: an immediate target is under the nearest
\* wall, a leg ends under the next one, and there is no wall missing between two.
THEOREM LongPathIsClear ==
  ASSUME NEW price \in Nat, price >= 100 * Cent,
         NEW S, LieAbove(S, price), NEW wall, WalkUp(wall, S),
         NEW gap \in Nat, NEW cap \in Nat, NEW t \in Paces,
         NEW countertrend \in BOOLEAN, NEW spent \in BOOLEAN,
         LongGeometry(price, wall, gap, cap, t, countertrend, spent).kind # "no_trade"
  PROVE  LET g == LongGeometry(price, wall, gap, cap, t, countertrend, spent)
         IN  ClearUp(S, g)
<1> DEFINE g == LongGeometry(price, wall, gap, cap, t, countertrend, spent)
<1>0. price >= 10000
  BY DEF Cent
<1>1. /\ wall \in Seq(Nat)
      /\ \A i \in 1..Len(wall) : wall[i] \in Nat /\ wall[i] > price
      /\ S # {} => wall # <<>> /\ \A l \in S : wall[1] <= l
      /\ \A i \in 1..Len(wall), l \in S :
           (l > wall[i] /\ ~Merges(l, wall[i])) => i < Len(wall) /\ wall[i + 1] <= l
  BY WalkMembers DEF WalkUp, LieAbove
<1>8. S \subseteq Nat /\ \A l \in S : l > price
  BY DEF LieAbove
<1> SUFFICES ASSUME NEW l \in S, l < g.target, 1000 * l >= 1006 * g.entry
             PROVE  FALSE
  BY DEF ClearUp
<1>2. ASSUME g = LongImmediate(price, gap, LongRoom(price, wall, cap)),
             HasLongRoom(price, wall, t)
      PROVE  FALSE
  <2>1. 0 \in Nat /\ 0 <= 100 /\ Affords(price, cap, 0)
    BY AffordsNothing
  <2>2. wall # <<>> /\ wall[1] <= l
    BY <1>1
  <2>3. LongRoom(price, wall, cap) \in Nat /\ LongRoom(price, wall, cap) <= wall[1]
    BY <1>0, <1>1, <1>2, <2>1, <2>2, LongRoomFacts
  <2>4. g.target = LongRoom(price, wall, cap)
    BY <1>2 DEF LongImmediate
  <2>5. wall[1] \in Nat /\ l \in Nat
    BY <1>1, <1>8, <2>2
  <2> QED
    BY <2>2, <2>3, <2>4, <2>5
<1>3. ASSUME NEW i \in 1..Len(wall), g = LongBreakout(wall, i, gap, cap),
             LongLeg(wall, i, cap, t)
      PROVE  FALSE
  <2>1. g.entry = wall[i] /\ g.target = LongLegTarget(wall, i, cap)
    BY <1>3 DEF LongBreakout
  <2>2. wall[i] \in Nat /\ l \in Nat /\ wall[i] >= 10000
    BY <1>0, <1>1, <1>8
  <2>3. l > wall[i] /\ ~Merges(l, wall[i])
    <3> DEFINE w == wall[i]
    <3>1. w \in Nat /\ w >= 10000 /\ 1000 * l >= 1006 * w
      BY <2>1, <2>2
    <3>2. l > w /\ ~Merges(l, w)
      <4> HIDE DEF w
      <4> QED
        BY <2>2, <3>1 DEF Merges
    <3> QED
      BY <3>2
  <2>4. i < Len(wall) /\ wall[i + 1] <= l
    BY <1>1, <2>3
  <2>5. wall[i + 1] \in Nat
    BY <1>1, <2>4
  <2>6. LongLegTarget(wall, i, cap) = Under(wall[i + 1])
    BY <2>4 DEF LongLegTarget
  <2>7. Under(wall[i + 1]) \in Nat /\ Under(wall[i + 1]) <= wall[i + 1]
    <3> DEFINE w == wall[i + 1]
    <3>1. Under(w) \in Nat /\ Under(w) <= w
      <4> HIDE DEF w
      <4>1. w \in Nat
        BY <2>5 DEF w
      <4> QED
        BY <4>1, UnderIsUnder
    <3> QED
      BY <3>1
  <2> QED
    BY <2>1, <2>2, <2>4, <2>5, <2>6, <2>7
<1>4. \/ /\ g = LongImmediate(price, gap, LongRoom(price, wall, cap))
         /\ HasLongRoom(price, wall, t)
      \/ \E i \in 1..Len(wall) : g = LongBreakout(wall, i, gap, cap) /\ LongLeg(wall, i, cap, t)
  <2>1. g # LongNoTrade(price, wall, gap)
    BY DEF LongNoTrade
  <2> QED
    BY <1>1, <2>1, LongShapes
<1> QED
  BY <1>2, <1>3, <1>4

-----------------------------------------------------------------------------
(* What a plan pays for its risk.                                          *)

\* A budget and a stop that both come from one ATR, as Cap and StopGap do.
Sized(price, atr, t, cap, gap) ==
  /\ cap <= t.cap
  /\ 10000 * cap <= atr * t.root
  /\ t.stop * price * atr < 100000 * gap + 100000

\* A reward of no more than a budget, to the unit.
WithinBudget(price, cap, reward) == 10000 * reward <= cap * price + 10000

LEMMA BudgetPays ==
  ASSUME NEW price \in Nat, NEW atr \in Nat, NEW t \in Paces,
         NEW cap \in Nat, NEW gap \in Nat, NEW reward \in Int,
         Sized(price, atr, t, cap, gap), WithinBudget(price, cap, reward), gap >= 100
  PROVE  reward < 3 * gap
<1> DEFINE root == t.root
           stop == t.stop
           swing == price * atr
<1>1. root \in Nat /\ stop \in Nat /\ 10 * root <= 27000 * stop
  BY PaceFacts
<1>2. swing \in Nat /\ atr * price = swing
  OBVIOUS
<1>3. 10000 * cap * price <= root * swing
  <2>1. 10000 * cap <= atr * root
    BY DEF Sized
  <2>2. (10000 * cap) * price <= (atr * root) * price
    <3> HIDE DEF root
    <3> QED
      BY <1>1, <2>1
  <2>3. (atr * root) * price = root * swing
    BY <1>1
  <2> QED
    BY <2>2, <2>3
<1>4. stop * swing < 100000 * gap + 100000
  <2>1. stop * price * atr = stop * swing
    BY <1>1
  <2> QED
    BY <2>1 DEF Sized
<1>5. root * swing <= 2700 * (stop * swing)
  <2>1. root * swing <= (2700 * stop) * swing
    <3> HIDE DEF root, stop, swing
    <3> QED
      BY <1>1, <1>2
  <2>2. (2700 * stop) * swing = 2700 * (stop * swing)
    BY <1>1, <1>2
  <2> QED
    BY <2>1, <2>2
<1>6. 100000000 * reward <= 10000 * (cap * price) + 100000000
  BY DEF WithinBudget
<1>7. 10000 * cap * price = 10000 * (cap * price) /\ cap * price \in Nat
  OBVIOUS
<1>8. root * swing \in Nat /\ stop * swing \in Nat
  BY <1>1, <1>2
<1> DEFINE a == cap * price
           b == root * swing
           c == stop * swing
<1>9. /\ 100000000 * reward <= 10000 * a + 100000000 /\ 10000 * a <= b /\ b <= 2700 * c
      /\ c < 100000 * gap + 100000 /\ a \in Nat /\ b \in Nat /\ c \in Nat
  BY <1>3, <1>4, <1>5, <1>6, <1>7, <1>8
<1> HIDE DEF a, b, c
<1> QED
  BY <1>9

LEMMA SizedByOneAtr ==
  ASSUME NEW m, m.atr \in Nat \cup {None}, m.median \in Nat \cup {None},
         NEW price \in Nat, NEW t \in Paces
  PROVE  /\ LiveAtr(m) \in Nat /\ Cap(m, t) \in Nat /\ StopGap(m, price, t) \in Nat
         /\ Sized(price, LiveAtr(m), t, Cap(m, t), StopGap(m, price, t))
<1> DEFINE live == LiveAtr(m)
           damped == DampedAtr(m)
           root == t.root
           cap == Cap(m, t)
           gap == StopGap(m, price, t)
<1>1. live \in Nat /\ damped \in Nat /\ damped <= live
  BY DEF LiveAtr, DampedAtr, Lesser
<1>2. root \in Nat /\ t.stop \in Nat /\ t.cap \in Nat
  BY PaceFacts
<1>3. cap \in Nat /\ cap <= t.cap /\ 10000 * cap <= damped * root
  <2>1. damped * root \in Nat
    BY <1>1, <1>2
  <2>2. cap = Lesser(t.cap, (damped * root) \div 10000)
    BY DEF Cap
  <2> DEFINE budget == damped * root
  <2> HIDE DEF cap, budget
  <2>3. cap \in Nat /\ cap <= t.cap /\ 10000 * cap <= budget
    BY <1>2, <2>1, <2>2 DEF Lesser, budget
  <2> QED
    BY <2>3 DEF budget
<1>4. 10000 * cap <= live * root
  <2>1. damped * root <= live * root /\ damped * root \in Nat /\ live * root \in Nat
    <3> HIDE DEF damped, live, root
    <3> QED
      BY <1>1, <1>2
  <2> QED
    BY <1>3, <2>1
<1>5. gap \in Nat /\ t.stop * price * live < 100000 * gap + 100000
  <2> DEFINE swing == t.stop * price * live
  <2>1. swing \in Nat
    BY <1>1, <1>2
  <2>2. gap = swing \div 100000
    BY DEF StopGap
  <2> HIDE DEF swing, gap
  <2>3. gap \in Nat /\ swing < 100000 * gap + 100000
    BY <2>1, <2>2
  <2> QED
    BY <2>3 DEF swing
<1> QED
  BY <1>1, <1>3, <1>4, <1>5 DEF Sized

LEMMA LongSizedReward ==
  ASSUME NEW price \in Nat, price >= 10000, NEW wall \in Seq(Nat),
         \A i \in 1..Len(wall) : wall[i] > price,
         NEW atr \in Nat, NEW t \in Paces,
         NEW cap \in Nat, NEW gap \in Nat, gap >= 100, Sized(price, atr, t, cap, gap),
         HasLongRoom(price, wall, t)
  PROVE  LET g == LongImmediate(price, gap, LongRoom(price, wall, cap))
         IN  g.target - g.entry < 3 * (g.entry - g.stop)
<1> DEFINE room == LongRoom(price, wall, cap)
           stop == LongStop(price, gap)
<1>1. room \in Nat /\ 10000 * (room - price) <= cap * price
  <2>1. 0 \in Nat /\ 0 <= 100 /\ Affords(price, cap, 0)
    BY AffordsNothing
  <2> QED
    BY <2>1, LongRoomFacts
<1>2. WithinBudget(price, cap, room - price)
  <2>1. cap * price \in Nat
    OBVIOUS
  <2> HIDE DEF room
  <2> QED
    BY <1>1, <2>1 DEF WithinBudget
<1>3. room - price < 3 * gap
  <2> HIDE DEF room
  <2> QED
    BY <1>1, <1>2, BudgetPays
<1>4. room - price < 3 * (price - stop)
  <2>1. CASE price - gap >= 100
    <3>1. price - stop = gap
      BY <2>1 DEF LongStop, Greater, Cent
    <3> QED
      BY <1>3, <3>1
  <2>2. CASE ~(price - gap >= 100)
    <3>1. price - stop = price - 100
      BY <2>2 DEF LongStop, Greater, Cent
    <3>2. cap * price <= 1500 * price
      <4>1. cap <= 1500
        BY PaceFacts DEF Sized
      <4> QED
        BY <4>1
    <3>3. room - price < 3 * (price - 100)
      <4> DEFINE budget == cap * price
      <4> HIDE DEF room, budget
      <4>1. budget \in Int /\ budget <= 1500 * price /\ 10000 * (room - price) <= budget
        BY <1>1, <3>2 DEF budget
      <4> QED
        BY <1>1, <4>1
    <3> QED
      BY <3>1, <3>3
  <2> QED
    BY <2>1, <2>2
<1> QED
  BY <1>4 DEF LongImmediate

\* An immediate long plan never pays three times its risk, on either pace and
\* however wild the name: its budget and its stop are multiples of one ATR, and
\* the square root of the days over the width of the stop is under 2.7.  (Its
\* stop is a cent away at least: under that the rounding could decide.)
THEOREM LongRewardBounded ==
  ASSUME NEW m, m.atr \in Nat \cup {None}, m.median \in Nat \cup {None},
         NEW price \in Nat, price >= 100 * Cent, NEW wall \in Seq(Nat),
         \A i \in 1..Len(wall) : wall[i] > price,
         NEW t \in Paces, StopGap(m, price, t) >= Cent,
         NEW countertrend \in BOOLEAN, NEW spent \in BOOLEAN,
         LongGeometry(price, wall, StopGap(m, price, t), Cap(m, t), t,
                      countertrend, spent).kind = "immediate"
  PROVE  LET g == LongGeometry(price, wall, StopGap(m, price, t), Cap(m, t), t,
                               countertrend, spent)
         IN  g.target - g.entry < 3 * (g.entry - g.stop)
<1> DEFINE atr == LiveAtr(m)
           cap == Cap(m, t)
           gap == StopGap(m, price, t)
           g == LongGeometry(price, wall, gap, cap, t, countertrend, spent)
<1>1. /\ atr \in Nat /\ cap \in Nat /\ gap \in Nat /\ gap >= 100
      /\ Sized(price, atr, t, cap, gap)
  BY SizedByOneAtr DEF Cent
<1>2. price >= 10000 /\ g.kind = "immediate"
  BY DEF Cent
<1> HIDE DEF atr, cap, gap
<1>3. g = LongImmediate(price, gap, LongRoom(price, wall, cap)) /\ HasLongRoom(price, wall, t)
  <2>1. /\ g # LongNoTrade(price, wall, gap)
        /\ \A i \in 1..Len(wall) : g # LongBreakout(wall, i, gap, cap)
    BY <1>2 DEF LongNoTrade, LongBreakout
  <2> QED
    BY <1>1, <2>1, LongShapes
<1>4. g.target - g.entry < 3 * (g.entry - g.stop)
  <2>1. LET i == LongImmediate(price, gap, LongRoom(price, wall, cap))
        IN  i.target - i.entry < 3 * (i.entry - i.stop)
    <3> HIDE DEF g
    <3> QED
      BY <1>1, <1>2, <1>3, LongSizedReward
  <2> QED
    BY <1>3, <2>1
<1> QED
  BY <1>4 DEF cap, gap

-----------------------------------------------------------------------------
(* The short side.                                                         *)

\* What any pace allows a budget.
Capped(cap) == cap <= 1500

LEMMA ShortLadderPlan ==
  ASSUME NEW price \in Nat, NEW floor \in Seq(Nat), NEW gap \in Nat, NEW cap \in Nat,
         NEW t \in Paces
  PROVE  \/ ShortLadder(price, floor, gap, cap, t) = ShortNoTrade(price, floor, gap)
         \/ \E i \in 1..Len(floor) :
              /\ ShortLadder(price, floor, gap, cap, t) = ShortBreakdown(floor, i, gap, cap)
              /\ ShortLeg(floor, i, cap, t)
              /\ ~ShortFar(price, floor, i, cap)
<1> DEFINE S == {i \in 1..Lesser(3, Len(floor)) :
                   ShortFar(price, floor, i, cap) \/ ShortLeg(floor, i, cap, t)}
           m == Min(S)
<1>1. CASE S = {} \/ ShortFar(price, floor, m, cap)
  BY <1>1, Zenon DEF ShortLadder
<1>2. CASE S # {} /\ ~ShortFar(price, floor, m, cap)
  <2>1. S \subseteq 1..3 /\ S \subseteq 1..Len(floor)
    BY DEF Lesser
  <2>2. m \in S
    BY <1>2, <2>1, LeastRung
  <2>3. ShortLadder(price, floor, gap, cap, t) = ShortBreakdown(floor, m, gap, cap)
    BY <1>2, Zenon DEF ShortLadder
  <2>4. m \in 1..Len(floor) /\ ShortLeg(floor, m, cap, t)
    BY <1>2, <2>1, <2>2
  <2> QED
    BY <1>2, <2>3, <2>4, Zenon
<1> QED
  BY <1>1, <1>2

\* The target of an immediate short plan.
ShortRoom(price, floor, cap) ==
  IF floor = <<>> THEN Times(price, 10000 - cap)
  ELSE Greater(Over(floor[1]), Times(price, 10000 - cap))

HasShortRoom(price, floor, t) == floor # <<>> => 10000 * (price - floor[1]) >= t.move * price

LEMMA ShortShapes ==
  ASSUME NEW price \in Nat, NEW floor \in Seq(Nat), NEW gap \in Nat, NEW cap \in Nat,
         NEW t \in Paces, NEW countertrend \in BOOLEAN, NEW spent \in BOOLEAN
  PROVE  LET g == ShortGeometry(price, floor, gap, cap, t, countertrend, spent)
         IN  \/ /\ g = ShortImmediate(price, gap, ShortRoom(price, floor, cap))
                /\ HasShortRoom(price, floor, t)
             \/ floor # <<>> /\ g = ShortNoTrade(price, floor, gap)
             \/ \E i \in 1..Len(floor) :
                  /\ g = ShortBreakdown(floor, i, gap, cap)
                  /\ ShortLeg(floor, i, cap, t)
                  /\ ~ShortFar(price, floor, i, cap)
                  /\ ~countertrend /\ ~spent
<1> DEFINE g == ShortGeometry(price, floor, gap, cap, t, countertrend, spent)
           room == 10000 * (price - floor[1]) >= t.move * price
<1>1. CASE floor = <<>>
  BY <1>1 DEF ShortGeometry, ShortRoom, HasShortRoom
<1>2. CASE floor # <<>> /\ room
  BY <1>2 DEF ShortGeometry, ShortRoom, HasShortRoom
<1>3. CASE floor # <<>> /\ ~room /\ (countertrend \/ spent)
  BY <1>3 DEF ShortGeometry
<1>4. CASE floor # <<>> /\ ~room /\ ~(countertrend \/ spent)
  <2>1. g = ShortLadder(price, floor, gap, cap, t)
    BY <1>4 DEF ShortGeometry
  <2> QED
    BY <1>4, <2>1, ShortLadderPlan
<1> QED
  BY <1>1, <1>2, <1>3, <1>4

LEMMA OverIsNat ==
  ASSUME NEW f \in Nat
  PROVE  Over(f) \in Nat
BY SMT DEF Over, Times

LEMMA OverFacts ==
  ASSUME NEW f \in Nat
  PROVE  /\ Over(f) >= f
         /\ 10050 * f < 10000 * Over(f) + 10000
         /\ 10000 * Over(f) <= 10050 * f
BY SMT DEF Over, Times

\* A budget under the price, to the unit.
LEMMA CapBelow ==
  ASSUME NEW price \in Nat, NEW cap \in Nat, Capped(cap), NEW width \in Nat,
         Affords(price, cap, width)
  PROVE  /\ Times(price, 10000 - cap) \in Nat
         /\ Times(price, 10000 - cap) + width <= price
         /\ WithinBudget(price, cap, price - Times(price, 10000 - cap))
<1> DEFINE bp == 10000 - cap
           a == cap * price
           x == Times(price, bp)
<1>1. bp \in Nat
  BY DEF Capped
<1>2. a \in Nat /\ price * bp = 10000 * price - a
  OBVIOUS
<1>3. FloorOf(price, bp, x)
  <2> HIDE DEF bp
  <2> QED
    BY <1>1, TimesBounds
<1>4. x \in Nat /\ 10000 * x <= price * bp /\ price * bp < 10000 * x + 10000
  <2> HIDE DEF x, bp
  <2> QED
    BY <1>3 DEF FloorOf
<1>5. x \in Nat /\ 10000 * x <= 10000 * price - a /\ 10000 * price - a < 10000 * x + 10000
  <2> DEFINE y == price * bp
  <2>1. y = 10000 * price - a /\ 10000 * x <= y /\ y < 10000 * x + 10000
    BY <1>2, <1>4
  <2> HIDE DEF x, a, y
  <2> QED
    BY <1>4, <2>1
<1>6. a >= 10000 * width
  BY DEF Affords
<1>7. x + width <= price /\ 10000 * (price - x) <= a + 10000
  <2> HIDE DEF x, a
  <2> QED
    BY <1>2, <1>5, <1>6
<1> QED
  BY <1>5, <1>7 DEF WithinBudget

LEMMA RoomAboveFloor ==
  ASSUME NEW price \in Nat, price >= 10000, NEW f \in Nat, NEW t \in Paces,
         10000 * (price - f) >= t.move * price
  PROVE  Over(f) \in Nat /\ Over(f) + 100 <= price
<1>1. t.move * price >= 300 * price
  BY PaceFacts
<1>2. 10000 * f <= 9700 * price
  BY <1>1, PaceFacts
<1> QED
  BY <1>2, SMT DEF Over, Times

LEMMA ShortRoomFacts ==
  ASSUME NEW price \in Nat, price >= 10000, NEW floor \in Seq(Nat),
         NEW cap \in Nat, Capped(cap),
         NEW t \in Paces, HasShortRoom(price, floor, t),
         NEW width \in Nat, width <= 100, Affords(price, cap, width)
  PROVE  /\ ShortRoom(price, floor, cap) \in Nat
         /\ ShortRoom(price, floor, cap) + width <= price
         /\ WithinBudget(price, cap, price - ShortRoom(price, floor, cap))
         /\ floor # <<>> => ShortRoom(price, floor, cap) >= floor[1]
<1> DEFINE full == Times(price, 10000 - cap)
           room == ShortRoom(price, floor, cap)
<1>1. full \in Nat /\ full + width <= price /\ WithinBudget(price, cap, price - full)
  BY CapBelow
<1>2. CASE floor = <<>>
  <2>1. room = full
    BY <1>2 DEF ShortRoom
  <2> QED
    BY <1>1, <1>2, <2>1
<1>3. CASE floor # <<>>
  <2> DEFINE f == floor[1]
             over == Over(f)
  <2>1. f \in Nat /\ 10000 * (price - f) >= t.move * price
    BY <1>3 DEF HasShortRoom
  <2>2. room = Greater(over, full)
    BY <1>3 DEF ShortRoom
  <2>3. /\ room \in Nat /\ room + width <= price
        /\ WithinBudget(price, cap, price - room)
        /\ room >= f
    <3> HIDE DEF full, room, f
    <3>1. over \in Nat /\ over + 100 <= price
      BY <2>1, RoomAboveFloor
    <3>2. over >= f
      BY <2>1, OverFacts
    <3> HIDE DEF over
    <3>3. room \in Nat /\ room + width <= price /\ room >= over /\ room >= full
      BY <1>1, <2>2, <3>1 DEF Greater
    <3>4. room >= f
      BY <2>1, <3>1, <3>2, <3>3
    <3>5. WithinBudget(price, cap, price - room)
      <4> DEFINE budget == cap * price
      <4>1. budget \in Nat /\ 10000 * (price - full) <= budget + 10000
        BY <1>1 DEF WithinBudget
      <4>2. 10000 * (price - room) <= budget + 10000
        <5> HIDE DEF budget
        <5> QED
          BY <1>1, <3>3, <4>1
      <4> QED
        BY <4>2 DEF WithinBudget
    <3> QED
      BY <3>3, <3>4, <3>5
  <2> QED
    BY <2>3
<1> QED
  BY <1>2, <1>3

LEMMA ShortLegTargetIsNat ==
  ASSUME NEW floor \in Seq(Nat), NEW i \in 1..Len(floor), NEW cap \in Nat, Capped(cap)
  PROVE  ShortLegTarget(floor, i, cap) \in Nat
<1>0. PICK bp \in Nat : bp = 10000 - cap
  BY DEF Capped
<1>1. floor[i] \in Nat
  OBVIOUS
<1>2. i < Len(floor) => floor[i + 1] \in Nat
  OBVIOUS
<1>3. ShortLegTarget(floor, i, cap) =
        IF i < Len(floor) THEN Over(floor[i + 1]) ELSE Times(floor[i], bp)
  BY <1>0 DEF ShortLegTarget
<1>4. i < Len(floor) => Over(floor[i + 1]) \in Nat
  <2>1. CASE i < Len(floor)
    <3> DEFINE next == floor[i + 1]
    <3>1. next \in Nat
      BY <1>2, <2>1
    <3>2. Over(next) \in Nat
      <4> HIDE DEF next
      <4> QED
        BY <3>1, OverIsNat
    <3> QED
      BY <3>2
  <2> QED
    BY <2>1
<1>5. Times(floor[i], bp) \in Nat
  BY <1>1, TimesAreNat, Zenon
<1> QED
  BY <1>3, <1>4, <1>5

LEMMA ShortLegReach ==
  ASSUME NEW floor \in Seq(Nat), NEW i \in 1..Len(floor), NEW cap \in Nat, Capped(cap),
         ~ShortFloating(floor, i, cap)
  PROVE  WithinBudget(floor[i], cap, floor[i] - ShortLegTarget(floor, i, cap))
<1> DEFINE w == floor[i]
           next == floor[i + 1]
<1>1. w \in Nat
  OBVIOUS
<1>2. CASE i < Len(floor)
  <2>0. next \in Nat
    BY <1>2
  <2>1. next * 10050 >= w * (10000 - cap)
    BY <1>1, <1>2, <2>0, SMTT(30) DEF ShortFloating
  <2>2. WithinBudget(w, cap, w - Over(next))
    <3> HIDE DEF w, next
    <3>1. w * (10000 - cap) = 10000 * w - cap * w /\ cap * w \in Nat
      BY <1>1
    <3>2. Over(next) \in Nat /\ 10050 * next < 10000 * Over(next) + 10000
      <4>1. Over(next) \in Nat
        BY <2>0, OverIsNat
      <4>2. 10050 * next < 10000 * Over(next) + 10000
        BY <2>0, OverFacts
      <4> QED
        BY <4>1, <4>2
    <3>3. 10000 * (w - Over(next)) <= cap * w + 10000
      BY <1>1, <2>0, <2>1, <3>1, <3>2
    <3> QED
      BY <3>3 DEF WithinBudget
  <2>3. ShortLegTarget(floor, i, cap) = Over(next)
    BY <1>2 DEF ShortLegTarget
  <2> QED
    BY <2>2, <2>3
<1>3. CASE ~(i < Len(floor))
  <2>1. WithinBudget(w, cap, w - Times(w, 10000 - cap))
    <3> HIDE DEF w
    <3>1. 0 \in Nat /\ Affords(w, cap, 0)
      BY <1>1, AffordsNothing
    <3> QED
      BY <1>1, <3>1, CapBelow
  <2>2. ShortLegTarget(floor, i, cap) = Times(w, 10000 - cap)
    BY <1>3 DEF ShortLegTarget
  <2> QED
    BY <2>1, <2>2
<1> QED
  BY <1>2, <1>3

\* A price with room to the first floor for a budget of a width.
ShortRoomFor(price, floor, cap, t, width) ==
  /\ price >= 10000 /\ HasShortRoom(price, floor, t)
  /\ width <= 100 /\ Affords(price, cap, width) /\ Capped(cap)

LEMMA ShortRoomIsWide ==
  ASSUME NEW price \in Nat, NEW floor \in Seq(Nat), NEW cap \in Nat, NEW t \in Paces,
         NEW width \in Nat, ShortRoomFor(price, floor, cap, t, width)
  PROVE  ShortRoom(price, floor, cap) \in Nat /\ ShortRoom(price, floor, cap) + width <= price
<1>1. /\ price >= 10000 /\ HasShortRoom(price, floor, t)
      /\ width <= 100 /\ Affords(price, cap, width) /\ Capped(cap)
  BY DEF ShortRoomFor
<1> QED
  BY <1>1, ShortRoomFacts

LEMMA ShortRungFacts ==
  ASSUME NEW price \in Nat, price >= 10000, NEW floor \in Seq(Nat),
         \A i \in 1..Len(floor) : floor[i] <= price,
         NEW cap \in Nat, Capped(cap), NEW t \in Paces,
         NEW i \in 1..Len(floor), ShortLeg(floor, i, cap, t), ~ShortFar(price, floor, i, cap)
  PROVE  /\ floor[i] \in Nat /\ floor[i] <= price /\ floor[i] >= 8500
         /\ ShortLegTarget(floor, i, cap) \in Nat
         /\ ShortLegTarget(floor, i, cap) + 100 <= floor[i]
         /\ WithinBudget(floor[i], cap, floor[i] - ShortLegTarget(floor, i, cap))
<1> DEFINE w == floor[i]
           target == ShortLegTarget(floor, i, cap)
           move == t.move
           d == w - target
<1>1. w \in Nat /\ w <= price
  OBVIOUS
<1>2. w >= 8500
  <2>1. 10000 * (price - w) <= cap * price
    BY <1>1, SMTT(30) DEF ShortFar
  <2>2. cap * price <= 1500 * price /\ cap * price \in Nat
    BY DEF Capped
  <2> DEFINE budget == cap * price
  <2> HIDE DEF budget, w
  <2> QED
    BY <1>1, <2>1, <2>2 DEF budget
<1>3. target \in Nat
  BY ShortLegTargetIsNat
<1>4. d >= 100
  <2>1. move \in Nat /\ move >= 300
    BY PaceFacts
  <2>2. 40000 * d >= 3 * move * w
    BY DEF ShortLeg
  <2>3. d \in Int
    <3> HIDE DEF w, target
    <3> QED
      BY <1>1, <1>3
  <2> HIDE DEF w, target, move, d
  <2> QED
    BY <1>1, <1>2, <2>1, <2>2, <2>3, Gains
<1>5. target + 100 <= w
  <2> HIDE DEF w, target
  <2> QED
    BY <1>1, <1>3, <1>4
<1>6. WithinBudget(floor[i], cap, floor[i] - ShortLegTarget(floor, i, cap))
  BY ShortLegReach DEF ShortLeg
<1> QED
  BY <1>1, <1>2, <1>3, <1>5, <1>6

LEMMA ShortBreakdownStop ==
  ASSUME NEW floor \in Seq(Nat), NEW i \in 1..Len(floor), NEW gap \in Nat, NEW cap \in Nat
  PROVE  /\ ShortBreakdown(floor, i, gap, cap).stop \in Nat
         /\ ShortBreakdown(floor, i, gap, cap).stop - floor[i] >= gap
<1> DEFINE w == floor[i]
           near == Times(w, 10020)
           stop == Greater(near, w + gap)
<1>1. w \in Nat
  OBVIOUS
<1>2. near \in Nat
  <2> HIDE DEF w
  <2> QED
    BY <1>1, SMT DEF Times
<1>3. ShortBreakdown(floor, i, gap, cap).stop = stop
  BY DEF ShortBreakdown
<1>4. stop \in Nat /\ stop - w >= gap
  <2> HIDE DEF w, near
  <2> QED
    BY <1>1, <1>2 DEF Greater
<1> QED
  BY <1>3, <1>4

LEMMA ShortTyped ==
  ASSUME NEW price \in Nat, price >= 10000, NEW floor \in Seq(Nat),
         \A i \in 1..Len(floor) : floor[i] <= price,
         NEW gap \in Nat, NEW cap \in Nat, Capped(cap), NEW t \in Paces,
         NEW countertrend \in BOOLEAN, NEW spent \in BOOLEAN
  PROVE  PlanTyped(ShortGeometry(price, floor, gap, cap, t, countertrend, spent))
<1> DEFINE g == ShortGeometry(price, floor, gap, cap, t, countertrend, spent)
<1>1. ASSUME HasShortRoom(price, floor, t)
      PROVE  PlanTyped(ShortImmediate(price, gap, ShortRoom(price, floor, cap)))
  <2>1. ShortRoom(price, floor, cap) \in Nat
    <3>1. 0 \in Nat /\ 0 <= 100 /\ Affords(price, cap, 0)
      BY AffordsNothing
    <3> QED
      BY <1>1, <3>1, ShortRoomFacts
  <2> QED
    BY <2>1 DEF ShortImmediate, PlanTyped
<1>2. ASSUME floor # <<>> PROVE PlanTyped(ShortNoTrade(price, floor, gap))
  <2> DEFINE f == floor[1]
  <2>1. f \in Nat
    BY <1>2
  <2>2. Lesser(Over(f), price) \in Nat
    <3> HIDE DEF f
    <3>1. Over(f) \in Nat
      BY <2>1, OverIsNat
    <3> QED
      BY <3>1 DEF Lesser
  <2> QED
    BY <2>2 DEF ShortNoTrade, PlanTyped
<1>3. ASSUME NEW i \in 1..Len(floor), ShortLeg(floor, i, cap, t),
             ~ShortFar(price, floor, i, cap)
      PROVE  PlanTyped(ShortBreakdown(floor, i, gap, cap))
  <2>1. floor[i] \in Nat /\ ShortLegTarget(floor, i, cap) \in Nat
    BY <1>3, ShortRungFacts
  <2>2. ShortBreakdown(floor, i, gap, cap).stop \in Nat
    BY ShortBreakdownStop
  <2> QED
    BY <2>1, <2>2 DEF ShortBreakdown, PlanTyped
<1>4. \/ /\ g = ShortImmediate(price, gap, ShortRoom(price, floor, cap))
         /\ HasShortRoom(price, floor, t)
      \/ floor # <<>> /\ g = ShortNoTrade(price, floor, gap)
      \/ \E i \in 1..Len(floor) : /\ g = ShortBreakdown(floor, i, gap, cap)
                                  /\ ShortLeg(floor, i, cap, t)
                                  /\ ~ShortFar(price, floor, i, cap)
  BY ShortShapes
<1> QED
  BY <1>1, <1>2, <1>3, <1>4

\* A floor that a leg of the ladder starts from, and what its leg gains.
ShortRungFor(price, floor, i, cap, t) ==
  /\ price >= 10000 /\ Capped(cap)
  /\ ShortLeg(floor, i, cap, t) /\ ~ShortFar(price, floor, i, cap)
  /\ \A n \in 1..Len(floor) : floor[n] <= price

ShortWideRung(floor, i, cap) ==
  /\ floor[i] \in Nat
  /\ ShortLegTarget(floor, i, cap) \in Nat
  /\ ShortLegTarget(floor, i, cap) + 100 <= floor[i]

LEMMA ShortRungIsWide ==
  ASSUME NEW price \in Nat, NEW floor \in Seq(Nat), NEW i \in 1..Len(floor),
         NEW cap \in Nat, NEW t \in Paces, ShortRungFor(price, floor, i, cap, t)
  PROVE  ShortWideRung(floor, i, cap)
<1>1. /\ price >= 10000 /\ Capped(cap)
      /\ ShortLeg(floor, i, cap, t) /\ ~ShortFar(price, floor, i, cap)
      /\ \A n \in 1..Len(floor) : floor[n] <= price
  BY DEF ShortRungFor
<1> QED
  BY <1>1, ShortRungFacts DEF ShortWideRung

\* Every short trade _short_geometry proposes loses at its stop and wins at its
\* target, by any width its stop and its budget are worth.
THEOREM ShortLevelsOrdered ==
  ASSUME NEW price \in Nat, price >= 100 * Cent, NEW floor \in Seq(Nat),
         \A i \in 1..Len(floor) : floor[i] <= price,
         NEW gap \in Nat, NEW cap \in Nat, Capped(cap), NEW t \in Paces,
         NEW width \in Nat, width >= 1, width <= 100, gap >= width, Affords(price, cap, width),
         NEW countertrend \in BOOLEAN, NEW spent \in BOOLEAN,
         ShortGeometry(price, floor, gap, cap, t, countertrend, spent).kind # "no_trade"
  PROVE  LET g == ShortGeometry(price, floor, gap, cap, t, countertrend, spent)
         IN  g.stop - g.entry >= width /\ g.entry - g.target >= width
<1> DEFINE g == ShortGeometry(price, floor, gap, cap, t, countertrend, spent)
<1>0. price >= 10000
  BY DEF Cent
<1>1. ASSUME g = ShortImmediate(price, gap, ShortRoom(price, floor, cap)),
             HasShortRoom(price, floor, t)
      PROVE  g.stop - g.entry >= width /\ g.entry - g.target >= width
  <2>1. ShortRoom(price, floor, cap) \in Nat /\ ShortRoom(price, floor, cap) + width <= price
    <3>1. HasShortRoom(price, floor, t)
      BY <1>1
    <3> HIDE DEF g
    <3>2. ShortRoomFor(price, floor, cap, t, width)
      BY <1>0, <3>1 DEF ShortRoomFor
    <3> QED
      BY <3>2, ShortRoomIsWide, Zenon
  <2> QED
    BY <1>1, <2>1 DEF ShortImmediate
<1>2. ASSUME NEW i \in 1..Len(floor), g = ShortBreakdown(floor, i, gap, cap),
             ShortLeg(floor, i, cap, t), ~ShortFar(price, floor, i, cap)
      PROVE  g.stop - g.entry >= width /\ g.entry - g.target >= width
  <2>1. /\ floor[i] \in Nat
        /\ ShortLegTarget(floor, i, cap) \in Nat
        /\ ShortLegTarget(floor, i, cap) + 100 <= floor[i]
    <3>1. ShortLeg(floor, i, cap, t) /\ ~ShortFar(price, floor, i, cap)
      BY <1>2
    <3> HIDE DEF g
    <3>2. ShortRungFor(price, floor, i, cap, t)
      BY <1>0, <3>1 DEF ShortRungFor
    <3>3. ShortWideRung(floor, i, cap)
      BY <3>2, ShortRungIsWide, Zenon
    <3> QED
      BY <3>3 DEF ShortWideRung
  <2>2. /\ ShortBreakdown(floor, i, gap, cap).stop \in Nat
        /\ ShortBreakdown(floor, i, gap, cap).stop - floor[i] >= gap
    BY ShortBreakdownStop
  <2>3. /\ g.entry = floor[i] /\ g.target = ShortLegTarget(floor, i, cap)
        /\ g.stop = ShortBreakdown(floor, i, gap, cap).stop
    BY <1>2 DEF ShortBreakdown
  <2> HIDE DEF g
  <2> QED
    BY <2>1, <2>2, <2>3
<1>3. \/ /\ g = ShortImmediate(price, gap, ShortRoom(price, floor, cap))
         /\ HasShortRoom(price, floor, t)
      \/ \E i \in 1..Len(floor) : /\ g = ShortBreakdown(floor, i, gap, cap)
                                  /\ ShortLeg(floor, i, cap, t)
                                  /\ ~ShortFar(price, floor, i, cap)
  <2>1. g # ShortNoTrade(price, floor, gap)
    BY DEF ShortNoTrade
  <2> QED
    BY <2>1, ShortShapes
<1> QED
  BY <1>1, <1>2, <1>3

\* No short trade aims further from its entry than its budget, to the unit.
THEOREM ShortTargetInReach ==
  ASSUME NEW price \in Nat, price >= 100 * Cent, NEW floor \in Seq(Nat),
         \A i \in 1..Len(floor) : floor[i] <= price,
         NEW gap \in Nat, NEW cap \in Nat, Capped(cap), NEW t \in Paces,
         NEW countertrend \in BOOLEAN, NEW spent \in BOOLEAN,
         ShortGeometry(price, floor, gap, cap, t, countertrend, spent).kind # "no_trade"
  PROVE  LET g == ShortGeometry(price, floor, gap, cap, t, countertrend, spent)
         IN  WithinBudget(g.entry, cap, g.entry - g.target)
<1> DEFINE g == ShortGeometry(price, floor, gap, cap, t, countertrend, spent)
<1>0. price >= 10000
  BY DEF Cent
<1>1. ASSUME g = ShortImmediate(price, gap, ShortRoom(price, floor, cap)),
             HasShortRoom(price, floor, t)
      PROVE  WithinBudget(g.entry, cap, g.entry - g.target)
  <2>1. 0 \in Nat /\ 0 <= 100 /\ Affords(price, cap, 0)
    BY AffordsNothing
  <2>2. WithinBudget(price, cap, price - ShortRoom(price, floor, cap))
    BY <1>0, <1>1, <2>1, ShortRoomFacts
  <2> QED
    BY <1>1, <2>2 DEF ShortImmediate
<1>2. ASSUME NEW i \in 1..Len(floor), g = ShortBreakdown(floor, i, gap, cap),
             ShortLeg(floor, i, cap, t), ~ShortFar(price, floor, i, cap)
      PROVE  WithinBudget(g.entry, cap, g.entry - g.target)
  <2>1. WithinBudget(floor[i], cap, floor[i] - ShortLegTarget(floor, i, cap))
    BY <1>0, <1>2, ShortRungFacts
  <2> QED
    BY <1>2, <2>1 DEF ShortBreakdown
<1>3. \/ /\ g = ShortImmediate(price, gap, ShortRoom(price, floor, cap))
         /\ HasShortRoom(price, floor, t)
      \/ \E i \in 1..Len(floor) : /\ g = ShortBreakdown(floor, i, gap, cap)
                                  /\ ShortLeg(floor, i, cap, t)
                                  /\ ~ShortFar(price, floor, i, cap)
  <2>1. g # ShortNoTrade(price, floor, gap)
    BY DEF ShortNoTrade
  <2> QED
    BY <2>1, ShortShapes
<1> QED
  BY <1>1, <1>2, <1>3

LieBelow(S, price) == S \subseteq Nat /\ \A l \in S : l <= price

ClearDown(S, g) == ~\E l \in S : l > g.target /\ 1000 * l <= 994 * g.entry

\* No level that the supports were made of lies in the way of a short trade, but
\* for those that cluster with its entry.
THEOREM ShortPathIsClear ==
  ASSUME NEW price \in Nat, price >= 100 * Cent,
         NEW S, LieBelow(S, price), NEW floor, WalkDown(floor, S),
         NEW gap \in Nat, NEW cap \in Nat, Capped(cap), NEW t \in Paces,
         NEW countertrend \in BOOLEAN, NEW spent \in BOOLEAN,
         ShortGeometry(price, floor, gap, cap, t, countertrend, spent).kind # "no_trade"
  PROVE  LET g == ShortGeometry(price, floor, gap, cap, t, countertrend, spent)
         IN  ClearDown(S, g)
<1> DEFINE g == ShortGeometry(price, floor, gap, cap, t, countertrend, spent)
<1>0. price >= 10000
  BY DEF Cent
<1>1. /\ floor \in Seq(Nat)
      /\ \A i \in 1..Len(floor) : floor[i] \in Nat /\ floor[i] <= price
      /\ S # {} => floor # <<>> /\ \A l \in S : floor[1] >= l
      /\ \A i \in 1..Len(floor), l \in S :
           (l < floor[i] /\ ~Merges(l, floor[i])) => i < Len(floor) /\ floor[i + 1] >= l
  BY WalkMembers DEF WalkDown, LieBelow
<1>8. S \subseteq Nat /\ \A l \in S : l <= price
  BY DEF LieBelow
<1> SUFFICES ASSUME NEW l \in S, l > g.target, 1000 * l <= 994 * g.entry
             PROVE  FALSE
  BY DEF ClearDown
<1>2. ASSUME g = ShortImmediate(price, gap, ShortRoom(price, floor, cap)),
             HasShortRoom(price, floor, t)
      PROVE  FALSE
  <2>1. 0 \in Nat /\ 0 <= 100 /\ Affords(price, cap, 0)
    BY AffordsNothing
  <2>2. floor # <<>> /\ floor[1] >= l
    BY <1>1
  <2>3. ShortRoom(price, floor, cap) \in Nat /\ ShortRoom(price, floor, cap) >= floor[1]
    BY <1>0, <1>1, <1>2, <2>1, <2>2, ShortRoomFacts
  <2>4. g.target = ShortRoom(price, floor, cap)
    BY <1>2 DEF ShortImmediate
  <2>5. floor[1] \in Nat /\ l \in Nat
    BY <1>1, <1>8, <2>2
  <2> QED
    BY <2>2, <2>3, <2>4, <2>5
<1>3. ASSUME NEW i \in 1..Len(floor), g = ShortBreakdown(floor, i, gap, cap),
             ShortLeg(floor, i, cap, t), ~ShortFar(price, floor, i, cap)
      PROVE  FALSE
  <2>1. g.entry = floor[i] /\ g.target = ShortLegTarget(floor, i, cap)
    BY <1>3 DEF ShortBreakdown
  <2>2. floor[i] \in Nat /\ l \in Nat /\ floor[i] >= 8500
    <3>1. floor \in Seq(Nat) /\ \A j \in 1..Len(floor) : floor[j] <= price
      BY <1>1
    <3>2. ShortLeg(floor, i, cap, t) /\ ~ShortFar(price, floor, i, cap)
      BY <1>3
    <3> HIDE DEF g
    <3>3. floor[i] \in Nat /\ floor[i] >= 8500
      BY <1>0, <3>1, <3>2, ShortRungFacts
    <3> QED
      BY <1>8, <3>3
  <2>3. l < floor[i] /\ ~Merges(l, floor[i])
    <3> DEFINE w == floor[i]
    <3>1. w \in Nat /\ w >= 8500 /\ 1000 * l <= 994 * w
      BY <2>1, <2>2
    <3>2. l < w /\ ~Merges(l, w)
      <4> HIDE DEF w
      <4> QED
        BY <2>2, <3>1 DEF Merges
    <3> QED
      BY <3>2
  <2>4. i < Len(floor) /\ floor[i + 1] >= l
    BY <1>1, <2>3
  <2>5. floor[i + 1] \in Nat
    BY <1>1, <2>4
  <2>6. ShortLegTarget(floor, i, cap) = Over(floor[i + 1])
    BY <2>4 DEF ShortLegTarget
  <2>7. Over(floor[i + 1]) >= floor[i + 1] /\ Over(floor[i + 1]) \in Nat
    <3> DEFINE w == floor[i + 1]
    <3>1. Over(w) >= w /\ Over(w) \in Nat
      <4> HIDE DEF w
      <4>1. w \in Nat
        BY <2>5 DEF w
      <4>2. Over(w) \in Nat
        BY <4>1, OverIsNat
      <4>3. Over(w) >= w
        BY <4>1, OverFacts
      <4> QED
        BY <4>2, <4>3
    <3> QED
      BY <3>1
  <2> QED
    BY <2>1, <2>2, <2>4, <2>5, <2>6, <2>7
<1>4. \/ /\ g = ShortImmediate(price, gap, ShortRoom(price, floor, cap))
         /\ HasShortRoom(price, floor, t)
      \/ \E i \in 1..Len(floor) : /\ g = ShortBreakdown(floor, i, gap, cap)
                                  /\ ShortLeg(floor, i, cap, t)
                                  /\ ~ShortFar(price, floor, i, cap)
  <2>1. g # ShortNoTrade(price, floor, gap)
    BY DEF ShortNoTrade
  <2> QED
    BY <1>1, <2>1, ShortShapes
<1> QED
  BY <1>2, <1>3, <1>4

LEMMA ShortSizedReward ==
  ASSUME NEW price \in Nat, price >= 10000, NEW floor \in Seq(Nat),
         NEW atr \in Nat, NEW t \in Paces,
         NEW cap \in Nat, Capped(cap), NEW gap \in Nat, gap >= 100,
         Sized(price, atr, t, cap, gap), HasShortRoom(price, floor, t)
  PROVE  LET g == ShortImmediate(price, gap, ShortRoom(price, floor, cap))
         IN  g.entry - g.target < 3 * (g.stop - g.entry)
<1> DEFINE room == ShortRoom(price, floor, cap)
<1>1. room \in Nat /\ WithinBudget(price, cap, price - room)
  <2>1. 0 \in Nat /\ 0 <= 100 /\ Affords(price, cap, 0)
    BY AffordsNothing
  <2> QED
    BY <2>1, ShortRoomFacts
<1>2. price - room < 3 * gap
  <2> HIDE DEF room
  <2> QED
    BY <1>1, BudgetPays
<1>3. (price + gap) - price = gap
  OBVIOUS
<1> QED
  BY <1>2, <1>3 DEF ShortImmediate

\* An immediate short plan never pays three times its risk either.
THEOREM ShortRewardBounded ==
  ASSUME NEW m, m.atr \in Nat \cup {None}, m.median \in Nat \cup {None},
         NEW price \in Nat, price >= 100 * Cent, NEW floor \in Seq(Nat),
         \A i \in 1..Len(floor) : floor[i] <= price,
         NEW t \in Paces, StopGap(m, price, t) >= Cent,
         NEW countertrend \in BOOLEAN, NEW spent \in BOOLEAN,
         ShortGeometry(price, floor, StopGap(m, price, t), Cap(m, t), t,
                       countertrend, spent).kind = "immediate"
  PROVE  LET g == ShortGeometry(price, floor, StopGap(m, price, t), Cap(m, t), t,
                                countertrend, spent)
         IN  g.entry - g.target < 3 * (g.stop - g.entry)
<1> DEFINE atr == LiveAtr(m)
           cap == Cap(m, t)
           gap == StopGap(m, price, t)
           g == ShortGeometry(price, floor, gap, cap, t, countertrend, spent)
<1>1. /\ atr \in Nat /\ cap \in Nat /\ gap \in Nat /\ gap >= 100
      /\ Sized(price, atr, t, cap, gap)
  BY SizedByOneAtr DEF Cent
<1>2. price >= 10000 /\ g.kind = "immediate"
  BY DEF Cent
<1> HIDE DEF atr, cap, gap
<1>3. Capped(cap)
  BY <1>1, PaceFacts DEF Capped, Sized
<1>4. g = ShortImmediate(price, gap, ShortRoom(price, floor, cap)) /\ HasShortRoom(price, floor, t)
  <2>1. /\ g # ShortNoTrade(price, floor, gap)
        /\ \A i \in 1..Len(floor) : g # ShortBreakdown(floor, i, gap, cap)
    BY <1>2 DEF ShortNoTrade, ShortBreakdown
  <2> QED
    BY <1>1, <2>1, ShortShapes
<1>5. g.entry - g.target < 3 * (g.stop - g.entry)
  <2>1. LET i == ShortImmediate(price, gap, ShortRoom(price, floor, cap))
        IN  i.entry - i.target < 3 * (i.stop - i.entry)
    <3> HIDE DEF g
    <3> QED
      BY <1>1, <1>2, <1>3, <1>4, ShortSizedReward
  <2> QED
    BY <1>4, <2>1
<1> QED
  BY <1>5 DEF cap, gap

=============================================================================
