------------------------- MODULE SwingRadarProofs -------------------------
(* What the plans of any name satisfy, and what a bot that holds one had    *)
(* reason to: the invariants of SwingRadar for every set of analyses and    *)
(* prices, on the geometry PlanGeometryProofs proves.                       *)
EXTENDS SwingRadar, PlanGeometryProofs

-----------------------------------------------------------------------------
(* Sums of weights.                                                        *)

Pick(s) == CHOOSE x \in s : TRUE

\* h sums w over the subsets of S with at most n members.
SumsUpTo(h, w, S, n) ==
  LET Small == {s \in SUBSET S : Cardinality(s) <= n}
  IN  /\ h \in [Small -> Nat]
      /\ \A s \in Small : h[s] = IF s = {} THEN 0 ELSE w[Pick(s)] + h[s \ {Pick(s)}]

LEMMA PickLess ==
  ASSUME NEW S, IsFiniteSet(S), NEW s \in SUBSET S, s # {}
  PROVE  /\ Pick(s) \in s /\ s \ {Pick(s)} \in SUBSET S
         /\ Cardinality(s) \in Nat /\ Cardinality(s \ {Pick(s)}) = Cardinality(s) - 1
<1>1. Pick(s) \in s
  BY DEF Pick
<1>2. IsFiniteSet(s)
  BY FS_Subset
<1> QED
  BY <1>1, <1>2, FS_CardinalityType, FS_RemoveElement

LEMMA SumsBegin ==
  ASSUME NEW S, IsFiniteSet(S), NEW w \in [S -> Nat]
  PROVE  \E h : SumsUpTo(h, w, S, 0)
<1> DEFINE Small == {s \in SUBSET S : Cardinality(s) <= 0}
           h == [s \in Small |-> 0]
<1>1. \A s \in Small : s = {}
  <2>1. ASSUME NEW s \in SUBSET S, s # {}, Cardinality(s) <= 0 PROVE FALSE
    BY <2>1, PickLess, FS_EmptySet, FS_Subset, FS_CardinalityType
  <2> QED
    BY <2>1
<1>2. h \in [Small -> Nat] /\ \A s \in Small : h[s] = 0
  OBVIOUS
<1> HIDE DEF h
<1>3. SumsUpTo(h, w, S, 0)
  BY <1>1, <1>2 DEF SumsUpTo
<1> QED
  BY <1>3

LEMMA SumsGrow ==
  ASSUME NEW S, IsFiniteSet(S), NEW w \in [S -> Nat], NEW n \in Nat,
         NEW h, SumsUpTo(h, w, S, n)
  PROVE  \E g : SumsUpTo(g, w, S, n + 1)
<1> DEFINE Small == {s \in SUBSET S : Cardinality(s) <= n}
           Next1 == {s \in SUBSET S : Cardinality(s) <= n + 1}
           g == [s \in Next1 |-> IF Cardinality(s) <= n THEN h[s]
                                 ELSE w[Pick(s)] + h[s \ {Pick(s)}]]
<1>1. h \in [Small -> Nat]
      /\ \A s \in Small : h[s] = IF s = {} THEN 0 ELSE w[Pick(s)] + h[s \ {Pick(s)}]
  BY DEF SumsUpTo
<1>2. \A s \in Next1 : s # {} => /\ Pick(s) \in S /\ s \ {Pick(s)} \in Small
                                 /\ s \ {Pick(s)} \in Next1
                                 /\ Cardinality(s \ {Pick(s)}) <= n
  BY PickLess
<1>3. {} \in Small /\ Cardinality({}) <= n
  BY FS_EmptySet
<1>4. \A s \in Next1 : g[s] = IF Cardinality(s) <= n THEN h[s]
                                 ELSE w[Pick(s)] + h[s \ {Pick(s)}]
  OBVIOUS
<1>5. \A s \in Next1 : g[s] \in Nat
  <2>1. ASSUME NEW s \in Next1 PROVE g[s] \in Nat
    <3>1. CASE Cardinality(s) <= n
      BY <1>1, <1>4, <3>1
    <3>2. CASE ~(Cardinality(s) <= n)
      <4>1. s # {}
        BY <1>3, <3>2
      <4>2. w[Pick(s)] \in Nat /\ h[s \ {Pick(s)}] \in Nat
        BY <1>1, <1>2, <4>1
      <4> QED
        BY <1>4, <3>2, <4>2
    <3> QED
      BY <3>1, <3>2
  <2> QED
    BY <2>1
<1>6. g \in [Next1 -> Nat]
  BY <1>5
<1>7. \A s \in Next1 : g[s] = IF s = {} THEN 0 ELSE w[Pick(s)] + g[s \ {Pick(s)}]
  <2>1. ASSUME NEW s \in Next1 PROVE g[s] = IF s = {} THEN 0 ELSE w[Pick(s)] + g[s \ {Pick(s)}]
    <3>1. CASE s = {}
      BY <1>1, <1>3, <1>4, <3>1
    <3>2. CASE s # {}
      <4>1. g[s \ {Pick(s)}] = h[s \ {Pick(s)}]
        BY <1>2, <1>4, <3>2
      <4>2. g[s] = w[Pick(s)] + h[s \ {Pick(s)}]
        BY <1>1, <1>4, <3>2
      <4> QED
        BY <3>2, <4>1, <4>2
    <3> QED
      BY <3>1, <3>2
  <2> QED
    BY <2>1
<1> HIDE DEF g
<1>8. SumsUpTo(g, w, S, n + 1)
  BY <1>6, <1>7 DEF SumsUpTo
<1> QED
  BY <1>8

LEMMA SumsExist ==
  ASSUME NEW S, IsFiniteSet(S), NEW w \in [S -> Nat], NEW n \in Nat
  PROVE  \E h : SumsUpTo(h, w, S, n)
<1> DEFINE Bad == {k \in Nat : ~\E h : SumsUpTo(h, w, S, k)}
<1>1. SUFFICES ASSUME Bad # {} PROVE FALSE
  OBVIOUS
<1>2. PICK k \in Bad : \A j \in Bad : k <= j
  <2>1. Bad \subseteq Nat
    OBVIOUS
  <2> HIDE DEF Bad
  <2> QED
    BY <1>1, <2>1, LeastExists
<1>3. k # 0
  BY SumsBegin
<1>4. k - 1 \in Nat /\ k - 1 \notin Bad
  BY <1>2, <1>3
<1>5. PICK h : SumsUpTo(h, w, S, k - 1)
  BY <1>4
<1>6. \E g : SumsUpTo(g, w, S, (k - 1) + 1)
  BY <1>4, <1>5, SumsGrow
<1>7. (k - 1) + 1 = k
  BY <1>4
<1> QED
  BY <1>6, <1>7

\* What SumFunctionOnSet computes, one member at a time.
Sums(f, w, S) ==
  \A s \in SUBSET S : f[s] = IF s = {} THEN 0 ELSE w[Pick(s)] + f[s \ {Pick(s)}]

SumTable(f, w, S) == f \in [SUBSET S -> Nat] /\ Sums(f, w, S)

LEMMA TablesAgree ==
  ASSUME NEW S, IsFiniteSet(S), NEW w, NEW h, SumTable(h, w, S), NEW f, Sums(f, w, S)
  PROVE  \A s \in SUBSET S : f[s] = h[s]
<1> DEFINE Bad == {n \in Nat : \E s \in SUBSET S : Cardinality(s) = n /\ f[s] # h[s]}
<1>1. SUFFICES ASSUME Bad # {} PROVE FALSE
  <2>1. \A s \in SUBSET S : Cardinality(s) \in Nat
    BY FS_Subset, FS_CardinalityType
  <2> QED
    BY <2>1
<1>2. PICK n \in Bad : \A j \in Bad : n <= j
  <2>1. Bad \subseteq Nat
    OBVIOUS
  <2> HIDE DEF Bad
  <2> QED
    BY <1>1, <2>1, LeastExists
<1>3. PICK s \in SUBSET S : Cardinality(s) = n /\ f[s] # h[s]
  BY <1>2
<1>4. s # {}
  BY <1>3 DEF SumTable, Sums
<1>5. s \ {Pick(s)} \in SUBSET S /\ Cardinality(s \ {Pick(s)}) = n - 1 /\ n - 1 \in Nat
  <2>1. n \in Nat /\ n # 0
    BY <1>3, <1>4, FS_Subset, FS_EmptySet
  <2> QED
    BY <1>3, <1>4, <2>1, PickLess
<1>6. n - 1 \notin Bad
  BY <1>2, <1>5
<1>7. f[s \ {Pick(s)}] = h[s \ {Pick(s)}]
  BY <1>5, <1>6
<1> QED
  BY <1>3, <1>4, <1>7 DEF SumTable, Sums

LEMMA SumIsTabled ==
  ASSUME NEW S, IsFiniteSet(S), NEW w \in [S -> Nat]
  PROVE  \E f : SumTable(f, w, S) /\ SumFunctionOnSet(w, S) = f[S]
<1> DEFINE IsTable(f) ==
             f = [s \in SUBSET S |->
                    IF s = {} THEN 0
                    ELSE w[CHOOSE x \in s : TRUE] + f[s \ {CHOOSE x \in s : TRUE}]]
           f == CHOOSE f : IsTable(f)
<1>1. SumFunctionOnSet(w, S) = f[S]
  BY DEF SumFunctionOnSet, FoldFunctionOnSet, MapThenFoldSet
<1>2. PICK h : SumTable(h, w, S)
  <2>1. Cardinality(S) \in Nat
    BY FS_CardinalityType
  <2>2. PICK h : SumsUpTo(h, w, S, Cardinality(S))
    BY <2>1, SumsExist
  <2>3. {s \in SUBSET S : Cardinality(s) <= Cardinality(S)} = SUBSET S
    BY FS_Subset
  <2>4. SumTable(h, w, S)
    BY <2>2, <2>3 DEF SumsUpTo, SumTable, Sums
  <2> QED
    BY <2>4
<1>3. IsTable(h)
  BY <1>2 DEF SumTable, Sums, Pick
<1>4. IsTable(f)
  <2> HIDE DEF IsTable
  <2> QED
    BY <1>3
<1>5. \A s \in SUBSET S : f[s] = IF s = {} THEN 0 ELSE w[Pick(s)] + f[s \ {Pick(s)}]
  <2> HIDE DEF f
  <2>1. \A s \in SUBSET S :
          f[s] = IF s = {} THEN 0
                 ELSE w[CHOOSE x \in s : TRUE] + f[s \ {CHOOSE x \in s : TRUE}]
    BY <1>4
  <2> QED
    BY <2>1 DEF Pick
<1>6. Sums(f, w, S)
  BY <1>5 DEF Sums
<1> HIDE DEF f
<1>7. f[S] = h[S]
  <2>1. \A s \in SUBSET S : f[s] = h[s]
    BY <1>2, <1>6, TablesAgree
  <2> QED
    BY <2>1
<1> QED
  BY <1>1, <1>2, <1>7

\* No member counts for more than the whole.
LEMMA SumHolds ==
  ASSUME NEW S, IsFiniteSet(S), NEW w \in [S -> Nat]
  PROVE  /\ SumFunctionOnSet(w, S) \in Nat
         /\ \A x \in S : w[x] <= SumFunctionOnSet(w, S)
<1>1. PICK f : SumTable(f, w, S) /\ SumFunctionOnSet(w, S) = f[S]
  BY SumIsTabled
<1> DEFINE Bad == {n \in Nat : \E s \in SUBSET S :
                     Cardinality(s) = n /\ \E x \in s : ~(w[x] <= f[s])}
<1>2. Bad = {}
  <2>1. SUFFICES ASSUME Bad # {} PROVE FALSE
    OBVIOUS
  <2>2. PICK n \in Bad : \A j \in Bad : n <= j
    <3>1. Bad \subseteq Nat
      OBVIOUS
    <3> HIDE DEF Bad
    <3> QED
      BY <2>1, <3>1, LeastExists
  <2>3. PICK s \in SUBSET S : Cardinality(s) = n /\ \E x \in s : ~(w[x] <= f[s])
    BY <2>2
  <2>4. PICK x \in s : ~(w[x] <= f[s])
    BY <2>3
  <2>5. Cardinality(s) = n /\ x \in s /\ ~(w[x] <= f[s])
    BY <2>3, <2>4
  <2>6. /\ Pick(s) \in s /\ s \ {Pick(s)} \in SUBSET S
        /\ Cardinality(s \ {Pick(s)}) = n - 1
    BY <2>5, PickLess
  <2>7. f[s] = w[Pick(s)] + f[s \ {Pick(s)}] /\ w[Pick(s)] \in Nat /\ f[s \ {Pick(s)}] \in Nat
        /\ w[x] \in Nat
    BY <1>1, <2>5, <2>6 DEF SumTable, Sums
  <2>8. x \in s \ {Pick(s)}
    BY <2>5, <2>7
  <2>9. n - 1 \in Nat
    BY <2>6, <2>8, FS_Subset, FS_CardinalityType
  <2>10. n - 1 \notin Bad
    BY <2>2, <2>9
  <2>11. w[x] <= f[s \ {Pick(s)}]
    BY <2>6, <2>8, <2>9, <2>10
  <2> QED
    BY <2>5, <2>7, <2>11
<1>3. \A x \in S : w[x] <= f[S]
  <2>1. Cardinality(S) \in Nat /\ Cardinality(S) \notin Bad
    BY <1>2, FS_CardinalityType
  <2> QED
    BY <2>1
<1> QED
  BY <1>1, <1>3 DEF SumTable

LEMMA SumFunctionIsNat ==
  ASSUME NEW S, IsFiniteSet(S), NEW w \in [S -> Nat]
  PROVE  /\ SumFunction(w) \in Nat
         /\ \A x \in S : w[x] <= SumFunction(w)
<1>1. SumFunction(w) = SumFunctionOnSet(w, S)
  BY DEF SumFunction
<1> QED
  BY <1>1, SumHolds

-----------------------------------------------------------------------------
(* The score of a name with history.                                       *)

Weighted(rows) == IsFiniteSet(rows) /\ \A r \in rows : r.weight \in Nat

\* A checklist with something to score.
Scored(rows) == Weighted(rows) /\ \E r \in rows : r.weight >= 1

LEMMA PercentIsNat ==
  ASSUME NEW rows, Scored(rows)
  PROVE  Percent(rows) \in Nat
<1> DEFINE p == [r \in rows |-> IF r.na THEN r.weight ELSE 2 * r.weight]
           e == [r \in rows |-> IF r.ok THEN 2 * r.weight ELSE 0]
           possible == SumFunction(p)
           earned == SumFunction(e)
<1>1. p \in [rows -> Nat] /\ e \in [rows -> Nat]
  BY DEF Scored, Weighted
<1>2. PICK r \in rows : r.weight >= 1
  BY DEF Scored, Weighted
<1>3. possible \in Nat /\ p[r] <= possible
  <2> HIDE DEF p
  <2> QED
    BY <1>1, SumFunctionIsNat DEF Scored, Weighted
<1>4. earned \in Nat
  <2> HIDE DEF e
  <2> QED
    BY <1>1, SumFunctionIsNat DEF Scored, Weighted
<1>5. p[r] >= 1
  BY <1>2 DEF Scored, Weighted
<1>6. possible >= 1
  <2>1. p[r] \in Nat
    BY <1>1
  <2> HIDE DEF p, possible
  <2> QED
    BY <1>3, <1>5, <2>1
<1>7. Percent(rows) = (200 * earned + possible) \div (2 * possible)
  BY DEF Percent
<1> HIDE DEF possible, earned
<1> QED
  BY <1>3, <1>4, <1>6, <1>7

LEMMA MatureScoreIsPercent ==
  ASSUME NEW rows, Scored(rows), NEW g, NEW present, NEW countertrend
  PROVE  /\ MatureScore(rows, g, present, countertrend) \in 0..100
         /\ 100 * Distance(g.target, g.entry) < 3 * g.entry
              => MatureScore(rows, g, present, countertrend) <= 40
<1> DEFINE b == Bonus(rows, present, countertrend)
           p == Percent(rows)
           full == Lesser(100, p + b)
           small == 100 * Distance(g.target, g.entry) < 3 * g.entry
<1>1. p \in Nat
  BY PercentIsNat
<1>2. b \in Nat
  BY DEF Bonus
<1>3. full \in 0..100
  <2> HIDE DEF b, p
  <2> QED
    BY <1>1, <1>2 DEF Lesser
<1>4. MatureScore(rows, g, present, countertrend) = IF small THEN Lesser(full, 40) ELSE full
  BY DEF MatureScore
<1> HIDE DEF full, small
<1>5. /\ (IF small THEN Lesser(full, 40) ELSE full) \in 0..100
      /\ small => (IF small THEN Lesser(full, 40) ELSE full) <= 40
  BY <1>3 DEF Lesser
<1> QED
  BY <1>4, <1>5 DEF small

LEMMA WeightedUnion ==
  ASSUME NEW A, NEW B, Weighted(A), Weighted(B)
  PROVE  Weighted(A \cup B)
BY FS_Union DEF Weighted

LEMMA WeightedWhen ==
  ASSUME NEW c, NEW A, Weighted(A)
  PROVE  Weighted(When(c, A))
BY FS_EmptySet DEF Weighted, When

LEMMA WeightedRow ==
  ASSUME NEW name, NEW ok, NEW weight \in Nat
  PROVE  Weighted({Row(name, ok, weight)})
<1>1. IsFiniteSet({Row(name, ok, weight)})
  BY FS_Singleton
<1>2. Row(name, ok, weight).weight = weight
  BY DEF Row
<1> QED
  BY <1>1, <1>2 DEF Weighted

LEMMA WeightedLine ==
  ASSUME NEW name, NEW where, NEW weight \in Nat, NEW bull
  PROVE  Weighted({LineRow(name, where, weight, bull)})
<1>1. IsFiniteSet({LineRow(name, where, weight, bull)})
  BY FS_Singleton
<1>2. LineRow(name, where, weight, bull).weight = weight
  BY DEF LineRow, Row, MissingRow
<1> QED
  BY <1>1, <1>2 DEF Weighted

LEMMA WeightedFrames ==
  ASSUME NEW f, NEW bull
  PROVE  Weighted(FrameRows(f, bull))
<1> DEFINE rows(k) ==
             LET w == FrameWeights[k]
             IN  When(w.name \in DOMAIN f.frames,
                      {LineRow(w.name \o " MA", f.frames[w.name].ma, w.ma, bull),
                       LineRow(w.name \o " MACD", f.frames[w.name].macd, w.macd, bull)})
<1>1. FrameRows(f, bull) = rows("five") \cup rows("half") \cup rows("year")
  <2>1. DOMAIN FrameWeights = {"five", "half", "year"}
    BY DEF FrameWeights
  <2>2. FrameRows(f, bull) = UNION {rows(k) : k \in DOMAIN FrameWeights}
    BY Zenon DEF FrameRows
  <2> HIDE DEF rows
  <2> QED
    BY <2>1, <2>2
<1>2. ASSUME NEW k \in {"five", "half", "year"} PROVE Weighted(rows(k))
  <2> DEFINE w == FrameWeights[k]
             a == LineRow(w.name \o " MA", f.frames[w.name].ma, w.ma, bull)
             b == LineRow(w.name \o " MACD", f.frames[w.name].macd, w.macd, bull)
  <2>1. w.ma \in Nat /\ w.macd \in Nat
    BY <1>2 DEF FrameWeights
  <2>2. Weighted({a}) /\ Weighted({b})
    <3> HIDE DEF w
    <3> QED
      BY <2>1, WeightedLine
  <2>3. Weighted({a, b})
    <3> HIDE DEF a, b
    <3>1. {a, b} = {a} \cup {b}
      OBVIOUS
    <3> QED
      BY <2>2, <3>1, WeightedUnion
  <2>4. rows(k) = When(w.name \in DOMAIN f.frames, {a, b})
    OBVIOUS
  <2> HIDE DEF a, b, w, rows
  <2> QED
    BY <2>3, <2>4, WeightedWhen
<1> HIDE DEF rows
<1> QED
  BY <1>1, <1>2, WeightedUnion

LEMMA WeightedDaily ==
  ASSUME NEW f, NEW bull
  PROVE  Weighted(DailyRows(f, bull))
<1>1. 5 \in Nat /\ 6 \in Nat
  OBVIOUS
<1> QED
  BY <1>1, WeightedRow, WeightedWhen, WeightedUnion DEF DailyRows

LEMMA ChecklistIsScored ==
  ASSUME NEW f, NEW g, NEW price, NEW levels, NEW bull, NEW present, NEW countertrend
  PROVE  Scored(Checklist(f, g, price, levels, bull, present, countertrend))
<1> DEFINE w == IF countertrend THEN 8 ELSE 15
           first == Row("Valid setup", present, w)
           second == Row("Reward", RewardAtLeast(g, 3), 12)
           third == Row("Clear path", ClearPath(g, levels), 8)
           rows == Checklist(f, g, price, levels, bull, present, countertrend)
<1>1. w \in Nat /\ w >= 1
  OBVIOUS
<1>2. first.weight = w
  BY DEF Row
<1>3. first \in rows
  BY Zenon DEF Checklist
<1>4. Weighted({first, second, third})
  <2>1. Weighted({first}) /\ Weighted({second}) /\ Weighted({third})
    <3>1. 8 \in Nat /\ 12 \in Nat
      OBVIOUS
    <3> HIDE DEF w
    <3> QED
      BY <1>1, <3>1, WeightedRow
  <2> HIDE DEF first, second, third
  <2>2. {first, second, third} = {first} \cup ({second} \cup {third})
    OBVIOUS
  <2>3. Weighted({second} \cup {third})
    BY <2>1, WeightedUnion
  <2>4. Weighted({first} \cup ({second} \cup {third}))
    BY <2>1, <2>3, WeightedUnion
  <2> QED
    BY <2>2, <2>4
<1>5. Weighted(rows)
  <2>1. /\ 10 \in Nat /\ 9 \in Nat /\ 6 \in Nat /\ 4 \in Nat
    OBVIOUS
  <2> HIDE DEF w
  <2> DEFINE r1 == When(f.month # None,
                        {Row("No crash snapback", ~CrashBlock(f, price, g, bull), 10)})
             r2 == When(f.rsi # None, {Row("Rebound: rsi", SoftRsi(f, bull), 9)})
             r3 == When(f.range # None, {Row("Rebound: range", RoomInRange(f, g, bull), 9)})
             r4 == When(f.biases # <<>>, {Row("Engine bias agrees", BiasAgrees(f, bull), 6)})
             r5 == When(f.rsi # None, {Row("RSI sane", RsiSane(f, bull), 4)})
             r6 == When(f.daily, DailyRows(f, bull))
             r7 == {Row("No conflict", IF bull THEN f.investor >= 45 ELSE f.investor <= 55, 4)}
             r8 == When(f.sentiment # None,
                        {Row("Tailwind", IF bull THEN f.sentiment >= 5 ELSE f.sentiment <= -5, 6)})
  <2>2. /\ Weighted(r1) /\ Weighted(r2) /\ Weighted(r3) /\ Weighted(r4) /\ Weighted(r5)
        /\ Weighted(r6) /\ Weighted(r7) /\ Weighted(r8)
    BY <2>1, WeightedRow, WeightedWhen, WeightedDaily
  <2>3. rows = {first, second, third} \cup r1 \cup r2 \cup r3 \cup FrameRows(f, bull)
                 \cup r4 \cup r5 \cup r6 \cup r7 \cup r8
    BY Zenon DEF Checklist, w
  <2> HIDE DEF r1, r2, r3, r4, r5, r6, r7, r8, rows, first, second, third
  <2> QED
    BY <1>4, <2>2, <2>3, WeightedFrames, WeightedUnion
<1>6. \E r \in rows : r.weight >= 1
  <2> HIDE DEF w, first, rows
  <2> QED
    BY <1>1, <1>2, <1>3
<1> QED
  BY <1>5, <1>6, Zenon DEF Scored

-----------------------------------------------------------------------------
(* The demand read of a name without history.                              *)

Bars(bars) ==
  /\ bars \in Seq(Bar) /\ bars # <<>>
  /\ \A i \in DOMAIN bars : bars[i].low <= bars[i].close /\ bars[i].close <= bars[i].high

LEMMA BarsFacts ==
  ASSUME NEW bars, Bars(bars)
  PROVE  /\ Len(bars) \in Nat /\ Len(bars) >= 1 /\ DOMAIN bars = 1..Len(bars)
         /\ IsFiniteSet(DOMAIN bars) /\ 1 \in DOMAIN bars
         /\ \A i \in DOMAIN bars : bars[i] \in Bar
<1>1. Len(bars) \in Nat /\ Len(bars) >= 1 /\ DOMAIN bars = 1..Len(bars)
  BY DEF Bars
<1>2. IsFiniteSet(1..Len(bars))
  <2>1. 1 \in Int /\ Len(bars) \in Int
    BY <1>1
  <2> QED
    BY <2>1, FS_Interval
<1>3. 1 \in DOMAIN bars
  BY <1>1
<1>4. \A i \in DOMAIN bars : bars[i] \in Bar
  BY DEF Bars
<1> QED
  BY <1>1, <1>2, <1>3, <1>4

LEMMA SubsetCounts ==
  ASSUME NEW S, IsFiniteSet(S), NEW T, T \subseteq S
  PROVE  Cardinality(T) \in Nat
BY FS_Subset, FS_CardinalityType

LEMMA AccumulationIsNat ==
  ASSUME NEW bars, Bars(bars), NEW anchor
  PROVE  Accumulation(bars, anchor) \in Nat
<1> DEFINE n == Len(bars)
           higher == Cardinality({i \in 2..n : bars[i].low >= bars[i-1].low})
           above == Cardinality({i \in 1..n : bars[i].close >= anchor})
<1>1. n \in Nat /\ n >= 1 /\ IsFiniteSet(1..n)
  BY BarsFacts
<1>2. higher \in Nat
  <2>1. {i \in 2..n : bars[i].low >= bars[i-1].low} \subseteq 1..n
    BY <1>1
  <2> QED
    BY <1>1, <2>1, SubsetCounts
<1>3. above \in Nat
  <2>1. {i \in 1..n : bars[i].close >= anchor} \subseteq 1..n
    OBVIOUS
  <2> QED
    BY <1>1, <2>1, SubsetCounts
<1>4. Accumulation(bars, anchor)
        = (IF n >= 2 THEN (600 * higher) \div (n - 1) ELSE 300) + (400 * above) \div n
  BY DEF Accumulation
<1> HIDE DEF n, higher, above
<1>5. (400 * above) \div n \in Nat
  <2>1. 400 * above \in Nat
    BY <1>3
  <2> QED
    BY <1>1, <2>1
<1>6. n >= 2 => (600 * higher) \div (n - 1) \in Nat
  <2>1. 600 * higher \in Nat
    BY <1>2
  <2> QED
    BY <1>1, <2>1
<1> QED
  BY <1>4, <1>5, <1>6

LEMMA CloseInRangeIsNat ==
  ASSUME NEW bar \in Bar, bar.low <= bar.close, bar.close <= bar.high
  PROVE  CloseInRange(bar) \in Nat
<1> DEFINE low == bar.low
           high == bar.high
           close == bar.close
<1>1. low \in Nat /\ high \in Nat /\ close \in Nat /\ low <= close /\ close <= high
  BY DEF Bar
<1>2. CloseInRange(bar) = IF high = low THEN 500 ELSE (1000 * (close - low)) \div (high - low)
  BY DEF CloseInRange
<1> HIDE DEF low, high, close
<1>3. CASE high # low
  <2>1. 1000 * (close - low) \in Nat /\ high - low \in Nat /\ high - low >= 1
    BY <1>1, <1>3
  <2> QED
    BY <1>2, <1>3, <2>1
<1> QED
  BY <1>2, <1>3

LEMMA ClipIsNat ==
  ASSUME NEW x \in Int
  PROVE  Clip(x) \in Nat
BY DEF Clip, Greater, Lesser

LEMMA CloseStrengthIsNat ==
  ASSUME NEW bars, Bars(bars)
  PROVE  CloseStrength(bars) \in Nat
<1> DEFINE S == DOMAIN bars
           v == [i \in S |-> i * CloseInRange(bars[i])]
           w == [i \in S |-> i]
           value == SumFunction(v)
           weight == SumFunction(w)
<1>1. IsFiniteSet(S) /\ 1 \in S /\ S \subseteq Nat
  BY BarsFacts
<1>2. v \in [S -> Nat]
  <2>1. ASSUME NEW i \in S PROVE i * CloseInRange(bars[i]) \in Nat
    <3>1. CloseInRange(bars[i]) \in Nat
      BY BarsFacts, CloseInRangeIsNat DEF Bars
    <3>2. i \in Nat
      BY <1>1
    <3> QED
      BY <3>1, <3>2
  <2> QED
    BY <2>1
<1>3. w \in [S -> Nat] /\ w[1] = 1
  BY <1>1
<1>4. value \in Nat
  <2> HIDE DEF v, S
  <2> QED
    BY <1>1, <1>2, SumFunctionIsNat
<1>5. weight \in Nat /\ w[1] <= weight
  <2> HIDE DEF w, S
  <2> QED
    BY <1>1, <1>3, SumFunctionIsNat
<1>6. CloseStrength(bars) = Clip(value \div weight)
  BY DEF CloseStrength
<1> HIDE DEF value, weight
<1>7. weight >= 1
  BY <1>3, <1>5
<1>8. value \div weight \in Int
  BY <1>4, <1>5, <1>7
<1> QED
  BY <1>6, <1>8, ClipIsNat

LEMMA VolumeIsNat ==
  ASSUME NEW bars, Bars(bars), NEW S, S \subseteq DOMAIN bars
  PROVE  VolumeOf(bars, S) \in Nat
<1> DEFINE v == [i \in S |-> bars[i].volume]
<1>1. IsFiniteSet(S)
  BY BarsFacts, FS_Subset
<1>2. v \in [S -> Nat]
  BY BarsFacts DEF Bar
<1>3. VolumeOf(bars, S) = SumFunction(v)
  BY DEF VolumeOf
<1> HIDE DEF v
<1> QED
  BY <1>1, <1>2, <1>3, SumFunctionIsNat

LEMMA VolumeConfirmationIsNat ==
  ASSUME NEW bars, Bars(bars)
  PROVE  VolumeConfirmation(bars) \in Nat
<1> DEFINE total == VolumeOf(bars, DOMAIN bars)
           up == VolumeOf(bars, {i \in DOMAIN bars : bars[i].close > bars[i].open})
           share == (1000 * up) \div total
           fading == Fading(bars)
<1>1. total \in Nat /\ up \in Nat
  BY VolumeIsNat
<1>2. VolumeConfirmation(bars)
        = IF total = 0 THEN 500 ELSE IF fading THEN (7 * share) \div 10 ELSE share
  BY Zenon DEF VolumeConfirmation
<1> HIDE DEF total, up, fading
<1>3. total # 0 => share \in Nat
  <2>1. 1000 * up \in Nat
    BY <1>1
  <2> QED
    BY <1>1, <2>1
<1>4. total # 0 => (7 * share) \div 10 \in Nat
  <2> HIDE DEF share
  <2> QED
    BY <1>3
<1> HIDE DEF share
<1> QED
  BY <1>2, <1>3, <1>4

LEMMA ExtensionGuardIsNat ==
  ASSUME NEW x \in Int
  PROVE  ExtensionGuard(x) \in Nat
BY SMT DEF ExtensionGuard

LEMMA BlendIsNat ==
  ASSUME NEW bars, Bars(bars), NEW anchor \in Price, NEW vwap \in Price \cup {None}
  PROVE  Blend(bars, anchor, vwap) \in Nat
<1> DEFINE last == Last(bars).close
           x == Extension(bars, anchor)
           a == Accumulation(bars, anchor)
           c == CloseStrength(bars)
           v == VolumeConfirmation(bars)
           e == ExtensionGuard(x)
           p == VwapPosition(last, vwap)
           rest == 25 * a + 20 * c + 20 * v + 20 * e
<1>1. last \in Nat
  <2>1. Len(bars) \in DOMAIN bars
    BY BarsFacts
  <2>2. bars[Len(bars)] \in Bar
    BY <2>1, BarsFacts
  <2> QED
    BY <2>2 DEF Last, Bar
<1>2. x \in Int
  <2>1. x = (10000 * (last - anchor)) \div anchor
    BY DEF Extension
  <2>2. anchor \in Nat /\ anchor >= 1
    BY DEF Price
  <2>3. 10000 * (last - anchor) \in Int
    <3> HIDE DEF last
    <3> QED
      BY <1>1, <2>2
  <2> DEFINE gain == 10000 * (last - anchor)
  <2> HIDE DEF gain, x
  <2>4. gain \div anchor \in Int
    BY <2>2, <2>3 DEF gain
  <2> QED
    BY <2>1, <2>4 DEF gain
<1>3. a \in Nat /\ c \in Nat /\ v \in Nat
  BY AccumulationIsNat, CloseStrengthIsNat, VolumeConfirmationIsNat
<1>4. e \in Nat
  <2> HIDE DEF x
  <2> QED
    BY <1>2, ExtensionGuardIsNat
<1>5. p = None \/ p \in Nat
  <2>1. CASE vwap = None
    BY <2>1 DEF VwapPosition
  <2>2. CASE vwap \in Price
    <3>1. vwap \in Nat /\ vwap >= 1
      BY <2>2 DEF Price
    <3>2. 500 + (12500 * (last - vwap)) \div vwap \in Int
      <4> DEFINE gain == 12500 * (last - vwap)
      <4>1. gain \in Int
        <5> HIDE DEF last
        <5> QED
          BY <1>1, <3>1
      <4> HIDE DEF gain
      <4>2. 500 + gain \div vwap \in Int
        BY <3>1, <4>1
      <4> QED
        BY <4>2 DEF gain
    <3>3. Clip(500 + (12500 * (last - vwap)) \div vwap) \in Nat
      BY <3>2, ClipIsNat
    <3> QED
      BY <3>3 DEF VwapPosition
  <2> QED
    BY <2>1, <2>2
<1>6. Blend(bars, anchor, vwap)
        = IF p = None THEN (2 * rest + 850) \div 1700 ELSE (2 * (rest + 15 * p) + 1000) \div 2000
  BY DEF Blend
<1> HIDE DEF p, a, c, v, e
<1>7. rest \in Nat
  BY <1>3, <1>4
<1> HIDE DEF rest
<1> QED
  BY <1>5, <1>6, <1>7

\* What the read replaces a score by.
LEMMA ReadIsPercent ==
  ASSUME NEW bars, Bars(bars), NEW anchor \in Price, NEW vwap \in Price \cup {None}
  PROVE  ScoreEmerging(bars, anchor, vwap).score \in 0..100
<1> DEFINE b == Blend(bars, anchor, vwap)
           c == Confidence(bars)
           x == Extension(bars, anchor) > 2000
           d == Distribution(bars, anchor)
<1>1. b \in Nat
  BY BlendIsNat
<1>2. ScoreEmerging(bars, anchor, vwap) = Verdict(b, c, x, d)
  BY DEF ScoreEmerging
<1> HIDE DEF b, c, x, d
<1>3. Verdict(b, c, x, d).score
        = Lesser(IF d THEN DistributionScoreCap ELSE EmergingScoreCap, b)
  BY DEF Verdict
<1>4. Lesser(IF d THEN DistributionScoreCap ELSE EmergingScoreCap, b) \in 0..100
  BY <1>1 DEF Lesser, DistributionScoreCap, EmergingScoreCap
<1> QED
  BY <1>2, <1>3, <1>4

-----------------------------------------------------------------------------
(* What an analysis gives a plan.                                          *)

IsView(a) ==
  /\ a.levels \subseteq Price /\ a.others \subseteq Price
  /\ a.highs \subseteq Price /\ a.lows \subseteq Price
  /\ IsFiniteSet(a.levels \cup a.others \cup a.highs \cup a.lows)
  /\ a.atr \in Nat \cup {None} /\ a.median \in Nat \cup {None}
  /\ a.chart \in DOMAIN Frames /\ a.longest \in DOMAIN Frames \cup {None}
  /\ a.anchor \in Price \cup {None} /\ a.vwap \in Price \cup {None}
  /\ \A p \in Prices : 7 * p * DampedAtr(a) >= 100000 * Cent

\* The radar's view of an analysis has its levels, volatility and frames.
LEMMA RadarViewKeeps ==
  ASSUME NEW a \in Analysis
  PROVE  LET v == RadarView(a)
         IN  /\ v.levels = a.levels /\ v.others = a.others
             /\ v.highs = a.highs /\ v.lows = a.lows
             /\ v.atr = a.atr /\ v.median = a.median
             /\ v.chart = a.chart /\ v.longest = a.longest
             /\ v.anchor = None /\ v.vwap = None
BY DEF RadarView, Analysis

LEMMA ScenesAreViews ==
  ASSUME NEW a \in Scenes
  PROVE  IsView(a) /\ IsView(RadarView(a))
<1>1. a \in Analysis /\ IsFiniteSet(a.levels \cup a.others \cup a.highs \cup a.lows)
  BY ScenesAssumption
<1>2. /\ a.levels \subseteq Price /\ a.others \subseteq Price
      /\ a.highs \subseteq Price /\ a.lows \subseteq Price
  BY <1>1 DEF Analysis
<1>3. /\ a.atr \in Nat \cup {None} /\ a.median \in Nat \cup {None}
      /\ a.chart \in DOMAIN Frames /\ a.longest \in DOMAIN Frames \cup {None}
      /\ a.anchor \in Price \cup {None} /\ a.vwap \in Price \cup {None}
  BY <1>1 DEF Analysis
<1>4. IsView(a)
  BY <1>1, <1>2, <1>3, StopsAreACentWide DEF IsView
<1> DEFINE v == RadarView(a)
<1>5. /\ v.levels = a.levels /\ v.others = a.others
      /\ v.highs = a.highs /\ v.lows = a.lows
      /\ v.atr = a.atr /\ v.median = a.median
      /\ v.chart = a.chart /\ v.longest = a.longest
      /\ v.anchor = None /\ v.vwap = None
  BY <1>1, RadarViewKeeps
<1>6. IsView(v)
  <2> HIDE DEF v
  <2>1. DampedAtr(v) = DampedAtr(a)
    BY <1>5 DEF DampedAtr, LiveAtr
  <2> QED
    BY <1>4, <1>5, <2>1 DEF IsView
<1> QED
  BY <1>4, <1>6

LEMMA PriceFacts ==
  ASSUME NEW p \in Prices
  PROVE  p \in Nat /\ p >= 10000 /\ p >= 100 * Cent
BY PricesAreNotPennies DEF Cent

LEMMA ViewFacts ==
  ASSUME NEW a, IsView(a)
  PROVE  /\ a.atr \in Nat \cup {None} /\ a.median \in Nat \cup {None}
         /\ LiveAtr(a) \in Nat /\ DampedAtr(a) \in Nat /\ DampedAtr(a) <= LiveAtr(a)
<1>1. a.atr \in Nat \cup {None} /\ a.median \in Nat \cup {None}
  BY DEF IsView
<1> QED
  BY <1>1 DEF LiveAtr, DampedAtr, Lesser

LEMMA NoiseIsNat ==
  ASSUME NEW a, IsView(a), NEW p \in Prices
  PROVE  Noise(a, p) \in Nat
<1>1. LiveAtr(a) \in Nat /\ p \in Nat
  BY ViewFacts, PriceFacts
<1> QED
  BY <1>1, TimesIsNat DEF Noise

\* The walls and the supports a plan sees are walks of its levels.
LEMMA WallsAreWalked ==
  ASSUME NEW a, IsView(a), NEW p \in Prices
  PROVE  LET S == RawWalls(a, p, Noise(a, p))
         IN  /\ LieAbove(S, p)
             /\ WalkUp(MergedWalls(a, p, Noise(a, p)), S)
<1> DEFINE noise == Noise(a, p)
           S == RawWalls(a, p, noise)
           All == a.levels \cup a.others \cup a.highs \cup a.lows
<1>1. noise \in Nat /\ p \in Nat
  BY NoiseIsNat, PriceFacts
<1>2. All \subseteq Nat /\ IsFiniteSet(All)
  BY DEF IsView, Price
<1>3. S \subseteq All
  BY DEF RawWalls
<1>4. IsFiniteSet(S) /\ S \subseteq Nat
  <2> HIDE DEF S, All
  <2> QED
    BY <1>2, <1>3, FS_Subset
<1>5. \A l \in S : l > p
  <2> HIDE DEF noise
  <2>1. a.highs \subseteq Nat
    BY <1>2
  <2> QED
    BY <1>1, <2>1 DEF RawWalls
<1>6. WalkUp(Ascending(NearestAbove(S)), S)
  <2> HIDE DEF S
  <2> QED
    BY <1>4, NearestWalk
<1>7. MergedWalls(a, p, noise) = Ascending(NearestAbove(S))
  BY DEF MergedWalls
<1>8. LieAbove(S, p)
  BY <1>4, <1>5 DEF LieAbove
<1> QED
  BY <1>6, <1>7, <1>8

LEMMA FloorIsWalked ==
  ASSUME NEW a, IsView(a), NEW p \in Prices
  PROVE  LET S == RawSupports(a, p, Noise(a, p))
         IN  /\ LieBelow(S, p)
             /\ WalkDown(MergedSupports(a, p, Noise(a, p)), S)
<1> DEFINE noise == Noise(a, p)
           S == RawSupports(a, p, noise)
           All == a.levels \cup a.others \cup a.highs \cup a.lows
<1>1. noise \in Nat /\ p \in Nat
  BY NoiseIsNat, PriceFacts
<1>2. All \subseteq Nat /\ IsFiniteSet(All)
  BY DEF IsView, Price
<1>3. S \subseteq All
  BY DEF RawSupports
<1>4. IsFiniteSet(S) /\ S \subseteq Nat
  <2> HIDE DEF S, All
  <2> QED
    BY <1>2, <1>3, FS_Subset
<1>5. \A l \in S : l <= p
  <2> HIDE DEF noise
  <2>1. a.lows \subseteq Nat /\ a.levels \subseteq Nat /\ a.others \subseteq Nat
    BY <1>2
  <2> QED
    BY <1>1, <2>1 DEF RawSupports
<1>6. WalkDown(Descending(NearestBelow(S)), S)
  <2> HIDE DEF S
  <2> QED
    BY <1>4, NearestWalkDown
<1>7. MergedSupports(a, p, noise) = Descending(NearestBelow(S))
  BY DEF MergedSupports
<1>8. LieBelow(S, p)
  BY <1>4, <1>5 DEF LieBelow
<1> QED
  BY <1>6, <1>7, <1>8

LEMMA PaceBounds ==
  ASSUME NEW t \in Paces
  PROVE  t.stop >= 7 /\ t.root >= 10000 /\ t.cap >= 1000
BY DEF Paces, Tuning

\* The stop of a plan is a cent away at least, and its budget is worth one.
LEMMA SizesAreWide ==
  ASSUME NEW a, IsView(a), NEW p \in Prices, NEW t \in Paces
  PROVE  /\ StopGap(a, p, t) \in Nat /\ StopGap(a, p, t) >= 100
         /\ Cap(a, t) \in Nat /\ Capped(Cap(a, t)) /\ Affords(p, Cap(a, t), 100)
<1> DEFINE live == LiveAtr(a)
           damped == DampedAtr(a)
           gap == StopGap(a, p, t)
           cap == Cap(a, t)
           stop == t.stop
           root == t.root
<1>1. p \in Nat /\ p >= 10000 /\ live \in Nat /\ damped \in Nat /\ damped <= live
  BY PriceFacts, ViewFacts
<1>2. 7 * p * damped >= 10000000
  BY DEF IsView, Cent
<1>3. /\ stop \in Nat /\ stop >= 7 /\ root \in Nat /\ root >= 10000
      /\ t.cap \in Nat /\ t.cap >= 1000 /\ t.cap <= 1500
  BY PaceFacts, PaceBounds
<1>4. p * damped \in Nat /\ p * damped >= 1000000
  <2>1. 7 * p * damped = 7 * (p * damped) /\ p * damped \in Nat
    BY <1>1
  <2> DEFINE x == p * damped
  <2>2. x \in Nat /\ 7 * x >= 10000000
    BY <1>2, <2>1
  <2> HIDE DEF x
  <2>3. x >= 1000000
    BY <2>2
  <2> QED
    BY <2>2, <2>3 DEF x
<1>5. gap \in Nat /\ gap >= 100
  <2>1. p * damped <= p * live /\ p * live \in Nat
    <3> HIDE DEF damped, live
    <3> QED
      BY <1>1
  <2>2. stop * p * live >= 7 * (p * live) /\ stop * p * live \in Nat
    <3> DEFINE y == p * live
    <3>1. stop * p * live = stop * y /\ y \in Nat
      BY <1>1, <1>3
    <3> HIDE DEF y, stop
    <3>2. stop * y >= 7 * y /\ stop * y \in Nat
      BY <1>3, <3>1
    <3> QED
      BY <3>1, <3>2 DEF y
  <2>3. stop * p * live >= 10000000
    <3>1. 7 * (p * live) >= 10000000
      <4> DEFINE x == p * damped
                 y == p * live
      <4>1. x \in Nat /\ y \in Nat /\ x <= y /\ 7 * x >= 10000000
        <5>1. 7 * p * damped = 7 * (p * damped)
          BY <1>1
        <5> QED
          BY <1>2, <1>4, <2>1, <5>1
      <4> HIDE DEF x, y
      <4>2. 7 * y >= 10000000
        BY <4>1
      <4> QED
        BY <4>2 DEF y
    <3> QED
      BY <2>1, <2>2, <3>1
  <2>4. gap = (stop * p * live) \div 100000
    BY DEF StopGap
  <2> DEFINE z == stop * p * live
  <2>5. z \in Nat /\ z >= 10000000 /\ gap = z \div 100000
    BY <2>2, <2>3, <2>4
  <2> HIDE DEF z, gap
  <2> QED
    BY <2>5
<1>6. /\ cap \in Nat /\ cap <= 1500 /\ (cap >= 1000 \/ cap >= damped)
  <2> DEFINE x == damped * root
  <2>1. x \in Nat /\ x >= damped * 10000
    <3> HIDE DEF damped, root
    <3> QED
      BY <1>1, <1>3
  <2>2. cap = Lesser(t.cap, x \div 10000)
    BY DEF Cap
  <2> HIDE DEF x, cap, damped
  <2>3. x \div 10000 \in Nat /\ x \div 10000 >= damped
    BY <1>1, <2>1
  <2> QED
    BY <1>1, <1>3, <2>2, <2>3 DEF Lesser
<1>7. cap * p >= 1000000
  <2>1. CASE cap >= 1000
    <3> HIDE DEF cap
    <3> QED
      BY <1>1, <1>6, <2>1
  <2>2. CASE cap >= damped
    <3>1. cap * p >= damped * p /\ damped * p = p * damped /\ cap * p \in Nat
      <4> HIDE DEF cap, damped
      <4> QED
        BY <1>1, <1>6, <2>2
    <3> DEFINE x == cap * p
               y == damped * p
    <3>2. x \in Nat /\ x >= y /\ y \in Nat /\ y >= 1000000
      BY <1>4, <3>1
    <3> HIDE DEF x, y
    <3>3. x >= 1000000
      BY <3>2
    <3> QED
      BY <3>3 DEF x
  <2> QED
    BY <1>6, <2>1, <2>2
<1> QED
  BY <1>5, <1>6, <1>7 DEF Capped, Affords


-----------------------------------------------------------------------------
(* The levels of a plan before they are rounded.                           *)

Setup(a, price, short) == IF short THEN ShortSetup(a, price) ELSE LongSetup(a, price)

SideGeometry(a, price, t, short) ==
  LET wall == MergedWalls(a, price, Noise(a, price))
      floor == MergedSupports(a, price, Noise(a, price))
      counter == Setup(a, price, short) \in Countertrend
      spent == Overextended(a, short)
  IN  IF short THEN ShortGeometry(price, floor, StopGap(a, price, t), Cap(a, t), t, counter, spent)
      ELSE LongGeometry(price, wall, StopGap(a, price, t), Cap(a, t), t, counter, spent)

\* What a long plan's levels satisfy that proposes a trade.
SoundLong(a, price, t, g) ==
  /\ g.entry - g.stop >= 100 /\ g.target - g.entry >= 100
  /\ 10000 * (g.target - g.entry) <= Cap(a, t) * g.entry
  /\ ClearUp(RawWalls(a, price, Noise(a, price)), g)
  /\ g.kind = "immediate" => g.target - g.entry < 3 * (g.entry - g.stop)

SoundShort(a, price, t, g) ==
  /\ g.stop - g.entry >= 100 /\ g.entry - g.target >= 100
  /\ 10000 * (g.entry - g.target) <= Cap(a, t) * g.entry + 10000
  /\ ClearDown(RawSupports(a, price, Noise(a, price)), g)
  /\ g.kind = "immediate" => g.entry - g.target < 3 * (g.stop - g.entry)

\* An order waits for a leg of three quarters of a move.
WorthALeg(t, g) == 40000 * (g.target - g.entry) >= 3 * t.move * g.entry

LEMMA LongSide ==
  ASSUME NEW a, IsView(a), NEW p \in Prices, NEW t \in Paces
  PROVE  LET g == SideGeometry(a, p, t, FALSE)
         IN  /\ PlanTyped(g)
             /\ g.kind # "no_trade" => SoundLong(a, p, t, g)
             /\ g.kind = "breakout_wait" => ~Overextended(a, FALSE) /\ WorthALeg(t, g)
<1> DEFINE S == RawWalls(a, p, Noise(a, p))
           wall == MergedWalls(a, p, Noise(a, p))
           gap == StopGap(a, p, t)
           cap == Cap(a, t)
           counter == LongSetup(a, p) \in Countertrend
           spent == Overextended(a, FALSE)
           g == LongGeometry(p, wall, gap, cap, t, counter, spent)
<1>1. SideGeometry(a, p, t, FALSE) = g
  BY DEF SideGeometry, Setup
<1>2. LieAbove(S, p) /\ WalkUp(wall, S)
  BY WallsAreWalked
<1>3. wall \in Seq(Nat) /\ \A i \in 1..Len(wall) : wall[i] > p
  <2> HIDE DEF S, wall
  <2>1. wall \in Seq(S)
    BY <1>2 DEF WalkUp
  <2>2. S \subseteq Nat /\ \A l \in S : l > p
    BY <1>2 DEF LieAbove
  <2> QED
    BY <2>1, <2>2, WalkMembers
<1>4. p \in Nat /\ p >= 10000 /\ p >= 100 * Cent
  BY PriceFacts
<1>5. gap \in Nat /\ gap >= 100 /\ cap \in Nat /\ Affords(p, cap, 100)
  BY SizesAreWide
<1>6. counter \in BOOLEAN /\ spent \in BOOLEAN
  BY DEF Overextended
<1>7. a.atr \in Nat \cup {None} /\ a.median \in Nat \cup {None}
  BY DEF IsView
<1>8. PlanTyped(g)
  <2> HIDE DEF wall, gap, cap, counter, spent
  <2> QED
    BY <1>3, <1>4, <1>5, <1>6, LongTyped
<1>9. g.kind # "no_trade" => g.entry - g.stop >= 100 /\ g.target - g.entry >= 100
  <2> HIDE DEF wall, gap, cap, counter, spent
  <2>1. 100 \in Nat /\ 100 >= 1 /\ 100 <= 100
    OBVIOUS
  <2> QED
    BY <1>3, <1>4, <1>5, <1>6, <2>1, LongLevelsOrdered
<1>10. g.kind # "no_trade" => 10000 * (g.target - g.entry) <= cap * g.entry
  <2> HIDE DEF wall, gap, cap, counter, spent
  <2> QED
    BY <1>3, <1>4, <1>5, <1>6, LongTargetInReach
<1>11. g.kind # "no_trade" => ClearUp(S, g)
  <2> HIDE DEF S, wall, gap, cap, counter, spent
  <2> QED
    BY <1>2, <1>4, <1>5, <1>6, LongPathIsClear
<1>12. g.kind = "immediate" => g.target - g.entry < 3 * (g.entry - g.stop)
  <2> HIDE DEF wall, counter, spent
  <2>1. gap >= Cent
    BY <1>5 DEF Cent
  <2> QED
    BY <1>3, <1>4, <1>6, <1>7, <2>1, LongRewardBounded
<1>13. g.kind = "breakout_wait" =>
         ~spent /\ 40000 * (g.target - g.entry) >= 3 * t.move * g.entry
  <2> HIDE DEF wall, gap, cap, counter, spent, g
  <2> SUFFICES ASSUME g.kind = "breakout_wait"
               PROVE  ~spent /\ 40000 * (g.target - g.entry) >= 3 * t.move * g.entry
    OBVIOUS
  <2>1. PICK i \in 1..Len(wall) : g = LongBreakout(wall, i, gap, cap)
                                  /\ LongLeg(wall, i, cap, t) /\ ~spent
    <3>1. \/ g = LongImmediate(p, gap, LongRoom(p, wall, cap))
          \/ g = LongNoTrade(p, wall, gap)
          \/ \E i \in 1..Len(wall) : /\ g = LongBreakout(wall, i, gap, cap)
                                     /\ LongLeg(wall, i, cap, t) /\ ~spent
      BY <1>3, <1>4, <1>5, <1>6, LongShapes DEF g
    <3> QED
      BY <3>1 DEF LongImmediate, LongNoTrade
  <2>2. g.entry = wall[i] /\ g.target = LongLegTarget(wall, i, cap)
    BY <2>1 DEF LongBreakout
  <2> QED
    BY <2>1, <2>2 DEF LongLeg
<1>14. g.kind # "no_trade" => SoundLong(a, p, t, g)
  <2> HIDE DEF g
  <2> QED
    BY <1>9, <1>10, <1>11, <1>12 DEF SoundLong
<1>15. g.kind = "breakout_wait" => ~Overextended(a, FALSE)
  <2> HIDE DEF g
  <2> QED
    BY <1>13 DEF Overextended
<1>16. g.kind = "breakout_wait" => WorthALeg(t, g)
  <2> HIDE DEF g, spent
  <2> QED
    BY <1>13 DEF WorthALeg
<1> QED
  <2> HIDE DEF g
  <2> QED
    BY <1>1, <1>8, <1>14, <1>15, <1>16

LEMMA ShortSide ==
  ASSUME NEW a, IsView(a), NEW p \in Prices, NEW t \in Paces
  PROVE  LET g == SideGeometry(a, p, t, TRUE)
         IN  PlanTyped(g) /\ (g.kind # "no_trade" => SoundShort(a, p, t, g))
<1> DEFINE S == RawSupports(a, p, Noise(a, p))
           floor == MergedSupports(a, p, Noise(a, p))
           gap == StopGap(a, p, t)
           cap == Cap(a, t)
           counter == ShortSetup(a, p) \in Countertrend
           spent == Overextended(a, TRUE)
           g == ShortGeometry(p, floor, gap, cap, t, counter, spent)
<1>1. SideGeometry(a, p, t, TRUE) = g
  BY DEF SideGeometry, Setup
<1>2. LieBelow(S, p) /\ WalkDown(floor, S)
  BY FloorIsWalked
<1>3. floor \in Seq(Nat) /\ \A i \in 1..Len(floor) : floor[i] <= p
  <2> HIDE DEF S, floor
  <2>1. floor \in Seq(S)
    BY <1>2 DEF WalkDown
  <2>2. S \subseteq Nat /\ \A l \in S : l <= p
    BY <1>2 DEF LieBelow
  <2> QED
    BY <2>1, <2>2, WalkMembers
<1>4. p \in Nat /\ p >= 10000 /\ p >= 100 * Cent
  BY PriceFacts
<1>5. gap \in Nat /\ gap >= 100 /\ cap \in Nat /\ Capped(cap) /\ Affords(p, cap, 100)
  BY SizesAreWide
<1>6. counter \in BOOLEAN /\ spent \in BOOLEAN
  BY DEF Overextended
<1>7. a.atr \in Nat \cup {None} /\ a.median \in Nat \cup {None}
  BY DEF IsView
<1>8. PlanTyped(g)
  <2> HIDE DEF floor, gap, cap, counter, spent
  <2> QED
    BY <1>3, <1>4, <1>5, <1>6, ShortTyped
<1>9. g.kind # "no_trade" => g.stop - g.entry >= 100 /\ g.entry - g.target >= 100
  <2> HIDE DEF floor, gap, cap, counter, spent
  <2>1. 100 \in Nat /\ 100 >= 1 /\ 100 <= 100
    OBVIOUS
  <2> QED
    BY <1>3, <1>4, <1>5, <1>6, <2>1, ShortLevelsOrdered
<1>10. g.kind # "no_trade" => 10000 * (g.entry - g.target) <= cap * g.entry + 10000
  <2> HIDE DEF floor, gap, cap, counter, spent
  <2>1. g.kind # "no_trade" => WithinBudget(g.entry, cap, g.entry - g.target)
    BY <1>3, <1>4, <1>5, <1>6, ShortTargetInReach
  <2> QED
    BY <2>1 DEF WithinBudget
<1>11. g.kind # "no_trade" => ClearDown(S, g)
  <2> HIDE DEF S, floor, gap, cap, counter, spent
  <2> QED
    BY <1>2, <1>4, <1>5, <1>6, ShortPathIsClear
<1>12. g.kind = "immediate" => g.entry - g.target < 3 * (g.stop - g.entry)
  <2> HIDE DEF floor, counter, spent
  <2>1. gap >= Cent
    BY <1>5 DEF Cent
  <2> QED
    BY <1>3, <1>4, <1>6, <1>7, <2>1, ShortRewardBounded
<1>13. g.kind # "no_trade" => SoundShort(a, p, t, g)
  <2> HIDE DEF g
  <2> QED
    BY <1>9, <1>10, <1>11, <1>12 DEF SoundShort
<1> QED
  <2> HIDE DEF g
  <2> QED
    BY <1>1, <1>8, <1>13

-----------------------------------------------------------------------------
(* A plan of one side.                                                     *)

LEMMA RoundedFacts ==
  ASSUME NEW x \in Nat
  PROVE  /\ Rounded(x) \in Nat /\ Rounded(x) % Cent = 0
         /\ Rounded(x) <= x + 50 /\ x < Rounded(x) + 50
         /\ \E n \in Nat : Rounded(x) = 100 * n
<1> DEFINE n == (x + 50) \div 100
<1>1. n \in Nat /\ 100 * n <= x + 50 /\ x + 50 < 100 * n + 100
  OBVIOUS
<1>2. Rounded(x) = n * 100
  BY DEF Rounded, Cent
<1>3. (n * 100) % Cent = 0
  <2> HIDE DEF n
  <2> QED
    BY <1>1 DEF Cent
<1> QED
  <2> HIDE DEF n
  <2> QED
    BY <1>1, <1>2, <1>3

\* What BuildSide makes of its levels.
LEMMA SideFields ==
  ASSUME NEW a, NEW p, NEW t, NEW short \in BOOLEAN
  PROVE  LET g == SideGeometry(a, p, t, short)
             s == BuildSide(a, p, t, short)
         IN  /\ s.kind = g.kind /\ s.entry = Rounded(g.entry) /\ s.stop = Rounded(g.stop)
             /\ s.target = Rounded(g.target) /\ s.trigger = g.trigger /\ s.emerging = None
             /\ s.go => g.kind = "immediate" /\ RewardAtLeast(g, 3) /\ ~Overextended(a, short)
             /\ s.go => 10000 * Distance(g.target, g.entry) >= t.move * g.entry
             /\ s.actionable => s.go \/ (g.kind = "breakout_wait" /\ RewardAtLeast(g, 3))
             /\ s.confidence = "high" => s.go /\ RewardAtLeast(g, 6)
             /\ s.score \in 0..100
             /\ 100 * Distance(g.target, g.entry) < 3 * g.entry => s.score <= 40
<1> DEFINE wall == MergedWalls(a, p, Noise(a, p))
           floor == MergedSupports(a, p, Noise(a, p))
           setup == Setup(a, p, short)
           counter == setup \in Countertrend
           present == setup # None /\ ~StrongDowntrend(a, p, short)
           g == SideGeometry(a, p, t, short)
           go == Gate(a, p, g, t, setup, present, short)
           rows == Checklist(a, g, p, ToSet(wall) \cup ToSet(floor), ~short, present, counter)
           score == MatureScore(rows, g, present, counter)
           s == BuildSide(a, p, t, short)
<1>1. s = [kind |-> g.kind, setup |-> setup, rows |-> {r.name : r \in rows},
           entry |-> Rounded(g.entry), stop |-> Rounded(g.stop),
           target |-> Rounded(g.target), trigger |-> g.trigger,
           target2 |-> SecondTarget(g, IF short THEN floor ELSE wall, short),
           go |-> go, light |-> Light(go, present, g.kind),
           confidence |-> Conviction(go, g, a.signals, short),
           actionable |-> WorthAnOrder(a, p, g, t, go, short),
           score |-> score, label |-> MatureLabel(score), emerging |-> None]
  BY Zenon DEF BuildSide, SideGeometry, Setup
<1>2. /\ s.kind = g.kind /\ s.entry = Rounded(g.entry) /\ s.stop = Rounded(g.stop)
      /\ s.target = Rounded(g.target) /\ s.trigger = g.trigger /\ s.emerging = None
      /\ s.go = go /\ s.confidence = Conviction(go, g, a.signals, short)
      /\ s.actionable = WorthAnOrder(a, p, g, t, go, short) /\ s.score = score
  <2> HIDE DEF g, go, s, score, setup, rows, present, wall, floor
  <2> QED
    BY <1>1
<1>3. /\ go => g.kind = "immediate" /\ RewardAtLeast(g, 3) /\ ~Overextended(a, short)
      /\ go => 10000 * Distance(g.target, g.entry) >= t.move * g.entry
  <2> HIDE DEF g, setup, present
  <2> QED
    BY DEF Gate
<1>4. WorthAnOrder(a, p, g, t, go, short)
        => go \/ (g.kind = "breakout_wait" /\ RewardAtLeast(g, 3))
  <2> HIDE DEF g, go
  <2> QED
    BY DEF WorthAnOrder
<1>5. Conviction(go, g, a.signals, short) = "high" => go /\ RewardAtLeast(g, 6)
  <2> HIDE DEF g, go
  <2> QED
    BY DEF Conviction
<1>6. score \in 0..100 /\ (100 * Distance(g.target, g.entry) < 3 * g.entry => score <= 40)
  <2>1. Scored(rows)
    <3> HIDE DEF g, setup, present, counter, wall, floor
    <3> QED
      BY ChecklistIsScored
  <2> HIDE DEF g, rows, present, counter
  <2> QED
    BY <2>1, MatureScoreIsPercent
<1>7. /\ s.go => g.kind = "immediate" /\ RewardAtLeast(g, 3) /\ ~Overextended(a, short)
      /\ s.go => 10000 * Distance(g.target, g.entry) >= t.move * g.entry
  <2> HIDE DEF g, go, s
  <2> QED
    BY <1>2, <1>3
<1>8. /\ s.actionable => s.go \/ (g.kind = "breakout_wait" /\ RewardAtLeast(g, 3))
      /\ s.confidence = "high" => s.go /\ RewardAtLeast(g, 6)
  <2> HIDE DEF g, go, s
  <2> QED
    BY <1>2, <1>4, <1>5
<1>9. /\ s.kind = g.kind /\ s.entry = Rounded(g.entry) /\ s.stop = Rounded(g.stop)
      /\ s.target = Rounded(g.target) /\ s.trigger = g.trigger /\ s.emerging = None
      /\ s.score \in 0..100
      /\ 100 * Distance(g.target, g.entry) < 3 * g.entry => s.score <= 40
  <2> HIDE DEF g, s, score
  <2> QED
    BY <1>2, <1>6
<1> QED
  BY <1>7, <1>8, <1>9

-----------------------------------------------------------------------------
(* The emerging read.                                                      *)

LEMMA FrameIsBars ==
  ASSUME NEW a, IsView(a)
  PROVE  Bars(LongestFrame(a))
<1>1. LongestFrame(a) = Frames[a.chart]
        \/ (a.longest # None /\ LongestFrame(a) = Frames[a.longest])
  BY DEF LongestFrame
<1>2. a.chart \in DOMAIN Frames /\ (a.longest # None => a.longest \in DOMAIN Frames)
  BY DEF IsView
<1>3. PICK name \in DOMAIN Frames : LongestFrame(a) = Frames[name]
  BY <1>1, <1>2
<1>4. Bars(Frames[name])
  BY FramesAssumption DEF Bars
<1> QED
  BY <1>3, <1>4

LEMMA ReadFacts ==
  ASSUME NEW a, IsView(a)
  PROVE  EmergingRead(a) # None /\ EmergingRead(a).score \in 0..100
<1> DEFINE bars == LongestFrame(a)
           anchor == IF a.anchor = None THEN bars[1].open ELSE a.anchor
           read == EmergingRead(a)
           extended == Extension(bars, anchor) > 2000
           distribution == Distribution(bars, anchor)
           blend == Blend(bars, anchor, a.vwap)
           score == Lesser(IF distribution THEN DistributionScoreCap ELSE EmergingScoreCap, blend)
           label == EmergingLabel(score, Confidence(bars), extended, distribution)
<1>1. read = ScoreEmerging(bars, anchor, a.vwap)
  BY DEF EmergingRead
<1>2. anchor \in Price /\ a.vwap \in Price \cup {None} /\ Bars(bars)
  <2>1. Bars(bars)
    BY FrameIsBars
  <2>2. bars[1].open \in Price
    <3> HIDE DEF bars
    <3>1. bars[1] \in Bar
      BY <2>1, BarsFacts
    <3> QED
      BY <3>1 DEF Bar
  <2> HIDE DEF bars
  <2> QED
    BY <2>1, <2>2 DEF IsView
<1>3. read.score \in 0..100
  <2> HIDE DEF bars, anchor
  <2> QED
    BY <1>1, <1>2, ReadIsPercent
<1>4. read = [score |-> score, extended |-> extended, distribution |-> distribution,
              label |-> label]
  BY <1>1, Zenon DEF ScoreEmerging, Verdict
<1>5. extended \in BOOLEAN
  OBVIOUS
<1>6. distribution \in BOOLEAN
  BY DEF Distribution
<1>7. label \in EmergingLabels
  <2> HIDE DEF score, extended, distribution, bars
  <2> QED
    BY Zenon DEF EmergingLabel, EmergingLabels
<1>8. read \in [score : 0..100, extended : BOOLEAN, distribution : BOOLEAN,
               label : EmergingLabels]
  <2> HIDE DEF read, score, extended, distribution, label
  <2>1. score \in 0..100
    BY <1>3, <1>4
  <2> QED
    BY <1>4, <1>5, <1>6, <1>7, <2>1
<1> QED
  <2> HIDE DEF read
  <2>1. read # None
    BY <1>8, NoneIsNoRead
  <2> QED
    BY <1>3, <2>1 DEF read

\* What the read leaves of a plan, and what it takes.
Reread(s, plan, read) ==
  /\ plan.kind = s.kind /\ plan.entry = s.entry /\ plan.stop = s.stop
  /\ plan.target = s.target /\ plan.trigger = s.trigger
  /\ plan.emerging = read /\ plan.score = read.score /\ plan.confidence = "low"
  /\ plan.go <=> (s.go /\ ~read.extended)
  /\ plan.actionable <=> (s.actionable /\ ~read.extended)
  /\ read.extended => plan.light # "go"

LEMMA ReplacedFields ==
  ASSUME NEW a, NEW p, NEW t, NEW short, NEW read
  PROVE  Reread(BuildSide(a, p, t, short), ReplaceScore(BuildSide(a, p, t, short), read), read)
<1> DEFINE wall == MergedWalls(a, p, Noise(a, p))
           floor == MergedSupports(a, p, Noise(a, p))
           setup == Setup(a, p, short)
           present == setup # None /\ ~StrongDowntrend(a, p, short)
           g == SideGeometry(a, p, t, short)
           go == Gate(a, p, g, t, setup, present, short)
           rows == Checklist(a, g, p, ToSet(wall) \cup ToSet(floor), ~short, present,
                             setup \in Countertrend)
           names == {r.name : r \in rows}
           second == SecondTarget(g, IF short THEN floor ELSE wall, short)
           light == Light(go, present, g.kind)
           conviction == Conviction(go, g, a.signals, short)
           order == WorthAnOrder(a, p, g, t, go, short)
           score == MatureScore(rows, g, present, setup \in Countertrend)
           label == MatureLabel(score)
           s == BuildSide(a, p, t, short)
<1>1. s = [kind |-> g.kind, setup |-> setup, rows |-> names,
           entry |-> Rounded(g.entry), stop |-> Rounded(g.stop),
           target |-> Rounded(g.target), trigger |-> g.trigger, target2 |-> second,
           go |-> go, light |-> light, confidence |-> conviction, actionable |-> order,
           score |-> score, label |-> label, emerging |-> None]
  BY Zenon DEF BuildSide, SideGeometry, Setup
<1>2. Reread(s, ReplaceScore(s, read), read)
  <2> HIDE DEF g, go, names, second, light, conviction, order, score, label, s, setup
  <2> QED
    BY <1>1 DEF Reread, ReplaceScore
<1> QED
  BY <1>2

-----------------------------------------------------------------------------
(* What rounding to cents leaves of the levels.                            *)

\* A level and its cents.
InCents(x, r) ==
  r \in Nat /\ r <= x + 50 /\ x < r + 50 /\ \E n \in Nat : r = 100 * n

LEMMA RoundedIsInCents ==
  ASSUME NEW x \in Nat
  PROVE  InCents(x, Rounded(x))
BY RoundedFacts DEF InCents

LEMMA OrderKept ==
  ASSUME NEW x \in Nat, NEW y \in Nat, y - x >= 100,
         NEW rx, NEW ry, InCents(x, rx), InCents(y, ry)
  PROVE  rx < ry
BY DEF InCents

LEMMA WidthKept ==
  ASSUME NEW x \in Nat, NEW y \in Nat, NEW rx, NEW ry, InCents(x, rx), InCents(y, ry)
  PROVE  /\ rx \in Nat /\ ry \in Nat
         /\ ry - rx <= y - x + 99 /\ ry - rx >= y - x - 99
BY DEF InCents

\* An aim of 3% of the entry, or of three quarters of that, is one to a cent in
\* cents: a level is a whole number, and half a cent more of entry asks for no
\* more than one more of aim.
LEMMA AimKept ==
  ASSUME NEW e \in Nat, NEW t \in Nat, NEW re, NEW rt, InCents(e, re), InCents(t, rt)
  PROVE  /\ 100 * (t - e) >= 3 * e => 10000 * (rt - re + 100) >= 300 * re
         /\ 400 * (t - e) >= 9 * e => 10000 * (rt - re + 100) >= 225 * re
<1>1. re \in Nat /\ re <= e + 50 /\ rt \in Nat /\ t < rt + 50
  BY DEF InCents
<1>2. PICK k \in Nat : re = 100 * k
  BY DEF InCents
<1>3. rt - re + 100 >= t - re + 51
  BY <1>1
<1>4. ASSUME 100 * (t - e) >= 3 * e
      PROVE  rt - re + 100 >= 3 * k
  BY <1>1, <1>2, <1>4
<1>5. ASSUME 400 * (t - e) >= 9 * e
      PROVE  4 * (rt - re + 100) >= 9 * k
  BY <1>1, <1>2, <1>5
<1> QED
  BY <1>1, <1>2, <1>4, <1>5

\* A budget for the levels is one for their cents, with a cent each way.
LEMMA ReachKept ==
  ASSUME NEW cap \in Nat, NEW e \in Nat, NEW reward \in Int,
         10000 * reward <= cap * e + 10000,
         NEW re \in Nat, e < re + 50, NEW aim \in Int, aim <= reward + 99
  PROVE  10000 * (aim - 100) <= cap * (re + 100)
<1>1. cap * e <= cap * (re + 100) /\ cap * e \in Int /\ cap * (re + 100) \in Int
  <2>1. e <= re + 100
    OBVIOUS
  <2> QED
    BY <2>1
<1>2. 10000 * (aim - 100) <= 10000 * (reward - 1)
  OBVIOUS
<1>3. 10000 * (reward - 1) <= cap * e
  <2> DEFINE x == cap * e
  <2>1. x \in Int /\ 10000 * reward <= x + 10000
    BY <1>1
  <2> HIDE DEF x
  <2>2. 10000 * (reward - 1) <= x
    BY <2>1
  <2> QED
    BY <2>2 DEF x
<1> DEFINE x == cap * e
           y == cap * (re + 100)
<1>4. x \in Int /\ y \in Int /\ x <= y /\ 10000 * (reward - 1) <= x
  BY <1>1, <1>3
<1> HIDE DEF x, y
<1>5. 10000 * (aim - 100) <= y
  BY <1>2, <1>4
<1> QED
  BY <1>5 DEF y

-----------------------------------------------------------------------------
(* What a plan that proposes a trade satisfies.                            *)

\* The levels of a plan are those of its geometry, in cents.
Cents(g, plan) ==
  /\ plan.kind = g.kind /\ plan.trigger = g.trigger
  /\ InCents(g.entry, plan.entry) /\ InCents(g.stop, plan.stop)
  /\ InCents(g.target, plan.target)

Ordered(plan, sell) ==
  IF sell THEN plan.target < plan.entry /\ plan.entry < plan.stop
  ELSE plan.stop < plan.entry /\ plan.entry < plan.target

Reaches(a, price, t, plan, sell) ==
  LET noise == Noise(a, price)
  IN  /\ 10000 * (Distance(plan.target, plan.entry) - Cent) <= Cap(a, t) * (plan.entry + Cent)
      /\ IF sell
           THEN ~\E l \in RawSupports(a, price, noise) :
                   l > plan.target + Cent /\ 1000 * l < 994 * (plan.entry - Cent)
           ELSE ~\E l \in RawWalls(a, price, noise) :
                   l < plan.target - Cent /\ 1000 * l > 1006 * (plan.entry + Cent)

Pays(plan) ==
  Distance(plan.target, plan.entry) - Cent < 3 * (Distance(plan.entry, plan.stop) + Cent)

LEMMA LongInCents ==
  ASSUME NEW a, IsView(a), NEW p \in Prices, NEW t \in Paces, NEW g, PlanTyped(g),
         SoundLong(a, p, t, g), NEW plan, Cents(g, plan)
  PROVE  /\ Ordered(plan, FALSE) /\ Reaches(a, p, t, plan, FALSE)
         /\ plan.kind = "immediate" => Pays(plan)
<1> DEFINE noise == Noise(a, p)
           S == RawWalls(a, p, noise)
           cap == Cap(a, t)
<1>1. g.entry \in Nat /\ g.stop \in Nat /\ g.target \in Nat
  BY DEF PlanTyped
<1>2. /\ g.entry - g.stop >= 100 /\ g.target - g.entry >= 100
      /\ 10000 * (g.target - g.entry) <= cap * g.entry /\ ClearUp(S, g)
      /\ g.kind = "immediate" => g.target - g.entry < 3 * (g.entry - g.stop)
  BY DEF SoundLong
<1>3. plan.stop < plan.entry /\ plan.entry < plan.target
  <2>1. /\ InCents(g.entry, plan.entry) /\ InCents(g.stop, plan.stop)
        /\ InCents(g.target, plan.target)
    BY DEF Cents
  <2>2. plan.stop < plan.entry
    BY <1>1, <1>2, <2>1, OrderKept
  <2>3. plan.entry < plan.target
    BY <1>1, <1>2, <2>1, OrderKept
  <2> QED
    BY <2>2, <2>3
<1>4. /\ plan.entry \in Nat /\ plan.stop \in Nat /\ plan.target \in Nat
      /\ plan.target - plan.entry <= g.target - g.entry + 99
      /\ plan.entry - plan.stop >= g.entry - g.stop - 99
  <2>1. /\ InCents(g.entry, plan.entry) /\ InCents(g.stop, plan.stop)
        /\ InCents(g.target, plan.target)
    BY DEF Cents
  <2>2. /\ plan.entry \in Nat /\ plan.target \in Nat
        /\ plan.target - plan.entry <= g.target - g.entry + 99
    BY <1>1, <2>1, WidthKept
  <2>3. plan.stop \in Nat /\ plan.entry - plan.stop >= g.entry - g.stop - 99
    BY <1>1, <2>1, WidthKept
  <2> QED
    BY <2>2, <2>3
<1>5. Distance(plan.target, plan.entry) = plan.target - plan.entry
      /\ Distance(plan.entry, plan.stop) = plan.entry - plan.stop
  BY <1>3, <1>4 DEF Distance
<1>6. g.entry < plan.entry + 50 /\ plan.target <= g.target + 50
  BY DEF Cents, InCents
<1>7. cap \in Nat
  BY SizesAreWide
<1>8. 10000 * (plan.target - plan.entry - 100) <= cap * (plan.entry + 100)
  <2> DEFINE e == g.entry
             reward == g.target - g.entry
             re == plan.entry
             aim == plan.target - plan.entry
  <2>1. /\ e \in Nat /\ reward \in Int /\ re \in Nat /\ aim \in Int
        /\ e < re + 50 /\ aim <= reward + 99
    BY <1>1, <1>4, <1>6
  <2>2. 10000 * reward <= cap * e + 10000
    <3> DEFINE x == cap * e
    <3>1. x \in Int /\ 10000 * reward <= x
      BY <1>2, <1>7, <2>1
    <3> HIDE DEF x, reward
    <3>2. 10000 * reward <= x + 10000
      BY <2>1, <3>1
    <3> QED
      BY <3>2 DEF x
  <2>3. 10000 * (aim - 100) <= cap * (re + 100)
    <3> HIDE DEF cap, e, reward, re, aim
    <3> QED
      BY <1>7, <2>1, <2>2, ReachKept
  <2> QED
    BY <2>3
<1>9. ~\E l \in S : l < plan.target - Cent /\ 1000 * l > 1006 * (plan.entry + Cent)
  <2> SUFFICES ASSUME NEW l \in S, l < plan.target - Cent,
                      1000 * l > 1006 * (plan.entry + Cent)
               PROVE  FALSE
    OBVIOUS
  <2>1. l \in Nat
    <3> HIDE DEF S
    <3>1. S \subseteq Nat
      BY WallsAreWalked DEF LieAbove, S
    <3> QED
      BY <3>1
  <2>2. l < g.target /\ 1000 * l >= 1006 * g.entry
    <3> HIDE DEF S, noise
    <3> QED
      BY <1>1, <1>4, <1>6, <2>1 DEF Cent
  <2> QED
    BY <1>2, <2>2 DEF ClearUp
<1>10. Ordered(plan, FALSE)
  BY <1>3 DEF Ordered
<1>11. Reaches(a, p, t, plan, FALSE)
  BY <1>5, <1>8, <1>9 DEF Reaches, Cent
<1>12. plan.kind = "immediate" => Pays(plan)
  <2>1. plan.kind = g.kind
    BY DEF Cents
  <2> QED
    BY <1>1, <1>2, <1>4, <1>5, <2>1 DEF Pays, Cent
<1> QED
  BY <1>10, <1>11, <1>12

LEMMA ShortInCents ==
  ASSUME NEW a, IsView(a), NEW p \in Prices, NEW t \in Paces, NEW g, PlanTyped(g),
         SoundShort(a, p, t, g), NEW plan, Cents(g, plan)
  PROVE  /\ Ordered(plan, TRUE) /\ Reaches(a, p, t, plan, TRUE)
         /\ plan.kind = "immediate" => Pays(plan)
<1> DEFINE noise == Noise(a, p)
           S == RawSupports(a, p, noise)
           cap == Cap(a, t)
<1>1. g.entry \in Nat /\ g.stop \in Nat /\ g.target \in Nat
  BY DEF PlanTyped
<1>2. /\ g.stop - g.entry >= 100 /\ g.entry - g.target >= 100
      /\ 10000 * (g.entry - g.target) <= cap * g.entry + 10000 /\ ClearDown(S, g)
      /\ g.kind = "immediate" => g.entry - g.target < 3 * (g.stop - g.entry)
  BY DEF SoundShort
<1>3. plan.target < plan.entry /\ plan.entry < plan.stop
  <2>1. /\ InCents(g.entry, plan.entry) /\ InCents(g.stop, plan.stop)
        /\ InCents(g.target, plan.target)
    BY DEF Cents
  <2>2. plan.target < plan.entry
    BY <1>1, <1>2, <2>1, OrderKept
  <2>3. plan.entry < plan.stop
    BY <1>1, <1>2, <2>1, OrderKept
  <2> QED
    BY <2>2, <2>3
<1>4. /\ plan.entry \in Nat /\ plan.stop \in Nat /\ plan.target \in Nat
      /\ plan.entry - plan.target <= g.entry - g.target + 99
      /\ plan.stop - plan.entry >= g.stop - g.entry - 99
  <2>1. /\ InCents(g.entry, plan.entry) /\ InCents(g.stop, plan.stop)
        /\ InCents(g.target, plan.target)
    BY DEF Cents
  <2>2. /\ plan.entry \in Nat /\ plan.target \in Nat
        /\ plan.entry - plan.target <= g.entry - g.target + 99
    BY <1>1, <2>1, WidthKept
  <2>3. plan.stop \in Nat /\ plan.stop - plan.entry >= g.stop - g.entry - 99
    BY <1>1, <2>1, WidthKept
  <2> QED
    BY <2>2, <2>3
<1>5. Distance(plan.target, plan.entry) = plan.entry - plan.target
      /\ Distance(plan.entry, plan.stop) = plan.stop - plan.entry
  BY <1>3, <1>4 DEF Distance
<1>6. g.entry < plan.entry + 50 /\ plan.entry <= g.entry + 50 /\ g.target < plan.target + 50
  BY DEF Cents, InCents
<1>7. cap \in Nat
  BY SizesAreWide
<1>8. 10000 * (plan.entry - plan.target - 100) <= cap * (plan.entry + 100)
  <2> DEFINE e == g.entry
             reward == g.entry - g.target
             re == plan.entry
             aim == plan.entry - plan.target
  <2>1. /\ e \in Nat /\ reward \in Int /\ re \in Nat /\ aim \in Int
        /\ e < re + 50 /\ aim <= reward + 99
    BY <1>1, <1>4, <1>6
  <2>2. 10000 * reward <= cap * e + 10000
    BY <1>2
  <2>3. 10000 * (aim - 100) <= cap * (re + 100)
    <3> HIDE DEF cap, e, reward, re, aim
    <3> QED
      BY <1>7, <2>1, <2>2, ReachKept
  <2> QED
    BY <2>3
<1>9. ~\E l \in S : l > plan.target + Cent /\ 1000 * l < 994 * (plan.entry - Cent)
  <2> SUFFICES ASSUME NEW l \in S, l > plan.target + Cent,
                      1000 * l < 994 * (plan.entry - Cent)
               PROVE  FALSE
    OBVIOUS
  <2>1. l \in Nat
    <3> HIDE DEF S
    <3>1. S \subseteq Nat
      BY FloorIsWalked DEF LieBelow, S
    <3> QED
      BY <3>1
  <2>2. l > g.target /\ 1000 * l <= 994 * g.entry
    <3> HIDE DEF S, noise
    <3> QED
      BY <1>1, <1>4, <1>6, <2>1 DEF Cent
  <2> QED
    BY <1>2, <2>2 DEF ClearDown
<1>10. Ordered(plan, TRUE)
  BY <1>3 DEF Ordered
<1>11. Reaches(a, p, t, plan, TRUE)
  BY <1>5, <1>8, <1>9 DEF Reaches, Cent
<1>12. plan.kind = "immediate" => Pays(plan)
  <2>1. plan.kind = g.kind
    BY DEF Cents
  <2> QED
    BY <1>1, <1>2, <1>4, <1>5, <2>1 DEF Pays, Cent
<1> QED
  BY <1>10, <1>11, <1>12

TypedPlan(plan) ==
  /\ plan.kind \in Kinds /\ plan.score \in 0..100
  /\ plan.entry \in Nat /\ plan.entry % Cent = 0
  /\ plan.stop \in Nat /\ plan.stop % Cent = 0
  /\ plan.target \in Nat /\ plan.target % Cent = 0
  /\ plan.kind # "breakout_wait" => plan.trigger = None
  /\ plan.kind = "breakout_wait" => plan.trigger \in Nat

SoundPlan(a, p, t, plan, sell) ==
  /\ TypedPlan(plan)
  /\ plan.kind # "no_trade" => Ordered(plan, sell) /\ Reaches(a, p, t, plan, sell)
  /\ plan.confidence # "high"
  /\ plan.kind = "immediate" => Pays(plan)

LEMMA SideTyped ==
  ASSUME NEW a, NEW p, NEW t, NEW short \in BOOLEAN, PlanTyped(SideGeometry(a, p, t, short))
  PROVE  TypedPlan(BuildSide(a, p, t, short))
         /\ Cents(SideGeometry(a, p, t, short), BuildSide(a, p, t, short))
<1> DEFINE g == SideGeometry(a, p, t, short)
           s == BuildSide(a, p, t, short)
<1>1. /\ s.kind = g.kind /\ s.entry = Rounded(g.entry) /\ s.stop = Rounded(g.stop)
      /\ s.target = Rounded(g.target) /\ s.trigger = g.trigger /\ s.score \in 0..100
  <2> HIDE DEF g, s
  <2> QED
    BY SideFields DEF g, s
<1>2. PlanTyped(g)
  OBVIOUS
<1> HIDE DEF g, s
<1>3. /\ g.entry \in Nat /\ g.stop \in Nat /\ g.target \in Nat
      /\ g.kind \in Kinds
      /\ g.kind # "breakout_wait" => g.trigger = None
      /\ g.kind = "breakout_wait" => g.trigger \in Nat
  BY <1>2 DEF PlanTyped, Kinds
<1>4. /\ s.entry \in Nat /\ s.entry % Cent = 0 /\ s.stop \in Nat /\ s.stop % Cent = 0
      /\ s.target \in Nat /\ s.target % Cent = 0
  <2>1. \A x \in Nat : Rounded(x) \in Nat /\ Rounded(x) % Cent = 0
    BY RoundedFacts
  <2> QED
    BY <1>1, <1>3, <2>1
<1>5. TypedPlan(s)
  BY <1>1, <1>3, <1>4 DEF TypedPlan
<1>6. Cents(g, s)
  BY <1>1, <1>3, RoundedIsInCents DEF Cents
<1> QED
  BY <1>5, <1>6 DEF g, s

LEMMA SideGoes ==
  ASSUME NEW a, NEW p, NEW t, NEW short \in BOOLEAN
  PROVE  LET g == SideGeometry(a, p, t, short)
             s == BuildSide(a, p, t, short)
         IN  /\ s.go => g.kind = "immediate"
             /\ s.confidence = "high" => s.go /\ RewardAtLeast(g, 6)
BY SideFields

\* Three times the risk is more than an immediate plan pays.
LEMMA NeverHigh ==
  ASSUME NEW g, g.entry \in Nat, g.stop \in Nat, g.target \in Nat,
         \/ g.target - g.entry >= 100 /\ g.entry - g.stop >= 100
              /\ g.target - g.entry < 3 * (g.entry - g.stop)
         \/ g.entry - g.target >= 100 /\ g.stop - g.entry >= 100
              /\ g.entry - g.target < 3 * (g.stop - g.entry)
  PROVE  ~RewardAtLeast(g, 6)
BY DEF RewardAtLeast, Distance

LEMMA LongSound ==
  ASSUME NEW a, IsView(a), NEW p \in Prices, NEW t \in Paces
  PROVE  SoundPlan(a, p, t, BuildSide(a, p, t, FALSE), FALSE)
<1> DEFINE g == SideGeometry(a, p, t, FALSE)
           s == BuildSide(a, p, t, FALSE)
<1>1. PlanTyped(g) /\ (g.kind # "no_trade" => SoundLong(a, p, t, g))
  <2> HIDE DEF g
  <2> QED
    BY LongSide DEF g
<1>2. TypedPlan(s) /\ Cents(g, s)
  BY <1>1, SideTyped
<1>3. s.confidence = "high" => s.go /\ RewardAtLeast(g, 6)
  BY SideGoes, Zenon
<1>4. s.go => g.kind = "immediate"
  BY SideGoes, Zenon
<1> HIDE DEF g, s
<1>5. s.kind = g.kind
  BY <1>2 DEF Cents
<1>6. s.kind # "no_trade" => Ordered(s, FALSE) /\ Reaches(a, p, t, s, FALSE)
  BY <1>1, <1>2, <1>5, LongInCents
<1>7. s.kind = "immediate" => Pays(s)
  BY <1>1, <1>2, <1>5, LongInCents
<1>8. g.kind = "immediate" => ~RewardAtLeast(g, 6)
  <2> SUFFICES ASSUME g.kind = "immediate" PROVE ~RewardAtLeast(g, 6)
    OBVIOUS
  <2>1. g.entry \in Nat /\ g.stop \in Nat /\ g.target \in Nat
    BY <1>1 DEF PlanTyped
  <2>2. /\ g.target - g.entry >= 100 /\ g.entry - g.stop >= 100
        /\ g.target - g.entry < 3 * (g.entry - g.stop)
    BY <1>1 DEF SoundLong
  <2> QED
    BY <2>1, <2>2, NeverHigh
<1>9. s.confidence # "high"
  BY <1>3, <1>4, <1>8
<1> QED
  BY <1>2, <1>6, <1>7, <1>9 DEF SoundPlan, s

LEMMA ShortSound ==
  ASSUME NEW a, IsView(a), NEW p \in Prices, NEW t \in Paces
  PROVE  SoundPlan(a, p, t, BuildSide(a, p, t, TRUE), TRUE)
<1> DEFINE g == SideGeometry(a, p, t, TRUE)
           s == BuildSide(a, p, t, TRUE)
<1>1. PlanTyped(g) /\ (g.kind # "no_trade" => SoundShort(a, p, t, g))
  <2> HIDE DEF g
  <2> QED
    BY ShortSide DEF g
<1>2. TypedPlan(s) /\ Cents(g, s)
  BY <1>1, SideTyped
<1>3. s.confidence = "high" => s.go /\ RewardAtLeast(g, 6)
  BY SideGoes, Zenon
<1>4. s.go => g.kind = "immediate"
  BY SideGoes, Zenon
<1> HIDE DEF g, s
<1>5. s.kind = g.kind
  BY <1>2 DEF Cents
<1>6. s.kind # "no_trade" => Ordered(s, TRUE) /\ Reaches(a, p, t, s, TRUE)
  BY <1>1, <1>2, <1>5, ShortInCents
<1>7. s.kind = "immediate" => Pays(s)
  BY <1>1, <1>2, <1>5, ShortInCents
<1>8. g.kind = "immediate" => ~RewardAtLeast(g, 6)
  <2> SUFFICES ASSUME g.kind = "immediate" PROVE ~RewardAtLeast(g, 6)
    OBVIOUS
  <2>1. g.entry \in Nat /\ g.stop \in Nat /\ g.target \in Nat
    BY <1>1 DEF PlanTyped
  <2>2. /\ g.entry - g.target >= 100 /\ g.stop - g.entry >= 100
        /\ g.entry - g.target < 3 * (g.stop - g.entry)
    BY <1>1 DEF SoundShort
  <2> QED
    BY <2>1, <2>2, NeverHigh
<1>9. s.confidence # "high"
  BY <1>3, <1>4, <1>8
<1> QED
  BY <1>2, <1>6, <1>7, <1>9 DEF SoundPlan, s

Thin(a) == Len(LongestFrame(a)) < EmergingMaxBars

LEMMA ApplyFields ==
  ASSUME NEW a, IsView(a), NEW p, NEW t
  PROVE  LET s == BuildSide(a, p, t, FALSE)
             plan == ApplyEmerging(s, a)
         IN  \/ plan = s /\ ~Thin(a) /\ s.emerging = None
             \/ Thin(a) /\ Reread(s, plan, EmergingRead(a))
<1> DEFINE s == BuildSide(a, p, t, FALSE)
           plan == ApplyEmerging(s, a)
           n == Len(LongestFrame(a))
<1>1. n \in Nat
  BY FrameIsBars, BarsFacts
<1>2. n < EmergingMaxBars \/ n >= EmergingMaxBars
  BY <1>1 DEF EmergingMaxBars
<1>3. CASE n >= EmergingMaxBars
  <2>1. ~Thin(a)
    BY <1>1, <1>3 DEF Thin, EmergingMaxBars
  <2>2. plan = s
    BY <1>3 DEF ApplyEmerging
  <2>3. s.emerging = None
    BY DEF BuildSide
  <2> QED
    BY <2>1, <2>2, <2>3
<1>4. CASE n < EmergingMaxBars
  <2>1. Thin(a) /\ ~(n >= EmergingMaxBars)
    BY <1>1, <1>4 DEF Thin, EmergingMaxBars
  <2>2. plan = ReplaceScore(s, EmergingRead(a))
    <3> HIDE DEF s
    <3> QED
      BY <2>1 DEF ApplyEmerging
  <2>3. Reread(s, ReplaceScore(s, EmergingRead(a)), EmergingRead(a))
    BY ReplacedFields
  <2> QED
    BY <2>1, <2>2, <2>3
<1> QED
  BY <1>2, <1>3, <1>4

\* A read changes none of the levels.
LEMMA BuySound ==
  ASSUME NEW a, IsView(a), NEW p \in Prices, NEW t \in Paces
  PROVE  SoundPlan(a, p, t, ApplyEmerging(BuildSide(a, p, t, FALSE), a), FALSE)
<1> DEFINE s == BuildSide(a, p, t, FALSE)
           read == EmergingRead(a)
           plan == ApplyEmerging(s, a)
<1>1. SoundPlan(a, p, t, s, FALSE)
  BY LongSound
<1>2. plan = s \/ Reread(s, plan, read)
  BY ApplyFields
<1>3. read.score \in 0..100
  BY ReadFacts
<1> HIDE DEF s, plan, read
<1>4. ASSUME plan = s
      PROVE  SoundPlan(a, p, t, plan, FALSE)
  BY <1>1, <1>4
<1>5. ASSUME Reread(s, plan, read)
      PROVE  SoundPlan(a, p, t, plan, FALSE)
  <2>1. /\ plan.kind = s.kind /\ plan.entry = s.entry /\ plan.stop = s.stop
        /\ plan.target = s.target /\ plan.trigger = s.trigger
        /\ plan.score = read.score /\ plan.confidence = "low"
    BY <1>5 DEF Reread
  <2>2. TypedPlan(plan)
    BY <1>1, <1>3, <2>1 DEF SoundPlan, TypedPlan
  <2>3. /\ Ordered(s, FALSE) => Ordered(plan, FALSE)
        /\ Reaches(a, p, t, s, FALSE) => Reaches(a, p, t, plan, FALSE)
        /\ Pays(s) => Pays(plan)
    BY <2>1 DEF Ordered, Reaches, Pays
  <2> QED
    BY <1>1, <2>1, <2>2, <2>3 DEF SoundPlan
<1> QED
  BY <1>2, <1>4, <1>5 DEF s, plan

LEMMA PlanIsSound ==
  ASSUME NEW a, IsView(a), NEW p \in Prices, NEW usecase \in {"buy", "sell"},
         NEW pace \in DOMAIN Tuning
  PROVE  SoundPlan(a, p, Tuning[pace], BuildSwingPlan(a, p, usecase, pace), usecase = "sell")
<1> DEFINE t == Tuning[pace]
           plan == BuildSwingPlan(a, p, usecase, pace)
<1>1. t \in Paces
  BY DEF Paces
<1>2. CASE usecase = "sell"
  <2>1. plan = BuildSide(a, p, t, TRUE)
    BY <1>2 DEF BuildSwingPlan
  <2>2. SoundPlan(a, p, t, BuildSide(a, p, t, TRUE), TRUE)
    BY <1>1, ShortSound
  <2>3. (usecase = "sell") = TRUE
    BY <1>2
  <2> QED
    BY <2>1, <2>2, <2>3, Zenon
<1>3. CASE usecase = "buy"
  <2>1. plan = ApplyEmerging(BuildSide(a, p, t, FALSE), a)
    BY <1>3 DEF BuildSwingPlan
  <2>2. SoundPlan(a, p, t, ApplyEmerging(BuildSide(a, p, t, FALSE), a), FALSE)
    BY <1>1, BuySound
  <2>3. (usecase = "sell") = FALSE
    BY <1>3
  <2> QED
    BY <2>1, <2>2, <2>3, Zenon
<1> QED
  BY <1>2, <1>3

LEMMA StretchedWithdraws ==
  ASSUME NEW a, IsView(a), NEW p \in Prices, NEW usecase \in {"buy", "sell"},
         NEW pace \in DOMAIN Tuning
  PROVE  LET plan == BuildSwingPlan(a, p, usecase, pace)
         IN  plan.emerging # None =>
               (plan.emerging.extended =>
                  ~plan.go /\ ~plan.actionable /\ plan.light # "go")
<1> DEFINE t == Tuning[pace]
           plan == BuildSwingPlan(a, p, usecase, pace)
           read == EmergingRead(a)
<1>1. CASE usecase = "sell"
  <2>1. plan = BuildSide(a, p, t, TRUE)
    BY <1>1 DEF BuildSwingPlan
  <2>2. plan.emerging = None
    BY <2>1 DEF BuildSide
  <2> QED
    BY <2>2
<1>2. CASE usecase = "buy"
  <2> DEFINE s == BuildSide(a, p, t, FALSE)
  <2>1. plan = ApplyEmerging(s, a)
    BY <1>2 DEF BuildSwingPlan
  <2>2. (plan = s /\ s.emerging = None) \/ Reread(s, plan, read)
    BY <2>1, ApplyFields
  <2> HIDE DEF s, plan, read
  <2>3. ASSUME Reread(s, plan, read)
        PROVE  plan.emerging # None =>
                 (plan.emerging.extended =>
                    ~plan.go /\ ~plan.actionable /\ plan.light # "go")
    <3>1. /\ plan.emerging = read /\ (plan.go <=> (s.go /\ ~read.extended))
          /\ (plan.actionable <=> (s.actionable /\ ~read.extended))
          /\ (read.extended => plan.light # "go")
      BY <2>3, Zenon DEF Reread
    <3> QED
      BY <3>1, Zenon
  <2> QED
    BY <2>2, <2>3 DEF plan
<1> QED
  BY <1>1, <1>2

-----------------------------------------------------------------------------
(* What a bot trades.                                                      *)

Aims(t, g) == 10000 * Distance(g.target, g.entry) >= t.move * g.entry

SmallAim(g) == 100 * Distance(g.target, g.entry) < 3 * g.entry

LEMMA SideTrades ==
  ASSUME NEW a, NEW p, NEW t, NEW short \in BOOLEAN
  PROVE  LET g == SideGeometry(a, p, t, short)
             s == BuildSide(a, p, t, short)
         IN  /\ s.go => /\ g.kind = "immediate" /\ RewardAtLeast(g, 3)
                        /\ ~Overextended(a, short) /\ Aims(t, g)
             /\ s.actionable => s.go \/ (g.kind = "breakout_wait" /\ RewardAtLeast(g, 3))
             /\ SmallAim(g) => s.score <= 40
<1> DEFINE g == SideGeometry(a, p, t, short)
           s == BuildSide(a, p, t, short)
<1>1. /\ s.go => g.kind = "immediate" /\ RewardAtLeast(g, 3) /\ ~Overextended(a, short)
      /\ s.go => 10000 * Distance(g.target, g.entry) >= t.move * g.entry
      /\ s.actionable => s.go \/ (g.kind = "breakout_wait" /\ RewardAtLeast(g, 3))
      /\ 100 * Distance(g.target, g.entry) < 3 * g.entry => s.score <= 40
  BY SideFields
<1>2. s.go => Aims(t, g)
  <2> HIDE DEF g, s
  <2> QED
    BY <1>1 DEF Aims
<1>3. SmallAim(g) => s.score <= 40
  <2> HIDE DEF g, s
  <2> QED
    BY <1>1 DEF SmallAim
<1> QED
  BY <1>1, <1>2, <1>3

\* The reasons of a bot: the plan pays, the aim is one, and nothing is chased.
Reason(a, t, g, plan) ==
  /\ g.kind # "no_trade" /\ RewardAtLeast(g, 3) /\ ~Overextended(a, FALSE)
  /\ Aims(t, g) \/ ~SmallAim(g) \/ (plan.emerging # None /\ WorthALeg(t, g))
  /\ Thin(a) => plan.emerging = EmergingRead(a)

LEMMA TradeHasReason ==
  ASSUME NEW a, IsView(a), NEW p \in Prices, NEW bot \in Bots, NEW t \in Paces,
         Tradable(ApplyEmerging(BuildSide(a, p, t, FALSE), a)),
         Rule(bot, ApplyEmerging(BuildSide(a, p, t, FALSE), a))
  PROVE  Reason(a, t, SideGeometry(a, p, t, FALSE),
                ApplyEmerging(BuildSide(a, p, t, FALSE), a))
<1> DEFINE g == SideGeometry(a, p, t, FALSE)
           s == BuildSide(a, p, t, FALSE)
           read == EmergingRead(a)
           plan == ApplyEmerging(s, a)
<1>1. /\ s.go => /\ g.kind = "immediate" /\ RewardAtLeast(g, 3)
                 /\ ~Overextended(a, FALSE) /\ Aims(t, g)
      /\ s.actionable => s.go \/ (g.kind = "breakout_wait" /\ RewardAtLeast(g, 3))
      /\ SmallAim(g) => s.score <= 40
  BY SideTrades, Zenon
<1>2. g.kind = "breakout_wait" => ~Overextended(a, FALSE) /\ WorthALeg(t, g)
  BY LongSide
<1>3. s.kind = g.kind /\ s.score \in 0..100
  <2>1. PlanTyped(g)
    BY LongSide
  <2>2. TypedPlan(s) /\ Cents(g, s)
    BY <2>1, SideTyped
  <2> HIDE DEF g, s
  <2> QED
    BY <2>2 DEF TypedPlan, Cents
<1>4. (plan = s /\ ~Thin(a)) \/ (Thin(a) /\ Reread(s, plan, read))
  BY ApplyFields
<1>5. read # None
  BY ReadFacts
<1>6. Tradable(plan) /\ Rule(bot, plan)
  OBVIOUS
<1> HIDE DEF g, s, read, plan
<1>7. plan.actionable /\ (Rule(bot, plan) =>
        \/ plan.go
        \/ plan.kind = "immediate" /\ ~plan.go
        \/ plan.kind = "breakout_wait" /\ plan.score >= 55)
  BY <1>6 DEF Tradable, Rule
<1>8. ASSUME plan = s, ~Thin(a)
      PROVE  Reason(a, t, g, plan)
  <2>1. s.go \/ (g.kind = "breakout_wait" /\ s.score >= 55 /\ RewardAtLeast(g, 3))
    BY <1>1, <1>3, <1>6, <1>7, <1>8
  <2>2. CASE s.go
    BY <1>1, <1>8, <2>2 DEF Reason
  <2>3. CASE g.kind = "breakout_wait" /\ s.score >= 55 /\ RewardAtLeast(g, 3)
    <3>1. ~SmallAim(g)
      BY <1>1, <1>3, <2>3
    <3> QED
      BY <1>2, <1>8, <2>3, <3>1 DEF Reason
  <2> QED
    BY <2>1, <2>2, <2>3
<1>9. ASSUME Thin(a), Reread(s, plan, read)
      PROVE  Reason(a, t, g, plan)
  <2>1. /\ plan.kind = s.kind /\ plan.emerging = read
        /\ (plan.go <=> (s.go /\ ~read.extended))
        /\ (plan.actionable <=> (s.actionable /\ ~read.extended))
    BY <1>9, Zenon DEF Reread
  <2>2. s.actionable /\ ~read.extended
    BY <1>7, <2>1, Zenon
  <2>3. s.go \/ (g.kind = "breakout_wait" /\ RewardAtLeast(g, 3))
    BY <1>1, <2>2
  <2>4. CASE s.go
    BY <1>1, <2>1, <2>4, Zenon DEF Reason, read
  <2>5. CASE g.kind = "breakout_wait" /\ RewardAtLeast(g, 3)
    BY <1>2, <1>5, <2>1, <2>5, Zenon DEF Reason, read
  <2> QED
    BY <2>3, <2>4, <2>5
<1>10. Reason(a, t, g, plan)
  BY <1>4, <1>8, <1>9
<1> QED
  BY <1>10 DEF g, s, plan

\* A position as a bot opens it.
SoundPosition(h) ==
  /\ h \in Position
  /\ h.stop < h.entry /\ h.entry < h.target
  /\ (h.trigger # None) <=> (h.kind = "breakout_wait")

WorthPosition(h) ==
  /\ 2 * (h.target - h.entry + Cent) >= 3 * (h.entry - h.stop - Cent)
  /\ 10000 * (h.target - h.entry + Cent) >= (IF h.emerging THEN 225 ELSE 300) * h.entry

Unchased(a) ==
  ~Overextended(a, FALSE) /\ (Thin(a) => ~IsExtended([emerging |-> EmergingRead(a)]))

LEMMA AimsAdd ==
  ASSUME NEW e \in Nat, NEW x \in Nat, NEW t, t.move = 300, NEW g,
         g.entry = e, g.target = x, e < x
  PROVE  /\ Aims(t, g) => 100 * (x - e) >= 3 * e
         /\ ~SmallAim(g) => 100 * (x - e) >= 3 * e
         /\ WorthALeg(t, g) => 400 * (x - e) >= 9 * e
<1>1. Distance(x, e) = x - e
  BY DEF Distance
<1>2. Aims(t, g) => 100 * (x - e) >= 3 * e
  <2>1. Aims(t, g) => 10000 * (x - e) >= 300 * e
    BY <1>1 DEF Aims
  <2> QED
    BY <2>1
<1>3. ~SmallAim(g) => 100 * (x - e) >= 3 * e
  BY <1>1 DEF SmallAim
<1>4. WorthALeg(t, g) => 400 * (x - e) >= 9 * e
  <2>1. WorthALeg(t, g) => 40000 * (x - e) >= 900 * e
    BY DEF WorthALeg
  <2> QED
    BY <2>1
<1> QED
  BY <1>2, <1>3, <1>4

LEMMA PositionIsSound ==
  ASSUME NEW a, IsView(a), NEW p \in Prices, NEW bot \in Bots,
         Tradable(BuildSwingPlan(a, p, "buy", "fast")),
         Rule(bot, BuildSwingPlan(a, p, "buy", "fast"))
  PROVE  LET h == PositionOf(BuildSwingPlan(a, p, "buy", "fast"))
         IN  SoundPosition(h) /\ WorthPosition(h) /\ Unchased(a)
<1> DEFINE t == Tuning["fast"]
           g == SideGeometry(a, p, t, FALSE)
           s == BuildSide(a, p, t, FALSE)
           plan == ApplyEmerging(s, a)
           h == PositionOf(plan)
<1>1. BuildSwingPlan(a, p, "buy", "fast") = plan
  BY DEF BuildSwingPlan
<1>2. t \in Paces
  <2>1. "fast" \in DOMAIN Tuning
    BY DEF Tuning
  <2> QED
    BY <2>1 DEF Paces
<1>3. t.move = 300
  BY DEF Tuning
<1> HIDE DEF t
<1>4. Tradable(plan) /\ Rule(bot, plan)
  BY <1>1
<1>5. Reason(a, t, g, plan)
  BY <1>2, <1>4, TradeHasReason, Zenon
<1>6. PlanTyped(g) /\ (g.kind # "no_trade" => SoundLong(a, p, t, g))
  BY <1>2, LongSide
<1>7. SoundPlan(a, p, t, plan, FALSE)
  BY <1>2, BuySound
<1>8. Cents(g, plan)
  <2>1. Cents(g, s)
    BY <1>6, SideTyped
  <2>2. plan = s \/ Reread(s, plan, EmergingRead(a))
    BY ApplyFields
  <2> HIDE DEF g, s, plan
  <2> QED
    BY <2>1, <2>2 DEF Reread, Cents
<1> HIDE DEF g, s, plan, h
<1>9. /\ h.entry = plan.entry /\ h.stop = plan.stop /\ h.target = plan.target
      /\ h.trigger = plan.trigger /\ h.kind = plan.kind
      /\ h = [entry |-> plan.entry, stop |-> plan.stop, target |-> plan.target,
              trigger |-> plan.trigger, kind |-> plan.kind, emerging |-> plan.emerging # None]
  BY DEF h, PositionOf
<1>10. TypedPlan(plan) /\ plan.kind # "no_trade" /\ Ordered(plan, FALSE)
  BY <1>5, <1>7, <1>8 DEF SoundPlan, Reason, Cents
<1>11. SoundPosition(h)
  <2>1. plan.stop < plan.entry /\ plan.entry < plan.target
    BY <1>10 DEF Ordered
  <2>2. /\ plan.entry \in Nat /\ plan.stop \in Nat /\ plan.target \in Nat
        /\ plan.kind \in Kinds /\ plan.trigger \in Level
        /\ (plan.trigger # None) <=> (plan.kind = "breakout_wait")
    BY <1>10, NoneIsNoPrice DEF TypedPlan, Level
  <2>3. h \in Position
    BY <1>9, <2>2 DEF Position
  <2> QED
    BY <1>9, <2>1, <2>2, <2>3 DEF SoundPosition
<1>12. WorthPosition(h)
  <2> DEFINE e == g.entry
             x == g.target
             re == plan.entry
             rx == plan.target
             rs == plan.stop
  <2>1. e \in Nat /\ x \in Nat /\ g.stop \in Nat
    BY <1>6 DEF PlanTyped
  <2>2. InCents(e, re) /\ InCents(x, rx) /\ InCents(g.stop, rs)
    BY <1>8 DEF Cents
  <2>3. e - g.stop >= 100 /\ x - e >= 100
    BY <1>5, <1>6 DEF Reason, SoundLong
  <2>4. 2 * (x - e) >= 3 * (e - g.stop)
    <3>1. RewardAtLeast(g, 3)
      BY <1>5 DEF Reason
    <3> QED
      BY <2>1, <2>3, <3>1 DEF RewardAtLeast, Distance
  <2>5. 2 * (rx - re + 100) >= 3 * (re - rs - 100)
    <3>1. /\ rx \in Nat /\ re \in Nat /\ rs \in Nat
          /\ rx - re >= x - e - 99 /\ re - rs <= e - g.stop + 99
      <4> HIDE DEF e, x, re, rx, rs
      <4> QED
        BY <2>1, <2>2, WidthKept
    <3> QED
      BY <2>1, <2>4, <3>1
  <2>6. 100 * (x - e) >= 3 * e \/ (plan.emerging # None /\ 400 * (x - e) >= 9 * e)
    <3>1. e < x
      BY <2>1, <2>3
    <3>2. /\ Aims(t, g) => 100 * (x - e) >= 3 * e
          /\ ~SmallAim(g) => 100 * (x - e) >= 3 * e
          /\ WorthALeg(t, g) => 400 * (x - e) >= 9 * e
      BY <1>3, <2>1, <3>1, AimsAdd
    <3>3. Aims(t, g) \/ ~SmallAim(g) \/ (plan.emerging # None /\ WorthALeg(t, g))
      BY <1>5 DEF Reason
    <3> QED
      BY <3>2, <3>3
  <2>7. /\ 100 * (x - e) >= 3 * e => 10000 * (rx - re + 100) >= 300 * re
        /\ 400 * (x - e) >= 9 * e => 10000 * (rx - re + 100) >= 225 * re
    <3> HIDE DEF e, x, re, rx
    <3> QED
      BY <2>1, <2>2, AimKept
  <2>8. re \in Nat /\ rx \in Nat
    BY <2>2 DEF InCents
  <2>9. 10000 * (rx - re + 100) >= 300 * re
          \/ (plan.emerging # None /\ 10000 * (rx - re + 100) >= 225 * re)
    BY <2>6, <2>7
  <2>10. CASE plan.emerging # None
    <3>1. h.emerging = TRUE
      BY <1>9, <2>10
    <3>2. 10000 * (rx - re + 100) >= 225 * re
      <4>1. 300 * re >= 225 * re
        BY <2>8
      <4> QED
        BY <2>8, <2>9, <4>1
    <3> QED
      BY <1>9, <2>5, <3>1, <3>2 DEF WorthPosition, Cent
  <2>11. CASE plan.emerging = None
    <3>1. h.emerging = FALSE
      BY <1>9, <2>11
    <3>2. 10000 * (rx - re + 100) >= 300 * re
      BY <2>9, <2>11
    <3> QED
      BY <1>9, <2>5, <3>1, <3>2 DEF WorthPosition, Cent
  <2> QED
    BY <2>10, <2>11
<1>13. Unchased(a)
  <2>1. ~Overextended(a, FALSE) /\ (Thin(a) => plan.emerging = EmergingRead(a))
    BY <1>5 DEF Reason
  <2>2. ~IsExtended(plan)
    BY <1>4 DEF Tradable
  <2>3. ASSUME Thin(a)
        PROVE  ~IsExtended([emerging |-> EmergingRead(a)])
    BY <2>1, <2>2, <2>3 DEF IsExtended
  <2> QED
    BY <2>1, <2>3 DEF Unchased
<1> QED
  BY <1>1, <1>11, <1>12, <1>13 DEF h

-----------------------------------------------------------------------------
(* The invariant: what is seen was built from what is known, and what is    *)
(* held was sound, worth it and not chased when it was opened.              *)

SeenOK ==
  seen # None =>
    /\ seen.price \in Prices /\ seen.usecase \in {"buy", "sell"} /\ seen.pace \in DOMAIN Tuning
    /\ seen.view \in {scene, RadarView(scene)}
    /\ seen.plan = BuildSwingPlan(seen.view, seen.price, seen.usecase, seen.pace)

HeldOK ==
  /\ held \in [Bots -> Position \cup {None}]
  /\ \A bot \in Bots : held[bot] # None =>
       SoundPosition(held[bot]) /\ WorthPosition(held[bot]) /\ Unchased(RadarView(scene))

SwingInv == scene \in Scenes /\ SeenOK /\ HeldOK

LEMMA PageKeeps ==
  ASSUME SwingInv, NEW usecase \in {"buy", "sell"}, NEW pace \in DOMAIN Tuning,
         NEW p \in Prices, Page(usecase, pace, p)
  PROVE  SwingInv'
<1>1. scene' = scene /\ held' = held
  BY DEF Page
<1>2. SeenOK'
  <2> DEFINE plan == BuildSwingPlan(scene, p, usecase, pace)
  <2>1. seen' = [by |-> "page", price |-> p, usecase |-> usecase, pace |-> pace,
                 view |-> scene, plan |-> plan]
    BY Zenon DEF Page
  <2> HIDE DEF plan
  <2>2. /\ seen'.price = p /\ seen'.usecase = usecase /\ seen'.pace = pace
        /\ seen'.view = scene /\ seen'.plan = plan
    BY <2>1
  <2> QED
    BY <1>1, <2>2 DEF SeenOK, plan
<1> QED
  BY <1>1, <1>2 DEF SwingInv, HeldOK

LEMMA CycleKeeps ==
  ASSUME SwingInv, NEW p \in Prices, Cycle(p)
  PROVE  SwingInv'
<1> DEFINE view == RadarView(scene)
           plan == BuildSwingPlan(view, p, "buy", "fast")
<1>1. scene' = scene /\ scene \in Scenes
  BY DEF Cycle, SwingInv
<1>2. IsView(view)
  BY <1>1, ScenesAreViews
<1>3. seen' = [by |-> "radar", price |-> p, usecase |-> "buy", pace |-> "fast",
               view |-> view, plan |-> plan]
  BY Zenon DEF Cycle
<1> HIDE DEF plan, view
<1>4. /\ seen'.price = p /\ seen'.usecase = "buy" /\ seen'.pace = "fast"
      /\ seen'.view = view /\ seen'.plan = plan
  BY <1>3
<1>5. SeenOK'
  <2>1. "fast" \in DOMAIN Tuning
    BY DEF Tuning
  <2> QED
    BY <1>1, <1>4, <2>1 DEF SeenOK, plan, view
<1>6. PICK phase \in {"opening_range", "regular"} : held' = RunBots(plan, phase)
  BY <1>4 DEF Cycle
<1>7. /\ held' \in [Bots -> {held'[bot] : bot \in Bots}]
      /\ \A bot \in Bots :
           \/ held'[bot] = held[bot]
           \/ Tradable(plan) /\ Rule(bot, plan) /\ held'[bot] = PositionOf(plan)
  BY <1>6 DEF RunBots
<1>8. ASSUME NEW bot \in Bots
      PROVE  /\ held'[bot] \in Position \cup {None}
             /\ held'[bot] # None =>
                  SoundPosition(held'[bot]) /\ WorthPosition(held'[bot]) /\ Unchased(view)
  <2>1. CASE held'[bot] = held[bot]
    BY <2>1 DEF SwingInv, HeldOK, view
  <2>2. CASE Tradable(plan) /\ Rule(bot, plan) /\ held'[bot] = PositionOf(plan)
    <3>1. SoundPosition(PositionOf(plan)) /\ WorthPosition(PositionOf(plan)) /\ Unchased(view)
      BY <1>2, <2>2, PositionIsSound, Zenon DEF plan
    <3> QED
      BY <2>2, <3>1 DEF SoundPosition
  <2> QED
    BY <1>7, <2>1, <2>2
<1>9. HeldOK'
  BY <1>1, <1>7, <1>8 DEF HeldOK, view
<1> QED
  BY <1>1, <1>5, <1>9 DEF SwingInv

LEMMA SwingInvariant == Spec => []SwingInv
<1>1. Init => SwingInv
  BY DEF Init, SwingInv, SeenOK, HeldOK
<1>2. SwingInv /\ [Next]_vars => SwingInv'
  <2> SUFFICES ASSUME SwingInv, [Next]_vars
               PROVE  SwingInv'
    OBVIOUS
  <2>1. ASSUME NEW usecase \in {"buy", "sell"}, NEW pace \in DOMAIN Tuning, NEW p \in Prices,
               Page(usecase, pace, p)
        PROVE  SwingInv'
    BY <2>1, PageKeeps
  <2>2. CASE Leave
    BY <2>2 DEF Leave, SwingInv, SeenOK, HeldOK
  <2>3. ASSUME NEW p \in Prices, Cycle(p)
        PROVE  SwingInv'
    BY <2>3, CycleKeeps
  <2>4. ASSUME NEW bot \in Bots, Release(bot)
        PROVE  SwingInv'
    <3>1. scene' = scene /\ seen' = seen /\ held' = [held EXCEPT ![bot] = None]
      BY <2>4 DEF Release
    <3>2. scene \in Scenes /\ SeenOK /\ HeldOK
      BY DEF SwingInv
    <3>3. HeldOK'
      BY <3>1, <3>2 DEF HeldOK
    <3>4. SeenOK'
      BY <3>1, <3>2 DEF SeenOK
    <3> QED
      BY <3>1, <3>2, <3>3, <3>4 DEF SwingInv
  <2>5. CASE UNCHANGED vars
    BY <2>5 DEF vars, SwingInv, SeenOK, HeldOK
  <2> QED
    BY <2>1, <2>2, <2>3, <2>4, <2>5 DEF Next
<1> QED
  BY <1>1, <1>2, PTL DEF Spec

-----------------------------------------------------------------------------

\* The plan that is seen is a sound one of its view.
LEMMA SeenIsSound ==
  ASSUME SwingInv, seen # None
  PROVE  /\ SoundPlan(seen.view, seen.price, Tuning[seen.pace], seen.plan, seen.usecase = "sell")
         /\ seen.price \in Prices
         /\ seen.plan.emerging # None =>
              (seen.plan.emerging.extended =>
                 ~seen.plan.go /\ ~seen.plan.actionable /\ seen.plan.light # "go")
<1>1. /\ seen.price \in Prices /\ seen.usecase \in {"buy", "sell"} /\ seen.pace \in DOMAIN Tuning
      /\ seen.plan = BuildSwingPlan(seen.view, seen.price, seen.usecase, seen.pace)
  BY DEF SwingInv, SeenOK
<1>2. IsView(seen.view)
  BY ScenesAreViews DEF SwingInv, SeenOK
<1>3. SoundPlan(seen.view, seen.price, Tuning[seen.pace], seen.plan, seen.usecase = "sell")
  BY <1>1, <1>2, PlanIsSound, Zenon
<1>4. seen.plan.emerging # None =>
        (seen.plan.emerging.extended =>
           ~seen.plan.go /\ ~seen.plan.actionable /\ seen.plan.light # "go")
  BY <1>1, <1>2, StretchedWithdraws, Zenon
<1> QED
  BY <1>1, <1>3, <1>4

\* Every plan has a score in percent and levels in whole cents, and every bot
\* at most one position with the fields of one.
THEOREM SwingTypeCorrect == Spec => []TypeOK
<1>1. SwingInv => TypeOK
  <2> SUFFICES ASSUME SwingInv PROVE TypeOK
    OBVIOUS
  <2>1. held \in [Bots -> Position \cup {None}]
    BY DEF SwingInv, HeldOK
  <2>2. ASSUME seen # None
        PROVE  /\ seen.price \in Prices /\ TypedPlan(seen.plan)
    BY <2>2, SeenIsSound DEF SoundPlan
  <2> QED
    BY <2>1, <2>2 DEF TypeOK, TypedPlan
<1> QED
  BY <1>1, SwingInvariant, PTL

\* On every view, price, side and pace a plan that proposes a trade has its stop
\* on the losing side and its target on the winning side, in whole cents, and so
\* has every position that a bot opened of one (swing.py:303, app.py:892).
THEOREM PlansAreOrdered == Spec => []LevelsAreOrdered
<1>1. SwingInv => LevelsAreOrdered
  <2> SUFFICES ASSUME SwingInv PROVE LevelsAreOrdered
    OBVIOUS
  <2>1. ASSUME seen # None, seen.plan.kind # "no_trade"
        PROVE  Ordered(seen.plan, seen.usecase = "sell")
    BY <2>1, SeenIsSound DEF SoundPlan
  <2>2. ASSUME NEW bot \in Bots, held[bot] # None
        PROVE  SoundPosition(held[bot])
    BY <2>2 DEF SwingInv, HeldOK
  <2> QED
    BY <2>1, <2>2 DEF LevelsAreOrdered, Ordered, SoundPosition
<1> QED
  BY <1>1, SwingInvariant, PTL

\* The target of every plan that proposes a trade is within what volatility and
\* pace allow, with no level of any frame in the way that does not cluster with
\* the entry; no plan is of high conviction, and none that is immediate pays
\* three times its risk (swing.py:303, 394).
THEOREM TargetsAreHonest == Spec => []TargetIsHonest
<1>1. SwingInv => TargetIsHonest
  <2> SUFFICES ASSUME SwingInv PROVE TargetIsHonest
    OBVIOUS
  <2>1. ASSUME seen # None
        PROVE  SoundPlan(seen.view, seen.price, Tuning[seen.pace], seen.plan,
                         seen.usecase = "sell")
    BY <2>1, SeenIsSound
  <2>2. ReachIsHonest
    <3>1. ASSUME seen # None, seen.plan.kind # "no_trade"
          PROVE  Reaches(seen.view, seen.price, Tuning[seen.pace], seen.plan,
                         seen.usecase = "sell")
      BY <2>1, <3>1 DEF SoundPlan
    <3> QED
      BY <3>1 DEF ReachIsHonest, Reaches
  <2>3. RewardIsBounded
    <3>1. ASSUME seen # None
          PROVE  /\ seen.plan.confidence # "high"
                 /\ seen.plan.kind = "immediate" => Pays(seen.plan)
      BY <2>1, <3>1 DEF SoundPlan
    <3> QED
      BY <3>1 DEF RewardIsBounded, Pays
  <2> QED
    BY <2>2, <2>3 DEF TargetIsHonest
<1> QED
  BY <1>1, SwingInvariant, PTL

\* No bot ever holds a position of a spent move, of a stretched or distributed
\* young name, or of a trade that did not pay 1.5 times its risk and its 3%; and
\* no plan says go whose emerging read took it back (app.py:892, swing.py:766).
THEOREM TradesHaveReason == Spec => []HeldForGoodReason
<1>1. SwingInv => HeldForGoodReason
  <2> SUFFICES ASSUME SwingInv PROVE HeldForGoodReason
    OBVIOUS
  <2>1. ASSUME NEW bot \in Bots, held[bot] # None
        PROVE  WorthPosition(held[bot]) /\ Unchased(RadarView(scene))
    BY <2>1 DEF SwingInv, HeldOK
  <2>2. NeverChases
    BY <2>1, Zenon DEF NeverChases, Unchased, Thin
  <2>3. WorthTheRisk
    BY <2>1 DEF WorthTheRisk, WorthPosition
  <2>4. StretchedIsWithdrawn
    BY SeenIsSound, Zenon DEF StretchedIsWithdrawn
  <2> QED
    BY <2>2, <2>3, <2>4 DEF HeldForGoodReason
<1> QED
  BY <1>1, SwingInvariant, PTL
=============================================================================
