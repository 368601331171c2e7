---------------------------- MODULE DayBotsProofs ----------------------------
(* What the day-trading bots ask for and what their replay decides, for any *)
(* day of any bars: every invariant and action property of DayBots.  The    *)
(* prices, the levels and the volumes may be any numbers, the frames may be *)
(* behind by any number of bars, and there may be any number of variants.   *)
EXTENDS DayBots, SequenceTheorems, WellFoundedInduction, TLAPS

-----------------------------------------------------------------------------
(* Least and greatest numbers.                                              *)

Under == {ss \in Nat \X Nat : ss[1] < ss[2]}

LEMMA LeastExists ==
  ASSUME NEW S, S \subseteq Nat, S # {}
  PROVE  \E x \in S : \A y \in S : x <= y
<1>1. IsWellFoundedOn(Under, Nat)
  BY NatLessThanWellFounded DEF OpToRel, Under
<1>2. PICK x \in S : \A y \in S : ~ (<<y, x>> \in Under)
  BY <1>1, WFMin
<1>3. ASSUME NEW y \in S PROVE x <= y
  <2>1. x \in Nat /\ y \in Nat
    OBVIOUS
  <2>2. <<y, x>> \in Nat \X Nat /\ <<y, x>>[1] = y /\ <<y, x>>[2] = x
    BY <2>1
  <2>3. ~ (y < x)
    BY <1>2, <2>2 DEF Under
  <2> QED
    BY <2>1, <2>3
<1> QED
  BY <1>3

LEMMA Least ==
  ASSUME NEW S, S \subseteq Nat, S # {}
  PROVE  Min(S) \in S /\ \A y \in S : Min(S) <= y
BY LeastExists DEF Min

\* The least of a set and of what is added above it.
LEMMA LeastStays ==
  ASSUME NEW S, S \subseteq Nat, S # {}, NEW T, T \subseteq Nat, S \subseteq T,
         \A x \in T \ S : \A y \in S : y < x
  PROVE  Min(T) = Min(S)
<1>1. Min(S) \in S /\ \A y \in S : Min(S) <= y
  BY Least
<1>2. Min(T) \in T /\ \A y \in T : Min(T) <= y
  BY Least
<1>3. Min(S) \in Nat /\ Min(T) \in Nat /\ Min(S) \in T /\ Min(T) <= Min(S)
  BY <1>1, <1>2
<1>4. Min(T) \in S
  <2>1. Min(T) \notin S => Min(S) < Min(T)
    BY <1>1, <1>2
  <2> QED
    BY <1>3, <2>1
<1>5. Min(S) <= Min(T)
  BY <1>1, <1>4
<1> QED
  BY <1>3, <1>5

LEMMA Greatest ==
  ASSUME NEW S, S \subseteq Nat, S # {}, NEW m \in Nat, \A y \in S : y <= m
  PROVE  Max(S) \in S /\ \A y \in S : y <= Max(S)
<1> DEFINE B == {b \in Nat : \A y \in S : y <= b}
<1>1. PICK b \in B : \A c \in B : b <= c
  <2>1. B \subseteq Nat /\ m \in B
    OBVIOUS
  <2> HIDE DEF B
  <2> QED
    BY <2>1, LeastExists
<1>2. b \in S
  <2>1. SUFFICES ASSUME b \notin S PROVE FALSE
    OBVIOUS
  <2>2. \A y \in S : y \in Nat /\ y <= b /\ y # b
    BY <2>1, <1>1
  <2>3. PICK z \in S : TRUE
    OBVIOUS
  <2>4. b \in Nat /\ b # 0
    BY <1>1, <2>2, <2>3
  <2>5. b - 1 \in Nat /\ \A y \in S : y <= b - 1
    BY <2>2, <2>4
  <2>6. b <= b - 1
    BY <2>5, <1>1
  <2> QED
    BY <2>4, <2>6
<1>3. \E x \in S : \A y \in S : x >= y
  BY <1>2
<1> QED
  BY <1>3 DEF Max

LEMMA Larger ==
  ASSUME NEW a \in Nat, NEW b \in Nat
  PROVE  \E k \in Nat : a <= k /\ b <= k
<1>1. a + b \in Nat /\ a <= a + b /\ b <= a + b
  OBVIOUS
<1> QED
  BY <1>1

\* Finitely many numbers have a bound.
LEMMA FinitelyMany ==
  ASSUME NEW n \in Nat, NEW h \in [1..n -> Nat]
  PROVE  \E m \in Nat : \A i \in 1..n : h[i] <= m
<1> DEFINE Bad == {k \in 0..n : ~\E m \in Nat : \A i \in 1..k : h[i] <= m}
<1>1. SUFFICES ASSUME Bad # {} PROVE FALSE
  <2>1. n \in 0..n
    OBVIOUS
  <2> QED
    BY <2>1
<1>2. PICK k \in Bad : \A j \in Bad : k <= j
  <2>1. Bad \subseteq Nat
    OBVIOUS
  <2> HIDE DEF Bad
  <2> QED
    BY <2>1, <1>1, LeastExists
<1>3. k \in 1..n
  <2>1. \A i \in 1..0 : h[i] <= 0
    OBVIOUS
  <2>2. k \in 0..n /\ k # 0
    BY <1>2, <2>1
  <2> QED
    BY <2>2
<1>4. k - 1 \in 0..n /\ ~ (k <= k - 1)
  BY <1>3
<1>5. PICK m \in Nat : \A i \in 1..(k - 1) : h[i] <= m
  BY <1>2, <1>4
<1>6. PICK b \in Nat : m <= b /\ h[k] <= b
  BY <1>3, Larger
<1>7. ASSUME NEW i \in 1..k PROVE h[i] <= b
  <2>1. h[i] \in Nat /\ (i = k \/ i \in 1..(k - 1))
    BY <1>3
  <2>2. i \in 1..(k - 1) => h[i] <= m
    BY <1>5
  <2> QED
    BY <2>1, <2>2, <1>6
<1> QED
  BY <1>2, <1>7

LEMMA BarFacts ==
  ASSUME NEW bars \in Seq(Bars)
  PROVE  /\ Len(bars) \in Nat /\ DOMAIN bars = 1..Len(bars)
         /\ \A i \in 1..Len(bars) : /\ bars[i] \in Bars /\ bars[i].high \in Nat
                                     /\ bars[i].low \in Nat /\ bars[i].at \in Nat
                                     /\ bars[i].day \in Int
<1>1. \A b \in Bars : b.high \in Nat /\ b.low \in Nat /\ b.at \in Nat /\ b.day \in Int
  BY DEF Bars
<1>2. Len(bars) \in Nat /\ DOMAIN bars = 1..Len(bars) /\ \A i \in 1..Len(bars) : bars[i] \in Bars
  OBVIOUS
<1> QED
  BY <1>1, <1>2

\* The prices of some of the bars: their extremes are in order.
LEMMA ExtremesAreOrdered ==
  ASSUME NEW bars \in Seq(Bars), NEW S, S \subseteq DOMAIN bars, S # {},
         \A i \in S : bars[i].low <= bars[i].high
  PROVE  Lowest(bars, S) <= Highest(bars, S) /\ Lowest(bars, S) \in Nat /\ Highest(bars, S) \in Nat
<1> DEFINE h == [i \in 1..Len(bars) |-> bars[i].high]
           H == {bars[i].high : i \in S}
           L == {bars[i].low : i \in S}
<1>1. Len(bars) \in Nat /\ h \in [1..Len(bars) -> Nat] /\ H \subseteq Nat /\ L \subseteq Nat
  BY BarFacts
<1>2. PICK m \in Nat : \A i \in 1..Len(bars) : h[i] <= m
  <2> HIDE DEF h
  <2> QED
    BY <1>1, FinitelyMany
<1>3. \A y \in H : y <= m
  BY <1>2, BarFacts
<1>4. PICK i \in S : TRUE
  OBVIOUS
<1>5. bars[i].high \in H /\ bars[i].low \in L
  BY <1>4
<1>6. Max(H) \in H /\ \A y \in H : y <= Max(H)
  <2> HIDE DEF H
  <2> QED
    BY <1>1, <1>3, <1>5, Greatest
<1>7. Min(L) \in L /\ \A y \in L : Min(L) <= y
  <2> HIDE DEF L
  <2> QED
    BY <1>1, <1>5, Least
<1>8. Highest(bars, S) = Max(H) /\ Lowest(bars, S) = Min(L)
  BY DEF Highest, Lowest
<1>9. /\ Max(H) \in Nat /\ Min(L) \in Nat /\ bars[i].high <= Max(H) /\ Min(L) <= bars[i].low
      /\ bars[i].low <= bars[i].high /\ bars[i].low \in Nat /\ bars[i].high \in Nat
  <2> HIDE DEF H, L
  <2> QED
    BY <1>1, <1>5, <1>6, <1>7, BarFacts
<1> HIDE DEF H, L
<1> QED
  BY <1>8, <1>9

-----------------------------------------------------------------------------
(* The bars of a day after those of the day before, and the first of them.  *)

LEMMA FirstsFacts ==
  ASSUME NEW bars \in Seq(Bars), NEW n \in 0..Len(bars)
  PROVE  /\ FirstBars(bars, n) \in Seq(Bars) /\ Len(FirstBars(bars, n)) = n
         /\ \A i \in 1..n : FirstBars(bars, n)[i] = bars[i]
<1>1. Len(bars) \in Nat /\ \A i \in 1..n : bars[i] \in Bars
  OBVIOUS
<1>2. /\ SubSeq(bars, 1, n) \in Seq(Bars)
      /\ Len(SubSeq(bars, 1, n)) = IF 1 <= n THEN n - 1 + 1 ELSE 0
      /\ \A i \in 1..(n - 1 + 1) : SubSeq(bars, 1, n)[i] = bars[1 + i - 1]
  BY <1>1, SubSeqProperties
<1>3. n - 1 + 1 = n /\ \A i \in 1..n : 1 + i - 1 = i
  OBVIOUS
<1> QED
  BY <1>2, <1>3 DEF FirstBars

\* The first h bars are of the days before.
GoodDay(bars, h) ==
  /\ bars \in Seq(Bars) /\ h \in Nat /\ h < Len(bars)
  /\ \A i \in 1..h : bars[i].day < Today
  /\ \A i \in (h + 1)..Len(bars) : bars[i].day = Today /\ bars[i].at % 5 = 0
  /\ \A i, j \in (h + 1)..Len(bars) : i < j => bars[i].at < bars[j].at

LEMMA FirstsAreGood ==
  ASSUME NEW bars, NEW h, GoodDay(bars, h), NEW n \in (h + 1)..Len(bars)
  PROVE  GoodDay(FirstBars(bars, n), h)
<1>1. bars \in Seq(Bars) /\ h \in Nat /\ Len(bars) \in Nat /\ n \in 0..Len(bars)
  BY DEF GoodDay
<1>2. /\ FirstBars(bars, n) \in Seq(Bars) /\ Len(FirstBars(bars, n)) = n
      /\ \A i \in 1..n : FirstBars(bars, n)[i] = bars[i]
  BY <1>1, FirstsFacts
<1>3. (h + 1)..n \subseteq (h + 1)..Len(bars) /\ (h + 1)..n \subseteq 1..n /\ 1..h \subseteq 1..n /\ h < n
  BY <1>1
<1> QED
  BY <1>1, <1>2, <1>3 DEF GoodDay

LEMMA SessionOfDay ==
  ASSUME NEW bars, NEW h, GoodDay(bars, h)
  PROVE  /\ SessionBars(bars) = (h + 1)..Len(bars) /\ Min(SessionBars(bars)) = h + 1
         /\ Last(bars).day = Today /\ bars # <<>>
<1>1. /\ Len(bars) \in Nat /\ DOMAIN bars = 1..Len(bars)
      /\ \A i \in 1..Len(bars) : bars[i].day \in Int
  BY BarFacts DEF GoodDay
<1>2. h \in Nat /\ h < Len(bars) /\ Len(bars) \in (h + 1)..Len(bars)
  BY <1>1 DEF GoodDay
<1>3. Last(bars).day = Today
  BY <1>2 DEF GoodDay, Last
<1>4. \A i \in 1..Len(bars) : i \in 1..h \/ i \in (h + 1)..Len(bars)
  BY <1>1, <1>2
<1>5. \A i \in 1..h : bars[i].day # Today
  BY <1>1, <1>2 DEF GoodDay, Today
<1>6. SessionBars(bars) = (h + 1)..Len(bars)
  <2>1. \A i \in (h + 1)..Len(bars) : i \in 1..Len(bars) /\ bars[i].day = Today
    BY <1>2 DEF GoodDay
  <2>2. \A i \in 1..Len(bars) : bars[i].day = Today => i \in (h + 1)..Len(bars)
    BY <1>4, <1>5
  <2> QED
    BY <1>1, <1>3, <2>1, <2>2 DEF SessionBars
<1>7. Min((h + 1)..Len(bars)) = h + 1
  <2> DEFINE S == (h + 1)..Len(bars)
  <2>1. S \subseteq Nat /\ S # {} /\ h + 1 \in S /\ \A y \in S : h + 1 <= y /\ y \in Nat
    BY <1>1, <1>2
  <2> HIDE DEF S
  <2>2. Min(S) \in S /\ \A y \in S : Min(S) <= y
    BY <2>1, Least
  <2>3. Min(S) = h + 1
    <3>1. Min(S) \in Nat /\ h + 1 <= Min(S) /\ Min(S) <= h + 1
      BY <2>1, <2>2
    <3> QED
      BY <3>1, <1>2
  <2> QED
    BY <2>3 DEF S
<1>8. bars # <<>>
  BY <1>2
<1> QED
  BY <1>3, <1>6, <1>7, <1>8

\* After the range's bars, later ones do not change it.
LEMMA RangeOfFirsts ==
  ASSUME NEW bars, NEW h, GoodDay(bars, h), NEW n \in (h + 1)..Len(bars), bars[n].at >= RangeEnd,
         NEW first, first = FirstBars(bars, n)
  PROVE  /\ RangeBars(first, SessionBars(first)) = RangeBars(bars, SessionBars(bars))
         /\ LET S == RangeBars(bars, SessionBars(bars)) IN
              /\ S \subseteq 1..n
              /\ Highest(first, S) = Highest(bars, S) /\ Lowest(first, S) = Lowest(bars, S)
         /\ First(first, SessionBars(first)) = First(bars, SessionBars(bars))
<1> DEFINE S == RangeBars(bars, SessionBars(bars))
<1>1. /\ bars \in Seq(Bars) /\ h \in Nat /\ Len(bars) \in Nat /\ n \in 0..Len(bars)
      /\ \A i \in 1..Len(bars) : bars[i].at \in Nat
  BY BarFacts DEF GoodDay
<1>2. /\ first \in Seq(Bars) /\ Len(first) = n
      /\ \A i \in 1..n : first[i] = bars[i]
  BY <1>1, FirstsFacts
<1>3. SessionBars(bars) = (h + 1)..Len(bars) /\ Min(SessionBars(bars)) = h + 1
  BY SessionOfDay
<1>4. SessionBars(first) = (h + 1)..n /\ Min(SessionBars(first)) = h + 1
  BY SessionOfDay, FirstsAreGood, <1>2
<1>5. \A i \in (h + 1)..Len(bars) : i > n => bars[i].at > RangeEnd - 1
  <2>1. \A i \in (h + 1)..Len(bars) : i > n => n < i /\ bars[n].at < bars[i].at
    BY <1>1 DEF GoodDay
  <2>2. bars[n].at \in Nat /\ \A i \in (h + 1)..Len(bars) : bars[i].at \in Nat
    BY <1>1
  <2> QED
    BY <2>1, <2>2 DEF RangeEnd
<1>6. S \subseteq (h + 1)..n
  <2>1. ASSUME NEW i \in S PROVE i \in (h + 1)..n
    <3>1. i \in (h + 1)..Len(bars) /\ bars[i].at \in Open..(RangeEnd - 1)
      BY <1>3 DEF RangeBars
    <3>2. ~ (i > n)
      BY <1>5, <3>1 DEF Open, RangeEnd
    <3> QED
      BY <3>1, <3>2, <1>1
  <2> QED
    BY <2>1
<1>7. S \subseteq 1..n /\ (h + 1)..n \subseteq 1..n /\ (h + 1)..n \subseteq (h + 1)..Len(bars)
      /\ h + 1 \in 1..n
  BY <1>1, <1>6
<1>8. RangeBars(first, SessionBars(first)) = S
  <2>1. RangeBars(first, (h + 1)..n) = {i \in (h + 1)..n : bars[i].at \in Open..(RangeEnd - 1)}
    BY <1>2, <1>7 DEF RangeBars
  <2>2. S = {i \in (h + 1)..Len(bars) : bars[i].at \in Open..(RangeEnd - 1)}
    BY <1>3 DEF RangeBars
  <2> HIDE DEF S
  <2> QED
    BY <1>4, <1>6, <1>7, <2>1, <2>2
<1> HIDE DEF S
<1>9. \A i \in S : first[i] = bars[i]
  BY <1>2, <1>7
<1>10. {first[i].high : i \in S} = {bars[i].high : i \in S} /\ {first[i].low : i \in S} = {bars[i].low : i \in S}
  BY <1>9
<1>11. Highest(first, S) = Highest(bars, S) /\ Lowest(first, S) = Lowest(bars, S)
  BY <1>10 DEF Highest, Lowest
<1>12. First(first, SessionBars(first)) = First(bars, SessionBars(bars))
  BY <1>2, <1>3, <1>4, <1>7 DEF First
<1> QED
  BY <1>7, <1>8, <1>11, <1>12 DEF S

\* Once the first fifteen minutes have passed, the opening range is the same
\* whenever and from however many of the bars it is taken.
LEMMA SameRange ==
  ASSUME NEW bars, NEW h, GoodDay(bars, h), NEW n \in (h + 1)..Len(bars), bars[n].at >= RangeEnd,
         NEW prev, NEW t, NEW u, MarketPhase(t) = "regular", MarketPhase(u) = "regular"
  PROVE  OpeningRange(FirstBars(bars, n), prev, t) = OpeningRange(bars, prev, u)
<1> DEFINE first == FirstBars(bars, n)
<1>1. /\ RangeBars(first, SessionBars(first)) = RangeBars(bars, SessionBars(bars))
      /\ Highest(first, RangeBars(bars, SessionBars(bars))) = Highest(bars, RangeBars(bars, SessionBars(bars)))
      /\ Lowest(first, RangeBars(bars, SessionBars(bars))) = Lowest(bars, RangeBars(bars, SessionBars(bars)))
      /\ First(first, SessionBars(first)) = First(bars, SessionBars(bars))
  BY RangeOfFirsts
<1>2. Last(first).day = Last(bars).day /\ first # <<>> /\ bars # <<>>
  BY SessionOfDay, FirstsAreGood
<1> HIDE DEF first
<1>3. OpeningRange(first, prev, t) = OpeningRange(bars, prev, u)
  BY <1>1, <1>2, Zenon DEF OpeningRange
<1> QED
  BY <1>3 DEF first

LEMMA Phases ==
  /\ \A t \in RangeEnd..959 : MarketPhase(t) = "regular"
  /\ \A t \in RangeEnd..(WindowEnd - 4) : /\ t \in RangeEnd..959 /\ t + 4 \in RangeEnd..959
                                          /\ IsOrbWindow(t) /\ IsOrbWindow(t + 4)
  /\ \A t \in Nat : MarketPhase(t) = "regular" => t \in RangeEnd..959
  /\ \A t \in Nat : MarketPhase(t) = "opening_range" <=> t \in Open..(RangeEnd - 1)
  /\ \A t \in Nat : IsOrbWindow(t) => t \in RangeEnd..959 /\ t <= WindowEnd
BY DEF MarketPhase, IsOrbWindow, Open, RangeEnd, WindowEnd

\* On such a bar the replay decides Gap-and-Go as the radar would.
LEMMA ReplayIsTheRadar ==
  ASSUME NEW bars, NEW h, GoodDay(bars, h), NEW i \in DOMAIN bars
  PROVE  SameDecision(bars, i)
<1> DEFINE first == FirstBars(bars, i)
<1>1. SUFFICES ASSUME bars[i].day = Today, bars[i].at \in RangeEnd..(WindowEnd - 4)
               PROVE  ReplayedGap(bars, PrevClose, i) =
                        GapAndGo(OpeningRange(first, PrevClose, bars[i].at + 4),
                                 first, bars[i].close, bars[i].at + 4)
  BY DEF SameDecision
<1>2. i \in (h + 1)..Len(bars)
  <2>1. i \in SessionBars(bars)
    BY <1>1, SessionOfDay DEF SessionBars
  <2> QED
    BY <2>1, SessionOfDay
<1>3. /\ bars[i].at \in RangeEnd..959 /\ bars[i].at + 4 \in RangeEnd..959
      /\ IsOrbWindow(bars[i].at) /\ IsOrbWindow(bars[i].at + 4)
      /\ MarketPhase(bars[i].at + 4) = "regular" /\ MarketPhase(600) = "regular"
      /\ bars[i].at >= RangeEnd
  <2>1. 600 \in RangeEnd..959
    BY DEF RangeEnd
  <2> QED
    BY <1>1, <2>1, Phases
<1>4. OpeningRange(first, PrevClose, bars[i].at + 4) = OpeningRange(bars, PrevClose, 600)
  BY <1>2, <1>3, SameRange
<1> HIDE DEF first
<1>5. \A r : GapAndGo(r, first, bars[i].close, bars[i].at) = GapAndGo(r, first, bars[i].close, bars[i].at + 4)
  BY <1>3, Zenon DEF GapAndGo
<1> QED
  BY <1>4, <1>5 DEF ReplayedGap, ReplayRange, first

-----------------------------------------------------------------------------
(* What the replay makes of the first n bars of a day, and of more of them. *)

LEMMA FirstOfFirsts ==
  ASSUME NEW more \in Seq(Bars), NEW n \in 0..Len(more), NEW i \in 0..n
  PROVE  FirstBars(FirstBars(more, n), i) = FirstBars(more, i)
<1> DEFINE bars == FirstBars(more, n)
           a == FirstBars(bars, i)
           b == FirstBars(more, i)
<1>1. /\ bars \in Seq(Bars) /\ Len(bars) = n /\ \A k \in 1..n : bars[k] = more[k]
      /\ i \in 0..Len(more) /\ Len(more) \in Nat
  BY FirstsFacts
<1>2. b \in Seq(Bars) /\ Len(b) = i /\ \A k \in 1..i : b[k] = more[k]
  BY <1>1, FirstsFacts
<1> HIDE DEF bars, b
<1>3. a \in Seq(Bars) /\ Len(a) = i /\ \A k \in 1..i : a[k] = bars[k]
  BY <1>1, FirstsFacts
<1> HIDE DEF a
<1>4. \A k \in 1..Len(a) : a[k] = b[k]
  BY <1>1, <1>2, <1>3
<1>5. a = b
  BY <1>2, <1>3, <1>4, SeqEqual
<1> QED
  BY <1>5 DEF a, b, bars

\* The first bar of those that count stays, when more of the day counts.
LEMMA FirstHitStays ==
  ASSUME NEW n \in Nat, NEW S, S \subseteq 1..n, S # {}, NEW T, T \subseteq Nat,
         T \cap 1..n = S, 0 \notin T
  PROVE  Min(T) = Min(S) /\ Min(S) \in S
<1>1. S \subseteq Nat /\ S \subseteq T
  OBVIOUS
<1>2. \A x \in T \ S : \A y \in S : y < x
  <2>1. ASSUME NEW x \in T \ S, NEW y \in S PROVE y < x
    <3>1. x \in Nat /\ x # 0 /\ x \notin 1..n /\ y \in 1..n
      OBVIOUS
    <3> QED
      BY <3>1
  <2> QED
    BY <2>1
<1>3. Min(T) = Min(S)
  BY <1>1, <1>2, LeastStays
<1> QED
  BY <1>1, <1>3, Least

LEMMA JudgedStays ==
  ASSUME NEW more \in Seq(Bars), NEW n \in 0..Len(more), NEW bars, bars = FirstBars(more, n),
         NEW at \in Nat, NEW entry, NEW stop, NEW target,
         Judged(bars, at, entry, stop, target) \in {"stop", "target"}
  PROVE  Judged(more, at, entry, stop, target) = Judged(bars, at, entry, stop, target)
<1> DEFINE Meets(i) == Pips * more[i].low <= stop \/ Pips * more[i].high >= target
           rest == After(bars, at)
           hits == {i \in rest : Pips * bars[i].low <= stop \/ Pips * bars[i].high >= target}
           allRest == After(more, at)
           allHits == {i \in allRest : Meets(i)}
<1>1. /\ Len(bars) = n /\ Len(more) \in Nat /\ n \in Nat
      /\ \A k \in 1..n : bars[k] = more[k]
  BY FirstsFacts
<1>2. rest = {i \in (at + 1)..n : bars[i].at \in Open..959}
  BY <1>1 DEF After, InHours
<1>3. allRest = {i \in (at + 1)..Len(more) : more[i].at \in Open..959}
  BY DEF After, InHours
<1>4. rest \subseteq 1..n /\ allRest \subseteq Nat /\ 0 \notin allRest /\ allRest \cap 1..n = rest
  <2>1. (at + 1)..n \subseteq 1..n /\ (at + 1)..Len(more) \subseteq Nat \ {0}
    BY <1>1
  <2>2. \A i \in 1..n : i \in (at + 1)..Len(more) <=> i \in (at + 1)..n
    BY <1>1
  <2> HIDE DEF rest, allRest
  <2>3. \A i \in rest : i \in 1..n /\ i \in (at + 1)..n /\ more[i].at \in Open..959
    BY <1>1, <1>2, <2>1
  <2>4. \A i \in allRest : i \in 1..n => i \in rest
    BY <1>1, <1>2, <1>3, <2>2
  <2>5. \A i \in rest : i \in allRest
    BY <2>2, <2>3, <1>3
  <2> QED
    BY <1>3, <2>1, <2>3, <2>4, <2>5
<1> HIDE DEF rest, allRest
<1>5. rest # {} /\ hits # {}
  <2>1. Judged(bars, at, entry, stop, target) =
          CASE rest = {} -> "open"
            [] rest # {} /\ hits = {} -> "eod"
            [] OTHER -> IF Pips * bars[Min(hits)].low <= stop THEN "stop" ELSE "target"
    BY DEF Judged, rest
  <2> HIDE DEF hits
  <2> QED
    BY <2>1
<1>6. hits \subseteq 1..n /\ allHits \subseteq Nat /\ 0 \notin allHits /\ allHits \cap 1..n = hits
  <2>1. \A i \in 1..n : i \in hits <=> i \in allHits
    BY <1>1, <1>4
  <2> QED
    BY <1>4, <2>1
<1>7. Min(allHits) = Min(hits) /\ Min(hits) \in hits /\ allHits # {} /\ allRest # {}
  <2>1. allHits # {} /\ allRest # {}
    BY <1>5, <1>6
  <2> HIDE DEF hits, allHits
  <2> QED
    BY <1>1, <1>5, <1>6, <2>1, FirstHitStays
<1>8. bars[Min(hits)] = more[Min(hits)]
  <2> HIDE DEF hits
  <2> QED
    BY <1>1, <1>6, <1>7
<1>9. Judged(bars, at, entry, stop, target)
        = IF Pips * bars[Min(hits)].low <= stop THEN "stop" ELSE "target"
  BY <1>5 DEF Judged, rest
<1>10. Judged(more, at, entry, stop, target)
         = IF Pips * more[Min(allHits)].low <= stop THEN "stop" ELSE "target"
  BY <1>7 DEF Judged, allRest
<1> HIDE DEF hits, allHits
<1> QED
  BY <1>7, <1>8, <1>9, <1>10

\* The first n bars of a day against the whole of it.
LEMMA FirstsOfDay ==
  ASSUME NEW more, NEW h, GoodDay(more, h), NEW n \in (h + 1)..Len(more),
         NEW bars, bars = FirstBars(more, n)
  PROVE  /\ more \in Seq(Bars) /\ h \in Nat /\ n \in 0..Len(more) /\ n \in Nat /\ Len(more) \in Nat
         /\ Len(bars) = n /\ DOMAIN bars = 1..n /\ DOMAIN more = 1..Len(more)
         /\ Last(bars).day = Last(more).day /\ Last(more).day = Today
         /\ \A i \in 1..n : /\ i \in 1..Len(more) /\ bars[i] = more[i]
                             /\ FirstBars(bars, i) = FirstBars(more, i)
         /\ Regular(bars) \subseteq 1..n /\ Regular(more) \subseteq Nat /\ 0 \notin Regular(more)
         /\ Regular(more) \cap 1..n = Regular(bars)
<1>1. more \in Seq(Bars) /\ h \in Nat /\ n \in 0..Len(more) /\ n \in Nat /\ Len(more) \in Nat
  BY BarFacts DEF GoodDay
<1>2. bars \in Seq(Bars) /\ Len(bars) = n /\ \A i \in 1..n : bars[i] = more[i]
  BY <1>1, FirstsFacts
<1>3. SessionBars(more) = (h + 1)..Len(more) /\ Last(more).day = Today
  BY SessionOfDay
<1>4. SessionBars(bars) = (h + 1)..n /\ Last(bars).day = Today
  BY <1>2, SessionOfDay, FirstsAreGood
<1>5. \A i \in 1..n : i \in 1..Len(more) /\ FirstBars(bars, i) = FirstBars(more, i)
  <2>1. \A i \in 1..n : i \in 0..n /\ i \in 1..Len(more)
    BY <1>1
  <2> QED
    BY <1>1, <2>1, FirstOfFirsts
<1>6. Regular(more) = {i \in (h + 1)..Len(more) : more[i].at \in Open..959}
  BY <1>3 DEF Regular, InHours
<1>7. Regular(bars) = {i \in (h + 1)..n : bars[i].at \in Open..959}
  BY <1>4 DEF Regular, InHours
<1>8. /\ (h + 1)..n \subseteq 1..n /\ (h + 1)..Len(more) \subseteq Nat \ {0}
      /\ \A i \in 1..n : i \in (h + 1)..n <=> i \in (h + 1)..Len(more)
  BY <1>1
<1>9. Regular(bars) \subseteq 1..n /\ Regular(more) \subseteq Nat \ {0}
  BY <1>6, <1>7, <1>8
<1>10. \A i \in 1..n : i \in Regular(bars) <=> i \in Regular(more)
  BY <1>2, <1>6, <1>7, <1>8
<1> QED
  BY <1>1, <1>2, <1>3, <1>4, <1>5, <1>9, <1>10, BarFacts

\* The range of the regular hours is that of the session.
LEMMA RangeInHours ==
  ASSUME NEW bars
  PROVE  RangeBars(bars, Regular(bars)) = RangeBars(bars, SessionBars(bars))
<1>1. Open..(RangeEnd - 1) \subseteq Open..959
  BY DEF Open, RangeEnd
<1> QED
  BY <1>1 DEF RangeBars, Regular, InHours

LEMMA VariantStays ==
  ASSUME NEW more, NEW h, GoodDay(more, h), NEW n \in (h + 1)..Len(more),
         NEW v, NEW prev,
         VariantTrade(v, FirstBars(more, n), prev) # None,
         VariantTrade(v, FirstBars(more, n), prev).status \in {"stop", "target"}
  PROVE  VariantTrade(v, more, prev) = VariantTrade(v, FirstBars(more, n), prev)
<1> DEFINE bars == FirstBars(more, n)
           win == RangeBars(bars, Regular(bars))
           high == Highest(bars, win)
           entry == Pips * high
           stop == RangeStop(Lowest(bars, win))
           target == entry + Rounded(v.rr * (entry - stop), 2)
           at == Min(Entries(v, bars, high))
           E == Entries(v, bars, high)
           F == Entries(v, more, high)
<1>1. /\ more \in Seq(Bars) /\ h \in Nat /\ n \in 0..Len(more) /\ n \in Nat /\ Len(more) \in Nat
      /\ Len(bars) = n /\ DOMAIN bars = 1..n /\ DOMAIN more = 1..Len(more)
      /\ Last(bars).day = Last(more).day /\ Last(more).day = Today
      /\ \A i \in 1..n : /\ i \in 1..Len(more) /\ bars[i] = more[i]
                          /\ FirstBars(bars, i) = FirstBars(more, i)
      /\ Regular(bars) \subseteq 1..n /\ Regular(more) \subseteq Nat /\ 0 \notin Regular(more)
      /\ Regular(more) \cap 1..n = Regular(bars)
  BY FirstsOfDay
<1>2. SessionBars(bars) = (h + 1)..n
  BY <1>1, SessionOfDay, FirstsAreGood
<1> HIDE DEF bars
<1>3. /\ win # {} /\ GapUp(First(bars, Regular(bars)).open, prev, v.gap) /\ E # {} /\ ~ (stop >= entry)
      /\ VariantTrade(v, bars, prev) = [at |-> bars[at].at, entry |-> entry, stop |-> stop, target |-> target,
                                       status |-> Judged(bars, at, entry, stop, target)]
      /\ Judged(bars, at, entry, stop, target) \in {"stop", "target"}
  <2> DEFINE None0 == \/ win = {} \/ ~GapUp(First(bars, Regular(bars)).open, prev, v.gap)
                      \/ E = {} \/ stop >= entry
             trade == [at |-> bars[at].at, entry |-> entry, stop |-> stop, target |-> target,
                       status |-> Judged(bars, at, entry, stop, target)]
  <2>1. VariantTrade(v, bars, prev) = IF None0 THEN None ELSE trade
    BY DEF VariantTrade
  <2>2. VariantTrade(v, bars, prev) # None /\ VariantTrade(v, bars, prev).status \in {"stop", "target"}
    BY DEF bars
  <2>3. ~None0 /\ VariantTrade(v, bars, prev) = trade
    <3> HIDE DEF None0, trade
    <3> QED
      BY <2>1, <2>2
  <2>4. trade.status = Judged(bars, at, entry, stop, target)
    <3> HIDE DEF at, entry, stop, target
    <3> QED
      OBVIOUS
  <2> HIDE DEF trade, at, entry, stop, target
  <2> QED
    BY <2>2, <2>3, <2>4 DEF trade
<1> HIDE DEF target, stop, entry
<1>4. /\ E \subseteq 1..n /\ F \subseteq Nat /\ 0 \notin F /\ F \cap 1..n = E
  <2> HIDE DEF high
  <2>1. \A i \in 1..n : i \in E <=> i \in F
    BY <1>1 DEF Entries
  <2>2. E \subseteq 1..n /\ F \subseteq 1..Len(more)
    BY <1>1 DEF Entries
  <2>3. 1..Len(more) \subseteq Nat \ {0}
    OBVIOUS
  <2> HIDE DEF E, F
  <2>4. F \subseteq Nat \ {0}
    BY <2>2, <2>3, Zenon
  <2> QED
    BY <2>1, <2>2, <2>4, Zenon
<1>5. Min(F) = at /\ at \in E /\ at \in 1..n /\ F # {}
  <2> HIDE DEF E, F
  <2>1. n \in Nat /\ E # {}
    BY <1>1, <1>3
  <2>2. Min(F) = Min(E) /\ Min(E) \in E
    BY <1>4, <2>1, FirstHitStays
  <2>3. at = Min(E)
    BY DEF E
  <2> HIDE DEF at
  <2> QED
    BY <1>4, <2>2, <2>3, Zenon
<1>6. more[n].at >= RangeEnd
  <2>1. at \in (h + 1)..n /\ bars[at].at \in RangeEnd..v.end
    <3>1. at \in 1..n /\ bars[at].day = Last(bars).day /\ bars[at].at \in RangeEnd..v.end
      BY <1>1, <1>5 DEF Entries
    <3> HIDE DEF at
    <3> QED
      BY <1>1, <1>2, <3>1 DEF SessionBars
  <2> HIDE DEF at
  <2>2. more[at].at >= RangeEnd /\ more[at].at \in Nat /\ more[n].at \in Nat
        /\ at \in (h + 1)..Len(more) /\ at <= n
    <3>1. bars[at] = more[at] /\ at \in 1..Len(more) /\ n \in 1..Len(more)
          /\ at \in (h + 1)..Len(more)  /\ at <= n
      BY <1>1, <2>1
    <3>2. more[at].at \in Nat /\ more[n].at \in Nat
      BY <1>1, <3>1, BarFacts
    <3>3. bars[at].at >= RangeEnd
      BY <2>1
    <3> QED
      BY <3>1, <3>2, <3>3
  <2>3. at < n => more[at].at < more[n].at
    BY <2>2 DEF GoodDay
  <2> QED
    BY <1>1, <2>1, <2>2, <2>3 DEF RangeEnd
<1>7. /\ RangeBars(more, Regular(more)) = win
      /\ Highest(more, win) = high /\ Lowest(more, win) = Lowest(bars, win)
  BY <1>6, RangeOfFirsts, RangeInHours DEF bars
<1>8. First(more, Regular(more)) = First(bars, Regular(bars))
  <2>1. Regular(bars) # {}
    BY <1>3 DEF RangeBars
  <2>2. Min(Regular(more)) = Min(Regular(bars)) /\ Min(Regular(bars)) \in Regular(bars)
    BY <1>1, <2>1, FirstHitStays
  <2> QED
    BY <1>1, <2>2 DEF First
<1>9. Judged(more, at, entry, stop, target) = Judged(bars, at, entry, stop, target)
      /\ more[at].at = bars[at].at
  <2> HIDE DEF at
  <2> QED
    BY <1>1, <1>3, <1>5, JudgedStays DEF bars
<1>10. VariantTrade(v, more, prev) =
         IF \/ win = {} \/ ~GapUp(First(more, Regular(more)).open, prev, v.gap)
            \/ F = {} \/ stop >= entry
         THEN None
         ELSE [at |-> more[Min(F)].at, entry |-> entry, stop |-> stop, target |-> target,
               status |-> Judged(more, Min(F), entry, stop, target)]
  <2> HIDE DEF win
  <2> QED
    BY <1>7 DEF VariantTrade, target, stop, entry
<1> HIDE DEF at, E, F, win, high
<1>11. VariantTrade(v, more, prev) = VariantTrade(v, bars, prev)
  BY <1>3, <1>5, <1>8, <1>9, <1>10
<1> QED
  BY <1>11 DEF bars

LEMMA ReversalStays ==
  ASSUME NEW more, NEW h, GoodDay(more, h), NEW n \in (h + 1)..Len(more),
         NEW levels, NEW up, NEW prev, NEW c,
         ReversalTrade(FirstBars(more, n), levels, up, prev, c) # None,
         ReversalTrade(FirstBars(more, n), levels, up, prev, c).status \in {"stop", "target"}
  PROVE  ReversalTrade(more, levels, up, prev, c) = ReversalTrade(FirstBars(more, n), levels, up, prev, c)
<1> DEFINE bars == FirstBars(more, n)
           E == ReversalBars(bars, levels, up, prev, c)
           F == ReversalBars(more, levels, up, prev, c)
           at == Min(E)
           Plan(b, i) == Reversal(DayCard(FirstBars(b, i), levels, b[i].close), b[i], b[i].close,
                                  up, prev, b[i].at, c)
           Trade(b, i) == [at |-> b[i].at, entry |-> Plan(b, i).entry, stop |-> Plan(b, i).stop,
                           target |-> Plan(b, i).target,
                           status |-> Judged(b, i, Plan(b, i).entry, Plan(b, i).stop, Plan(b, i).target)]
<1>1. /\ more \in Seq(Bars) /\ n \in 0..Len(more) /\ n \in Nat /\ Len(more) \in Nat
      /\ DOMAIN bars = 1..n /\ DOMAIN more = 1..Len(more) /\ Last(bars).day = Last(more).day
      /\ \A i \in 1..n : /\ i \in 1..Len(more) /\ bars[i] = more[i]
                          /\ FirstBars(bars, i) = FirstBars(more, i)
  BY FirstsOfDay
<1> HIDE DEF bars
<1>2. \A i \in 1..n : Plan(bars, i) = Plan(more, i) /\ RunningLow(bars, i) = RunningLow(more, i)
  BY <1>1, Zenon DEF RunningLow
<1>3. E = {i \in 1..n : /\ bars[i].day = Last(bars).day /\ bars[i].at \in RangeEnd..959
                        /\ 100 * bars[i].close <= 102 * RunningLow(bars, i) /\ Plan(bars, i) # None}
  BY <1>1 DEF ReversalBars
<1>4. F = {i \in 1..Len(more) : /\ more[i].day = Last(more).day /\ more[i].at \in RangeEnd..959
                                /\ 100 * more[i].close <= 102 * RunningLow(more, i) /\ Plan(more, i) # None}
  BY <1>1 DEF ReversalBars
<1>5. \A b : ReversalTrade(b, levels, up, prev, c) =
               IF ReversalBars(b, levels, up, prev, c) = {} THEN None
               ELSE Trade(b, Min(ReversalBars(b, levels, up, prev, c)))
  BY DEF ReversalTrade
<1> HIDE DEF E, F, Plan
<1>6. E \subseteq 1..n /\ F \subseteq Nat /\ 0 \notin F /\ F \cap 1..n = E
  <2>1. \A i \in 1..n : i \in E <=> i \in F
    BY <1>1, <1>2, <1>3, <1>4
  <2>2. E \subseteq 1..n /\ F \subseteq 1..Len(more)
    BY <1>3, <1>4
  <2>3. 1..Len(more) \subseteq Nat \ {0}
    OBVIOUS
  <2>4. F \subseteq Nat \ {0}
    BY <2>2, <2>3, Zenon
  <2> QED
    BY <2>1, <2>2, <2>4, Zenon
<1>7. E # {} /\ ReversalTrade(bars, levels, up, prev, c) = Trade(bars, at)
  <2>1. ReversalTrade(bars, levels, up, prev, c) # None
    BY DEF bars
  <2> HIDE DEF Trade
  <2> QED
    BY <1>5, <2>1 DEF E
<1>8. Min(F) = at /\ at \in 1..n /\ F # {}
  <2>1. n \in Nat
    BY <1>1
  <2>2. Min(F) = Min(E) /\ Min(E) \in E
    BY <1>6, <1>7, <2>1, FirstHitStays
  <2> QED
    BY <1>6, <2>2, Zenon
<1> HIDE DEF at
<1>9. Judged(bars, at, Plan(bars, at).entry, Plan(bars, at).stop, Plan(bars, at).target) \in {"stop", "target"}
  <2>1. ReversalTrade(bars, levels, up, prev, c).status \in {"stop", "target"}
    BY DEF bars
  <2>2. Trade(bars, at).status =
          Judged(bars, at, Plan(bars, at).entry, Plan(bars, at).stop, Plan(bars, at).target)
    OBVIOUS
  <2> HIDE DEF Trade
  <2> QED
    BY <1>7, <2>1, <2>2
<1>10. Judged(more, at, Plan(bars, at).entry, Plan(bars, at).stop, Plan(bars, at).target)
         = Judged(bars, at, Plan(bars, at).entry, Plan(bars, at).stop, Plan(bars, at).target)
  BY <1>1, <1>8, <1>9, JudgedStays DEF bars
<1>11. Trade(more, at) = Trade(bars, at)
  BY <1>1, <1>2, <1>8, <1>10
<1>12. ReversalTrade(more, levels, up, prev, c) = Trade(more, at)
  <2> HIDE DEF Trade
  <2> QED
    BY <1>5, <1>8 DEF F
<1> HIDE DEF Trade
<1>13. ReversalTrade(more, levels, up, prev, c) = ReversalTrade(bars, levels, up, prev, c)
  BY <1>7, <1>11, <1>12
<1> QED
  BY <1>13 DEF bars

-----------------------------------------------------------------------------
(* The day as it goes.                                                      *)

TapeOK ==
  /\ tape \in Seq(Bars) /\ Len(tape) <= Len(Moments)
  /\ \A i \in 1..Len(tape) : /\ tape[i].day = Today /\ tape[i].at = Moments[i]
                             /\ tape[i].low <= tape[i].high

LEMMA MomentFacts ==
  /\ Len(Moments) \in Nat /\ DOMAIN Moments = 1..Len(Moments)
  /\ \A i \in 1..Len(Moments) : Moments[i] \in 540..959 /\ Moments[i] % 5 = 0
  /\ \A i, j \in 1..Len(Moments) : i < j => Moments[i] < Moments[j]
<1>1. Open - 30 = 540
  BY DEF Open
<1>2. Moments \in Seq({t \in 540..959 : t % 5 = 0})
  BY <1>1, MomentsAssumption
<1>3. Len(Moments) \in Nat /\ DOMAIN Moments = 1..Len(Moments)
      /\ \A i \in 1..Len(Moments) : Moments[i] \in {t \in 540..959 : t % 5 = 0}
  BY <1>2
<1>4. \A i \in 1..Len(Moments) : Moments[i] \in 540..959 /\ Moments[i] % 5 = 0
  <2> DEFINE Grid == {t \in 540..959 : t % 5 = 0}
  <2>1. \A i \in 1..Len(Moments) : Moments[i] \in Grid
    BY <1>3
  <2>2. \A x \in Grid : x \in 540..959 /\ x % 5 = 0
    OBVIOUS
  <2> HIDE DEF Grid
  <2> QED
    BY <2>1, <2>2, Zenon
<1>5. \A i, j \in DOMAIN Moments : i < j => Moments[i] < Moments[j]
  BY MomentsAssumption, Zenon
<1>6. \A i, j \in 1..Len(Moments) : i < j => Moments[i] < Moments[j]
  BY <1>3, <1>5
<1> QED
  BY <1>3, <1>4, <1>6, Zenon

LEMMA HistoryFacts ==
  /\ History \in Seq(Bars) /\ Len(History) \in Nat /\ Len(History) >= 1
  /\ DOMAIN History = 1..Len(History)
  /\ \A i \in 1..Len(History) : History[i].day < Today /\ History[i].low <= History[i].high
  /\ History[Len(History)].at > WindowEnd
BY HistoryAssumption, EmptySeq DEF Last

LEMMA ClockFacts ==
  ASSUME TapeOK
  PROVE  /\ Len(tape) \in Nat /\ Clock \in 540..963
         /\ tape = <<>> => Clock = 540
         /\ tape # <<>> => /\ Len(tape) >= 1 /\ Len(tape) \in 1..Len(Moments)
                          /\ Clock = Moments[Len(tape)] + 4 /\ Last(tape).at = Moments[Len(tape)]
<1>1. tape \in Seq(Bars) /\ Len(tape) \in Nat /\ Len(tape) <= Len(Moments)
  BY DEF TapeOK
<1>2. CASE tape = <<>>
  BY <1>1, <1>2 DEF Clock, Open
<1>3. CASE tape # <<>>
  <2>1. Len(tape) >= 1
    BY <1>1, <1>3, EmptySeq
  <2>2. Len(tape) \in 1..Len(tape) /\ Len(tape) \in 1..Len(Moments)
    BY <1>1, <2>1, MomentFacts
  <2>3. Last(tape).at = Moments[Len(tape)]
    BY <2>2 DEF TapeOK, Last
  <2>4. Clock = Moments[Len(tape)] + 4
    BY <2>3, <1>3 DEF Clock
  <2>5. Moments[Len(tape)] + 4 \in 540..963
    <3> DEFINE m == Moments[Len(tape)]
    <3>1. m \in 540..959
      BY <2>2, MomentFacts
    <3> HIDE DEF m
    <3>2. m + 4 \in 540..963
      BY <3>1
    <3> QED
      BY <3>2 DEF m
  <2>6. Clock \in 540..963
    BY <2>4, <2>5
  <2> QED
    BY <1>1, <1>3, <2>1, <2>2, <2>3, <2>4, <2>6, Zenon
<1> QED
  BY <1>2, <1>3

LEMMA MarketFacts ==
  ASSUME TapeOK
  PROVE  /\ Market \in Seq(Bars) /\ Len(Market) = Len(History) + Len(tape) /\ Len(Market) \in Nat
         /\ DOMAIN Market = 1..Len(Market)
         /\ \A i \in 1..Len(History) : Market[i] = History[i]
         /\ \A i \in 1..Len(tape) : Market[Len(History) + i] = tape[i]
         /\ \A i \in (Len(History) + 1)..Len(Market) :
              i - Len(History) \in 1..Len(tape) /\ Market[i] = tape[i - Len(History)]
<1>1. /\ tape \in Seq(Bars) /\ History \in Seq(Bars) /\ Len(tape) \in Nat /\ Len(History) \in Nat
  BY HistoryFacts DEF TapeOK
<1>2. /\ Market \in Seq(Bars) /\ Len(Market) = Len(History) + Len(tape)
      /\ \A i \in 1..(Len(History) + Len(tape)) :
            Market[i] = IF i <= Len(History) THEN History[i] ELSE tape[i - Len(History)]
  BY <1>1, ConcatProperties DEF Market
<1>3. \A i \in 1..Len(History) : i \in 1..(Len(History) + Len(tape)) /\ i <= Len(History)
  BY <1>1
<1>4. \A i \in (Len(History) + 1)..Len(Market) :
        /\ i \in 1..(Len(History) + Len(tape)) /\ ~ (i <= Len(History))
        /\ i - Len(History) \in 1..Len(tape)
  BY <1>1, <1>2
<1>5. \A i \in 1..Len(tape) : /\ Len(History) + i \in 1..(Len(History) + Len(tape))
                             /\ ~ (Len(History) + i <= Len(History))
                             /\ Len(History) + i - Len(History) = i
  BY <1>1
<1>6. \A i \in 1..Len(tape) : Market[Len(History) + i] = tape[i]
  BY <1>2, <1>5
<1>7. DOMAIN Market = 1..Len(Market) /\ Len(Market) \in Nat
  BY <1>2
<1> QED
  BY <1>2, <1>3, <1>4, <1>6, <1>7

LEMMA MarketIsGood == TapeOK /\ tape # <<>> => GoodDay(Market, Len(History))
<1> SUFFICES ASSUME TapeOK, tape # <<>> PROVE GoodDay(Market, Len(History))
  OBVIOUS
<1>1. /\ Market \in Seq(Bars) /\ Len(History) \in Nat /\ Len(History) < Len(Market)
  BY MarketFacts, HistoryFacts, ClockFacts
<1>2. \A i \in 1..Len(History) : Market[i].day < Today
  BY MarketFacts, HistoryFacts
<1>3. \A i \in (Len(History) + 1)..Len(Market) :
        /\ i - Len(History) \in 1..Len(Moments) /\ i \in Int
        /\ Market[i].day = Today /\ Market[i].at = Moments[i - Len(History)]
  <2>1. ASSUME NEW i \in (Len(History) + 1)..Len(Market)
        PROVE  /\ i - Len(History) \in 1..Len(Moments) /\ i \in Int
               /\ Market[i].day = Today /\ Market[i].at = Moments[i - Len(History)]
    <3>1. i - Len(History) \in 1..Len(tape) /\ Market[i] = tape[i - Len(History)]
      BY MarketFacts
    <3>2. Len(tape) <= Len(Moments) /\ Len(tape) \in Nat /\ Len(Moments) \in Nat
      BY MomentFacts, ClockFacts DEF TapeOK
    <3> QED
      BY <3>1, <3>2 DEF TapeOK
  <2> QED
    BY <2>1
<1>4. \A i \in (Len(History) + 1)..Len(Market) : Market[i].at % 5 = 0
  BY <1>3, MomentFacts
<1>5. \A i, j \in (Len(History) + 1)..Len(Market) : i < j => Market[i].at < Market[j].at
  <2>1. ASSUME NEW i \in (Len(History) + 1)..Len(Market), NEW j \in (Len(History) + 1)..Len(Market),
               i < j
        PROVE  Market[i].at < Market[j].at
    <3> DEFINE a == i - Len(History)
               b == j - Len(History)
    <3>1. a < b
      BY <1>1, <1>3, <2>1
    <3>2. /\ a \in 1..Len(Moments) /\ b \in 1..Len(Moments)
          /\ Market[i].at = Moments[a] /\ Market[j].at = Moments[b]
      BY <1>3
    <3> HIDE DEF a, b
    <3>3. Moments[a] < Moments[b]
      BY <3>1, <3>2, MomentFacts
    <3> QED
      BY <3>2, <3>3
  <2> QED
    BY <2>1
<1> QED
  BY <1>1, <1>2, <1>3, <1>4, <1>5 DEF GoodDay

\* The range of the day's first fifteen minutes, whole: they are over.
WholeRange(bars, r) ==
  /\ bars # <<>> /\ Last(bars).at >= RangeEnd
  /\ r.day = Today
  /\ r.high = Highest(bars, RangeBars(bars, DOMAIN bars))
  /\ r.low = Lowest(bars, RangeBars(bars, DOMAIN bars))

\* The market's range bars are the tape's.
LEMMA RangeOfTape ==
  ASSUME TapeOK, tape # <<>>
  PROVE  /\ Highest(Market, RangeBars(Market, SessionBars(Market)))
              = Highest(tape, RangeBars(tape, DOMAIN tape))
         /\ Lowest(Market, RangeBars(Market, SessionBars(Market)))
              = Lowest(tape, RangeBars(tape, DOMAIN tape))
<1> DEFINE h == Len(History)
           S == RangeBars(Market, SessionBars(Market))
           T == RangeBars(tape, DOMAIN tape)
<1>1. /\ h \in Nat /\ Len(tape) \in Nat /\ DOMAIN tape = 1..Len(tape)
      /\ Len(Market) = h + Len(tape)
      /\ \A i \in 1..Len(tape) : Market[h + i] = tape[i]
      /\ \A i \in (h + 1)..Len(Market) : i - h \in 1..Len(tape) /\ Market[i] = tape[i - h]
  BY MarketFacts, HistoryFacts, BarFacts DEF TapeOK
<1>2. SessionBars(Market) = (h + 1)..Len(Market)
  BY MarketIsGood, SessionOfDay
<1>3. S = {i \in (h + 1)..Len(Market) : Market[i].at \in Open..(RangeEnd - 1)}
  BY <1>2 DEF RangeBars
<1>4. T = {i \in 1..Len(tape) : tape[i].at \in Open..(RangeEnd - 1)}
  BY <1>1 DEF RangeBars
<1> HIDE DEF h, S, T
<1>5. \A i \in S : i - h \in T /\ Market[i] = tape[i - h]
  BY <1>1, <1>3, <1>4
<1>6. \A i \in 1..Len(tape) : h + i \in (h + 1)..Len(Market)
  BY <1>1
<1>7. \A i \in T : h + i \in S /\ Market[h + i] = tape[i]
  BY <1>1, <1>3, <1>4, <1>6
<1>8. {Market[i].high : i \in S} = {tape[i].high : i \in T}
  <2>1. ASSUME NEW i \in S PROVE Market[i].high \in {tape[k].high : k \in T}
    <3>1. i - h \in T /\ Market[i] = tape[i - h]
      BY <1>5
    <3> QED
      BY <3>1, Zenon
  <2>2. ASSUME NEW i \in T PROVE tape[i].high \in {Market[k].high : k \in S}
    <3>1. h + i \in S /\ Market[h + i] = tape[i]
      BY <1>7
    <3> QED
      BY <3>1, Zenon
  <2> QED
    BY <2>1, <2>2
<1>9. {Market[i].low : i \in S} = {tape[i].low : i \in T}
  <2>1. ASSUME NEW i \in S PROVE Market[i].low \in {tape[k].low : k \in T}
    <3>1. i - h \in T /\ Market[i] = tape[i - h]
      BY <1>5
    <3> QED
      BY <3>1, Zenon
  <2>2. ASSUME NEW i \in T PROVE tape[i].low \in {Market[k].low : k \in S}
    <3>1. h + i \in S /\ Market[h + i] = tape[i]
      BY <1>7
    <3> QED
      BY <3>1, Zenon
  <2> QED
    BY <2>1, <2>2
<1>10. /\ Highest(Market, S) = Highest(tape, T) /\ Lowest(Market, S) = Lowest(tape, T)
  BY <1>8, <1>9 DEF Highest, Lowest
<1> QED
  BY <1>10 DEF S, T

\* A range taken from a frame that is not behind the clock t is whole.
LEMMA CurrentRangeIsWhole ==
  ASSUME TapeOK, NEW n \in Len(History)..Len(Market), NEW t \in Nat,
         NEW r, r = OpeningRange(FirstBars(Market, n), PrevClose, t), r # None,
         Last(FirstBars(Market, n)).at + 4 = t, t <= WindowEnd \/ r.day = Today
  PROVE  WholeRange(tape, r)
<1> DEFINE frame == FirstBars(Market, n)
           h == Len(History)
           win == RangeBars(frame, SessionBars(frame))
<1>1. /\ Market \in Seq(Bars) /\ h \in Nat /\ h >= 1 /\ Len(Market) = h + Len(tape) /\ Len(tape) \in Nat
      /\ n \in 0..Len(Market) /\ n \in 1..n /\ n \in Nat /\ n >= h
  BY MarketFacts, HistoryFacts, ClockFacts
<1>2. frame \in Seq(Bars) /\ Len(frame) = n /\ \A i \in 1..n : frame[i] = Market[i]
  BY <1>1, FirstsFacts
<1>3. Last(frame) = Market[n]
  BY <1>1, <1>2 DEF Last
<1>4. /\ MarketPhase(t) = "regular" /\ win # {}
      /\ r.day = Last(frame).day /\ r.high = Highest(frame, win) /\ r.low = Lowest(frame, win)
  <2> HIDE DEF frame
  <2>1. r = OpeningRange(frame, PrevClose, t)
    BY DEF frame
  <2> QED
    BY <2>1 DEF OpeningRange
<1>5. n > h
  <2>1. SUFFICES ASSUME n = h PROVE FALSE
    BY <1>1
  <2>2. Last(frame) = History[Len(History)] /\ h \in 1..h
    BY <1>1, <1>3, <2>1, MarketFacts
  <2>3. History[Len(History)].at \in Nat /\ History[Len(History)].day < Today
        /\ History[Len(History)].day \in Int /\ History[Len(History)].at > WindowEnd
    BY HistoryFacts, BarFacts, <2>2
  <2>4. ~ (t <= WindowEnd)
    <3> DEFINE m == History[Len(History)].at
    <3>1. m + 4 = t /\ m \in Nat /\ m > WindowEnd
      BY <2>2, <2>3
    <3> HIDE DEF m
    <3> QED
      BY <3>1 DEF WindowEnd
  <2>5. r.day # Today
    BY <1>4, <2>2, <2>3 DEF Today
  <2> QED
    BY <2>4, <2>5
<1>6. tape # <<>> /\ n \in (h + 1)..Len(Market)
  BY <1>1, <1>5
<1>7. GoodDay(Market, h)
  BY <1>6, MarketIsGood
<1>8. Market[n].at % 5 = 0 /\ Market[n].at \in Nat /\ Market[n].day = Today
  BY <1>1, <1>6, <1>7, BarFacts DEF GoodDay
<1>9. Market[n].at >= RangeEnd
  <2> DEFINE m == Market[n].at
  <2>1. m \in Nat /\ m % 5 = 0 /\ m + 4 = t
    BY <1>3, <1>8
  <2>2. t \in RangeEnd..959
    BY <1>4, Phases
  <2> HIDE DEF m
  <2>3. m >= RangeEnd
    BY <2>1, <2>2 DEF RangeEnd
  <2> QED
    BY <2>3 DEF m
<1>10. /\ win = RangeBars(Market, SessionBars(Market))
       /\ Highest(frame, win) = Highest(Market, win) /\ Lowest(frame, win) = Lowest(Market, win)
  BY <1>6, <1>7, <1>9, RangeOfFirsts
<1>11. Last(tape).at >= RangeEnd
  <2>1. Len(Market) \in (h + 1)..Len(Market) /\ Market[Len(Market)] = tape[Len(tape)]
    <3>1. Len(Market) \in (h + 1)..Len(Market) /\ Len(Market) - h = Len(tape)
      BY <1>1, <1>6
    <3> QED
      BY <3>1, MarketFacts
  <2>2. n = Len(Market) \/ n < Len(Market)
    BY <1>1, <1>6
  <2>3. n < Len(Market) => Market[n].at < Market[Len(Market)].at
    BY <1>6, <1>7, <2>1 DEF GoodDay
  <2>4. Market[Len(Market)].at \in Nat
    <3>1. Len(Market) \in 1..Len(Market)
      BY <1>1
    <3> QED
      BY <1>1, <3>1, BarFacts
  <2>5. Market[Len(Market)].at >= RangeEnd
    BY <1>8, <1>9, <2>2, <2>3, <2>4 DEF RangeEnd
  <2> QED
    BY <2>1, <2>5 DEF Last
<1> HIDE DEF frame, win
<1>12. /\ r.high = Highest(tape, RangeBars(tape, DOMAIN tape))
       /\ r.low = Lowest(tape, RangeBars(tape, DOMAIN tape))
  BY <1>4, <1>6, <1>10, RangeOfTape
<1> QED
  BY <1>3, <1>4, <1>6, <1>8, <1>11, <1>12 DEF WholeRange

\* A range that there is has its low under its high.
LEMMA RangeIsOrdered ==
  ASSUME TapeOK, NEW n \in Len(History)..Len(Market), NEW t,
         NEW r, r = OpeningRange(FirstBars(Market, n), PrevClose, t), r # None
  PROVE  r.low <= r.high
<1> DEFINE frame == FirstBars(Market, n)
           win == RangeBars(frame, SessionBars(frame))
<1>1. /\ Market \in Seq(Bars) /\ Len(History) \in Nat /\ Len(Market) \in Nat
      /\ n \in 0..Len(Market) /\ n \in Nat
  BY MarketFacts, HistoryFacts
<1>2. frame \in Seq(Bars) /\ Len(frame) = n /\ \A i \in 1..n : frame[i] = Market[i]
  BY <1>1, FirstsFacts
<1>3. \A i \in 1..Len(Market) : Market[i].low <= Market[i].high
  <2>1. ASSUME NEW i \in 1..Len(Market) PROVE Market[i].low <= Market[i].high
    <3>1. CASE i \in 1..Len(History)
      BY <3>1, MarketFacts, HistoryFacts
    <3>2. CASE i \notin 1..Len(History)
      <4>1. i \in (Len(History) + 1)..Len(Market)
        BY <1>1, <3>2
      <4> QED
        BY <4>1, MarketFacts DEF TapeOK
    <3> QED
      BY <3>1, <3>2
  <2> QED
    BY <2>1
<1>4. win # {} /\ r.high = Highest(frame, win) /\ r.low = Lowest(frame, win)
  <2> HIDE DEF frame
  <2>1. r = OpeningRange(frame, PrevClose, t)
    BY DEF frame
  <2> QED
    BY <2>1 DEF OpeningRange
<1>5. win \subseteq DOMAIN frame
  BY DEF RangeBars, SessionBars
<1>6. DOMAIN frame = 1..n /\ \A i \in 1..n : i \in 1..Len(Market)
  BY <1>1, <1>2
<1> HIDE DEF frame, win
<1>7. \A i \in win : frame[i].low <= frame[i].high
  BY <1>2, <1>3, <1>5, <1>6
<1>8. Lowest(frame, win) <= Highest(frame, win)
  BY <1>2, <1>4, <1>5, <1>7, ExtremesAreOrdered
<1> QED
  BY <1>4, <1>8

-----------------------------------------------------------------------------
(* The inductive invariant: the tab keeps no range that is not whole but one *)
(* that was behind, and whoever looks holds bars of the market, by a clock   *)
(* that is not ahead.  What was asked holds when it is asked.                *)

RangeOK ==
  range # None => /\ range.of # None /\ range.of.low <= range.of.high /\ range.current \in BOOLEAN
                  /\ range.current /\ range.of.day = Today => WholeRange(tape, range.of)

LookOK ==
  look # None => /\ look.by \in {"worker", "tab"} /\ look.asof \in 540..Clock
                 /\ \E n \in Len(History)..Len(Market) : look.frame = FirstBars(Market, n)

AskedOK ==
  /\ asked.traders \subseteq GapTraders \cup SwingTraders \cup {c.name : c \in Configs}
  /\ FreezeBrokenOnlyByAnOldClock
  /\ GapUsesTheDaysRange

BotsInv == TapeOK /\ RangeOK /\ LookOK /\ AskedOK

\* A bar is added: the clock goes on, what was seen stays.
LEMMA BarStep ==
  ASSUME TapeOK, NEW s \in Shapes, Bar(s)
  PROVE  /\ TapeOK'
         /\ tape' \in Seq(Bars) /\ tape' # <<>> /\ Len(tape') = Len(tape) + 1
         /\ \A i \in 1..Len(tape) : tape'[i] = tape[i]
         /\ Clock \in 540..Clock' /\ Clock' \in Nat
         /\ Len(Market') = Len(Market) + 1
         /\ \A n \in 0..Len(Market) : FirstBars(Market', n) = FirstBars(Market, n)
<1> DEFINE b == [day |-> Today, at |-> Moments[Len(tape) + 1], open |-> s.open, high |-> s.high,
                 low |-> s.low, close |-> s.close, volume |-> s.volume]
<1>1. /\ tape \in Seq(Bars) /\ Len(tape) \in Nat /\ Len(tape) + 1 \in 1..Len(Moments)
      /\ tape' = Append(tape, b)
  BY MomentFacts, ClockFacts DEF Bar, TapeOK
<1>2. Moments[Len(tape) + 1] \in 540..959
  BY <1>1, MomentFacts
<1>3. b \in Bars /\ b.day = Today /\ b.at = Moments[Len(tape) + 1] /\ b.low <= b.high
  <2>1. /\ s \in [open : Nat, high : Nat, low : Nat, close : Nat, volume : Nat] /\ s.low <= s.high
    BY ShapesAssumption
  <2>2. Today \in Int /\ Moments[Len(tape) + 1] \in Nat
    <3> DEFINE m == Moments[Len(tape) + 1]
    <3>1. m \in 540..959
      BY <1>2
    <3> HIDE DEF m
    <3>2. m \in Nat
      BY <3>1
    <3> QED
      BY <3>2 DEF m, Today
  <2> QED
    BY <2>1, <2>2 DEF Bars
<1> HIDE DEF b
<1>4. /\ tape' \in Seq(Bars) /\ Len(tape') = Len(tape) + 1 /\ tape'[Len(tape) + 1] = b
      /\ \A i \in 1..Len(tape) : tape'[i] = tape[i]
  BY <1>1, <1>3
<1>5. tape' # <<>>
  BY <1>1, <1>4
<1>6. TapeOK'
  <2>1. ASSUME NEW i \in 1..Len(tape')
        PROVE  tape'[i].day = Today /\ tape'[i].at = Moments[i] /\ tape'[i].low <= tape'[i].high
    <3>1. i \in 1..Len(tape) \/ i = Len(tape) + 1
      BY <1>1, <1>4
    <3>2. CASE i \in 1..Len(tape)
      BY <1>4, <3>2 DEF TapeOK
    <3>3. CASE i = Len(tape) + 1
      BY <1>3, <1>4, <3>3
    <3> QED
      BY <3>1, <3>2, <3>3
  <2>2. Len(tape') <= Len(Moments)
    BY <1>1, <1>4
  <2> QED
    BY <1>4, <2>1, <2>2 DEF TapeOK
<1>7. Clock \in 540..Clock' /\ Clock' \in Nat
  <2> DEFINE m == Moments[Len(tape) + 1]
  <2>1. Clock' = m + 4
    BY <1>1, <1>3, <1>4, <1>5 DEF Clock, Last
  <2>2. m \in 540..959
    BY <1>2
  <2>3. CASE tape = <<>>
    <3>1. Clock = 540
      BY <2>3, ClockFacts
    <3> HIDE DEF m
    <3> QED
      BY <3>1, <2>1, <2>2
  <2>4. CASE tape # <<>>
    <3> DEFINE k == Moments[Len(tape)]
    <3>1. Clock = k + 4 /\ Len(tape) \in 1..Len(Moments) /\ Len(tape) < Len(tape) + 1
      BY <2>4, ClockFacts
    <3>2. k < m /\ k \in 540..959
      BY <1>1, <3>1, MomentFacts
    <3> HIDE DEF k, m
    <3> QED
      BY <3>1, <3>2, <2>1, <2>2
  <2> QED
    BY <2>3, <2>4
<1>8. /\ Market' \in Seq(Bars) /\ Len(Market') = Len(Market) + 1
      /\ \A i \in 1..Len(Market) : Market'[i] = Market[i]
  <2>1. /\ History \in Seq(Bars) /\ Len(History) \in Nat /\ Len(Market) = Len(History) + Len(tape)
        /\ \A i \in 1..(Len(History) + Len(tape)) :
             Market[i] = IF i <= Len(History) THEN History[i] ELSE tape[i - Len(History)]
    BY <1>1, HistoryFacts, ConcatProperties DEF Market
  <2>2. Market' = History \o tape'
    BY DEF Market
  <2>3. /\ Market' \in Seq(Bars) /\ Len(Market') = Len(History) + (Len(tape) + 1)
        /\ \A i \in 1..(Len(History) + (Len(tape) + 1)) :
             Market'[i] = IF i <= Len(History) THEN History[i] ELSE tape'[i - Len(History)]
    BY <1>4, <2>1, <2>2, ConcatProperties
  <2>4. ASSUME NEW i \in 1..Len(Market) PROVE Market'[i] = Market[i]
    <3>1. /\ i \in 1..(Len(History) + Len(tape)) /\ i \in 1..(Len(History) + (Len(tape) + 1))
          /\ ~ (i <= Len(History)) => i - Len(History) \in 1..Len(tape)
      BY <1>1, <2>1
    <3> QED
      BY <1>4, <2>1, <2>3, <3>1
  <2>5. Len(Market') = Len(Market) + 1
    BY <1>1, <2>1, <2>3
  <2> QED
    BY <2>3, <2>4, <2>5
<1>9. ASSUME NEW n \in 0..Len(Market) PROVE FirstBars(Market', n) = FirstBars(Market, n)
  <2> DEFINE a == FirstBars(Market', n)
             c == FirstBars(Market, n)
  <2>1. Market \in Seq(Bars) /\ Len(Market) \in Nat /\ n \in 0..Len(Market')
    BY <1>8, MarketFacts
  <2>2. c \in Seq(Bars) /\ Len(c) = n /\ \A i \in 1..n : c[i] = Market[i]
    BY <2>1, FirstsFacts
  <2>3. a \in Seq(Bars) /\ Len(a) = n /\ \A i \in 1..n : a[i] = Market'[i]
    BY <1>8, <2>1, FirstsFacts
  <2>4. \A i \in 1..n : i \in 1..Len(Market)
    BY <2>1
  <2> HIDE DEF a, c
  <2>5. a = c
    BY <1>8, <2>2, <2>3, <2>4, SeqEqual
  <2> QED
    BY <2>5 DEF a, c
<1> QED
  BY <1>4, <1>5, <1>6, <1>7, <1>8, <1>9

\* A range that is whole stays so.
LEMMA WholeStays ==
  ASSUME TapeOK, NEW s \in Shapes, Bar(s), NEW r, WholeRange(tape, r)
  PROVE  WholeRange(tape', r)
<1>1. /\ tape' \in Seq(Bars) /\ tape' # <<>> /\ Len(tape') = Len(tape) + 1
      /\ \A i \in 1..Len(tape) : tape'[i] = tape[i]
      /\ Clock \in 540..Clock'
  BY BarStep
<1>2. /\ tape \in Seq(Bars) /\ Len(tape) \in Nat /\ DOMAIN tape = 1..Len(tape)
      /\ DOMAIN tape' = 1..(Len(tape) + 1) /\ Last(tape).at \in Nat /\ Last(tape').at \in Nat
      /\ tape'[Len(tape) + 1] = Last(tape')
  <2>1. /\ tape \in Seq(Bars) /\ Len(tape) \in Nat /\ Len(tape) \in 1..Len(tape)
    BY ClockFacts DEF TapeOK, WholeRange
  <2>2. Len(tape') \in 1..Len(tape')
    BY <1>1, <2>1
  <2> QED
    BY <1>1, <2>1, <2>2, BarFacts DEF Last
<1>3. Last(tape').at >= RangeEnd
  <2> DEFINE m == Last(tape').at
             k == Last(tape).at
  <2>1. Clock = k + 4 /\ Clock' = m + 4 /\ k >= RangeEnd
    BY <1>1 DEF Clock, WholeRange
  <2>2. k \in Nat /\ m \in Nat
    BY <1>2
  <2> HIDE DEF k, m
  <2>3. m >= RangeEnd
    BY <1>1, <2>1, <2>2 DEF RangeEnd
  <2> QED
    BY <2>3 DEF m
<1>4. Last(tape').at \notin Open..(RangeEnd - 1)
  <2> DEFINE m == Last(tape').at
  <2>1. m \in Nat /\ m >= RangeEnd
    BY <1>2, <1>3
  <2> HIDE DEF m
  <2>2. m \notin Open..(RangeEnd - 1)
    BY <2>1 DEF Open, RangeEnd
  <2> QED
    BY <2>2 DEF m
<1> DEFINE S == RangeBars(tape, DOMAIN tape)
           T == RangeBars(tape', DOMAIN tape')
<1>5. S = {i \in 1..Len(tape) : tape[i].at \in Open..(RangeEnd - 1)}
  BY <1>2 DEF RangeBars
<1>6. T = {i \in 1..(Len(tape) + 1) : tape'[i].at \in Open..(RangeEnd - 1)}
  BY <1>2 DEF RangeBars
<1> HIDE DEF S, T
<1>7. \A i \in 1..(Len(tape) + 1) : i \in 1..Len(tape) \/ i = Len(tape) + 1
  BY <1>2
<1>8. 1..Len(tape) \subseteq 1..(Len(tape) + 1)
  BY <1>2
<1>9. S = T
  BY <1>1, <1>2, <1>4, <1>5, <1>6, <1>7, <1>8
<1>10. \A i \in S : tape'[i] = tape[i]
  BY <1>1, <1>5
<1>11. /\ {tape'[i].high : i \in S} = {tape[i].high : i \in S}
       /\ {tape'[i].low : i \in S} = {tape[i].low : i \in S}
  BY <1>10
<1>12. Highest(tape', T) = Highest(tape, S) /\ Lowest(tape', T) = Lowest(tape, S)
  BY <1>9, <1>11 DEF Highest, Lowest
<1>13. /\ r.day = Today /\ r.high = Highest(tape, S) /\ r.low = Lowest(tape, S)
  BY DEF WholeRange, S
<1>14. /\ r.high = Highest(tape', RangeBars(tape', DOMAIN tape'))
       /\ r.low = Lowest(tape', RangeBars(tape', DOMAIN tape'))
  BY <1>12, <1>13 DEF T
<1> QED
  BY <1>1, <1>3, <1>13, <1>14 DEF WholeRange

\* What is asked by a clock that is not ahead, on a range that is whole if it
\* was not behind.
LEMMA AskedWell ==
  ASSUME TapeOK, NEW r, NEW current \in BOOLEAN, NEW asof \in Nat,
         look.asof \in 540..Clock, asof <= Clock, UNCHANGED tape,
         look.by = "tab" => asof = Clock,
         current /\ GapAsks(r, asof) # {} => WholeRange(tape, r),
         Asks(r, current, asof)
  PROVE  AskedOK'
<1> DEFINE gap == GapAsks(r, asof)
           traders == IF Frozen(look.asof) THEN {} ELSE gap \cup SwingTraders \cup ReversalAsks(asof)
           full == [traders |-> traders, by |-> look.by, asof |-> look.asof,
                    range |-> IF gap = {} THEN None ELSE r, current |-> gap = {} \/ current]
           names == {c.name : c \in Configs}
<1>1. asked' = IF traders = {} THEN NothingAsked ELSE full
  BY DEF Asks
<1>2. /\ asked'.traders = traders
      /\ traders # {} => /\ asked'.by = look.by /\ asked'.asof = look.asof
                        /\ asked'.range = (IF gap = {} THEN None ELSE r)
                        /\ asked'.current = (gap = {} \/ current)
  <2> HIDE DEF traders, gap
  <2>1. CASE traders = {}
    BY <1>1, <2>1 DEF NothingAsked
  <2>2. CASE traders # {}
    BY <1>1, <2>2
  <2> QED
    BY <2>1, <2>2
<1>3. gap \subseteq GapTraders /\ ReversalAsks(asof) \subseteq names
  BY DEF GapAsks, ReversalAsks
<1>4. names \cap GapTraders = {} /\ SwingTraders \cap GapTraders = {}
  BY ConfigsAssumption DEF GapTraders, SwingTraders
<1>5. gap # {} => IsOrbWindow(asof)
  BY DEF GapAsks, GapAndGo
<1>6. MarketPhase(asof) = "opening_range" => ReversalAsks(asof) = {}
  BY DEF ReversalAsks, Reversal
<1>7. traders # {} => ~ (MarketPhase(look.asof) = "opening_range")
  BY DEF Frozen
<1>8. traders \subseteq gap \cup SwingTraders \cup ReversalAsks(asof)
  OBVIOUS
<1>9. Clock' = Clock /\ Clock \in Nat /\ look.asof \in Nat
  <2>1. Clock' = Clock
    BY DEF Clock
  <2>2. Clock \in 540..963
    BY ClockFacts
  <2> DEFINE c == Clock
             k == look.asof
  <2>3. c \in 540..963 /\ k \in 540..c
    BY <2>2
  <2> HIDE DEF c, k
  <2>4. c \in Nat /\ k \in Nat
    BY <2>3
  <2> QED
    BY <2>1, <2>4 DEF c, k
<1> HIDE DEF gap, traders, names
<1>10. FreezeBrokenOnlyByAnOldClock'
  <2>1. SUFFICES ASSUME traders # {}, MarketPhase(Clock) = "opening_range"
                 PROVE  /\ look.asof < Open /\ traders \cap GapTraders = {}
                        /\ look.by = "tab" => traders \subseteq SwingTraders
    BY <1>2, <1>9 DEF FreezeBrokenOnlyByAnOldClock
  <2>2. Clock \in Open..(RangeEnd - 1)
    BY <1>9, <2>1, Phases
  <2>3. look.asof \notin Open..(RangeEnd - 1)
    BY <1>7, <1>9, <2>1, Phases
  <2> DEFINE k == look.asof
             c == Clock
  <2>4. k < Open
    <3>1. k \in 540..c /\ k \in Nat /\ c \in Open..(RangeEnd - 1) /\ k \notin Open..(RangeEnd - 1)
      BY <1>9, <2>2, <2>3
    <3> HIDE DEF k, c
    <3> QED
      BY <3>1 DEF Open, RangeEnd
  <2>5. gap = {}
    <3>1. c \in Open..(RangeEnd - 1) /\ asof <= c
      BY <2>2
    <3> HIDE DEF c
    <3>2. ~ (asof \in RangeEnd..959)
      BY <3>1 DEF Open, RangeEnd
    <3> QED
      BY <1>5, <3>2, Phases
  <2>6. traders \cap GapTraders = {}
    BY <1>3, <1>4, <1>8, <2>5
  <2>7. look.by = "tab" => traders \subseteq SwingTraders
    BY <1>6, <1>8, <2>1, <2>5
  <2> QED
    BY <2>4, <2>6, <2>7 DEF k
<1>11. GapUsesTheDaysRange'
  <2>1. SUFFICES ASSUME traders \cap GapTraders # {}, asked'.current
                 PROVE  WholeRange(tape, asked'.range)
    BY <1>2 DEF GapUsesTheDaysRange, WholeRange
  <2>2. gap # {}
    BY <1>3, <1>4, <1>8, <2>1
  <2>3. asked'.range = r /\ current
    BY <1>2, <2>1, <2>2
  <2> QED
    BY <2>2, <2>3 DEF gap
<1>12. asked'.traders \subseteq GapTraders \cup SwingTraders \cup names
  BY <1>2, <1>3, <1>8
<1> QED
  BY <1>10, <1>11, <1>12 DEF AskedOK, names

\* What a frame's opening range is worth.
LEMMA RangeOfLook ==
  ASSUME TapeOK, LookOK, look # None, NEW t \in Nat, t <= Clock,
         NEW r, r = OpeningRange(look.frame, PrevClose, t), r # None
  PROVE  /\ r.low <= r.high
         /\ Last(look.frame).at + 4 = t /\ (t <= WindowEnd \/ r.day = Today) => WholeRange(tape, r)
<1>1. PICK n \in Len(History)..Len(Market) : look.frame = FirstBars(Market, n)
  BY DEF LookOK
<1>2. r = OpeningRange(FirstBars(Market, n), PrevClose, t)
  BY <1>1
<1>3. r.low <= r.high
  BY <1>2, RangeIsOrdered
<1>4. Last(look.frame).at + 4 = t /\ (t <= WindowEnd \/ r.day = Today) => WholeRange(tape, r)
  BY <1>1, <1>2, CurrentRangeIsWhole
<1> QED
  BY <1>3, <1>4

LEMMA LookFacts ==
  ASSUME TapeOK, LookOK, look # None
  PROVE  /\ look.asof \in Nat /\ look.asof <= Clock /\ Clock \in Nat /\ look.asof \in 540..Clock
<1> DEFINE c == Clock
           k == look.asof
<1>1. c \in 540..963 /\ k \in 540..c
  BY ClockFacts DEF LookOK
<1> HIDE DEF c, k
<1>2. c \in Nat /\ k \in Nat /\ k <= c
  BY <1>1
<1> QED
  BY <1>1, <1>2 DEF c, k

LEMMA WorkerStep ==
  ASSUME BotsInv, WorkerRuns
  PROVE  BotsInv'
<1> DEFINE r == OpeningRange(look.frame, PrevClose, look.asof)
           current == (Last(look.frame).at + 4 = look.asof)
<1>1. /\ TapeOK /\ RangeOK /\ LookOK /\ look # None /\ look.by = "worker"
      /\ Asks(r, current, look.asof) /\ look' = None /\ UNCHANGED <<tape, range>>
  BY DEF BotsInv, WorkerRuns
<1>2. /\ look.asof \in Nat /\ look.asof <= Clock /\ Clock \in Nat /\ look.asof \in 540..Clock
  BY <1>1, LookFacts
<1>3. current /\ GapAsks(r, look.asof) # {} => WholeRange(tape, r)
  <2>1. SUFFICES ASSUME current, GapAsks(r, look.asof) # {} PROVE WholeRange(tape, r)
    OBVIOUS
  <2>2. r # None /\ IsOrbWindow(look.asof)
    <3> HIDE DEF r
    <3> QED
      BY <2>1 DEF GapAsks, GapAndGo
  <2>3. look.asof <= WindowEnd
    BY <1>2, <2>2, Phases
  <2> QED
    BY <1>1, <1>2, <2>1, <2>2, <2>3, RangeOfLook
<1>4. current \in BOOLEAN
  OBVIOUS
<1> HIDE DEF r, current
<1>5. AskedOK'
  BY <1>1, <1>2, <1>3, <1>4, AskedWell
<1>6. TapeOK' /\ RangeOK' /\ LookOK'
  BY <1>1 DEF TapeOK, RangeOK, LookOK
<1> QED
  BY <1>5, <1>6 DEF BotsInv

LEMMA TabStep ==
  ASSUME BotsInv, TabRuns
  PROVE  BotsInv'
<1> DEFINE new == [of |-> OpeningRange(look.frame, PrevClose, Clock), current |-> FrameIsCurrent]
           tab == TabRange
<1>1. /\ TapeOK /\ RangeOK /\ LookOK /\ look # None /\ look.by = "tab"
      /\ Asks(tab.of, tab.current, Clock) /\ range' = Kept(tab)
      /\ look' = None /\ UNCHANGED tape
  BY DEF BotsInv, TabRuns
<1>2. /\ look.asof \in Nat /\ look.asof <= Clock /\ Clock \in Nat /\ look.asof \in 540..Clock
      /\ Clock <= Clock
  BY <1>1, LookFacts
<1>3. \/ tab = range /\ range # None /\ range.of.day = Today
      \/ tab = new /\ ~ (range # None /\ range.of.day = Today)
  BY DEF TabRange
<1>4. new.of # None =>
        /\ new.of.low <= new.of.high
        /\ new.current /\ (Clock <= WindowEnd \/ new.of.day = Today) => WholeRange(tape, new.of)
  <2> DEFINE r == OpeningRange(look.frame, PrevClose, Clock)
  <2>1. new.of = r /\ (new.current <=> Last(look.frame).at + 4 = Clock)
    BY DEF FrameIsCurrent
  <2>2. r # None => /\ r.low <= r.high
                    /\ Last(look.frame).at + 4 = Clock /\ (Clock <= WindowEnd \/ r.day = Today)
                         => WholeRange(tape, r)
    BY <1>1, <1>2, RangeOfLook
  <2> HIDE DEF r, new
  <2> QED
    BY <2>1, <2>2
<1>5. new.current \in BOOLEAN
  BY DEF FrameIsCurrent
<1> HIDE DEF new, tab
<1>6. GapAsks(tab.of, Clock) # {} => tab.of # None /\ Clock <= WindowEnd
  <2>1. SUFFICES ASSUME GapAsks(tab.of, Clock) # {} PROVE tab.of # None /\ Clock <= WindowEnd
    OBVIOUS
  <2>2. tab.of # None /\ IsOrbWindow(Clock)
    BY <2>1 DEF GapAsks, GapAndGo
  <2> QED
    BY <1>2, <2>2, Phases
<1>7. tab.current /\ GapAsks(tab.of, Clock) # {} => WholeRange(tape, tab.of)
  BY <1>1, <1>3, <1>4, <1>6 DEF RangeOK
<1>8. tab.current \in BOOLEAN
  BY <1>1, <1>3, <1>5 DEF RangeOK
<1>9. AskedOK'
  BY <1>1, <1>2, <1>7, <1>8, AskedWell
<1>10. RangeOK'
  <2>1. CASE range' = range
    BY <1>1, <2>1 DEF RangeOK
  <2>2. CASE range' # range
    <3>1. range' = tab /\ tab.of # None /\ tab = new
      BY <1>1, <1>3, <2>2 DEF Kept
    <3>2. /\ new.of # None /\ new.of.low <= new.of.high
          /\ new.current /\ new.of.day = Today => WholeRange(tape, new.of)
      BY <1>4, <3>1
    <3> QED
      BY <1>1, <1>5, <3>1, <3>2 DEF RangeOK
  <2> QED
    BY <2>1, <2>2
<1>11. TapeOK' /\ LookOK'
  BY <1>1 DEF TapeOK, LookOK
<1> QED
  BY <1>9, <1>10, <1>11 DEF BotsInv

LEMMA LookStep ==
  ASSUME BotsInv, NEW by \in {"worker", "tab"}, NEW f \in Frames, NEW p, Look(by, f, p)
  PROVE  BotsInv'
<1>1. /\ TapeOK /\ RangeOK /\ look' = [by |-> by, frame |-> f, price |-> p, asof |-> Clock]
      /\ asked' = NothingAsked /\ UNCHANGED <<tape, range>>
  BY DEF BotsInv, Look
<1>2. TapeOK' /\ RangeOK'
  BY <1>1 DEF TapeOK, RangeOK
<1>3. AskedOK'
  BY <1>1 DEF AskedOK, FreezeBrokenOnlyByAnOldClock, GapUsesTheDaysRange, NothingAsked
<1>4. LookOK'
  <2>1. PICK k \in {l \in Lags : l <= Len(tape)} : f = FirstBars(Market, Len(Market) - k)
    BY DEF Frames
  <2>2. Len(Market) - k \in Len(History)..Len(Market)
    <3>1. /\ Len(Market) = Len(History) + Len(tape) /\ Len(tape) \in Nat /\ Len(History) \in Nat
          /\ k \in Nat /\ k <= Len(tape)
      BY <1>1, MarketFacts, ClockFacts, HistoryFacts, LagsAssumption
    <3> QED
      BY <3>1
  <2>3. Clock \in 540..Clock /\ Clock' = Clock /\ Market' = Market
    <3> DEFINE c == Clock
    <3>1. c \in 540..963
      BY <1>1, ClockFacts
    <3> HIDE DEF c
    <3>2. c \in 540..c
      BY <3>1
    <3> QED
      BY <1>1, <3>2 DEF c, Clock, Market
  <2>4. /\ look'.by = by /\ look'.asof = Clock /\ look'.frame = f
    BY <1>1
  <2> QED
    BY <2>1, <2>2, <2>3, <2>4 DEF LookOK
<1> QED
  BY <1>2, <1>3, <1>4 DEF BotsInv

LEMMA BarAdded ==
  ASSUME BotsInv, NEW s \in Shapes, Bar(s)
  PROVE  BotsInv'
<1>1. /\ TapeOK /\ RangeOK /\ LookOK /\ asked' = NothingAsked /\ UNCHANGED <<range, look>>
  BY DEF BotsInv, Bar
<1>2. /\ TapeOK' /\ Clock \in 540..Clock' /\ Clock' \in Nat /\ Len(Market') = Len(Market) + 1
      /\ \A n \in 0..Len(Market) : FirstBars(Market', n) = FirstBars(Market, n)
  BY <1>1, BarStep
<1>3. RangeOK'
  <2>1. \A r : WholeRange(tape, r) => WholeRange(tape', r)
    BY <1>1, WholeStays
  <2> QED
    BY <1>1, <2>1 DEF RangeOK
<1>4. AskedOK'
  BY <1>1 DEF AskedOK, FreezeBrokenOnlyByAnOldClock, GapUsesTheDaysRange, NothingAsked
<1>5. LookOK'
  <2>1. SUFFICES ASSUME look # None
                 PROVE  /\ look.asof \in 540..Clock'
                        /\ \E n \in Len(History)..Len(Market') : look.frame = FirstBars(Market', n)
    BY <1>1 DEF LookOK
  <2>2. PICK n \in Len(History)..Len(Market) : look.frame = FirstBars(Market, n)
    BY <1>1, <2>1 DEF LookOK
  <2>3. n \in 0..Len(Market) /\ n \in Len(History)..Len(Market')
    BY <1>1, <1>2, <2>2, MarketFacts, HistoryFacts
  <2>4. look.asof \in 540..Clock'
    <3> DEFINE c == Clock
               d == Clock'
               k == look.asof
    <3>1. k \in 540..c /\ c \in 540..d
      BY <1>1, <1>2, <2>1 DEF LookOK
    <3>2. d \in Int
      BY <1>2
    <3> HIDE DEF c, d, k
    <3>3. k \in 540..d
      BY <3>1, <3>2
    <3> QED
      BY <3>3 DEF d, k
  <2> QED
    BY <1>2, <2>2, <2>3, <2>4
<1> QED
  BY <1>2, <1>3, <1>4, <1>5 DEF BotsInv

-----------------------------------------------------------------------------

LEMMA BotsInvInductive == Spec => []BotsInv
<1>1. Init => BotsInv
  <2>1. SUFFICES ASSUME Init PROVE BotsInv
    OBVIOUS
  <2>2. tape = <<>> /\ range = None /\ look = None /\ asked = NothingAsked
    BY <2>1 DEF Init
  <2>3. TapeOK
    BY <2>2, MomentFacts, EmptySeq DEF TapeOK
  <2>4. RangeOK /\ LookOK
    BY <2>2 DEF RangeOK, LookOK
  <2>5. AskedOK
    BY <2>2 DEF AskedOK, FreezeBrokenOnlyByAnOldClock, GapUsesTheDaysRange, NothingAsked
  <2> QED
    BY <2>3, <2>4, <2>5 DEF BotsInv
<1>2. BotsInv /\ [Next]_vars => BotsInv'
  <2>1. SUFFICES ASSUME BotsInv, [Next]_vars PROVE BotsInv'
    OBVIOUS
  <2>2. CASE UNCHANGED vars
    BY <2>1, <2>2 DEF BotsInv, TapeOK, RangeOK, LookOK, AskedOK, FreezeBrokenOnlyByAnOldClock,
       GapUsesTheDaysRange, vars, Clock, Market
  <2>3. CASE \E s \in Shapes : Bar(s)
    BY <2>1, <2>3, BarAdded
  <2>4. CASE \E by \in {"worker", "tab"}, f \in Frames : \E p \in PricesOf(f) : Look(by, f, p)
    BY <2>1, <2>4, LookStep
  <2>5. CASE WorkerRuns
    BY <2>1, <2>5, WorkerStep
  <2>6. CASE TabRuns
    BY <2>1, <2>6, TabStep
  <2> QED
    BY <2>1, <2>2, <2>3, <2>4, <2>5, <2>6 DEF Next
<1> QED
  BY <1>1, <1>2, PTL DEF Spec

\* A tab never keeps an empty or upside-down opening range, and only the bots
\* of the day ask (app.py:812).
THEOREM BotsTypeCorrect == Spec => []TypeOK
<1>1. BotsInv => TypeOK
  BY DEF BotsInv, TapeOK, RangeOK, AskedOK, TypeOK
<1> QED
  BY <1>1, BotsInvInductive, PTL

\* Whatever the bars, the frames and the moments of the clock: only a look from
\* before the open asks in the first fifteen minutes (app.py:850,
\* radar_worker.py:539).
THEOREM FreezeHolds == Spec => []FreezeBrokenOnlyByAnOldClock
<1>1. BotsInv => FreezeBrokenOnlyByAnOldClock
  BY DEF BotsInv, AskedOK
<1> QED
  BY <1>1, BotsInvInductive, PTL

\* Gap-and-Go trades the range of this day's first fifteen minutes, whole,
\* unless the frame it was taken from was behind (app.py:812).
THEOREM GapTradesTheDaysRange == Spec => []GapUsesTheDaysRange
<1>1. BotsInv => GapUsesTheDaysRange
  BY DEF BotsInv, AskedOK
<1> QED
  BY <1>1, BotsInvInductive, PTL

\* What is said of the replay, step by step.
LEMMA StepsAreReplayed ==
  ASSUME BotsInv, [Next]_vars
  PROVE  /\ Unwatched /\ tape' # tape => \A i \in DOMAIN Market' : SameDecision(Market', i)
         /\ Unwatched /\ tape' # tape /\ tape # <<>> =>
              /\ \A v \in Variants : SettledFor(v, Market, Market')
              /\ \A c \in Configs : SettledReversal(c, Market, Market')
<1>1. SUFFICES ASSUME tape' # tape
               PROVE  /\ \A i \in DOMAIN Market' : SameDecision(Market', i)
                      /\ tape # <<>> =>
                           /\ \A v \in Variants : SettledFor(v, Market, Market')
                           /\ \A c \in Configs : SettledReversal(c, Market, Market')
  OBVIOUS
<1>2. PICK s \in Shapes : Bar(s)
  BY <1>1 DEF Next, Look, WorkerRuns, TabRuns, vars
<1>3. /\ TapeOK /\ TapeOK' /\ tape' # <<>> /\ Len(Market') = Len(Market) + 1
      /\ \A n \in 0..Len(Market) : FirstBars(Market', n) = FirstBars(Market, n)
  BY <1>2, BarStep DEF BotsInv
<1>4. GoodDay(Market', Len(History))
  <2>1. (TapeOK /\ tape # <<>> => GoodDay(Market, Len(History)))'
    BY MarketIsGood, PTL
  <2> QED
    BY <1>3, <2>1
<1>5. \A i \in DOMAIN Market' : SameDecision(Market', i)
  BY <1>4, ReplayIsTheRadar
<1>6. ASSUME tape # <<>>
      PROVE  /\ \A v \in Variants : SettledFor(v, Market, Market')
             /\ \A c \in Configs : SettledReversal(c, Market, Market')
  <2>1. /\ Market \in Seq(Bars) /\ Len(Market) \in 0..Len(Market) /\ Len(Market) \in Nat
        /\ Len(History) + 1 <= Len(Market) /\ Len(History) \in Nat
    BY <1>3, <1>6, MarketFacts, ClockFacts, HistoryFacts
  <2>2. FirstBars(Market', Len(Market)) = Market
    BY <1>3, <2>1, SubSeqFull DEF FirstBars
  <2>3. Len(Market) \in (Len(History) + 1)..Len(Market')
    BY <1>3, <2>1
  <2>4. ASSUME NEW v \in Variants PROVE SettledFor(v, Market, Market')
    BY <1>4, <2>2, <2>3, VariantStays DEF SettledFor
  <2>5. ASSUME NEW c \in Configs PROVE SettledReversal(c, Market, Market')
    BY <1>4, <2>2, <2>3, ReversalStays DEF SettledReversal
  <2> QED
    BY <2>4, <2>5
<1> QED
  BY <1>5, <1>6

\* The replay decides Gap-and-Go on a bar as the radar does with a frame that is
\* not behind, though its range is of the whole day (daytrade_backtest.py run_day).
THEOREM ReplayDoesNotDrift == Spec => NoDrift
<1>1. BotsInv /\ [Next]_vars =>
        [Unwatched /\ tape' # tape => \A i \in DOMAIN Market' : SameDecision(Market', i)]_vars
  BY StepsAreReplayed
<1>2. Spec => [][Unwatched /\ tape' # tape => \A i \in DOMAIN Market' : SameDecision(Market', i)]_vars
  BY <1>1, BotsInvInductive, PTL DEF Spec
<1> QED
  BY <1>2 DEF NoDrift

\* A trade of the replay that met its stop or its target is the same whatever
\* the rest of the day brings (daytrade_backtest.py _judge_intraday).
THEOREM VerdictsAreKept == Spec => ReplaysKeepTheirVerdicts
<1>1. BotsInv /\ [Next]_vars =>
        [Unwatched /\ tape' # tape /\ tape # <<>> =>
           /\ \A v \in Variants : SettledFor(v, Market, Market')
           /\ \A c \in Configs : SettledReversal(c, Market, Market')]_vars
  BY StepsAreReplayed
<1>2. Spec => [][Unwatched /\ tape' # tape /\ tape # <<>> =>
           /\ \A v \in Variants : SettledFor(v, Market, Market')
           /\ \A c \in Configs : SettledReversal(c, Market, Market')]_vars
  BY <1>1, BotsInvInductive, PTL DEF Spec
<1> QED
  BY <1>2 DEF ReplaysKeepTheirVerdicts
=============================================================================
