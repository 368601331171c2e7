----------------------------- MODULE SwingScore -----------------------------
(***************************************************************************)
(* The score of a swing plan: the checklist of explain/swing.py for a name *)
(* with history, and the demand read of explain/emerging.py for one with   *)
(* less than sixty bars.  Rows that are never scored are left out, except  *)
(* for what they decide.                                                   *)
(*                                                                         *)
(* f is what an analysis found, by field:                                  *)
(*   rsi, rsiM1      percent, or None                                      *)
(*   range           lowest and highest of the last 60 bars, or None       *)
(*   frames          of "5D", "6M" (or the 1M in its place), "1Y" those    *)
(*                   that were fetched: where the close stands to its      *)
(*                   average and MACD to its signal, None if not computed  *)
(*   biases          the engine's bias on 1D, 5D, 1M, those fetched        *)
(*   daily           a daily frame was fetched                             *)
(*   chase           a day of 5% or more among its last three              *)
(*   extension       percent from its 20-day average, or None              *)
(*   stretch         its close to the Bollinger bands: 1 above the upper   *)
(*                   one, 2 above by more than 0.5%, -1, -2 below, or None *)
(*   adx             strong (at least 25) and which DI leads, or None      *)
(*   investor, sentiment   context, sentiment in percent or None           *)
(*   month           the extremes of the last month, or None               *)
(***************************************************************************)
EXTENDS PlanGeometry

Row(name, ok, weight) == [name |-> name, ok |-> ok, weight |-> weight, na |-> FALSE]

\* Not computed: half the weight in the denominator.
MissingRow(name, weight) == [name |-> name, ok |-> FALSE, weight |-> weight, na |-> TRUE]

When(condition, rows) == IF condition THEN rows ELSE {}

\* A position on the plan's side of a line, or on it.
Agrees(where, bull) == where \in {"at", IF bull THEN "above" ELSE "below"}

-----------------------------------------------------------------------------
(* The crash regime: at least 15% off the month's extreme, with a target   *)
(* that takes back half of it.                                             *)

InCrash(f, price, bull) ==
  /\ f.month # None
  /\ IF bull THEN 100 * price <= 85 * f.month.high
     ELSE 100 * price >= 115 * f.month.low

LargeAim(f, g, bull) ==
  /\ f.month # None
  /\ IF bull THEN /\ f.month.high > g.entry
                  /\ 2 * (g.target - g.entry) >= f.month.high - g.entry
     ELSE /\ f.month.low < g.entry
          /\ 2 * (g.entry - g.target) >= g.entry - f.month.low

CrashBlock(f, price, g, bull) == InCrash(f, price, bull) /\ LargeAim(f, g, bull)

-----------------------------------------------------------------------------
(* The checklist.                                                          *)

Distance(a, b) == IF a >= b THEN a - b ELSE b - a

\* Reward is at least n/2 times the risk.
RewardAtLeast(g, n) ==
  /\ g.entry # g.stop
  /\ 2 * Distance(g.target, g.entry) >= n * Distance(g.entry, g.stop)

ClearPath(g, levels) ==
  LET low == Lesser(g.entry, g.target)
      high == Greater(g.entry, g.target)
  IN  ~\E l \in levels : 1000 * l > 1001 * low /\ 1000 * l < 999 * high

SoftRsi(f, bull) == IF bull THEN f.rsi <= 45 ELSE f.rsi >= 55

RoomInRange(f, g, bull) ==
  LET above == 2 * (g.entry - f.range.low)
      width == f.range.high - f.range.low
  IN  IF bull THEN above <= width ELSE above >= width

FrameWeights ==
  [five |-> [name |-> "5D", ma |-> 4, macd |-> 3],
   half |-> [name |-> "6M", ma |-> 5, macd |-> 4],
   year |-> [name |-> "1Y", ma |-> 4, macd |-> 2]]

LineRow(name, where, weight, bull) ==
  IF where = None THEN MissingRow(name, weight)
  ELSE Row(name, Agrees(where, bull), weight)

FrameRows(f, bull) ==
  UNION {LET w == FrameWeights[k]
         IN  When(w.name \in DOMAIN f.frames,
                  {LineRow(w.name \o " MA", f.frames[w.name].ma, w.ma, bull),
                   LineRow(w.name \o " MACD", f.frames[w.name].macd, w.macd, bull)}) :
         k \in DOMAIN FrameWeights}

BiasAgrees(f, bull) ==
  LET side == IF bull THEN "bull" ELSE "bear"
      aligned == Cardinality({i \in DOMAIN f.biases : f.biases[i] = side})
  IN  aligned >= Lesser(2, Len(f.biases))

RsiSane(f, bull) ==
  IF bull THEN f.rsi <= 70 /\ (f.rsiM1 = None \/ f.rsiM1 <= 75)
  ELSE f.rsi >= 30 /\ (f.rsiM1 = None \/ f.rsiM1 >= 25)

AdxAgrees(f, bull) ==
  \/ f.adx.lead = "tie"
  \/ f.adx.lead = (IF bull THEN "plus" ELSE "minus")
  \/ ~f.adx.strong

DailyRows(f, bull) ==
  {Row("No chase", ~f.chase, 6)}
  \cup When(f.extension # None,
            {Row("Not overextended",
                 IF bull THEN f.extension <= 10 ELSE f.extension >= -10, 5)})
  \cup When(f.stretch # None,
            {Row("Inside the band", IF bull THEN f.stretch < 1 ELSE f.stretch > -1, 5)})
  \cup When(f.adx # None, {Row("Trend strength agrees", AdxAgrees(f, bull), 5)})

Checklist(f, g, price, levels, bull, present, countertrend) ==
  {Row("Valid setup", present, IF countertrend THEN 8 ELSE 15),
   Row("Reward", RewardAtLeast(g, 3), 12),
   Row("Clear path", ClearPath(g, levels), 8)}
  \cup When(f.month # None, {Row("No crash snapback", ~CrashBlock(f, price, g, bull), 10)})
  \cup When(f.rsi # None, {Row("Rebound: rsi", SoftRsi(f, bull), 9)})
  \cup When(f.range # None, {Row("Rebound: range", RoomInRange(f, g, bull), 9)})
  \cup FrameRows(f, bull)
  \cup When(f.biases # <<>>, {Row("Engine bias agrees", BiasAgrees(f, bull), 6)})
  \cup When(f.rsi # None, {Row("RSI sane", RsiSane(f, bull), 4)})
  \cup When(f.daily, DailyRows(f, bull))
  \cup {Row("No conflict", IF bull THEN f.investor >= 45 ELSE f.investor <= 55, 4)}
  \cup When(f.sentiment # None,
            {Row("Tailwind", IF bull THEN f.sentiment >= 5 ELSE f.sentiment <= -5, 6)})

\* In half weights; rounded to the nearest.
Percent(rows) ==
  LET possible == SumFunction([r \in rows |-> IF r.na THEN r.weight ELSE 2 * r.weight])
      earned == SumFunction([r \in rows |-> IF r.ok THEN 2 * r.weight ELSE 0])
  IN  (200 * earned + possible) \div (2 * possible)

Passed(rows, name) == \E r \in rows : r.name = name /\ r.ok

\* With-trend setup, reward, clear path and at least one rebound row.
Bonus(rows, present, countertrend) ==
  LET rebounds == Cardinality({n \in {"Rebound: rsi", "Rebound: range"} : Passed(rows, n)})
  IN  IF ~present \/ countertrend \/ ~Passed(rows, "Reward")
           \/ ~Passed(rows, "Clear path") \/ rebounds = 0 THEN 0
      ELSE IF rebounds = 1 THEN 8 ELSE 12

\* Mutant: small aims are not marked down.
MatureScoreOfAnyAim(rows, g, present, countertrend) ==
  Lesser(100, Percent(rows) + Bonus(rows, present, countertrend))

\* An aim under 3% is worth no more than 40.
MatureScore(rows, g, present, countertrend) ==
  LET full == Lesser(100, Percent(rows) + Bonus(rows, present, countertrend))
  IN  IF 100 * Distance(g.target, g.entry) < 3 * g.entry THEN Lesser(full, 40) ELSE full

MatureLabel(score) ==
  IF score >= 75 THEN "Strong" ELSE IF score >= 55 THEN "Good"
  ELSE IF score >= 35 THEN "Weak - wait" ELSE "Avoid"

-----------------------------------------------------------------------------
(* The emerging read.  A bar is [open, high, low, close, volume]; the      *)
(* components are in per mille.                                            *)

EmergingMaxBars == 60
EmergingScoreCap == 75
DistributionScoreCap == 40

Clip(x) == Greater(0, Lesser(1000, x))

\* Higher lows, and closes at or over the anchor.
Accumulation(bars, anchor) ==
  LET n == Len(bars)
      higher == Cardinality({i \in 2..n : bars[i].low >= bars[i-1].low})
      above == Cardinality({i \in 1..n : bars[i].close >= anchor})
  IN  (IF n >= 2 THEN (600 * higher) \div (n - 1) ELSE 300) + (400 * above) \div n

CloseInRange(bar) ==
  IF bar.high = bar.low THEN 500
  ELSE (1000 * (bar.close - bar.low)) \div (bar.high - bar.low)

\* Recent bars weigh more.
CloseStrength(bars) ==
  Clip(SumFunction([i \in DOMAIN bars |-> i * CloseInRange(bars[i])])
         \div SumFunction([i \in DOMAIN bars |-> i]))

VolumeOf(bars, S) == SumFunction([i \in S |-> bars[i].volume])

\* A rise on volume that dries up.
Fading(bars) ==
  LET n == Len(bars)
      half == n \div 2
      early == VolumeOf(bars, 1..half)
      late == VolumeOf(bars, (half + 1)..n)
  IN  /\ n >= 4
      /\ bars[n].close > bars[1].close
      /\ 100 * late * half < 85 * early * (n - half)

VolumeConfirmation(bars) ==
  LET total == VolumeOf(bars, DOMAIN bars)
      up == VolumeOf(bars, {i \in DOMAIN bars : bars[i].close > bars[i].open})
      share == (1000 * up) \div total
  IN  IF total = 0 THEN 500
      ELSE IF Fading(bars) THEN (7 * share) \div 10 ELSE share

VwapPosition(last, vwap) ==
  IF vwap = None THEN None ELSE Clip(500 + (12500 * (last - vwap)) \div vwap)

\* Basis points from the anchor.
Extension(bars, anchor) == (10000 * (Last(bars).close - anchor)) \div anchor

ExtensionGuard(extension) ==
  IF extension <= 1200 THEN 1000
  ELSE IF extension >= 4000 THEN 0
  ELSE 1000 - (1000 * (extension - 1200)) \div 2800

\* The weighted blend in percent; without a VWAP the other weights are
\* normalized.
Blend(bars, anchor, vwap) ==
  LET position == VwapPosition(Last(bars).close, vwap)
      rest == 25 * Accumulation(bars, anchor) + 20 * CloseStrength(bars)
                + 20 * VolumeConfirmation(bars)
                + 20 * ExtensionGuard(Extension(bars, anchor))
  IN  IF position = None THEN (2 * rest + 850) \div 1700
      ELSE (2 * (rest + 15 * position) + 1000) \div 2000

\* In percent, rounded.
Confidence(bars) == (200 * Lesser(60, Len(bars)) + 60) \div 120

\* Up at least 8% on bars that close weak.
Distribution(bars, anchor) ==
  Extension(bars, anchor) >= 800 /\ CloseStrength(bars) < 350

EmergingLabels ==
  {"Distribution risk", "Demand, but extended", "Healthy demand", "Building", "Early", "Weak"}

EmergingLabel(score, confidence, extended, distribution) ==
  IF distribution THEN "Distribution risk"
  ELSE IF extended THEN "Demand, but extended"
  ELSE IF score >= 65 /\ confidence >= 30 THEN "Healthy demand"
  ELSE IF score >= 50 THEN "Building" ELSE IF score >= 35 THEN "Early" ELSE "Weak"

\* The score and the label of a blend in percent.
Verdict(blend, confidence, extended, distribution) ==
  LET score == Lesser(IF distribution THEN DistributionScoreCap ELSE EmergingScoreCap, blend)
  IN  [score |-> score, extended |-> extended, distribution |-> distribution,
       label |-> EmergingLabel(score, confidence, extended, distribution)]

\* anchor: the offering price, or the first open.
ScoreEmerging(bars, anchor, vwap) ==
  Verdict(Blend(bars, anchor, vwap), Confidence(bars),
          Extension(bars, anchor) > 2000, Distribution(bars, anchor))
=============================================================================
