---------------------------- MODULE PlanGeometry ----------------------------
(***************************************************************************)
(* The geometry of a swing plan (explain/swing.py): which walls and        *)
(* supports a plan sees, and where its entry, stop, target and trigger     *)
(* are.  Pure functions of a price, the mapped levels and the volatility.  *)
(*                                                                         *)
(* A price is a number of hundredths of a cent, a fraction is a number of  *)
(* basis points; what the code computes on floats is rounded down to the   *)
(* unit.  Comparisons are cross-multiplied and exact.                      *)
(***************************************************************************)
EXTENDS Integers, Sequences, FiniteSets, SequencesExt

CONSTANT None   \* Python's None

Cent == 100

\* stop: tenths of an ATR; root: the square root of budget_days, in 1/10000;
\* cap, move: target_cap and min_move; guard: earnings_guard_days; scalps:
\* budget_days <= 3.
Tuning ==
  [standard |-> [stop |-> 12, root |-> 31623, cap |-> 1500, move |-> 500,
                 guard |-> 14, scalps |-> FALSE],
   fast     |-> [stop |-> 7,  root |-> 17321, cap |-> 1200, move |-> 300,
                 guard |-> 3,  scalps |-> TRUE]]

Times(x, bp) == (x * bp) \div 10000

Greater(a, b) == IF a >= b THEN a ELSE b

Lesser(a, b) == IF a <= b THEN a ELSE b

-----------------------------------------------------------------------------
(* Levels.                                                                 *)

Ascending(S) ==
  [i \in 1..Cardinality(S) |-> CHOOSE x \in S : Cardinality({y \in S : y <= x}) = i]

Descending(S) ==
  [i \in 1..Cardinality(S) |-> CHOOSE x \in S : Cardinality({y \in S : y >= x}) = i]

\* Two levels less than 0.6% apart, relative to the one kept before.
Merges(v, kept) == 1000 * (v - kept) < 6 * kept /\ 1000 * (kept - v) < 6 * kept

\* _cluster walks outwards from the price: a cluster is represented by its
\* nearest member.  The walk compares a level with the last one kept, the only
\* one it can merge with.
NearestAbove(S) ==
  LET keeps[v \in S] == \A k \in S : (k < v /\ Merges(v, k)) => ~keeps[k]
  IN  {v \in S : keeps[v]}

NearestBelow(S) ==
  LET keeps[v \in S] == \A k \in S : (k > v /\ Merges(v, k)) => ~keeps[k]
  IN  {v \in S : keeps[v]}

\* m.levels: the decision frame's levels; m.others: those of the 1M, 6M, 1Y and
\* 5Y frames; m.highs, m.lows: the extremes of those frames, which count only
\* beyond one ATR.
RawWalls(m, price, noise) ==
  {l \in m.levels \cup m.others : l > price} \cup {h \in m.highs : h > price + noise}

RawSupports(m, price, noise) ==
  {l \in m.levels : l < price} \cup {l \in m.others : l <= price}
    \cup {x \in m.lows : x < price - noise}

\* Mutant: a level merges into the one before it, kept or not.
MergedWallsByNeighbour(m, price, noise) ==
  LET S == RawWalls(m, price, noise)
  IN  Ascending({v \in S : ~\E k \in S : k < v /\ Merges(v, k)})

MergedWalls(m, price, noise) == Ascending(NearestAbove(RawWalls(m, price, noise)))

MergedSupports(m, price, noise) == Descending(NearestBelow(RawSupports(m, price, noise)))

-----------------------------------------------------------------------------
(* Volatility.                                                             *)

\* m.atr: ATR(14) over the last close; m.median: its median over the last 60
\* daily bars, None with fewer than 20.  Without an ATR both default to 2%.
LiveAtr(m) == IF m.atr = None THEN 200 ELSE m.atr

DampedAtr(m) ==
  IF m.atr = None \/ m.median = None THEN LiveAtr(m) ELSE Lesser(m.atr, m.median)

\* What the horizon can deliver, at most target_cap.
Cap(m, t) == Lesser(t.cap, (DampedAtr(m) * t.root) \div 10000)

Noise(m, price) == Times(price, LiveAtr(m))

StopGap(m, price, t) == (t.stop * price * LiveAtr(m)) \div 100000

-----------------------------------------------------------------------------
(* The long side.  wall is the sequence of merged walls, nearest first.    *)

LongStop(entry, gap) == Greater(Cent, entry - gap)

\* Just under a wall.
Under(wall) == Times(wall, 9950)

\* The trigger is beyond what the budget covers.
LongFar(price, wall, i, cap) == 10000 * (wall[i] - price) > cap * price

\* The next wall is: a capped target would float in the gap before it.
LongFloating(wall, i, cap) ==
  i < Len(wall) /\ wall[i+1] * 9950 > wall[i] * (10000 + cap)

LongLegTarget(wall, i, cap) ==
  IF i < Len(wall) THEN Under(wall[i+1]) ELSE Times(wall[i], 10000 + cap)

\* A breakout leg may be a quarter under min_move.
LongLeg(wall, i, cap, t) ==
  /\ ~LongFloating(wall, i, cap)
  /\ 40000 * (LongLegTarget(wall, i, cap) - wall[i]) >= 3 * t.move * wall[i]

LongImmediate(price, gap, target) ==
  [kind |-> "immediate", entry |-> price, stop |-> LongStop(price, gap),
   target |-> target, trigger |-> None]

LongNoTrade(price, wall, gap) ==
  [kind |-> "no_trade", entry |-> price, stop |-> LongStop(price, gap),
   target |-> Greater(Under(wall[1]), price), trigger |-> None]

LongBreakout(wall, i, gap, cap) ==
  [kind |-> "breakout_wait", entry |-> wall[i],
   stop |-> Greater(Cent, Lesser(Times(wall[i], 9980), wall[i] - gap)),
   target |-> LongLegTarget(wall, i, cap), trigger |-> wall[i]]

\* The first of three rungs that is out of reach or has a leg decides.
LongLadder(price, wall, gap, cap, t) ==
  LET decides == {i \in 1..Lesser(3, Len(wall)) :
                    LongFar(price, wall, i, cap) \/ LongLeg(wall, i, cap, t)}
  IN  IF decides = {} \/ LongFar(price, wall, Min(decides), cap)
        THEN LongNoTrade(price, wall, gap)
        ELSE LongBreakout(wall, Min(decides), gap, cap)

\* Mutant: any room to the first wall will do.
LongGeometryAnyRoom(price, wall, gap, cap, t, countertrend, spent) ==
  IF wall = <<>> THEN LongImmediate(price, gap, Times(price, 10000 + cap))
  ELSE LongImmediate(price, gap, Lesser(Under(wall[1]), Times(price, 10000 + cap)))

\* Mutant: the volatility budget caps blue skies only.
LongGeometryUncapped(price, wall, gap, cap, t, countertrend, spent) ==
  IF wall = <<>> THEN LongImmediate(price, gap, Times(price, 10000 + cap))
  ELSE IF 10000 * (wall[1] - price) >= t.move * price
    THEN LongImmediate(price, gap, Under(wall[1]))
  ELSE IF countertrend \/ spent THEN LongNoTrade(price, wall, gap)
  ELSE LongLadder(price, wall, gap, cap, t)

\* Mutant: a spent leg is not looked at.
LongGeometryChasing(price, wall, gap, cap, t, countertrend, spent) ==
  IF wall = <<>> THEN LongImmediate(price, gap, Times(price, 10000 + cap))
  ELSE IF 10000 * (wall[1] - price) >= t.move * price
    THEN LongImmediate(price, gap, Lesser(Under(wall[1]), Times(price, 10000 + cap)))
  ELSE IF countertrend THEN LongNoTrade(price, wall, gap)
  ELSE LongLadder(price, wall, gap, cap, t)

LongGeometry(price, wall, gap, cap, t, countertrend, spent) ==
  IF wall = <<>> THEN LongImmediate(price, gap, Times(price, 10000 + cap))
  ELSE IF 10000 * (wall[1] - price) >= t.move * price
    THEN LongImmediate(price, gap, Lesser(Under(wall[1]), Times(price, 10000 + cap)))
  ELSE IF countertrend \/ spent THEN LongNoTrade(price, wall, gap)
  ELSE LongLadder(price, wall, gap, cap, t)

-----------------------------------------------------------------------------
(* The short side.  floor is the sequence of merged supports.              *)

Over(floor) == Times(floor, 10050)

ShortFar(price, floor, i, cap) == 10000 * (price - floor[i]) > cap * price

ShortFloating(floor, i, cap) ==
  i < Len(floor) /\ floor[i+1] * 10050 < floor[i] * (10000 - cap)

ShortLegTarget(floor, i, cap) ==
  IF i < Len(floor) THEN Over(floor[i+1]) ELSE Times(floor[i], 10000 - cap)

ShortLeg(floor, i, cap, t) ==
  /\ ~ShortFloating(floor, i, cap)
  /\ 40000 * (floor[i] - ShortLegTarget(floor, i, cap)) >= 3 * t.move * floor[i]

ShortImmediate(price, gap, target) ==
  [kind |-> "immediate", entry |-> price, stop |-> price + gap,
   target |-> target, trigger |-> None]

ShortNoTrade(price, floor, gap) ==
  [kind |-> "no_trade", entry |-> price, stop |-> price + gap,
   target |-> Lesser(Over(floor[1]), price), trigger |-> None]

ShortBreakdown(floor, i, gap, cap) ==
  [kind |-> "breakout_wait", entry |-> floor[i],
   stop |-> Greater(Times(floor[i], 10020), floor[i] + gap),
   target |-> ShortLegTarget(floor, i, cap), trigger |-> floor[i]]

ShortLadder(price, floor, gap, cap, t) ==
  LET decides == {i \in 1..Lesser(3, Len(floor)) :
                    ShortFar(price, floor, i, cap) \/ ShortLeg(floor, i, cap, t)}
  IN  IF decides = {} \/ ShortFar(price, floor, Min(decides), cap)
        THEN ShortNoTrade(price, floor, gap)
        ELSE ShortBreakdown(floor, Min(decides), gap, cap)

ShortGeometry(price, floor, gap, cap, t, countertrend, spent) ==
  IF floor = <<>> THEN ShortImmediate(price, gap, Times(price, 10000 - cap))
  ELSE IF 10000 * (price - floor[1]) >= t.move * price
    THEN ShortImmediate(price, gap, Greater(Over(floor[1]), Times(price, 10000 - cap)))
  ELSE IF countertrend \/ spent THEN ShortNoTrade(price, floor, gap)
  ELSE ShortLadder(price, floor, gap, cap, t)
=============================================================================
