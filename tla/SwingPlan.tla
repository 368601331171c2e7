------------------------------ MODULE SwingPlan ------------------------------
(***************************************************************************)
(* build_swing_plan of explain/swing.py: setup, indicator vetoes, GO gate, *)
(* and the emerging read that replaces the score of a name with little     *)
(* history.  Besides the fields described in SwingScore, an analysis a has *)
(*   levels, others, highs, lows, atr, median   see PlanGeometry           *)
(*   signals, change   names of the engine's signals; the direction of a   *)
(*                     likely trend change, or None                        *)
(*   sma50, sma200, ema20, emaRising   of the indicator frame              *)
(*   hist       the daily MACD histogram against zero and its last move,   *)
(*              or None                                                    *)
(*   rvol       tenths of the average volume, or None                      *)
(*   earnings   days to the next report, or None                           *)
(*   chart, longest   the decision frame, and the longest daily frame      *)
(*              fetched (or None); names of Frames                         *)
(*   anchor, vwap   offering price and session VWAP, or None               *)
(***************************************************************************)
EXTENDS SwingScore

CONSTANT Frames   \* from the name of a frame to its bars

BullConfirm == {"hammer", "bullish_engulfing", "double_bottom",
                "rsi_bullish_divergence", "inverse_head_and_shoulders",
                "macd_bull_cross", "premarket_gap_up", "stoch_bull"}

BearConfirm == {"shooting_star", "bearish_engulfing", "double_top",
                "rsi_bearish_divergence", "head_and_shoulders",
                "macd_bear_cross", "premarket_gap_down", "stoch_bear"}

Countertrend == {"Trend-change reversal (early)", "Oversold reversal at support",
                 "Trend-change reversal (down)", "Overbought reversal at resistance"}

\* The setups that need a surge of volume.
Surges == {"Momentum / gap", "Momentum / gap (down)", "Breakout (volume)"}

\* The first case of a sequence of cases that applies.
FirstOf(cases) ==
  LET hits == {i \in DOMAIN cases : cases[i].applies}
  IN  IF hits = {} THEN None ELSE cases[Min(hits)].setup

Case(setup, applies) == [setup |-> setup, applies |-> applies]

Rsi(a) == IF a.rsi = None THEN 50 ELSE a.rsi

-----------------------------------------------------------------------------
(* Setups.                                                                 *)

LongSetup(a, price) ==
  LET above200 == a.sma200 = None \/ price >= a.sma200
      uptrend == a.sma50 # None /\ price >= a.sma50
      near == Noise(a, price)
  IN  FirstOf(<<
        Case("Trend-change reversal (early)", a.change = "bull" /\ above200),
        Case("Momentum / gap",
             \/ "premarket_gap_up" \in a.signals
             \/ {"macd_bull_cross", "volume_spike"} \subseteq a.signals),
        Case("Breakout (volume)",
             /\ "volume_spike" \in a.signals
             /\ \E l \in a.levels : l > price /\ 2 * (l - price) <= near),
        Case("Oversold reversal at support",
             Rsi(a) <= 40 /\ a.signals \cap BullConfirm # {} /\ above200),
        Case("Pullback to 20-EMA",
             /\ uptrend /\ a.ema20 # None /\ a.emaRising
             /\ Distance(price, a.ema20) <= Greater(near, Times(price, 200))),
        Case("Support test (uptrend)",
             uptrend /\ \E l \in a.levels : l < price /\ price - l <= near)>>)

ShortSetup(a, price) ==
  FirstOf(<<
    Case("Trend-change reversal (down)", a.change = "bear"),
    Case("Momentum / gap (down)",
         \/ "premarket_gap_down" \in a.signals
         \/ {"macd_bear_cross", "volume_spike"} \subseteq a.signals),
    Case("Overbought reversal at resistance",
         Rsi(a) >= 60 /\ a.signals \cap BearConfirm # {}),
    Case("Rally into resistance (downtrend)",
         /\ a.sma50 # None /\ price <= a.sma50
         /\ \E l \in a.levels : l > price /\ l - price <= Noise(a, price))>>)

-----------------------------------------------------------------------------
(* Vetoes.                                                                 *)

\* A close outside the band by more than 0.5%.
Overextended(a, short) == a.stretch = (IF short THEN -2 ELSE 2)

AdverseTrend(a, short) ==
  /\ a.adx # None
  /\ a.adx.strong
  /\ a.adx.lead = (IF short THEN "plus" ELSE "minus")

\* On the wrong side of zero and still getting worse.
MacdAgainst(a, short) ==
  /\ a.daily
  /\ a.hist = (IF short THEN "above, rising" ELSE "below, falling")

StrongDowntrend(a, price, short) ==
  /\ ~short
  /\ a.sma50 # None /\ price < a.sma50
  /\ a.sma200 # None /\ price < a.sma200

VolumeOk(a, setup) ==
  \/ a.rvol = None
  \/ /\ setup \in Surges => a.rvol > 15
     /\ setup = "Pullback to 20-EMA" => a.rvol < 10

-----------------------------------------------------------------------------
(* One side of the plan: _build_side.                                      *)

\* In 1/1000 of a percent.
TriggerBand(a) == Greater(1500, 6 * LiveAtr(a))

TriggerNear(a, price, g, short) ==
  LET distance == IF short THEN price - g.trigger ELSE g.trigger - price
  IN  g.trigger # None /\ 100000 * distance <= TriggerBand(a) * price

\* Mutant: levels keep their fractions of a cent.
Unrounded(x) == x

Rounded(x) == ((x + Cent \div 2) \div Cent) * Cent

\* The conditions of a GO.
Gate(a, price, g, t, setup, present, short) ==
  /\ g.kind = "immediate" /\ present
  /\ setup \in Countertrend => a.investor >= 45 \/ t.scalps
  /\ RewardAtLeast(g, 3)
  /\ 10000 * Distance(g.target, g.entry) >= t.move * g.entry
  /\ VolumeOk(a, setup)
  /\ ~StrongDowntrend(a, price, short)
  /\ ~(a.earnings # None /\ a.earnings <= t.guard)
  /\ ~CrashBlock(a, price, g, ~short)
  /\ ~Overextended(a, short) /\ ~AdverseTrend(a, short) /\ ~MacdAgainst(a, short)

\* actionable: a GO, or a breakout order whose trigger is near.
WorthAnOrder(a, price, g, t, go, short) ==
  \/ go
  \/ /\ g.kind = "breakout_wait" /\ RewardAtLeast(g, 3)
     /\ TriggerNear(a, price, g, short)
     /\ ~CrashBlock(a, price, g, ~short)
     /\ ~(a.earnings # None /\ a.earnings <= t.guard)

Light(go, present, kind) ==
  IF go THEN "go" ELSE IF present \/ kind = "breakout_wait" THEN "forming" ELSE "no"

Conviction(go, g, signals, short) ==
  LET confirms == signals \cap (IF short THEN BearConfirm ELSE BullConfirm)
  IN  IF ~go THEN "low"
      ELSE IF RewardAtLeast(g, 6) /\ Cardinality(confirms) >= 2 THEN "high"
      ELSE "moderate"

\* The next mapped level beyond the target.
SecondTarget(g, near, short) ==
  LET beyond == {i \in DOMAIN near : IF short THEN 1000 * near[i] < 995 * g.target
                                     ELSE 1000 * near[i] > 1005 * g.target}
  IN  IF beyond = {} THEN None ELSE Rounded(near[Min(beyond)])

BuildSide(a, price, t, short) ==
  LET wall == MergedWalls(a, price, Noise(a, price))
      floor == MergedSupports(a, price, Noise(a, price))
      setup == IF short THEN ShortSetup(a, price) ELSE LongSetup(a, price)
      counter == setup \in Countertrend
      present == setup # None /\ ~StrongDowntrend(a, price, short)
      gap == StopGap(a, price, t)
      spent == Overextended(a, short)
      g == IF short THEN ShortGeometry(price, floor, gap, Cap(a, t), t, counter, spent)
           ELSE LongGeometry(price, wall, gap, Cap(a, t), t, counter, spent)
      go == Gate(a, price, g, t, setup, present, short)
      rows == Checklist(a, g, price, ToSet(wall) \cup ToSet(floor), ~short, present, counter)
      score == MatureScore(rows, g, present, counter)
  IN  [kind |-> g.kind, setup |-> setup, rows |-> {r.name : r \in rows},
       entry |-> Rounded(g.entry), stop |-> Rounded(g.stop),
       target |-> Rounded(g.target), trigger |-> g.trigger,
       target2 |-> SecondTarget(g, IF short THEN floor ELSE wall, short),
       go |-> go, light |-> Light(go, present, g.kind),
       confidence |-> Conviction(go, g, a.signals, short),
       actionable |-> WorthAnOrder(a, price, g, t, go, short),
       score |-> score, label |-> MatureLabel(score), emerging |-> None]

-----------------------------------------------------------------------------
(* Little history: _longest_daily, _apply_emerging.                        *)

\* The decision frame unless a daily frame is longer.
LongestFrame(a) ==
  IF a.longest # None /\ Len(Frames[a.longest]) > Len(Frames[a.chart])
    THEN Frames[a.longest] ELSE Frames[a.chart]

EmergingRead(a) ==
  LET bars == LongestFrame(a)
  IN  ScoreEmerging(bars, IF a.anchor = None THEN bars[1].open ELSE a.anchor, a.vwap)

\* Mutant: an extended read only takes the GO away.
ReplaceScoreKeepsOrder(plan, read) ==
  [plan EXCEPT !.emerging = read, !.score = read.score, !.label = read.label,
               !.confidence = "low",
               !.go = @ /\ ~read.extended,
               !.light = IF read.extended /\ @ = "go" THEN "forming" ELSE @]

\* The read replaces the score; an extended one also withdraws GO and order.
ReplaceScore(plan, read) ==
  [plan EXCEPT !.emerging = read, !.score = read.score, !.label = read.label,
               !.confidence = "low",
               !.actionable = @ /\ ~read.extended,
               !.go = @ /\ ~read.extended,
               !.light = IF read.extended /\ @ = "go" THEN "forming" ELSE @]

ApplyEmerging(plan, a) ==
  IF Len(LongestFrame(a)) >= EmergingMaxBars THEN plan
  ELSE ReplaceScore(plan, EmergingRead(a))

\* usecase: "buy" (own is built alike) or "sell".
BuildSwingPlan(a, price, usecase, pace) ==
  IF usecase = "sell" THEN BuildSide(a, price, Tuning[pace], TRUE)
  ELSE ApplyEmerging(BuildSide(a, price, Tuning[pace], FALSE), a)
=============================================================================
