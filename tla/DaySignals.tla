----------------------------- MODULE DaySignals -----------------------------
(***************************************************************************)
(* What the day-trading bots decide, as functions of the bars they see:    *)
(* the market clock (session.py), the opening range and the Gap-and-Go     *)
(* signal (analysis/orb.py), the day card (analysis/daycard.py) and the    *)
(* reversal-at-support signal (analysis/reversal.py).                      *)
(*                                                                         *)
(* Time is in minutes of an Eastern weekday.  Prices are in cents; stops,  *)
(* targets and entries of decisions in hundredths of a cent, the digits    *)
(* they are rounded to.  Ties are rounded up.                              *)
(***************************************************************************)
EXTENDS Integers, Sequences, FiniteSetsExt, SequencesExt

CONSTANTS
  None,
  RvolLength   \* relative_volume's length: 20

Rounded(a, b) == (2 * a + b) \div (2 * b)
Pips == 100

Open == 570
RangeEnd == 585
WindowEnd == 690

\* session.market_phase, is_orb_window.
MarketPhase(t) ==
  CASE t \in 240..(Open - 1) -> "premarket"
    [] t \in Open..(RangeEnd - 1) -> "opening_range"
    [] t \in RangeEnd..959 -> "regular"
    [] OTHER -> "closed"
IsOrbWindow(t) == t \in RangeEnd..WindowEnd

\* A frame is a sequence of bars [day, at, open, high, low, close, volume]; some
\* of its bars are named by their indices.  _session_bars: those of its last day.
SessionBars(frame) == {i \in DOMAIN frame : frame[i].day = Last(frame).day}

Highest(bars, S) == Max({bars[i].high : i \in S})
Lowest(bars, S) == Min({bars[i].low : i \in S})
First(bars, S) == bars[Min(S)]
VolumeOf(bars, S) == MapThenSumSet(LAMBDA i : bars[i].volume, S)

\* relative_volume(frame) compared: is it over num / den?  Unknown for a frame
\* of less than 20 bars, or without volume.
RecentVolume(frame) == VolumeOf(frame, (Len(frame) - RvolLength + 1)..Len(frame))
RvolKnown(frame) == Len(frame) >= RvolLength /\ RecentVolume(frame) > 0
RvolOver(frame, num, den) ==
  RvolLength * den * Last(frame).volume > num * RecentVolume(frame)
RvolUnder(frame, num, den) ==
  RvolLength * den * Last(frame).volume < num * RecentVolume(frame)
-----------------------------------------------------------------------------
\* Mutant: the whole session so far.
WholeSession(bars, S) == S

\* 09:30 <= t < 09:45.
RangeBars(bars, S) == {i \in S : bars[i].at \in Open..(RangeEnd - 1)}

GapUp(open, prev, thousandths) == prev # None /\ 1000 * open >= (1000 + thousandths) * prev

\* Mutant: the range is taken as soon as the session has a bar of it.
OpeningRangeEarly(frame, prev, asof) ==
  LET session == SessionBars(frame)
      win == RangeBars(frame, session)
  IN  IF win = {} THEN None
      ELSE [day |-> Last(frame).day, high |-> Highest(frame, win), low |-> Lowest(frame, win),
            up |-> GapUp(First(frame, session).open, prev, 20)]

\* opening_range: the open the gap is measured from is the session's first bar,
\* a premarket bar where the frame has one.
OpeningRange(frame, prev, asof) ==
  LET session == SessionBars(frame)
      win == RangeBars(frame, session)
  IN  IF frame = <<>> \/ MarketPhase(asof) # "regular" \/ win = {} THEN None
      ELSE [day |-> Last(frame).day, high |-> Highest(frame, win), low |-> Lowest(frame, win),
            up |-> GapUp(First(frame, session).open, prev, 20)]

RangeStop(low) == Rounded(low * 999, 10)

\* gap_and_go_signal: None, or the entry, stop and target of a break.
GapAndGo(range, frame, price, asof) ==
  LET entry == Pips * price
      stop == RangeStop(range.low)
  IN  IF /\ range # None /\ range.up
         /\ IsOrbWindow(asof)
         /\ price >= range.high
         /\ RvolKnown(frame) => RvolOver(frame, 3, 2)
         /\ stop < entry
      THEN [entry |-> entry, stop |-> stop, target |-> 3 * entry - 2 * stop]
      ELSE None
-----------------------------------------------------------------------------
\* _dedup: levels within the tolerance of the one before are merged with it.
Dedup(prices, price) ==
  FoldLeft(LAMBDA out, p :
      IF out # <<>> /\ 1000 * (p - Last(out)) <= Max({4 * price, 1000})
      THEN Front(out) \o <<Rounded(Last(out) + p, 2)>>
      ELSE Append(out, p),
    <<>>, SetToSortSeq(prices, LAMBDA a, b : a < b))

\* _battle_zones: the two heaviest of twelve price bins, at their centers.
Bin(b, lo, hi) ==
  Min({((b.high + b.low + b.close - 3 * lo) * 12) \div (3 * (hi - lo)), 11})
BattleZones(bars, S, lo, hi) ==
  IF hi <= lo THEN {}
  ELSE LET bins == {Bin(bars[i], lo, hi) : i \in S}
           of(k) == {i \in S : Bin(bars[i], lo, hi) = k}
           weight(k) == IF VolumeOf(bars, S) > 0 THEN VolumeOf(bars, of(k))
                        ELSE Cardinality(of(k))
           before(k) == {j \in bins : weight(j) > weight(k) \/ (weight(j) = weight(k) /\ j > k)}
       IN  {Rounded(24 * lo + (2 * k + 1) * (hi - lo), 24) :
              k \in {j \in bins : weight(j) > 0 /\ Cardinality(before(j)) < 2}}

\* _levels: those below the price and those above it.
LevelsAround(levels, price) ==
  LET all == ToSet(Dedup(levels, price)) IN
  [supports |-> {p \in all : 10000 * p < 9995 * price},
   resistances |-> {p \in all : 10000 * p > 10005 * price}]

\* build_day_card, what the signals read of it: tenths of a percent of the
\* range, hundredths of a percent of change.
DayCard(frame, levels, price) ==
  LET day == SessionBars(frame)
      hi == Highest(frame, day)
      lo == Lowest(frame, day)
      open == First(frame, day).open
      near == LevelsAround(levels \cup {hi, lo}, price)
  IN  [low |-> lo,
       position |-> IF hi > lo
                    THEN Max({0, Min({1000, Rounded(1000 * (price - lo), hi - lo)})}) ELSE None,
       change |-> Rounded(10000 * (price - open), open),
       supports |-> {s \in near.supports : Cardinality({t \in near.supports : t > s}) < 4},
       next |-> IF near.resistances = {} THEN None ELSE Min(near.resistances),
       zones |-> BattleZones(frame, day, lo, hi)]

Supports(card) == card.supports \cup {card.low} \cup card.zones
Near(a, b) == 1000 * a - 1000 * b \in -(4 * b)..(4 * b)      \* within 0.4% of b

\* _support_confidence.
Confidence(card, support) ==
  Cardinality({s \in card.supports : Near(s, support)})
    + Cardinality({z \in card.zones : Near(z, support)})
    + (IF Near(card.low, support) THEN 1 ELSE 0)

\* _reversed_up.
ReversedUp(bar, support) ==
  /\ 1000 * bar.low <= 1004 * support
  /\ 1000 * bar.close >= 1001 * support
  /\ bar.close >= bar.open

\* The open, from the rounded change, is 2% or more under the close before.
GapDown(card, price, prev) ==
  prev # None /\ 1000000 * price <= 98 * prev * (10000 + card.change)

TrendOk(cfg, card, support, price, up, prev) ==
  IF cfg.trend = "with_trend" THEN up /\ ~GapDown(card, price, prev)
  ELSE Confidence(card, support) >= 2

\* reversal_signal: None, or the entry, stop and target of the variant.
Reversal(card, bar, price, up, prev, asof, cfg) ==
  LET below == {s \in Supports(card) : 1000 * s <= 1004 * price}
      support == Max(below)
      stop == Rounded(support * 998, 10)
      raw == 1030 * price                      \* thousandths of a cent
      aim == IF card.next = None THEN raw ELSE Min({raw, 995 * card.next})
  IN  IF /\ MarketPhase(asof) # "opening_range"
         /\ below # {}
         /\ Near(price, support)
         /\ card.position = None \/ card.position <= 350
         /\ TrendOk(cfg, card, support, price, up, prev)
         /\ cfg.entry = "touch" \/ ReversedUp(bar, support)
         /\ stop < Pips * price
         /\ aim >= 1025 * price
      THEN [entry |-> Pips * price, stop |-> stop, target |-> Rounded(aim, 10)]
      ELSE None
=============================================================================
