------------------------------ MODULE DayReplay ------------------------------
(***************************************************************************)
(* The replay of one trading day (daytrade_backtest.py): the Gap-and-Go    *)
(* decision bar by bar, and the relaxed variants judged over the rest of   *)
(* the day.  All are functions of the day's five-minute bars.              *)
(***************************************************************************)
EXTENDS DaySignals

FirstBars(bars, n) == SubSeq(bars, 1, n)

\* _session_upto, between_time(09:30, 16:00).
InHours(bars, S) == {i \in S : bars[i].at \in Open..959}
Regular(bars) == InHours(bars, SessionBars(bars))
After(bars, at) == InHours(bars, (at + 1)..Len(bars))

\* run_day: one opening range, from the whole day, judged at 10:00; bar i is
\* decided at its label with the bars up to it.
ReplayRange(bars, prev) == OpeningRange(bars, prev, 600)
ReplayedGap(bars, prev, i) ==
  GapAndGo(ReplayRange(bars, prev), FirstBars(bars, i), bars[i].close, bars[i].at)

\* Mutant: by the extremes of the rest of the day.
JudgedByExtremes(bars, at, entry, stop, target) ==
  LET rest == After(bars, at) IN
  CASE \E i \in rest : Pips * bars[i].low <= stop -> "stop"
    [] \A i \in rest : Pips * bars[i].low > stop ->
         IF \E i \in rest : Pips * bars[i].high >= target THEN "target"
         ELSE IF rest = {} THEN "open" ELSE "eod"

\* _judge_intraday, of the bars after the entry: the first one that meets a
\* level, the stop before the target of one bar.
Judged(bars, at, entry, stop, target) ==
  LET rest == After(bars, at)
      hits == {i \in rest : Pips * bars[i].low <= stop \/ Pips * bars[i].high >= target}
  IN  CASE rest = {} -> "open"
        [] rest # {} /\ hits = {} -> "eod"
        [] OTHER -> IF Pips * bars[Min(hits)].low <= stop THEN "stop" ELSE "target"

\* The bars a variant may enter on: past its range, in its window, closed over
\* the range, with volume.  bars[i] is one of the day's.
Entries(v, bars, high) ==
  {i \in DOMAIN bars :
     /\ bars[i].day = Last(bars).day
     /\ bars[i].at \in RangeEnd..v.end
     /\ bars[i].close >= high
     /\ RvolKnown(FirstBars(bars, i)) =>
          ~RvolUnder(FirstBars(bars, i), v.rvol, 10)}

\* _variant_trade: None, or the bar it enters on, its plan and what became of
\* it.  It fills at the range's high and not at the bar's close.
VariantTrade(v, bars, prev) ==
  LET sess == Regular(bars)
      win == RangeBars(bars, sess)
      high == Highest(bars, win)
      entry == Pips * high
      stop == RangeStop(Lowest(bars, win))
      target == entry + Rounded(v.rr * (entry - stop), 2)
      at == Min(Entries(v, bars, high))
  IN  IF \/ win = {} \/ ~GapUp(First(bars, sess).open, prev, v.gap)
         \/ Entries(v, bars, high) = {} \/ stop >= entry
      THEN None
      ELSE [at |-> bars[at].at, entry |-> entry, stop |-> stop, target |-> target,
            status |-> Judged(bars, at, entry, stop, target)]

\* _reversal_contexts and _reversal_trade: the first bar near the running low
\* on which a reversal variant fires.
RunningLow(bars, i) == Lowest(FirstBars(bars, i), Regular(FirstBars(bars, i)))
ReversalBars(bars, levels, up, prev, cfg) ==
  {i \in DOMAIN bars :
     /\ bars[i].day = Last(bars).day /\ bars[i].at \in RangeEnd..959
     /\ 100 * bars[i].close <= 102 * RunningLow(bars, i)
     /\ Reversal(DayCard(FirstBars(bars, i), levels, bars[i].close), bars[i], bars[i].close,
                 up, prev, bars[i].at, cfg) # None}
ReversalTrade(bars, levels, up, prev, cfg) ==
  LET fires == ReversalBars(bars, levels, up, prev, cfg)
      at == Min(fires)
      plan == Reversal(DayCard(FirstBars(bars, at), levels, bars[at].close), bars[at],
                       bars[at].close, up, prev, bars[at].at, cfg)
  IN  IF fires = {} THEN None
      ELSE [at |-> bars[at].at, entry |-> plan.entry, stop |-> plan.stop, target |-> plan.target,
            status |-> Judged(bars, at, plan.entry, plan.stop, plan.target)]
=============================================================================
