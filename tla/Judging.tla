------------------------------- MODULE Judging -------------------------------
(***************************************************************************)
(* How a long proposition is judged against the daily bars after it:       *)
(* judge_outcome of papertrade.py and its twin in backtest.py.             *)
(* A bar is [high, low, close]; a plan [entry, stop, target, trigger]; a   *)
(* gain is in the unit of the prices, the code's is in percent of the      *)
(* entry.                                                                  *)
(***************************************************************************)
EXTENDS Integers, Sequences

CONSTANT
  Horizon      \* horizon_days

HorizonAssumption == Horizon \in Nat \ {0}

NoTrigger == 0
Final == {"target_hit", "stop_hit", "expired", "not_triggered"}

\* The data: prices of a bar and of a plan for buying.  A plan that proposes no
\* trade may have its target at the price, where a wall is next to it.
Candles == [high : Int, low : Int, close : Int]
Propositional(p) == p.entry \in Int /\ p.stop \in Int /\ p.target \in Int /\ p.trigger \in Int
InOrder(p) ==
  /\ Propositional(p) /\ p.stop < p.entry /\ p.entry <= p.target
  /\ p.trigger # NoTrigger => p.stop < p.trigger

Verdict(status, gain) == [status |-> status, gain |-> gain]

\* Mutant: the day's high is looked at before its low.
TargetFirst(p, s, b) ==
  CASE b.high >= p.target -> [s EXCEPT !.verdict = Verdict("target_hit", p.target - s.entry)]
    [] b.high < p.target /\ b.low <= p.stop ->
         [s EXCEPT !.verdict = Verdict("stop_hit", p.stop - s.entry)]
    [] OTHER -> [s EXCEPT !.days = @ + 1,
                   !.verdict = Verdict(IF s.days + 1 >= Horizon THEN "expired" ELSE "open",
                                       b.close - s.entry)]

\* A bar of an active proposition: the stop, the target, the end of its days.
ActiveBar(p, s, b) ==
  CASE b.low <= p.stop -> [s EXCEPT !.verdict = Verdict("stop_hit", p.stop - s.entry)]
    [] b.low > p.stop /\ b.high >= p.target ->
         [s EXCEPT !.verdict = Verdict("target_hit", p.target - s.entry)]
    [] OTHER -> [s EXCEPT !.days = @ + 1,
                   !.verdict = Verdict(IF s.days + 1 >= Horizon THEN "expired" ELSE "open",
                                       b.close - s.entry)]

\* A bar of one that waits: its close may activate it, at that close.
WaitingBar(p, s, b) ==
  IF b.close >= p.trigger
  THEN [s EXCEPT !.active = TRUE, !.entry = b.close, !.days = 1, !.verdict = Verdict("open", 0)]
  ELSE [s EXCEPT !.waited = @ + 1,
          !.verdict = Verdict(IF s.waited + 1 >= Horizon THEN "not_triggered" ELSE "open", 0)]

Begun(p) == [active |-> p.trigger = NoTrigger, entry |-> p.entry, days |-> 0, waited |-> 0,
             verdict |-> Verdict("open", 0)]

JudgeBar(p, s, b) ==
  CASE s.verdict.status \in Final -> s
    [] s.verdict.status \notin Final /\ s.active -> ActiveBar(p, s, b)
    [] s.verdict.status \notin Final /\ ~s.active -> WaitingBar(p, s, b)

\* judge_outcome: bar by bar.
JudgeOutcome(bars, p) ==
  LET judge[n \in 0..Len(bars)] ==
        IF n = 0 THEN Begun(p) ELSE JudgeBar(p, judge[n-1], bars[n])
  IN  judge[Len(bars)].verdict

\* What a proposition came to, said without a loop: the bar that activates it,
\* 0 if it is active, and the first bar after that one that ends it.
Begins(bars, p) ==
  IF p.trigger = NoTrigger THEN 0
  ELSE CHOOSE k \in 1..(Len(bars) + 1) :
         /\ k <= Len(bars) => bars[k].close >= p.trigger
         /\ \A j \in 1..(k - 1) : bars[j].close < p.trigger
Ends(bars, p, k) ==
  LET last == IF k = 0 THEN Horizon ELSE k + Horizon - 1
  IN  {j \in (k + 1)..Len(bars) :
         bars[j].low <= p.stop \/ bars[j].high >= p.target \/ j >= last}
Reference(bars, p) ==
  LET k == Begins(bars, p)
      ends == Ends(bars, p, k)
      j == CHOOSE x \in ends : \A y \in ends : x <= y
  IN IF k > Horizon \/ (k > Len(bars) /\ k # 0)
     THEN IF Len(bars) >= Horizon THEN "not_triggered" ELSE "open"
     ELSE IF ends = {} THEN "open"
          ELSE IF bars[j].low <= p.stop THEN "stop_hit"
          ELSE IF bars[j].high >= p.target THEN "target_hit" ELSE "expired"

-----------------------------------------------------------------------------
(* backtest.py judge_close_fill: an order that may wait longer than a       *)
(* trade may last.                                                          *)

\* Mutant: the bar that fills is judged against the stop and the target too.
FillBarJudged(p, s, b) ==
  ActiveBar(p, [s EXCEPT !.active = TRUE, !.entry = b.close], b)

\* The fill bar counts as a day and is not judged.
FillBar(p, s, b) ==
  [s EXCEPT !.active = TRUE, !.entry = b.close, !.days = 1, !.verdict = Verdict("open", 0)]

CloseFillBar(p, wait, s, b) ==
  CASE s.verdict.status \in Final -> s
    [] s.verdict.status \notin Final /\ s.active -> ActiveBar(p, s, b)
    [] s.verdict.status \notin Final /\ ~s.active /\ b.close >= p.trigger -> FillBar(p, s, b)
    [] s.verdict.status \notin Final /\ ~s.active /\ b.close < p.trigger ->
         [s EXCEPT !.waited = @ + 1,
            !.verdict = Verdict(IF s.waited + 1 >= wait THEN "not_triggered" ELSE "open", 0)]

JudgeCloseFill(bars, p, wait) ==
  IF p.trigger = NoTrigger THEN JudgeOutcome(bars, p)
  ELSE LET judge[n \in 0..Len(bars)] ==
             IF n = 0 THEN Begun(p) ELSE CloseFillBar(p, wait, judge[n-1], bars[n])
       IN  judge[Len(bars)].verdict
=============================================================================
