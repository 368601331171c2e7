------------------------------ MODULE BackTest ------------------------------
(***************************************************************************)
(* The walk-forward test of the swing score (backtest.py): points of the   *)
(* history are picked, each is advised on as of that day and judged        *)
(* against the bars that followed.  The history grows by a bar: what was   *)
(* said of a point then can be compared with what is said now.             *)
(*                                                                         *)
(* What the plan builder advises (SwingPlan) is a function of the last bar *)
(* it sees.  Ratios are compared as fractions of the point's close.        *)
(***************************************************************************)
EXTENDS Judging, FiniteSets, SequencesExt

CONSTANTS
  Bars,        \* [high, low, close]
  Advice,      \* bar -> [kind, go, score, rr, setup, entry, stop, target, trigger]
  MinHistory, Spacing,
  Picks,       \* a sequence of <<label, how many>>
  MaxBars      \* bound

VARIABLE history

Ahead(h, t, n) == SubSeq(h, t + 1, IF t + n < Len(h) THEN t + n ELSE Len(h))

\* What the next Horizon days brought: the highest, the lowest, the last.
Up(h, t) == Max({b.high : b \in ToSet(Ahead(h, t, Horizon))}) - h[t].close
Down(h, t) == Min({b.low : b \in ToSet(Ahead(h, t, Horizon))}) - h[t].close
Net(h, t) == h[t + Horizon].close - h[t].close

\* MIN_HISTORY bars before, the horizon and one bar after.
Candidates(h) == (MinHistory + 1)..(Len(h) - Horizon - 1)

Magnitude(x) == IF x < 0 THEN -x ELSE x

\* What a label looks for, the least first; of equals the earlier.
Measure(h, t, label) ==
  CASE label = "UP" -> -Up(h, t)
    [] label = "DOWN" -> Down(h, t)
    [] label = "CHOP" -> Magnitude(Net(h, t)) + Up(h, t) - Net(h, t)
Before(h, label, s, t) ==
  LET a == Measure(h, s, label) * h[t].close
      b == Measure(h, t, label) * h[s].close
  IN  a < b \/ (a = b /\ s < t)

\* _take: of the points that keep their distance the one the label looks for
\* most, until there are enough.
Take(h, chosen, label, most) ==
  LET take[n \in 0..most] ==
        IF n = 0 THEN chosen
        ELSE LET apart == {t \in Candidates(h) :
                             \A p \in take[n-1] : Magnitude(p.t - t) >= Spacing}
                 best == CHOOSE t \in apart : \A s \in apart \ {t} : Before(h, label, t, s)
             IN  IF apart = {} THEN take[n-1] ELSE take[n-1] \cup {[t |-> best, label |-> label]}
  IN  take[most]
PickPoints(h) ==
  LET picked[n \in 0..Len(Picks)] ==
        IF n = 0 THEN {} ELSE Take(h, picked[n-1], Picks[n][1], Picks[n][2])
  IN  picked[Len(Picks)]

-----------------------------------------------------------------------------
Missed(h, t) == 100 * Up(h, t) >= 8 * h[t].close
Rally(h, t) == Missed(h, t) /\ 100 * Net(h, t) > 4 * h[t].close
Drop(h, t) == 100 * Down(h, t) <= -(6 * h[t].close)

\* Was the advice right?
VerdictOf(h, t, plan, outcome) ==
  CASE plan.go -> IF outcome.gain > 0 \/ outcome.status = "target_hit" THEN "WIN" ELSE "LOSS"
    [] ~plan.go /\ plan.kind = "breakout_wait" /\ outcome.status = "not_triggered" ->
         IF Missed(h, t) THEN "MISS" ELSE "OK-PASS"
    [] ~plan.go /\ plan.kind = "breakout_wait" /\ outcome.status # "not_triggered" ->
         IF outcome.gain > 0 THEN "WIN" ELSE "LOSS"
    [] ~plan.go /\ plan.kind # "breakout_wait" ->
         IF Rally(h, t) THEN "MISS" ELSE IF Drop(h, t) THEN "OK-AVOID" ELSE "OK-PASS"

\* evaluate_point: the outcome, and those of the two other fill rules.
Evaluation(h, t) ==
  LET plan == Advice[h[t]]
      bars == Ahead(h, t, 3 * Horizon)
      outcome == JudgeOutcome(bars, plan)
  IN  [plan |-> plan, outcome |-> outcome,
       close |-> JudgeCloseFill(bars, plan, Horizon),
       patient |-> JudgeCloseFill(bars, plan, (3 * Horizon) \div 2),
       relaxed |-> plan.kind = "immediate" /\ plan.setup /\ plan.rr >= 15,
       acted |-> plan.go \/ plan.kind = "breakout_wait",
       verdict |-> VerdictOf(h, t, plan, outcome)]

Done == {"target_hit", "stop_hit", "expired"}

Evaluations(h) == [p \in PickPoints(h) |-> Evaluation(h, p.t)]

\* run, the summary of its evaluations: the points behind each number it prints
\* (rr in tenths).
Summary(e) ==
  LET points == DOMAIN e
      Of(label) == {p \in points : p.label = label}
      done == {p \in points : e[p].outcome.status \in Done}
      won == {p \in points : e[p].outcome.gain > 0}
      orders == {p \in points : e[p].plan.kind = "breakout_wait"}
      pool == {p \in done : e[p].plan.kind = "immediate" /\ e[p].plan.setup}
  IN  [traded |-> {p \in done : e[p].acted},
       wins |-> {p \in done \cap won : e[p].acted},
       caught |-> {p \in Of("UP") : e[p].verdict = "WIN" \/ (e[p].acted /\ p \in won)},
       missed |-> {p \in Of("UP") : e[p].verdict = "MISS"},
       avoided |-> {p \in Of("DOWN") : e[p].verdict \in {"OK-AVOID", "OK-PASS"} \/ ~e[p].acted},
       trapped |-> {p \in Of("DOWN") : e[p].verdict = "LOSS"},
       passed |-> {p \in Of("CHOP") : e[p].verdict \in {"OK-AVOID", "OK-PASS"}},
       go |-> {p \in points : e[p].plan.go},
       relaxed |-> {p \in done : e[p].relaxed},
       sweep |-> [g \in {12, 14, 16, 18, 20} \X {0, 55} |->
                    {p \in pool : e[p].plan.rr >= g[1] /\ e[p].plan.score >= g[2]}],
       filled |-> {p \in orders : e[p].close.status \in Done},
       patient |-> {p \in orders : e[p].patient.status \in Done},
       wicks |-> {p \in orders : e[p].close.status = "not_triggered"
                                   /\ e[p].outcome.status # "not_triggered"}]

Init == history = <<>>
Next == Len(history) < MaxBars /\ \E b \in Bars : history' = Append(history, b)
Spec == Init /\ [][Next]_history
-----------------------------------------------------------------------------
\* An order that was still waiting where the history ends is no loss: every
\* point that is picked has the days its order may wait (backtest.py:42).
NoVerdictOnWaitingOrders ==
  \A p \in PickPoints(history) :
    LET e == Evaluation(history, p.t) IN
    e.verdict = "LOSS" /\ e.plan.kind = "breakout_wait" =>
      \E b \in ToSet(Ahead(history, p.t, Horizon)) : b.close >= e.plan.trigger

\* The two fill rules of counterfactual B are one rule: the journal's judge also
\* waits for a close, so no wick-only fill is ever counted (backtest.py:299).  An
\* order that may wait longer keeps every fill of the shorter wait (:274).
FillRulesAgree ==
  \A t \in Candidates(history) :
    LET e == Evaluation(history, t) IN
    /\ e.close = e.outcome
    /\ e.close.status # "not_triggered" => e.patient = e.close

\* The lines of the summary do not contradict each other: a rally is not both
\* caught and missed, a drop not both avoided and a trap.
Consistent(s) ==
  /\ s.caught \cap s.missed = {} /\ s.avoided \cap s.trapped = {} /\ s.wicks = {}
  /\ s.wins \subseteq s.traded /\ s.filled \subseteq s.patient
SummaryIsConsistent == Consistent(Summary(Evaluations(history)))

\* An outcome that was decided stays when more of the history is known.
DecidedStaysDecided ==
  [][\A t \in Candidates(history) :
       Evaluation(history, t).outcome.status \in Final =>
         Evaluation(history', t).outcome = Evaluation(history, t).outcome]_history
=============================================================================
