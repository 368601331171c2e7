------------------------------- MODULE Journal -------------------------------
(***************************************************************************)
(* The paper-trade journal of one user, ticker and alert level             *)
(* (papertrade.py, db/repositories/paper_trades.py): propositions recorded *)
(* by the worker and by tabs, judged later by any session against the      *)
(* daily bars it fetched, and counted in the report card.                  *)
(*                                                                         *)
(* Time is in half days: in the first half of a day its bar is still       *)
(* forming, and is part of every frame fetched then.                       *)
(***************************************************************************)
EXTENDS Judging, SequencesExt

CONSTANTS
  Bars,        \* of a day: [high, low, close]
  Plans,       \* of a proposition: [entry, stop, target, trigger]
  Sessions, None,
  MaxDay, MaxRows      \* bounds

JournalAssumption ==
  /\ MaxDay \in Nat /\ MaxRows \in Nat /\ None \notin Int
  /\ Bars \subseteq Candles /\ \A p \in Plans : InOrder(p)

VARIABLES
  now,         \* half days since the first alert was possible
  tape,        \* the bars of days 1.., the last one forming when now is even
  rows,        \* paper_trades: [at, source, plan, status, gain]
  task         \* task[s]: None, or the rows and the bars an evaluation read

vars == <<now, tape, rows, task>>

Window == 2                  \* 24 hours
Day == now \div 2

\* _bars_after: the days after the day of the alert.
BarsAfter(bars, at) == SubSeq(bars, at \div 2 + 1, Len(bars))

\* Mutant: rows of the other writer are not duplicates.
DuplicateOfATab(r) == r.source = None /\ r.at >= now - Window

\* PaperTradeRepository.insert without a source_id: any row of the 24 hours.
Duplicate(r) == r.at >= now - Window

Row(p, source) == [at |-> now, source |-> source, plan |-> p, status |-> "open", gain |-> 0]

\* The worker's rows carry a source_id of the day, unique by a constraint.
WorkerInsert(p) ==
  /\ Len(rows) < MaxRows
  /\ \A i \in DOMAIN rows : rows[i].source # Day
  /\ rows' = Append(rows, Row(p, Day))
  /\ UNCHANGED <<now, tape, task>>

\* claim_notice lets one tab through, so its check and its add are one step.
TabInsert(p) ==
  /\ Len(rows) < MaxRows
  /\ \A i \in DOMAIN rows : ~Duplicate(rows[i])
  /\ rows' = Append(rows, Row(p, None))
  /\ UNCHANGED <<now, tape, task>>

\* evaluate_all reads the rows; the frames were fetched just before.
BeginEvaluation(s) ==
  /\ task[s] = None /\ rows # <<>>
  /\ task' = [task EXCEPT ![s] = [listed |-> rows, bars |-> tape]]
  /\ UNCHANGED <<now, tape, rows>>

\* Mutant: rows that are final are judged again.
JudgedAnew(r) == TRUE

\* Final rows, as listed, are left alone.
ToJudge(r) == r.status \notin Final

\* What an evaluation makes of the rows it listed: each is updated by its id,
\* whatever its status is by now, if its verdict differs from the listed one.
Judged(e, i) ==
  LET v == JudgeOutcome(BarsAfter(e.bars, e.listed[i].at), e.listed[i].plan) IN
  IF i <= Len(e.listed) /\ ToJudge(e.listed[i])
     /\ (v.status # e.listed[i].status \/ v.gain # e.listed[i].gain)
  THEN [rows[i] EXCEPT !.status = v.status, !.gain = v.gain]
  ELSE rows[i]

EndEvaluation(s) ==
  /\ task[s] # None
  /\ rows' = [i \in DOMAIN rows |-> IF i <= Len(task[s].listed) THEN Judged(task[s], i) ELSE rows[i]]
  /\ task' = [task EXCEPT ![s] = None]
  /\ UNCHANGED <<now, tape>>

\* Mutant: an expired proposition is neither won nor lost.
ColumnsOfEnds(r) ==
  CASE r.status = "target_hit" -> {"wins"}
    [] r.status = "stop_hit" -> {"losses"}
    [] r.status \in {"expired", "not_triggered", "open"} -> {r.status}

\* Where the report card counts a row.
Columns(r) ==
  CASE r.status = "target_hit" -> {"wins"}
    [] r.status = "stop_hit" -> {"losses"}
    [] r.status = "expired" -> {"expired", IF r.gain > 0 THEN "wins" ELSE "losses"}
    [] r.status \in {"not_triggered", "open"} -> {r.status}

\* summarize.
ReportCard(recs) ==
  [c \in {"wins", "losses", "expired", "open", "not_triggered"} |->
     Cardinality({i \in DOMAIN recs : c \in Columns(recs[i])})]

\* The day closes: its bar may still widen and end elsewhere.
CloseDay(b) ==
  /\ now % 2 = 0
  /\ now' = now + 1
  /\ \/ tape = <<>> /\ UNCHANGED tape
     \/ /\ tape # <<>>
        /\ b.high >= Last(tape).high /\ b.low <= Last(tape).low
        /\ tape' = Front(tape) \o <<b>>
  /\ UNCHANGED <<rows, task>>

OpenDay(b) ==
  /\ now % 2 = 1 /\ Day < MaxDay
  /\ now' = now + 1
  /\ tape' = Append(tape, b)
  /\ UNCHANGED <<rows, task>>

Init ==
  /\ now = 0 /\ tape = <<>> /\ rows = <<>>
  /\ task = [s \in Sessions |-> None]

Next ==
  \/ \E p \in Plans : WorkerInsert(p) \/ TabInsert(p)
  \/ \E s \in Sessions : BeginEvaluation(s) \/ EndEvaluation(s)
  \/ \E b \in Bars : CloseDay(b) \/ OpenDay(b)

Spec == Init /\ [][Next]_vars
-----------------------------------------------------------------------------
TypeOK ==
  /\ now \in 0..(2 * MaxDay + 1) /\ Len(tape) = Day
  /\ Len(rows) \in 0..MaxRows
  /\ \A s \in Sessions : task[s] # None => Len(task[s].listed) <= Len(rows)

\* A verdict is the reference's on the bars read: the stop before the target of
\* one bar, the days counted from the activation.
JudgesLikeTheReference ==
  \A i \in DOMAIN rows :
    LET bars == BarsAfter(tape, rows[i].at) IN
    JudgeOutcome(bars, rows[i].plan).status = Reference(bars, rows[i].plan)

\* A final verdict is replaced only by an evaluation that listed the row before
\* it was final (papertrade.py:145).
FinalYieldsOnlyToAnOlderReading ==
  [][\A i \in DOMAIN rows :
       rows[i].status \in Final /\ rows'[i] # rows[i] =>
         \E s \in Sessions : task[s] # None /\ task'[s] = None
           /\ task[s].listed[i].status \notin Final]_vars

\* The report card leaves no proposition out and counts none twice: it was won
\* or lost, waits, or never began.  Whoever gained is among the winners, and a
\* winner that did not had nothing to gain: its target was its entry, or it was
\* filled at a close past its target (papertrade.py:92, 174).
NothingToGain(r) ==
  \/ r.plan.entry = r.plan.target
  \/ \E k \in DOMAIN tape : tape[k].close >= r.plan.trigger /\ tape[k].close >= r.plan.target
ReportCardIsWhole ==
  LET card == ReportCard(rows) IN
  /\ card.wins + card.losses + card.open + card.not_triggered = Len(rows)
  /\ \A i \in DOMAIN rows : rows[i].status \in Final =>
       /\ rows[i].gain > 0 => "wins" \in Columns(rows[i])
       /\ "wins" \in Columns(rows[i]) /\ rows[i].gain <= 0 => NothingToGain(rows[i])

\* Of two rows of one level within 24 hours the later is the worker's, of
\* another day than any row of its own (paper_trades.py:30).
OnlyTheWorkerDoubles ==
  \A j \in DOMAIN rows : \A i \in 1..(j - 1) :
    rows[j].at - rows[i].at <= Window =>
      rows[j].source # None /\ rows[j].source # rows[i].source
=============================================================================
