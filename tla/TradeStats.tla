----------------------------- MODULE TradeStats -----------------------------
(***************************************************************************)
(* What the closed trades of one user are made to say: trade_stats,        *)
(* algorithm_correctness, managed_vs_fixed and losing_trade_patterns of    *)
(* data/store.py and their twins in db/repositories/trades.py.             *)
(*                                                                         *)
(* Both read the table row by row, SQLite the oldest trade first,          *)
(* PostgreSQL the newest.  An idea is what _cohort_id hashes: the plan and *)
(* its day; the score of a trade is not part of it.  Results are in        *)
(* hundredths of a percent; ties are rounded up.                           *)
(***************************************************************************)
EXTENDS Integers, Sequences, FiniteSets, SequencesExt

CONSTANTS
  Ideas,       \* [setup, day]
  IsManaged,   \* trader -> is it managed
  Rows,        \* [trader, idea, score, result, cancelled] of a trade that ends
  MaxTrades    \* bound

VARIABLE trades    \* the rows that are closed, the oldest first

Rounded(a, b) == (2 * a + b) \div (2 * b)
Total(f) == FoldFunction(+, 0, f)
Mean(rows) == Rounded(Total([i \in DOMAIN rows |-> rows[i].result]), Len(rows))

Band(score) ==
  CASE score >= 80 -> "80+"
    [] score \in 70..79 -> "70-79"
    [] score \in 60..69 -> "60-69"
    [] score < 60 -> "<60"

\* Mutant: cancelled orders are trades too.
CountedAll(list) == list

\* Closed, and not cancelled before they were filled.
Counted(list) == SelectSeq(list, LAMBDA r : ~r.cancelled)

\* _agg; the rate in percent.
Agg(rows) ==
  LET wins == Len(SelectSeq(rows, LAMBDA r : r.result > 0)) IN
  [n |-> Len(rows), wins |-> wins, losses |-> Len(rows) - wins,
   rate |-> IF rows = <<>> THEN 0 ELSE Rounded(100 * wins, Len(rows)),
   mean |-> IF rows = <<>> THEN 0 ELSE Mean(rows)]

\* The rows by what key says of each row.
GroupedBy(rows, key) ==
  [k \in {key[r] : r \in ToSet(rows)} |-> Agg(SelectSeq(rows, LAMBDA r : key[r] = k))]

\* trade_stats.
Stats(list) ==
  LET rows == Counted(list) IN
  [totals |-> Agg(rows),
   traders |-> GroupedBy(rows, [r \in Rows |-> r.trader]),
   setups |-> GroupedBy(rows, [r \in Rows |-> r.idea.setup]),
   bands |-> GroupedBy(rows, [r \in Rows |-> Band(r.score)])]

\* Mutant: the managed copy of a trade has a vote of its own.
VotesOfAll(list) == Counted(list)

\* algorithm_correctness counts the trades that are not managed.
Votes(list) == SelectSeq(Counted(list), LAMBDA r : ~IsManaged[r.trader])

\* One idea: the mean of its trades; setup and band are its first trade's.
IdeaOf(rows) ==
  [idea |-> Head(rows).idea, band |-> Band(Head(rows).score), n |-> Len(rows),
   result |-> Mean(rows), win |-> Mean(rows) > 0]
IdeasOf(list) ==
  {IdeaOf(SelectSeq(Votes(list), LAMBDA r : r.idea = c)) :
     c \in {Votes(list)[i].idea : i \in DOMAIN Votes(list)}}

\* _agg_ideas.
AggIdeas(items) ==
  LET wins == Cardinality({i \in items : i.win}) IN
  [ideas |-> Cardinality(items), trades |-> Total([i \in items |-> i.n]),
   wins |-> wins, losses |-> Cardinality(items) - wins,
   rate |-> IF items = {} THEN 0 ELSE Rounded(100 * wins, Cardinality(items)),
   mean |-> IF items = {} THEN 0
            ELSE Rounded(Total([i \in items |-> i.result]), Cardinality(items))]
AlgorithmCorrectness(list) ==
  LET ideas == IdeasOf(list) IN
  [totals |-> AggIdeas(ideas),
   bands |-> [b \in {i.band : i \in ideas} |-> AggIdeas({i \in ideas : i.band = b})],
   setups |-> [s \in {i.idea.setup : i \in ideas} |-> AggIdeas({i \in ideas : i.idea.setup = s})]]

\* managed_vs_fixed: of two rows of one trader and idea the later in the list.
Half(list, c, managed) ==
  SelectSeq(Counted(list), LAMBDA r : r.idea = c /\ IsManaged[r.trader] = managed
                                        /\ r.trader \in {"bot-gap-mgd", "bot-gap-fixed"})
PairsOf(list) ==
  {[idea |-> c, managed |-> Last(Half(list, c, TRUE)).result,
    fixed |-> Last(Half(list, c, FALSE)).result] :
     c \in {d \in Ideas : Half(list, d, TRUE) # <<>> /\ Half(list, d, FALSE) # <<>>}}
ManagedVsFixed(list) ==
  LET pairs == PairsOf(list) IN
  [pairs |-> Cardinality(pairs),
   delta |-> IF pairs = {} THEN 0
             ELSE Rounded(Total([p \in pairs |-> p.managed - p.fixed]), Cardinality(pairs)),
   managed |-> Cardinality({p \in pairs : p.managed > 0}),
   fixed |-> Cardinality({p \in pairs : p.fixed > 0})]

\* losing_trade_patterns: the trades whose checks and signals are counted.
Losers(list) == Len(SelectSeq(Counted(list), LAMBDA r : r.result < 0))

SQLite == trades
PostgreSQL == Reverse(trades)

\* A trade ends.
End(r) ==
  /\ Len(trades) < MaxTrades
  /\ trades' = Append(trades, r)

Init == trades = <<>>
Next == \E r \in Rows : End(r)
Spec == Init /\ [][Next]_trades
-----------------------------------------------------------------------------
OfItsIdea(r) == SelectSeq(Votes(trades), LAMBDA s : s.idea = r.idea)

\* "one vote per idea" (store.py:311): one more trade of an idea, by any bot,
\* with the result its trades had, moves no rate and no mean of the algorithm;
\* a managed trade or a cancelled order moves nothing at all.
OneVotePerIdea ==
  [][\A r \in Rows : trades' = Append(trades, r) =>
       LET before == AlgorithmCorrectness(trades)
           after == AlgorithmCorrectness(trades')
           told == OfItsIdea(r) IN
       /\ r.cancelled \/ IsManaged[r.trader] => after = before
       /\ told # <<>> /\ (\A i \in DOMAIN told : told[i].result = r.result) =>
            [after.totals EXCEPT !.trades = 0] = [before.totals EXCEPT !.trades = 0]]_trades

\* The two books say the same of the same trades where no trader repeats an
\* idea and an idea has one score (store.py:941, trades.py:317).
Repeated ==
  \E i, j \in DOMAIN trades :
    i # j /\ trades[i].idea = trades[j].idea
      /\ (trades[i].trader = trades[j].trader \/ Band(trades[i].score) # Band(trades[j].score))
TwoBooksAgree ==
  /\ Stats(SQLite) = Stats(PostgreSQL)
  /\ AlgorithmCorrectness(SQLite).totals = AlgorithmCorrectness(PostgreSQL).totals
  /\ ~Repeated =>
       /\ AlgorithmCorrectness(SQLite) = AlgorithmCorrectness(PostgreSQL)
       /\ ManagedVsFixed(SQLite) = ManagedVsFixed(PostgreSQL)

\* Every break-down of the statistics counts each trade once, and a trade that
\* ended even is a loss in them but not among the losing patterns (store.py:1003).
BreakdownsAddUp ==
  LET s == Stats(trades)
      Sum(groups) == Total([k \in DOMAIN groups |-> groups[k].n])
      Won(groups) == Total([k \in DOMAIN groups |-> groups[k].wins]) IN
  /\ \A g \in {s.traders, s.setups, s.bands} : Sum(g) = s.totals.n /\ Won(g) = s.totals.wins
  /\ Losers(trades) + Len(SelectSeq(Counted(trades), LAMBDA r : r.result = 0)) = s.totals.losses
  /\ AlgorithmCorrectness(trades).totals.trades <= s.totals.n
=============================================================================
