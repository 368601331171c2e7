---------------------------- MODULE LegacyImport ----------------------------
(***************************************************************************)
(* The import of the files of a former installation into PostgreSQL while  *)
(* the application runs (scripts/migrate_legacy_data.py): the files are    *)
(* read, then one transaction adds the trades, the journal, the two ticker *)
(* lists and the counters through the repositories.  It can be run again,  *)
(* also twice at a time; its user goes on trading and editing his lists.   *)
(*                                                                         *)
(* READ COMMITTED: an insert waits for a transaction that inserted the     *)
(* same key, and fails if it committed.                                    *)
(***************************************************************************)
EXTENDS Integers, FiniteSets

CONSTANTS
  Importers,
  OldTrades,   \* of trades.db: [id, key, active]
  OldPapers,   \* of trades.db: [id, at], of one ticker and level
  OldLists,    \* of the JSON files: [list, ticker]
  OldCount,    \* of the counter of a day
  NewId,       \* the id of a trade of the application
  MaxCount     \* bound

FilesAssumption ==
  /\ IsFiniteSet(OldTrades)
  /\ \A t \in OldTrades : t = [id |-> t.id, key |-> t.key, active |-> t.active]
                             /\ t.active \in BOOLEAN /\ t.id # NewId
  /\ \A s, t \in OldTrades : s.id = t.id => s = t
  /\ MaxCount \in Nat \ {0} /\ OldCount \in 0..MaxCount

VARIABLES
  trades,      \* committed: [id, key, active]
  papers,      \* source ids of the journal's rows
  lists,       \* [list, ticker] of the user
  count,       \* of provider_rate_limits, or Absent
  job,         \* job[i]: the stage of an import and what it wrote
  imported,    \* an import has committed
  removed      \* what the user has removed from his lists

vars == <<trades, papers, lists, count, job, imported, removed>>

Absent == -1
Idle == [at |-> "idle", known |-> {}, trades |-> {}, papers |-> {}, lists |-> {}]
Become(i, changed) == job' = [job EXCEPT ![i] = changed]
Tables == <<trades, papers, lists, count, imported, removed>>

ActiveKeys(rows) == {t.key : t \in {r \in rows : r.active}}
IdsOf(rows) == {t.id : t \in rows}

\* The files are read, then the ids that PostgreSQL has.
Begin(i) ==
  /\ job[i].at = "idle"
  /\ Become(i, [Idle EXCEPT !.at = "trades", !.known = IdsOf(trades)])
  /\ UNCHANGED Tables

\* A failed statement rolls everything back.
Fail(i) == Become(i, Idle) /\ UNCHANGED Tables

\* Two of them are active for one key: the old book has no index against it.
TwiceActive(rows) ==
  \E s, t \in rows : s # t /\ s.active /\ t.active /\ s.key = t.key

\* The trades whose id was not there; the primary key and the index of active
\* positions refuse one that is there by now.
InsertTrades(i) ==
  LET new == {t \in OldTrades : t.id \notin job[i].known}
      Clash(rows) == IdsOf(new) \cap IdsOf(rows) # {}
                       \/ ActiveKeys(new) \cap ActiveKeys(rows) # {}
  IN  /\ job[i].at = "trades"
      /\ \A k \in Importers \ {i} : ~Clash(job[k].trades)
      /\ IF Clash(trades) \/ TwiceActive(new) THEN Fail(i)
         ELSE Become(i, [job[i] EXCEPT !.at = "papers", !.trades = new]) /\ UNCHANGED Tables

\* Mutant: the rows are recorded like new ones, once in 24 hours.
SourcesByWindow ==
  {p.id : p \in {p \in OldPapers : \A q \in OldPapers : q.at < p.at => p.at - q.at > 1}}

\* A stable source id for every row.
Sources == {p.id : p \in OldPapers}

InsertPapers(i) ==
  LET new == Sources \ papers IN
  /\ job[i].at = "papers"
  /\ \A k \in Importers \ {i} : job[k].papers \cap new = {}
  /\ Become(i, [job[i] EXCEPT !.at = "lists", !.papers = new])
  /\ UNCHANGED Tables

InsertLists(i) ==
  LET new == OldLists \ lists IN
  /\ job[i].at = "lists"
  /\ \A k \in Importers \ {i} : job[k].lists \cap new = {}
  /\ Become(i, [job[i] EXCEPT !.at = "count", !.lists = new])
  /\ UNCHANGED Tables

\* import_count: the larger of the two.
Larger(a, b) == IF a > b THEN a ELSE b

\* The counter, and the commit.
Commit(i) ==
  /\ job[i].at = "count"
  /\ trades' = trades \cup job[i].trades
  /\ papers' = papers \cup job[i].papers
  /\ lists' = lists \cup job[i].lists
  /\ count' = Larger(count, OldCount)
  /\ imported' = TRUE /\ removed' = removed \ job[i].lists
  /\ Become(i, Idle)

\* It is killed, or a row it inserts turns out to be there by now.
Die(i) == job[i].at # "idle" /\ Fail(i)

Written(column) == UNION {job[i][column] : i \in Importers}

\* The user opens a position, which the index may refuse, and closes one.
OpenTrade(key) ==
  /\ NewId \notin IdsOf(trades)
  /\ key \notin ActiveKeys(trades \cup Written("trades"))
  /\ trades' = trades \cup {[id |-> NewId, key |-> key, active |-> TRUE]}
  /\ UNCHANGED <<papers, lists, count, job, imported, removed>>
CloseTrade(t) ==
  /\ t.active
  /\ trades' = (trades \ {t}) \cup {[t EXCEPT !.active = FALSE]}
  /\ UNCHANGED <<papers, lists, count, job, imported, removed>>

\* WatchlistRepository.add and remove.
AddTo(item) ==
  /\ item \notin lists \cup Written("lists")
  /\ lists' = lists \cup {item} /\ removed' = removed \ {item}
  /\ UNCHANGED <<trades, papers, count, job, imported>>
RemoveFrom(item) ==
  /\ item \in lists
  /\ lists' = lists \ {item} /\ removed' = removed \cup {item}
  /\ UNCHANGED <<trades, papers, count, job, imported>>

\* try_acquire counts a call of the day.
CountCall ==
  /\ count < MaxCount
  /\ count' = IF count = Absent THEN 1 ELSE count + 1
  /\ UNCHANGED <<trades, papers, lists, job, imported, removed>>

Init ==
  /\ trades = {} /\ papers = {} /\ lists = {} /\ count = Absent
  /\ job = [i \in Importers |-> Idle]
  /\ imported = FALSE /\ removed = {}

Next ==
  \/ \E i \in Importers : Begin(i) \/ InsertTrades(i) \/ InsertPapers(i) \/ InsertLists(i)
                            \/ Commit(i) \/ Die(i)
  \/ \E key \in {t.key : t \in OldTrades} : OpenTrade(key)
  \/ \E t \in trades : CloseTrade(t)
  \/ \E item \in OldLists : AddTo(item) \/ RemoveFrom(item)
  \/ CountCall

Spec == Init /\ [][Next]_vars
-----------------------------------------------------------------------------
TypeOK ==
  /\ Cardinality(IdsOf(trades)) = Cardinality(trades)
  /\ \A s, t \in trades : s.active /\ t.active /\ s.key = t.key => s = t
  /\ count \in {Absent} \cup 0..MaxCount

Imports == imported' /\ \E i \in Importers : job[i].at = "count" /\ job'[i] = Idle
Moves == <<trades, papers, lists, count>> # <<trades, papers, lists, count>>'

\* An import takes all of the files over or nothing, but for tickers removed
\* under its hands, and changes nothing that was in the database
\* (migrate_legacy_data.py:64).
ImportsAllOrNothing ==
  [][Imports /\ Moves =>
       /\ IdsOf(OldTrades) \subseteq IdsOf(trades') /\ trades \subseteq trades'
       /\ {p.id : p \in OldPapers} = papers'
       /\ lists \subseteq lists' /\ OldLists \subseteq lists' \cup removed
       /\ count' >= OldCount /\ count' >= count]_vars

\* It "can be rerun safely" (docs/nuc-deployment.md:52): run again, it brings
\* nothing back or in but the tickers the user has removed since.
RerunChangesNothing ==
  [][imported /\ Imports =>
       /\ trades' = trades /\ papers' = papers /\ count' = count
       /\ lists' \ lists \subseteq removed]_vars
=============================================================================
