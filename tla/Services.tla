------------------------------ MODULE Services ------------------------------
(* The services around the radar, each small and each on its own: what      *)
(* they share with the rest of the system is one call or one table.  They   *)
(* are taken together: a behaviour is one of one service, chosen at its     *)
(* start, while the others stand still.  RateLimit is extended, the others  *)
(* are instances; Callers are the callers, readers, requests, workers,      *)
(* sessions, threads and imports that meet.                                 *)
EXTENDS RateLimit, Sequences

CONSTANTS
  None,
  LastSnap, Width, FrameTTL, MaxStores, StoreTime,             \* MarketData
  RowTTL, TableTTL, LookupTime,                                \* ApiLookup
  MaxFailures, Lockout, MaxWait, LastMinute, MaxTries,         \* LoginLockout
  Interval, MaxAge, LeaseTime,                                 \* WorkerLease
  Prices, Levels, MaxStreams,                                  \* LiveFeed
  Horizon, JournalBars, Propositions, MaxDay, MaxRows,         \* Journal
  TradeIds, Owners, Positions, Readouts, Spread, Alone,        \* SqliteBook of the
  MarketPrices, BookTime, SharedPrices, SharedTime,            \*   thread Alone, and of all
  HistoryBars, Advice, MinHistory, Spacing, MaxBars, Picks,    \* BackTest
  Ideas, IsManaged, EndedRows, MaxTrades,                      \* TradeStats
  OldTrades, OldPapers, OldLists, OldCount, NewId, MaxCount,   \* LegacyImport
  Frames, TTL, OpenAt, RangeEnd, WindowEnd, CloseAt, LastTick, \* TabRadar
  RunTTL, Cadence, Views, Failing

VARIABLES
  focus,
  clockMD, feed, rowsMD, stores, reader, everStored, raced,
  clockAL, known, entry, asker, said,
  minute, failures, lockedUntil, login, tried,
  clockWL, process, stop, linked, holder, ghost, beat,
  streams, elapsed, price, quote, prev, plan, told, trail,
  nowJO, tape, rowsJO, task,
  trades1, now1, call1,
  trades2, now2, call2,
  history,
  ended,
  tradesLI, papers, lists, count, job, imported, removed,
  clockTR, stored, run, failed, tracked, held, radar, range, marked

MD == INSTANCE MarketData
        WITH Readers <- Callers, TTL <- FrameTTL, MaxTime <- StoreTime,
             clock <- clockMD, rows <- rowsMD

AL == INSTANCE ApiLookup WITH Askers <- Callers, MaxTime <- LookupTime, clock <- clockAL

LL == INSTANCE LoginLockout WITH Logins <- Callers

WL == INSTANCE WorkerLease WITH Workers <- Callers, MaxTime <- LeaseTime, clock <- clockWL

LF == INSTANCE LiveFeed

JO == INSTANCE Journal
        WITH Bars <- JournalBars, Plans <- Propositions, Sessions <- Callers,
             now <- nowJO, rows <- rowsJO

\* The file of trades under one thread, and under several.
S1 == INSTANCE SqliteBook
        WITH Plans <- Positions, Threads <- {Alone}, MaxTime <- BookTime,
             trades <- trades1, now <- now1, call <- call1
S2 == INSTANCE SqliteBook
        WITH Plans <- Positions, Threads <- Callers, MaxTime <- SharedTime,
             MarketPrices <- SharedPrices, trades <- trades2, now <- now2, call <- call2

BT == INSTANCE BackTest WITH Bars <- HistoryBars

TS == INSTANCE TradeStats WITH Rows <- EndedRows, trades <- ended

LI == INSTANCE LegacyImport WITH Importers <- Callers, trades <- tradesLI

TR == INSTANCE TabRadar WITH clock <- clockTR

md == <<clockMD, feed, rowsMD, stores, reader, everStored, raced>>
al == <<clockAL, known, entry, asker, said>>
ll == <<minute, failures, lockedUntil, login, tried>>
wl == <<clockWL, process, stop, linked, holder, ghost, beat>>
lf == <<streams, elapsed, price, quote, prev, plan, told, trail>>
jo == <<nowJO, tape, rowsJO, task>>
s1 == <<trades1, now1, call1>>
s2 == <<trades2, now2, call2>>
bt == <<history>>
ts == <<ended>>
li == <<tradesLI, papers, lists, count, job, imported, removed>>
tr == <<clockTR, stored, run, failed, tracked, held, radar, range, marked>>

ASSUME BoundsAreSound ==
  /\ CapAssumption /\ IsFiniteSet(Callers) /\ None \notin Callers
  /\ MD!WindowAssumption /\ AL!AgesAssumption /\ LL!LockoutAssumption /\ WL!HeartbeatAssumption
  /\ LF!PricesAssumption /\ JO!HorizonAssumption /\ JO!JournalAssumption
  /\ S1!BookAssumption /\ LI!FilesAssumption
  /\ TR!ClockAssumption /\ TR!CadenceAssumption /\ TR!TierAssumption /\ TR!QuoteAssumption

Foci == {"rl", "md", "al", "ll", "wl", "lf", "jo", "s1", "s2",
         "bt", "ts", "li", "tr"}

\* Bound: the more days there are, the fewer rows.
FewRowsOrDays == Len(rowsJO) + nowJO \div 2 <= MaxDay + 1

\* A service that stands still starts in one state.
ServicesInit ==
  /\ focus \in Foci
  /\ Init /\ MD!Init /\ AL!Init /\ LL!Init /\ WL!Init /\ LF!Init /\ JO!Init /\ S1!Init /\ S2!Init
  /\ BT!Init /\ TS!Init /\ LI!Init /\ TR!Init
  /\ focus # "rl" => file.count = 0
  /\ focus \notin {"rl", "al"} => ~database
  /\ focus # "lf" => price = CHOOSE p \in Prices : TRUE

ServicesNext ==
  /\ UNCHANGED focus
  /\ \/ focus = "rl" /\ Next
          /\ UNCHANGED <<md, al, ll, wl, lf, jo, s1, s2, bt, ts, li, tr>>
     \/ focus = "md" /\ MD!Next
          /\ UNCHANGED <<vars, al, ll, wl, lf, jo, s1, s2, bt, ts, li, tr>>
     \/ focus = "al" /\ AL!Next
          /\ UNCHANGED <<vars, md, ll, wl, lf, jo, s1, s2, bt, ts, li, tr>>
     \/ focus = "ll" /\ LL!Next
          /\ UNCHANGED <<vars, md, al, wl, lf, jo, s1, s2, bt, ts, li, tr>>
     \/ focus = "wl" /\ WL!Next
          /\ UNCHANGED <<vars, md, al, ll, lf, jo, s1, s2, bt, ts, li, tr>>
     \/ focus = "lf" /\ LF!Next
          /\ UNCHANGED <<vars, md, al, ll, wl, jo, s1, s2, bt, ts, li, tr>>
     \/ focus = "jo" /\ JO!Next /\ FewRowsOrDays'
          /\ UNCHANGED <<vars, md, al, ll, wl, lf, s1, s2, bt, ts, li, tr>>
     \/ focus = "s1" /\ S1!Next
          /\ UNCHANGED <<vars, md, al, ll, wl, lf, jo, s2, bt, ts, li, tr>>
     \/ focus = "s2" /\ S2!Next
          /\ UNCHANGED <<vars, md, al, ll, wl, lf, jo, s1, bt, ts, li, tr>>
     \/ focus = "bt" /\ BT!Next
          /\ UNCHANGED <<vars, md, al, ll, wl, lf, jo, s1, s2, ts, li, tr>>
     \/ focus = "ts" /\ TS!Next
          /\ UNCHANGED <<vars, md, al, ll, wl, lf, jo, s1, s2, bt, li, tr>>
     \/ focus = "li" /\ LI!Next
          /\ UNCHANGED <<vars, md, al, ll, wl, lf, jo, s1, s2, bt, ts, tr>>
     \/ focus = "tr" /\ TR!Next
          /\ UNCHANGED <<vars, md, al, ll, wl, lf, jo, s1, s2, bt, ts, li>>

\* The fairness each service states, of the one that moves.
ServicesFairness ==
  /\ \A c \in Callers : WF_vars(focus = "rl" /\ Step(c))
  /\ \A r \in Callers : /\ WF_md(focus = "md" /\ MD!Work(r))
                     /\ WF_md(focus = "md" /\ MD!OutOfStores(r))
  /\ \A w \in Callers : WF_wl(focus = "wl" /\ WL!Start(w))
  /\ WF_wl(focus = "wl" /\ WL!Reap)
  /\ \A i \in 1..MaxStreams : WF_lf(focus = "lf" /\ LF!ThreadRuns(i))
  /\ WF_lf(focus = "lf" /\ LF!MidFrame)

servicesVars == <<focus, vars, md, al, ll, wl, lf, jo, s1, s2, bt, ts, li, tr>>

ServicesSpec ==
  /\ ServicesInit
  /\ [][ServicesNext]_servicesVars
  /\ ServicesFairness
-----------------------------------------------------------------------------
ServicesTypeOK ==
  /\ TypeOK /\ MD!TypeOK /\ AL!TypeOK /\ LL!TypeOK /\ WL!TypeOK /\ LF!TypeOK /\ JO!TypeOK
  /\ LI!TypeOK /\ TR!TypeOK

\* What the caches serve: frames of one whole window, an error only where there
\* is nothing to serve (ohlcv.py:58, providers.py:36), a "nothing" of Finnhub
\* no older than the cache's time (finnhub.py next_earnings), a gap over one
\* night (app.py:811).
CachesAreHonest ==
  /\ MD!ServesAWholeWindow /\ MD!RaisesOnlyWithoutCache
  /\ AL!NothingIsRecent
  /\ TR!GapIsOverOneNight

\* Wrong passwords are rationed whatever runs in parallel (auth.py:99).
GuessesAreRationed == LL!GuessesAreRationed

\* Two workers only after a lost connection; a worker that was not asked to
\* stop never looks ill (radar_worker.py:532, 109); a tab marks a position that
\* is held with a fresh print (app.py:756).
RadarIsAttended == WL!SecondOnlyAfterALoss /\ WL!OnlyTheStoppedLookIll /\ TR!HeldIsWatched

\* The live feed reports no crossing that was not traded (app.py:2331).
EventsAreTraded == LF!EventsAreTraded

\* The journal's verdicts are those of the reference on the bars that were read,
\* and the report card counts every row (papertrade.py:77, 182).  The back-test
\* does not hold a waiting order against the score, its fill rules are one
\* (backtest.py:42, 299), and an outcome of the past stays when the history grows
\* (backtest.py:114).  The statistics of both books say the same, their
\* break-downs add up, and the trades of one idea count once (store.py:849, 870).
JudgementsAreSound ==
  /\ [](JO!JudgesLikeTheReference /\ JO!ReportCardIsWhole)
  /\ [](BT!NoVerdictOnWaitingOrders /\ BT!FillRulesAgree /\ BT!SummaryIsConsistent)
  /\ [](TS!TwoBooksAgree /\ TS!BreakdownsAddUp)
  /\ BT!DecidedStaysDecided /\ TS!OneVotePerIdea

\* What is settled changes only behind an overlapped call's back: a final verdict
\* of the journal (papertrade.py:145), a closed trade of the SQLite book
\* (store.py:593), the bars of a stored window (ohlcv.py:58).  What comes again
\* counts once: an alert of the day, unless it is the worker's (paper_trades.py:30),
\* an import that is run again or breaks off (migrate_legacy_data.py:64).
SettledOnce ==
  /\ JO!FinalYieldsOnlyToAnOlderReading /\ []JO!OnlyTheWorkerDoubles
  /\ S2!FinalUnlessOverlapped
  /\ MD!LoneStoreReplaces
  /\ LI!ImportsAllOrNothing /\ LI!RerunChangesNothing

\* Whom somebody waits for: an acquire its token and its count, a fetch its
\* frame, the radar a worker, an elapsed live mode the end of its stream.  What
\* stands still waits for nothing.
Waits(c) ==
  \/ caller[c].at \in Waiting
  \/ reader[c].at \notin MD!Ends \cup {"idle"}
  \/ focus = "wl" /\ \A w \in Callers : ~WL!Running(w)
  \/ elapsed /\ streams[LF!Mine].stage # "over"

\* Every wait ends (ratelimit.py:64, providers.py:36, radar_worker.py:510,
\* app.py:2383), and that of a locked out owner within the lockout (auth.py:99).
WaitsEnd ==
  /\ \A c \in Callers : Waits(c) ~> ~Waits(c)
  /\ LL!OwnerComesBack

\* One thread of the SQLite book is TradeBook (store.py, trades.py).
ImplementsTradeBook == S1!ImplementsTradeBook
=============================================================================
