# TLA+ specifications of stock-graph-analyzer

The application analyses tickers, tracks some of them on a "swing radar", and
keeps a virtual portfolio in which the user and a family of bots trade on
paper. It is a Streamlit app (`app.py`, many browser sessions in one process)
and a background worker (`stockanalyzer/radar_worker.py`) over one PostgreSQL
database, or without a database over SQLite files. These modules specify the
parts whose correctness depends on state and on the order of events, and the
decisions whose correctness depends on many guards at once.

    tlc -workers 2 -config TradeExits.cfg MCTradeBook      # a model-checking run
    tlapm TradeBookProofs.tla                              # a proof

## 1. Inventory

| Component | State | Operations | Interacts with |
|---|---|---|---|
| Trade book: `virtualbook.py`, `db/repositories/trades.py`, `manage.py` | `trades`, `trade_events` | open, close, mark, manage, statistics | tabs, worker, portfolio panel |
| SQLite book: `data/store.py` | `trades.db` | the same, each a read and then a write | app without a database |
| Radar worker: `radar_worker.py` | lease, heartbeat file, one transaction per radar | cycle: list assignments, analyse, write phase | trade book, journal, watch items, users |
| Radar tabs: `app._radar_body` | due times and cache in the session, opening range of the day | claim, record, bots, manage, mark, a transaction each | the same rows as the worker |
| Radar assignments: `db/repositories/swingwatch.py` | `swing_watch_items` with `last_notice_level` | add, remove, claim, lock | tabs, worker |
| Journal: `papertrade.py`, `db/repositories/paper_trades.py` | `paper_trades` | record, evaluate, report card | tabs, worker |
| Accounts: `auth.py`, `user_management.py`, login gate in `app.py` | `users`, `admin_audit_events`, the browser's session state | log in, change password, create, enable, disable, reset | everything owned by a user |
| Login lockout: `auth.authenticate` | `failed_login_count`, `locked_until` | wrong and right passwords, resets | accounts |
| Rate limits: `data/ratelimit.py`, `db/repositories/rate_limits.py` | token buckets, daily counters, a file | acquire | providers |
| Market data: `data/providers.py`, `data/cache.py`, `db/repositories/ohlcv.py`, `api_cache.py` | bars, cached payloads | fetch, store, prune, look up | pipeline, pages |
| Analysis: `pipeline.py`, `analysis/` | none | frames, quote, previous close, indicators | tabs, worker |
| Realtime: `data/realtime.py`, `live_events.py`, live frames of `app.py` | tick buffer, last state, trail of the session | start, stop, callbacks, diff | live panel |
| Swing plan: `explain/swing.py`, `explain/emerging.py`, `strategy.py` | none | levels, geometry, setup, vetoes, score, GO gate, emerging read | pages, radar, swing bots |
| Bots: `app._run_bots`, `radar_worker.run_automatic_bots` and their reversal twins | a position per bot and name | open when the rule matches | plan, signals, trade book |
| Day-trading signals: `analysis/orb.py`, `reversal.py`, `daycard.py`, `session.py` | none | opening range, gap-and-go, day card, reversal | bots |
| Back-tests: `backtest.py`, `daytrade_backtest.py` | none | walk-forward of the score, replay of a day | plan, signals, journal's rules |
| Import: `scripts/migrate_legacy_data.py`; watchlist | trades, journal, ticker lists, counters | import in one transaction; add, remove | the running application |
| Recommendation, verdicts, sentiment, charts, vision, history page | none or read only | pure computation, drawing | pages |
| Configuration, migrations, scripts | files | start-up, backup, restore | operators |

What is hard in it:

* *Two writers of one radar.* Every call of a tab is its own transaction; the
  worker does everything in one. They race for the same notice, the same trade
  keys and the same row locks, and either can die at any statement.
* *A row's long life.* An order is armed, breaks out, falls back, fills, is
  trailed, is closed by a stop, a target, a clock, a Friday, a button; each
  call sees one price and no history beyond the columns of the row.
* *Administrators acting on each other* between the page and the commit.
* *A plan of many guards.* Whether a bot may buy is decided by the geometry, six
  vetoes, a score with a cap, a second score that replaces it for new listings,
  and the bot's own rule; no one of them is enough, and all compute with
  fractions, roundings and thresholds.
* *Clocks and frames of different age.* A decision compares a phase of the
  market, a frame from a cache, a live quote and a level of the day, each taken
  at another time.
* *Counters and caches* shared by threads and processes, read before a wait and
  written after it.
* *The same rule written twice*: for PostgreSQL and SQLite, for the live radar
  and the replay, for the journal and the back-test.

`PROJECT.json` lists each of these at its line under `hazards`, with the
properties that would catch it going wrong.

## 2. What makes each component correct

* Trade book: one active row per trader; a closed row is final; cancelled means
  never filled; a fill comes after its breakout; the stop only rises and the
  log explains it; breakeven and trail are earned; breakeven does not lose; the
  holding period starts at the fill. The SQLite book does the same, as long as
  its calls do not overlap; the two agree on every statistic.
* Radar: what the worker writes belongs to an owner who still has it; one
  position per trader whatever the race; a claimed notice reaches the journal;
  a write phase ends; a position that is held is watched; a worker is alone and
  a dead one is replaced.
* Accounts: an administrator who can log in is left; who was cut off stays out;
  the audit log and the accounts agree; only active administrators act;
  password guesses are rationed, and the owner comes back.
* Swing plan: stop, entry and target are in order; the target is within reach and
  no level is in its way; no bot holds a blown-off or distributed name; what is
  held was worth its risk; a name with little history is never sure of itself.
* Day-trading bots: nothing is opened in the first fifteen minutes, and the
  gap trade uses the whole opening range of the day it trades; the replay decides
  as the radar would, without knowledge of what comes later.
* Journal and back-test: a verdict is what a reader of the bars would say, it
  stays, and the report card counts everything once.
* Rate limits: a cap is a cap. Caches: a frame that is served has one
  whole window; an error is raised only where nothing is stored; "nothing" is not kept
  longer than the cache's time.
* Live feed: no event of a move that did not happen; a stopped stream stops.
* Import: all or nothing, and once.

## 3. Modules

| Module | Models | Abstraction |
|---|---|---|
| `TradeBook` | the rows and the five calls that change them | a call is a step: it locks every row it reads. A price is a number of ticks, a time a number of days, an intraday frame one of `Readouts` |
| `SqliteBook` | the calls on the SQLite file as a read and a write | what a row becomes is `TradeBook`'s |
| `TradeStats` | statistics, algorithm correctness, managed against fixed, losing patterns of both books | results in hundredths of a percent |
| `RadarTxn` | one radar, the worker and the tabs, statement by statement, PostgreSQL's locks and deadlock detector | a row is its trader's active count; a bot's rule is a choice; what a mark closes is a choice |
| `WorkerLease` | the worker's processes: lease, heartbeat, stop, crash, restart | a cycle is its begin and its end |
| `TickerAnalysis`, `TabRadar` | an analysis as the ages of its parts; due times, tiers, shared analyses and the opening range of a tab | a print is known by its time, a close by its day; a tick stands for some minutes |
| `UserAdmin` | accounts, sessions, the administrator's operations statement by statement | a password is a number; the lockout is in `LoginLockout` |
| `LoginLockout` | one account, overlapping logins, each with the clock it read | a password is right or wrong |
| `PlanGeometry`, `SwingScore`, `SwingPlan`, `SwingRadar` | the plan and the bots that trade it | integers: prices in 1/100 of a cent, fractions in basis points; an indicator is what the checklist asks of it |
| `DaySignals`, `DayBots`, `DayReplay` | opening range, gap-and-go, day card, reversal; the tab and the worker that run them; the replay of the same day | minutes of a weekday, cents |
| `Judging`, `Journal`, `BackTest` | the verdict on a proposition; the journal; the walk-forward test | a day is two halves; what is advised is a function of the last bar |
| `RateLimit`, `CallBudget` | acquire, statement by statement; what a cap promises | one provider; seconds are tokens |
| `MarketData`, `ApiLookup` | one frame and everyone who fetches it; a lookup behind its cache | a frame is a window of bars of one snapshot |
| `LiveFeed` | streams, frames of the page, crossing events | the market moves a tick at a time |
| `LegacyImport` | the import beside the running application, and the ticker lists | rows by id and key |
| `Services` | the twelve modules of the services side by side, one of which moves | see section 4 |
| `MCTradeBook`, `MCRadarTxn`, `MCUserAdmin`, `MCSwingRadar`, `MCServices`, `MCDayBots` | instances for TLC | |
| `TradeBookProofs`, `RadarTxnProofs`, `UserAdminProofs`, `PlanGeometryProofs`, `SwingRadarProofs`, `DayBotsProofs`, `JudgingProofs`, `ServicesProofs` | theorems | |

`map` in `PROJECT.json` gives the lines behind every definition. A definition
that stands before another and is marked as its mutant in a comment is that
definition with a plausible bug; no specification uses it.

### TradeBook, SqliteBook, TradeStats

`trades[id]` is a row or `None`; `now` is the clock. `Open` is
`virtualbook.open_position` followed by the INSERT, which the partial unique
index may refuse (`ActiveFor`). `Close`, `Mark`, `Manage` are the repository
methods of those names. `Mark` and `Manage` rewrite each row they select with
`MarkRow` and `ManageRow`, which follow the methods' branches in order.
`Tighten` and `TrailOrBreakeven` are the two blocks of `assess_position`; both
are computed from the row as it was read and then applied one after the other,
as in the loop over `actions`. `mfe_pct` is represented by the best price it
was computed from. The chandelier level, the ATR distance and the trend change
come with the readout, because they are read off data frames.

`PlanAssumption` (stop < entry < target) is what every opener guarantees: the
form refuses anything else, the two signals check it, swing plans are built so.

`SqliteBook` keeps `call[t]`, what a thread has read and made of it, between the
SELECT and the UPDATE of `store.py`; the rows it writes are found by id alone.
With one thread `now`, `trades` are those of a `TradeBook` and every call is one
of its calls (`ImplementsTradeBook`). `TradeStats` computes each statistic twice,
oldest row first as SQLite does and newest first as PostgreSQL does.

### RadarTxn, WorkerLease, TickerAnalysis, TabRadar

`pc[a]` is the statement actor `a` is about to run. The worker takes the user,
then the item, claims, runs the bots, manages, marks and commits, keeping every
lock (`radar_worker.process_analysis`); its uncommitted work is in `claim`,
`ins`, `del`. A tab does the same things, each in a transaction of its own, so
its effects are visible at once; only an INSERT takes two steps (index entry,
then the foreign key's KEY SHARE on the user), because it can wait in between.
`Victim` is the deadlock detector. `WorkerFails` and `TabDies` are crashes,
exceptions, lost connections, and Streamlit reruns.

The statements of PostgreSQL are external: they are modelled from how the code
uses them, at READ COMMITTED, the default the code does not change.

`WorkerLease` is what is around a cycle: `holder` has the advisory lock, through
a connection (`linked`) the worker does not look at again; `ghost` is a session
whose process is gone and that the server has not found yet.

`TickerAnalysis` says of an analysis how old its frames, its quote and its
previous close are, from the times to live of the cache. `TabRadar` runs it for
one ticker of a tab: the due time of its tier, `_run_quiet`'s cache that all tabs
share, the position that is managed and marked in between, and the opening range
that is kept for the day.

### UserAdmin, LoginLockout

`op[s]`, `pc[s]` are the operation a session is in and its next statement;
`sess[s]` is what `st.session_state` holds. `Start` happens on a page rendered
for a valid session; everything after it may run when the session is no longer
valid. `Write` is the flushed statement on `users`, which only its own transaction
sees, `Commit` the audit row and the commit of both; between the two the
transaction can fail (`Fail`), and a second `INSERT` of the same name waits. `revoked` is a history variable: the sessions cut off since they logged
in. Not modelled: password lengths, and an administrator who
resets his own password while it is being changed in another session (the row
read by `_actor` is then reused by SQLAlchemy's identity map).

In `LoginLockout` a login reads the clock, waits for the row of the user and
decides with the time it read. `tried` is a history variable: when wrong
passwords were tried since the owner last proved himself.

### PlanGeometry, SwingScore, SwingPlan, SwingRadar

One chain of modules, each extending the one before. The first three are
operators without state, named after the functions they model: `LongGeometry`
and `ShortGeometry` are `_long_geometry` and `_short_geometry` branch by branch
(the ladder's loop with its `continue` and early returns is the least rung that
decides), `NearestAbove` and `NearestBelow` are what the walk of `_cluster` keeps,
a level being kept unless it merges with one kept before it (`WalksAgree` in
`MCSwingRadar` compares them with the walk itself), `Checklist` is the rows of
`_swing_score` that carry weight, `Gate` and `WorthAnOrder` are `go` and
`actionable`, `ApplyEmerging` is `_apply_emerging`, `RunBots` is `_run_bots`.

`SwingRadar` gives them state: `scene`, what the analysis of the name found;
`seen`, the last plan and who asked for it; `held`, what each swing bot holds.
`Page` is a plan built for a page, either side and pace, with all the context
there is; it starts from a state without a plan, and `Leave` ends it. `Cycle` is
a radar cycle: the plan of the fast pace without earnings date, offering price
and VWAP (`RadarView`, the context `build_radar_plan` passes), and the three
rules of `_run_bots`, tried for every bot that holds nothing. `Release` is any
way the book closes a position. The Gap-and-Go and reversal bots take nothing
from the plan; they are in `DayBots`.

What is abstracted: floating-point arithmetic is done in integers and rounded
down to the unit, comparisons are cross-multiplied and exact. Prices are a
dollar or more, and under about 18 dollars so that TLC's 32-bit arithmetic does
not overflow; the code scales with the price. The pages always have the other
frames (`all_reports`) and an investor conviction; both callers pass them. Rows
of weight zero, guidance and reasons are wording.

### DaySignals, DayReplay, DayBots

`DaySignals` has the functions of bars: `MarketPhase` (`session.py`),
`OpeningRange` and `GapAndGo` (`orb.py`), `DayCard` and the reversal signal. The
bars of a session or of a range are the set of their indices in the frame.
`DayReplay` is `daytrade_backtest.py` over one day. `DayBots` gives them a day:
`tape`, the bars so far; `look`, a cycle of the worker or a body of the tab that
has fetched its frame and not yet run its bots; `range`, the opening range the
tab keeps; `asked`, what was opened last. A frame may be `Lags` bars behind, the
worker's clock is that of the start of its cycle, the tab's phase that of before
its fetch.

### Judging, Journal, BackTest

`JudgeOutcome` is `judge_outcome` bar by bar, `Reference` what it is compared
with: the first bar that ends the proposition, said without a loop.
`Journal` records with the worker's duplicate rule (`source_id`) and the tab's
(24 hours), and evaluates in two steps, listing and writing, by several sessions
whose last bar may still be forming. `BackTest` picks points of a growing history
and judges each with the rules of `backtest.py`.

### RateLimit, CallBudget, MarketData, ApiLookup, LiveFeed, LegacyImport

`RateLimit` is `acquire` in both forms: asking under the lock, waiting for a token
without it, counting in a table that is saved to a file, or in a row of the
database by UPDATE, INSERT ... ON CONFLICT DO NOTHING, UPDATE. `MarketData` is `fetch_cached`
over `load`, `store` and `prune`: a store deletes the rows its first statement
saw and upserts its own. A store that fails is followed by the stored frame; a
read that fails (`ReadFails`) is not: `cache.load` (providers.py:44) stands outside
the `try` and `load_stale` (:54) in its handler, so with the database gone
`fetch_cached` raises although a frame is stored, against its docstring's "only
raise if there is no cache at all". `RaisesOnlyWithoutCache` speaks of fetches
that could read. `ApiLookup` is `next_earnings` and `company_info` over
`put` and `get`. `LiveFeed` has the thread of each stream (`streams`), the frames
that read its last tick and compare it with the price of the frame before. A
stream that a restart replaces before its socket exists is not stopped and runs
until its connection ends, in the code and in the model; `WaitsEnd` speaks of the
session's own stream only.
`LegacyImport` is the one transaction of the import beside users who trade and
edit their lists.

## 4. Runs

| Run | Question | Bounds | States |
|---|---|---|---|
| `TradeExits` | exits of one position | 1 row, 3 plans, 7 prices, 5 readouts, 4 days | 155,000 |
| `TradeRows` | rows meeting in the index and in a mark | 2 rows, 2 traders, 3 prices, 4 days | 136,000 |
| `RadarSafety` | safety of the two writers | 1 worker, 2 tabs, 2 bots (1 managed), 1 level | 198,000 |
| `RadarProgress` | does a write phase end | 1 worker, 1 tab, 2 bots | 32,000 |
| `UserAdmin` | accounts | 2 administrators, 1 user, 2 sessions, 2 audit rows, 1 password change | 228,000 |
| `SwingRadar` | every plan, and what the bots hold | 1,298 analyses, 4 prices, 2 sides, 2 paces | 32,000 |
| `DayBots` | what the day-trading bots open and what the replay says of the same day | 5 bars of 4 shapes, frames up to the whole day behind | 159,000 |
| `Services` | the thirteen services around them, each alone | see below | 270,000 |
| `TradeProtected`, `RadarJournal`, `RadarOpenRace`, `SwingThinHistory` | see section 6 | as above | |

`Services` checks twelve modules in one run, `SqliteBook` twice: a behaviour
moves one service (`focus`) while the others stand still. What they share with
the rest is a call or a table, so nothing is lost by taking them apart. Each property joins what
answers one question:

* `KeepsBudget`: `RateLimit` implements `CallBudget`.
* `CachesAreHonest`: a frame that is served has one window of the provider whole; an error is
  raised only without a cache or with one that cannot be read; a lookup's "nothing" is as recent as the cache's
  time; the gap of the day spans one night.
* `GuessesAreRationed`: of one more wrong password than the limit, first and last
  are a lockout apart, less the longest wait for the row.
* `RadarIsAttended`: a second worker only after a lost connection; a worker that
  was not asked to stop never looks ill; a position that is held is marked with
  a recent print.
* `JudgementsAreSound`: verdicts are those of the reference; the report card is
  whole; the back-test holds no waiting order against the score, and its fill rules
  and counts agree; an outcome of the past stays when the history grows; the two
  books' statistics agree and add up, and an idea votes once.
* `SettledOnce`: a final verdict yields only to an evaluation that listed the row
  before; only the worker stores a second row of a day; a closed row of the SQLite
  book yields only to an overlapped call; a store that no other overlapped replaces
  the window; an import is all or nothing, and run
  again changes nothing but the tickers removed since.
* `EventsAreTraded`: a crossing the live feed reports was traded.
* `WaitsEnd`: an acquire, a fetch, an orphaned radar, an elapsed stream all come to
  their end, and a locked out owner is let in after the lockout.
* `ImplementsTradeBook`: the SQLite book under one thread is a `TradeBook`.

Why the bounds are enough. *TradeExits*: the prices reach 1R, 1.5R, 2R of a
managed plan, its stop and target and the levels between them, the readouts put
the trail under, at and over the stop, and four days are twice the expiry of a
one-day plan; a second row cannot matter, since marks and manages treat rows
independently (and the proofs do not depend on it). *TradeRows*: two rows are
the least that can meet in the index, and one can be closed and replaced while
the other lives. *RadarSafety*: a cycle of waits needs two actors and two
resources (two traders); with two tabs a third actor can sit in the cycle or
hold what neither can have. One level suffices because a notice compares only
with the stored level, and going down to 0 and up again is included.
*UserAdmin*: two disablings, or a disabling and an enabling, are the sequences
the properties speak of; the proofs lift all bounds. *SwingRadar*: the analyses
start from one ordinary name and vary what differs from it a family of fields at
a time: levels (none, one, far apart, three and more rungs, chains half a percent
apart) by volatility by overextension; signals by trend by volume by momentum;
the vetoes against each other; what was fetched or not; and the number and shape
of the bars of a new listing on both sides of every boundary (1, 3, 17, 18, 59,
60 bars; extended, sold into, fading, sinking). The prices lie on both sides of
the levels, so positions are opened at one and kept at another. GO and breakout
positions, long and short, of old and new listings all occur, and so do a
distribution read on an actionable plan and an overextended breakout that has to
be refused. A position of `bot-70` never occurs (section 6). *DayBots*: two bars
of the opening range, one after it, one at the end of the entry window and one
past it, each a gap that falls back, a break on volume, a target, or a fall
through the stop that reverses; both bots fire, live and in the replay. *Services*:
two callers, readers, requests, containers, sessions or importers are where they
meet; the limits are one or two so that they are reached and passed (a cap of
two with a bucket of one, a limit of two wrong passwords of four, a heartbeat of
one tick and an age of two); two windows of bars that overlap in a bar and two
stores of them; a day's bar forming and closed, and a horizon of two such days; a
history of six bars of four kinds; three closed trades of two ideas; a restarted
stream and prices on both sides of a level; a morning of five ticks, the opening
range ending in its middle.

`MaxTime`, `MaxAudit`, `MaxChanges`, `MaxTries`, `MaxStores` and their like bound
counters in guards; they exist for TLC only and the theorems hold for every value. A
trade book in which every row is closed and the clock has run out has nothing
left to do, nor has a service whose clock has, or a day after its last bar: those runs
do not check deadlock; the other runs do.

### Fairness

`FairSpec` of `RadarTxn` (used by `RadarProgress`) assumes
* strong fairness of each worker's statements: a lock a worker waits for may be
  taken and given back by tabs many times, but PostgreSQL queues waiters and
  wakes them in order, so a worker whose turn keeps coming gets it;
* weak fairness of a tab's statements: a statement that can run does run, the
  tab's script being an ordinary thread (a tab that dies rolls back);
* weak fairness of the deadlock detector, which every waiter runs after
  `deadlock_timeout`.
Nothing is assumed of the owner, the administrator, crashes or new tab runs.

The services assume weak fairness only, of what runs by itself: a thread inside an
acquire (`RateLimit!Step`) or a fetch (`MarketData!Work`); a container that
`compose.yaml` starts again whenever it is down (`WorkerLease!Start`) and a server
that finds dead sessions (`Reap`), but not a cycle, which may hang; the thread
of a stream (`LiveFeed!ThreadRuns`) and the page's timer (`MidFrame`). Nobody has to
call, and no clock has to tick.

### Refinements

`SqliteBook` implements `TradeBook` when one thread uses it: a read is a
stutter, the write is the call. With two threads it does not, and
`FinalUnlessOverlapped` says what is left. `RateLimit` implements `CallBudget`,
whose allowance is the cap with a database and the cap plus the other callers
without one; this one is also proved.

## 5. Proofs

`TradeBookProofs` proves every property of the passing `TradeBook` runs, for all
plans, prices, readouts, spreads, owners and numbers of rows. The inductive
invariant `IInv` says that every row satisfies `RowInv`: the checked properties
of a row plus `RowProtected` (a row whose log holds a breakeven move has its
stop at breakeven or better). `BreakevenNeverLoses` alone is not inductive: it
speaks of closed rows and the state before must say why the stop is high enough.
One lemma per rewriting function (`NewRowInv`, `FinishInv`, `ConfirmInv`,
`FillInv`, `MarkInv`, `ApplyInv`, `SeenInv`, `FlattenInv`, `ManageInv`) shows it
preserves `RowInv`; `StepShape` reduces the actions to those rewritings, and the
theorems follow. `OneActive` needs only that no rewriting makes a row active or
changes its owner or plan.

`RadarTxnProofs` proves every safety property of `RadarSafety`, for any number of
workers, tabs, bots and levels. The invariant says who holds what at each
statement: a worker past its first two has the user and the item and has found
both alive (`WorkersHold`); a tab holds neither and has no uncommitted work but
an insert (`TabsHold`); an uncommitted row has no committed one and no second
uncommitted one beside it, and a row is closed only by whoever has it locked
(`RowsAgree`). That a notice is lost only with its tab needs one more
fact, `RecorderInNoCycle`: a tab about to record waits for nothing, so the
deadlock detector cannot choose it.

`UserAdminProofs` proves every property of the `UserAdmin` run, for any number of
users and sessions: an administrator remains, revoked sessions stay out, only
active administrators turn accounts on or off, and the last entry of the audit
about an account says how it is. Its invariant: lock tables and program counters
agree; a session past `ReadActor` in an enable or disable holds the advisory
lock and its actor is still authorized, because every other such change needs
that lock (`TurnsGuarded`); a revoked session's revision is behind its user's
(`RevisionsBehind`). A flushed statement holds its row, and the name it inserts
is still free (`WritesPending`): a failure before the commit leaves neither change
nor audit row.

The first part of `ServicesProofs` proves the refinement of `CallBudget` by
`RateLimit`, for any cap, calendar and finite set of
callers. With a database the row of a day is never behind its grants nor over
the cap. Without one the file is not behind either, and what is granted and
what still waits together are at most the cap and all callers but one
(`WaitersFit`): the last to join found the count below the cap.

The rest of `ServicesProofs` is about all services at once. A step of `ServicesSpec` is a step
of one of them, so each has an invariant of its own (`MDInv`, `ALInv`, `LLInv`,
`WLInv`, `LFInv`, `JOInv`, `S1Inv`, `S2FInv`, `LIInv`, `TRInv`), and `ServicesInv`
is all of them together. For any number of callers, readers, containers, sessions and
importers, any times to live, limits and prices:
* `ServedIsHonest`. The table always holds one window of one snapshot whole
  (`MDTableIsWhole`), whatever else stores that overlap leave in it: a store
  deletes only what had begun before it, and upserts a window whole.
* `GuessesRationed`, `OwnerReturns`. The property speaks of guesses the columns no
  longer remember; the invariant says what they do: how many the count stands
  for, that the first of them came a lockout after the one before it
  (`GroupsAreApart`), and when the lock was set (`LockIsOfTheLast`).
* `RadarAttended`. Who runs on a standing connection is the holder, and no dead
  session is; a radar that is due is looked at before its tier's time is out.
* `EventsTraded`, `SettledStays`: what a reader is told of, and what may change a
  final row, a stored window or a finished import.
* `OneThreadIsTradeBook`: the refinement of `TradeBook` by the SQLite book. What a
  call makes of the rows it read is what the call of `TradeBook` makes of the same
  rows at its commit, since nobody else wrote in between.
* `JournalIsJudged`. A row's verdict holds of the bars that are closed, and what an
  evaluation has read are those and the last, which may still change (`JVInv`). The
  rest is about the judge: see `JudgingProofs`.
* `ServicesTypeCorrect`.

`JudgingProofs` proves what the two judges of propositions come to, for any number
of bars, any plan and any horizon: the loop of `judge_outcome` says what the
reference says (`JudgeFollowsReference`); `judge_close_fill` with the journal's
patience is the same judge (`CloseFillIsTheJournals`); more patience keeps every
fill (`PatienceKeepsFills`); a final verdict stays when more bars are known
(`DecidedStays`). The invariant of the loop (`Stands`) says after every bar which
one activated the proposition and which one ended it, or that none did.

`DayBotsProofs` proves every property of the `DayBots` run, for any bars of a
five-minute grid, any history that reached past the entry window, any lag of a
frame and any configurations. `BotsInv` says that the tape is a day of bars in
order, that a range that was kept from a frame that was not behind is whole
(`RangeOK`), and that a look holds the first bars of the market at a clock that is
not ahead (`LookOK`). That the range of the first fifteen minutes does not depend
on what comes after them, nor a verdict of the replay on the bars after it, are
lemmas about sets of indices and their least members.

`PlanGeometryProofs` proves the arithmetic of the plan. For every price of a
dollar or more, every sequence of walls above it, every budget and both paces, a
long plan that proposes a trade has stop < entry < target by any width up to a
cent that its stop and its budget are worth (`LongLevelsOrdered`); its target is
no further from the entry, its trigger no further from the price, than the budget
(`LongTargetInReach`); and an immediate one pays less than three times its risk,
because target and stop are multiples of the same volatility and the square root
of the days over the width of the stop is under three (`LongRewardBounded`). No
level the walls were made of is in its way, but for those that cluster with its
entry (`LongPathIsClear`). Short plans likewise. The argument is a case split over
the branches of the geometry and the rungs of the ladder; the lemmas bound
`Times`, which rounds down, from both sides, and say what a walk over the levels
keeps: of every level a kept one that is no further out and merges with it or is
it, and the kept ones in order.

`SwingRadarProofs` lifts that to plans and positions: the four invariants of the
`SwingRadar` run hold for every set of analyses, frames of bars and prices.
`SwingInv` says that `seen` is the plan of a view of the scene, and that every
position that is held was one a plan proposed (`HeldOK`); the rest is about one
plan. Its lemmas follow a plan through the modules: the score is a percentage
(`MatureScoreIsPercent`, `ReadIsPercent`), a stop and a budget are worth a cent
(`SizesAreWide`), the geometry's levels keep their order, their reach and their
pay when they are rounded to cents (`WidthKept`, `ReachKept`, `AimKept`), and the
emerging read takes GO, order and light back together (`ApplyFields`). The 3% a
trade moves survives the rounding only because entries are whole cents
(`AimKept`). Two things came out of the proof: with a volatility so small that a
stop is under a cent wide, stop and entry round to one price, so the theorems
assume stops of a cent (`StopsAreACentWide`); and the reach of a target has to be
measured with a cent's tolerance on the entry as well as on the distance.

Assumptions are the named assumptions of the modules: types of the constants, the
order of a plan's levels, `None` being different from the values it stands
beside, a heartbeat interval no longer than the age that is allowed, a history and
moments of bars as exchanges have them, bars that close between their low and
high, finite maps of levels, prices of a dollar or more, a 1M frame that lives no longer
than the opening range takes. Where a module is an
instance in `Services` its assumption is a part of `BoundsAreSound` there.

What a recursive function computes is proved by the least counterexample: the
library's induction takes an operator as a parameter, which these provers cannot
instantiate, but a set of naturals that is not empty has a least member
(`LeastExists`), and a function on which a recursive equation fails fails first
somewhere. That gives the walks (`WalkUp`), the sums (`SumHolds`) and the scans
over bars.

Model-checked only: `JudgementsAreSound` as a whole, of which the journal's part
and the lemmas about the judges are proved, but not the picks of the back-test and
the statistics; and liveness (`WorkerPhaseEnds`, the waits of `WaitsEnd`): fairness
and ENABLED are out of the proof system's reach.

## 6. Disagreements between the code and what is said of it

* `TradeProtected`: `manage.py` says breakeven at +1R, *then* trail. In
  `assess_position` breakeven is the `elif` of the trail: a position first seen
  at +1.5R or more, with nothing to trail to, keeps its initial stop.
* `RadarJournal`: `papertrade.py` says every notice is recorded. A tab claims
  and records in two transactions; dying between them loses the row for good.
  `NoticeMissingOnlyIfTabDied` shows that this is the only way.
* `RadarOpenRace`: `_open_position` says the race with the UI ends in the unique
  index. Under PostgreSQL the tab's INSERT waits for the users row the worker
  holds, so the race ends in a deadlock, and the worker may lose its whole
  phase; `WorkerNeverRefused` shows the index never refuses the worker.
* `SwingThinHistory`: `_longest_daily` says intraday frames do not count as
  history. It starts from the decision frame, which on the fast pace is the 5D
  frame of 30-minute bars: once a new listing has traded five days its 65 bars
  pass for history, and the demand read with its vetoes is skipped.

Seen while modelling, without a run of their own.

Trade book:

* The trail may be put at or above the current price (`manage.py:146`), so the
  mark of the same tick closes a winner; the header says a noisy bar never does.
* Close at market without a quote closes at the entry price and books zero
  (`app.py:1494`).
* "Closed - final" (`virtualbook.py:13`): in the SQLite book two calls that
  overlap both rewrite the row, and the later write wins.
* Statistics: of repeated rows of one cohort SQLite keeps the newest,
  PostgreSQL, which reads the newest first, the oldest; the score band of an
  idea depends on the order of its rows; a result of zero is a loss in the
  statistics and not a losing pattern.

Swing plan:

* `bot-70` is described as a bot that ignores the GO gate; its rule requires an
  immediate plan that is actionable and not GO, and an immediate plan is
  actionable exactly when it is GO. It never trades.
* An immediate plan never pays three times its risk (`LongRewardBounded`), so no
  plan is of "high" conviction, and the warning about rewards over four on
  countertrend setups is given only where no trade is proposed.
* `swing.py` says rows that cannot be computed never vanish. A frame that has
  too little history keeps its rows at half weight; a frame that was not
  fetched has none.
* The radar passes no earnings date, so its GO has no earnings guard.
* Levels are rounded to cents; under a dollar a stop and an entry can become one.

Day trading:

* The gap is measured from the first bar of the frame, which may be before the market,
  `orb.py:40` says session open, "first regular bar".
* A range taken from a frame that is behind is kept for the day; `app.py:798`
  says the range does not change after it is complete.
* The replay decides the bar labelled 11:30 inside the entry window, when that bar
  is whole the live radar is out of it. The replay's "baseline = the current live
  ORB" fills at the high of the range, compares volume with `>=` and takes the
  gap from the regular open; the live signal does none of these.
* If the frame is a day old, the opening range is yesterday's.
* The daily frame lives 15 minutes, as long as the opening range takes. In the
  first seconds after 9:45 an analysis shared from before can still measure the
  gap from the close of the day before yesterday, and until the frame expires
  the headline day move is yesterday's.
* A held ticker that was far from its levels is marked with an analysis of up to a
  minute ago, and not at all in a tick whose analysis fails or has no plan.

Journal and back-test:

* The forming daily bar is judged by its price of the moment as its close
  (`papertrade.py:80`).
* A breakout filled at a close beyond its target is judged a hit and counted as
  won, with a negative result.
* A thin-history name can reach a notice with a plan that proposes no trade and has
  its target at its entry (a wall within half a percent, `swing.py:365`); the first
  bar at that price is recorded as a win of nothing. The proof of `ReportCardIsWhole`
  found it.
* `backtest.py:293` calls its rule touch-fill and current; the rule is a fill
  at the close, and counterfactual B compares two identical rules.

Services:

* `next_earnings` says its answer is cached for a day; with a database it is
  kept for the default 30 minutes.
* An import aborts as a whole when the database has an active position of the same
  trader and ticker; one that is run again brings back tickers the user removed.

## 7. Plan

Done: every subsystem of the inventory that keeps state or decides a trade, the
two refinements, and the proofs above: every invariant of every passing run, and
every action property but one, is a theorem. What is left, in order of value:

1. The rest of `JudgementsAreSound`: the points and the summary of the back-test,
   and the statistics.
2. The order of several radars in one cycle of the worker, and what the later
   ones see of the earlier.
3. The dry run and the report of the import; Parquet files of the local cache.

## 8. Not modelled

Numeric indicators, the wording of explanations, charts, vision and sentiment
are pure computations on floating-point frames, images or text
without shared state; they reach the models as inputs. The history page reads
only. Providers are network I/O: that a
request fails or returns an old frame is a choice of the models that call them.
The vote of the verdicts is shown to the reader and decides nothing. Schema
upgrades run before the application serves anyone. Deployment scripts are
outside the program; note that `scripts/restore_db.sh` stops only the `app`
service before it restores, so a running worker writes into the database it
replaces.
