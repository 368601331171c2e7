------------------------------ MODULE TradeBook ------------------------------
(***************************************************************************)
(* The virtual paper-trading book: the rows of the trades and trade_events *)
(* tables, and the five calls that change them.  One action is one call of *)
(* TradeRepository (db/repositories/trades.py), entered through            *)
(* virtualbook.py; the exit rules of a managed row are those of manage.py. *)
(* A call holds FOR UPDATE locks on every row it reads, so here it is one  *)
(* step; how those locks interleave is the subject of module RadarTxn.     *)
(*                                                                         *)
(* A price is a whole number of the book's smallest tick (the code rounds  *)
(* to four decimals), a time is a number of days.                          *)
(***************************************************************************)
EXTENDS Integers, Sequences

CONSTANTS
  TradeIds,      \* identifiers virtualbook.open_position may draw
  Owners,        \* (user, ticker) pairs: what mark and manage are scoped to
  Plans,         \* what a trader ("me" or a bot) may open a position with
  MarketPrices,  \* prices a quote may show
  Readouts,      \* what the intraday frame may say (see ReadoutShape)
  Spread,        \* manage._SPREAD_PER_SHARE in ticks
  MaxTime,       \* bound on the clock
  None           \* Python's None

ConfirmPerMille == 2     \* _CONFIRM_MARGIN, 0.2% above the trigger
EmaBufferPerMille == 1   \* _EMA8_BUFFER, 0.1% under the EMA8

Price == Nat \ {0}
Level == Price \cup {None}

\* ema8, close: intraday_readout; chandelier: highest session close - 3 ATR;
\* gap: 0.6 ATR of the current price; flip: a confident bearish trend change.
ReadoutShape ==
  [ema8: Level, close: Level, chandelier: Level, gap: Nat, flip: BOOLEAN]

Traders == {p.trader : p \in Plans}

\* A long position: stop < entry < target.  The gap and reversal signals and
\* the manual form refuse anything else; swing plans are built that way.
PlanShape ==
  [trader: Traders, kind: {"immediate", "breakout_wait"}, entry: Price,
   stop: Price, target: Price, trigger: Level,
   horizon: Nat, managed: BOOLEAN, hold: BOOLEAN]

ASSUME PriceAssumption == MarketPrices \subseteq Price
ASSUME PlanAssumption ==
  /\ Plans \subseteq PlanShape
  /\ \A p \in Plans : p.stop < p.entry /\ p.entry < p.target
ASSUME ReadoutAssumption == Readouts \subseteq ReadoutShape
ASSUME BoundAssumption == Spread \in Nat /\ MaxTime \in Nat

VARIABLES
  trades,        \* trades[id]: the row with that id, or None
  now            \* time.time()

vars == <<trades, now>>

Active == {"pending", "open"}

MoveKinds == {"trend_test_tighten", "trail_stop", "move_stop_breakeven"}

Event == [kind: MoveKinds \cup {"weekend_flat"}, old: Nat, new: Nat \cup {None}]

Reasons == {"cancelled", "stop_hit", "target_hit", "expired", "weekend_flat", "manual"}

ASSUME NoneAssumption ==
  /\ None \notin Int
  /\ None \notin Reasons \cup MoveKinds

Row == [owner: Owners, plan: Plans,
        status: Active \cup {"closed"}, opened: Nat,
        activated: Nat \cup {None}, brokeOut: Nat \cup {None},
        stop: Nat, best: Nat, events: Seq(Event), moves: Nat,
        exit: Int \cup {None}, reason: Reasons \cup {None},
        closedAt: Nat \cup {None}]

Rows == {id \in TradeIds : trades[id] # None}

IsActive(id) == trades[id] # None /\ trades[id].status \in Active

-----------------------------------------------------------------------------
(* Opening: virtualbook.open_position builds the row, the partial unique   *)
(* index decides whether it is inserted.                                   *)

\* A breakout order waits for its trigger; anything else is live at once.
NewRow(o, p) ==
  LET waits == p.kind = "breakout_wait" /\ p.trigger # None
  IN  [owner |-> o, plan |-> p,
       status |-> IF waits THEN "pending" ELSE "open",
       opened |-> now,
       activated |-> IF waits THEN None ELSE now,
       brokeOut |-> None,
       stop |-> p.stop, best |-> p.entry, events |-> <<>>, moves |-> 0,
       exit |-> None, reason |-> None, closedAt |-> None]

\* Mutant: an index on the open rows only.
ActiveForOpenOnly(o, tr) ==
  {id \in TradeIds : /\ trades[id] # None
                     /\ trades[id].status = "open"
                     /\ trades[id].owner = o
                     /\ trades[id].plan.trader = tr}

\* uq_trade_active_owner_ticker_trader: rows of one owner and trader that are
\* open or pending.
ActiveFor(o, tr) ==
  {id \in TradeIds : /\ IsActive(id)
                     /\ trades[id].owner = o
                     /\ trades[id].plan.trader = tr}

Open(id, o, p) ==
  /\ trades[id] = None
  /\ ActiveFor(o, p.trader) = {}
  /\ trades' = [trades EXCEPT ![id] = NewRow(o, p)]
  /\ UNCHANGED now

-----------------------------------------------------------------------------
(* Closing and marking.                                                    *)

Finish(r, exit, why) ==
  [r EXCEPT !.status = "closed", !.reason = why, !.closedAt = now, !.exit = exit]

\* More than one and a half horizons since t, in days.
Elapsed(r, t) == 2 * (now - t) > 3 * r.plan.horizon

\* The price the panel closes a position at: the quote, or without one (px is
\* None) the position's own entry, a result of zero.
ExitPrice(r, px) == IF px = None THEN r.plan.entry ELSE px

\* Mutant: an armed order is closed like a position.
CloseIgnoringPending(id, px) ==
  /\ IsActive(id)
  /\ trades' = [trades EXCEPT ![id] = Finish(@, ExitPrice(@, px), "manual")]
  /\ UNCHANGED now

\* The portfolio panel's Close button.
Close(id, px) ==
  /\ IsActive(id)
  /\ \/ /\ trades[id].status = "pending"
        /\ trades' = [trades EXCEPT ![id] = Finish(@, None, "cancelled")]
     \/ /\ trades[id].status = "open"
        /\ trades' = [trades EXCEPT ![id] = Finish(@, ExitPrice(@, px), "manual")]
  /\ UNCHANGED now

\* Two-phase throwback: first the break of the trigger is confirmed, then a
\* later mark at or under the entry fills the order.
Confirms(r, price) ==
  1000 * price >= (1000 + ConfirmPerMille) * r.plan.trigger

\* Mutant: the order is filled by the break itself.
MarkPendingChasing(r, price) ==
  IF Confirms(r, price)
    THEN [r EXCEPT !.status = "open", !.brokeOut = now, !.activated = now]
    ELSE IF Elapsed(r, r.opened) THEN Finish(r, None, "cancelled") ELSE r

\* Mutant: the fill does not stamp activated_ts.
MarkPendingUnstamped(r, price) ==
  IF r.brokeOut = None
    THEN IF Confirms(r, price) THEN [r EXCEPT !.brokeOut = now] ELSE r
    ELSE IF price <= r.stop THEN Finish(r, None, "cancelled")
         ELSE IF price <= r.plan.entry THEN [r EXCEPT !.status = "open"] ELSE r

MarkPending(r, price) ==
  IF r.brokeOut = None
    THEN IF Confirms(r, price) THEN [r EXCEPT !.brokeOut = now]
         ELSE IF Elapsed(r, r.opened) THEN Finish(r, None, "cancelled")
         ELSE r
    ELSE IF price <= r.stop THEN Finish(r, None, "cancelled")
         ELSE IF price <= r.plan.entry
              THEN [r EXCEPT !.status = "open", !.activated = now]
         ELSE IF Elapsed(r, r.opened) THEN Finish(r, None, "cancelled")
         ELSE r

\* Mutant: the clock of a filled order runs from when it was armed.
MarkOpenSinceArmed(r, price) ==
  IF price <= r.stop THEN Finish(r, r.stop, "stop_hit")
  ELSE IF price >= r.plan.target THEN Finish(r, r.plan.target, "target_hit")
  ELSE IF Elapsed(r, r.opened) THEN Finish(r, price, "expired")
  ELSE r

\* The stop is looked at before the target, the target before the clock.
MarkOpen(r, price) ==
  IF price <= r.stop THEN Finish(r, r.stop, "stop_hit")
  ELSE IF price >= r.plan.target THEN Finish(r, r.plan.target, "target_hit")
  ELSE IF Elapsed(r, r.activated) THEN Finish(r, price, "expired")
  ELSE r

MarkRow(r, price) ==
  IF r.status = "pending" THEN MarkPending(r, price) ELSE MarkOpen(r, price)

\* Mutant: the status filter is dropped from mark's SELECT.
MarkedAnyStatus(id, o) == trades[id] # None /\ trades[id].owner = o

\* The rows mark selects FOR UPDATE.
Marked(id, o) == IsActive(id) /\ trades[id].owner = o

Mark(o, price) ==
  /\ trades' = [id \in TradeIds |->
                  IF Marked(id, o) THEN MarkRow(trades[id], price) ELSE trades[id]]
  /\ UNCHANGED now

-----------------------------------------------------------------------------
(* Managing: manage.assess_position proposes, TradeRepository.manage       *)
(* applies.                                                                *)

NoMove == [kind |-> None, level |-> 0]

Higher(a, b) == IF a >= b THEN a ELSE b

\* Mutant: R taken from the ratcheted stop.
RiskFromCurrentStop(r) == r.plan.entry - r.stop

Risk(r) == r.plan.entry - r.plan.stop

\* Mutant: the spread on the wrong side.
BreakevenBelowEntry(r) == r.plan.entry - Spread

Breakeven(r) == r.plan.entry + Spread

\* price - entry is at least n/2 times the initial risk.
AtHalfRs(r, price, n) == 2 * (price - r.plan.entry) >= n * Risk(r)

BelowEma(ro) == ro.ema8 # None /\ ro.close # None /\ ro.close < ro.ema8

UnderEma(ema8) == ((1000 - EmaBufferPerMille) * ema8 + 500) \div 1000

Tighten(r, price, ro) ==
  IF (ro.flip \/ BelowEma(ro)) /\ price - ro.gap > r.stop
    THEN [kind |-> "trend_test_tighten", level |-> price - ro.gap]
    ELSE NoMove

TrailLevel(r, ro) ==
  Higher(Higher(r.stop, IF ro.chandelier = None THEN r.stop ELSE ro.chandelier),
         IF ro.ema8 = None THEN r.stop ELSE UnderEma(ro.ema8))

\* Trail from +1.5R, breakeven from +1R.
TrailOrBreakeven(r, price, ro) ==
  IF AtHalfRs(r, price, 3)
    THEN IF TrailLevel(r, ro) > r.stop
           THEN [kind |-> "trail_stop", level |-> TrailLevel(r, ro)]
           ELSE NoMove
    ELSE IF AtHalfRs(r, price, 2) /\ r.stop < Breakeven(r)
           THEN [kind |-> "move_stop_breakeven", level |-> Breakeven(r)]
           ELSE NoMove

\* Mutant: a proposal is applied without comparing it with the row as it is now.
ApplyUnguarded(r, m) ==
  IF m.kind # None
    THEN [r EXCEPT !.stop = m.level, !.moves = @ + 1,
                   !.events = Append(@, [kind |-> m.kind, old |-> r.stop, new |-> m.level])]
    ELSE r

\* One proposed move: applied, counted and logged only if it raises the stop.
Apply(r, m) ==
  IF m.kind # None /\ m.level > r.stop
    THEN [r EXCEPT !.stop = m.level, !.moves = @ + 1,
                   !.events = Append(@, [kind |-> m.kind, old |-> r.stop, new |-> m.level])]
    ELSE r

\* mfe_pct is monotone in the best price seen; best stands for it.
Seen(r, price) == [r EXCEPT !.best = Higher(@, price)]

Flatten(r, price) ==
  [Finish(r, price - Spread, "weekend_flat") EXCEPT
     !.events = Append(@, [kind |-> "weekend_flat", old |-> r.stop, new |-> None])]

\* Both moves are computed from the row as it was read, then applied in order.
ManageRow(r, price, ro, fridayFlat) ==
  IF fridayFlat /\ ~r.plan.hold
    THEN Flatten(Seen(r, price), price)
    ELSE Apply(Apply(Seen(r, price), Tighten(r, price, ro)),
               TrailOrBreakeven(r, price, ro))

Managed(id, o) ==
  /\ trades[id] # None
  /\ trades[id].status = "open"
  /\ trades[id].owner = o
  /\ trades[id].plan.managed

Manage(o, price, ro, fridayFlat) ==
  /\ trades' = [id \in TradeIds |->
                  IF Managed(id, o) THEN ManageRow(trades[id], price, ro, fridayFlat)
                  ELSE trades[id]]
  /\ UNCHANGED now

-----------------------------------------------------------------------------

Tick == now < MaxTime /\ now' = now + 1 /\ UNCHANGED trades

Init ==
  /\ trades = [id \in TradeIds |-> None]
  /\ now = 0

Next ==
  \/ \E id \in TradeIds, o \in Owners, p \in Plans : Open(id, o, p)
  \/ \E id \in TradeIds, px \in MarketPrices \cup {None} : Close(id, px)
  \/ \E o \in Owners, price \in MarketPrices : Mark(o, price)
  \/ \E o \in Owners, price \in MarketPrices, ro \in Readouts, ff \in BOOLEAN :
       Manage(o, price, ro, ff)
  \/ Tick

Spec == Init /\ [][Next]_vars
-----------------------------------------------------------------------------
(* Properties.                                                             *)

\* The columns a status fills in: an armed order has a trigger and no
\* activation, a position has an activation, a closed row a reason and a time.
StatusColumns(r) ==
  /\ r.status = "pending" => r.activated = None /\ r.plan.trigger # None
  /\ r.status = "open" => r.activated # None
  /\ r.status = "closed" <=> r.reason # None
  /\ r.status = "closed" <=> r.closedAt # None

\* The shape of the trades table and of its event log (db/models.py Trade,
\* TradeEvent), and in each status the columns that status fills in.
TypeOK ==
  /\ trades \in [TradeIds -> Row \cup {None}]
  /\ now \in 0..MaxTime
  /\ \A id \in Rows : StatusColumns(trades[id])

\* At most one open or pending row per (user, ticker) and trader, whatever
\* order fills, closes and re-opens come in (db/models.py, the partial unique
\* index).
OneActivePerTrader ==
  \A i, j \in Rows :
    /\ IsActive(i) /\ IsActive(j)
    /\ trades[i].owner = trades[j].owner
    /\ trades[i].plan.trader = trades[j].plan.trader
    => i = j

\* An order is cancelled exactly when it was never filled: a cancelled row has
\* no activation, no exit and so no profit or loss, and every other closed row
\* was activated first and carries an exit (trades.py _finish, mark, close).
RowCancelledNeverHeld(r) ==
  /\ r.exit # None => r.status = "closed"
  /\ r.status = "closed" =>
       /\ r.reason = "cancelled" <=> r.activated = None
       /\ r.exit = None <=> r.activated = None

CancelledNeverHeld == \A id \in Rows : RowCancelledNeverHeld(trades[id])

\* A closed row never changes again: no mark, manage or second Close reopens
\* or re-prices it (virtualbook.py: "closed - final").
ClosedIsFinal ==
  [][\A id \in Rows : trades[id].status = "closed" => trades'[id] = trades[id]]_vars

\* A breakout order fills only on a call later than the one that confirmed the
\* break: never on the tick that breaks out (trades.py mark, the two-phase
\* throwback).
FillNeedsEarlierBreakout ==
  [][\A id \in Rows :
       trades[id].status = "pending" /\ trades'[id].status = "open" =>
         trades[id].brokeOut # None]_vars

\* trade_events tells the whole story of the stop: each move starts where the
\* last one ended and raises it, stop_moves counts the moves, and the current
\* stop is the last of them (manage.py: "a stop is NEVER widened"; trades.py
\* manage, two moves in one call included).
RowTrailExplainsStop(r) ==
  /\ Len(r.events) = r.moves + (IF r.reason = "weekend_flat" THEN 1 ELSE 0)
  /\ \A i \in 1..Len(r.events) :
       r.events[i].old = IF i = 1 THEN r.plan.stop ELSE r.events[i-1].new
  /\ \A i \in 1..r.moves :
       r.events[i].kind \in MoveKinds /\ r.events[i].new > r.events[i].old
  /\ r.stop = IF r.moves = 0 THEN r.plan.stop ELSE r.events[r.moves].new

TrailExplainsStop == \A id \in Rows : RowTrailExplainsStop(trades[id])

\* The best price manage has seen is at least n half-R above the entry, R being
\* the initial risk.
ReachedHalfRs(r, n) ==
  2 * (r.best - r.plan.entry) >= n * (r.plan.entry - r.plan.stop)

\* Every breakeven and every trailing move in the log is justified by an
\* excursion the row itself records: +1R for the one, +1.5R for the other
\* (manage.py, the R-multiple is taken from the initial stop).
RowMovesJustified(r) ==
  \A i \in 1..Len(r.events) :
    /\ r.events[i].kind = "move_stop_breakeven" => ReachedHalfRs(r, 2)
    /\ r.events[i].kind = "trail_stop" => ReachedHalfRs(r, 3)

MovesJustifiedByExcursion == \A id \in Rows : RowMovesJustified(trades[id])

\* Once its stop was moved to breakeven, a position that the market closes
\* (stop, target or clock) does not lose, whatever moves came before or after
\* (manage.py: "the trade can't lose now").
RowBreakevenNeverLoses(r) ==
  /\ r.reason \in {"stop_hit", "target_hit", "expired"}
  /\ \E i \in 1..Len(r.events) : r.events[i].kind = "move_stop_breakeven"
  => r.exit >= r.plan.entry

BreakevenNeverLoses == \A id \in Rows : RowBreakevenNeverLoses(trades[id])

\* A position expires one and a half horizons after it was FILLED, however long
\* the order waited before (trades.py mark: reference = activated_ts).
RowExpiryRunsFromFill(r) ==
  r.reason = "expired" => 2 * (r.closedAt - r.activated) > 3 * r.plan.horizon

ExpiryRunsFromFill == \A id \in Rows : RowExpiryRunsFromFill(trades[id])

\* What manage.py's header promises: "move to breakeven at +1R, then trail".
\* An open managed position that manage has seen at +1R has its stop at
\* breakeven or better.
ProtectedFromOneR ==
  \A id \in Rows :
    /\ trades[id].status = "open"
    /\ trades[id].plan.managed
    /\ ReachedHalfRs(trades[id], 2)
    => trades[id].stop >= Breakeven(trades[id])
=============================================================================
