------------------------------- MODULE DayBots -------------------------------
(***************************************************************************)
(* One trading day of one ticker: its five-minute bars, the tab and the    *)
(* radar worker that watch it, and the bots they run (app.py _run_bots,    *)
(* _run_reversal_bots, _opening_range; radar_worker.py run_automatic_bots, *)
(* run_reversal_bots).                                                     *)
(*                                                                         *)
(* A frame may be behind the market: providers and caches lag.  The worker *)
(* takes the time of its decisions once per cycle, the tab reads the phase *)
(* before it fetches and the clock again when the bots run; it keeps the   *)
(* first opening range of the day it gets.                                 *)
(***************************************************************************)
EXTENDS DayReplay

CONSTANTS
  History,     \* the bars of the day before
  PrevClose,   \* and its close
  Shapes,      \* [open, high, low, close, volume] of a bar
  Moments,     \* a sequence: the times of the bars of the day
  Lags,        \* how many bars a frame may be behind, the whole day included
  Levels,      \* of the other frames
  Variants,    \* of the replay: [gap, rvol, end, rr]
  Configs,     \* of the reversal: [name, trend, entry]
  Up           \* the trend of the days before

Today == 1
Bars == [day : Int, at : Nat, open : Nat, high : Nat, low : Nat, close : Nat, volume : Nat]

GapTraders == {"bot-gap-fixed", "bot-gap-mgd"}
SwingTraders == {"bot-GO"}   \* SwingPlan is about theirs: here they always ask

\* Five-minute bars: of a day that starts at nine, and of one before it that
\* lasted to its close.
ASSUME ShapesAssumption ==
  \A s \in Shapes : /\ s \in [open : Nat, high : Nat, low : Nat, close : Nat, volume : Nat]
                    /\ s.low <= s.high
ASSUME MomentsAssumption ==
  /\ Moments \in Seq({t \in (Open - 30)..959 : t % 5 = 0})
  /\ \A i, j \in DOMAIN Moments : i < j => Moments[i] < Moments[j]
ASSUME HistoryAssumption ==
  /\ History \in Seq(Bars) /\ History # <<>> /\ Last(History).at > WindowEnd
  /\ \A i \in DOMAIN History : History[i].day < Today /\ History[i].low <= History[i].high
ASSUME LagsAssumption == Lags \subseteq Nat
ASSUME ConfigsAssumption == \A c \in Configs : c.name \notin GapTraders \cup SwingTraders

VARIABLES
  tape,        \* the bars of the day, the last one as it stands
  range,       \* the tab's opening range of the day, and whether it was current
  look,        \* a cycle of the worker or a body of the tab under way
  asked        \* what the bots asked the book to open just now, by which clock

vars == <<tape, range, look, asked>>

Clock == IF tape = <<>> THEN Open - 30 ELSE Last(tape).at + 4
Market == History \o tape

\* The frames a fetch may return: the market's bars but for the last few.
Frames == {FirstBars(Market, Len(Market) - k) : k \in {l \in Lags : l <= Len(tape)}}

\* Where the price of a decision comes from: a live quote or the frame.
PricesOf(frame) == {Last(Market).close, Last(frame).close}

NothingAsked == [traders |-> {}, by |-> "none", asof |-> 0, range |-> None, current |-> TRUE]

Bar(s) ==
  /\ Len(tape) < Len(Moments)
  /\ tape' = Append(tape, [day |-> Today, at |-> Moments[Len(tape) + 1], open |-> s.open,
                      high |-> s.high, low |-> s.low, close |-> s.close, volume |-> s.volume])
  /\ asked' = NothingAsked
  /\ UNCHANGED <<range, look>>

\* The worker's cycle takes its time (run_forever) and analyses; the tab's body
\* takes the phase (_radar_body, _live_mid_frame) and analyses.
Look(by, frame, price) ==
  /\ look = None
  /\ by = "worker" => MarketPhase(Clock) # "closed"
  /\ look' = [by |-> by, frame |-> frame, price |-> price, asof |-> Clock]
  /\ asked' = NothingAsked
  /\ UNCHANGED <<tape, range>>

\* The pair fires together.
GapAsks(r, asof) ==
  IF GapAndGo(r, look.frame, look.price, asof) # None THEN GapTraders ELSE {}

ReversalAsks(asof) ==
  LET card == DayCard(look.frame, Levels, look.price) IN
  {c.name : c \in {c \in Configs :
     Reversal(card, Last(look.frame), look.price, Up, PrevClose, asof, c) # None}}

\* Mutant: nothing freezes the bots.
NeverFrozen(asof) == FALSE

\* No entries in the first fifteen minutes.
Frozen(asof) == MarketPhase(asof) = "opening_range"

Asks(r, current, asof) ==
  LET gap == GapAsks(r, asof)
      traders == IF Frozen(look.asof) THEN {} ELSE gap \cup SwingTraders \cup ReversalAsks(asof)
  IN  asked' = IF traders = {} THEN NothingAsked
               ELSE [traders |-> traders, by |-> look.by, asof |-> look.asof,
                     range |-> IF gap = {} THEN None ELSE r, current |-> gap = {} \/ current]

FrameIsCurrent == Last(look.frame).at + 4 = Clock

\* process_analysis: an opening range of its own, the bots by the cycle's time.
WorkerRuns ==
  /\ look # None /\ look.by = "worker"
  /\ Asks(OpeningRange(look.frame, PrevClose, look.asof), Last(look.frame).at + 4 = look.asof,
          look.asof)
  /\ look' = None
  /\ UNCHANGED <<tape, range>>

\* _opening_range: the cached one of the day, or a new one, kept if there is any.
TabRange ==
  IF range # None /\ range.of.day = Today THEN range
  ELSE [of |-> OpeningRange(look.frame, PrevClose, Clock), current |-> FrameIsCurrent]

\* Mutant: whatever it got.
KeptEvenEmpty(r) == r

\* Only a range is kept.
Kept(r) == IF r.of = None THEN range ELSE r

\* The tab's bots: the phase of before, the clock of now.
TabRuns ==
  /\ look # None /\ look.by = "tab"
  /\ Asks(TabRange.of, TabRange.current, Clock)
  /\ range' = Kept(TabRange)
  /\ look' = None
  /\ UNCHANGED tape

Init == tape = <<>> /\ range = None /\ look = None /\ asked = NothingAsked

Next ==
  \/ \E s \in Shapes : Bar(s)
  \/ \E by \in {"worker", "tab"}, f \in Frames : \E p \in PricesOf(f) : Look(by, f, p)
  \/ WorkerRuns
  \/ TabRuns

Spec == Init /\ [][Next]_vars
-----------------------------------------------------------------------------
TypeOK ==
  /\ Len(tape) <= Len(Moments)
  /\ range # None => range.of # None /\ range.of.low <= range.of.high
  /\ asked.traders \subseteq GapTraders \cup SwingTraders \cup {c.name : c \in Configs}

\* The bars do not depend on who looks at them: what is said of the replay is
\* said of the days nobody watches.
Unwatched == look = None /\ range = None /\ asked = NothingAsked

\* The replay decides Gap-and-Go on a bar as the live radar would with a frame
\* that is not behind, for every bar that is whole in the entry window: its
\* opening range, taken from the whole day, knows nothing of what came later.
SameDecision(bars, i) ==
  bars[i].day = Today /\ bars[i].at \in RangeEnd..(WindowEnd - 4) =>
    ReplayedGap(bars, PrevClose, i) =
      GapAndGo(OpeningRange(FirstBars(bars, i), PrevClose, bars[i].at + 4),
               FirstBars(bars, i), bars[i].close, bars[i].at + 4)
NoDrift ==
  [][Unwatched /\ tape' # tape => \A i \in DOMAIN Market' : SameDecision(Market', i)]_vars

\* A variant's trade that met its stop or its target is the same whatever the
\* rest of the day brings.
SettledFor(v, bars, more) ==
  LET trade == VariantTrade(v, bars, PrevClose) IN
  trade # None /\ trade.status \in {"stop", "target"} => VariantTrade(v, more, PrevClose) = trade
SettledReversal(c, bars, more) ==
  LET trade == ReversalTrade(bars, Levels, Up, PrevClose, c) IN
  trade # None /\ trade.status \in {"stop", "target"} =>
    ReversalTrade(more, Levels, Up, PrevClose, c) = trade
ReplaysKeepTheirVerdicts ==
  [][Unwatched /\ tape' # tape /\ tape # <<>> =>
       /\ \A v \in Variants : SettledFor(v, Market, Market')
       /\ \A c \in Configs : SettledReversal(c, Market, Market')]_vars

\* The bots ask for a position in the first fifteen minutes only when the phase
\* was read before the open, Gap-and-Go never, and of the reversal bots only
\* the worker's (radar_worker.py:539, app.py:850).
FreezeBrokenOnlyByAnOldClock ==
  asked.traders # {} /\ MarketPhase(Clock) = "opening_range" =>
    /\ asked.asof < Open
    /\ asked.traders \cap GapTraders = {}
    /\ asked.by = "tab" => asked.traders \subseteq SwingTraders

\* Gap-and-Go asks for a position on the range of this day's first fifteen
\* minutes, whole, unless the frame it was taken from was behind the market
\* (app.py:812).
GapUsesTheDaysRange ==
  asked.traders \cap GapTraders # {} /\ asked.current =>
    /\ asked.range.day = Today
    /\ LET first == RangeBars(tape, DOMAIN tape) IN
         asked.range.high = Highest(tape, first) /\ asked.range.low = Lowest(tape, first)
=============================================================================
