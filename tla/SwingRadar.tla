----------------------------- MODULE SwingRadar -----------------------------
(***************************************************************************)
(* The plan of one name over the cycles of the radar, and the swing bots   *)
(* that trade it (_run_bots of app.py, run_automatic_bots of               *)
(* radar_worker.py).  Between cycles the price moves and the book closes   *)
(* positions; the analysis stays.  The pages build the same plan for       *)
(* either side and pace.  The Gap-and-Go and reversal bots do not trade    *)
(* the plan.                                                               *)
(***************************************************************************)
EXTENDS SwingPlan

CONSTANTS
  Scenes,   \* analyses, with the fields SwingScore and SwingPlan describe
  Prices    \* prices a plan may be asked for

Price == Nat \ {0}

Where == {"above", "below", "at", None}

Analysis ==
  [levels : SUBSET Price, others : SUBSET Price, highs : SUBSET Price, lows : SUBSET Price,
   atr : Nat \cup {None}, median : Nat \cup {None},
   signals : SUBSET STRING, change : {"bull", "bear", None},
   sma50 : Price \cup {None}, sma200 : Price \cup {None}, ema20 : Price \cup {None},
   emaRising : BOOLEAN, hist : STRING \cup {None}, rvol : Nat \cup {None},
   earnings : Int \cup {None}, chart : DOMAIN Frames, longest : DOMAIN Frames \cup {None},
   anchor : Price \cup {None}, vwap : Price \cup {None},
   rsi : 0..100 \cup {None}, rsiM1 : 0..100 \cup {None},
   range : [low : Nat, high : Nat] \cup {None},
   frames : UNION {[S -> [ma : Where, macd : Where]] : S \in SUBSET {"5D", "6M", "1Y"}},
   biases : Seq(STRING), daily : BOOLEAN, chase : BOOLEAN, extension : Int \cup {None},
   stretch : -2..2 \cup {None},
   adx : [strong : BOOLEAN, lead : {"plus", "minus", "tie"}] \cup {None},
   investor : Int, sentiment : Int \cup {None},
   month : [low : Nat, high : Nat] \cup {None}]

Bar == [open : Price, high : Nat, low : Nat, close : Nat, volume : Nat]

\* The yfinance frames: at least a bar each, its close between its extremes.
ASSUME FramesAssumption ==
  \A name \in DOMAIN Frames :
    /\ Frames[name] \in Seq(Bar) /\ Frames[name] # <<>>
    /\ \A i \in DOMAIN Frames[name] :
         Frames[name][i].low <= Frames[name][i].close /\ Frames[name][i].close <= Frames[name][i].high

ASSUME ScenesAssumption ==
  \A a \in Scenes : a \in Analysis /\ IsFiniteSet(a.levels \cup a.others \cup a.highs \cup a.lows)

ASSUME PricesAreNotPennies == \A p \in Prices : p \in Nat /\ p >= 100 * Cent

\* A stop of 0.7 ATR is at least a cent away.  Under that the levels of a plan
\* can round to one price.
ASSUME StopsAreACentWide ==
  \A a \in Scenes, p \in Prices : 7 * p * DampedAtr(a) >= 100000 * Cent

ASSUME NoneIsNoPrice == None \notin Int

ASSUME NoneIsNoRead ==
  None \notin [score : 0..100, extended : BOOLEAN, distribution : BOOLEAN,
               label : EmergingLabels]

VARIABLES
  scene,    \* the analysis of the name
  seen,     \* the last plan with what it was asked for, or None
  held      \* by bot: the levels of its position in the name, or None

vars == <<scene, seen, held>>

Bots == {"bot-GO", "bot-70", "bot-BRK"}

Kinds == {"immediate", "breakout_wait", "no_trade"}

Level == Nat \cup {None}

Position == [entry : Nat, stop : Nat, target : Nat, trigger : Level,
             kind : Kinds, emerging : BOOLEAN]

\* One position per bot, closed at any time; plans carry whole cents.
TypeOK ==
  /\ held \in [Bots -> Position \cup {None}]
  /\ seen # None =>
       /\ seen.price \in Prices
       /\ seen.plan.kind \in Kinds
       /\ seen.plan.score \in 0..100
       /\ \A level \in {seen.plan.entry, seen.plan.stop, seen.plan.target} :
            level \in Nat /\ level % Cent = 0

-----------------------------------------------------------------------------

\* The radar gives neither earnings, offering price nor VWAP.
RadarView(a) == [a EXCEPT !.earnings = None, !.anchor = None, !.vwap = None]

IsExtended(plan) ==
  plan.emerging # None /\ (plan.emerging.extended \/ plan.emerging.distribution)

\* Watch-only plans never become a position.
Tradable(plan) == plan.actionable /\ ~IsExtended(plan)

Rule(bot, plan) ==
  \/ bot = "bot-GO" /\ plan.go
  \/ bot = "bot-70" /\ plan.score >= 70 /\ plan.kind = "immediate" /\ ~plan.go
  \/ bot = "bot-BRK" /\ plan.kind = "breakout_wait" /\ plan.score >= 55

PositionOf(plan) ==
  [entry |-> plan.entry, stop |-> plan.stop, target |-> plan.target,
   trigger |-> plan.trigger, kind |-> plan.kind, emerging |-> plan.emerging # None]

Init == /\ scene \in Scenes
        /\ seen = None
        /\ held = [bot \in Bots |-> None]

\* A page: any side and pace, with everything the analysis knows.  It keeps
\* nothing, and the next one starts anew.
Page(usecase, pace, p) ==
  /\ seen = None
  /\ seen' = [by |-> "page", price |-> p, usecase |-> usecase, pace |-> pace,
              view |-> scene, plan |-> BuildSwingPlan(scene, p, usecase, pace)]
  /\ UNCHANGED <<scene, held>>

Leave ==
  /\ seen # None /\ seen.by = "page"
  /\ seen' = None
  /\ UNCHANGED <<scene, held>>

\* No bot opens in the first fifteen minutes of the session.
RunBots(plan, phase) ==
  [bot \in Bots |->
     IF phase # "opening_range" /\ Tradable(plan) /\ Rule(bot, plan) /\ held[bot] = None
       THEN PositionOf(plan) ELSE held[bot]]

\* A radar cycle at a price.
Cycle(p) ==
  /\ seen # None => seen.by = "radar"
  /\ seen' = [by |-> "radar", price |-> p, usecase |-> "buy", pace |-> "fast",
              view |-> RadarView(scene),
              plan |-> BuildSwingPlan(RadarView(scene), p, "buy", "fast")]
  /\ \E phase \in {"opening_range", "regular"} : held' = RunBots(seen'.plan, phase)
  /\ UNCHANGED scene

\* The book closes a position.
Release(bot) ==
  /\ held[bot] # None
  /\ held' = [held EXCEPT ![bot] = None]
  /\ UNCHANGED <<scene, seen>>

Next ==
  \/ \E usecase \in {"buy", "sell"}, pace \in DOMAIN Tuning, p \in Prices :
       Page(usecase, pace, p)
  \/ Leave
  \/ \E p \in Prices : Cycle(p)
  \/ \E bot \in Bots : Release(bot)

Spec == Init /\ [][Next]_vars

-----------------------------------------------------------------------------

\* A plan that proposes a trade has its stop on the losing side of its entry
\* and its target on the winning side, after rounding to cents and whatever the
\* levels: the book takes these levels as they are, and a stop at or over the
\* entry would close a position on its first mark.
LevelsAreOrdered ==
  /\ (seen # None /\ seen.plan.kind # "no_trade") =>
       IF seen.usecase = "sell"
         THEN seen.plan.target < seen.plan.entry /\ seen.plan.entry < seen.plan.stop
         ELSE seen.plan.stop < seen.plan.entry /\ seen.plan.entry < seen.plan.target
  /\ \A bot \in Bots : held[bot] # None =>
       /\ held[bot].stop < held[bot].entry /\ held[bot].entry < held[bot].target
       /\ (held[bot].trigger # None) <=> (held[bot].kind = "breakout_wait")

\* The honest target: no further than the volatility budget and the pace
\* allow, and with no level of any frame in the way, except those that
\* cluster with the entry.  (A cent each way for the rounding, the entry's too.)
ReachIsHonest ==
  (seen # None /\ seen.plan.kind # "no_trade") =>
    LET a == seen.view
        plan == seen.plan
        reach == Cap(a, Tuning[seen.pace])
        noise == Noise(a, seen.price)
    IN  /\ 10000 * (Distance(plan.target, plan.entry) - Cent) <= reach * (plan.entry + Cent)
        /\ IF seen.usecase = "sell"
             THEN ~\E l \in RawSupports(a, seen.price, noise) :
                     l > plan.target + Cent /\ 1000 * l < 994 * (plan.entry - Cent)
             ELSE ~\E l \in RawWalls(a, seen.price, noise) :
                     l < plan.target - Cent /\ 1000 * l > 1006 * (plan.entry + Cent)

\* An immediate plan never pays three times its risk: target and stop grow with
\* the same volatility, so the best it can pay is the square root of the days
\* it has over the width of its stop (2.5 on the fast pace, 2.6 on the other).
\* No plan is of high conviction, then, and the warning about rewards over four
\* on countertrend setups is given only where no trade is proposed.  (A cent each
\* way for the rounding.)
RewardIsBounded ==
  seen # None =>
    /\ seen.plan.confidence # "high"
    /\ seen.plan.kind = "immediate" =>
         Distance(seen.plan.target, seen.plan.entry) - Cent
           < 3 * (Distance(seen.plan.entry, seen.plan.stop) + Cent)

\* The target of a plan is one the price can reach and pays what such a plan can
\* pay, never more (swing.py:303, 394).
TargetIsHonest == ReachIsHonest /\ RewardIsBounded

\* No bot holds a name whose daily close is blown off its upper band, or whose
\* demand read says extended or distribution: the trades _run_bots is there to
\* stop.  It takes the veto of GO, the spent-leg gate of the geometry, the
\* withdrawal of the order and the bots' own gate together.
NeverChases ==
  (\E bot \in Bots : held[bot] # None) =>
    LET view == RadarView(scene)
        thin == Len(LongestFrame(view)) < EmergingMaxBars
    IN  /\ ~Overextended(view, FALSE)
        /\ thin => ~IsExtended([emerging |-> EmergingRead(view)])

\* A held position was worth its risk when it was opened: it pays 1.5 times
\* what it risks, and moves 3%, which for a breakout leg only the cap on the
\* score of small aims ensures; the demand read of a young name knows no such
\* cap, and lets a leg of three quarters of that pass.  (Up to rounding.)
WorthTheRisk ==
  \A bot \in Bots : held[bot] # None =>
    LET h == held[bot]
    IN  /\ 2 * (h.target - h.entry + Cent) >= 3 * (h.entry - h.stop - Cent)
        /\ 10000 * (h.target - h.entry + Cent) >= (IF h.emerging THEN 225 ELSE 300) * h.entry

\* The emerging read comes last: a stretched move of thin history ends without
\* GO, order and green light together, whatever the plan before it said, on a
\* page or on the radar.
StretchedIsWithdrawn ==
  (seen # None /\ seen.plan.emerging # None) =>
    (seen.plan.emerging.extended =>
       ~seen.plan.go /\ ~seen.plan.actionable /\ seen.plan.light # "go")

\* What a bot holds it had reason to open: no chase, no trade that does not pay,
\* no order that the emerging read had withdrawn (app.py:892, swing.py:766, 851).
HeldForGoodReason == NeverChases /\ WorthTheRisk /\ StretchedIsWithdrawn

\* _longest_daily: "Intraday frames (1D/5D) are excluded - only true daily
\* frames count toward 'how much history exists'."  A name with less than sixty
\* daily bars is read by its demand.
ThinHistoryIsEmerging ==
  (seen # None /\ seen.usecase = "buy" /\ seen.view.longest # None) =>
    (Len(Frames[seen.view.longest]) < EmergingMaxBars => seen.plan.emerging # None)
=============================================================================
