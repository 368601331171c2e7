----------------------------- MODULE MCServices -----------------------------
(* A small instance of Services.                                            *)
(*                                                                          *)
(* Bounds: two callers, readers, requests, workers, sessions or imports,    *)
(* which is where they meet; limits of one or two, so that they are         *)
(* reached; two windows of bars and two stores; two days of bars and a      *)
(* history of six; one row of a trade, three of the statistics; a morning   *)
(* of five ticks, two before the opening range ends and two after it.       *)
EXTENDS Services, TLC

Bar(h, l, c) == [high |-> h, low |-> l, close |-> c]
TapeBars == {Bar(3, 2, 2), Bar(4, 1, 3), Bar(5, 2, 5)}

Proposition(t) == [entry |-> 2, stop |-> 1, target |-> 4, trigger |-> t]
\* At once, at a close, and one that is no trade: a wall is next to the price.
AtOnceOrLater == {Proposition(0), Proposition(3), [Proposition(0) EXCEPT !.entry = 3, !.target = 3]}

OneToTwo == 1..2

Position(trader, kind, lo, hi, t, managed) ==
  [trader |-> trader, kind |-> kind, entry |-> 4, stop |-> lo, target |-> hi,
   trigger |-> t, horizon |-> 1, managed |-> managed, hold |-> FALSE]
ManagedOrWaiting == { Position("bot-gap-mgd", "immediate", 2, 8, None, TRUE),
                      Position("bot-BRK", "breakout_wait", 3, 6, 4, FALSE) }
OneReadout == {[ema8 |-> 7, close |-> 6, chandelier |-> 4, gap |-> 1, flip |-> FALSE]}

\* A history of four kinds of days, and what is advised after each.
Quiet == Bar(104, 99, 100)
Spike == Bar(112, 100, 104)
Fall == Bar(101, 92, 94)
Rise == Bar(126, 111, 114)
DaysOfHistory == {Quiet, Spike, Fall, Rise}
Advised(kind, go, e, s, t, tr0) ==
  [kind |-> kind, go |-> go, score |-> 60, rr |-> 20, setup |-> TRUE,
   entry |-> e, stop |-> s, target |-> t, trigger |-> tr0]
AdviceAfter == [b \in DaysOfHistory |->
  CASE b = Quiet -> Advised("breakout_wait", FALSE, 104, 98, 125, 104)
    [] b = Spike -> Advised("immediate", TRUE, 104, 96, 112, 0)
    [] b \in {Fall, Rise} -> Advised("no_trade", FALSE, 100, 96, 112, 0)]
OneOfEach == <<<<"UP", 1>>, <<"DOWN", 1>>, <<"CHOP", 1>>>>

\* Trades of two ideas: a day's gap, and the next one's.
Idea(d) == [setup |-> "gap", day |-> d]
TwoIdeas == {Idea(1), Idea(2)}
ManagedTraders == [t \in {"bot-GO", "bot-gap-mgd", "bot-gap-fixed"} |-> t = "bot-gap-mgd"]
Ended(trader, d, score, result) ==
  [trader |-> trader, idea |-> Idea(d), score |-> score, result |-> result, cancelled |-> FALSE]
EndedTrades ==
  {Ended("bot-GO", 1, 80, -100), Ended("bot-GO", 1, 60, 300), Ended("bot-GO", 2, 60, 0),
   Ended("bot-gap-fixed", 1, 80, -100), Ended("bot-gap-fixed", 1, 80, 300),
   Ended("bot-gap-fixed", 2, 60, 0),
   Ended("bot-gap-mgd", 1, 80, -100), Ended("bot-gap-mgd", 1, 80, 300),
   Ended("bot-gap-mgd", 2, 60, 300),
   [Ended("bot-GO", 1, 80, 0) EXCEPT !.cancelled = TRUE]}

TradesOfTheFile == {[id |-> "a", key |-> "k", active |-> TRUE],
                    [id |-> "b", key |-> "k", active |-> FALSE]}
PapersOfTheFile == {[id |-> 1, at |-> 0], [id |-> 2, at |-> 1]}
ListsOfTheFile == {[list |-> "watch", ticker |-> "T"], [list |-> "swing", ticker |-> "T"]}

DayMonthHalfYear == <<"1D", "1M", "6M">>
TicksToLive == "1D" :> 1 @@ "1M" :> 2 @@ "6M" :> 9
TicksOfATier ==
  "HOT" :> 1 @@ "WATCH_CLOSE" :> 1 @@ "BUILDUP" :> 1 @@ "PAUSED" :> 1 @@ "FAR" :> 3
FarOrNoPlan ==
  {[go |-> FALSE, kind |-> "no_trade", score |-> 30, trigger |-> 30, band |-> 15,
    below |-> 0, forming |-> FALSE], None}
=============================================================================
