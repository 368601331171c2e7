----------------------------- MODULE MCTradeBook -----------------------------
(* The instances TLC checks TradeBook on.  Exits: one position at a time,   *)
(* with room for +1.5R below its target and everything the intraday frame   *)
(* may say.  Book: several rows of two traders, so that rows meet in the    *)
(* unique index, and a mark meets rows in every state.                      *)
EXTENDS TradeBook

MCPlan(trader, kind, entry, stop, target, trigger, managed) ==
  [trader |-> trader, kind |-> kind, entry |-> entry, stop |-> stop,
   target |-> target, trigger |-> trigger, horizon |-> 1,
   managed |-> managed, hold |-> FALSE]

Quiet == [ema8 |-> None, close |-> None, chandelier |-> None, gap |-> 1, flip |-> FALSE]

ExitPlans ==
  { MCPlan("bot-gap-mgd", "immediate", 4, 2, 8, None, TRUE),
    [MCPlan("bot-gap-mgd", "immediate", 4, 2, 8, None, TRUE) EXCEPT !.hold = TRUE],
    MCPlan("me", "breakout_wait", 4, 3, 6, 4, FALSE) }

ExitPrices == {1, 3, 4, 5, 6, 7, 8}

\* No frame at all; a frame whose close is under or over its EMA8; a
\* chandelier below, at or above the breakeven stop.
ExitReadouts ==
  { Quiet,
    [Quiet EXCEPT !.flip = TRUE],
    [ema8 |-> 7, close |-> 6, chandelier |-> 4, gap |-> 1, flip |-> FALSE],
    [ema8 |-> 3, close |-> 6, chandelier |-> 6, gap |-> 1, flip |-> FALSE],
    [ema8 |-> 5, close |-> 3, chandelier |-> None, gap |-> 2, flip |-> TRUE] }

BookPlans ==
  { MCPlan("bot-gap-fixed", "immediate", 4, 3, 5, None, FALSE),
    MCPlan("bot-BRK", "breakout_wait", 4, 3, 6, 4, FALSE) }

BookPrices == {3, 4, 5}

BookReadouts == {Quiet}
=============================================================================
