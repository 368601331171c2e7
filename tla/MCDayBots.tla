------------------------------ MODULE MCDayBots ------------------------------
(* A day of five bars, two of its opening range: bars that gap up, break      *)
(* out on volume, fall to the day's low and reverse there, reach a target and *)
(* fall through a stop.                                                       *)
EXTENDS DayBots

Shape(o, h, l, c, v) == [open |-> o, high |-> h, low |-> l, close |-> c, volume |-> v]

MCShapes == {
  Shape(1030, 1040, 1000, 1004, 1),     \* gap, and back to a support
  Shape(1020, 1050, 1020, 1050, 3),     \* a break on volume
  Shape(1050, 1160, 1050, 1150, 3),     \* a target
  Shape(992, 1010, 990, 993, 1) }       \* through the stop, and off its low; no gap

MCMoments == <<570, 580, 585, 690, 720>>

MCHistory ==
  [i \in 1..3 |-> [day |-> 0, at |-> <<570, 580, 955>>[i], open |-> 1000, high |-> 1005,
                    low |-> 995, close |-> 1000, volume |-> 1]]

MCVariants == { [gap |-> 20, rvol |-> 15, end |-> 690, rr |-> 4],
                [gap |-> 15, rvol |-> 10, end |-> 750, rr |-> 3] }

MCConfigs == { [name |-> "rev-trend-touch", trend |-> "with_trend", entry |-> "touch"],
               [name |-> "rev-strong-confirm", trend |-> "strong_support", entry |-> "confirmed"] }
=============================================================================
