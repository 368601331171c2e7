---------------------------- MODULE MCSwingRadar ----------------------------
(* Scenes for TLC: a name with a year of history and a pullback to its      *)
(* average, and what differs from it, one family of fields at a time.       *)
EXTENDS SwingRadar

\* _cluster as the code walks it.
Clustered(s) ==
  FoldLeft(LAMBDA kept, v : IF kept # <<>> /\ Merges(v, Last(kept)) THEN kept
                            ELSE Append(kept, v),
           <<>>, s)

\* The walk keeps what NearestAbove and NearestBelow say.
ASSUME WalksAgree ==
  \A S \in SUBSET {1000, 1003, 1005, 1006, 1007, 1010, 1012, 1013, 1019} :
    /\ Clustered(Ascending(S)) = Ascending(NearestAbove(S))
    /\ Clustered(Descending(S)) = Descending(NearestBelow(S))

MCPrices == {98000, 100000, 103000, 106000}

\* n bars, each opening where Open says, that close near the high or the low.
Bars(n, Open(_), up, down, gain, Volume(_)) ==
  [i \in 1..n |-> [open |-> Open(i), high |-> Open(i) + up, low |-> Open(i) - down,
                   close |-> Open(i) + gain, volume |-> Volume(i)]]

Even(i) == 100

Steady(n) == Bars(n, LAMBDA i : 1000 + 2 * i, 4, 2, 3, Even)
Dull(n)   == Bars(n, LAMBDA i : 1000 + 2 * i, 4, 2, 3, LAMBDA i : 200 - 3 * i)
Runaway(n) == Bars(n, LAMBDA i : 1000 + (300 * i) \div n, 4, 2, 3, Even)
SoldInto(n) == Bars(n, LAMBDA i : 1000 + (120 * i) \div n, 30, 2, 1, Even)
Sinking(n) == Bars(n, LAMBDA i : 1000 - 3 * i, 2, 4, -3, Even)

MCFrames ==
  [week |-> Steady(65), oneday |-> Steady(13), threedays |-> SoldInto(39),
   day1 |-> Steady(1), day3 |-> Sinking(3), day17 |-> Steady(17), day18 |-> Steady(18),
   day30 |-> Dull(30), day40 |-> Steady(40), day59 |-> Sinking(59), day60 |-> Steady(60),
   run20 |-> Runaway(20), sold20 |-> SoldInto(20), sold59 |-> SoldInto(59)]

Lines(i) == [ma |-> IF i > 0 THEN "above" ELSE "below",
            macd |-> IF i > 1 THEN "above" ELSE "below"]

Base ==
  [levels |-> {96000, 110000}, others |-> {}, highs |-> {115000}, lows |-> {80000},
   atr |-> 250, median |-> 220,
   signals |-> {}, change |-> None, sma50 |-> 95000, sma200 |-> 90000,
   ema20 |-> 100000, emaRising |-> TRUE, hist |-> "above, rising", rvol |-> 9,
   earnings |-> None, chart |-> "week", longest |-> "day60", anchor |-> None, vwap |-> None,
   rsi |-> 44, rsiM1 |-> 50, range |-> [low |-> 94000, high |-> 110000],
   frames |-> ("5D" :> Lines(2)) @@ ("6M" :> Lines(2)) @@ ("1Y" :> Lines(1)),
   biases |-> <<"bull", "bull", "flat">>, daily |-> TRUE, chase |-> FALSE,
   extension |-> 3, stretch |-> 0, adx |-> [strong |-> TRUE, lead |-> "plus"],
   investor |-> 55, sentiment |-> 6, month |-> [high |-> 110000, low |-> 94000]]

\* Walls close together, far apart, and chained in steps of half a percent.
LevelMaps ==
  {{}, {96000, 110000}, {97000, 101000, 104500}, {100500, 101000, 101500, 102000, 106000},
   {101000, 113000}, {99500, 100600, 101800, 105500}, {95000, 98500, 103200, 108000},
   {92000, 96500, 97500, 106500}, {94000, 94500, 95000, 95500, 104000}}

Geometries ==
  {[Base EXCEPT !.levels = l, !.highs = h, !.lows = {x - 30000 : x \in h}, !.atr = v[1],
                !.median = v[2], !.stretch = s, !.change = c] :
     l \in LevelMaps, h \in {{}, {104000}, {115000}},
     v \in {<<None, None>>, <<120, None>>, <<250, 220>>, <<800, 300>>},
     s \in {0, 2, -2}, c \in {None, "bull"}}

Setups ==
  {[Base EXCEPT !.signals = g[1], !.change = g[2], !.rsi = g[3], !.sma50 = m[1],
                !.sma200 = m[2], !.rvol = r, !.hist = x,
                !.adx = None] :
     g \in {<<{"premarket_gap_up"}, None, 55>>, <<{"volume_spike", "macd_bear_cross"}, None, 55>>,
            <<{"hammer", "double_bottom"}, None, 35>>, <<{"shooting_star"}, "bear", 65>>,
            <<{}, "bull", None>>, <<{}, None, 50>>},
     m \in {<<95000, 90000>>, <<112000, 115000>>, <<None, None>>},
     r \in {None, 9, 16}, x \in {None, "above, rising", "below, falling"}}

Guards ==
  {[Base EXCEPT !.earnings = e, !.adx = d, !.stretch = s, !.month = m, !.investor = v] :
     e \in {None, 3, 10}, d \in {None, [strong |-> TRUE, lead |-> "minus"]},
     s \in {None, 1, 2}, m \in {None, [high |-> 130000, low |-> 80000]}, v \in {40, 55}}

\* Room to the next wall, or a ladder of near ones that pays when it is calm.
Ladders == {[levels |-> {96000, 110000}, atr |-> 250],
            [levels |-> {100500, 103300, 103800}, atr |-> 150]}

Scores ==
  {[Base EXCEPT !.levels = l.levels, !.atr = l.atr, !.frames = f, !.biases = b, !.extension = x, !.range = r,
                !.sentiment = s] :
     l \in Ladders,
     f \in {<<>>, "6M" :> [ma |-> None, macd |-> "above"], ("5D" :> Lines(2)) @@ ("6M" :> Lines(0))},
     b \in {<<>>, <<"bull">>, <<"bear", "bull">>}, x \in {None, 12},
     r \in {None, [low |-> 94000, high |-> 104000]}, s \in {None, 6, -6}}

Intraday == {"week", "oneday", "threedays"}

Daily == DOMAIN MCFrames \ Intraday

\* The 5D frame has 13 bars a day, and decides on the fast pace; without one the
\* 1M frame does, as it does on the standard pace.
Histories ==
  (Intraday \X {None}) \cup {<<"oneday", "day1">>, <<"threedays", "day3">>}
    \cup ({"week"} \X (Daily \ {"day1", "day3"})) \cup {<<d, d>> : d \in Daily}

Young ==
  {[Base EXCEPT !.chart = h[1], !.longest = h[2], !.anchor = n, !.vwap = w,
                !.levels = k.levels, !.atr = k.atr, !.median = None,
                !.signals = {"premarket_gap_up"}, !.rvol = None,
                !.sma50 = IF h[1] = "week" THEN 95000 ELSE None, !.sma200 = None,
                !.frames = IF h[1] \in Intraday THEN "5D" :> Lines(2) ELSE <<>>,
                !.daily = (h[2] # None), !.adx = None] :
     h \in Histories, n \in {None, 950}, w \in {None, 1000}, k \in Ladders}

MCScenes == Geometries \cup Setups \cup Guards \cup Scores \cup Young
=============================================================================
