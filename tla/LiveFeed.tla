------------------------------ MODULE LiveFeed ------------------------------
(***************************************************************************)
(* Live mode of the page (app.py _live_dashboard, _live_pulse,             *)
(* _live_mid_frame): a websocket stream on a thread of its own             *)
(* (data/realtime.py), the frames that read its last tick, and the feed of *)
(* events that says when the price met a level (live_events.py).           *)
(*                                                                         *)
(* A frame's price is the last tick of the session's stream or, before the *)
(* first one, the quote the analysis was made with, which may be old.      *)
(***************************************************************************)
EXTENDS Integers, Sequences

CONSTANTS
  Prices,      \* an interval of prices; the market moves one step at a time
  Levels,      \* of the stop and of the breakout trigger
  MaxStreams   \* bound on the restarts

PricesAssumption ==
  Prices \subseteq Nat \ {0} /\ Levels \subseteq Nat /\ MaxStreams \in Nat \ {0}

VARIABLES
  streams,     \* streams made so far, the session's one last
  elapsed,     \* the auto-stop's time is over
  price,       \* of the market
  quote,       \* of the analysis the page shows
  prev,        \* live_prev_state: the price of the frame before
  plan,        \* live_shared: [stop, trigger] of the last slow frame
  told,        \* levels the last frame said were met
  trail        \* prices traded since "quote", since the last "tick", since "prev"

vars == <<streams, elapsed, price, quote, prev, plan, told, trail>>

NoPrice == 0
Mine == Len(streams)

\* RealtimeStream: its thread's place, WebSocketApp.keep_running, the last tick.
Fresh == [stage |-> "started", running |-> TRUE, tick |-> NoPrice]

\* Mutant: stop leaves the socket to the thread, which looks at nothing.
StoppedByFlagOnly(s) == s

\* stop(): before the socket is made there is nothing to close; run_forever
\* starts from keep_running = True whatever was asked before.
Stopped(s) == IF s.stage = "started" THEN s ELSE [s EXCEPT !.running = FALSE]

MakeSocket(i) ==
  /\ streams[i].stage = "started"
  /\ streams' = [streams EXCEPT ![i].stage = "made"]
  /\ UNCHANGED <<elapsed, price, quote, prev, plan, told, trail>>

RunForever(i) ==
  /\ streams[i].stage = "made"
  /\ streams' = [streams EXCEPT ![i].stage = "loop", ![i].running = TRUE]
  /\ UNCHANGED <<elapsed, price, quote, prev, plan, told, trail>>

\* The loop ends when it is told to or when the connection fails: nothing
\* connects it again.
LoopEnds(i) ==
  /\ streams[i].stage = "loop"
  /\ streams' = [streams EXCEPT ![i].stage = "over"]
  /\ UNCHANGED <<elapsed, price, quote, prev, plan, told, trail>>

Trade(i) ==
  /\ streams[i].stage = "loop"
  /\ streams' = [streams EXCEPT ![i].tick = price]
  /\ trail' = IF i = Mine THEN [trail EXCEPT !.tick = {price}] ELSE trail
  /\ UNCHANGED <<elapsed, price, quote, prev, plan, told>>

Move(p) ==
  /\ p \in Prices /\ (p = price + 1 \/ p = price - 1)
  /\ price' = p
  /\ trail' = [k \in DOMAIN trail |-> trail[k] \cup {p}]
  /\ UNCHANGED <<streams, elapsed, quote, prev, plan, told>>

\* Mutant: the frame before the restart is kept.
RestartKeepingPrev ==
  /\ Mine < MaxStreams
  /\ streams' = Append([streams EXCEPT ![Mine] = Stopped(@)], Fresh)
  /\ elapsed' = FALSE /\ told' = {}
  /\ trail' = [trail EXCEPT !.tick = {}]
  /\ UNCHANGED <<price, quote, prev, plan>>

\* The Restart button, or another duration of the ticker: the old stream is
\* asked to stop, the new one starts without ticks.
Restart ==
  /\ Mine < MaxStreams
  /\ streams' = Append([streams EXCEPT ![Mine] = Stopped(@)], Fresh)
  /\ elapsed' = FALSE /\ told' = {}
  /\ prev' = NoPrice
  /\ trail' = [trail EXCEPT !.tick = {}]
  /\ UNCHANGED <<price, quote, plan>>

Elapse ==
  /\ ~elapsed
  /\ elapsed' = TRUE
  /\ UNCHANGED <<streams, price, quote, prev, plan, told, trail>>

LivePrice == IF streams[Mine].tick # NoPrice THEN streams[Mine].tick ELSE quote

\* _live_pulse: every frame after the auto-stop asks again.
Pulsed == IF elapsed THEN [streams EXCEPT ![Mine] = Stopped(@)] ELSE streams

\* _crossed, and the half-open test of a breakout trigger of a long plan.
Crossed(level, a, b) == a # b /\ ((a <= level /\ level <= b) \/ (b <= level /\ level <= a))
Fired(trigger, a, b) == a < trigger /\ trigger <= b

\* diff_states, its part about prices: two states, the levels of the later one.
Met(a, b) ==
  {l \in {plan.stop} : Crossed(l, a, b)} \cup {l \in {plan.trigger} : Fired(l, a, b)}

\* The 3 s frame: what it tells, and the state the next one is compared with.
MidFrame ==
  /\ streams' = Pulsed
  /\ told' = IF prev = NoPrice THEN {} ELSE Met(prev, LivePrice)
  /\ prev' = LivePrice
  /\ trail' = [trail EXCEPT !.prev =
                 IF streams[Mine].tick # NoPrice THEN trail.tick ELSE trail.quote]
  /\ UNCHANGED <<elapsed, price, quote, plan>>

\* The 15 s frame draws the plan again, also after the auto-stop.
SlowFrame(s, t) ==
  /\ streams' = Pulsed
  /\ plan' = [stop |-> s, trigger |-> t]
  /\ UNCHANGED <<elapsed, price, quote, prev, told, trail>>

Init ==
  /\ streams = <<Fresh>> /\ elapsed = FALSE
  /\ price \in Prices /\ quote = price
  /\ prev = NoPrice /\ told = {}
  /\ plan \in [stop : Levels, trigger : Levels]
  /\ trail = [quote |-> {price}, tick |-> {}, prev |-> {}]

Next ==
  \/ \E i \in DOMAIN streams : MakeSocket(i) \/ RunForever(i) \/ LoopEnds(i) \/ Trade(i)
  \/ \E p \in Prices : Move(p)
  \/ Restart \/ Elapse \/ MidFrame
  \/ \E s, t \in Levels : SlowFrame(s, t)

\* Threads run; fragments run while the page is open; a loop told to end ends.
ThreadRuns(i) ==
  /\ i \in DOMAIN streams
  /\ MakeSocket(i) \/ RunForever(i) \/ (~streams[i].running /\ LoopEnds(i))
Fairness == (\A i \in 1..MaxStreams : WF_vars(ThreadRuns(i))) /\ WF_vars(MidFrame)

Spec == Init /\ [][Next]_vars /\ Fairness
-----------------------------------------------------------------------------
TypeOK ==
  /\ Mine \in 1..MaxStreams
  /\ {price, quote} \subseteq Prices /\ prev \in Prices \cup {NoPrice}
  /\ \A i \in DOMAIN streams : streams[i].stage \in {"started", "made", "loop", "over"}

\* A level a frame says was met was traded at after the price it compares with
\* was the market's: an old quote or another stream's ticks never make an event
\* of a move that did not happen (app.py:2331).
EventsAreTraded == [][MidFrame => told' \subseteq trail.prev]_vars

\* Past the auto-stop the stream ends, even if the first stop found no socket
\* to close, unless the user starts another one (app.py:2383).
AutoStopEnds ==
  [](elapsed => <>(~elapsed \/ streams[Mine].stage = "over"))
=============================================================================
