--------------------------- MODULE TickerAnalysis ---------------------------
(***************************************************************************)
(* What an analysis of one ticker makes of frames of different age:        *)
(* analyze_ticker and _fallback_quote of pipeline.py over fetch_cached,    *)
(* with the times to live of data/cache.py and the sessions of             *)
(* data/market_session.py.                                                 *)
(*                                                                         *)
(* A price is known by where it comes from: a print by the time its frame  *)
(* was fetched, a daily close by its day.  A daily frame has a bar of      *)
(* today from the open on.                                                 *)
(***************************************************************************)
EXTENDS Integers, Sequences

CONSTANTS
  None,
  Frames,      \* the timeframes in the order of schema.py: "1D", "1M", "6M"
  TTL,         \* TTL_BY_TIMEFRAME
  OpenAt, RangeEnd, WindowEnd, CloseAt, LastTick

\* A month's frame lives as long as the opening range takes: a quarter of an hour.
ClockAssumption ==
  /\ OpenAt \in Nat /\ RangeEnd \in Nat /\ WindowEnd \in Nat /\ CloseAt \in Nat /\ LastTick \in Nat
  /\ OpenAt < RangeEnd /\ RangeEnd <= WindowEnd /\ WindowEnd < CloseAt
  /\ \A tf \in DOMAIN TTL : TTL[tf] \in Nat
  /\ TTL["1M"] <= RangeEnd - OpenAt
  /\ {"1D", "1M", "6M"} \subseteq DOMAIN TTL
  /\ Frames \in Seq(DOMAIN TTL) /\ Frames # <<>> /\ Frames[1] = "1D"
  /\ None \notin Int

Today == 2
Yesterday == 1
Before == 0

\* classify: of an intraday frame's last bar.
Session(t) ==
  CASE t < OpenAt -> "pre-market"
    [] t >= OpenAt /\ t < CloseAt -> "regular"
    [] t >= CloseAt -> "after-hours"
IsExtended(session) == session # "regular"

\* The last two closes of a daily frame.
RegularClose(t) == IF t >= OpenAt THEN Today ELSE Yesterday
PrevClose(t) == IF t >= OpenAt THEN Yesterday ELSE Before

\* Mutant: the six months before the one month.
LongestDaily(frames) == IF frames["6M"] # None THEN frames["6M"] ELSE frames["1M"]

\* "the authority for the two closes".
Daily(frames) == IF frames["1M"] # None THEN frames["1M"] ELSE frames["6M"]

\* A quote: [print, regular, prev, session]; frames[tf] is the time the frame
\* was fetched, or None where there is no report.
Shortest(frames) ==
  LET there == {i \in DOMAIN Frames : frames[Frames[i]] # None} IN
  frames[Frames[CHOOSE i \in there : \A k \in there : i <= k]]

\* _fallback_quote.
FallbackQuote(frames) ==
  LET daily == Daily(frames)
      regular == IF daily = None THEN None ELSE RegularClose(daily)
      prev == IF daily = None THEN None ELSE PrevClose(daily)
      session == Session(frames["1D"])
  IN  IF frames["1D"] # None /\ IsExtended(session)
      THEN [print |-> frames["1D"], prev |-> prev, session |-> session,
            regular |-> IF regular # None THEN regular ELSE RegularClose(frames["1D"])]
      ELSE IF \A tf \in DOMAIN TTL : frames[tf] = None THEN None
      ELSE [print |-> Shortest(frames), prev |-> prev, session |-> "regular",
            regular |-> IF regular # None THEN regular ELSE RegularClose(Shortest(frames))]

\* fetch_cached of one frame at a time: the stored one while it is fresh, else a
\* new one, else the stored one whatever its age.
Fetched(stored, now, tf, fails) ==
  IF stored[tf] # None /\ now - stored[tf] <= TTL[tf] THEN stored[tf]
  ELSE IF tf \notin fails THEN now ELSE stored[tf]

\* analyze_ticker: every frame by itself, what fails is left out.
Analysis(stored, now, fails) == [tf \in DOMAIN TTL |-> Fetched(stored, now, tf, fails)]
=============================================================================
