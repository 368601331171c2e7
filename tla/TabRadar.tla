------------------------------ MODULE TabRadar ------------------------------
(***************************************************************************)
(* One ticker on the radar of a tab over a morning: _radar_body and        *)
(* _radar_tier of app.py, _run_quiet's cache of ten seconds, which all     *)
(* tabs share, and the opening range that is kept for the day.  A tab      *)
(* analyses again when the ticker is due; in between a position that is    *)
(* held is managed and marked with the analysis it has.                    *)
(***************************************************************************)
EXTENDS TickerAnalysis, FiniteSets

CONSTANTS
  RunTTL,      \* of st.cache_data
  Cadence,     \* _RADAR_TIERS
  Failing,     \* bound: the timeframes that may not be fetched
  Views        \* of an analysis: what the tiers look at, or None without a plan

Tiers == {"HOT", "WATCH_CLOSE", "BUILDUP", "PAUSED", "FAR"}

CadenceAssumption ==
  /\ Tiers \subseteq DOMAIN Cadence /\ RunTTL \in Nat
  /\ \A tier \in Tiers : Cadence[tier] \in Nat \ {0} /\ Cadence[tier] <= Cadence["FAR"]

TierAssumption == \A v \in Views \ {None} : v.below \in Int /\ v.band \in Int

\* What marks the absence of a quote is none.
QuoteAssumption ==
  None \notin [print : Nat, regular : Nat, prev : {None} \cup Nat,
              session : {"pre-market", "regular", "after-hours"}]

VARIABLES
  clock,
  stored,      \* the frames in the cache, by the time they were fetched
  run,         \* the shared analysis: [at, frames], or None
  failed,      \* the timeframes a fetch has failed for
  tracked,     \* the ticker is on the radar of the tab
  held,        \* a position of the user in it: since when, or None
  radar,       \* radar_cache and radar_due: [due, frames, planned], or None
  range,       \* opening_range: [at, prev, up], or None
  marked       \* the print the body just marked the position with, or None

vars == <<clock, stored, run, failed, tracked, held, radar, range, marked>>

Phase(t) ==
  CASE t < OpenAt -> "premarket"
    [] t >= OpenAt /\ t < RangeEnd -> "opening_range"
    [] t >= RangeEnd /\ t < CloseAt -> "regular"
    [] t >= CloseAt -> "closed"
InWindow(t) == RangeEnd <= t /\ t <= WindowEnd

NearRung(v) == \E level \in {60, 70, 80} : level - v.score \in 1..3
TrigNear(v) == v.kind = "breakout_wait" /\ v.trigger \in 0..v.band

\* A gapper in the morning window, by the distance to its range's high.
GapTier(v) ==
  CASE v.below <= 0 -> "HOT"
    [] v.below > 0 /\ v.below <= v.band -> "WATCH_CLOSE"
    [] v.below > v.band /\ v.below <= 2 * v.band -> "BUILDUP"
    [] v.below > 2 * v.band -> "FAR"

ScoreTier(v) ==
  CASE v.go -> "HOT"
    [] ~v.go /\ (TrigNear(v) \/ NearRung(v)) -> "WATCH_CLOSE"
    [] ~v.go /\ ~TrigNear(v) /\ ~NearRung(v) ->
         IF v.forming \/ v.kind = "breakout_wait" THEN "BUILDUP" ELSE "FAR"

\* Mutant: a held position is tiered like any other ticker.
TierIgnoringPosition(v, quote, r) ==
  CASE Phase(clock) \in {"premarket", "closed"} -> "FAR"
    [] Phase(clock) = "opening_range" -> "PAUSED"
    [] OTHER -> IF v = None THEN "FAR" ELSE ScoreTier(v)

\* _radar_tier; v = None where there is no plan.
Tier(v, quote, r) ==
  IF held # None THEN "HOT"
  ELSE CASE Phase(clock) \in {"premarket", "closed"} -> "FAR"
         [] Phase(clock) = "opening_range" -> "PAUSED"
         [] Phase(clock) = "regular" ->
              IF v = None THEN "FAR"
              ELSE IF InWindow(clock) /\ r # None /\ r.up /\ quote # None THEN GapTier(v)
              ELSE ScoreTier(v)

\* _run_quiet: the shared analysis, or a new one.
RunQuiet(fails) ==
  IF run # None /\ clock - run.at < RunTTL THEN UNCHANGED <<stored, run, failed>>
  ELSE /\ stored' = Analysis(stored, clock, fails)
       /\ run' = [at |-> clock, frames |-> Analysis(stored, clock, fails)]
       /\ failed' = failed \cup {tf \in fails : Fetched(stored, clock, tf, {}) # stored[tf]}

\* _opening_range: kept once there is one; it needs the bars of the session.
Range(quote, frames, up) ==
  IF range # None \/ Phase(clock) # "regular" \/ frames["1D"] = None \/ frames["1D"] < OpenAt
  THEN range
  ELSE LET prev == IF quote = None THEN None ELSE quote.prev IN
       [at |-> clock, prev |-> prev, up |-> up /\ prev # None]

\* Another tab's analysis.
OtherTab(fails) ==
  /\ RunQuiet(fails)
  /\ marked' = None
  /\ UNCHANGED <<clock, tracked, held, radar, range>>

Untracked == ~tracked /\ radar' = None /\ marked' = None
               /\ UNCHANGED <<clock, stored, run, failed, tracked, held, range>>

Mark(frames, planned) ==
  LET quote == FallbackQuote(frames) IN
  marked' = IF held = None \/ ~planned \/ quote = None THEN None ELSE quote.print

\* The body when the ticker is due, and when it is not.
Due(fails, v, up) ==
  /\ tracked /\ (radar # None => radar.due <= clock)
  /\ RunQuiet(fails)
  /\ LET frames == run'.frames
         quote == FallbackQuote(frames)
         view == IF \A tf \in DOMAIN TTL : frames[tf] = None THEN None ELSE v
     IN  /\ range' = Range(quote, frames, up)
         /\ radar' = [due |-> clock + Cadence[Tier(view, quote, range')], frames |-> frames,
                      planned |-> view # None]
         /\ Mark(frames, view # None)
  /\ UNCHANGED <<clock, tracked, held>>
NotDue ==
  /\ tracked /\ radar # None /\ radar.due > clock
  /\ Mark(radar.frames, radar.planned)
  /\ UNCHANGED <<clock, stored, run, failed, tracked, held, radar, range>>

\* The worker, another tab or a button opens or closes a position; the ticker is
\* put on the radar or taken off it.
Position ==
  /\ held' = IF held = None THEN clock ELSE None
  /\ marked' = None
  /\ UNCHANGED <<clock, stored, run, failed, tracked, radar, range>>
Track ==
  /\ tracked' = ~tracked /\ marked' = None
  /\ UNCHANGED <<clock, stored, run, failed, held, radar, range>>

Tick ==
  /\ clock < LastTick /\ clock' = clock + 1
  /\ marked' = None
  /\ UNCHANGED <<stored, run, failed, tracked, held, radar, range>>

Init ==
  /\ clock = 0 /\ stored = [tf \in DOMAIN TTL |-> None] /\ run = None /\ failed = {}
  /\ tracked = TRUE /\ held = None /\ radar = None /\ range = None /\ marked = None

\* Bound: one fetch of the morning fails.
Failures == {{}} \cup {{tf} : tf \in IF failed = {} THEN Failing ELSE {}}

Next ==
  \/ \E fails \in Failures : OtherTab(fails)
  \/ \E fails \in Failures, v \in Views, up \in BOOLEAN : Due(fails, v, up)
  \/ NotDue \/ Untracked \/ Position \/ Track \/ Tick

Spec == Init /\ [][Next]_vars
-----------------------------------------------------------------------------
TypeOK ==
  /\ \A tf \in DOMAIN TTL : stored[tf] \in {None} \cup 0..clock
  /\ radar # None => radar.due <= clock + Cadence["FAR"]

\* "always babysit an open position" (app.py:756): once a position has been held
\* for as long as the slowest tier waits, it is marked with a print less
\* old than the fastest tier and the caches allow, unless a fetch of the day's bars
\* failed.
HeldIsWatched ==
  marked # None /\ "1D" \notin failed /\ clock - held > Cadence["FAR"] =>
    clock - marked < Cadence["HOT"] + RunTTL + TTL["1D"]

\* The gap of the day is measured from yesterday's close: a daily frame of
\* before the open lives as long as the opening range takes, so only in the
\* seconds of the shared analysis after it, or after a failed fetch, the close
\* before can be taken for it (app.py:811, pipeline.py:55).
GapIsOverOneNight ==
  range # None /\ "1M" \notin failed /\ range.at >= RangeEnd + RunTTL =>
    range.prev = Yesterday
=============================================================================
