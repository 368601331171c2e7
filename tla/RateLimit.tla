------------------------------ MODULE RateLimit ------------------------------
(***************************************************************************)
(* The limiter of the data providers (data/ratelimit.py) and its counter   *)
(* row in PostgreSQL (db/repositories/rate_limits.py).  acquire looks at   *)
(* the day's count under the limiter's lock, waits for a token of the      *)
(* minute's bucket without it, and then counts: with a database in the row *)
(* of the UTC day, by an UPDATE, an INSERT that yields to a conflict and a *)
(* second UPDATE; without one in its own table, which it saves to a file.  *)
(*                                                                         *)
(* One provider with a daily cap; a token and a second are not the code's  *)
(* but as many as make callers meet.                                       *)
(***************************************************************************)
EXTENDS Integers, FiniteSets

CONSTANTS
  Callers,     \* the threads (and, with a database, processes) that call
  PerDay,      \* Caps.per_day
  PerMinute,   \* Caps.per_min, the bucket's capacity
  LastDay      \* bound on the calendar

CapAssumption == PerDay \in Nat \ {0} /\ PerMinute \in Nat \ {0} /\ LastDay \in Nat

VARIABLES
  database,    \* os.getenv("DATABASE_URL") is set
  today,       \* the calendar
  tokens,      \* the bucket
  limiterDay,  \* RateLimiter._day
  daily,       \* RateLimiter._daily
  file,        \* .ratelimit.json: a day and its count
  row,         \* provider_rate_limits: row[d], or NoRow
  caller,      \* caller[c]: where the acquire of c is, and the day it asked on
  granted      \* granted[d]: acquires of day d that returned

vars == <<database, today, tokens, limiterDay, daily, file, row, caller, granted>>

Days == 0..LastDay
NoRow == -1

At(c, step) == caller[c].at = step
Waiting == {"token", "update", "insert", "retry", "count"}

Go(c, step) == caller' = [caller EXCEPT ![c].at = step]

\* The acquire of c returns: the request may be sent.
Granted(c) ==
  /\ Go(c, "granted")
  /\ granted' = [granted EXCEPT ![caller[c].day] = @ + 1]

-----------------------------------------------------------------------------
(* acquire.                                                                *)

\* _roll_day: what the table and the file hold once the day has changed.
RolledDaily == IF today # limiterDay THEN 0 ELSE daily
RolledFile ==
  IF today # limiterDay /\ ~database THEN [day |-> today, count |-> 0] ELSE file

\* Mutant: the cap is an off-by-one.
AskOffByOne(c) ==
  /\ caller[c].at \in {"idle", "granted", "refused"}
  /\ limiterDay' = today
  /\ daily' = RolledDaily
  /\ file' = RolledFile
  /\ caller' = [caller EXCEPT ![c] =
       [at |-> IF ~database /\ RolledDaily > PerDay THEN "refused" ELSE "token",
        day |-> today]]
  /\ UNCHANGED <<database, today, tokens, row, granted>>

\* Under the limiter's lock: roll the day, and without a database look at the
\* count.
Ask(c) ==
  /\ caller[c].at \in {"idle", "granted", "refused"}
  /\ limiterDay' = today
  /\ daily' = RolledDaily
  /\ file' = RolledFile
  /\ caller' = [caller EXCEPT ![c] =
       [at |-> IF ~database /\ RolledDaily >= PerDay THEN "refused" ELSE "token",
        day |-> today]]
  /\ UNCHANGED <<database, today, tokens, row, granted>>

\* _Bucket.take: a token, or after twelve seconds without one a refusal.  The
\* database's day is read when the count begins.
TakeToken(c) ==
  /\ At(c, "token")
  /\ \/ /\ tokens > 0
        /\ tokens' = tokens - 1
        /\ caller' = [caller EXCEPT ![c] =
             IF database THEN [at |-> "update", day |-> today] ELSE [@ EXCEPT !.at = "count"]]
     \/ tokens = 0 /\ Go(c, "refused") /\ UNCHANGED tokens
  /\ UNCHANGED <<database, today, limiterDay, daily, file, row, granted>>

-----------------------------------------------------------------------------
(* Counting with a database: RateLimitRepository.increment.                *)

\* Mutant: the WHERE clause loses request_count < limit.
CountsUnlimited(c) == row[caller[c].day] # NoRow

\* The row an UPDATE ... WHERE request_count < limit finds.
Counts(c) == row[caller[c].day] \in 0..(PerDay - 1)

Increment(c) ==
  /\ row' = [row EXCEPT ![caller[c].day] = @ + 1]
  /\ Granted(c)

Update(c) ==
  /\ At(c, "update")
  /\ \/ Counts(c) /\ Increment(c)
     \/ ~Counts(c) /\ Go(c, "insert") /\ UNCHANGED <<row, granted>>
  /\ UNCHANGED <<database, today, tokens, limiterDay, daily, file>>

\* Mutant: ON CONFLICT DO UPDATE SET request_count = 1.
InsertOverwriting(c) ==
  /\ At(c, "insert")
  /\ row' = [row EXCEPT ![caller[c].day] = 1]
  /\ Granted(c)
  /\ UNCHANGED <<database, today, tokens, limiterDay, daily, file>>

\* ON CONFLICT DO NOTHING: someone else's row stays as it is.
Insert(c) ==
  /\ At(c, "insert")
  /\ \/ /\ row[caller[c].day] = NoRow
        /\ row' = [row EXCEPT ![caller[c].day] = 1]
        /\ Granted(c)
     \/ row[caller[c].day] # NoRow /\ Go(c, "retry") /\ UNCHANGED <<row, granted>>
  /\ UNCHANGED <<database, today, tokens, limiterDay, daily, file>>

Retry(c) ==
  /\ At(c, "retry")
  /\ \/ Counts(c) /\ Increment(c)
     \/ ~Counts(c) /\ Go(c, "refused") /\ UNCHANGED <<row, granted>>
  /\ UNCHANGED <<database, today, tokens, limiterDay, daily, file>>

\* import_count, when the file of an installation is moved into the database:
\* the larger count stays.
ImportCount ==
  LET old == row[file.day]
  IN  /\ database
      /\ row' = [row EXCEPT ![file.day] = IF old >= file.count THEN old ELSE file.count]
      /\ UNCHANGED <<database, today, tokens, limiterDay, daily, file, caller, granted>>

-----------------------------------------------------------------------------
(* Counting without one.                                                   *)

\* The day is not rolled again: the count goes to the table as it is.
Count(c) ==
  /\ At(c, "count")
  /\ daily' = daily + 1
  /\ file' = [day |-> limiterDay, count |-> daily + 1]
  /\ Granted(c)
  /\ UNCHANGED <<database, today, tokens, limiterDay, row>>

\* Mutant: the count lives in memory only.
RestartForgetful ==
  /\ limiterDay' = today
  /\ daily' = 0
  /\ tokens' = PerMinute
  /\ caller' = [c \in Callers |-> [at |-> "idle", day |-> today]]
  /\ UNCHANGED <<database, today, file, row, granted>>

\* The process is started again: _load takes the file's count if it is today's.
Restart ==
  /\ limiterDay' = today
  /\ daily' = IF ~database /\ file.day = today THEN file.count ELSE 0
  /\ tokens' = PerMinute
  /\ caller' = [c \in Callers |-> [at |-> "idle", day |-> today]]
  /\ UNCHANGED <<database, today, file, row, granted>>

-----------------------------------------------------------------------------

\* Mutant: the refill is not cut at the capacity.
RefillUncapped ==
  /\ tokens' = tokens + 1
  /\ UNCHANGED <<database, today, limiterDay, daily, file, row, caller, granted>>

\* _refill: up to the capacity.
Refill ==
  /\ tokens < PerMinute
  /\ tokens' = tokens + 1
  /\ UNCHANGED <<database, today, limiterDay, daily, file, row, caller, granted>>

Midnight ==
  /\ today < LastDay
  /\ today' = today + 1
  /\ UNCHANGED <<database, tokens, limiterDay, daily, file, row, caller, granted>>

\* A file of an earlier run may be there.
Init ==
  /\ database \in BOOLEAN
  /\ today = 0
  /\ tokens = PerMinute
  /\ limiterDay = 0
  /\ file \in [day : {0}, count : 0..PerDay]
  /\ daily = IF database THEN 0 ELSE file.count
  /\ row = [d \in Days |-> NoRow]
  /\ caller = [c \in Callers |-> [at |-> "idle", day |-> 0]]
  /\ granted = [d \in Days |-> 0]

Step(c) == TakeToken(c) \/ Update(c) \/ Insert(c) \/ Retry(c) \/ Count(c)

Next ==
  \/ \E c \in Callers : Ask(c) \/ Step(c)
  \/ ImportCount \/ Restart \/ Refill \/ Midnight

\* A thread that is in an acquire runs; nobody has to call or to restart.
Fairness == \A c \in Callers : WF_vars(Step(c))
Spec == Init /\ [][Next]_vars /\ Fairness
-----------------------------------------------------------------------------
TypeOK ==
  /\ tokens \in 0..PerMinute
  /\ limiterDay \in 0..today /\ daily \in Nat /\ file \in [day : Days, count : Nat]
  /\ row \in [Days -> Nat \cup {NoRow}]
  /\ caller \in [Callers -> [at : Waiting \cup {"idle", "granted", "refused"}, day : Days]]

\* With a database the cap holds to the request, over any number of processes,
\* restarts and midnights; without one, callers that looked at the count
\* together pass it together, but no more of them than can wait at a time.
Budget == INSTANCE CallBudget
            WITH allowance <- IF database THEN PerDay ELSE PerDay + Cardinality(Callers) - 1

KeepsBudget == Budget!Spec

\* An acquire never waits for ever: it gets its token or gives up, and then is
\* counted or refused (ratelimit.py take, max_wait).
AcquireEnds ==
  \A c \in Callers : caller[c].at \in Waiting ~> caller[c].at \notin Waiting
=============================================================================
