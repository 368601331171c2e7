------------------------------ MODULE ApiLookup ------------------------------
(***************************************************************************)
(* A question to Finnhub behind its cache: next_earnings and company_info  *)
(* of data/finnhub.py over db/repositories/api_cache.py, or over the       *)
(* process's own table without a database.  A request that fails comes     *)
(* back as "nothing", and that is stored like an answer.                   *)
(*                                                                         *)
(* put looks for the row and then adds or updates it in one session; two   *)
(* callers that both find nothing both add, and the second commit fails.   *)
(***************************************************************************)
EXTENDS Integers

CONSTANTS
  Askers,
  RowTTL,      \* how long a row of the database is served
  TableTTL,    \* how long an entry of the process's table is
  MaxTime

AgesAssumption == RowTTL \in Nat /\ TableTTL \in Nat

VARIABLES
  database,    \* DATABASE_URL is set
  clock,
  known,       \* the provider has an answer to give
  entry,       \* the cached value and until when it is served, or NoEntry
  asker,       \* asker[a]: where the lookup of a is
  said         \* when the provider (or its failure) last said "nothing"

vars == <<database, clock, known, entry, asker, said>>

NoEntry == [value |-> "none", until |-> -1]
Values == {"answer", "nothing"}
Stages == {"idle", "ask", "put", "add", "update", "done", "raised"}
Resting == {"idle", "done", "raised"}

KeptFor == IF database THEN RowTTL ELSE TableTTL

Set(a, stage, value) ==
  asker' = [asker EXCEPT ![a].at = stage, ![a].value = value]

\* Mutant: get with allow_expired.
ServedEvenExpired == entry # NoEntry

\* ApiCacheRepository.get and _load_cache: an expired entry is a miss.
Served ==
  /\ entry # NoEntry
  /\ IF database THEN clock < entry.until ELSE clock <= entry.until

Look(a) ==
  /\ asker[a].at \in Resting
  /\ IF Served THEN Set(a, "done", entry.value) ELSE Set(a, "ask", "none")
  /\ UNCHANGED <<database, clock, known, entry, said>>

\* _get: an error, a status other than 200 and an empty answer look the same.
Ask(a) ==
  /\ asker[a].at = "ask"
  /\ \/ known /\ Set(a, "put", "answer") /\ UNCHANGED said
     \/ Set(a, "put", "nothing") /\ said' = clock
  /\ UNCHANGED <<database, clock, known, entry>>

\* _store_cache: the table just takes the entry; put looks for its row first.
Put(a) ==
  /\ asker[a].at = "put"
  /\ IF database
       THEN /\ Set(a, IF entry = NoEntry THEN "add" ELSE "update", asker[a].value)
            /\ UNCHANGED entry
       ELSE /\ entry' = [value |-> asker[a].value, until |-> clock + KeptFor]
            /\ Set(a, "done", asker[a].value)
  /\ UNCHANGED <<database, clock, known, said>>

\* The commit: a row added meanwhile breaks the key of an add, a row pruned
\* meanwhile leaves an update without its row; either loses the whole lookup.
Commit(a) ==
  /\ asker[a].at \in {"add", "update"}
  /\ IF (asker[a].at = "add") = (entry = NoEntry)
       THEN /\ entry' = [value |-> asker[a].value, until |-> clock + KeptFor]
            /\ Set(a, "done", asker[a].value)
       ELSE Set(a, "raised", asker[a].value) /\ UNCHANGED entry
  /\ UNCHANGED <<database, clock, known, said>>

\* prune_expired.
Prune ==
  /\ database
  /\ entry # NoEntry
  /\ entry.until <= clock
  /\ entry' = NoEntry
  /\ UNCHANGED <<database, clock, known, asker, said>>

\* The provider learns of a date, or it passes.
Turn == known' = ~known /\ UNCHANGED <<database, clock, entry, asker, said>>

\* A lookup takes no time on a clock of half hours.
Tick ==
  /\ clock < MaxTime
  /\ \A a \in Askers : asker[a].at \in Resting
  /\ clock' = clock + 1
  /\ asker' = [a \in Askers |-> [at |-> "idle", value |-> "none"]]
  /\ UNCHANGED <<database, known, entry, said>>

Init ==
  /\ database \in BOOLEAN
  /\ clock = 0
  /\ known = TRUE
  /\ entry = NoEntry
  /\ asker = [a \in Askers |-> [at |-> "idle", value |-> "none"]]
  /\ said = -1

Next ==
  \/ \E a \in Askers : Look(a) \/ Ask(a) \/ Put(a) \/ Commit(a)
  \/ Prune \/ Turn \/ Tick

Spec == Init /\ [][Next]_vars
-----------------------------------------------------------------------------
TypeOK ==
  /\ entry.value \in Values \cup {"none"}
  /\ \A a \in Askers : asker[a].at \in Stages /\ asker[a].value \in Values \cup {"none"}

\* A lookup says "nothing" only within the cache's time of a failure or of a
\* real nothing: a failed request hides a known earnings date that long and no
\* longer (finnhub.py next_earnings: "" is cached whatever it came from).
NothingIsRecent ==
  \A a \in Askers :
    asker[a].at = "done" /\ asker[a].value = "nothing" =>
      said >= 0 /\ clock - said <= KeptFor
=============================================================================
