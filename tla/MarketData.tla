----------------------------- MODULE MarketData -----------------------------
(***************************************************************************)
(* One frame of bars and everyone who wants it: fetch_cached of            *)
(* data/providers.py over the PostgreSQL cache of data/cache.py and        *)
(* db/repositories/ohlcv.py.  A fetch looks for a fresh frame (two         *)
(* sessions: the age, then the bars), else asks the limiter, the provider  *)
(* and the cache in turn; whatever goes wrong there, it serves what is     *)
(* stored.  A cache that cannot be read ends it, whatever is stored.       *)
(*                                                                         *)
(* A store deletes the rows its first statement saw and upserts its own.   *)
(* READ COMMITTED: rows another store inserted after that statement began  *)
(* are not deleted, even if it had to wait for that store.  A row keeps    *)
(* the number of the store that inserted it, its stamp is fetched_at.      *)
(***************************************************************************)
EXTENDS Integers, FiniteSets

CONSTANTS
  Readers,     \* threads and processes that want the frame
  LastSnap,    \* the provider's window moves on this often
  Width,       \* bars in a window
  TTL,         \* ttl_for
  MaxStores,   \* bound on the stores begun
  MaxTime      \* bound on the clock

WindowAssumption ==
  /\ LastSnap \in Nat \ {0} /\ Width \in Nat \ {0}
  /\ TTL \in Nat /\ MaxStores \in Nat /\ MaxTime \in Nat

VARIABLES
  clock,
  feed,        \* the snapshot the provider would send now
  rows,        \* ohlcv_bars of the key: bar -> [snap, stamp, by], or NoRow
  stores,      \* stores begun so far
  reader,      \* reader[r]: the fetch of r
  everStored,  \* some store has committed and was not pruned away since
  raced        \* some store began or ended while the running one of r was open

vars == <<clock, feed, rows, stores, reader, everStored, raced>>

Bars == 1..(LastSnap + Width - 1)
Window(s) == s..(s + Width - 1)
NoRow == [snap |-> 0, stamp |-> 0, by |-> 0]
Stored == {b \in Bars : rows[b] # NoRow}
StoreIds == {rows[b].by : b \in Stored}

Stages == {"idle", "age", "bars", "acquire", "fetch", "open", "delete", "upsert",
           "stale", "fresh", "fetched", "notice", "raised", "unread"}
Ends == {"fresh", "fetched", "notice", "raised", "unread"}
InStore(r) == reader[r].at \in {"delete", "upsert"}

Asleep == [at |-> "idle", snap |-> 0, stamp |-> 0, by |-> 0, seen |-> {},
           deleted |-> {}, hadCache |-> FALSE, served |-> {}]

Become(r, changed) == reader' = [reader EXCEPT ![r] = changed]
To(r, stage) == Become(r, [reader[r] EXCEPT !.at = stage])
Serve(r, stage) ==
  Become(r, [reader[r] EXCEPT !.at = stage, !.served = {<<b, rows[b].snap>> : b \in Stored}])

OnlyReader == UNCHANGED <<clock, feed, rows, stores, everStored, raced>>

-----------------------------------------------------------------------------
(* fetch_cached up to the provider.                                        *)

Call(r) ==
  /\ reader[r].at \in Ends \cup {"idle"}
  /\ Become(r, [Asleep EXCEPT !.at = "age", !.hadCache = everStored])
  /\ OnlyReader

\* OhlcvRepository.load: the newest fetched_at of the frame.
LookAtAge(r) ==
  /\ reader[r].at = "age"
  /\ To(r, IF \E b \in Stored : clock - rows[b].stamp <= TTL THEN "bars" ELSE "acquire")
  /\ OnlyReader

\* ... then, in another session, its bars; a frame pruned meanwhile is a miss.
ReadBars(r) ==
  /\ reader[r].at = "bars"
  /\ IF Stored = {} THEN To(r, "acquire") ELSE Serve(r, "fresh")
  /\ OnlyReader

\* LIMITER.acquire: RateLimit says when it refuses.
Acquire(r) ==
  /\ reader[r].at = "acquire"
  /\ To(r, "fetch") \/ To(r, "stale")
  /\ OnlyReader

\* The provider sends its window, or an error, an empty or an invalid frame.
Fetch(r) ==
  /\ reader[r].at = "fetch"
  /\ \/ Become(r, [reader[r] EXCEPT !.at = "open", !.snap = feed])
     \/ To(r, "stale")
  /\ OnlyReader

-----------------------------------------------------------------------------
(* OhlcvRepository.store.                                                  *)

\* The DELETE's statement snapshot.
OpenStore(r) ==
  /\ reader[r].at = "open"
  /\ stores < MaxStores
  /\ stores' = stores + 1
  /\ Become(r, [reader[r] EXCEPT !.at = "delete", !.stamp = clock, !.by = stores + 1,
                                 !.seen = StoreIds])
  /\ raced' = [q \in Readers |-> IF q = r THEN \E p \in Readers : InStore(p)
                                 ELSE raced[q] \/ InStore(q)]
  /\ UNCHANGED <<clock, feed, rows, everStored>>

\* Rows another store is deleting are waited for; what is left of those the
\* statement saw is deleted.
Delete(r) ==
  /\ reader[r].at = "delete"
  /\ \A q \in Readers \ {r} : reader[q].deleted \cap reader[r].seen = {}
  /\ Become(r, [reader[r] EXCEPT !.at = "upsert",
                                 !.deleted = reader[r].seen \cap StoreIds])
  /\ OnlyReader

\* Mutant: the frame is upserted without the DELETE.
AfterStoreMerging(me, b) ==
  IF b \in Window(me.snap) THEN [snap |-> me.snap, stamp |-> me.stamp, by |-> me.by]
  ELSE rows[b]

\* A bar of the window is inserted, or updated where a row is in the way.
AfterStore(me, b) ==
  LET kept == rows[b] # NoRow /\ rows[b].by \notin me.deleted
  IN  IF b \in Window(me.snap)
        THEN [snap |-> me.snap, stamp |-> me.stamp,
              by |-> IF kept THEN rows[b].by ELSE me.by]
        ELSE IF kept THEN rows[b] ELSE NoRow

\* Mutant: the DELETE is committed on its own before the INSERT.
UpsertSeparately(r) ==
  /\ reader[r].at = "upsert"
  /\ IF \E b \in Stored : rows[b].by \in reader[r].deleted
       THEN /\ rows' = [b \in Bars |-> IF rows[b].by \in reader[r].deleted THEN NoRow
                                       ELSE rows[b]]
            /\ UNCHANGED <<clock, feed, stores, reader, everStored, raced>>
       ELSE /\ rows' = [b \in Bars |-> AfterStore(reader[r], b)]
            /\ everStored' = TRUE
            /\ Become(r, [reader[r] EXCEPT !.at = "fetched", !.deleted = {}])
            /\ UNCHANGED <<clock, feed, stores, raced>>

\* INSERT ... ON CONFLICT DO UPDATE and the commit.
Upsert(r) ==
  /\ reader[r].at = "upsert"
  /\ \A q \in Readers \ {r}, b \in Window(reader[r].snap) :
       rows[b] # NoRow => rows[b].by \notin reader[q].deleted \ reader[r].deleted
  /\ rows' = [b \in Bars |-> AfterStore(reader[r], b)]
  /\ everStored' = TRUE
  /\ Become(r, [reader[r] EXCEPT !.at = "fetched", !.deleted = {}])
  /\ UNCHANGED <<clock, feed, stores, raced>>

\* The store fails: rolled back, and the frame just fetched is dropped too.
StoreFails(r) ==
  /\ reader[r].at \in {"open", "delete", "upsert"}
  /\ Become(r, [reader[r] EXCEPT !.at = "stale", !.deleted = {}])
  /\ OnlyReader

\* Mutant: the fallback looks for a fresh frame once more.
ServeStaleIfFresh(r) ==
  /\ reader[r].at = "stale"
  /\ IF \E b \in Stored : clock - rows[b].stamp <= TTL
       THEN Serve(r, "notice") ELSE To(r, "raised")
  /\ OnlyReader

\* Whatever failed: the stored frame whatever its age, with a notice.
ServeStale(r) ==
  /\ reader[r].at = "stale"
  /\ IF Stored = {} THEN To(r, "raised") ELSE Serve(r, "notice")
  /\ OnlyReader

\* The database does not answer a read.  cache.load stands outside the try and
\* cache.load_stale in its handler: the error leaves fetch_cached.
ReadFails(r) ==
  /\ reader[r].at \in {"age", "bars", "stale"}
  /\ To(r, "unread")
  /\ OnlyReader

-----------------------------------------------------------------------------

\* OhlcvRepository.prune, from scripts/prune_history.py: its cut-off is days
\* back, the stamps of one frame are seconds apart, so it takes all or nothing.
Prune(before) ==
  /\ Stored # {}
  /\ \A b \in Stored : rows[b].stamp < before
  /\ \A r \in Readers : reader[r].deleted = {}
  /\ rows' = [b \in Bars |-> NoRow]
  /\ everStored' = FALSE
  /\ reader' = [r \in Readers |-> [reader[r] EXCEPT !.hadCache = FALSE]]
  /\ UNCHANGED <<clock, feed, stores, raced>>

Tick == clock < MaxTime /\ clock' = clock + 1
        /\ UNCHANGED <<feed, rows, stores, reader, everStored, raced>>

Move == feed < LastSnap /\ feed' = feed + 1
        /\ UNCHANGED <<clock, rows, stores, reader, everStored, raced>>

Init ==
  /\ clock = 0 /\ feed = 1 /\ stores = 0
  /\ rows = [b \in Bars |-> NoRow]
  /\ reader = [r \in Readers |-> Asleep]
  /\ everStored = FALSE
  /\ raced = [r \in Readers |-> FALSE]

Work(r) ==
  \/ LookAtAge(r) \/ ReadBars(r) \/ Acquire(r) \/ Fetch(r)
  \/ OpenStore(r) \/ Delete(r) \/ Upsert(r) \/ ServeStale(r)

Next ==
  \/ \E r \in Readers : Call(r) \/ Work(r) \/ StoreFails(r) \/ ReadFails(r)
  \/ \E before \in 1..MaxTime : Prune(before)
  \/ Tick \/ Move

\* A thread inside a fetch runs on.  A store or a read may fail, not must:
\* only where the bound on the stores ends the model does failing stand in.
OutOfStores(r) == stores = MaxStores /\ reader[r].at = "open" /\ StoreFails(r)
Fairness == \A r \in Readers : WF_vars(Work(r)) /\ WF_vars(OutOfStores(r))

Spec == Init /\ [][Next]_vars /\ Fairness
-----------------------------------------------------------------------------
TypeOK ==
  /\ rows \in [Bars -> [snap : 0..LastSnap, stamp : 0..MaxTime, by : 0..MaxStores]]
  /\ \A r \in Readers : /\ reader[r].at \in Stages
                        /\ reader[r].seen \subseteq 1..stores
                        /\ reader[r].deleted \subseteq reader[r].seen

\* Whatever stores and failures it meets, a frame that is served holds one
\* provider window whole (ohlcv.py store: replaced "atomically").
ServesAWholeWindow ==
  \A r \in Readers :
    reader[r].at \in {"fresh", "notice"} =>
      \E s \in 1..LastSnap : \A b \in Window(s) :
        <<b, s>> \in reader[r].served

\* A store that no other store overlapped leaves exactly its own window: bars
\* of two windows stay together only after two stores at a time.
LoneStoreReplaces ==
  [][\A r \in Readers :
       reader[r].at = "upsert" /\ reader'[r].at = "fetched" /\ ~raced'[r] =>
         /\ {b \in Bars : rows'[b] # NoRow} = Window(reader[r].snap)
         /\ \A b \in Window(reader[r].snap) : rows'[b].snap = reader[r].snap]_vars

\* "only raise if there is no cache at all" (providers.py:36): a fetch that
\* began when a frame was stored, and was not pruned since, serves one, or could
\* not read the cache at all, which the sentence passes over.
RaisesOnlyWithoutCache ==
  \A r \in Readers : reader[r].at = "raised" => ~reader[r].hadCache

\* No fetch hangs: not on the limiter, not on another store's rows.
FetchEnds ==
  \A r \in Readers :
    reader[r].at \notin Ends \cup {"idle"} ~> reader[r].at \in Ends
=============================================================================
