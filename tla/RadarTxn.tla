------------------------------ MODULE RadarTxn ------------------------------
(***************************************************************************)
(* One radar (one user and one of the user's tickers) written by two kinds *)
(* of process: the background worker, whose whole write phase              *)
(* (radar_worker.process_analysis) is ONE transaction, and browser tabs    *)
(* (app._radar_body), whose every repository call is a transaction of its  *)
(* own.  The radar's owner and an administrator change the assignment and  *)
(* the account underneath them.                                            *)
(*                                                                         *)
(* PostgreSQL is modelled from how the code uses it, READ COMMITTED:       *)
(* FOR UPDATE locks on the user, the radar item and the trade rows; the    *)
(* KEY SHARE lock an INSERT takes on the user it references; an INSERT     *)
(* waiting for an uncommitted row with the same unique key; the deadlock   *)
(* detector.  A transaction with one lock and no later wait is one step.   *)
(***************************************************************************)
EXTENDS Integers, Sequences, FiniteSets

CONSTANTS
  Workers,     \* worker processes; the lease is there to keep this to one
  Tabs,        \* browser sessions of the user
  Bots,        \* the traders in the order in which both run them, a sequence
  ManagedBots, \* the traders whose rows are managed
  Levels,      \* swingwatch.LEVELS
  None

Actors == Workers \cup Tabs
Traders == {Bots[i] : i \in 1..Len(Bots)}

ASSUME ActorsAssumption ==
  /\ Workers \cap Tabs = {} /\ None \notin Actors
  /\ IsFiniteSet(Workers) /\ IsFiniteSet(Tabs)
ASSUME BotsAssumption ==
  /\ Bots \in Seq(Traders)
  /\ \A i, j \in 1..Len(Bots) : Bots[i] = Bots[j] => i = j
  /\ ManagedBots \subseteq Traders
ASSUME LevelsAssumption == Levels \subseteq Nat \ {0} /\ None \notin Nat

VARIABLES
  userActive,  \* users.is_active
  tracked,     \* the swing_watch_items row exists
  level,       \* its last_notice_level
  journal,     \* paper_trades rows of one day: [by, level]
  held,        \* held[tr]: committed open or pending rows of the trader
  userLock,    \* who holds FOR UPDATE on the users row
  itemLock,    \* ... on the swing_watch_items row
  rowLock,     \* ... on the active row of each trader
  pc,          \* the statement an actor is about to run
  pos,         \* its place in Bots
  claim,       \* worker: uncommitted level; tab: notice not yet recorded
  ins,         \* its uncommitted trade rows
  del,         \* the rows it has closed and not committed
  noticed,     \* history: levels whose notice was claimed and committed
  lost         \* history: notices held by a tab that died

assignment == <<userActive, tracked>>
locks == <<userLock, itemLock, rowLock>>
local == <<pc, pos, claim, ins, del>>
history == <<noticed, lost>>
vars == <<userActive, tracked, level, journal, held, locks, local, history>>

Idle(a) == pc[a] = "idle"

-----------------------------------------------------------------------------
(* Statements shared by the worker and the tabs.                           *)

Goto(a, where) == pc' = [pc EXCEPT ![a] = where]

Unlock(lock, a) == IF lock = a THEN None ELSE lock

\* COMMIT or ROLLBACK gives back every lock.
Release(a) ==
  /\ userLock' = Unlock(userLock, a)
  /\ itemLock' = Unlock(itemLock, a)
  /\ rowLock' = [tr \in Traders |-> Unlock(rowLock[tr], a)]

Forget(a) ==
  /\ pos' = [pos EXCEPT ![a] = 1]
  /\ claim' = [claim EXCEPT ![a] = None]
  /\ ins' = [ins EXCEPT ![a] = {}]
  /\ del' = [del EXCEPT ![a] = {}]

\* ROLLBACK, and nothing left to do.
Rollback(a) ==
  /\ Release(a)
  /\ Forget(a)
  /\ Goto(a, "idle")
  /\ UNCHANGED <<assignment, level, journal, held, noticed>>

\* The other actors whose uncommitted insert or close of tr an insert waits for.
KeyHolders(a, tr) == {b \in Actors \ {a} : tr \in ins[b] \cup del[b]}

\* Mutant: an index that is not unique.
KeyNeverTaken(tr) == FALSE

\* uq_trade_active_owner_ticker_trader refuses the row.
KeyTaken(tr) == held[tr] > 0

NextBot(a) ==
  /\ pos' = [pos EXCEPT ![a] = @ + 1]
  /\ Goto(a, "bots")

\* One trader of the bots' loops: its rule does not fire, or has_open is asked.
CheckBot(a) ==
  /\ pc[a] = "bots" /\ pos[a] <= Len(Bots)
  /\ \/ NextBot(a)
     \/ /\ held[Bots[pos[a]]] = 0
        /\ Goto(a, "insert")
        /\ UNCHANGED pos
  /\ UNCHANGED <<assignment, level, journal, held, locks, claim, ins, del, history>>

\* The INSERT meets a committed active row: IntegrityError, swallowed.  The
\* worker rolls back to its savepoint, the tab its one-row transaction.
InsertRefused(a) ==
  /\ pc[a] = "insert"
  /\ KeyHolders(a, Bots[pos[a]]) = {}
  /\ KeyTaken(Bots[pos[a]])
  /\ NextBot(a)
  /\ UNCHANGED <<assignment, level, journal, held, locks, claim, ins, del, history>>

\* The row and its index entry are in; the tab still has to lock the user.
InsertEntered(a) ==
  /\ pc[a] = "insert"
  /\ KeyHolders(a, Bots[pos[a]]) = {}
  /\ ~KeyTaken(Bots[pos[a]])
  /\ ins' = [ins EXCEPT ![a] = @ \cup {Bots[pos[a]]}]
  /\ IF a \in Workers
       THEN NextBot(a)
       ELSE Goto(a, "fk") /\ UNCHANGED pos
  /\ UNCHANGED <<assignment, level, journal, held, locks, claim, del, history>>

\* The rows that a's current SELECT ... FOR UPDATE still has to lock.  Closed
\* rows drop out: the WHERE clause is evaluated again after a wait.
ToLock(a) ==
  {tr \in IF pc[a] = "manage" THEN ManagedBots
          ELSE IF pc[a] = "mark" THEN Traders ELSE {} :
     held[tr] > 0 /\ tr \notin del[a] /\ rowLock[tr] # a}

\* Rows are locked one by one, in the order the scan meets them.
LockRow(a) ==
  /\ \E tr \in ToLock(a) :
       rowLock[tr] = None /\ rowLock' = [rowLock EXCEPT ![tr] = a]
  /\ UNCHANGED <<assignment, level, journal, held, userLock, itemLock, local, history>>

Mine(a) == {tr \in Traders : rowLock[tr] = a}

\* Mutant: rows are closed that another transaction has locked.
ClosableUnlocked(a) == IF pc[a] = "manage" THEN ManagedBots ELSE Traders

\* The rows a's statement may close, once it has them all.
Closable(a) ==
  (IF pc[a] = "manage" THEN ManagedBots ELSE Traders) \cap Mine(a)

\* Counting the effect of a's committed inserts and closes.
Book(opens, closes) ==
  [tr \in Traders |-> held[tr] + (IF tr \in opens THEN 1 ELSE 0)
                               - (IF tr \in closes THEN 1 ELSE 0)]

-----------------------------------------------------------------------------
(* The worker: radar_worker.process_analysis.                              *)

\* list_assignments returned this radar and its analysis succeeded; both may be
\* old by the time the transaction starts.
WorkerStart(w) ==
  /\ Idle(w) /\ userActive /\ tracked
  /\ Goto(w, "lockUser")
  /\ UNCHANGED <<assignment, level, journal, held, locks, pos, claim, ins, del, history>>

\* Mutant: the user's is_active is not read again under the lock.
LockUserUnchecked(w) ==
  /\ pc[w] = "lockUser" /\ userLock = None
  /\ userLock' = w /\ Goto(w, "lockItem")
  /\ UNCHANGED <<assignment, level, journal, held, itemLock, rowLock,
                 pos, claim, ins, del, history>>

\* Mutant: the prefilter's answer is trusted, the user is not locked.
LockUserSkipped(w) ==
  /\ pc[w] = "lockUser" /\ userLock = None
  /\ Goto(w, "lockItem")
  /\ UNCHANGED <<assignment, level, journal, held, locks, pos, claim, ins, del, history>>

\* lock_active_assignment: first the user ...
LockUser(w) ==
  /\ pc[w] = "lockUser" /\ userLock = None
  /\ IF userActive
       THEN /\ userLock' = w /\ Goto(w, "lockItem")
            /\ UNCHANGED <<assignment, level, journal, held, itemLock, rowLock,
                           pos, claim, ins, del, history>>
       ELSE Rollback(w) /\ UNCHANGED lost

\* Mutant: the item is read without FOR UPDATE.
LockItemUnlocked(w) ==
  /\ pc[w] = "lockItem" /\ itemLock = None
  /\ IF tracked
       THEN /\ Goto(w, "claim")
            /\ UNCHANGED <<assignment, level, journal, held, locks,
                           pos, claim, ins, del, history>>
       ELSE Rollback(w) /\ UNCHANGED lost

\* Mutant: an item that is gone is waited for.
LockItemAwaited(w) ==
  /\ pc[w] = "lockItem" /\ itemLock = None /\ tracked
  /\ itemLock' = w /\ Goto(w, "claim")
  /\ UNCHANGED <<assignment, level, journal, held, userLock, rowLock,
                 pos, claim, ins, del, history>>

\* ... then the item; an assignment that is gone ends the phase.
LockItem(w) ==
  /\ pc[w] = "lockItem" /\ itemLock = None
  /\ IF tracked
       THEN /\ itemLock' = w /\ Goto(w, "claim")
            /\ UNCHANGED <<assignment, level, journal, held, userLock, rowLock,
                           pos, claim, ins, del, history>>
       ELSE Rollback(w) /\ UNCHANGED lost

\* claim_notice_and_record under both locks: the level is swapped, whatever it
\* was; the journal row of a new notice is part of the commit.
WorkerClaim(w) ==
  /\ pc[w] = "claim"
  /\ \E new \in Levels \cup {0} : claim' = [claim EXCEPT ![w] = new]
  /\ Goto(w, "bots")
  /\ UNCHANGED <<assignment, level, journal, held, locks, pos, ins, del, history>>

\* The bots are done; manage, then mark, then the commit, keeping every lock.
\* Without a price the commit comes at once.
WorkerBotsDone(w) ==
  /\ pc[w] = "bots" /\ pos[w] > Len(Bots)
  /\ Goto(w, "manage") \/ Goto(w, "commit")
  /\ UNCHANGED <<assignment, level, journal, held, locks, pos, claim, ins, del, history>>

WorkerRowsDone(w) ==
  /\ pc[w] \in {"manage", "mark"} /\ ToLock(w) = {}
  /\ \E closes \in SUBSET (Closable(w) \ del[w]) :
       del' = [del EXCEPT ![w] = @ \cup closes]
  /\ Goto(w, IF pc[w] = "manage" THEN "mark" ELSE "commit")
  /\ UNCHANGED <<assignment, level, journal, held, locks, pos, claim, ins, history>>

\* Mutant: the notice is committed and its journal row is left for later.
NoRadarRow(new) == {}

\* The journal row of a notice, keyed by source_id: at most one a day and level.
RadarRow(new) == IF new > level THEN {[by |-> "radar", level |-> new]} ELSE {}

WorkerCommit(w) ==
  /\ pc[w] = "commit"
  /\ level' = claim[w]
  /\ journal' = journal \cup RadarRow(claim[w])
  /\ noticed' = noticed \cup (IF claim[w] > level THEN {claim[w]} ELSE {})
  /\ held' = Book(ins[w], del[w])
  /\ Release(w) /\ Forget(w) /\ Goto(w, "idle")
  /\ UNCHANGED <<assignment, lost>>

\* An exception anywhere in the phase, a lost connection, a killed process.
WorkerFails(w) ==
  /\ ~Idle(w)
  /\ Rollback(w) /\ UNCHANGED lost

-----------------------------------------------------------------------------
(* A browser tab: one run of app._radar_body for the ticker.               *)

TabStart(t) ==
  /\ Idle(t) /\ userActive /\ tracked
  /\ Goto(t, "claim")
  /\ UNCHANGED <<assignment, level, journal, held, locks, pos, claim, ins, del, history>>

\* swingwatch.claim_notice, a transaction of its own.
TabClaim(t) ==
  /\ pc[t] = "claim" /\ itemLock = None
  /\ \/ /\ ~tracked
        /\ Goto(t, "bots")
        /\ UNCHANGED <<level, claim, noticed>>
     \/ /\ tracked
        /\ \E new \in Levels \cup {0} :
             /\ level' = new
             /\ IF new > level
                  THEN /\ claim' = [claim EXCEPT ![t] = new]
                       /\ noticed' = noticed \cup {new}
                       /\ Goto(t, "record")
                  ELSE Goto(t, "bots") /\ UNCHANGED <<claim, noticed>>
  /\ UNCHANGED <<assignment, journal, held, locks, pos, ins, del, lost>>

\* papertrade.record, the next transaction: not stored if the ticker already
\* has a row of that level within the day; a new row's foreign key waits for
\* the user.
TabRecord(t) ==
  /\ pc[t] = "record"
  /\ \/ /\ \E r \in journal : r.level = claim[t]
        /\ UNCHANGED journal
     \/ /\ \A r \in journal : r.level # claim[t]
        /\ userLock = None
        /\ journal' = journal \cup {[by |-> "tab", level |-> claim[t]]}
  /\ claim' = [claim EXCEPT ![t] = None]
  /\ Goto(t, "bots")
  /\ UNCHANGED <<assignment, level, held, locks, pos, ins, del, history>>

\* The foreign key of the new row: KEY SHARE on the user, then COMMIT.
TabForeignKey(t) ==
  /\ pc[t] = "fk" /\ userLock = None
  /\ held' = Book(ins[t], {})
  /\ ins' = [ins EXCEPT ![t] = {}]
  /\ NextBot(t)
  /\ UNCHANGED <<assignment, level, journal, locks, claim, del, history>>

\* All bots done; without a price there is nothing to manage or mark.
TabBotsDone(t) ==
  /\ pc[t] = "bots" /\ pos[t] > Len(Bots)
  /\ \/ Goto(t, "manage") /\ UNCHANGED <<locks, pos, claim, ins, del>>
     \/ Goto(t, "idle") /\ Release(t) /\ Forget(t)
  /\ UNCHANGED <<assignment, level, journal, held, history>>

\* manage and mark, a transaction each.
TabRowsDone(t) ==
  /\ pc[t] \in {"manage", "mark"} /\ ToLock(t) = {}
  /\ \E closes \in SUBSET Closable(t) : held' = Book({}, closes)
  /\ Release(t)
  /\ \/ pc[t] = "manage" /\ Goto(t, "mark") /\ UNCHANGED <<pos, claim, ins, del>>
     \/ pc[t] = "mark" /\ Goto(t, "idle") /\ Forget(t)
  /\ UNCHANGED <<assignment, level, journal, history>>

\* The script run ends early: the browser leaves, a rerun interrupts it, an
\* exception escapes.  A claimed notice that was not recorded yet is gone.
TabDies(t) ==
  /\ ~Idle(t)
  /\ lost' = IF pc[t] = "record" THEN lost \cup {claim[t]} ELSE lost
  /\ Rollback(t)

-----------------------------------------------------------------------------
(* The owner and the administrator, and the database's deadlock detector.  *)

\* swingwatch.add: a fresh item, whose foreign key needs the user.
AddRadar ==
  /\ ~tracked /\ userLock = None /\ userActive
  /\ tracked' = TRUE /\ level' = 0
  /\ UNCHANGED <<userActive, journal, held, locks, local, history>>

RemoveRadar ==
  /\ tracked /\ itemLock = None
  /\ tracked' = FALSE /\ level' = 0
  /\ UNCHANGED <<userActive, journal, held, locks, local, history>>

\* user_management.set_active.
SetActive ==
  /\ userLock = None
  /\ userActive' = ~userActive
  /\ UNCHANGED <<tracked, level, journal, held, locks, local, history>>

\* The portfolio panel's Close button.
ClosePosition(tr) ==
  /\ held[tr] > 0 /\ rowLock[tr] = None
  /\ held' = Book({}, {tr})
  /\ UNCHANGED <<assignment, level, journal, locks, local, history>>

\* Who a's next statement waits for.
WaitsFor(a) ==
  CASE pc[a] \in {"lockUser", "fk"} -> {userLock} \ {None}
    [] pc[a] = "record" ->
         IF \E r \in journal : r.level = claim[a] THEN {} ELSE {userLock} \ {None}
    [] pc[a] \in {"lockItem", "claim"} -> {itemLock} \ {None, a}
    [] pc[a] = "insert" -> KeyHolders(a, Bots[pos[a]])
    [] pc[a] \in {"manage", "mark"} ->
         IF \E tr \in ToLock(a) : rowLock[tr] = None THEN {}
         ELSE {rowLock[tr] : tr \in ToLock(a)}
    [] OTHER -> {}

\* a waits, through others, for itself.
InCycle(a) ==
  \E n \in 1..Cardinality(Actors) : \E p \in [0..n -> Actors] :
    /\ p[0] = a /\ p[n] = a
    /\ \A i \in 0..(n - 1) : p[i + 1] \in WaitsFor(p[i])

\* The detector aborts one transaction of the cycle.  The worker loses its whole
\* phase (an OperationalError is not an IntegrityError); in a tab the bots' loop
\* swallows it and goes on, manage and mark let it end the run.
Victim(a) ==
  /\ WaitsFor(a) # {} /\ InCycle(a)
  /\ IF a \in Tabs /\ pc[a] \in {"insert", "fk"}
       THEN /\ ins' = [ins EXCEPT ![a] = {}]
            /\ NextBot(a)
            /\ UNCHANGED <<assignment, level, journal, held, locks, claim, del, history>>
       ELSE Rollback(a) /\ UNCHANGED lost

-----------------------------------------------------------------------------

Init ==
  /\ userActive = TRUE /\ tracked = TRUE /\ level = 0
  /\ journal = {}
  /\ held = [tr \in Traders |-> 0]
  /\ userLock = None /\ itemLock = None
  /\ rowLock = [tr \in Traders |-> None]
  /\ pc = [a \in Actors |-> "idle"]
  /\ pos = [a \in Actors |-> 1]
  /\ claim = [a \in Actors |-> None]
  /\ ins = [a \in Actors |-> {}]
  /\ del = [a \in Actors |-> {}]
  /\ noticed = {} /\ lost = {}

WorkerStep(w) ==
  \/ LockUser(w) \/ LockItem(w) \/ WorkerClaim(w)
  \/ CheckBot(w) \/ InsertRefused(w) \/ InsertEntered(w) \/ WorkerBotsDone(w)
  \/ LockRow(w) \/ WorkerRowsDone(w) \/ WorkerCommit(w)

TabStep(t) ==
  \/ TabClaim(t) \/ TabRecord(t)
  \/ CheckBot(t) \/ InsertRefused(t) \/ InsertEntered(t) \/ TabForeignKey(t)
  \/ TabBotsDone(t) \/ LockRow(t) \/ TabRowsDone(t)

Next ==
  \/ \E w \in Workers : WorkerStart(w) \/ WorkerStep(w) \/ WorkerFails(w)
  \/ \E t \in Tabs : TabStart(t) \/ TabStep(t) \/ TabDies(t)
  \/ \E a \in Actors : Victim(a)
  \/ AddRadar \/ RemoveRadar \/ SetActive
  \/ \E tr \in Traders : ClosePosition(tr)

Spec == Init /\ [][Next]_vars

\* A transaction that can run does; PostgreSQL wakes the waiter when a holder is
\* done, so a worker whose turn comes back again and again gets it; the detector
\* looks at every waiter after deadlock_timeout.
Fairness ==
  /\ \A w \in Workers : SF_vars(WorkerStep(w))
  /\ \A t \in Tabs : WF_vars(TabStep(t))
  /\ \A a \in Actors : WF_vars(Victim(a))

FairSpec == Spec /\ Fairness
-----------------------------------------------------------------------------
(* Properties.                                                             *)

\* Steps, levels and locks have their shape; only a worker keeps the user or the
\* item locked between two steps.
TypeOK ==
  /\ userActive \in BOOLEAN /\ tracked \in BOOLEAN
  /\ level \in Levels \cup {0}
  /\ journal \subseteq [by : {"radar", "tab"}, level : Levels]
  /\ held \in [Traders -> Nat]
  /\ userLock \in Workers \cup {None} /\ itemLock \in Workers \cup {None}
  /\ rowLock \in [Traders -> Actors \cup {None}]
  /\ pc \in [Actors -> {"idle", "lockUser", "lockItem", "claim", "record", "bots",
                        "insert", "fk", "manage", "mark", "commit"}]
  /\ pos \in [Actors -> 1..(Len(Bots) + 1)]
  /\ claim \in [Actors -> Levels \cup {0, None}]
  /\ ins \in [Actors -> SUBSET Traders] /\ del \in [Actors -> SUBSET Traders]
  /\ noticed \subseteq Levels /\ lost \subseteq Levels

\* However the worker and the tabs interleave between has_open and the insert,
\* a trader never has two active rows, committed or about to be committed
\* (db/models.py, the partial unique index).
OnePositionPerTrader ==
  \A tr \in Traders :
    /\ held[tr] \in {0, 1}
    /\ Cardinality({a \in Actors : tr \in ins[a]}) + held[tr] <= 1

\* The worker never commits a write for a radar that was removed or an account
\* that was disabled while the ticker was being analysed (radar_worker.py: the
\* locked check is authoritative).
WorkerWritesOnlyForOwners ==
  [][\A w \in Workers : WorkerCommit(w) => userActive /\ tracked]_vars

\* While a worker is past its locks nobody changes the radar's assignment, its
\* notice level or commits a new position of the user: every such step waits for
\* the user or the item.
PhaseIsIsolated ==
  [][\A w \in Workers :
       pc[w] \notin {"idle", "lockUser", "lockItem"} /\ pc'[w] # "idle" =>
         /\ UNCHANGED <<userActive, tracked, level>>
         /\ \A tr \in Traders : held'[tr] <= held[tr]]_vars

\* The worker's has_open is decisive: under the user lock no row of the trader
\* can be committed between has_open and the insert, so a committed duplicate is
\* never what the worker's insert meets.
WorkerNeverRefused ==
  \A w \in Workers : pc[w] = "insert" => ~KeyTaken(Bots[pos[w]])

\* A claimed notice is in the journal, or a tab is just about to write it, or
\* the tab that was to write it died: the worker loses none, whenever it crashes
\* or is rolled back (radar_worker.py claim_notice_and_record).
NoticeMissingOnlyIfTabDied ==
  \A l \in noticed :
    \/ \E r \in journal : r.level = l
    \/ \E t \in Tabs : pc[t] = "record" /\ claim[t] = l
    \/ l \in lost

\* Every write phase of the worker ends, committed or rolled back, whatever the
\* tabs lock meanwhile.
WorkerPhaseEnds == \A w \in Workers : ~Idle(w) ~> Idle(w)

\* What papertrade.py's first line says, "every radar notice is recorded": a
\* claimed notice is in the journal or about to be.
EveryNoticeRecorded ==
  \A l \in noticed :
    \/ \E r \in journal : r.level = l
    \/ \E t \in Tabs : pc[t] = "record" /\ claim[t] = l

\* What _open_position's comment says of the race with the UI between has_open
\* and the flush: the index is the final guard, the insert is refused and the
\* phase goes on.  So the worker's insert never deadlocks with a tab.
OpenRaceEndsInIndex ==
  \A w \in Workers : pc[w] = "insert" => ~InCycle(w)
=============================================================================
