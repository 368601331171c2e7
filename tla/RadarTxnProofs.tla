---------------------------- MODULE RadarTxnProofs ----------------------------
(***************************************************************************)
(* Proofs about RadarTxn for any number of workers and tabs and any        *)
(* sequence of bots.  Everything follows from who holds what: a worker     *)
(* past its first statements holds the user and the item, an uncommitted   *)
(* row has no committed one beside it and no second uncommitted one, and a *)
(* row is closed only by whoever has it locked.                            *)
(***************************************************************************)
EXTENDS RadarTxn, FiniteSetTheorems, TLAPS

\* What a worker holds at its place in the phase, and what it has read there.
WorkersHold ==
  \A w \in Workers :
    /\ pc[w] \notin {"record", "fk"}
    /\ pc[w] \notin {"idle", "lockUser"} => userLock = w /\ userActive
    /\ pc[w] \notin {"idle", "lockUser", "lockItem"} => itemLock = w /\ tracked
    /\ pc[w] \notin {"idle", "lockUser", "lockItem", "claim"} => claim[w] # None
    /\ pc[w] = "insert" => held[Bots[pos[w]]] = 0

\* A tab keeps nothing between its transactions: a row that is not committed
\* only while it waits for the user, row locks only in manage and mark.
TabsHold ==
  \A t \in Tabs :
    /\ pc[t] \notin {"lockUser", "lockItem", "commit"}
    /\ pc[t] = "record" => claim[t] \in Levels
    /\ pc[t] # "fk" => ins[t] = {}
    /\ del[t] = {}
    /\ pc[t] \notin {"manage", "mark"} => \A tr \in Traders : rowLock[tr] # t

\* An insert is of a bot of the list.
InsertsPlaced ==
  \A a \in Actors : pc[a] \in {"insert", "fk"} => pos[a] <= Len(Bots)

\* Committed rows, uncommitted rows and locks of one trader.
RowsAgree ==
  \A tr \in Traders :
    /\ held[tr] \in {0, 1}
    /\ rowLock[tr] # None => held[tr] = 1
    /\ \A a \in Actors : tr \in ins[a] => held[tr] = 0
    /\ \A a, b \in Actors : tr \in ins[a] /\ tr \in ins[b] => a = b
    /\ \A a \in Actors : tr \in del[a] => rowLock[tr] = a

IInv ==
  /\ TypeOK /\ WorkersHold /\ TabsHold /\ InsertsPlaced /\ RowsAgree
  /\ NoticeMissingOnlyIfTabDied

LEMMA ConstantFacts ==
  /\ \A n \in 1..Len(Bots) : Bots[n] \in Traders
  /\ Len(Bots) \in Nat
  /\ \A w \in Workers : w \in Actors /\ w # None /\ w \notin Tabs
  /\ \A t \in Tabs : t \in Actors /\ t # None /\ t \notin Workers
  /\ None \notin Levels \cup {0}
<1>1. \A n \in 1..Len(Bots) : Bots[n] \in Traders
  BY DEF Traders
<1>2. Len(Bots) \in Nat
  BY BotsAssumption
<1>3. \A w \in Workers : w \in Actors /\ w # None /\ w \notin Tabs
  BY ActorsAssumption DEF Actors
<1>4. \A t \in Tabs : t \in Actors /\ t # None /\ t \notin Workers
  BY ActorsAssumption DEF Actors
<1>5. None \notin Levels \cup {0}
  <2>1. None # 0 /\ None \notin Levels
    BY LevelsAssumption, 0 \in Nat
  <2>2. QED
    BY <2>1
<1>6. QED
  BY <1>1, <1>2, <1>3, <1>4, <1>5

LEMMA InitIInv == Init => IInv
<1> SUFFICES ASSUME Init PROVE IInv
  OBVIOUS
<1>1. TypeOK
  BY ConstantFacts DEF Init, TypeOK
<1>2. WorkersHold /\ TabsHold /\ InsertsPlaced
  BY ConstantFacts DEF Init, WorkersHold, TabsHold, InsertsPlaced
<1>3. RowsAgree /\ NoticeMissingOnlyIfTabDied
  BY DEF Init, RowsAgree, NoticeMissingOnlyIfTabDied
<1>4. QED
  BY <1>1, <1>2, <1>3 DEF IInv

-----------------------------------------------------------------------------
(* Steps that every kind of actor takes.                                   *)

\* A rollback, and a tab that dies, loses nothing but what was its own.
LEMMA RollbackInv ==
  ASSUME IInv, NEW a \in Actors, Rollback(a),
         lost' = IF a \in Tabs /\ pc[a] = "record" THEN lost \cup {claim[a]} ELSE lost
  PROVE  IInv'
<1>1. /\ pc' = [pc EXCEPT ![a] = "idle"] /\ pos' = [pos EXCEPT ![a] = 1]
      /\ claim' = [claim EXCEPT ![a] = None]
      /\ ins' = [ins EXCEPT ![a] = {}] /\ del' = [del EXCEPT ![a] = {}]
      /\ UNCHANGED <<userActive, tracked, level, journal, held, noticed>>
  BY DEF Rollback, Forget, Goto, assignment
<1>2. /\ userLock' = IF userLock = a THEN None ELSE userLock
      /\ itemLock' = IF itemLock = a THEN None ELSE itemLock
      /\ rowLock' = [tr \in Traders |-> IF rowLock[tr] = a THEN None ELSE rowLock[tr]]
  BY DEF Rollback, Release, Unlock
<1>3. TypeOK'
  BY <1>1, <1>2, ConstantFacts DEF IInv, TypeOK, TabsHold
<1>4. WorkersHold'
  BY <1>1, <1>2, ConstantFacts DEF IInv, TypeOK, WorkersHold
<1>5. TabsHold' /\ InsertsPlaced'
  BY <1>1, <1>2, ConstantFacts DEF IInv, TypeOK, TabsHold, InsertsPlaced
<1>6. RowsAgree'
  BY <1>1, <1>2, ConstantFacts DEF IInv, TypeOK, RowsAgree
<1>7. NoticeMissingOnlyIfTabDied'
  BY <1>1, ConstantFacts DEF IInv, TypeOK, NoticeMissingOnlyIfTabDied
<1>8. QED
  BY <1>3, <1>4, <1>5, <1>6, <1>7 DEF IInv

LEMMA CheckBotInv ==
  ASSUME IInv, NEW a \in Actors, CheckBot(a)
  PROVE  IInv'
<1>1. /\ pc[a] = "bots" /\ pos[a] <= Len(Bots)
      /\ \/ pc' = [pc EXCEPT ![a] = "bots"] /\ pos' = [pos EXCEPT ![a] = @ + 1]
         \/ held[Bots[pos[a]]] = 0 /\ pc' = [pc EXCEPT ![a] = "insert"] /\ pos' = pos
      /\ UNCHANGED <<userActive, tracked, level, journal, held, userLock, itemLock, rowLock,
                     claim, ins, del, noticed, lost>>
  BY DEF CheckBot, NextBot, Goto, assignment, locks, history
<1>2. TypeOK'
  <2>1. pos' \in [Actors -> 1..(Len(Bots) + 1)]
    BY <1>1, ConstantFacts DEF IInv, TypeOK
  <2>2. pc' = [pc EXCEPT ![a] = "bots"] \/ pc' = [pc EXCEPT ![a] = "insert"]
    BY <1>1
  <2>3. QED
    BY <1>1, <2>1, <2>2 DEF IInv, TypeOK
<1>3. pc'[a] \in {"bots", "insert"}
  BY <1>1 DEF IInv, TypeOK
<1>4. \A b \in Actors : b # a => pc'[b] = pc[b] /\ pos'[b] = pos[b]
  BY <1>1 DEF IInv, TypeOK
<1>5. pc'[a] = "insert" => held[Bots[pos'[a]]] = 0 /\ pos'[a] <= Len(Bots)
  BY <1>1 DEF IInv, TypeOK
<1>6. WorkersHold'
  BY <1>1, <1>3, <1>4, <1>5, ConstantFacts DEF IInv, WorkersHold
<1>7. TabsHold' /\ InsertsPlaced'
  BY <1>1, <1>3, <1>4, <1>5, ConstantFacts DEF IInv, TabsHold, InsertsPlaced
<1>8. RowsAgree'
  BY <1>1 DEF IInv, RowsAgree
<1>9. NoticeMissingOnlyIfTabDied'
  BY <1>1, <1>3, <1>4, ConstantFacts DEF IInv, NoticeMissingOnlyIfTabDied
<1>10. QED
  BY <1>2, <1>6, <1>7, <1>8, <1>9 DEF IInv

LEMMA InsertRefusedInv ==
  ASSUME IInv, NEW a \in Actors, InsertRefused(a)
  PROVE  IInv'
<1>1. /\ pc[a] = "insert"
      /\ pc' = [pc EXCEPT ![a] = "bots"] /\ pos' = [pos EXCEPT ![a] = @ + 1]
      /\ UNCHANGED <<userActive, tracked, level, journal, held, userLock, itemLock, rowLock,
                     claim, ins, del, noticed, lost>>
  BY DEF InsertRefused, NextBot, Goto, assignment, locks, history
<1>2. TypeOK'
  BY <1>1, ConstantFacts DEF IInv, TypeOK, InsertsPlaced
<1>3. WorkersHold'
  BY <1>1, ConstantFacts DEF IInv, TypeOK, WorkersHold
<1>4. TabsHold' /\ InsertsPlaced'
  BY <1>1, ConstantFacts DEF IInv, TypeOK, TabsHold, InsertsPlaced
<1>5. RowsAgree'
  BY <1>1 DEF IInv, RowsAgree
<1>6. NoticeMissingOnlyIfTabDied'
  BY <1>1, ConstantFacts DEF IInv, TypeOK, NoticeMissingOnlyIfTabDied
<1>7. QED
  BY <1>2, <1>3, <1>4, <1>5, <1>6 DEF IInv

\* The row that is entered is the trader's only one: no committed row, and
\* nobody else's uncommitted one.
LEMMA InsertEnteredInv ==
  ASSUME IInv, NEW a \in Actors, InsertEntered(a)
  PROVE  IInv'
<1> DEFINE tr0 == Bots[pos[a]]
<1>1. /\ pc[a] = "insert"
      /\ ins' = [ins EXCEPT ![a] = @ \cup {tr0}]
      /\ UNCHANGED <<userActive, tracked, level, journal, held, userLock, itemLock, rowLock,
                     claim, del, noticed, lost>>
  BY DEF InsertEntered, assignment, locks, history
<1>2. IF a \in Workers
        THEN pc' = [pc EXCEPT ![a] = "bots"] /\ pos' = [pos EXCEPT ![a] = @ + 1]
        ELSE pc' = [pc EXCEPT ![a] = "fk"] /\ pos' = pos
  BY DEF InsertEntered, NextBot, Goto
<1>3. tr0 \in Traders /\ pos[a] <= Len(Bots)
  BY <1>1, ConstantFacts DEF IInv, TypeOK, InsertsPlaced
<1>4. held[tr0] = 0
  BY <1>3 DEF InsertEntered, KeyTaken, IInv, RowsAgree
<1>5. \A b \in Actors : b # a => tr0 \notin ins[b]
  BY DEF InsertEntered, KeyHolders
<1> HIDE DEF tr0
<1>6. TypeOK'
  <2>1. pos' \in [Actors -> 1..(Len(Bots) + 1)]
    BY <1>2, <1>3, ConstantFacts DEF IInv, TypeOK
  <2>2. pc' = [pc EXCEPT ![a] = "bots"] \/ pc' = [pc EXCEPT ![a] = "fk"]
    BY <1>2
  <2>3. ins' \in [Actors -> SUBSET Traders]
    BY <1>1, <1>3 DEF IInv, TypeOK
  <2>4. QED
    BY <1>1, <2>1, <2>2, <2>3 DEF IInv, TypeOK
<1>7. WorkersHold'
  <2>1. \A b \in Actors : b # a => pc'[b] = pc[b] /\ pos'[b] = pos[b]
    BY <1>2 DEF IInv, TypeOK
  <2>2. a \in Workers => pc'[a] = "bots"
    BY <1>2 DEF IInv, TypeOK
  <2>3. \A v \in Workers : v # a => pc'[v] = pc[v] /\ pos'[v] = pos[v]
    BY <2>1, ConstantFacts
  <2>4. QED
    BY <1>1, <2>2, <2>3 DEF IInv, WorkersHold
<1>8. TabsHold' /\ InsertsPlaced'
  <2>1. \A b \in Actors : b # a => pc'[b] = pc[b] /\ pos'[b] = pos[b] /\ ins'[b] = ins[b]
    BY <1>1, <1>2 DEF IInv, TypeOK
  <2>2. pc'[a] = (IF a \in Workers THEN "bots" ELSE "fk")
    BY <1>2 DEF IInv, TypeOK
  <2>3. pc'[a] = "fk" => pos'[a] = pos[a]
    BY <1>2, <2>2
  <2>4. QED
    BY <1>1, <1>3, <2>1, <2>2, <2>3, ConstantFacts DEF IInv, TabsHold, InsertsPlaced
<1>9. RowsAgree'
  BY <1>1, <1>4, <1>5 DEF IInv, TypeOK, RowsAgree
<1>10. NoticeMissingOnlyIfTabDied'
  BY <1>1, <1>2, ConstantFacts DEF IInv, TypeOK, NoticeMissingOnlyIfTabDied
<1>11. QED
  BY <1>6, <1>7, <1>8, <1>9, <1>10 DEF IInv

LEMMA LockRowInv ==
  ASSUME IInv, NEW a \in Actors, LockRow(a)
  PROVE  IInv'
<1>1. PICK tr0 \in ToLock(a) : rowLock[tr0] = None /\ rowLock' = [rowLock EXCEPT ![tr0] = a]
  BY DEF LockRow
<1>2. UNCHANGED <<userActive, tracked, level, journal, held, userLock, itemLock,
                  pc, pos, claim, ins, del, noticed, lost>>
  BY DEF LockRow, assignment, local, history
<1>3. tr0 \in Traders /\ held[tr0] > 0 /\ pc[a] \in {"manage", "mark"}
  BY <1>1, BotsAssumption DEF ToLock
<1>4. TypeOK'
  BY <1>1, <1>2 DEF IInv, TypeOK
<1>5. WorkersHold' /\ InsertsPlaced' /\ NoticeMissingOnlyIfTabDied'
  BY <1>2 DEF IInv, WorkersHold, InsertsPlaced, NoticeMissingOnlyIfTabDied
<1>6. TabsHold'
  BY <1>1, <1>2, <1>3, ConstantFacts DEF IInv, TypeOK, TabsHold
<1>7. RowsAgree'
  <2>1. held[tr0] = 1
    BY <1>3 DEF IInv, RowsAgree
  <2>2. \A b \in Actors : tr0 \notin del[b]
    BY <1>1, <1>3, ConstantFacts DEF IInv, RowsAgree, Actors
  <2>3. \A tr \in Traders : rowLock'[tr] = IF tr = tr0 THEN a ELSE rowLock[tr]
    BY <1>1 DEF IInv, TypeOK
  <2>4. QED
    BY <1>2, <1>3, <2>1, <2>2, <2>3 DEF IInv, RowsAgree
<1>8. QED
  BY <1>4, <1>5, <1>6, <1>7 DEF IInv

-----------------------------------------------------------------------------
(* The worker.                                                             *)

\* A statement that only moves the worker on, takes a lock or claims.
LEMMA WorkerMoves ==
  ASSUME IInv, NEW w \in Workers, WorkerStart(w) \/ WorkerBotsDone(w)
  PROVE  IInv'
<1>1. PICK next \in {"lockUser", "manage", "commit"} :
        /\ pc' = [pc EXCEPT ![w] = next]
        /\ next # "lockUser" => pc[w] = "bots"
  BY DEF WorkerStart, WorkerBotsDone, Goto
<1>2. UNCHANGED <<userActive, tracked, level, journal, held, userLock, itemLock, rowLock,
                  pos, claim, ins, del, noticed, lost>>
  BY DEF WorkerStart, WorkerBotsDone, assignment, locks, history
<1>3. /\ pc'[w] = next
      /\ \A b \in Actors : b # w => pc'[b] = pc[b]
  BY <1>1, ConstantFacts DEF IInv, TypeOK
<1>4. TypeOK'
  BY <1>1, <1>2 DEF IInv, TypeOK
<1>5. WorkersHold'
  BY <1>1, <1>2, <1>3, ConstantFacts DEF IInv, WorkersHold
<1>6. TabsHold' /\ InsertsPlaced'
  BY <1>2, <1>3, ConstantFacts DEF IInv, TabsHold, InsertsPlaced
<1>7. RowsAgree'
  BY <1>2 DEF IInv, RowsAgree
<1>8. NoticeMissingOnlyIfTabDied'
  BY <1>2, <1>3, ConstantFacts DEF IInv, NoticeMissingOnlyIfTabDied
<1>9. QED
  BY <1>4, <1>5, <1>6, <1>7, <1>8 DEF IInv

LEMMA LockUserInv ==
  ASSUME IInv, NEW w \in Workers, LockUser(w)
  PROVE  IInv'
<1>1. CASE userActive
  <2>1. /\ userLock = None /\ userLock' = w /\ pc' = [pc EXCEPT ![w] = "lockItem"]
        /\ UNCHANGED <<userActive, tracked, level, journal, held, itemLock, rowLock,
                       pos, claim, ins, del, noticed, lost>>
    BY <1>1 DEF LockUser, Goto, assignment, history
  <2>2. /\ pc'[w] = "lockItem"
        /\ \A b \in Actors : b # w => pc'[b] = pc[b]
    BY <2>1, ConstantFacts DEF IInv, TypeOK
  <2>3. TypeOK'
    BY <2>1 DEF IInv, TypeOK
  <2>4. WorkersHold'
    BY <1>1, <2>1, <2>2, ConstantFacts DEF IInv, WorkersHold
  <2>5. TabsHold' /\ InsertsPlaced'
    BY <2>1, <2>2, ConstantFacts DEF IInv, TabsHold, InsertsPlaced
  <2>6. RowsAgree'
    BY <2>1 DEF IInv, RowsAgree
  <2>7. NoticeMissingOnlyIfTabDied'
    BY <2>1, <2>2, ConstantFacts DEF IInv, NoticeMissingOnlyIfTabDied
  <2>8. QED
    BY <2>3, <2>4, <2>5, <2>6, <2>7 DEF IInv
<1>2. CASE ~userActive
  BY <1>2, RollbackInv, ConstantFacts DEF LockUser
<1>3. QED
  BY <1>1, <1>2

LEMMA LockItemInv ==
  ASSUME IInv, NEW w \in Workers, LockItem(w)
  PROVE  IInv'
<1>1. CASE tracked
  <2>1. /\ pc[w] = "lockItem" /\ itemLock = None /\ itemLock' = w
        /\ pc' = [pc EXCEPT ![w] = "claim"]
        /\ UNCHANGED <<userActive, tracked, level, journal, held, userLock, rowLock,
                       pos, claim, ins, del, noticed, lost>>
    BY <1>1 DEF LockItem, Goto, assignment, history
  <2>2. /\ pc'[w] = "claim"
        /\ \A b \in Actors : b # w => pc'[b] = pc[b]
    BY <2>1, ConstantFacts DEF IInv, TypeOK
  <2>3. TypeOK'
    BY <2>1 DEF IInv, TypeOK
  <2>4. WorkersHold'
    BY <1>1, <2>1, <2>2, ConstantFacts DEF IInv, WorkersHold
  <2>5. TabsHold' /\ InsertsPlaced'
    BY <2>1, <2>2, ConstantFacts DEF IInv, TabsHold, InsertsPlaced
  <2>6. RowsAgree'
    BY <2>1 DEF IInv, RowsAgree
  <2>7. NoticeMissingOnlyIfTabDied'
    BY <2>1, <2>2, ConstantFacts DEF IInv, NoticeMissingOnlyIfTabDied
  <2>8. QED
    BY <2>3, <2>4, <2>5, <2>6, <2>7 DEF IInv
<1>2. CASE ~tracked
  BY <1>2, RollbackInv, ConstantFacts DEF LockItem
<1>3. QED
  BY <1>1, <1>2

LEMMA WorkerClaimInv ==
  ASSUME IInv, NEW w \in Workers, WorkerClaim(w)
  PROVE  IInv'
<1>1. PICK new \in Levels \cup {0} : claim' = [claim EXCEPT ![w] = new]
  BY DEF WorkerClaim
<1>2. /\ pc[w] = "claim" /\ pc' = [pc EXCEPT ![w] = "bots"]
      /\ UNCHANGED <<userActive, tracked, level, journal, held, userLock, itemLock, rowLock,
                     pos, ins, del, noticed, lost>>
  BY DEF WorkerClaim, Goto, assignment, locks, history
<1>3. /\ pc'[w] = "bots" /\ claim'[w] = new
      /\ \A b \in Actors : b # w => pc'[b] = pc[b] /\ claim'[b] = claim[b]
  BY <1>1, <1>2, ConstantFacts DEF IInv, TypeOK
<1>4. TypeOK'
  BY <1>1, <1>2 DEF IInv, TypeOK
<1>5. WorkersHold'
  BY <1>2, <1>3, ConstantFacts DEF IInv, WorkersHold
<1>6. TabsHold' /\ InsertsPlaced'
  BY <1>2, <1>3, ConstantFacts DEF IInv, TabsHold, InsertsPlaced
<1>7. RowsAgree'
  BY <1>2 DEF IInv, RowsAgree
<1>8. NoticeMissingOnlyIfTabDied'
  BY <1>2, <1>3, ConstantFacts DEF IInv, NoticeMissingOnlyIfTabDied
<1>9. QED
  BY <1>4, <1>5, <1>6, <1>7, <1>8 DEF IInv

LEMMA WorkerRowsDoneInv ==
  ASSUME IInv, NEW w \in Workers, WorkerRowsDone(w)
  PROVE  IInv'
<1>1. PICK closes \in SUBSET (Closable(w) \ del[w]) : del' = [del EXCEPT ![w] = @ \cup closes]
  BY DEF WorkerRowsDone
<1>2. closes \subseteq {tr \in Traders : rowLock[tr] = w}
  BY DEF Closable, Mine
<1>3. PICK next \in {"mark", "commit"} : pc' = [pc EXCEPT ![w] = next]
  BY DEF WorkerRowsDone, Goto
<1>4. /\ pc[w] \in {"manage", "mark"}
      /\ UNCHANGED <<userActive, tracked, level, journal, held, userLock, itemLock, rowLock,
                     pos, claim, ins, noticed, lost>>
  BY DEF WorkerRowsDone, assignment, locks, history
<1>5. /\ pc'[w] = next /\ del'[w] = del[w] \cup closes
      /\ \A b \in Actors : b # w => pc'[b] = pc[b] /\ del'[b] = del[b]
  BY <1>1, <1>3, ConstantFacts DEF IInv, TypeOK
<1>6. TypeOK'
  BY <1>1, <1>2, <1>3, <1>4, ConstantFacts DEF IInv, TypeOK
<1>7. WorkersHold'
  BY <1>4, <1>5, ConstantFacts DEF IInv, WorkersHold
<1>8. TabsHold' /\ InsertsPlaced'
  BY <1>4, <1>5, ConstantFacts DEF IInv, TabsHold, InsertsPlaced
<1>9. RowsAgree'
  BY <1>2, <1>4, <1>5 DEF IInv, RowsAgree
<1>10. NoticeMissingOnlyIfTabDied'
  BY <1>4, <1>5, ConstantFacts DEF IInv, NoticeMissingOnlyIfTabDied
<1>11. QED
  BY <1>6, <1>7, <1>8, <1>9, <1>10 DEF IInv

\* What a worker opened had no committed row, what it closed was its own: the
\* count of each trader stays zero or one.
LEMMA WorkerCommitInv ==
  ASSUME IInv, NEW w \in Workers, WorkerCommit(w)
  PROVE  IInv'
<1>1. /\ pc' = [pc EXCEPT ![w] = "idle"] /\ pos' = [pos EXCEPT ![w] = 1]
      /\ claim' = [claim EXCEPT ![w] = None]
      /\ ins' = [ins EXCEPT ![w] = {}] /\ del' = [del EXCEPT ![w] = {}]
      /\ UNCHANGED <<userActive, tracked, lost>>
  BY DEF WorkerCommit, Forget, Goto, assignment
<1>2. /\ userLock' = IF userLock = w THEN None ELSE userLock
      /\ itemLock' = IF itemLock = w THEN None ELSE itemLock
      /\ rowLock' = [tr \in Traders |-> IF rowLock[tr] = w THEN None ELSE rowLock[tr]]
  BY DEF WorkerCommit, Release, Unlock
<1>3. claim[w] \in Levels \cup {0} /\ level' = claim[w] /\ level \in Nat
  BY ConstantFacts, LevelsAssumption DEF WorkerCommit, IInv, TypeOK, WorkersHold
<1>4. /\ journal' = journal \cup RadarRow(claim[w])
      /\ noticed' = noticed \cup (IF claim[w] > level THEN {claim[w]} ELSE {})
  BY DEF WorkerCommit
<1>5. claim[w] > level =>
        claim[w] \in Levels /\ RadarRow(claim[w]) = {[by |-> "radar", level |-> claim[w]]}
  BY <1>3 DEF RadarRow
<1>6. ~(claim[w] > level) => RadarRow(claim[w]) = {}
  BY DEF RadarRow
<1>7. \A tr \in Traders : held'[tr] = IF tr \in ins[w] THEN 1 ELSE
                                      IF tr \in del[w] THEN 0 ELSE held[tr]
  <2>1. \A tr \in Traders :
          held'[tr] = held[tr] + (IF tr \in ins[w] THEN 1 ELSE 0)
                               - (IF tr \in del[w] THEN 1 ELSE 0)
    BY DEF WorkerCommit, Book
  <2>2. \A tr \in Traders :
          /\ held[tr] \in {0, 1}
          /\ tr \in ins[w] => held[tr] = 0
          /\ tr \in del[w] => held[tr] = 1
    BY ConstantFacts DEF IInv, RowsAgree
  <2>3. QED
    BY <2>1, <2>2
<1>8. /\ pc'[w] = "idle" /\ ins'[w] = {} /\ del'[w] = {} /\ pos'[w] = 1
      /\ \A b \in Actors : b # w =>
           /\ pc'[b] = pc[b] /\ ins'[b] = ins[b] /\ del'[b] = del[b]
           /\ pos'[b] = pos[b] /\ claim'[b] = claim[b]
  BY <1>1, ConstantFacts DEF IInv, TypeOK
<1>9. TypeOK'
  <2>1. held' \in [Traders -> Nat]
    BY <1>7 DEF WorkerCommit, Book, IInv, TypeOK
  <2>2. journal' \subseteq [by : {"radar", "tab"}, level : Levels] /\ noticed' \subseteq Levels
    BY <1>4, <1>5, <1>6 DEF IInv, TypeOK
  <2>3. rowLock' \in [Traders -> Actors \cup {None}]
    BY <1>2 DEF IInv, TypeOK
  <2>4. QED
    BY <1>1, <1>2, <1>3, <2>1, <2>2, <2>3, ConstantFacts DEF IInv, TypeOK
<1>10. WorkersHold'
  <2>1. \A v \in Workers : v # w => pc[v] \in {"idle", "lockUser"}
    BY ConstantFacts DEF WorkerCommit, IInv, WorkersHold
  <2>2. QED
    BY <1>8, <2>1, ConstantFacts DEF WorkersHold
<1>11. TabsHold' /\ InsertsPlaced'
  <2>1. \A t \in Tabs : /\ pc'[t] = pc[t] /\ ins'[t] = ins[t] /\ del'[t] = del[t]
                        /\ claim'[t] = claim[t]
    BY <1>8, ConstantFacts
  <2>2. \A t \in Tabs : \A tr \in Traders : rowLock'[tr] = t => rowLock[tr] = t
    BY <1>2, ConstantFacts DEF IInv, TypeOK
  <2>3. TabsHold'
    BY <2>1, <2>2 DEF IInv, TabsHold
  <2>4. InsertsPlaced'
    BY <1>8 DEF IInv, InsertsPlaced
  <2>5. QED
    BY <2>3, <2>4
<1>12. RowsAgree'
  BY <1>2, <1>7, <1>8, ConstantFacts DEF IInv, RowsAgree
<1>13. NoticeMissingOnlyIfTabDied'
  <2>1. \A r \in journal : r \in journal'
    BY <1>4
  <2>2. claim[w] > level => \E r \in journal' : r.level = claim[w]
    <3>1. SUFFICES ASSUME claim[w] > level
                   PROVE  [by |-> "radar", level |-> claim[w]] \in journal'
      OBVIOUS
    <3>2. QED
      BY <1>4, <1>5, <3>1
  <2>3. QED
    BY <1>1, <1>4, <1>8, <2>1, <2>2, ConstantFacts DEF IInv, NoticeMissingOnlyIfTabDied
<1>14. QED
  BY <1>9, <1>10, <1>11, <1>12, <1>13 DEF IInv

-----------------------------------------------------------------------------
(* The tabs.                                                               *)

LEMMA TabStartInv ==
  ASSUME IInv, NEW t \in Tabs, TabStart(t)
  PROVE  IInv'
<1>1. /\ pc[t] = "idle" /\ pc' = [pc EXCEPT ![t] = "claim"]
      /\ UNCHANGED <<userActive, tracked, level, journal, held, userLock, itemLock, rowLock,
                     pos, claim, ins, del, noticed, lost>>
  BY DEF TabStart, Idle, Goto, assignment, locks, history
<1>2. /\ pc'[t] = "claim"
      /\ \A b \in Actors : b # t => pc'[b] = pc[b]
  BY <1>1, ConstantFacts DEF IInv, TypeOK
<1>3. TypeOK'
  BY <1>1 DEF IInv, TypeOK
<1>4. WorkersHold'
  BY <1>1, <1>2, ConstantFacts DEF IInv, WorkersHold
<1>5. TabsHold' /\ InsertsPlaced'
  BY <1>1, <1>2, ConstantFacts DEF IInv, TabsHold, InsertsPlaced
<1>6. RowsAgree'
  BY <1>1 DEF IInv, RowsAgree
<1>7. NoticeMissingOnlyIfTabDied'
  BY <1>1, <1>2, ConstantFacts DEF IInv, NoticeMissingOnlyIfTabDied
<1>8. QED
  BY <1>3, <1>4, <1>5, <1>6, <1>7 DEF IInv

\* A notice that is new sends the tab to its recording.
LEMMA TabClaimInv ==
  ASSUME IInv, NEW t \in Tabs, TabClaim(t)
  PROVE  IInv'
<1>1. /\ pc[t] = "claim"
      /\ UNCHANGED <<userActive, tracked, journal, held, userLock, itemLock, rowLock,
                     pos, ins, del, lost>>
  BY DEF TabClaim, assignment, locks
<1>2. PICK new \in Levels \cup {0, level} :
        /\ level' = new
        /\ \/ /\ claim' = [claim EXCEPT ![t] = new] /\ noticed' = noticed \cup {new}
              /\ pc' = [pc EXCEPT ![t] = "record"] /\ new \in Levels
           \/ /\ claim' = claim /\ noticed' = noticed
              /\ pc' = [pc EXCEPT ![t] = "bots"]
  <2>1. CASE ~tracked
    BY <2>1 DEF TabClaim, Goto, IInv, TypeOK
  <2>2. CASE tracked
    <3>1. PICK new \in Levels \cup {0} :
            /\ level' = new
            /\ IF new > level
                 THEN /\ claim' = [claim EXCEPT ![t] = new]
                      /\ noticed' = noticed \cup {new}
                      /\ pc' = [pc EXCEPT ![t] = "record"]
                 ELSE /\ pc' = [pc EXCEPT ![t] = "bots"]
                      /\ UNCHANGED <<claim, noticed>>
      BY <2>2 DEF TabClaim, Goto
    <3>2. new > level => new \in Levels
      BY LevelsAssumption DEF IInv, TypeOK
    <3>3. QED
      BY <3>1, <3>2
  <2>3. QED
    BY <2>1, <2>2
<1>3. itemLock = None
  BY DEF TabClaim
<1>4. \A b \in Actors : b # t => pc'[b] = pc[b] /\ claim'[b] = claim[b]
  BY <1>2 DEF IInv, TypeOK
<1>5. /\ pc'[t] \in {"record", "bots"}
      /\ pc'[t] = "record" => claim'[t] \in Levels /\ noticed' = noticed \cup {claim'[t]}
      /\ pc'[t] = "bots" => noticed' = noticed
  BY <1>2, ConstantFacts DEF IInv, TypeOK
<1>6. TypeOK'
  BY <1>1, <1>2 DEF IInv, TypeOK
<1>7. WorkersHold'
  BY <1>1, <1>4, ConstantFacts DEF IInv, WorkersHold
<1>8. TabsHold' /\ InsertsPlaced'
  BY <1>1, <1>4, <1>5, ConstantFacts DEF IInv, TabsHold, InsertsPlaced
<1>9. RowsAgree'
  BY <1>1 DEF IInv, RowsAgree
<1>10. NoticeMissingOnlyIfTabDied'
  BY <1>1, <1>4, <1>5, ConstantFacts DEF IInv, NoticeMissingOnlyIfTabDied
<1>11. QED
  BY <1>6, <1>7, <1>8, <1>9, <1>10 DEF IInv

LEMMA TabRecordInv ==
  ASSUME IInv, NEW t \in Tabs, TabRecord(t)
  PROVE  IInv'
<1>1. /\ pc[t] = "record" /\ pc' = [pc EXCEPT ![t] = "bots"]
      /\ claim' = [claim EXCEPT ![t] = None]
      /\ UNCHANGED <<userActive, tracked, level, held, userLock, itemLock, rowLock,
                     pos, ins, del, noticed, lost>>
  BY DEF TabRecord, Goto, assignment, locks, history
<1>2. claim[t] \in Levels
  BY <1>1 DEF IInv, TabsHold
<1>3. /\ journal' \subseteq journal \cup {[by |-> "tab", level |-> claim[t]]}
      /\ journal \subseteq journal'
      /\ \E r \in journal' : r.level = claim[t]
  <2>1. CASE (\E r \in journal : r.level = claim[t]) /\ journal' = journal
    BY <2>1
  <2>2. CASE journal' = journal \cup {[by |-> "tab", level |-> claim[t]]}
    <3>1. [by |-> "tab", level |-> claim[t]] \in journal'
      BY <2>2
    <3>2. QED
      BY <2>2, <3>1
  <2>3. QED
    BY <2>1, <2>2 DEF TabRecord
<1>4. /\ pc'[t] = "bots"
      /\ \A b \in Actors : b # t => pc'[b] = pc[b] /\ claim'[b] = claim[b]
  BY <1>1, ConstantFacts DEF IInv, TypeOK
<1>5. TypeOK'
  <2>1. journal' \subseteq [by : {"radar", "tab"}, level : Levels]
    BY <1>2, <1>3 DEF IInv, TypeOK
  <2>2. QED
    BY <1>1, <2>1 DEF IInv, TypeOK
<1>6. WorkersHold'
  BY <1>1, <1>4, ConstantFacts DEF IInv, WorkersHold
<1>7. TabsHold' /\ InsertsPlaced'
  BY <1>1, <1>4, ConstantFacts DEF IInv, TabsHold, InsertsPlaced
<1>8. RowsAgree'
  BY <1>1 DEF IInv, RowsAgree
<1>9. NoticeMissingOnlyIfTabDied'
  BY <1>1, <1>3, <1>4, ConstantFacts DEF IInv, NoticeMissingOnlyIfTabDied
<1>10. QED
  BY <1>5, <1>6, <1>7, <1>8, <1>9 DEF IInv

\* The user is not locked: no worker is at its insert.
LEMMA TabForeignKeyInv ==
  ASSUME IInv, NEW t \in Tabs, TabForeignKey(t)
  PROVE  IInv'
<1>1. /\ pc[t] = "fk" /\ userLock = None
      /\ pc' = [pc EXCEPT ![t] = "bots"] /\ pos' = [pos EXCEPT ![t] = @ + 1]
      /\ ins' = [ins EXCEPT ![t] = {}]
      /\ UNCHANGED <<userActive, tracked, level, journal, userLock, itemLock, rowLock,
                     claim, del, noticed, lost>>
  BY DEF TabForeignKey, NextBot, Goto, assignment, locks, history
<1>2. \A tr \in Traders : held'[tr] = IF tr \in ins[t] THEN 1 ELSE held[tr]
  <2>1. \A tr \in Traders : held'[tr] = held[tr] + (IF tr \in ins[t] THEN 1 ELSE 0) - 0
    BY DEF TabForeignKey, Book
  <2>2. \A tr \in Traders : held[tr] \in {0, 1} /\ (tr \in ins[t] => held[tr] = 0)
    BY ConstantFacts DEF IInv, RowsAgree
  <2>3. QED
    BY <2>1, <2>2
<1>3. /\ pc'[t] = "bots" /\ ins'[t] = {}
      /\ \A b \in Actors : b # t => pc'[b] = pc[b] /\ ins'[b] = ins[b] /\ pos'[b] = pos[b]
  BY <1>1, ConstantFacts DEF IInv, TypeOK
<1>4. TypeOK'
  <2>1. held' \in [Traders -> Nat]
    BY <1>2 DEF TabForeignKey, Book, IInv, TypeOK
  <2>2. pos' \in [Actors -> 1..(Len(Bots) + 1)]
    BY <1>1, ConstantFacts DEF IInv, TypeOK, InsertsPlaced
  <2>3. QED
    BY <1>1, <2>1, <2>2 DEF IInv, TypeOK
<1>5. WorkersHold'
  BY <1>1, <1>3, ConstantFacts DEF IInv, WorkersHold
<1>6. TabsHold' /\ InsertsPlaced'
  BY <1>1, <1>3, ConstantFacts DEF IInv, TabsHold, InsertsPlaced
<1>7. RowsAgree'
  BY <1>1, <1>2, <1>3, ConstantFacts DEF IInv, RowsAgree
<1>8. NoticeMissingOnlyIfTabDied'
  BY <1>1, <1>3, ConstantFacts DEF IInv, NoticeMissingOnlyIfTabDied
<1>9. QED
  BY <1>4, <1>5, <1>6, <1>7, <1>8 DEF IInv

LEMMA TabBotsDoneInv ==
  ASSUME IInv, NEW t \in Tabs, TabBotsDone(t)
  PROVE  IInv'
<1>1. CASE Goto(t, "idle") /\ Release(t) /\ Forget(t)
  BY <1>1, RollbackInv, ConstantFacts DEF TabBotsDone, Rollback, history
<1>2. CASE Goto(t, "manage") /\ UNCHANGED <<locks, pos, claim, ins, del>>
  <2>1. /\ pc[t] = "bots" /\ pc' = [pc EXCEPT ![t] = "manage"]
        /\ UNCHANGED <<userActive, tracked, level, journal, held, userLock, itemLock, rowLock,
                       pos, claim, ins, del, noticed, lost>>
    BY <1>2 DEF TabBotsDone, Goto, assignment, locks, history
  <2>2. /\ pc'[t] = "manage"
        /\ \A b \in Actors : b # t => pc'[b] = pc[b]
    BY <2>1, ConstantFacts DEF IInv, TypeOK
  <2>3. TypeOK'
    BY <2>1 DEF IInv, TypeOK
  <2>4. WorkersHold'
    BY <2>1, <2>2, ConstantFacts DEF IInv, WorkersHold
  <2>5. TabsHold' /\ InsertsPlaced'
    BY <2>1, <2>2, ConstantFacts DEF IInv, TabsHold, InsertsPlaced
  <2>6. RowsAgree'
    BY <2>1 DEF IInv, RowsAgree
  <2>7. NoticeMissingOnlyIfTabDied'
    BY <2>1, <2>2, ConstantFacts DEF IInv, NoticeMissingOnlyIfTabDied
  <2>8. QED
    BY <2>3, <2>4, <2>5, <2>6, <2>7 DEF IInv
<1>3. QED
  BY <1>1, <1>2 DEF TabBotsDone

\* What a tab closes it has locked.
LEMMA TabRowsDoneInv ==
  ASSUME IInv, NEW t \in Tabs, TabRowsDone(t)
  PROVE  IInv'
<1>1. PICK closes \in SUBSET Closable(t) : held' = Book({}, closes)
  BY DEF TabRowsDone
<1>2. closes \subseteq {tr \in Traders : rowLock[tr] = t}
  BY DEF Closable, Mine
<1>3. \A tr \in Traders : held'[tr] = IF tr \in closes THEN 0 ELSE held[tr]
  <2>1. \A tr \in Traders : held'[tr] = held[tr] + 0 - (IF tr \in closes THEN 1 ELSE 0)
    BY <1>1 DEF Book
  <2>2. \A tr \in Traders : held[tr] \in {0, 1} /\ (tr \in closes => held[tr] = 1)
    BY <1>2, ConstantFacts DEF IInv, RowsAgree
  <2>3. QED
    BY <2>1, <2>2
<1>4. /\ userLock' = IF userLock = t THEN None ELSE userLock
      /\ itemLock' = IF itemLock = t THEN None ELSE itemLock
      /\ rowLock' = [tr \in Traders |-> IF rowLock[tr] = t THEN None ELSE rowLock[tr]]
  BY DEF TabRowsDone, Release, Unlock
<1>5. userLock' = userLock /\ itemLock' = itemLock
  BY <1>4, ConstantFacts DEF IInv, TypeOK
<1>6. /\ pc[t] \in {"manage", "mark"} /\ pc' \in {[pc EXCEPT ![t] = "mark"], [pc EXCEPT ![t] = "idle"]}
      /\ pos' \in {pos, [pos EXCEPT ![t] = 1]} /\ claim' \in {claim, [claim EXCEPT ![t] = None]}
      /\ ins' \in {ins, [ins EXCEPT ![t] = {}]} /\ del' \in {del, [del EXCEPT ![t] = {}]}
      /\ UNCHANGED <<userActive, tracked, level, journal, noticed, lost>>
  BY DEF TabRowsDone, Forget, Goto, assignment, history
<1>7. ins[t] = {} /\ del[t] = {}
  BY <1>6 DEF IInv, TabsHold
<1>8. /\ ins' \in [Actors -> SUBSET Traders] /\ del' \in [Actors -> SUBSET Traders]
      /\ \A b \in Actors : ins'[b] = ins[b] /\ del'[b] = del[b]
  <2>1. CASE ins' = ins /\ del' = del
    BY <2>1 DEF IInv, TypeOK
  <2>2. CASE ins' = [ins EXCEPT ![t] = {}] /\ del' = del
    BY <1>7, <2>2, ConstantFacts DEF IInv, TypeOK
  <2>3. CASE ins' = ins /\ del' = [del EXCEPT ![t] = {}]
    BY <1>7, <2>3, ConstantFacts DEF IInv, TypeOK
  <2>4. CASE ins' = [ins EXCEPT ![t] = {}] /\ del' = [del EXCEPT ![t] = {}]
    BY <1>7, <2>4, ConstantFacts DEF IInv, TypeOK
  <2>5. QED
    BY <1>6, <2>1, <2>2, <2>3, <2>4
<1>9. /\ pc'[t] \in {"mark", "idle"}
      /\ \A b \in Actors : b # t => pc'[b] = pc[b] /\ pos'[b] = pos[b] /\ claim'[b] = claim[b]
  BY <1>6, ConstantFacts DEF IInv, TypeOK
<1>10. TypeOK'
  <2>1. held' \in [Traders -> Nat]
    BY <1>1, <1>3 DEF Book, IInv, TypeOK
  <2>2. rowLock' \in [Traders -> Actors \cup {None}]
    BY <1>4 DEF IInv, TypeOK
  <2>3. pc' \in [Actors -> {"idle", "lockUser", "lockItem", "claim", "record", "bots",
                            "insert", "fk", "manage", "mark", "commit"}]
    BY <1>6 DEF IInv, TypeOK
  <2>4. pos' \in [Actors -> 1..(Len(Bots) + 1)]
    <3>1. [pos EXCEPT ![t] = 1] \in [Actors -> 1..(Len(Bots) + 1)]
      BY ConstantFacts DEF IInv, TypeOK
    <3>2. QED
      BY <1>6, <3>1 DEF IInv, TypeOK
  <2>5. claim' \in [Actors -> Levels \cup {0, None}]
    <3>1. [claim EXCEPT ![t] = None] \in [Actors -> Levels \cup {0, None}]
      BY DEF IInv, TypeOK
    <3>2. QED
      BY <1>6, <3>1 DEF IInv, TypeOK
  <2>6. QED
    BY <1>5, <1>6, <1>8, <2>1, <2>2, <2>3, <2>4, <2>5 DEF IInv, TypeOK
<1>11. WorkersHold'
  <2>1. \A w \in Workers : pc[w] = "insert" => Bots[pos[w]] \in Traders
    BY ConstantFacts DEF IInv, TypeOK, InsertsPlaced
  <2>2. QED
    BY <1>3, <1>5, <1>6, <1>9, <2>1, ConstantFacts DEF IInv, WorkersHold
<1>12. TabsHold' /\ InsertsPlaced'
  <2>1. \A u \in Tabs, tr \in Traders : rowLock'[tr] = u => u # t /\ rowLock[tr] = u
    BY <1>4, ConstantFacts
  <2>2. TabsHold'
    BY <1>7, <1>8, <1>9, <2>1, ConstantFacts DEF IInv, TabsHold
  <2>3. InsertsPlaced'
    BY <1>9, ConstantFacts DEF IInv, InsertsPlaced
  <2>4. QED
    BY <2>2, <2>3
<1>13. RowsAgree'
  BY <1>2, <1>3, <1>4, <1>7, <1>8, ConstantFacts DEF IInv, RowsAgree
<1>14. NoticeMissingOnlyIfTabDied'
  BY <1>6, <1>9, ConstantFacts DEF IInv, NoticeMissingOnlyIfTabDied
<1>15. QED
  BY <1>10, <1>11, <1>12, <1>13, <1>14 DEF IInv

-----------------------------------------------------------------------------
(* The owner, the administrator and the deadlock detector.                 *)

LEMMA RadarInv ==
  ASSUME IInv, AddRadar \/ RemoveRadar \/ SetActive
  PROVE  IInv'
<1>1. /\ UNCHANGED <<journal, held, userLock, itemLock, rowLock, pc, pos, claim, ins, del,
                     noticed, lost>>
      /\ userActive' \in BOOLEAN /\ tracked' \in BOOLEAN /\ level' \in Levels \cup {0}
  BY DEF AddRadar, RemoveRadar, SetActive, locks, local, history, IInv, TypeOK
<1>2. /\ userLock # None => userActive' = userActive
      /\ itemLock # None => tracked' = tracked \/ tracked'
  BY DEF AddRadar, RemoveRadar, SetActive
<1>3. TypeOK'
  BY <1>1 DEF IInv, TypeOK
<1>4. WorkersHold'
  BY <1>1, <1>2, ConstantFacts DEF IInv, WorkersHold
<1>5. TabsHold' /\ InsertsPlaced' /\ RowsAgree' /\ NoticeMissingOnlyIfTabDied'
  BY <1>1 DEF IInv, TabsHold, InsertsPlaced, RowsAgree, NoticeMissingOnlyIfTabDied
<1>6. QED
  BY <1>3, <1>4, <1>5 DEF IInv

LEMMA ClosePositionInv ==
  ASSUME IInv, NEW tr0 \in Traders, ClosePosition(tr0)
  PROVE  IInv'
<1>1. /\ held[tr0] > 0 /\ rowLock[tr0] = None
      /\ UNCHANGED <<userActive, tracked, level, journal, userLock, itemLock, rowLock,
                     pc, pos, claim, ins, del, noticed, lost>>
  BY DEF ClosePosition, assignment, locks, local, history
<1>2. \A tr \in Traders : held'[tr] = IF tr = tr0 THEN 0 ELSE held[tr]
  <2>1. \A tr \in Traders : held'[tr] = held[tr] + 0 - (IF tr = tr0 THEN 1 ELSE 0)
    BY DEF ClosePosition, Book
  <2>2. \A tr \in Traders : held[tr] \in {0, 1} /\ (tr = tr0 => held[tr] = 1)
    BY <1>1 DEF IInv, RowsAgree
  <2>3. QED
    BY <2>1, <2>2
<1>3. TypeOK'
  <2>1. held' \in [Traders -> Nat]
    BY <1>2 DEF ClosePosition, Book, IInv, TypeOK
  <2>2. QED
    BY <1>1, <2>1 DEF IInv, TypeOK
<1>4. WorkersHold'
  <2>1. \A w \in Workers : pc[w] = "insert" => Bots[pos[w]] \in Traders
    BY ConstantFacts DEF IInv, TypeOK, InsertsPlaced
  <2>2. QED
    BY <1>1, <1>2, <2>1 DEF IInv, WorkersHold
<1>5. TabsHold' /\ InsertsPlaced' /\ NoticeMissingOnlyIfTabDied'
  BY <1>1 DEF IInv, TabsHold, InsertsPlaced, NoticeMissingOnlyIfTabDied
<1>6. RowsAgree'
  BY <1>1, <1>2 DEF IInv, RowsAgree
<1>7. QED
  BY <1>3, <1>4, <1>5, <1>6 DEF IInv

\* Nobody waits for a tab that is about to record: it holds no lock and has no
\* row that is not committed, so it is in no cycle.
LEMMA RecorderInNoCycle ==
  ASSUME IInv, NEW t \in Tabs, pc[t] = "record"
  PROVE  ~InCycle(t)
<1>1. \A b \in Actors : t \notin WaitsFor(b)
  <2>1. /\ ins[t] = {} /\ del[t] = {} /\ userLock # t /\ itemLock # t
        /\ \A tr \in Traders : rowLock[tr] # t
    <3>1. userLock # t /\ itemLock # t
      BY ConstantFacts DEF IInv, TypeOK
    <3>2. QED
      BY <3>1 DEF IInv, TabsHold
  <2>2. \A b \in Actors : \A tr : t \notin KeyHolders(b, tr)
    BY <2>1 DEF KeyHolders
  <2>3. \A b \in Actors : ToLock(b) \subseteq Traders
    BY BotsAssumption DEF ToLock
  <2>4. \A b \in Actors : t \notin {rowLock[tr] : tr \in ToLock(b)}
    BY <2>1, <2>3
  <2>5. QED
    BY <2>1, <2>2, <2>4 DEF WaitsFor
<1>2. SUFFICES ASSUME NEW n \in 1..Cardinality(Actors), NEW p \in [0..n -> Actors], p[n] = t,
                      \A i \in 0..(n - 1) : p[i + 1] \in WaitsFor(p[i])
               PROVE  FALSE
  BY DEF InCycle
<1>3. IsFiniteSet(Actors)
  BY ActorsAssumption, FS_Union DEF Actors
<1>4. n \in Nat /\ n > 0
  BY <1>3, FS_CardinalityType
<1>5. n - 1 \in 0..(n - 1) /\ p[n - 1] \in Actors /\ (n - 1) + 1 = n
  BY <1>4
<1>6. t \in WaitsFor(p[n - 1])
  BY <1>2, <1>5
<1>7. QED
  BY <1>1, <1>5, <1>6

LEMMA VictimInv ==
  ASSUME IInv, NEW a \in Actors, Victim(a)
  PROVE  IInv'
<1>1. CASE a \in Tabs /\ pc[a] \in {"insert", "fk"}
  <2>1. /\ pc' = [pc EXCEPT ![a] = "bots"] /\ pos' = [pos EXCEPT ![a] = @ + 1]
        /\ ins' = [ins EXCEPT ![a] = {}]
        /\ UNCHANGED <<userActive, tracked, level, journal, held, userLock, itemLock, rowLock,
                       claim, del, noticed, lost>>
    BY <1>1 DEF Victim, NextBot, Goto, assignment, locks, history
  <2>2. /\ pc'[a] = "bots" /\ ins'[a] = {}
        /\ \A b \in Actors : b # a => pc'[b] = pc[b] /\ pos'[b] = pos[b] /\ ins'[b] = ins[b]
    BY <2>1 DEF IInv, TypeOK
  <2>3. TypeOK'
    <3>1. pos' \in [Actors -> 1..(Len(Bots) + 1)]
      BY <1>1, <2>1, ConstantFacts DEF IInv, TypeOK, InsertsPlaced
    <3>2. QED
      BY <2>1, <3>1 DEF IInv, TypeOK
  <2>4. WorkersHold'
    BY <1>1, <2>1, <2>2, ConstantFacts DEF IInv, WorkersHold
  <2>5. TabsHold' /\ InsertsPlaced'
    BY <1>1, <2>1, <2>2, ConstantFacts DEF IInv, TabsHold, InsertsPlaced
  <2>6. RowsAgree'
    BY <2>1, <2>2 DEF IInv, RowsAgree
  <2>7. NoticeMissingOnlyIfTabDied'
    BY <1>1, <2>1, <2>2, ConstantFacts DEF IInv, NoticeMissingOnlyIfTabDied
  <2>8. QED
    BY <2>3, <2>4, <2>5, <2>6, <2>7 DEF IInv
<1>2. CASE ~(a \in Tabs /\ pc[a] \in {"insert", "fk"})
  <2>1. Rollback(a) /\ lost' = lost
    BY <1>2 DEF Victim
  <2>2. ~(a \in Tabs /\ pc[a] = "record")
    BY RecorderInNoCycle DEF Victim
  <2>3. QED
    BY <2>1, <2>2, RollbackInv
<1>3. QED
  BY <1>1, <1>2

-----------------------------------------------------------------------------
LEMMA NextIInv == IInv /\ [Next]_vars => IInv'
<1> SUFFICES ASSUME IInv, [Next]_vars PROVE IInv'
  OBVIOUS
<1>1. ASSUME NEW w \in Workers, WorkerStart(w) \/ WorkerStep(w) \/ WorkerFails(w)
      PROVE  IInv'
  <2>1. CASE WorkerFails(w)
    BY <2>1, RollbackInv, ConstantFacts DEF WorkerFails
  <2>2. CASE WorkerStart(w) \/ WorkerStep(w)
    BY <2>2, WorkerMoves, LockUserInv, LockItemInv, WorkerClaimInv, CheckBotInv, InsertRefusedInv,
       InsertEnteredInv, LockRowInv, WorkerRowsDoneInv, WorkerCommitInv, ConstantFacts
       DEF WorkerStep
  <2>3. QED
    BY <1>1, <2>1, <2>2
<1>2. ASSUME NEW t \in Tabs, TabStart(t) \/ TabStep(t) \/ TabDies(t)
      PROVE  IInv'
  <2>1. CASE TabDies(t)
    BY <2>1, RollbackInv, ConstantFacts DEF TabDies
  <2>2. CASE TabStart(t) \/ TabStep(t)
    BY <2>2, TabStartInv, TabClaimInv, TabRecordInv, CheckBotInv, InsertRefusedInv,
       InsertEnteredInv, TabForeignKeyInv, TabBotsDoneInv, LockRowInv, TabRowsDoneInv, ConstantFacts
       DEF TabStep
  <2>3. QED
    BY <1>2, <2>1, <2>2
<1>3. CASE UNCHANGED vars
  <2>1. UNCHANGED <<userActive, tracked, level, journal, held, userLock, itemLock, rowLock,
                    pc, pos, claim, ins, del, noticed, lost>>
    BY <1>3 DEF vars, assignment, locks, local, history
  <2>2. QED
    BY <2>1 DEF IInv, TypeOK, WorkersHold, TabsHold, InsertsPlaced, RowsAgree,
                NoticeMissingOnlyIfTabDied
<1>4. QED
  BY <1>1, <1>2, <1>3, VictimInv, RadarInv, ClosePositionInv DEF Next

\* The inductive invariant holds throughout.
THEOREM Inductive == Spec => []IInv
<1>1. QED
  BY InitIInv, NextIInv, PTL DEF Spec

\* Steps, levels, locks and rows keep their shape (RadarTxn TypeOK).
THEOREM TypeCorrect == Spec => []TypeOK
<1>1. IInv => TypeOK
  BY DEF IInv
<1>2. QED
  BY Inductive, <1>1, PTL

\* However the worker and the tabs interleave between has_open and the insert,
\* a trader has one active row at most, the uncommitted ones included
\* (app.py _open_bot, radar_worker.py _open_position).
THEOREM OnePosition == Spec => []OnePositionPerTrader
<1>1. ASSUME IInv PROVE OnePositionPerTrader
  <2>1. SUFFICES ASSUME NEW tr \in Traders
                 PROVE  /\ held[tr] \in {0, 1}
                        /\ Cardinality({a \in Actors : tr \in ins[a]}) + held[tr] <= 1
    BY DEF OnePositionPerTrader
  <2> DEFINE A == {a \in Actors : tr \in ins[a]}
  <2>2. held[tr] \in {0, 1}
    BY <1>1 DEF IInv, RowsAgree
  <2>3. CASE A = {}
    BY <2>2, <2>3, FS_EmptySet
  <2>4. CASE A # {}
    <3>1. PICK a \in A : TRUE
      BY <2>4
    <3>2. held[tr] = 0 /\ A = {a}
      BY <1>1, <3>1 DEF IInv, RowsAgree
    <3>3. Cardinality(A) = 1
      BY <3>2, FS_Singleton
    <3>4. QED
      BY <3>2, <3>3
  <2>5. QED
    BY <2>3, <2>4
<1>2. QED
  BY Inductive, <1>1, PTL

\* The worker's has_open is decisive: the index never refuses its insert
\* (radar_worker.py _open_position).
THEOREM NeverRefused == Spec => []WorkerNeverRefused
<1>1. ASSUME IInv PROVE WorkerNeverRefused
  BY <1>1 DEF IInv, WorkersHold, WorkerNeverRefused, KeyTaken
<1>2. QED
  BY Inductive, <1>1, PTL

\* A claimed notice is missing from the journal only while a tab is about to
\* write it, or because that tab died; a crash or rollback of the worker and the
\* deadlock detector lose none (app.py _radar_body, radar_worker.py
\* claim_notice_and_record).
THEOREM NoticesAccounted == Spec => []NoticeMissingOnlyIfTabDied
<1>1. IInv => NoticeMissingOnlyIfTabDied
  BY DEF IInv
<1>2. QED
  BY Inductive, <1>1, PTL

\* The worker commits only for an active owner who still tracks the ticker
\* (radar_worker.py process_analysis).
THEOREM WritesOnlyForOwners == Spec => WorkerWritesOnlyForOwners
<1>1. ASSUME IInv, [Next]_vars
      PROVE  [\A w \in Workers : WorkerCommit(w) => userActive /\ tracked]_vars
  BY <1>1 DEF IInv, WorkersHold, WorkerCommit
<1>2. QED
  BY Inductive, <1>1, PTL DEF Spec, WorkerWritesOnlyForOwners

\* Under the worker's two locks nobody changes the assignment or the level, or
\* commits a position (radar_worker.py process_analysis).
THEOREM Isolation == Spec => PhaseIsIsolated
<1> DEFINE Still(w) ==
      pc[w] \notin {"idle", "lockUser", "lockItem"} /\ pc'[w] # "idle" =>
        /\ UNCHANGED <<userActive, tracked, level>>
        /\ \A tr \in Traders : held'[tr] <= held[tr]
<1>1. ASSUME IInv, Next, NEW w \in Workers PROVE Still(w)
  <2>1. SUFFICES ASSUME pc[w] \notin {"idle", "lockUser", "lockItem"}, pc'[w] # "idle"
                 PROVE  /\ UNCHANGED <<userActive, tracked, level>>
                        /\ \A tr \in Traders : held'[tr] <= held[tr]
    OBVIOUS
  <2>2. userLock = w /\ itemLock = w /\ w # None
    BY <1>1, <2>1, ConstantFacts DEF IInv, WorkersHold
  <2>3. \A tr \in Traders : held[tr] \in Nat
    BY <1>1 DEF IInv, TypeOK
  <2>4. \A closes : held' = Book({}, closes) => \A tr \in Traders : held'[tr] <= held[tr]
    BY <2>3 DEF Book
  <2>5. held' = held => \A tr \in Traders : held'[tr] <= held[tr]
    BY <2>3
  <2>6. ASSUME NEW v \in Workers, WorkerStart(v) \/ WorkerStep(v) \/ WorkerFails(v)
        PROVE  UNCHANGED <<userActive, tracked, level, held>>
    <3>1. ~WorkerCommit(v)
      <4>1. CASE v = w
        BY <2>1, <4>1, <1>1, ConstantFacts DEF WorkerCommit, Goto, IInv, TypeOK
      <4>2. CASE v # w
        BY <1>1, <2>2, <4>2 DEF WorkerCommit, IInv, WorkersHold
      <4>3. QED
        BY <4>1, <4>2
    <3>2. QED
      BY <2>6, <3>1 DEF WorkerStart, WorkerStep, WorkerFails, LockUser, LockItem, WorkerClaim,
         CheckBot, InsertRefused, InsertEntered, WorkerBotsDone, LockRow, WorkerRowsDone,
         Rollback, assignment, locks, local, history
  <2>7. ASSUME NEW t \in Tabs, TabStart(t) \/ TabStep(t) \/ TabDies(t)
        PROVE  /\ UNCHANGED <<userActive, tracked, level>>
               /\ held' = held \/ \E closes : held' = Book({}, closes)
    BY <2>2, <2>7 DEF TabStart, TabStep, TabDies, TabClaim, TabRecord, CheckBot, InsertRefused,
       InsertEntered, TabForeignKey, TabBotsDone, LockRow, TabRowsDone, Rollback, assignment,
       locks, local, history
  <2>8. ASSUME NEW a \in Actors, Victim(a)
        PROVE  UNCHANGED <<userActive, tracked, level, held>>
    BY <2>8 DEF Victim, Rollback, assignment
  <2>9. ASSUME AddRadar \/ RemoveRadar \/ SetActive
        PROVE  FALSE
    BY <1>1, <2>1, <2>2, <2>9 DEF AddRadar, RemoveRadar, SetActive, IInv, WorkersHold
  <2>10. ASSUME NEW tr \in Traders, ClosePosition(tr)
         PROVE  UNCHANGED <<userActive, tracked, level>> /\ held' = Book({}, {tr})
    BY <2>10 DEF ClosePosition, assignment
  <2>11. QED
    BY <1>1, <2>4, <2>5, <2>6, <2>7, <2>8, <2>9, <2>10 DEF Next
<1>2. ASSUME IInv, [Next]_vars PROVE [\A w \in Workers : Still(w)]_vars
  BY <1>1, <1>2
<1>3. QED
  BY Inductive, <1>2, PTL DEF Spec, PhaseIsIsolated
===============================================================================
