--------------------------- MODULE ServicesProofs ---------------------------
(* The services, for any values of their bounds.  Each has an inductive     *)
(* invariant of its own (MDInv, ALInv, ...), which its steps keep; a step of *)
(* all is a step of one of them, so that together they hold of ServicesSpec *)
(* (ServicesInv, at the end), and the theorems follow from them.  Each      *)
(* section says what its invariant adds to the property.                    *)
EXTENDS Services, FiniteSetTheorems, SequenceTheorems, TLAPS

-----------------------------------------------------------------------------
(***************************************************************************)
(* RateLimit implements CallBudget, for any cap, any number of callers and *)
(* any calendar.  With a database the row of a day is never behind what    *)
(* was granted on it and never over the cap.  Without one the count of the *)
(* file is not behind either, but it is raised after the wait for a token: *)
(* what is granted and what still waits together stay within the cap and   *)
(* the callers that can wait at a time, less one.                          *)
(***************************************************************************)

Bounds == CapAssumption /\ IsFiniteSet(Callers)

Stages == Waiting \cup {"idle", "granted", "refused"}

\* Who waits without a database, and has asked on day d.
Pending(d) == {c \in Callers : caller[c].at \in {"token", "count"} /\ caller[c].day = d}

Shape ==
  /\ database \in BOOLEAN
  /\ today \in Days /\ limiterDay \in 0..today
  /\ daily \in Nat /\ file \in [day : Days, count : Nat]
  /\ row \in [Days -> Nat \cup {NoRow}]
  /\ caller \in [Callers -> [at : Stages, day : Days]]
  /\ granted \in [Days -> Nat]

\* The row of a day is ahead of its grants.
RowIsAhead ==
  database =>
    /\ \A c \in Callers : caller[c].at # "count"
    /\ file.count <= PerDay
    /\ \A d \in Days : /\ row[d] <= PerDay
                       /\ row[d] = NoRow => granted[d] = 0
                       /\ row[d] # NoRow => granted[d] <= row[d]

\* The table is the file's count, and the file is ahead of the grants.
FileIsAhead ==
  ~database =>
    /\ \A c \in Callers :
         caller[c].at \notin {"update", "insert", "retry"} /\ caller[c].day <= limiterDay
    /\ file.day <= limiterDay
    /\ daily = IF file.day = limiterDay THEN file.count ELSE 0
    /\ granted[file.day] <= file.count
    /\ \A d \in Days : d > file.day => granted[d] = 0

WaitersFit ==
  ~database =>
    \A d \in Days : granted[d] + Cardinality(Pending(d)) <= PerDay + Cardinality(Callers) - 1

IInv == Shape /\ RowIsAhead /\ FileIsAhead /\ WaitersFit

LEMMA PendingFinite ==
  ASSUME Bounds, NEW d
  PROVE  /\ IsFiniteSet(Pending(d)) /\ Cardinality(Pending(d)) \in Nat
         /\ Cardinality(Pending(d)) <= Cardinality(Callers) /\ Cardinality(Callers) \in Nat
BY FS_Subset, FS_CardinalityType, Pending(d) \in SUBSET Callers DEF Bounds, Pending

\* Where nothing is granted and nobody joins, nothing is lost.
LEMMA StillFit ==
  ASSUME Bounds, IInv, Shape', database' = database, granted' = granted,
         \A d \in Days : Pending(d)' \subseteq Pending(d)
  PROVE  WaitersFit'
<1> SUFFICES ASSUME ~database, NEW d \in Days
             PROVE  granted[d] + Cardinality(Pending(d)') <= PerDay + Cardinality(Callers) - 1
  BY DEF WaitersFit
<1>1. Cardinality(Pending(d)') <= Cardinality(Pending(d)) /\ Cardinality(Pending(d)') \in Nat
  <2>1. Pending(d)' \in SUBSET Pending(d)
    OBVIOUS
  <2>2. QED
    BY <2>1, PendingFinite, FS_Subset, FS_CardinalityType
<1>2. granted[d] + Cardinality(Pending(d)) <= PerDay + Cardinality(Callers) - 1
  BY DEF IInv, WaitersFit
<1>3. granted[d] \in Nat /\ PerDay \in Nat
  BY DEF IInv, Shape, Bounds, CapAssumption
<1>4. QED
  BY <1>1, <1>2, <1>3, PendingFinite

LEMMA InitIInv == ASSUME Bounds, Init PROVE IInv
<1>1. Shape
  BY DEF Bounds, CapAssumption, Init, Shape, Days, Stages
<1>2. RowIsAhead /\ FileIsAhead
  <2>1. /\ file.day = 0 /\ file.count \in 0..PerDay /\ limiterDay = 0
        /\ \A d \in Days : granted[d] = 0 /\ row[d] = NoRow
        /\ \A c \in Callers : caller[c] = [at |-> "idle", day |-> 0]
        /\ 0 \in Days /\ PerDay \in Nat
    BY DEF Bounds, CapAssumption, Init, Days
  <2>2. RowIsAhead
    BY <2>1 DEF RowIsAhead, NoRow
  <2>3. FileIsAhead
    BY <2>1 DEF Init, FileIsAhead
  <2>4. QED
    BY <2>2, <2>3
<1>3. WaitersFit
  <2>1. \A d : Pending(d) = {}
    BY DEF Init, Pending
  <2>2. \A d \in Days : granted[d] = 0
    BY DEF Init
  <2>3. Cardinality(Callers) \in Nat /\ PerDay \in Nat \ {0}
    BY FS_CardinalityType DEF Bounds, CapAssumption
  <2>4. QED
    BY <2>1, <2>2, <2>3, FS_EmptySet DEF WaitersFit
<1>4. QED
  BY <1>1, <1>2, <1>3 DEF IInv

-----------------------------------------------------------------------------
\* A step that grants is a Grant of the budget, every other leaves it alone.
GrantsOne == (\E d \in Days : Budget!Grant(d)) \/ UNCHANGED <<granted, database>>

\* Whoever asks joins those that wait only below the cap.
LEMMA AskKeeps ==
  ASSUME Bounds, IInv, NEW c \in Callers, Ask(c)
  PROVE  IInv' /\ GrantsOne
<1>1. /\ limiterDay' = today /\ daily' = RolledDaily /\ file' = RolledFile
      /\ UNCHANGED <<database, today, row, granted>>
  BY DEF Ask
<1>2. caller' = [caller EXCEPT ![c] =
        [at |-> IF ~database /\ RolledDaily >= PerDay THEN "refused" ELSE "token",
         day |-> today]]
  BY DEF Ask
<1>3. /\ caller'[c].at = (IF ~database /\ RolledDaily >= PerDay THEN "refused" ELSE "token")
      /\ caller'[c].day = today
      /\ \A b \in Callers : b # c => caller'[b] = caller[b]
  BY <1>2 DEF IInv, Shape
<1>4. RolledDaily \in Nat /\ RolledFile \in [day : Days, count : Nat]
  BY DEF IInv, Shape, RolledDaily, RolledFile
<1>5. Shape'
  BY <1>1, <1>2, <1>4 DEF IInv, Shape, Days, Stages, Waiting
<1>6. RowIsAhead'
  BY <1>1, <1>3 DEF IInv, RowIsAhead, RolledFile
<1>7. ~database => granted[today] <= RolledDaily
  BY DEF IInv, Shape, FileIsAhead, RolledDaily, Days
<1>8. FileIsAhead'
  <2>1. SUFFICES ASSUME ~database PROVE FileIsAhead'
    BY <1>1 DEF FileIsAhead
  <2>2. \A b \in Callers :
          caller'[b].at \notin {"update", "insert", "retry"} /\ caller'[b].day <= limiterDay'
    <3>1. caller'[c].at \in {"refused", "token"} /\ caller'[c].day = limiterDay'
      BY <1>1, <1>3
    <3>2. limiterDay \in Nat /\ today \in Nat /\ limiterDay <= today
      BY DEF IInv, Shape, Days
    <3>3. ASSUME NEW b \in Callers, b # c
          PROVE  /\ caller'[b].at \notin {"update", "insert", "retry"}
                 /\ caller'[b].day <= limiterDay'
      <4>1. caller'[b] = caller[b]
        BY <1>3, <3>3
      <4>2. caller[b].at \notin {"update", "insert", "retry"} /\ caller[b].day <= limiterDay
        BY <2>1 DEF IInv, FileIsAhead
      <4>3. caller[b].day \in Nat
        BY DEF IInv, Shape, Days
      <4>4. QED
        BY <1>1, <3>2, <4>1, <4>2, <4>3
    <3>4. limiterDay' <= limiterDay'
      BY <1>1, <3>2
    <3>5. QED
      BY <3>1, <3>3, <3>4
  <2>3. file'.day <= limiterDay' /\ daily' = IF file'.day = limiterDay' THEN file'.count ELSE 0
    BY <1>1, <2>1 DEF IInv, Shape, FileIsAhead, RolledDaily, RolledFile, Days
  <2>4. granted'[file'.day] <= file'.count /\ \A d \in Days : d > file'.day => granted'[d] = 0
    BY <1>1, <2>1 DEF IInv, Shape, FileIsAhead, RolledFile, Days
  <2>5. QED
    BY <2>2, <2>3, <2>4 DEF FileIsAhead
<1>9. WaitersFit'
  <2>1. SUFFICES ASSUME ~database, NEW d \in Days
                 PROVE  granted[d] + Cardinality(Pending(d)') <= PerDay + Cardinality(Callers) - 1
    BY <1>1 DEF WaitersFit
  <2>2. /\ Cardinality(Pending(d)') \in Nat /\ Cardinality(Pending(d)') <= Cardinality(Callers)
        /\ Cardinality(Callers) \in Nat
    BY FS_Subset, FS_CardinalityType, Pending(d)' \in SUBSET Callers DEF Bounds, Pending
  <2>3. granted[d] \in Nat /\ PerDay \in Nat /\ granted[today] \in Nat
    BY DEF IInv, Shape, Bounds, CapAssumption
  <2>4. CASE d = today /\ RolledDaily < PerDay
    BY <1>4, <1>7, <2>1, <2>2, <2>3, <2>4
  <2>5. CASE ~(d = today /\ RolledDaily < PerDay)
    <3>1. Pending(d)' \subseteq Pending(d)
      BY <1>3, <1>4, <2>1, <2>3, <2>5 DEF Pending
    <3>2. Cardinality(Pending(d)') <= Cardinality(Pending(d))
      BY <3>1, PendingFinite, FS_Subset
    <3>3. granted[d] + Cardinality(Pending(d)) <= PerDay + Cardinality(Callers) - 1
      BY <2>1 DEF IInv, WaitersFit
    <3>4. QED
      BY <2>2, <2>3, <3>2, <3>3, PendingFinite
  <2>6. QED
    BY <2>4, <2>5
<1>10. QED
  BY <1>1, <1>5, <1>6, <1>8, <1>9 DEF IInv, GrantsOne

LEMMA TakeTokenKeeps ==
  ASSUME Bounds, IInv, NEW c \in Callers, TakeToken(c)
  PROVE  IInv' /\ GrantsOne
<1>1. /\ caller[c].at = "token"
      /\ UNCHANGED <<database, today, limiterDay, daily, file, row, granted>>
  BY DEF TakeToken, At
<1>2. PICK to \in {"update", "count", "refused"} :
        /\ caller' \in {[caller EXCEPT ![c] = [at |-> to, day |-> today]], [caller EXCEPT ![c].at = to]}
        /\ to = "update" => database
        /\ to = "count" => ~database
        /\ ~database => caller' = [caller EXCEPT ![c].at = to]
  BY DEF TakeToken, Go, IInv, Shape
<1>3. /\ caller'[c].at = to
      /\ ~database => caller'[c].day = caller[c].day
      /\ \A b \in Callers : b # c => caller'[b] = caller[b]
  BY <1>2 DEF IInv, Shape
<1>4. Shape'
  BY <1>1, <1>2 DEF IInv, Shape, Stages, Waiting
<1>5. RowIsAhead'
  BY <1>1, <1>2, <1>3 DEF IInv, RowIsAhead
<1>6. FileIsAhead'
  BY <1>1, <1>2, <1>3 DEF IInv, FileIsAhead
<1>7. WaitersFit'
  <2>1. CASE database
    BY <1>1, <2>1 DEF WaitersFit
  <2>2. CASE ~database
    <3>1. \A d \in Days : Pending(d)' \subseteq Pending(d)
      BY <1>1, <1>3, <2>2 DEF Pending
    <3>2. QED
      BY <1>1, <1>4, <3>1, StillFit
  <2>3. QED
    BY <2>1, <2>2
<1>8. QED
  BY <1>1, <1>4, <1>5, <1>6, <1>7 DEF IInv, GrantsOne

\* The three statements of the row: it counts when it grants.
LEMMA RowStepKeeps ==
  ASSUME Bounds, IInv, NEW c \in Callers, Update(c) \/ Insert(c) \/ Retry(c)
  PROVE  IInv' /\ GrantsOne
<1> DEFINE d0 == caller[c].day
<1>1. /\ caller[c].at \in {"update", "insert", "retry"}
      /\ UNCHANGED <<database, today, limiterDay, daily, file>>
  BY DEF Update, Insert, Retry, At
<1>2. database /\ d0 \in Days /\ row[d0] \in Nat \cup {NoRow}
  BY <1>1 DEF IInv, Shape, FileIsAhead
<1>3. PICK to \in {"granted", "insert", "retry", "refused"} : caller' = [caller EXCEPT ![c].at = to]
  BY DEF Update, Insert, Retry, Increment, Granted, Go
<1>4. \/ UNCHANGED <<row, granted>>
      \/ /\ granted' = [granted EXCEPT ![d0] = @ + 1]
         /\ \/ row[d0] \in 0..(PerDay - 1) /\ row' = [row EXCEPT ![d0] = @ + 1]
            \/ row[d0] = NoRow /\ row' = [row EXCEPT ![d0] = 1]
  BY DEF Update, Insert, Retry, Increment, Granted, Counts
<1> HIDE DEF d0
<1>5. Shape'
  <2>1. caller' \in [Callers -> [at : Stages, day : Days]]
    BY <1>3 DEF IInv, Shape, Stages, Waiting
  <2>2. row' \in [Days -> Nat \cup {NoRow}] /\ granted' \in [Days -> Nat]
    BY <1>2, <1>4 DEF IInv, Shape, NoRow
  <2>3. QED
    BY <1>1, <2>1, <2>2 DEF IInv, Shape
<1>6. RowIsAhead'
  <2>1. \A b \in Callers : caller'[b].at # "count"
    BY <1>2, <1>3 DEF IInv, Shape, RowIsAhead
  <2>2. PerDay \in Nat \ {0} /\ granted \in [Days -> Nat] /\ row \in [Days -> Nat \cup {NoRow}]
    BY DEF Bounds, CapAssumption, IInv, Shape
  <2>3. ASSUME NEW d \in Days
        PROVE  /\ row'[d] <= PerDay
               /\ row'[d] = NoRow => granted'[d] = 0
               /\ row'[d] # NoRow => granted'[d] <= row'[d]
    <3>1. /\ row[d] <= PerDay
          /\ row[d] = NoRow => granted[d] = 0
          /\ row[d] # NoRow => granted[d] <= row[d]
      BY <1>2 DEF IInv, RowIsAhead
    <3>2. CASE UNCHANGED <<row, granted>>
      BY <3>1, <3>2
    <3>3. CASE /\ granted' = [granted EXCEPT ![d0] = @ + 1]
               /\ row[d0] \in 0..(PerDay - 1) /\ row' = [row EXCEPT ![d0] = @ + 1]
      BY <1>2, <2>2, <3>1, <3>3 DEF NoRow
    <3>4. CASE /\ granted' = [granted EXCEPT ![d0] = @ + 1]
               /\ row[d0] = NoRow /\ row' = [row EXCEPT ![d0] = 1]
      BY <1>2, <2>2, <3>1, <3>4 DEF NoRow
    <3>5. QED
      BY <1>4, <3>2, <3>3, <3>4
  <2>4. QED
    BY <1>1, <1>2, <2>1, <2>3 DEF IInv, RowIsAhead
<1>7. FileIsAhead' /\ WaitersFit'
  BY <1>1, <1>2 DEF FileIsAhead, WaitersFit
<1>8. GrantsOne
  <2>1. CASE granted' = granted
    BY <1>1, <2>1 DEF GrantsOne
  <2>2. CASE granted' # granted
    <3>1. granted' = [granted EXCEPT ![d0] = @ + 1] /\ row[d0] \in {NoRow} \cup 0..(PerDay - 1)
      BY <1>4, <2>2
    <3>2. granted[d0] < PerDay
      BY <1>2, <3>1 DEF IInv, Shape, RowIsAhead, Bounds, CapAssumption, NoRow
    <3>3. Budget!Grant(d0)
      BY <1>1, <1>2, <3>1, <3>2 DEF Budget!Grant
    <3>4. QED
      BY <1>2, <3>3 DEF GrantsOne
  <2>3. QED
    BY <2>1, <2>2
<1>9. QED
  BY <1>5, <1>6, <1>7, <1>8 DEF IInv

\* Without a database: a caller that waited is counted.
LEMMA CountKeeps ==
  ASSUME Bounds, IInv, NEW c \in Callers, Count(c)
  PROVE  IInv' /\ GrantsOne
<1> DEFINE d0 == caller[c].day
<1>1. /\ caller[c].at = "count" /\ ~database
      /\ UNCHANGED <<database, today, limiterDay, row>>
  BY DEF Count, At, IInv, RowIsAhead
<1>2. /\ daily' = daily + 1 /\ file' = [day |-> limiterDay, count |-> daily + 1]
      /\ caller' = [caller EXCEPT ![c].at = "granted"]
      /\ granted' = [granted EXCEPT ![d0] = @ + 1]
  BY DEF Count, Granted, Go
<1>3. d0 \in Days /\ d0 <= limiterDay /\ limiterDay \in Days
  <2>1. d0 \in Days
    BY DEF IInv, Shape
  <2>2. d0 <= limiterDay
    BY <1>1 DEF IInv, FileIsAhead
  <2>3. LastDay \in Nat /\ today \in 0..LastDay /\ limiterDay \in 0..today
    BY DEF IInv, Shape, Days, Bounds, CapAssumption
  <2>4. limiterDay \in Days
    BY <2>3 DEF Days
  <2>5. QED
    BY <2>1, <2>2, <2>4
<1>4. c \in Pending(d0)
  BY <1>1 DEF Pending
<1> HIDE DEF d0
<1>5. Shape'
  BY <1>1, <1>2, <1>3 DEF IInv, Shape, Stages
<1>6. RowIsAhead'
  BY <1>1 DEF RowIsAhead
<1>7. FileIsAhead'
  <2>1. granted[limiterDay] <= daily /\ \A d \in Days : d > limiterDay => granted[d] = 0
    BY <1>1, <1>3 DEF IInv, Shape, FileIsAhead, Days
  <2>2. \A b \in Callers :
          caller'[b].at \notin {"update", "insert", "retry"} /\ caller'[b].day <= limiterDay'
    BY <1>1, <1>2 DEF IInv, Shape, FileIsAhead
  <2>3. granted'[limiterDay] <= daily + 1 /\ \A d \in Days : d > limiterDay => granted'[d] = 0
    BY <1>2, <1>3, <2>1 DEF IInv, Shape, Days
  <2>4. QED
    BY <1>1, <1>2, <2>2, <2>3 DEF FileIsAhead, IInv, Shape
<1>8. \A d \in Days : granted[d] + Cardinality(Pending(d)) <= PerDay + Cardinality(Callers) - 1
  BY <1>1 DEF IInv, WaitersFit
<1>9. WaitersFit'
  <2>1. SUFFICES ASSUME NEW d \in Days
                 PROVE  granted'[d] + Cardinality(Pending(d)') <= PerDay + Cardinality(Callers) - 1
    BY DEF WaitersFit
  <2>2. Pending(d)' = Pending(d) \ {c}
    BY <1>2 DEF IInv, Shape, Pending
  <2>3. /\ Cardinality(Pending(d)') \in Nat
        /\ Cardinality(Pending(d)') = IF c \in Pending(d) THEN Cardinality(Pending(d)) - 1
                                                         ELSE Cardinality(Pending(d))
    BY <2>2, PendingFinite, FS_RemoveElement, FS_CardinalityType
  <2>4. c \in Pending(d) <=> d = d0
    BY <1>4 DEF Pending
  <2>5. granted'[d] = IF d = d0 THEN granted[d] + 1 ELSE granted[d]
    BY <1>2, <1>3 DEF IInv, Shape
  <2>6. granted[d] \in Nat /\ PerDay \in Nat
    BY DEF IInv, Shape, Bounds, CapAssumption
  <2>7. QED
    BY <1>8, <2>3, <2>4, <2>5, <2>6, PendingFinite
<1>10. GrantsOne
  <2>1. Cardinality(Pending(d0)) >= 1
    <3>1. Cardinality(Pending(d0)) # 0
      BY <1>4, PendingFinite, FS_EmptySet
    <3>2. QED
      BY <3>1, PendingFinite
  <2>2. granted[d0] < PerDay + Cardinality(Callers) - 1
    BY <1>3, <1>8, <2>1, PendingFinite DEF IInv, Shape, Bounds, CapAssumption
  <2>3. Budget!Grant(d0)
    BY <1>1, <1>2, <2>2 DEF Budget!Grant
  <2>4. QED
    BY <1>3, <2>3 DEF GrantsOne
<1>11. QED
  BY <1>5, <1>6, <1>7, <1>9, <1>10 DEF IInv

\* A file of former counts, a new process, a new token, a new day.
LEMMA OthersKeep ==
  ASSUME Bounds, IInv, ImportCount \/ Restart \/ Refill \/ Midnight
  PROVE  IInv' /\ GrantsOne
<1>1. CASE ImportCount
  <2>1. /\ database
        /\ UNCHANGED <<database, today, limiterDay, daily, file, caller, granted>>
        /\ row' = [row EXCEPT ![file.day] =
                     IF row[file.day] >= file.count THEN row[file.day] ELSE file.count]
    BY <1>1 DEF ImportCount
  <2>2. file.day \in Days /\ file.count \in Nat
    BY DEF IInv, Shape
  <2>3. Shape'
    BY <2>1, <2>2 DEF IInv, Shape, NoRow
  <2>4. RowIsAhead'
    BY <2>1, <2>2 DEF IInv, Shape, RowIsAhead, Bounds, CapAssumption, NoRow
  <2>5. FileIsAhead' /\ WaitersFit' /\ GrantsOne
    BY <2>1 DEF FileIsAhead, WaitersFit, GrantsOne
  <2>6. QED
    BY <2>3, <2>4, <2>5 DEF IInv
<1>2. CASE Restart
  <2>1. /\ limiterDay' = today
        /\ daily' = IF ~database /\ file.day = today THEN file.count ELSE 0
        /\ caller' = [c \in Callers |-> [at |-> "idle", day |-> today]]
        /\ UNCHANGED <<database, today, file, row, granted>>
    BY <1>2 DEF Restart
  <2>2. Shape'
    BY <2>1 DEF IInv, Shape, Days, Stages
  <2>3. RowIsAhead'
    BY <2>1 DEF IInv, RowIsAhead
  <2>4. FileIsAhead'
    BY <2>1 DEF IInv, Shape, FileIsAhead, Days
  <2>5. \A d \in Days : Pending(d)' \subseteq Pending(d)
    BY <2>1 DEF Pending
  <2>6. QED
    BY <2>1, <2>2, <2>3, <2>4, <2>5, StillFit DEF IInv, GrantsOne
<1>3. CASE Refill
  BY <1>3 DEF Refill, IInv, Shape, RowIsAhead, FileIsAhead, WaitersFit, Pending, GrantsOne
<1>4. CASE Midnight
  <2>1. /\ today < LastDay /\ today' = today + 1
        /\ UNCHANGED <<database, limiterDay, daily, file, row, caller, granted>>
    BY <1>4 DEF Midnight
  <2>2. Shape'
    BY <2>1 DEF IInv, Shape, Days, Bounds, CapAssumption
  <2>3. RowIsAhead' /\ FileIsAhead' /\ WaitersFit' /\ GrantsOne
    BY <2>1 DEF IInv, RowIsAhead, FileIsAhead, WaitersFit, Pending, GrantsOne
  <2>4. QED
    BY <2>2, <2>3 DEF IInv
<1>5. QED
  BY <1>1, <1>2, <1>3, <1>4

LEMMA NextKeeps ==
  ASSUME Bounds, IInv, [Next]_vars
  PROVE  IInv' /\ GrantsOne
<1>1. CASE UNCHANGED vars
  BY <1>1 DEF vars, IInv, Shape, RowIsAhead, FileIsAhead, WaitersFit, Pending, GrantsOne
<1>2. CASE Next
  BY <1>2, AskKeeps, TakeTokenKeeps, RowStepKeeps, CountKeeps, OthersKeep DEF Next, Step
<1>3. QED
  BY <1>1, <1>2

\* With a database no day's requests pass the cap, over any number of processes,
\* restarts and midnights; without one they pass it at most by the callers that
\* can wait together, less one; and no grant is ever forgotten: RateLimit
\* implements CallBudget (ratelimit.py acquire, rate_limits.py increment).
THEOREM LimiterKeepsBudget ==
  ASSUME Bounds
  PROVE  Spec => KeepsBudget
<1>1. Init => IInv
  BY InitIInv
<1>2. IInv /\ [Next]_vars => IInv'
  BY NextKeeps
<1>3. Init => Budget!Init
  <2>1. Cardinality(Callers) \in Nat
    BY FS_CardinalityType DEF Bounds
  <2>2. QED
    BY <2>1 DEF Init, Budget!Init, Bounds, CapAssumption
<1>4. IInv /\ [Next]_vars =>
        [Budget!Next]_<<granted, IF database THEN PerDay ELSE PerDay + Cardinality(Callers) - 1>>
  <2>1. SUFFICES ASSUME IInv, [Next]_vars
                 PROVE  Budget!Next \/ UNCHANGED <<granted, database>>
    OBVIOUS
  <2>2. QED
    BY <2>1, NextKeeps DEF GrantsOne, Budget!Next
<1>5. QED
  BY <1>1, <1>2, <1>3, <1>4, PTL DEF Spec, KeepsBudget, Budget!Spec

-----------------------------------------------------------------------------
\* The finite sets of an instance are the finite sets of the library.
LEMMA SameFiniteSets ==
  ASSUME NEW S
  PROVE  /\ LI!IsFiniteSet(S) <=> IsFiniteSet(S)
         /\ LI!Cardinality(S) = Cardinality(S)
BY DEF LI!IsFiniteSet, IsFiniteSet, LI!Cardinality, Cardinality

LEMMA SameCardinality == ASSUME NEW S PROVE WL!Cardinality(S) = Cardinality(S)
BY DEF WL!Cardinality, Cardinality

-----------------------------------------------------------------------------
\* MarketData: what the table holds is one window, whatever stores overlap.

MDFetches ==
  [at : MD!Stages, snap : 0..LastSnap, stamp : 0..StoreTime, by : 0..MaxStores, seen : SUBSET (1..MaxStores),
   deleted : SUBSET (1..MaxStores), hadCache : BOOLEAN, served : SUBSET (MD!Bars \X (0..LastSnap))]

MDShape ==
  /\ clockMD \in 0..StoreTime /\ feed \in 1..LastSnap /\ stores \in 0..MaxStores
  /\ rowsMD \in [MD!Bars -> [snap : 0..LastSnap, stamp : 0..StoreTime, by : 0..MaxStores]]
  /\ reader \in [Callers -> MDFetches]
  /\ everStored \in BOOLEAN /\ raced \in [Callers -> BOOLEAN]

\* What a store holds it has seen, and it saw what had begun.
MDStoresInOrder ==
  /\ \A b \in MD!Bars : rowsMD[b] # MD!NoRow => rowsMD[b].by \in 1..stores
  /\ \A r \in Callers :
       /\ reader[r].seen \subseteq 1..stores /\ reader[r].deleted \subseteq reader[r].seen
       /\ reader[r].by <= stores
       /\ reader[r].at \in {"delete", "upsert"} => reader[r].by >= 1
       /\ reader[r].at \in {"open", "delete", "upsert"} => reader[r].snap >= 1
       /\ reader[r].at # "upsert" => reader[r].deleted = {}

\* The table holds a window of one snapshot, whatever else it holds.
MDHolds(table) == \E s \in 1..LastSnap : \A b \in MD!Window(s) : table[b].snap = s
MDTableIsWhole == MD!Stored # {} => MDHolds(rowsMD)
MDServedIsWhole ==
  \A r \in Callers : reader[r].at \in {"fresh", "notice"} =>
      \E s \in 1..LastSnap : \A b \in MD!Window(s) : <<b, s>> \in reader[r].served

MDCacheIsKept ==
  /\ everStored => MD!Stored # {}
  /\ \A r \in Callers : /\ reader[r].hadCache => everStored
                        /\ reader[r].at = "raised" => ~reader[r].hadCache

\* A store that was not raced is alone, and has all there is in its hands.
MDUndisturbed ==
  \A r \in Callers : MD!InStore(r) /\ ~raced[r] =>
    /\ \A q \in Callers \ {r} : ~MD!InStore(q)
    /\ reader[r].at = "delete" => MD!StoreIds \subseteq reader[r].seen
    /\ reader[r].at = "upsert" => MD!StoreIds \subseteq reader[r].deleted

MDInv == MDShape /\ MDStoresInOrder /\ MDTableIsWhole /\ MDServedIsWhole /\ MDCacheIsKept /\ MDUndisturbed

LEMMA MDWindowIs == ASSUME MD!WindowAssumption, NEW s \in 1..LastSnap
                  PROVE  MD!Window(s) \subseteq MD!Bars /\ MD!Window(s) # {} /\ s \in MD!Window(s)
<1>1. s \in MD!Window(s)
  BY DEF MD!WindowAssumption, MD!Window
<1>2. ASSUME NEW b \in MD!Window(s) PROVE b \in MD!Bars
  BY <1>2 DEF MD!WindowAssumption, MD!Window, MD!Bars
<1> QED BY <1>1, <1>2

LEMMA MDInitI == MD!WindowAssumption /\ MD!Init => MDInv
<1> SUFFICES ASSUME MD!WindowAssumption, MD!Init PROVE MDInv
  OBVIOUS
<1>1. \A r \in Callers : reader[r] = MD!Asleep
  BY DEF MD!Init
<1>2. MD!Asleep \in MDFetches
  BY DEF MD!Asleep, MDFetches, MD!WindowAssumption, MD!Stages
<1>3. MD!NoRow \in [snap : 0..LastSnap, stamp : 0..StoreTime, by : 0..MaxStores] /\ MD!NoRow.by = 0
  BY DEF MD!NoRow, MD!WindowAssumption
<1>4. MDShape
  <2>1. clockMD \in 0..StoreTime /\ feed \in 1..LastSnap /\ stores \in 0..MaxStores
    BY DEF MD!Init, MD!WindowAssumption
  <2>2. reader \in [Callers -> MDFetches] /\ everStored \in BOOLEAN /\ raced \in [Callers -> BOOLEAN]
    BY <1>2 DEF MD!Init
  <2>3. rowsMD \in [MD!Bars -> [snap : 0..LastSnap, stamp : 0..StoreTime, by : 0..MaxStores]]
    BY <1>3 DEF MD!Init
  <2> QED BY <2>1, <2>2, <2>3 DEF MDShape
<1>5. MDStoresInOrder
  BY <1>1, <1>3 DEF MD!Init, MDStoresInOrder, MD!Asleep
<1>6. MD!Stored = {} /\ \A r \in Callers : ~MD!InStore(r)
  BY <1>1 DEF MD!Init, MD!Stored, MD!InStore, MD!Asleep
<1>7. MDTableIsWhole /\ MDServedIsWhole /\ MDCacheIsKept /\ MDUndisturbed
  BY <1>1, <1>6 DEF MD!Init, MDTableIsWhole, MDServedIsWhole, MDCacheIsKept, MDUndisturbed,
       MD!Asleep
<1> QED BY <1>4, <1>5, <1>7 DEF MDInv

\* A step of one fetch that touches no table and holds no store afterwards.
LEMMA MDOutsideI ==
  ASSUME MD!WindowAssumption, MDInv, NEW r \in Callers, NEW me \in MDFetches, MD!OnlyReader, MD!Become(r, me),
         me.seen = reader[r].seen \/ me.seen = {},
         me.deleted = {},
         me.by = 0 \/ me.by = reader[r].by,
         me.at \notin {"delete", "upsert"}, me.at = "open" => me.snap >= 1,
         me.at \in {"fresh", "notice"} =>
           \E s \in 1..LastSnap : \A b \in MD!Window(s) : <<b, s>> \in me.served,
         me.hadCache => everStored, me.at = "raised" => ~me.hadCache
  PROVE  MDInv'
<1>1. /\ \A q \in Callers \ {r} : reader'[q] = reader[q]
      /\ reader'[r] = me /\ reader' \in [Callers -> MDFetches]
      /\ UNCHANGED <<clockMD, feed, rowsMD, stores, everStored, raced>>
  BY DEF MD!OnlyReader, MD!Become, MDInv, MDShape
<1>2. MD!Stored' = MD!Stored /\ MD!StoreIds' = MD!StoreIds
  BY <1>1 DEF MD!Stored, MD!StoreIds
<1>3. MDShape' /\ MDTableIsWhole'
  BY <1>1, <1>2 DEF MDInv, MDShape, MDTableIsWhole, MDHolds
<1>4. MDStoresInOrder'
  BY <1>1 DEF MDInv, MDStoresInOrder, MDFetches, MDShape
<1>5. MDServedIsWhole' /\ MDCacheIsKept'
  BY <1>1, <1>2 DEF MDInv, MDServedIsWhole, MDCacheIsKept
<1>6. MDUndisturbed'
  <2>1. ~MD!InStore(r)'
    BY <1>1 DEF MD!InStore
  <2> QED BY <1>1, <1>2, <2>1 DEF MDInv, MDUndisturbed, MD!InStore
<1> QED BY <1>3, <1>4, <1>5, <1>6 DEF MDInv

\* What a frame that is served holds.
LEMMA MDServedHas ==
  ASSUME MD!WindowAssumption, MDInv, MD!Stored # {}
  PROVE  /\ {<<b, rowsMD[b].snap>> : b \in MD!Stored} \in SUBSET (MD!Bars \X (0..LastSnap))
         /\ \E s \in 1..LastSnap : \A b \in MD!Window(s) :
              <<b, s>> \in {<<c, rowsMD[c].snap>> : c \in MD!Stored}
<1>1. \A b \in MD!Bars : rowsMD[b].snap \in 0..LastSnap
  BY DEF MDInv, MDShape
<1>2. PICK s \in 1..LastSnap : \A b \in MD!Window(s) : rowsMD[b].snap = s
  BY DEF MDInv, MDTableIsWhole, MDHolds
<1>3. \A b \in MD!Window(s) : b \in MD!Stored
  BY <1>2, MDWindowIs DEF MD!Stored, MD!NoRow
<1>4. \A b \in MD!Stored : b \in MD!Bars
  BY DEF MD!Stored
<1> QED BY <1>1, <1>2, <1>3, <1>4

LEMMA MDQuietI ==
  ASSUME MD!WindowAssumption, MDInv, NEW r \in Callers,
         \/ MD!Call(r) \/ MD!LookAtAge(r) \/ MD!ReadBars(r) \/ MD!Acquire(r) \/ MD!Fetch(r)
         \/ MD!ServeStale(r) \/ MD!StoreFails(r) \/ MD!ReadFails(r)
  PROVE  MDInv'
<1> DEFINE old == reader[r]
<1>0. /\ old \in MDFetches /\ MD!OnlyReader
      /\ (old.at = "open" => old.snap >= 1) /\ (old.hadCache => everStored)
      /\ (MD!StoreFails(r) \/ old.deleted = {})
      /\ (everStored => MD!Stored # {}) /\ feed \in 1..LastSnap
  <2>1. old \in MDFetches /\ feed \in 1..LastSnap
    BY DEF MDInv, MDShape
  <2>2. MD!OnlyReader /\ (MD!StoreFails(r) \/ old.at # "upsert")
    BY DEF MD!Call, MD!LookAtAge, MD!ReadBars, MD!Acquire, MD!Fetch, MD!ServeStale, MD!Ends,
         MD!StoreFails, MD!ReadFails
  <2> QED BY <2>1, <2>2 DEF MDInv, MDStoresInOrder, MDCacheIsKept
<1> DEFINE srv == {<<b, rowsMD[b].snap>> : b \in MD!Stored}
<1>1. CASE MD!Call(r)
  <2> DEFINE me == [MD!Asleep EXCEPT !.at = "age", !.hadCache = everStored]
  <2>1. /\ me \in MDFetches /\ me.seen = {} /\ me.deleted = {} /\ me.by = 0 /\ me.at = "age"
        /\ me.hadCache = everStored
    <3>1. everStored \in BOOLEAN
      BY DEF MDInv, MDShape
    <3>2. MD!Asleep \in MDFetches /\ MD!Asleep.seen = {} /\ MD!Asleep.deleted = {} /\ MD!Asleep.by = 0
      BY DEF MD!Asleep, MDFetches, MD!WindowAssumption, MD!Stages
    <3> QED BY <3>1, <3>2 DEF MDFetches, MD!Stages
  <2>2. MD!Become(r, me)
    BY <1>1 DEF MD!Call
  <2> HIDE DEF me
  <2> QED BY <1>0, <2>1, <2>2, MDOutsideI
<1>2. ASSUME NEW stage \in {"bars", "acquire", "fetch", "stale", "raised", "unread"}, MD!To(r, stage),
             ~MD!StoreFails(r),
             stage = "raised" => MD!Stored = {}
      PROVE  MDInv'
  <2> DEFINE me == [old EXCEPT !.at = stage]
  <2>1. /\ me \in MDFetches /\ me.seen = old.seen /\ me.deleted = {} /\ me.by = old.by
        /\ me.at = stage /\ me.hadCache = old.hadCache
    BY <1>0, <1>2 DEF MDFetches, MD!Stages
  <2>2. MD!Become(r, me)
    BY <1>2 DEF MD!To
  <2> HIDE DEF me
  <2> QED BY <1>0, <1>2, <2>1, <2>2, MDOutsideI
<1>3. ASSUME NEW stage \in {"fresh", "notice"}, MD!Serve(r, stage), MD!Stored # {}, ~MD!StoreFails(r)
      PROVE  MDInv'
  <2> DEFINE me == [old EXCEPT !.at = stage, !.served = srv]
  <2>0. srv \in SUBSET (MD!Bars \X (0..LastSnap))
    BY <1>3, MDServedHas
  <2>1. /\ me \in MDFetches /\ me.seen = old.seen /\ me.deleted = {} /\ me.by = old.by
        /\ me.at = stage /\ me.hadCache = old.hadCache /\ me.served = srv
    BY <1>0, <1>3, <2>0 DEF MDFetches, MD!Stages
  <2>2. MD!Become(r, me)
    BY <1>3 DEF MD!Serve
  <2>3. \E s \in 1..LastSnap : \A b \in MD!Window(s) : <<b, s>> \in me.served
    BY <1>3, <2>1, MDServedHas
  <2> HIDE DEF me
  <2> QED BY <1>0, <1>3, <2>1, <2>2, <2>3, MDOutsideI
<1>4. CASE MD!Fetch(r) /\ ~MD!To(r, "stale") /\ ~MD!StoreFails(r)
  <2> DEFINE me == [old EXCEPT !.at = "open", !.snap = feed]
  <2>1. /\ me \in MDFetches /\ me.seen = old.seen /\ me.deleted = {} /\ me.by = old.by
        /\ me.at = "open" /\ me.hadCache = old.hadCache /\ me.snap >= 1
    <3>1. feed \in 0..LastSnap /\ feed >= 1
      BY <1>0 DEF MD!WindowAssumption
    <3> QED BY <1>0, <1>4, <3>1 DEF MDFetches, MD!Stages
  <2>2. MD!Become(r, me)
    BY <1>4 DEF MD!Fetch
  <2> HIDE DEF me
  <2> QED BY <1>0, <2>1, <2>2, MDOutsideI
<1>5. CASE MD!StoreFails(r)
  <2> DEFINE me == [old EXCEPT !.at = "stale", !.deleted = {}]
  <2>1. /\ me \in MDFetches /\ me.seen = old.seen /\ me.deleted = {} /\ me.by = old.by
        /\ me.at = "stale" /\ me.hadCache = old.hadCache
    BY <1>0 DEF MDFetches, MD!Stages
  <2>2. MD!Become(r, me)
    BY <1>5 DEF MD!StoreFails
  <2> HIDE DEF me
  <2> QED BY <1>0, <2>1, <2>2, MDOutsideI
<1>6. CASE MD!LookAtAge(r) /\ ~MD!StoreFails(r)
  BY <1>6, <1>2 DEF MD!LookAtAge
<1>7. CASE MD!ReadBars(r) /\ ~MD!StoreFails(r)
  BY <1>7, <1>2, <1>3 DEF MD!ReadBars
<1>8. CASE MD!Acquire(r) /\ ~MD!StoreFails(r)
  BY <1>8, <1>2 DEF MD!Acquire
<1>9. CASE MD!Fetch(r) /\ MD!To(r, "stale") /\ ~MD!StoreFails(r)
  BY <1>9, <1>2
<1>10. CASE MD!ServeStale(r) /\ ~MD!StoreFails(r)
  BY <1>10, <1>2, <1>3 DEF MD!ServeStale
<1>11. CASE MD!ReadFails(r) /\ ~MD!StoreFails(r)
  BY <1>11, <1>2 DEF MD!ReadFails
<1> QED BY <1>1, <1>4, <1>5, <1>6, <1>7, <1>8, <1>9, <1>10, <1>11

LEMMA MDOpenStoreI ==
  ASSUME MD!WindowAssumption, MDInv, NEW r \in Callers, MD!OpenStore(r)
  PROVE  MDInv'
<1> DEFINE me == [reader[r] EXCEPT !.at = "delete", !.stamp = clockMD, !.by = stores + 1, !.seen = MD!StoreIds]
<1>1. /\ reader[r].at = "open" /\ stores < MaxStores /\ stores' = stores + 1
      /\ reader' = [reader EXCEPT ![r] = me]
      /\ raced' = [q \in Callers |-> IF q = r THEN \E p \in Callers : MD!InStore(p)
                                     ELSE raced[q] \/ MD!InStore(q)]
      /\ UNCHANGED <<clockMD, feed, rowsMD, everStored>>
  BY DEF MD!OpenStore, MD!Become
<1>2. MD!StoreIds \subseteq 1..stores /\ stores + 1 \in 0..MaxStores /\ stores \in Nat
  <2>1. stores + 1 \in 0..MaxStores /\ stores \in Nat /\ stores <= MaxStores
    BY <1>1 DEF MDInv, MDShape, MD!WindowAssumption
  <2>2. ASSUME NEW b \in MD!Stored PROVE rowsMD[b].by \in 1..stores
    BY DEF MD!Stored, MDInv, MDStoresInOrder
  <2> QED BY <2>1, <2>2 DEF MD!StoreIds
<1>3. /\ me \in MDFetches /\ me.at = "delete" /\ me.by = stores + 1 /\ me.seen = MD!StoreIds
      /\ me.snap = reader[r].snap /\ me.hadCache = reader[r].hadCache
      /\ me.deleted = reader[r].deleted
  <2>1. reader[r] \in MDFetches /\ clockMD \in 0..StoreTime /\ MD!StoreIds \in SUBSET (1..MaxStores)
    <3>1. \A x \in MD!StoreIds : x \in 1..MaxStores
      BY <1>2 DEF MD!WindowAssumption
    <3> QED BY <3>1 DEF MDInv, MDShape
  <2>2. stores + 1 \in 0..MaxStores
    BY <1>2
  <2> QED BY <2>1, <2>2 DEF MDFetches, MD!Stages
<1> HIDE DEF me
<1>4. /\ \A q \in Callers \ {r} : reader'[q] = reader[q]
      /\ reader'[r] = me /\ reader' \in [Callers -> MDFetches]
  BY <1>1, <1>3 DEF MDInv, MDShape
<1>5. MD!Stored' = MD!Stored /\ MD!StoreIds' = MD!StoreIds
  BY <1>1 DEF MD!Stored, MD!StoreIds
<1>6. raced' \in [Callers -> BOOLEAN]
  <2>1. \A q \in Callers : MD!InStore(q) \in BOOLEAN /\ raced[q] \in BOOLEAN
    BY DEF MD!InStore, MDInv, MDShape
  <2> QED BY <1>1, <2>1
<1>7. MDShape' /\ MDTableIsWhole'
  BY <1>1, <1>2, <1>4, <1>5, <1>6 DEF MDInv, MDShape, MDTableIsWhole, MDHolds
<1>8. MDStoresInOrder'
  <2>1. me.deleted = {} 
    BY <1>1, <1>3 DEF MDInv, MDStoresInOrder
  <2>2. \A b \in MD!Bars : rowsMD'[b] # MD!NoRow => rowsMD'[b].by \in 1..stores'
    BY <1>1, <1>2 DEF MDInv, MDStoresInOrder
  <2>3. me.snap >= 1 /\ me.by >= 1 /\ me.by <= stores' /\ me.seen \subseteq 1..stores'
    BY <1>1, <1>2, <1>3 DEF MDInv, MDStoresInOrder
  <2>4. \A q \in Callers : reader[q].seen \subseteq 1..stores' /\ reader[q].by <= stores'
    <3>1. \A q \in Callers : reader[q] \in MDFetches
      BY DEF MDInv, MDShape
    <3>2. \A q \in Callers : reader[q].seen \subseteq 1..stores /\ reader[q].by <= stores /\ reader[q].by \in Nat
      BY <3>1 DEF MDInv, MDStoresInOrder, MDFetches
    <3> QED BY <1>1, <1>2, <3>2
  <2>5. ASSUME NEW q \in Callers
        PROVE  /\ reader'[q].seen \subseteq 1..stores' /\ reader'[q].deleted \subseteq reader'[q].seen
               /\ reader'[q].by <= stores'
               /\ reader'[q].at \in {"delete", "upsert"} => reader'[q].by >= 1
               /\ reader'[q].at \in {"open", "delete", "upsert"} => reader'[q].snap >= 1
               /\ reader'[q].at # "upsert" => reader'[q].deleted = {}
    <3>1. CASE q = r
      BY <1>3, <1>4, <2>1, <2>3, <3>1
    <3>2. CASE q # r
      BY <1>4, <2>4, <3>2 DEF MDInv, MDStoresInOrder
    <3> QED BY <3>1, <3>2
  <2> QED BY <2>2, <2>5 DEF MDStoresInOrder, MD!NoRow
<1>9. MDServedIsWhole' /\ MDCacheIsKept'
  BY <1>1, <1>3, <1>4, <1>5 DEF MDInv, MDServedIsWhole, MDCacheIsKept
<1>10. MDUndisturbed'
  <2>1. ASSUME NEW q \in Callers, MD!InStore(q)', ~raced'[q]
        PROVE  q = r /\ \A p \in Callers : ~MD!InStore(p)
    BY <1>1, <1>4, <2>1 DEF MD!InStore
  <2> QED BY <1>3, <1>4, <1>5, <2>1 DEF MDUndisturbed, MD!InStore
<1> QED BY <1>7, <1>8, <1>9, <1>10 DEF MDInv

LEMMA MDDeleteI == ASSUME MD!WindowAssumption, MDInv, NEW r \in Callers, MD!Delete(r) PROVE MDInv'
<1> DEFINE me == [reader[r] EXCEPT !.at = "upsert", !.deleted = reader[r].seen \cap MD!StoreIds]
<1>1. /\ reader[r].at = "delete" /\ reader' = [reader EXCEPT ![r] = me]
      /\ UNCHANGED <<clockMD, feed, rowsMD, stores, everStored, raced>>
  BY DEF MD!Delete, MD!Become, MD!OnlyReader
<1>2. reader[r] \in MDFetches
  BY DEF MDInv, MDShape
<1>3. /\ me \in MDFetches /\ me.at = "upsert" /\ me.by = reader[r].by /\ me.seen = reader[r].seen
      /\ me.snap = reader[r].snap /\ me.hadCache = reader[r].hadCache
      /\ me.deleted = reader[r].seen \cap MD!StoreIds
  <2>1. reader[r].seen \cap MD!StoreIds \in SUBSET (1..MaxStores)
    BY <1>2 DEF MDFetches
  <2> QED BY <1>2, <2>1 DEF MDFetches, MD!Stages
<1> HIDE DEF me
<1>4. /\ \A q \in Callers \ {r} : reader'[q] = reader[q]
      /\ reader'[r] = me /\ reader' \in [Callers -> MDFetches]
  BY <1>1, <1>3 DEF MDInv, MDShape
<1>5. MD!Stored' = MD!Stored /\ MD!StoreIds' = MD!StoreIds
  BY <1>1 DEF MD!Stored, MD!StoreIds
<1>7. MDShape' /\ MDTableIsWhole'
  BY <1>1, <1>4, <1>5 DEF MDInv, MDShape, MDTableIsWhole, MDHolds
<1>8. MDStoresInOrder'
  BY <1>1, <1>3, <1>4 DEF MDInv, MDStoresInOrder
<1>9. MDServedIsWhole' /\ MDCacheIsKept'
  BY <1>1, <1>3, <1>4, <1>5 DEF MDInv, MDServedIsWhole, MDCacheIsKept
<1>10. MDUndisturbed'
  <2>1. \A q \in Callers : MD!InStore(q)' <=> MD!InStore(q)
    BY <1>1, <1>3, <1>4 DEF MD!InStore
  <2>2. MD!InStore(r) /\ (~raced[r] => MD!StoreIds \subseteq me.deleted)
    BY <1>1, <1>3 DEF MD!InStore, MDInv, MDUndisturbed
  <2> QED BY <1>1, <1>3, <1>4, <1>5, <2>1, <2>2 DEF MDInv, MDUndisturbed
<1> QED BY <1>7, <1>8, <1>9, <1>10 DEF MDInv

\* What the commit of a store leaves.
LEMMA MDStoreLeaves ==
  ASSUME MD!WindowAssumption, MDInv, NEW r \in Callers, MD!Upsert(r)
  PROVE  /\ \A b \in MD!Bars : rowsMD'[b] = MD!AfterStore(reader[r], b)
         /\ reader[r].snap \in 1..LastSnap
         /\ \A b \in MD!Window(reader[r].snap) : rowsMD'[b].snap = reader[r].snap /\ rowsMD'[b] # MD!NoRow
         /\ \A b \in MD!Bars : rowsMD'[b] # MD!NoRow => rowsMD'[b].by \in 1..stores
         /\ rowsMD' \in [MD!Bars -> [snap : 0..LastSnap, stamp : 0..StoreTime, by : 0..MaxStores]]
         /\ ~raced[r] => {b \in MD!Bars : rowsMD'[b] # MD!NoRow} = MD!Window(reader[r].snap)
<1> DEFINE me == reader[r]
<1>1. me.at = "upsert" /\ rowsMD' = [b \in MD!Bars |-> MD!AfterStore(me, b)]
  BY DEF MD!Upsert
<1>2. /\ me.snap \in 1..LastSnap /\ me.stamp \in 0..StoreTime /\ me.by \in 1..stores
      /\ me.by \in 0..MaxStores /\ stores \in Nat
  <2>1. me \in MDFetches
    BY DEF MDInv, MDShape
  <2>2. me.by >= 1 /\ me.snap >= 1 /\ me.by <= stores /\ stores \in Nat
    BY <1>1 DEF MDInv, MDStoresInOrder, MDShape
  <2> QED BY <2>1, <2>2 DEF MDFetches
<1> HIDE DEF me
<1>3. MD!Window(me.snap) \subseteq MD!Bars
  BY <1>2, MDWindowIs
<1>4. ASSUME NEW b \in MD!Bars
      PROVE  /\ b \in MD!Window(me.snap) =>
                  rowsMD'[b].snap = me.snap /\ rowsMD'[b] # MD!NoRow
             /\ rowsMD'[b] # MD!NoRow => rowsMD'[b].by \in 1..stores
             /\ rowsMD'[b] \in [snap : 0..LastSnap, stamp : 0..StoreTime, by : 0..MaxStores]
  <2>1. /\ rowsMD'[b] = MD!AfterStore(me, b)
        /\ rowsMD[b] \in [snap : 0..LastSnap, stamp : 0..StoreTime, by : 0..MaxStores]
        /\ rowsMD[b] # MD!NoRow => rowsMD[b].by \in 1..stores
    BY <1>1 DEF MDInv, MDShape, MDStoresInOrder
  <2>2. CASE b \in MD!Window(me.snap)
    <3> DEFINE kept == rowsMD[b] # MD!NoRow /\ rowsMD[b].by \notin me.deleted
    <3>1. rowsMD'[b] = [snap |-> me.snap, stamp |-> me.stamp, by |-> IF kept THEN rowsMD[b].by ELSE me.by]
      BY <2>1, <2>2 DEF MD!AfterStore
    <3>2. (IF kept THEN rowsMD[b].by ELSE me.by) \in 1..stores
          /\ (IF kept THEN rowsMD[b].by ELSE me.by) \in 0..MaxStores
      BY <1>2, <2>1
    <3> HIDE DEF kept
    <3>3. rowsMD'[b].snap = me.snap /\ rowsMD'[b].stamp = me.stamp
          /\ rowsMD'[b].by = (IF kept THEN rowsMD[b].by ELSE me.by)
      BY <3>1
    <3>4. me.snap \in 0..LastSnap /\ me.snap # 0
      BY <1>2 DEF MD!WindowAssumption
    <3> QED BY <1>2, <3>1, <3>2, <3>3, <3>4 DEF MD!NoRow
  <2>3. CASE b \notin MD!Window(me.snap)
    <3>1. rowsMD'[b] = rowsMD[b] \/ rowsMD'[b] = MD!NoRow
      BY <2>1, <2>3 DEF MD!AfterStore
    <3>2. MD!NoRow \in [snap : 0..LastSnap, stamp : 0..StoreTime, by : 0..MaxStores]
      BY DEF MD!NoRow, MD!WindowAssumption
    <3> QED BY <2>1, <2>3, <3>1, <3>2
  <2> QED BY <2>2, <2>3
<1>5. rowsMD' \in [MD!Bars -> [snap : 0..LastSnap, stamp : 0..StoreTime, by : 0..MaxStores]]
  BY <1>1, <1>4
<1>6. ASSUME ~raced[r] PROVE {b \in MD!Bars : rowsMD'[b] # MD!NoRow} = MD!Window(me.snap)
  <2>1. MD!StoreIds \subseteq me.deleted
    BY <1>1, <1>6 DEF MDInv, MDUndisturbed, MD!InStore, me
  <2>2. ASSUME NEW b \in MD!Bars, b \notin MD!Window(me.snap) PROVE rowsMD'[b] = MD!NoRow
    <3>1. rowsMD[b] # MD!NoRow => rowsMD[b].by \in MD!StoreIds
      BY DEF MD!StoreIds, MD!Stored
    <3> QED BY <1>1, <2>1, <2>2, <3>1 DEF MD!AfterStore
  <2> QED BY <1>3, <1>4, <2>2
<1>7. \A b \in MD!Window(me.snap) : rowsMD'[b].snap = me.snap /\ rowsMD'[b] # MD!NoRow
  BY <1>3, <1>4
<1>8. \A b \in MD!Bars : rowsMD'[b] # MD!NoRow => rowsMD'[b].by \in 1..stores
  BY <1>4
<1> QED BY <1>1, <1>2, <1>5, <1>6, <1>7, <1>8 DEF me

LEMMA MDUpsertI == ASSUME MD!WindowAssumption, MDInv, NEW r \in Callers, MD!Upsert(r) PROVE MDInv'
<1> DEFINE me == [reader[r] EXCEPT !.at = "fetched", !.deleted = {}]
           snap == reader[r].snap
<1>1. /\ reader[r].at = "upsert" /\ reader' = [reader EXCEPT ![r] = me] /\ everStored' = TRUE
      /\ UNCHANGED <<clockMD, feed, stores, raced>>
  BY DEF MD!Upsert, MD!Become
<1>2. reader[r] \in MDFetches
  BY DEF MDInv, MDShape
<1>3. /\ me \in MDFetches /\ me.at = "fetched" /\ me.by = reader[r].by /\ me.seen = reader[r].seen
      /\ me.deleted = {}
  BY <1>2 DEF MDFetches, MD!Stages
<1> HIDE DEF me
<1>4. /\ \A q \in Callers \ {r} : reader'[q] = reader[q]
      /\ reader'[r] = me /\ reader' \in [Callers -> MDFetches]
  BY <1>1, <1>3 DEF MDInv, MDShape
<1>5. /\ snap \in 1..LastSnap
      /\ \A b \in MD!Window(snap) : rowsMD'[b].snap = snap /\ rowsMD'[b] # MD!NoRow
      /\ \A b \in MD!Bars : rowsMD'[b] # MD!NoRow => rowsMD'[b].by \in 1..stores
      /\ rowsMD' \in [MD!Bars -> [snap : 0..LastSnap, stamp : 0..StoreTime, by : 0..MaxStores]]
  BY MDStoreLeaves
<1> HIDE DEF snap
<1>6. MDShape'
  BY <1>1, <1>4, <1>5 DEF MDInv, MDShape
<1>7. MDTableIsWhole'
  BY <1>5 DEF MDTableIsWhole, MDHolds
<1>8. MDStoresInOrder'
  BY <1>1, <1>3, <1>4, <1>5 DEF MDInv, MDStoresInOrder, MD!NoRow
<1>9. MD!Stored' # {}
  BY <1>5, MDWindowIs DEF MD!Stored, MD!NoRow
<1>10. MDServedIsWhole' /\ MDCacheIsKept'
  BY <1>1, <1>3, <1>4, <1>9 DEF MDInv, MDServedIsWhole, MDCacheIsKept
<1>11. MDUndisturbed'
  <2>1. ~MD!InStore(r)' /\ MD!InStore(r)
    BY <1>1, <1>3, <1>4 DEF MD!InStore
  <2>2. \A q \in Callers \ {r} : (MD!InStore(q)' <=> MD!InStore(q)) /\ (MD!InStore(q) => raced[q])
    BY <1>4, <2>1 DEF MD!InStore, MDInv, MDUndisturbed
  <2> QED BY <1>1, <2>1, <2>2 DEF MDUndisturbed
<1> QED BY <1>6, <1>7, <1>8, <1>10, <1>11 DEF MDInv

LEMMA MDPruneI ==
  ASSUME MD!WindowAssumption, MDInv, NEW before \in 1..StoreTime, MD!Prune(before)
  PROVE  MDInv'
<1> DEFINE less(r) == [reader[r] EXCEPT !.hadCache = FALSE]
<1>1. /\ rowsMD' = [b \in MD!Bars |-> MD!NoRow] /\ everStored' = FALSE
      /\ reader' = [r \in Callers |-> less(r)]
      /\ UNCHANGED <<clockMD, feed, stores, raced>>
  BY DEF MD!Prune
<1>2. ASSUME NEW r \in Callers
      PROVE  /\ reader'[r] \in MDFetches /\ reader'[r].at = reader[r].at /\ reader'[r].by = reader[r].by
             /\ reader'[r].seen = reader[r].seen /\ reader'[r].deleted = reader[r].deleted
             /\ reader'[r].snap = reader[r].snap /\ reader'[r].served = reader[r].served
             /\ ~reader'[r].hadCache
  <2>1. reader[r] \in MDFetches /\ reader'[r] = less(r)
    BY <1>1 DEF MDInv, MDShape
  <2> QED BY <2>1 DEF MDFetches
<1> HIDE DEF less
<1>3. MD!NoRow \in [snap : 0..LastSnap, stamp : 0..StoreTime, by : 0..MaxStores]
  BY DEF MD!NoRow, MD!WindowAssumption
<1>4. reader' \in [Callers -> MDFetches]
  BY <1>1, <1>2
<1>5. rowsMD' \in [MD!Bars -> [snap : 0..LastSnap, stamp : 0..StoreTime, by : 0..MaxStores]]
  BY <1>1, <1>3
<1>6. MDShape'
  BY <1>1, <1>4, <1>5 DEF MDInv, MDShape
<1>7. MD!Stored' = {} /\ MD!StoreIds' = {}
  BY <1>1 DEF MD!Stored, MD!StoreIds, MD!NoRow
<1>8. MDTableIsWhole' /\ MDServedIsWhole' /\ MDCacheIsKept'
  BY <1>1, <1>2, <1>7 DEF MDInv, MDTableIsWhole, MDServedIsWhole, MDCacheIsKept
<1>9. MDStoresInOrder'
  BY <1>1, <1>2 DEF MDInv, MDStoresInOrder, MD!NoRow
<1>10. MDUndisturbed'
  BY <1>1, <1>2, <1>7 DEF MDInv, MDUndisturbed, MD!InStore
<1> QED BY <1>6, <1>8, <1>9, <1>10 DEF MDInv

LEMMA MDStepI == ASSUME MD!WindowAssumption, MDInv, [MD!Next]_(MD!vars) PROVE MDInv'
<1>1. ASSUME UNCHANGED <<rowsMD, stores, reader, everStored, raced>>,
             clockMD' \in 0..StoreTime, feed' \in 1..LastSnap
      PROVE  MDInv'
  BY <1>1 DEF MDInv, MDShape, MDStoresInOrder, MDTableIsWhole, MDHolds, MDServedIsWhole,
       MDCacheIsKept,
              MDUndisturbed, MD!Stored, MD!StoreIds, MD!InStore
<1>2. CASE MD!Tick \/ MD!Move \/ UNCHANGED MD!vars
  <2>1. clockMD' \in 0..StoreTime /\ feed' \in 1..LastSnap
    BY <1>2 DEF MD!Tick, MD!Move, MD!vars, MDInv, MDShape, MD!WindowAssumption
  <2> QED BY <1>1, <1>2, <2>1 DEF MD!Tick, MD!Move, MD!vars
<1>3. ASSUME NEW r \in Callers,
             MD!Call(r) \/ MD!Work(r) \/ MD!StoreFails(r) \/ MD!ReadFails(r)
      PROVE  MDInv'
  BY <1>3, MDQuietI, MDOpenStoreI, MDDeleteI, MDUpsertI DEF MD!Work
<1> QED BY <1>2, <1>3, MDPruneI DEF MD!Next

LEMMA MDServesI == MDInv => MD!ServesAWholeWindow
BY DEF MDInv, MDServedIsWhole, MD!ServesAWholeWindow
LEMMA MDRaisesI == MDInv => MD!RaisesOnlyWithoutCache
BY DEF MDInv, MDCacheIsKept, MD!RaisesOnlyWithoutCache

\* A fetch stores only by its commit.
LEMMA MDLoneI ==
  ASSUME MD!WindowAssumption, MDInv, [MD!Next]_(MD!vars), NEW r \in Callers,
         reader[r].at = "upsert", reader'[r].at = "fetched", ~raced'[r]
  PROVE  /\ {b \in MD!Bars : rowsMD'[b] # MD!NoRow} = MD!Window(reader[r].snap)
         /\ \A b \in MD!Window(reader[r].snap) : rowsMD'[b].snap = reader[r].snap
<1>1. MD!Upsert(r)
  <2>0. reader[r] \in MDFetches /\ \A q \in Callers : reader[q] \in MDFetches
    BY DEF MDInv, MDShape
  <2>1. ASSUME NEW q \in Callers, q # r, NEW me, MD!Become(q, me) PROVE FALSE
    BY <2>1 DEF MD!Become, MDInv, MDShape
  <2>2. ASSUME NEW q \in Callers, q # r,
               MD!Call(q) \/ MD!Work(q) \/ MD!StoreFails(q) \/ MD!ReadFails(q)
        PROVE  FALSE
    BY <2>1, <2>2 DEF MD!Call, MD!Work, MD!StoreFails, MD!ReadFails, MD!LookAtAge, MD!ReadBars, MD!Acquire,
         MD!Fetch, MD!OpenStore,
                      MD!Delete, MD!Upsert, MD!ServeStale, MD!To, MD!Serve
  <2>3. ASSUME MD!StoreFails(r) PROVE FALSE
    BY <2>0, <2>3 DEF MD!StoreFails, MD!Become, MDInv, MDShape, MDFetches
  <2>4. ~MD!Call(r) /\ ~MD!ReadFails(r) /\ (MD!Work(r) => MD!Upsert(r))
    BY DEF MD!Call, MD!ReadFails, MD!Ends, MD!Work, MD!LookAtAge, MD!ReadBars, MD!Acquire, MD!Fetch,
         MD!OpenStore, MD!Delete, MD!ServeStale
  <2>5. ASSUME NEW before \in 1..StoreTime, MD!Prune(before) PROVE FALSE
    BY <2>0, <2>5 DEF MD!Prune, MDFetches
  <2>6. ~MD!Tick /\ ~MD!Move /\ ~UNCHANGED MD!vars
    BY DEF MD!Tick, MD!Move, MD!vars
  <2> QED BY <2>2, <2>3, <2>4, <2>5, <2>6 DEF MD!Next
<1>2. raced' = raced
  BY <1>1 DEF MD!Upsert
<1> QED BY <1>1, <1>2, MDStoreLeaves

LEMMA MDTypeI == MDInv => MD!TypeOK
BY DEF MDInv, MDShape, MDStoresInOrder, MDFetches, MD!TypeOK

-----------------------------------------------------------------------------
\* ApiLookup: a "nothing" is no older than the time the cache serves it.

ALInv ==
  /\ database \in BOOLEAN /\ clockAL \in Nat /\ said \in Int /\ said <= clockAL
  /\ entry \in [value : AL!Values, until : Int] \cup {AL!NoEntry}
  /\ asker \in [Callers -> [at : AL!Stages, value : AL!Values \cup {"none"}]]
  /\ entry.value = "nothing" => said >= 0 /\ entry.until <= said + AL!KeptFor
  /\ \A a \in Callers :
       /\ asker[a].at \in {"put", "add", "update"} => asker[a].value \in AL!Values
       /\ asker[a].at \in {"put", "add", "update"} /\ asker[a].value = "nothing" => said = clockAL
       /\ asker[a].at = "done" /\ asker[a].value = "nothing" =>
            said >= 0 /\ clockAL - said <= AL!KeptFor

LEMMA ALInitI == AL!AgesAssumption /\ AL!Init => ALInv
BY DEF AL!AgesAssumption, AL!Init, ALInv, AL!NoEntry, AL!Values, AL!Stages

LEMMA ALStepI == ASSUME AL!AgesAssumption, ALInv, [AL!Next]_(AL!vars) PROVE ALInv'
<1>1. AL!KeptFor \in Nat /\ AL!KeptFor' = AL!KeptFor
  BY DEF AL!AgesAssumption, AL!KeptFor, ALInv, AL!Next, AL!vars, AL!Look, AL!Ask, AL!Put, AL!Commit,
       AL!Prune, AL!Turn, AL!Tick
<1> USE DEF ALInv, AL!Values, AL!Stages, AL!NoEntry, AL!Set
<1>2. ASSUME NEW a \in Callers, AL!Look(a) PROVE ALInv'
  BY <1>1, <1>2 DEF AL!Look, AL!Served, AL!Resting
<1>3. ASSUME NEW a \in Callers, AL!Ask(a) PROVE ALInv'
  BY <1>1, <1>3 DEF AL!Ask
<1>4. ASSUME NEW a \in Callers, AL!Put(a) PROVE ALInv'
  BY <1>1, <1>4 DEF AL!Put
<1>5. ASSUME NEW a \in Callers, AL!Commit(a) PROVE ALInv'
  BY <1>1, <1>5 DEF AL!Commit
<1>6. CASE AL!Prune
  BY <1>1, <1>6 DEF AL!Prune
<1>7. CASE AL!Turn
  BY <1>1, <1>7 DEF AL!Turn
<1>8. CASE AL!Tick
  BY <1>1, <1>8 DEF AL!Tick, AL!Resting
<1>9. CASE UNCHANGED AL!vars
  BY <1>1, <1>9 DEF AL!vars
<1>10. QED
  BY <1>2, <1>3, <1>4, <1>5, <1>6, <1>7, <1>8, <1>9 DEF AL!Next

-----------------------------------------------------------------------------
\* LoginLockout: a lock is of the last wrong password, and where the count begins
\* anew the one before it is a lockout behind.

LLShape ==
  /\ minute \in Nat /\ failures \in Nat /\ lockedUntil \in Nat \cup {LL!Never}
  /\ login \in [Callers -> [at : {"none", "waiting", "refused", "in"}, right : BOOLEAN, now : Nat]]
  /\ tried \in Seq(Nat)

\* The clock a request decides with is old, but no older than MaxWait.
LLClocksAreRecent ==
  \A l \in Callers :
    login[l].at = "waiting" => login[l].now <= minute /\ minute <= login[l].now + MaxWait

LLTriedInOrder ==
  /\ \A i \in 1..Len(tried) : tried[i] <= minute
  /\ \A i, j \in 1..Len(tried) : i <= j => tried[i] <= tried[j]

LLCountIsOfTried ==
  /\ failures <= Len(tried)
  /\ lockedUntil = LL!Never => failures < MaxFailures /\ (failures = 0 => Len(tried) = 0)
  /\ lockedUntil # LL!Never => failures = MaxFailures

LLLockIsOfTheLast ==
  lockedUntil # LL!Never =>
    /\ lockedUntil <= tried[Len(tried)] + Lockout
    /\ tried[Len(tried)] + Lockout - MaxWait <= lockedUntil

\* The first guess the count stands for came a lockout after the one before it.
LLGroupsAreApart ==
  \A k \in 1..Len(tried) :
    k = Len(tried) - failures /\ failures > 0 =>
      tried[k + 1] - tried[k] >= Lockout - MaxWait

LLInv ==
  /\ LLShape /\ LLClocksAreRecent /\ LLTriedInOrder
  /\ LLCountIsOfTried /\ LLLockIsOfTheLast /\ LLGroupsAreApart
  /\ LL!GuessesAreRationed

LEMMA LLInitIInv == ASSUME LL!LockoutAssumption, LL!Init PROVE LLInv
BY DEF LL!LockoutAssumption, LL!Init, LLInv, LLShape, LLClocksAreRecent, LLTriedInOrder,
     LLCountIsOfTried,
       LLLockIsOfTheLast, LLGroupsAreApart, LL!GuessesAreRationed, LL!NoLogin, LL!Never

\* What only the requests or the clock change keeps everything but the clocks.
LEMMA LLRecordKept ==
  ASSUME LLInv, UNCHANGED <<failures, lockedUntil, tried>>,
         minute' \in Nat, minute' >= minute, LLShape', LLClocksAreRecent'
  PROVE  LLInv'
<1>1. LLTriedInOrder'
  <2>1. \A i \in 1..Len(tried) : tried[i] <= minute /\ tried[i] \in Nat /\ minute \in Nat
    BY DEF LLInv, LLShape, LLTriedInOrder
  <2>2. QED
    BY <2>1 DEF LLInv, LLTriedInOrder
<1>2. QED
  BY <1>1 DEF LLInv, LLCountIsOfTried, LLLockIsOfTheLast, LLGroupsAreApart, LL!GuessesAreRationed

\* A clean record satisfies whatever is said of a record.
LEMMA LLClearedKeeps ==
  ASSUME LL!LockoutAssumption, LLInv, UNCHANGED minute,
         failures' = 0, lockedUntil' = LL!Never, tried' = <<>>, LLShape', LLClocksAreRecent'
  PROVE  LLInv'
BY DEF LL!LockoutAssumption, LLInv, LLTriedInOrder, LLCountIsOfTried, LLLockIsOfTheLast,
       LLGroupsAreApart, LL!GuessesAreRationed, LL!Never

\* A wrong password: of the guesses before it, the one MaxFailures back either
\* was counted before the last lock or stands before the group that is counted.
LEMMA LLWrongKeeps ==
  ASSUME LL!LockoutAssumption, LLInv, NEW l \in Callers, LL!Wrong(l)
  PROVE  LLInv'
<1> DEFINE n == Len(tried)
           now == login[l].now
<1>1. /\ login[l].at = "waiting" /\ ~LL!Locked(now)
      /\ failures' = LL!CountBefore + 1
      /\ lockedUntil' = IF failures' >= MaxFailures THEN now + Lockout ELSE LL!Never
      /\ login' = [login EXCEPT ![l] = LL!Refused]
      /\ tried' = Append(tried, minute) /\ minute' = minute
  BY DEF LL!Wrong
<1>2. /\ n \in Nat /\ now \in Nat /\ minute \in Nat /\ failures \in Nat
      /\ now <= minute /\ minute <= now + MaxWait
      /\ MaxFailures \in Nat \ {0} /\ Lockout \in Nat \ {0} /\ MaxWait \in Nat
      /\ lockedUntil \in Nat \cup {LL!Never}
      /\ \A i \in 1..n : tried[i] \in Nat
  <2>1. tried \in Seq(Nat)
    BY DEF LLInv, LLShape
  <2>2. n \in Nat /\ \A i \in 1..n : tried[i] \in Nat
    BY <2>1
  <2>3. login[l].now \in Nat /\ minute \in Nat /\ failures \in Nat /\ lockedUntil \in Nat \cup {LL!Never}
    BY DEF LLInv, LLShape
  <2>4. now <= minute /\ minute <= now + MaxWait
    BY <1>1 DEF LLInv, LLClocksAreRecent
  <2>5. QED
    BY <2>2, <2>3, <2>4 DEF LL!LockoutAssumption
<1>3. LL!CountBefore \in Nat /\ LL!CountBefore < MaxFailures /\ LL!CountBefore <= n
  BY <1>2 DEF LL!CountBefore, LLInv, LLCountIsOfTried
<1>4. /\ Len(tried') = n + 1 /\ tried'[n + 1] = minute
      /\ \A i \in 1..n : tried'[i] = tried[i]
  BY <1>1, <1>2 DEF LLInv, LLShape
<1>5. LLShape'
  <2>1. tried' \in Seq(Nat)
    BY <1>1, <1>2 DEF LLInv, LLShape
  <2>2. LL!Refused \in [at : {"none", "waiting", "refused", "in"}, right : BOOLEAN, now : Nat]
    BY DEF LL!Refused, LL!NoLogin
  <2>3. failures' \in Nat /\ lockedUntil' \in Nat \cup {LL!Never}
    BY <1>1, <1>2, <1>3
  <2>4. QED
    BY <1>1, <1>2, <2>1, <2>2, <2>3 DEF LLInv, LLShape
<1>6. LLClocksAreRecent'
  BY <1>1 DEF LLInv, LLShape, LLClocksAreRecent, LL!Refused, LL!NoLogin
<1>7. LLTriedInOrder'
  <2>1. \A i \in 1..n : tried[i] <= minute
    BY DEF LLInv, LLTriedInOrder
  <2>2. \A i \in 1..(n + 1) : tried'[i] <= minute
    BY <1>2, <1>4, <2>1
  <2>3. ASSUME NEW i \in 1..(n + 1), NEW j \in 1..(n + 1), i <= j
        PROVE  tried'[i] <= tried'[j]
    <3>1. CASE j = n + 1
      BY <3>1, <2>2, <1>4
    <3>2. CASE j # n + 1
      BY <3>2, <2>3, <1>2, <1>4 DEF LLInv, LLTriedInOrder
    <3>3. QED
      BY <3>1, <3>2
  <2>4. QED
    BY <1>1, <1>4, <2>2, <2>3 DEF LLTriedInOrder
<1> HIDE DEF n, now
\* A lock that ran out is a lockout behind; so is, without one, the start of the
\* group.
<1>8. ASSUME NEW k \in 1..n, lockedUntil # LL!Never
      PROVE  minute - tried[k] >= Lockout - MaxWait
  <2>1. lockedUntil <= now /\ lockedUntil \in Nat
    BY <1>1, <1>2, <1>8 DEF LL!Locked
  <2>2. tried[n] + Lockout - MaxWait <= lockedUntil
    BY <1>8 DEF n, LLInv, LLLockIsOfTheLast
  <2>3. tried[k] <= tried[n] /\ tried[n] \in Nat /\ tried[k] \in Nat
    BY <1>2, <1>8 DEF n, LLInv, LLTriedInOrder
  <2>4. QED
    BY <2>1, <2>2, <2>3, <1>2
<1>9. ASSUME NEW k \in 1..n, lockedUntil = LL!Never, k <= n - failures
      PROVE  minute - tried[k] >= Lockout - MaxWait
  <2>1. failures > 0
    BY <1>2, <1>9 DEF n, LLInv, LLCountIsOfTried
  <2> DEFINE f == n - failures
  <2>2. f \in 1..n /\ f + 1 \in 1..n /\ f = Len(tried) - failures
    BY <2>1, <1>2, <1>9 DEF n
  <2>3. tried[f + 1] - tried[f] >= Lockout - MaxWait
    BY <2>1, <2>2 DEF n, LLInv, LLGroupsAreApart
  <2>4. tried[k] <= tried[f] /\ tried[f + 1] <= minute
    BY <2>2, <1>9 DEF n, LLInv, LLTriedInOrder
  <2>5. tried[k] \in Nat /\ tried[f] \in Nat /\ tried[f + 1] \in Nat
    BY <2>2, <1>2, <1>9
  <2> HIDE DEF f
  <2>6. QED
    BY <2>3, <2>4, <2>5, <1>2
<1>10. LLCountIsOfTried'
  BY <1>1, <1>2, <1>3, <1>4 DEF LLCountIsOfTried, LL!Never
<1>11. LLLockIsOfTheLast'
  <2>1. tried'[Len(tried')] = minute
    BY <1>4
  <2>2. CASE failures' >= MaxFailures
    <3>1. lockedUntil' = now + Lockout
      BY <1>1, <2>2
    <3>2. QED
      BY <3>1, <2>1, <1>2 DEF LLLockIsOfTheLast
  <2>3. CASE ~(failures' >= MaxFailures)
    BY <2>3, <1>1 DEF LLLockIsOfTheLast
  <2>4. QED
    BY <2>2, <2>3
<1>12. LLGroupsAreApart'
  <2> SUFFICES ASSUME NEW k \in 1..Len(tried'), k = Len(tried') - failures', failures' > 0
               PROVE  tried'[k + 1] - tried'[k] >= Lockout - MaxWait
    BY DEF LLGroupsAreApart
  <2>1. k = n - LL!CountBefore /\ k \in 1..n
    BY <1>1, <1>2, <1>3, <1>4
  <2>2. CASE lockedUntil # LL!Never
    <3>1. k = n
      BY <2>1, <2>2, <1>2 DEF LL!CountBefore
    <3>2. QED
      BY <3>1, <2>1, <2>2, <1>4, <1>8
  <2>3. CASE lockedUntil = LL!Never
    <3>1. LL!CountBefore = failures
      BY <2>3 DEF LL!CountBefore
    <3>2. failures > 0
      BY <2>1, <2>3, <1>2 DEF n, LLInv, LLCountIsOfTried
    <3>3. k + 1 \in 1..n /\ tried[k + 1] - tried[k] >= Lockout - MaxWait
      BY <3>1, <3>2, <2>1, <1>2 DEF n, LLInv, LLGroupsAreApart
    <3>4. QED
      BY <3>3, <2>1, <1>4
  <2>4. QED
    BY <2>2, <2>3
<1>13. LL!GuessesAreRationed'
  <2> SUFFICES ASSUME NEW i \in 1..(Len(tried') - MaxFailures)
               PROVE  tried'[i + MaxFailures] - tried'[i] >= Lockout - MaxWait
    BY DEF LL!GuessesAreRationed
  <2>1. i \in 1..n /\ i + MaxFailures \in 1..(n + 1)
    BY <1>2, <1>4
  <2>2. CASE i + MaxFailures = n + 1
    <3>1. minute - tried[i] >= Lockout - MaxWait
      <4>1. CASE lockedUntil # LL!Never
        BY <4>1, <2>1, <1>8
      <4>2. CASE lockedUntil = LL!Never
        <5>1. i <= n - failures
          BY <4>2, <2>2, <2>1, <1>2 DEF LLInv, LLCountIsOfTried
        <5>2. QED
          BY <5>1, <4>2, <2>1, <1>9
      <4>3. QED
        BY <4>1, <4>2
    <3>2. QED
      BY <3>1, <2>1, <2>2, <1>4
  <2>3. CASE i + MaxFailures # n + 1
    <3>1. i + MaxFailures \in 1..n /\ i \in 1..(n - MaxFailures)
      BY <2>1, <2>3, <1>2
    <3>2. QED
      BY <3>1, <2>1, <1>4 DEF n, LLInv, LL!GuessesAreRationed
  <2>4. QED
    BY <2>2, <2>3
<1>14. QED
  BY <1>5, <1>6, <1>7, <1>10, <1>11, <1>12, <1>13 DEF LLInv

LEMMA LLNextKeeps ==
  ASSUME LL!LockoutAssumption, LLInv, [LL!Next]_(LL!vars)
  PROVE  LLInv'
<1>1. ASSUME NEW l \in Callers, NEW right \in BOOLEAN, LL!Arrive(l, right)
      PROVE  LLInv'
  <2>1. LLClocksAreRecent'
    BY <1>1 DEF LL!Arrive, LLInv, LLShape, LLClocksAreRecent, LL!LockoutAssumption
  <2>2. LLShape'
    BY <1>1 DEF LL!Arrive, LLInv, LLShape
  <2>3. QED
    BY <1>1, <2>1, <2>2, LLRecordKept DEF LL!Arrive, LLInv, LLShape
<1>2. ASSUME NEW l \in Callers, LL!Wrong(l)
      PROVE  LLInv'
  BY <1>2, LLWrongKeeps
<1>3. ASSUME NEW l \in Callers, LL!Right(l)
      PROVE  LLInv'
  <2>1. LLShape' /\ LLClocksAreRecent'
    <3>1. /\ LL!LetIn \in [at : {"none", "waiting", "refused", "in"}, right : BOOLEAN, now : Nat]
          /\ LL!LetIn.at = "in"
      BY DEF LL!LetIn, LL!NoLogin
    <3>2. LLShape'
      <4>1. <<>> \in Seq(Nat)
        OBVIOUS
      <4>2. QED
        BY <1>3, <3>1, <4>1 DEF LL!Right, LLInv, LLShape
    <3>3. LLClocksAreRecent'
      BY <1>3, <3>1 DEF LL!Right, LLInv, LLShape, LLClocksAreRecent
    <3>4. QED
      BY <3>2, <3>3
  <2>2. QED
    BY <1>3, <2>1, LLClearedKeeps DEF LL!Right
<1>4. ASSUME NEW l \in Callers, LL!TurnedAway(l)
      PROVE  LLInv'
  <2>1. LLShape' /\ LLClocksAreRecent'
    BY <1>4 DEF LL!TurnedAway, LLInv, LLShape, LLClocksAreRecent, LL!Refused, LL!NoLogin
  <2>2. QED
    BY <1>4, <2>1, LLRecordKept DEF LL!TurnedAway, LLInv, LLShape
<1>5. CASE LL!NewPassword
  <2>1. LLShape' /\ LLClocksAreRecent'
    BY <1>5 DEF LL!NewPassword, LLInv, LLShape, LLClocksAreRecent
  <2>2. QED
    BY <1>5, <2>1, LLClearedKeeps DEF LL!NewPassword
<1>6. CASE LL!Tick
  <2>1. LLShape'
    BY <1>6 DEF LL!Tick, LLInv, LLShape
  <2>2. LLClocksAreRecent'
    BY <1>6 DEF LL!Tick, LLInv, LLShape, LLClocksAreRecent, LL!LockoutAssumption
  <2>3. QED
    BY <1>6, <2>1, <2>2, LLRecordKept DEF LL!Tick, LLInv, LLShape
<1>7. CASE UNCHANGED LL!vars
  <2>1. LLShape' /\ LLClocksAreRecent'
    BY <1>7 DEF LL!vars, LLInv, LLShape, LLClocksAreRecent
  <2>2. QED
    BY <1>7, <2>1, LLRecordKept DEF LL!vars, LLInv, LLShape
<1>8. QED
  BY <1>1, <1>2, <1>3, <1>4, <1>5, <1>6, <1>7 DEF LL!Next

\* A right password is refused only within a lockout (and a wait for the row) of
\* a wrong one, after at least as many wrong ones as the limit (auth.py
\* authenticate).
LLRefusal ==
  \A l \in Callers :
    login[l].at = "waiting" /\ login[l].right /\ login'[l] = LL!Refused =>
      /\ Len(tried) >= MaxFailures
      /\ minute - tried[Len(tried)] <= Lockout + MaxWait

LEMMA LLOwnerReturns ==
  ASSUME LL!LockoutAssumption, LLInv, [LL!Next]_(LL!vars)
  PROVE  [LLRefusal]_(LL!vars)
<1>1. LL!Next => LLRefusal
  <2> SUFFICES ASSUME LLInv, LL!Next, NEW l \in Callers,
                      login[l].at = "waiting", login[l].right, login'[l] = LL!Refused
               PROVE  /\ Len(tried) >= MaxFailures
                      /\ minute - tried[Len(tried)] <= Lockout + MaxWait
    BY DEF LLRefusal
  <2>1. login'[l] # login[l] /\ LL!Refused # LL!LetIn /\ LL!Refused.at # "waiting"
    BY DEF LL!Refused, LL!LetIn, LL!NoLogin
  <2>2. LL!TurnedAway(l)
    <3>1. ASSUME NEW m \in Callers, NEW right \in BOOLEAN, LL!Arrive(m, right)
          PROVE  FALSE
      BY <3>1, <2>1 DEF LL!Arrive, LLInv, LLShape
    <3>2. ASSUME NEW m \in Callers, LL!Wrong(m) \/ LL!Right(m) \/ (LL!TurnedAway(m) /\ m # l)
          PROVE  FALSE
      BY <3>2, <2>1 DEF LL!Wrong, LL!Right, LL!TurnedAway, LLInv, LLShape
    <3>3. ~LL!NewPassword /\ ~LL!Tick
      BY <2>1 DEF LL!NewPassword, LL!Tick
    <3>4. QED
      BY <3>1, <3>2, <3>3 DEF LL!Next
  <2>3. lockedUntil # LL!Never /\ lockedUntil > login[l].now
    BY <2>2 DEF LL!TurnedAway, LL!Locked
  <2>4. Len(tried) >= MaxFailures /\ lockedUntil <= tried[Len(tried)] + Lockout
    BY <2>3 DEF LLInv, LLCountIsOfTried, LLLockIsOfTheLast
  <2>5. minute <= login[l].now + MaxWait
    BY DEF LLInv, LLClocksAreRecent
  <2>6. /\ tried[Len(tried)] \in Nat /\ minute \in Nat /\ login[l].now \in Nat
        /\ lockedUntil \in Nat /\ MaxWait \in Nat /\ Lockout \in Nat
    <3>1. tried \in Seq(Nat)
      BY DEF LLInv, LLShape
    <3>2. Len(tried) >= 1
      BY <3>1, <2>4 DEF LL!LockoutAssumption
    <3>3. tried[Len(tried)] \in Nat
      BY <3>1, <3>2
    <3>4. minute \in Nat /\ login[l].now \in Nat /\ lockedUntil \in Nat
      BY <2>3 DEF LLInv, LLShape
    <3>5. QED
      BY <3>3, <3>4 DEF LL!LockoutAssumption
  <2> DEFINE t == tried[Len(tried)]
  <2>7. /\ lockedUntil > login[l].now /\ lockedUntil <= t + Lockout
        /\ t \in Nat
    BY <2>3, <2>4, <2>6
  <2> HIDE DEF t
  <2>8. minute - t <= Lockout + MaxWait
    BY <2>5, <2>6, <2>7
  <2>9. QED
    BY <2>4, <2>8 DEF t
<1> QED BY <1>1

-----------------------------------------------------------------------------
\* WorkerLease: a running worker that is still on its connection holds the lock.

WLContainers == None \notin Callers /\ WL!HeartbeatAssumption

WLShape ==
  /\ clockWL \in Nat
  /\ process \in [Callers -> {"down", "refused", "idle", "cycle"}]
  /\ stop \in [Callers -> BOOLEAN] /\ linked \in [Callers -> BOOLEAN]
  /\ holder \in Callers \cup {None} /\ ghost \in BOOLEAN
  /\ beat \in [Callers -> Nat \cup {WL!NoBeat}]

WLLinkedHolds == \A w \in Callers : WL!Running(w) /\ linked[w] => holder = w /\ ~ghost

WLGhostHolds == ghost => holder # None

\* The heartbeat of a worker that was not asked to stop is no older than its
\* interval.
WLBeatIsFresh ==
  \A w \in Callers :
    WL!Running(w) /\ ~stop[w] =>
      beat[w] \in Nat /\ beat[w] <= clockWL /\ clockWL - beat[w] <= Interval

WLInv == WLShape /\ WLLinkedHolds /\ WLGhostHolds /\ WLBeatIsFresh

LEMMA WLInitIInv == ASSUME WLContainers, WL!Init PROVE WLInv
BY DEF WL!Init, WLInv, WLShape, WLLinkedHolds, WLGhostHolds, WLBeatIsFresh, WL!Running, WL!NoBeat

\* A free lock is nobody's: whoever takes it is the only one on a connection.
LEMMA WLStartKeeps ==
  ASSUME WLContainers, WLInv, NEW w \in Callers, WL!Start(w)
  PROVE  WLInv'
<1>1. /\ ~WL!Running(w) /\ holder = None /\ holder' = w
      /\ process' = [process EXCEPT ![w] = "idle"]
      /\ linked' = [linked EXCEPT ![w] = TRUE] /\ stop' = [stop EXCEPT ![w] = FALSE]
      /\ beat' = [beat EXCEPT ![w] = clockWL] /\ UNCHANGED <<clockWL, ghost>>
  BY DEF WL!Start, WL!Goes
<1>2. WLShape'
  BY <1>1 DEF WLInv, WLShape
<1>3. WLLinkedHolds' /\ WLGhostHolds'
  <2>1. ~ghost /\ \A v \in Callers : ~(WL!Running(v) /\ linked[v])
    BY <1>1 DEF WLInv, WLLinkedHolds, WLGhostHolds, WLContainers
  <2>2. QED
    BY <1>1, <2>1 DEF WLInv, WLShape, WLLinkedHolds, WLGhostHolds, WL!Running
<1>4. WLBeatIsFresh'
  BY <1>1 DEF WLInv, WLShape, WLBeatIsFresh, WL!Running, WLContainers, WL!HeartbeatAssumption
<1>5. QED
  BY <1>2, <1>3, <1>4 DEF WLInv

\* Whoever goes, is killed or loses its connection was the holder, if it was on
\* a connection at all.
LEMMA WLEndKeeps ==
  ASSUME WLContainers, WLInv, NEW w \in Callers,
         WL!Leave(w) \/ WL!Kill(w) \/ WL!LoseConnection(w)
  PROVE  WLInv'
<1>1. WL!Running(w) /\ (linked[w] => holder = w /\ ~ghost)
  BY DEF WL!Leave, WL!Kill, WL!LoseConnection, WL!Running, WLInv, WLLinkedHolds
<1>2. WLShape'
  BY DEF WL!Leave, WL!Kill, WL!LoseConnection, WL!Goes, WLInv, WLShape
<1>3. WLLinkedHolds'
  <2>1. ASSUME NEW v \in Callers, WL!Running(v)', linked'[v]
        PROVE  v # w /\ WL!Running(v) /\ linked[v] /\ holder = v /\ ~ghost
    BY <2>1 DEF WL!Leave, WL!Kill, WL!LoseConnection, WL!Goes, WL!Running, WLInv, WLShape,
         WLLinkedHolds
  <2>2. ASSUME NEW v \in Callers, v # w, holder = v, ~ghost
        PROVE  holder' = v /\ ~ghost'
    BY <1>1, <2>2 DEF WL!Leave, WL!Kill, WL!LoseConnection, WLInv, WLShape
  <2>3. QED
    BY <2>1, <2>2 DEF WLLinkedHolds
<1>4. WLGhostHolds'
  BY <1>1 DEF WL!Leave, WL!Kill, WL!LoseConnection, WLInv, WLShape, WLGhostHolds, WLContainers
<1>5. WLBeatIsFresh'
  BY DEF WL!Leave, WL!Kill, WL!LoseConnection, WL!Goes, WLInv, WLShape, WLBeatIsFresh, WL!Running
<1>6. QED
  BY <1>2, <1>3, <1>4, <1>5 DEF WLInv

LEMMA WLNextKeeps ==
  ASSUME WLContainers, WLInv, [WL!Next]_(WL!vars)
  PROVE  WLInv'
<1>1. ASSUME NEW w \in Callers, WL!Start(w)
      PROVE  WLInv'
  BY <1>1, WLStartKeeps
<1>2. ASSUME NEW w \in Callers, WL!Leave(w) \/ WL!Kill(w) \/ WL!LoseConnection(w)
      PROVE  WLInv'
  BY <1>2, WLEndKeeps
<1>3. ASSUME NEW w \in Callers, WL!Refused(w) \/ WL!BeginCycle(w) \/ WL!EndCycle(w)
      PROVE  WLInv'
  <2>1. /\ \A v \in Callers : WL!Running(v)' => WL!Running(v)
        /\ process' \in [Callers -> {"down", "refused", "idle", "cycle"}]
        /\ UNCHANGED <<clockWL, stop, linked, holder, ghost, beat>>
    BY <1>3 DEF WL!Refused, WL!BeginCycle, WL!EndCycle, WL!Goes, WL!Running, WLInv, WLShape
  <2>2. QED
    BY <2>1 DEF WLInv, WLShape, WLLinkedHolds, WLGhostHolds, WLBeatIsFresh
<1>4. ASSUME NEW w \in Callers, WL!RequestStop(w)
      PROVE  WLInv'
  <2>1. /\ stop' = [stop EXCEPT ![w] = TRUE]
        /\ UNCHANGED <<clockWL, process, linked, holder, ghost, beat>>
    BY <1>4 DEF WL!RequestStop
  <2>2. \A v \in Callers : (WL!Running(v)' <=> WL!Running(v)) /\ (~stop'[v] => ~stop[v])
    BY <2>1 DEF WL!Running, WLInv, WLShape
  <2>3. QED
    BY <2>1, <2>2 DEF WLInv, WLShape, WLLinkedHolds, WLGhostHolds, WLBeatIsFresh
<1>5. ASSUME NEW w \in Callers, WL!Beat(w)
      PROVE  WLInv'
  <2>1. /\ beat' = [beat EXCEPT ![w] = clockWL]
        /\ UNCHANGED <<clockWL, process, stop, linked, holder, ghost>>
    BY <1>5 DEF WL!Beat
  <2>2. WLBeatIsFresh'
    BY <2>1 DEF WLInv, WLShape, WLBeatIsFresh, WL!Running, WLContainers, WL!HeartbeatAssumption
  <2>3. QED
    BY <2>1, <2>2 DEF WLInv, WLShape, WLLinkedHolds, WLGhostHolds, WL!Running
<1>6. CASE WL!Reap
  BY <1>6 DEF WL!Reap, WLInv, WLShape, WLLinkedHolds, WLGhostHolds, WLBeatIsFresh, WL!Running
<1>7. CASE WL!Tick
  <2>1. /\ clockWL' = clockWL + 1 /\ UNCHANGED <<process, stop, linked, holder, ghost, beat>>
        /\ \A w \in Callers : WL!Beats(w) => clockWL - beat[w] < Interval
    BY <1>7 DEF WL!Tick
  <2>2. WLBeatIsFresh'
    BY <2>1 DEF WLInv, WLShape, WLBeatIsFresh, WL!Beats, WL!Running, WLContainers,
         WL!HeartbeatAssumption
  <2>3. QED
    BY <2>1, <2>2 DEF WLInv, WLShape, WLLinkedHolds, WLGhostHolds, WL!Running
<1>8. CASE UNCHANGED WL!vars
  BY <1>8 DEF WL!vars, WLInv, WLShape, WLLinkedHolds, WLGhostHolds, WLBeatIsFresh, WL!Running
<1>9. QED
  BY <1>1, <1>2, <1>3, <1>4, <1>5, <1>6, <1>7, <1>8 DEF WL!Next

\* Two workers run together only if one of them lost the connection that took
\* the lock (radar_worker.py worker_lease).
LEMMA WLLeaseLeavesOne == ASSUME WLContainers, WLInv PROVE WL!SecondOnlyAfterALoss
<1>1. WL!SecondOnlyAfterALoss
  <2> SUFFICES ASSUME \A w \in Callers : WL!Running(w) => linked[w]
               PROVE  ~(Cardinality({w \in Callers : WL!Running(w)}) > 1)
    BY SameCardinality DEF WL!SecondOnlyAfterALoss
  <2>1. {w \in Callers : WL!Running(w)} \in SUBSET {holder}
    BY DEF WLInv, WLLinkedHolds
  <2>2. /\ IsFiniteSet({holder}) /\ Cardinality({holder}) = 1
    BY FS_Singleton
  <2>3. /\ Cardinality({w \in Callers : WL!Running(w)}) <= 1
        /\ Cardinality({w \in Callers : WL!Running(w)}) \in Nat
    BY <2>1, <2>2, FS_Subset, FS_CardinalityType
  <2>4. QED
    BY <2>3
<1> QED BY <1>1

\* As long as a worker was not asked to stop its health check passes, whatever
\* its cycle does (radar_worker.py heartbeat_is_healthy).
LEMMA WLWorkingLooksHealthy == ASSUME WLContainers, WLInv PROVE WL!OnlyTheStoppedLookIll
BY DEF WLInv, WLShape, WLBeatIsFresh, WL!OnlyTheStoppedLookIll, WL!Healthy, WL!NoBeat,
       WLContainers, WL!HeartbeatAssumption

-----------------------------------------------------------------------------
\* LiveFeed: what was traded since the price compared with lies without a gap.

\* What was traded lies without a gap.
LFGapless(S) == \A a, b \in S, l \in Nat : a <= l /\ l <= b => l \in S

LFStages == {"started", "made", "loop", "over"}
LFStreams == [stage : LFStages, running : BOOLEAN, tick : Prices \cup {LF!NoPrice}]

LFShape ==
  /\ streams \in Seq(LFStreams) /\ LF!Mine \in 1..MaxStreams
  /\ elapsed \in BOOLEAN
  /\ price \in Prices /\ quote \in Prices /\ prev \in Prices \cup {LF!NoPrice}
  /\ plan \in [stop : Levels, trigger : Levels]
  /\ trail \in [{"quote", "tick", "prev"} -> SUBSET Prices]

LFTraded ==
  /\ \A k \in {"quote", "tick", "prev"} :
       LFGapless(trail[k]) /\ (trail[k] # {} => price \in trail[k])
  /\ quote \in trail["quote"]
  /\ streams[LF!Mine].tick # LF!NoPrice => streams[LF!Mine].tick \in trail["tick"]
  /\ prev # LF!NoPrice => prev \in trail["prev"] /\ LF!LivePrice \in trail["prev"]

LFInv == LFShape /\ LFTraded

LEMMA LFMineIs == ASSUME LFInv
  PROVE /\ LF!Mine \in DOMAIN streams /\ LF!Mine = Len(streams) /\ streams[LF!Mine] \in LFStreams
        /\ Len(streams) \in Nat /\ LF!Mine \in Nat \ {0}
<1>1. streams \in Seq(LFStreams) /\ Len(streams) \in 1..MaxStreams
  BY DEF LFInv, LFShape, LF!Mine
<1>2. LF!Mine \in DOMAIN streams
  BY <1>1 DEF LF!Mine
<1> QED BY <1>1, <1>2 DEF LF!Mine

LEMMA LFInitI == LF!PricesAssumption /\ LF!Init => LFInv
<1> SUFFICES ASSUME LF!PricesAssumption, LF!Init PROVE LFInv
  OBVIOUS
<1>1. LF!Mine = 1 /\ streams[1] = LF!Fresh /\ streams \in Seq(LFStreams)
  BY DEF LF!Init, LF!Mine, LFStreams, LFStages, LF!Fresh
<1>2. LFShape
  <2>1. {price} \in SUBSET Prices /\ {} \in SUBSET Prices
    BY DEF LF!Init
  <2>2. trail \in [{"quote", "tick", "prev"} -> SUBSET Prices]
    BY <2>1 DEF LF!Init
  <2>3. 1 \in 1..MaxStreams
    BY DEF LF!PricesAssumption
  <2>4. plan \in [stop : Levels, trigger : Levels] /\ elapsed \in BOOLEAN /\ price \in Prices
        /\ quote \in Prices /\ prev \in Prices \cup {LF!NoPrice}
    BY DEF LF!Init
  <2> QED BY <1>1, <2>2, <2>3, <2>4 DEF LFShape
<1>3. LFTraded
  BY <1>1 DEF LF!PricesAssumption, LF!NoPrice, LF!Init, LFTraded, LFGapless, LF!Fresh, LF!LivePrice
<1> QED BY <1>2, <1>3 DEF LFInv

\* A change of stage or flag only.
LEMMA LFStageI == ASSUME LF!PricesAssumption, LFInv, NEW i \in DOMAIN streams, NEW s \in LFStreams,
    s.tick = streams[i].tick, streams' = [streams EXCEPT ![i] = s],
    UNCHANGED <<elapsed, price, quote, prev, plan, told, trail>>
  PROVE LFInv'
<1>1. /\ streams' \in Seq(LFStreams) /\ LF!Mine' = LF!Mine /\ LF!Mine \in DOMAIN streams
      /\ Len(streams') = Len(streams)
      /\ streams'[LF!Mine].tick = streams[LF!Mine].tick
  BY DEF LFInv, LFShape, LF!Mine
<1>2. LF!LivePrice' = LF!LivePrice
  BY <1>1 DEF LF!LivePrice
<1>3. LFShape'
  BY <1>1 DEF LFInv, LFShape
<1>4. LFTraded'
  BY <1>1, <1>2 DEF LFInv, LFTraded
<1> QED BY <1>3, <1>4 DEF LFInv

\* A stream that was asked to stop.
LEMMA LFStoppedIs == ASSUME LFInv
  PROVE  /\ [streams EXCEPT ![LF!Mine] = LF!Stopped(@)] \in Seq(LFStreams)
         /\ Len([streams EXCEPT ![LF!Mine] = LF!Stopped(@)]) = Len(streams)
         /\ [streams EXCEPT ![LF!Mine] = LF!Stopped(@)][LF!Mine].tick = streams[LF!Mine].tick
         /\ LF!Mine \in DOMAIN streams
<1>1. LF!Stopped(streams[LF!Mine]) \in LFStreams /\ LF!Stopped(streams[LF!Mine]).tick = streams[LF!Mine].tick
  BY LFMineIs DEF LF!Stopped, LFStreams
<1> QED BY <1>1, LFMineIs DEF LFInv, LFShape

LEMMA LFLivePriceHas == ASSUME LFInv PROVE LF!LivePrice \in Prices
<1>1. streams[LF!Mine].tick \in Prices \cup {LF!NoPrice} /\ quote \in Prices
  BY LFMineIs DEF LFStreams, LFInv, LFShape
<1> QED BY <1>1 DEF LF!LivePrice

LEMMA LFTradeI ==
  ASSUME LF!PricesAssumption, LFInv, NEW i \in DOMAIN streams, LF!Trade(i)
  PROVE  LFInv'
<1>1. /\ streams' = [streams EXCEPT ![i].tick = price]
      /\ trail' = IF i = LF!Mine THEN [trail EXCEPT !["tick"] = {price}] ELSE trail
      /\ UNCHANGED <<elapsed, price, quote, prev, plan, told>>
  BY DEF LF!Trade
<1>2. /\ streams' \in Seq(LFStreams) /\ LF!Mine' = LF!Mine /\ LF!Mine \in DOMAIN streams
      /\ streams'[LF!Mine].tick = IF i = LF!Mine THEN price ELSE streams[LF!Mine].tick
  <2>1. [streams[i] EXCEPT !.tick = price] \in LFStreams
    <3>1. streams[i] \in LFStreams /\ price \in Prices
      BY DEF LFInv, LFShape
    <3> QED BY <3>1 DEF LFStreams
  <2>2. streams' \in Seq(LFStreams) /\ Len(streams') = Len(streams)
    BY <1>1, <2>1 DEF LFInv, LFShape
  <2>3. [streams[i] EXCEPT !.tick = price].tick = price
    BY DEF LFInv, LFShape, LFStreams
  <2>4. streams'[LF!Mine] = IF i = LF!Mine THEN [streams[i] EXCEPT !.tick = price] ELSE streams[LF!Mine]
    BY <1>1, LFMineIs DEF LFInv, LFShape
  <2> QED BY <2>2, <2>3, <2>4, LFMineIs DEF LF!Mine
<1>3. LFShape'
  BY <1>1, <1>2 DEF LFInv, LFShape
<1>4. LFTraded'
  <2>1. CASE i = LF!Mine
    BY <1>1, <1>2, <2>1 DEF LFInv, LFShape, LFTraded, LF!LivePrice, LFGapless,
         LF!PricesAssumption, LF!NoPrice
  <2>2. CASE i # LF!Mine
    BY <1>1, <1>2, <2>2 DEF LFInv, LFShape, LFTraded, LF!LivePrice
  <2> QED BY <2>1, <2>2
<1> QED BY <1>3, <1>4 DEF LFInv

LEMMA LFMoveI == ASSUME LF!PricesAssumption, LFInv, NEW p \in Prices, LF!Move(p) PROVE LFInv'
<1>1. /\ price' = p /\ (p = price + 1 \/ p = price - 1)
      /\ \A k \in {"quote", "tick", "prev"} : trail'[k] = trail[k] \cup {p}
      /\ trail' \in [{"quote", "tick", "prev"} -> SUBSET Prices]
      /\ UNCHANGED <<streams, elapsed, quote, prev, plan, told>>
  BY DEF LF!Move, LFInv, LFShape
<1>2. LFShape'
  BY <1>1 DEF LFInv, LFShape, LF!Mine
<1>3. ASSUME NEW S \in SUBSET Prices, LFGapless(S), S # {} => price \in S
      PROVE  LFGapless(S \cup {p})
  BY <1>1, <1>3 DEF LFGapless, LF!PricesAssumption, LFInv, LFShape
<1>4. LFTraded'
  BY <1>1, <1>3 DEF LFInv, LFTraded, LFShape, LF!LivePrice, LF!Mine
<1> QED BY <1>2, <1>4 DEF LFInv

LEMMA LFRestartI == ASSUME LF!PricesAssumption, LFInv, LF!Restart PROVE LFInv'
<1> DEFINE old == [streams EXCEPT ![LF!Mine] = LF!Stopped(@)]
<1>1. /\ LF!Mine \in DOMAIN streams /\ old \in Seq(LFStreams) /\ Len(old) = Len(streams)
  BY LFStoppedIs DEF LFInv, LFShape, LF!Mine
<1>2. LF!Fresh \in LFStreams
  BY DEF LF!Fresh, LFStreams, LFStages
<1>3. /\ streams' = Append(old, LF!Fresh) /\ LF!Mine < MaxStreams
      /\ prev' = LF!NoPrice /\ trail' = [trail EXCEPT !["tick"] = {}] /\ elapsed' = FALSE
      /\ UNCHANGED <<price, quote, plan>>
  BY DEF LF!Restart
<1> HIDE DEF old
<1>4. streams' \in Seq(LFStreams) /\ LF!Mine' = LF!Mine + 1 /\ streams'[LF!Mine'].tick = LF!NoPrice
  BY <1>1, <1>2, <1>3 DEF LF!Mine, LF!Fresh
<1>5. LFShape'
  <2>1. LF!Mine' \in 1..MaxStreams
    BY <1>3, <1>4, LFMineIs DEF LF!PricesAssumption
  <2>2. trail' \in [{"quote", "tick", "prev"} -> SUBSET Prices]
    BY <1>3 DEF LFInv, LFShape
  <2> QED BY <1>3, <1>4, <2>1, <2>2 DEF LFInv, LFShape
<1>6. LFTraded'
  BY <1>3, <1>4 DEF LFInv, LFShape, LFTraded, LFGapless, LF!LivePrice
<1> QED BY <1>5, <1>6 DEF LFInv

\* The stream after a frame.
LEMMA LFPulsedI == ASSUME LFInv
  PROVE  /\ LF!Pulsed \in Seq(LFStreams) /\ Len(LF!Pulsed) = Len(streams)
         /\ LF!Pulsed[LF!Mine].tick = streams[LF!Mine].tick
BY LFStoppedIs DEF LF!Pulsed, LFInv, LFShape

LEMMA LFMidFrameI == ASSUME LF!PricesAssumption, LFInv, LF!MidFrame PROVE LFInv'
<1>1. /\ streams' = LF!Pulsed /\ prev' = LF!LivePrice
      /\ trail' = [trail EXCEPT !["prev"] =
                     IF streams[LF!Mine].tick # LF!NoPrice THEN trail["tick"] ELSE trail["quote"]]
      /\ UNCHANGED <<elapsed, price, quote, plan>>
  BY DEF LF!MidFrame
<1>2. LF!Mine' = LF!Mine /\ streams' \in Seq(LFStreams) /\ LF!LivePrice' = LF!LivePrice
  BY <1>1, LFPulsedI DEF LF!Mine, LF!LivePrice
<1>3. LF!LivePrice \in Prices
  BY LFLivePriceHas
<1>4. LFShape'
  BY <1>1, <1>2, <1>3 DEF LFInv, LFShape
<1>5. LFTraded'
  BY <1>1, <1>2, LFPulsedI DEF LFInv, LFTraded, LFShape, LF!LivePrice
<1> QED BY <1>4, <1>5 DEF LFInv

LEMMA LFSlowFrameI ==
  ASSUME LF!PricesAssumption, LFInv, NEW s \in Levels, NEW t \in Levels, LF!SlowFrame(s, t)
  PROVE  LFInv'
<1>1. /\ streams' = LF!Pulsed /\ plan' = [stop |-> s, trigger |-> t]
      /\ UNCHANGED <<elapsed, price, quote, prev, told, trail>>
  BY DEF LF!SlowFrame
<1>2. LF!Mine' = LF!Mine /\ streams' \in Seq(LFStreams) /\ LF!LivePrice' = LF!LivePrice
  BY <1>1, LFPulsedI DEF LF!Mine, LF!LivePrice
<1>4. LFShape'
  BY <1>1, <1>2 DEF LFInv, LFShape
<1>5. LFTraded'
  BY <1>1, <1>2, LFPulsedI DEF LFInv, LFTraded, LF!Mine
<1> QED BY <1>4, <1>5 DEF LFInv

LEMMA LFStepI == ASSUME LF!PricesAssumption, LFInv, [LF!Next]_(LF!vars) PROVE LFInv'
<1>1. ASSUME NEW i \in DOMAIN streams, LF!MakeSocket(i) \/ LF!RunForever(i) \/ LF!LoopEnds(i)
      PROVE  LFInv'
  <2>1. streams[i] \in LFStreams
    BY DEF LFInv, LFShape
  <2>2. \E s \in LFStreams : s.tick = streams[i].tick /\ streams' = [streams EXCEPT ![i] = s]
    <3>1. [streams[i] EXCEPT !.stage = "made"] \in LFStreams
          /\ [streams[i] EXCEPT !.stage = "loop", !.running = TRUE] \in LFStreams
          /\ [streams[i] EXCEPT !.stage = "over"] \in LFStreams
      BY <2>1 DEF LFStreams, LFStages
    <3>2. \/ streams' = [streams EXCEPT ![i] = [streams[i] EXCEPT !.stage = "made"]]
          \/ streams' = [streams EXCEPT ![i] = [streams[i] EXCEPT !.stage = "loop", !.running = TRUE]]
          \/ streams' = [streams EXCEPT ![i] = [streams[i] EXCEPT !.stage = "over"]]
      BY <1>1 DEF LF!MakeSocket, LF!RunForever, LF!LoopEnds
    <3>3. /\ [streams[i] EXCEPT !.stage = "made"].tick = streams[i].tick
          /\ [streams[i] EXCEPT !.stage = "loop", !.running = TRUE].tick = streams[i].tick
          /\ [streams[i] EXCEPT !.stage = "over"].tick = streams[i].tick
      BY <2>1 DEF LFStreams
    <3> QED BY <3>1, <3>2, <3>3
  <2>3. UNCHANGED <<elapsed, price, quote, prev, plan, told, trail>>
    BY <1>1 DEF LF!MakeSocket, LF!RunForever, LF!LoopEnds
  <2> QED BY <2>2, <2>3, LFStageI
<1>2. ASSUME NEW i \in DOMAIN streams, LF!Trade(i) PROVE LFInv'
  BY <1>2, LFTradeI
<1>3. ASSUME NEW p \in Prices, LF!Move(p) PROVE LFInv'
  BY <1>3, LFMoveI
<1>4. CASE LF!Elapse \/ UNCHANGED LF!vars
  BY <1>4 DEF LF!Elapse, LF!vars, LFInv, LFShape, LFTraded, LF!Mine, LF!LivePrice
<1>5. ASSUME NEW s \in Levels, NEW t \in Levels, LF!SlowFrame(s, t) PROVE LFInv'
  BY <1>5, LFSlowFrameI
<1> QED BY <1>1, <1>2, <1>3, <1>4, <1>5, LFRestartI, LFMidFrameI DEF LF!Next

LEMMA LFTold == ASSUME LF!PricesAssumption, LFInv, LF!MidFrame PROVE told' \subseteq trail.prev
<1>1. SUFFICES ASSUME prev # LF!NoPrice, NEW l \in LF!Met(prev, LF!LivePrice) PROVE l \in trail["prev"]
  BY DEF LF!MidFrame
<1>2. /\ prev \in trail["prev"] /\ LF!LivePrice \in trail["prev"] /\ LFGapless(trail["prev"])
      /\ prev \in Nat /\ LF!LivePrice \in Nat
  BY <1>1, LFLivePriceHas DEF LFInv, LFTraded, LFShape, LF!PricesAssumption
<1>3. l \in Nat /\ ((prev <= l /\ l <= LF!LivePrice) \/ (LF!LivePrice <= l /\ l <= prev))
  <2>1. plan.stop \in Nat /\ plan.trigger \in Nat
    BY DEF LFInv, LFShape, LF!PricesAssumption
  <2> QED BY <1>1, <1>2, <2>1 DEF LF!Met, LF!Crossed, LF!Fired
<1> QED BY <1>2, <1>3 DEF LFGapless

-----------------------------------------------------------------------------
\* Journal: every row is stamped with the half day of its insert, and later
\* rows with later ones.

JORecorded == {"at", "source", "plan", "status", "gain"}
JORowLike(r, t) ==
  /\ r = [c \in JORecorded |-> r[c]]
  /\ r["at"] \in 0..t /\ r["source"] \in {None} \cup Nat

JODoubled(i, j, rs) ==
  rs[j]["at"] - rs[i]["at"] <= JO!Window => rs[j]["source"] # None /\ rs[j]["source"] # rs[i]["source"]

JOShape ==
  /\ nowJO \in 0..(2 * MaxDay + 1)
  /\ tape = [i \in 1..JO!Day |-> tape[i]]
  /\ \E n \in 0..MaxRows :
       /\ rowsJO = [i \in 1..n |-> rowsJO[i]]
       /\ \A i \in 1..n : JORowLike(rowsJO[i], nowJO)
       /\ \A j \in 1..n : \A i \in 1..(j - 1) : JODoubled(i, j, rowsJO)
       /\ \A s \in Callers : task[s] # None => Len(task[s].listed) \in 0..n
  /\ task = [s \in Callers |-> task[s]]

JOInv == JOShape

LEMMA JOAppendIs ==
  ASSUME NEW n \in Nat, NEW f, f = [i \in 1..n |-> f[i]], NEW r
  PROVE  /\ Len(f) = n
         /\ Append(f, r) = [i \in 1..(n + 1) |-> IF i = n + 1 THEN r ELSE f[i]]
<1> DEFINE S == {f[i] : i \in 1..n} \cup {r}
           g == Append(f, r)
<1>1. f \in [1..n -> S]
  OBVIOUS
<1>2. f \in Seq(S) /\ r \in S /\ Len(f) = n
  BY <1>1
<1> HIDE DEF S
<1>3. /\ g \in Seq(S) /\ Len(g) = n + 1 /\ \A i \in 1..n : g[i] = f[i]
      /\ g[n + 1] = r
  BY <1>2, AppendProperties
<1> HIDE DEF g
<1>4. g = [i \in 1..(n + 1) |-> g[i]]
  BY <1>3
<1>5. \A i \in 1..(n + 1) : g[i] = IF i = n + 1 THEN r ELSE f[i]
  BY <1>3
<1> QED BY <1>2, <1>4, <1>5 DEF g

LEMMA JOInitI == JO!JournalAssumption /\ JO!Init => JOInv
<1> SUFFICES ASSUME JO!JournalAssumption, JO!Init PROVE JOInv
  OBVIOUS
<1>1. nowJO = 0 /\ tape = <<>> /\ rowsJO = <<>> /\ task = [s \in Callers |-> None]
  BY DEF JO!Init
<1>2. JO!Day = 0
  BY <1>1 DEF JO!Day
<1>3. MaxRows \in Nat /\ MaxDay \in Nat
  BY DEF JO!JournalAssumption
<1>4. rowsJO = [i \in 1..0 |-> rowsJO[i]] /\ tape = [i \in 1..0 |-> tape[i]]
  BY <1>1
<1>5. task = [s \in Callers |-> task[s]] /\ \A s \in Callers : task[s] = None
  BY <1>1
<1> QED BY <1>1, <1>2, <1>3, <1>4, <1>5 DEF JOInv, JOShape

\* One more row.
LEMMA JOInsertI ==
  ASSUME JO!JournalAssumption, JOInv, NEW p, NEW source \in {None} \cup Nat, Len(rowsJO) < MaxRows,
         rowsJO' = Append(rowsJO, JO!Row(p, source)), UNCHANGED <<nowJO, tape, task>>,
         \A i \in DOMAIN rowsJO : rowsJO[i].at >= nowJO - JO!Window => source # None /\ rowsJO[i].source # source
  PROVE  JOInv'
<1> DEFINE r == JO!Row(p, source)
<1>1. PICK n \in 0..MaxRows :
       /\ rowsJO = [i \in 1..n |-> rowsJO[i]]
       /\ \A i \in 1..n : JORowLike(rowsJO[i], nowJO)
       /\ \A j \in 1..n : \A i \in 1..(j - 1) : JODoubled(i, j, rowsJO)
       /\ \A s \in Callers : task[s] # None => Len(task[s].listed) \in 0..n
  BY DEF JOInv, JOShape
<1>2. MaxRows \in Nat /\ nowJO \in Nat /\ n \in Nat
  BY DEF JOInv, JOShape, JO!JournalAssumption
<1>3. DOMAIN rowsJO = 1..n
  BY <1>1
<1>4. Len(rowsJO) = n
  BY <1>2, <1>3
<1>5. rowsJO' = [i \in 1..(n + 1) |-> IF i = n + 1 THEN r ELSE rowsJO[i]]
  BY <1>1, <1>2, JOAppendIs
<1>6. /\ r = [c \in JORecorded |-> r[c]] /\ r["at"] = nowJO /\ r["source"] = source
  BY DEF JO!Row, JORecorded
<1> HIDE DEF r
<1>7. /\ \A i \in 1..n : rowsJO'[i] = rowsJO[i]
      /\ rowsJO'[n + 1] = r
  BY <1>2, <1>5
<1>8. \A i \in 1..(n + 1) : JORowLike(rowsJO'[i], nowJO)
  <2>1. JORowLike(r, nowJO)
    BY <1>2, <1>6 DEF JORowLike
  <2>2. \A i \in 1..(n + 1) : i \in 1..n \/ i = n + 1
    BY <1>2
  <2> QED BY <1>1, <1>7, <2>1, <2>2
<1>9. ASSUME NEW j \in 1..(n + 1), NEW i \in 1..(j - 1) PROVE JODoubled(i, j, rowsJO')
  <2>1. i \in 1..n /\ (j \in 1..n \/ j = n + 1)
    BY <1>2
  <2>2. CASE j \in 1..n
    <3>1. JODoubled(i, j, rowsJO)
      BY <1>1, <2>2
    <3> QED BY <1>7, <2>1, <2>2, <3>1 DEF JODoubled
  <2>3. CASE j = n + 1
    <3>1. rowsJO[i]["at"] \in Nat /\ rowsJO'[j] = r /\ rowsJO'[i] = rowsJO[i]
      BY <1>1, <1>7, <2>1, <2>3 DEF JORowLike
    <3>2. rowsJO[i].at >= nowJO - JO!Window => source # None /\ rowsJO[i].source # source
      BY <1>3, <2>1
    <3> QED BY <1>2, <1>6, <3>1, <3>2 DEF JODoubled, JO!Window
  <2> QED BY <2>1, <2>2, <2>3
<1>10. /\ rowsJO' = [i \in 1..(n + 1) |-> rowsJO'[i]] /\ n + 1 \in 0..MaxRows
       /\ \A s \in Callers : task[s] # None => Len(task[s].listed) \in 0..(n + 1)
  <2>1. n + 1 \in 0..MaxRows
    BY <1>2, <1>4
  <2>2. \A k \in 0..n : k \in 0..(n + 1)
    BY <1>2
  <2> QED BY <1>1, <1>5, <2>1, <2>2
<1> HIDE DEF JOInv
<1>11. nowJO' = nowJO /\ tape' = tape /\ task' = task
  OBVIOUS
<1>12. /\ nowJO \in 0..(2 * MaxDay + 1) /\ tape = [i \in 1..JO!Day |-> tape[i]]
       /\ task = [s \in Callers |-> task[s]] /\ JO!Day' = JO!Day
  BY <1>11 DEF JOInv, JOShape, JO!Day
<1>13. \E k \in 0..MaxRows :
       /\ rowsJO' = [i \in 1..k |-> rowsJO'[i]]
       /\ \A i \in 1..k : JORowLike(rowsJO'[i], nowJO)
       /\ \A j \in 1..k : \A i \in 1..(j - 1) : JODoubled(i, j, rowsJO')
       /\ \A s \in Callers : task[s] # None => Len(task[s].listed) \in 0..k
  BY <1>8, <1>9, <1>10
<1> QED BY <1>11, <1>12, <1>13 DEF JOInv, JOShape

\* An evaluation touches the verdicts only.
LEMMA JOEndI ==
  ASSUME JO!JournalAssumption, JOInv, NEW s \in Callers, JO!EndEvaluation(s)
  PROVE  /\ JOInv'
         /\ \A i \in DOMAIN rowsJO : rowsJO'[i] # rowsJO[i] =>
              /\ i <= Len(task[s].listed)
              /\ task[s].listed[i].status \notin JO!Final
<1> DEFINE e == task[s]
<1>1. PICK n \in 0..MaxRows :
       /\ rowsJO = [i \in 1..n |-> rowsJO[i]]
       /\ \A i \in 1..n : JORowLike(rowsJO[i], nowJO)
       /\ \A j \in 1..n : \A i \in 1..(j - 1) : JODoubled(i, j, rowsJO)
       /\ \A u \in Callers : task[u] # None => Len(task[u].listed) \in 0..n
  BY DEF JOInv, JOShape
<1>2. DOMAIN rowsJO = 1..n
  BY <1>1
<1>3. /\ e # None /\ task' = [task EXCEPT ![s] = None] /\ nowJO' = nowJO /\ tape' = tape
      /\ rowsJO' = [i \in DOMAIN rowsJO |-> IF i <= Len(e.listed) THEN JO!Judged(e, i) ELSE rowsJO[i]]
  BY DEF JO!EndEvaluation
<1>4. ASSUME NEW i \in 1..n
      PROVE  /\ JORowLike(rowsJO'[i], nowJO)
             /\ rowsJO'[i]["at"] = rowsJO[i]["at"] /\ rowsJO'[i]["source"] = rowsJO[i]["source"]
             /\ rowsJO'[i] # rowsJO[i] => i <= Len(e.listed) /\ e.listed[i].status \notin JO!Final
  <2> DEFINE v == JO!JudgeOutcome(JO!BarsAfter(e.bars, e.listed[i].at), e.listed[i].plan)
             w == [rowsJO[i] EXCEPT !.status = v.status, !.gain = v.gain]
             x == IF i <= Len(e.listed) THEN JO!Judged(e, i) ELSE rowsJO[i]
  <2>1. rowsJO'[i] = x
    BY <1>2, <1>3
  <2>2. x = rowsJO[i] \/ (x = w /\ i <= Len(e.listed) /\ JO!ToJudge(e.listed[i]))
    BY DEF JO!Judged
  <2>3. JORowLike(rowsJO[i], nowJO)
    BY <1>1
  <2>4. w = [rowsJO[i] EXCEPT !["status"] = v.status, !["gain"] = v.gain]
    OBVIOUS
  <2> HIDE DEF v
  <2>5. JORowLike(w, nowJO) /\ w["at"] = rowsJO[i]["at"] /\ w["source"] = rowsJO[i]["source"]
    BY <2>3, <2>4 DEF JORowLike, JORecorded
  <2> HIDE DEF x, w, e
  <2>6. JO!ToJudge(e.listed[i]) => e.listed[i].status \notin JO!Final
    BY DEF JO!ToJudge
  <2> QED BY <2>1, <2>2, <2>3, <2>5, <2>6
<1>5. rowsJO' = [i \in 1..n |-> rowsJO'[i]]
  BY <1>2, <1>3
<1>6. \A j \in 1..n : \A i \in 1..(j - 1) : JODoubled(i, j, rowsJO')
  <2>1. \A j \in 1..n : \A i \in 1..(j - 1) : i \in 1..n
    OBVIOUS
  <2> QED BY <1>1, <1>4, <2>1 DEF JODoubled
<1>7. task' = [u \in Callers |-> task'[u]]
      /\ \A u \in Callers : task'[u] # None => Len(task'[u].listed) \in 0..n
  BY <1>1, <1>3 DEF JOInv, JOShape
<1>8. /\ nowJO \in 0..(2 * MaxDay + 1) /\ tape = [i \in 1..JO!Day |-> tape[i]] /\ JO!Day' = JO!Day
  BY <1>3 DEF JOInv, JOShape, JO!Day
<1>9. JOShape'
  BY <1>3, <1>4, <1>5, <1>6, <1>7, <1>8 DEF JOShape
<1> QED BY <1>2, <1>4, <1>9 DEF JOInv

\* The rows as they are, later.
LEMMA JOLaterI ==
  ASSUME JO!JournalAssumption, JOInv, nowJO' \in 0..(2 * MaxDay + 1), nowJO <= nowJO', UNCHANGED <<rowsJO, task>>,
         tape' = [i \in 1..JO!Day' |-> tape'[i]]
  PROVE  JOInv'
<1>1. PICK n \in 0..MaxRows :
       /\ rowsJO = [i \in 1..n |-> rowsJO[i]]
       /\ \A i \in 1..n : JORowLike(rowsJO[i], nowJO)
       /\ \A j \in 1..n : \A i \in 1..(j - 1) : JODoubled(i, j, rowsJO)
       /\ \A u \in Callers : task[u] # None => Len(task[u].listed) \in 0..n
  BY DEF JOInv, JOShape
<1>2. nowJO \in Nat /\ nowJO' \in Nat
  BY DEF JOInv, JOShape, JO!JournalAssumption
<1>3. \A i \in 1..n : JORowLike(rowsJO[i], nowJO')
  BY <1>1, <1>2 DEF JORowLike
<1> QED BY <1>1, <1>3 DEF JOInv, JOShape

LEMMA JOStepI == JO!JournalAssumption /\ JOInv /\ [JO!Next]_(JO!vars) => JOInv'
<1> SUFFICES ASSUME JO!JournalAssumption, JOInv, [JO!Next]_(JO!vars) PROVE JOInv'
  OBVIOUS
<1>1. nowJO \in 0..(2 * MaxDay + 1) /\ MaxDay \in Nat /\ nowJO \in Nat /\ None \notin Int
  BY DEF JOInv, JOShape, JO!JournalAssumption
<1>2. PICK n \in 0..MaxRows :
       /\ rowsJO = [i \in 1..n |-> rowsJO[i]]
       /\ \A i \in 1..n : JORowLike(rowsJO[i], nowJO)
       /\ \A j \in 1..n : \A i \in 1..(j - 1) : JODoubled(i, j, rowsJO)
       /\ \A u \in Callers : task[u] # None => Len(task[u].listed) \in 0..n
  BY DEF JOInv, JOShape
<1>3. ASSUME NEW p \in Propositions, JO!WorkerInsert(p) PROVE JOInv'
  <2>1. JO!Day \in Nat /\ JO!Day # None
    BY <1>1 DEF JO!Day
  <2> QED BY <1>3, <2>1, JOInsertI DEF JO!WorkerInsert
<1>4. ASSUME NEW p \in Propositions, JO!TabInsert(p) PROVE JOInv'
  BY <1>4, JOInsertI DEF JO!TabInsert, JO!Duplicate
<1>5. ASSUME NEW s \in Callers, JO!BeginEvaluation(s) PROVE JOInv'
  <2>1. task' = [task EXCEPT ![s] = [listed |-> rowsJO, bars |-> tape]] /\ UNCHANGED <<nowJO, tape, rowsJO>>
    BY <1>5 DEF JO!BeginEvaluation
  <2>2. Len(rowsJO) = n /\ n \in 0..n
    <3>1. DOMAIN rowsJO = 1..n /\ n \in Nat
      BY <1>2 DEF JO!JournalAssumption
    <3> QED BY <3>1
  <2>3. \A u \in Callers : task'[u] # None => Len(task'[u].listed) \in 0..n
    BY <1>2, <2>1, <2>2 DEF JOInv, JOShape
  <2>4. task' = [u \in Callers |-> task'[u]]
    BY <2>1 DEF JOInv, JOShape
  <2>5. JO!Day' = JO!Day
    BY <2>1 DEF JO!Day
  <2> QED BY <1>2, <2>1, <2>3, <2>4, <2>5 DEF JOInv, JOShape
<1>6. ASSUME NEW b \in JournalBars, JO!CloseDay(b) PROVE JOInv'
  <2>1. nowJO' = nowJO + 1 /\ nowJO % 2 = 0 /\ UNCHANGED <<rowsJO, task>>
    BY <1>6 DEF JO!CloseDay
  <2>2. nowJO' \in 0..(2 * MaxDay + 1) /\ nowJO <= nowJO' /\ JO!Day' = JO!Day /\ JO!Day \in Nat
    BY <1>1, <2>1 DEF JO!Day
  <2>3. tape' = [i \in 1..JO!Day |-> tape'[i]]
    <3>1. tape = [i \in 1..JO!Day |-> tape[i]]
      BY DEF JOInv, JOShape
    <3>2. CASE tape' = tape
      BY <3>1, <3>2
    <3>3. CASE tape # <<>> /\ tape' = JO!Front(tape) \o <<b>>
      <4>1. DOMAIN tape = 1..JO!Day /\ Len(tape) = JO!Day
        BY <2>2, <3>1
      <4>2. JO!Day > 0
        BY <2>2, <3>1, <3>3
      <4>3. JO!Front(tape) = [i \in 1..(JO!Day - 1) |-> tape[i]]
        BY <2>2, <4>1, <4>2 DEF JO!Front
      <4>4. Len(JO!Front(tape)) = JO!Day - 1 /\ Len(<<b>>) = 1
        BY <2>2, <4>2, <4>3
      <4>5. tape' = [i \in 1..JO!Day |-> IF i <= JO!Day - 1 THEN JO!Front(tape)[i] ELSE <<b>>[i - (JO!Day - 1)]]
        BY <2>2, <3>3, <4>4
      <4> QED BY <4>5
    <3> QED BY <1>6, <3>2, <3>3 DEF JO!CloseDay
  <2> QED BY <2>1, <2>2, <2>3, JOLaterI
<1>7. ASSUME NEW b \in JournalBars, JO!OpenDay(b) PROVE JOInv'
  <2>1. nowJO' = nowJO + 1 /\ nowJO % 2 = 1 /\ JO!Day < MaxDay /\ tape' = Append(tape, b) /\ UNCHANGED <<rowsJO, task>>
    BY <1>7 DEF JO!OpenDay
  <2>2. nowJO' \in 0..(2 * MaxDay + 1) /\ nowJO <= nowJO' /\ JO!Day' = JO!Day + 1 /\ JO!Day \in Nat
    BY <1>1, <2>1 DEF JO!Day
  <2>3. tape' = [i \in 1..JO!Day' |-> tape'[i]]
    <3>1. tape = [i \in 1..JO!Day |-> tape[i]]
      BY DEF JOInv, JOShape
    <3>2. tape' = [i \in 1..(JO!Day + 1) |-> IF i = JO!Day + 1 THEN b ELSE tape[i]]
      BY <2>1, <2>2, <3>1, JOAppendIs
    <3> QED BY <2>2, <3>2
  <2> QED BY <2>1, <2>2, <2>3, JOLaterI
<1>8. CASE UNCHANGED JO!vars
  <2>1. nowJO' = nowJO /\ tape' = tape /\ UNCHANGED <<rowsJO, task>> /\ JO!Day' = JO!Day
    BY <1>8 DEF JO!vars, JO!Day
  <2> QED BY <1>1, <2>1, JOLaterI DEF JOInv, JOShape
<1> QED BY <1>3, <1>4, <1>5, <1>6, <1>7, <1>8, JOEndI DEF JO!Next

LEMMA JODoublesI == JO!JournalAssumption /\ JOInv => JO!OnlyTheWorkerDoubles
<1> SUFFICES ASSUME JO!JournalAssumption, JOInv PROVE JO!OnlyTheWorkerDoubles
  OBVIOUS
<1>1. PICK n \in 0..MaxRows :
       /\ rowsJO = [i \in 1..n |-> rowsJO[i]]
       /\ \A j \in 1..n : \A i \in 1..(j - 1) : JODoubled(i, j, rowsJO)
  BY DEF JOInv, JOShape
<1>2. DOMAIN rowsJO = 1..n
  BY <1>1
<1> QED BY <1>1, <1>2 DEF JO!OnlyTheWorkerDoubles, JODoubled

LEMMA JOFinalI ==
  JO!JournalAssumption /\ JOInv /\ [JO!Next]_(JO!vars) =>
    \A i \in DOMAIN rowsJO :
       rowsJO[i].status \in JO!Final /\ rowsJO'[i] # rowsJO[i] =>
         \E s \in Callers : task[s] # None /\ task'[s] = None
           /\ task[s].listed[i].status \notin JO!Final
<1> SUFFICES ASSUME JO!JournalAssumption, JOInv, [JO!Next]_(JO!vars), NEW i \in DOMAIN rowsJO, rowsJO'[i] # rowsJO[i]
             PROVE  \E s \in Callers : task[s] # None /\ task'[s] = None
                      /\ task[s].listed[i].status \notin JO!Final
  OBVIOUS
<1>1. ASSUME NEW r, rowsJO' = Append(rowsJO, r) PROVE rowsJO'[i] = rowsJO[i]
  <2>1. PICK n \in 0..MaxRows : rowsJO = [k \in 1..n |-> rowsJO[k]]
    BY DEF JOInv, JOShape
  <2>2. DOMAIN rowsJO = 1..n /\ n \in Nat
    BY <2>1 DEF JO!JournalAssumption
  <2>3. Len(rowsJO) = n /\ i \in 1..n
    BY <2>2
  <2>4. Append(rowsJO, r) = [k \in 1..(n + 1) |-> IF k = n + 1 THEN r ELSE rowsJO[k]]
    BY <2>1, <2>2, JOAppendIs
  <2> QED BY <1>1, <2>2, <2>3, <2>4
<1>2. ASSUME NEW s \in Callers, JO!EndEvaluation(s)
      PROVE  task[s] # None /\ task'[s] = None /\ task[s].listed[i].status \notin JO!Final
  <2>1. task[s] # None /\ task'[s] = None
    BY <1>2 DEF JO!EndEvaluation, JOInv, JOShape
  <2> QED BY <1>2, <2>1, JOEndI
<1>3. \/ rowsJO' = rowsJO
      \/ \E r : rowsJO' = Append(rowsJO, r)
      \/ \E s \in Callers : JO!EndEvaluation(s)
  BY DEF JO!Next, JO!vars, JO!WorkerInsert, JO!TabInsert, JO!BeginEvaluation, JO!CloseDay,
       JO!OpenDay
<1> QED BY <1>1, <1>2, <1>3

LEMMA JOTypeI == JO!JournalAssumption /\ JOInv => JO!TypeOK
<1> SUFFICES ASSUME JO!JournalAssumption, JOInv PROVE JO!TypeOK
  OBVIOUS
<1>1. PICK n \in 0..MaxRows :
       /\ rowsJO = [i \in 1..n |-> rowsJO[i]]
       /\ \A u \in Callers : task[u] # None => Len(task[u].listed) \in 0..n
  BY DEF JOInv, JOShape
<1>2. DOMAIN rowsJO = 1..n /\ n \in Nat /\ nowJO \in Nat
  BY <1>1 DEF JO!JournalAssumption, JOInv, JOShape
<1>3. Len(rowsJO) = n
  BY <1>2
<1>4. DOMAIN tape = 1..JO!Day /\ JO!Day \in Nat
  BY <1>2 DEF JOInv, JOShape, JO!Day
<1>5. Len(tape) = JO!Day
  BY <1>4
<1>6. \A s \in Callers : task[s] # None => Len(task[s].listed) <= Len(rowsJO)
  BY <1>1, <1>2, <1>3
<1>7. nowJO \in 0..(2 * MaxDay + 1)
  BY DEF JOInv, JOShape
<1>8. Len(rowsJO) \in 0..MaxRows
  BY <1>1, <1>3
<1> QED BY <1>5, <1>6, <1>7, <1>8 DEF JO!TypeOK

-----------------------------------------------------------------------------
\* Journal, the verdicts: what a row's says holds of the bars that are closed, and
\* what an evaluation has read are those and the last, which may still change.
\* The judge of the journal is the judge the lemmas of JudgingProofs are about.
J == INSTANCE JudgingProofs

LEMMA JournalJudges ==
  /\ JO!Final = J!Final /\ JO!Candles = J!Candles /\ JO!NoTrigger = J!NoTrigger
  /\ (JO!HorizonAssumption <=> J!HorizonAssumption)
  /\ \A p : JO!InOrder(p) <=> J!InOrder(p)
  /\ \A bars, p : /\ JO!JudgeOutcome(bars, p) = J!JudgeOutcome(bars, p)
                  /\ JO!Reference(bars, p) = J!Reference(bars, p)
<1>1. /\ JO!Final = J!Final /\ JO!Candles = J!Candles /\ JO!NoTrigger = J!NoTrigger
      /\ (JO!HorizonAssumption <=> J!HorizonAssumption)
      /\ \A st, g : JO!Verdict(st, g) = J!Verdict(st, g)
  BY DEF JO!Final, J!Final, JO!Candles, J!Candles, JO!NoTrigger, J!NoTrigger,
         JO!HorizonAssumption, J!HorizonAssumption, JO!Verdict, J!Verdict
<1>2. \A p : JO!InOrder(p) <=> J!InOrder(p)
  BY <1>1 DEF JO!InOrder, J!InOrder, JO!Propositional, J!Propositional
<1>3. \A p : JO!Begun(p) = J!Begun(p)
  BY <1>1 DEF JO!Begun, J!Begun
<1>4. \A p, s, b : JO!ActiveBar(p, s, b) = J!ActiveBar(p, s, b)
  BY <1>1, Zenon DEF JO!ActiveBar, J!ActiveBar
<1>5. \A p, s, b : JO!WaitingBar(p, s, b) = J!WaitingBar(p, s, b)
  BY <1>1 DEF JO!WaitingBar, J!WaitingBar
<1>6. \A p, s, b : JO!JudgeBar(p, s, b) = J!JudgeBar(p, s, b)
  BY <1>1, <1>4, <1>5 DEF JO!JudgeBar, J!JudgeBar
<1>7. \A bars, p : JO!JudgeOutcome(bars, p) = J!JudgeOutcome(bars, p)
  BY <1>3, <1>6 DEF JO!JudgeOutcome, J!JudgeOutcome
<1>8. /\ \A bars, p : JO!Begins(bars, p) = J!Begins(bars, p)
      /\ \A bars, p, k : JO!Ends(bars, p, k) = J!Ends(bars, p, k)
  BY <1>1 DEF JO!Begins, J!Begins, JO!Ends, J!Ends
<1>9. ASSUME NEW bars, NEW p PROVE JO!Reference(bars, p) = J!Reference(bars, p)
  <2>1. /\ JO!Begins(bars, p) = J!Begins(bars, p)
        /\ JO!Ends(bars, p, J!Begins(bars, p)) = J!Ends(bars, p, J!Begins(bars, p))
    BY <1>8
  <2> DEFINE First(ends) == CHOOSE x \in ends : \A y \in ends : x <= y
             Told(k, ends) ==
               IF k > Horizon \/ (k > Len(bars) /\ k # 0)
               THEN IF Len(bars) >= Horizon THEN "not_triggered" ELSE "open"
               ELSE IF ends = {} THEN "open"
                    ELSE IF bars[First(ends)].low <= p.stop THEN "stop_hit"
                    ELSE IF bars[First(ends)].high >= p.target THEN "target_hit" ELSE "expired"
  <2>2. J!Reference(bars, p) = Told(J!Begins(bars, p), J!Ends(bars, p, J!Begins(bars, p)))
    BY Zenon DEF J!Reference
  <2>3. JO!Reference(bars, p) = Told(JO!Begins(bars, p), JO!Ends(bars, p, JO!Begins(bars, p)))
    BY Zenon DEF JO!Reference
  <2> HIDE DEF Told
  <2> QED BY <2>1, <2>2, <2>3
<1> QED BY <1>1, <1>2, <1>7, <1>9

\* What a row's verdict says, of a tape whose last bar may still change.
JVSound(p, status, gain, bars) ==
  /\ status \in J!Statuses /\ gain \in Int
  /\ status = "stop_hit" => gain <= 0
  /\ status = "not_triggered" => gain = 0
  /\ status = "target_hit" /\ gain <= 0 /\ p.entry < p.target =>
       \E k \in 1..(Len(bars) - 1) : bars[k].close >= p.trigger /\ bars[k].close >= p.target

\* Bars that were read are those of the tape, but for the last of them.
JVReadOf(bars, now) ==
  /\ bars \in Seq(J!Candles) /\ Len(bars) <= Len(now)
  /\ \A k \in 1..(Len(bars) - 1) : bars[k] = now[k]

JVListed(e) ==
  /\ JVReadOf(e.bars, tape)
  /\ \A i \in 1..Len(e.listed) : e.listed[i].plan = rowsJO[i].plan /\ e.listed[i].at = rowsJO[i].at

JVInv ==
  /\ tape \in Seq(J!Candles)
  /\ \A i \in DOMAIN rowsJO : /\ rowsJO[i].plan \in Propositions
                              /\ JVSound(rowsJO[i].plan, rowsJO[i].status, rowsJO[i].gain, tape)
  /\ \A s \in Callers : task[s] # None => JVListed(task[s])

LEMMA JVLonger ==
  ASSUME NEW p, NEW st, NEW g, NEW bars, NEW now \in Seq(J!Candles), JVReadOf(bars, now), JVSound(p, st, g, bars)
  PROVE  JVSound(p, st, g, now)
<1>1. Len(bars) \in Nat /\ Len(now) \in Nat
  BY DEF JVReadOf
<1> QED BY <1>1 DEF JVReadOf, JVSound

\* The bars after an alert.
LEMMA JVAfter ==
  ASSUME NEW bars \in Seq(J!Candles), NEW at \in Nat
  PROVE  /\ JO!BarsAfter(bars, at) \in Seq(J!Candles)
         /\ \A k \in 1..(Len(JO!BarsAfter(bars, at)) - 1) :
              /\ k + at \div 2 \in 1..(Len(bars) - 1)
              /\ JO!BarsAfter(bars, at)[k] = bars[k + at \div 2]
<1> DEFINE d == at \div 2
           after == SubSeq(bars, d + 1, Len(bars))
<1>1. d \in Nat /\ Len(bars) \in Nat
  OBVIOUS
<1> HIDE DEF d
<1>2. after \in Seq(J!Candles)
  <2>1. \A k \in (d + 1)..Len(bars) : k \in 1..Len(bars)
    BY <1>1
  <2> QED BY <1>1, <2>1
<1>3. CASE d + 1 <= Len(bars)
  <2>1. Len(after) = Len(bars) - d /\ \A k \in 1..(Len(bars) - d) : after[k] = bars[k + d]
    BY <1>1, <1>3
  <2>2. \A k \in 1..(Len(after) - 1) : k + d \in 1..(Len(bars) - 1) /\ after[k] = bars[k + d]
    BY <1>1, <2>1
  <2>3. after = JO!BarsAfter(bars, at)
    BY DEF JO!BarsAfter, d
  <2> HIDE DEF after
  <2> QED BY <1>2, <2>2, <2>3 DEF d
<1>4. CASE ~(d + 1 <= Len(bars))
  <2>1. Len(after) = 0
    BY <1>1, <1>4
  <2> HIDE DEF after
  <2>2. 1..(Len(after) - 1) = {}
    BY <2>1
  <2>3. after = JO!BarsAfter(bars, at)
    BY DEF JO!BarsAfter, d, after
  <2> QED BY <1>2, <2>2, <2>3
<1> QED BY <1>3, <1>4

\* A verdict on what was read holds of the tape.
LEMMA JVVerdict ==
  ASSUME JO!HorizonAssumption, NEW p, JO!InOrder(p), NEW bars, JVReadOf(bars, tape), NEW at \in Nat,
         tape \in Seq(J!Candles), NEW v, v = JO!JudgeOutcome(JO!BarsAfter(bars, at), p)
  PROVE  JVSound(p, v.status, v.gain, tape)
<1> DEFINE after == JO!BarsAfter(bars, at)
<1>1. bars \in Seq(J!Candles)
  BY DEF JVReadOf
<1>2. /\ after \in Seq(J!Candles)
      /\ \A k \in 1..(Len(after) - 1) : k + at \div 2 \in 1..(Len(bars) - 1) /\ after[k] = bars[k + at \div 2]
  BY <1>1, JVAfter
<1> HIDE DEF after
<1>3. J!HorizonAssumption /\ J!InOrder(p) /\ v = J!JudgeOutcome(after, p)
  BY JournalJudges DEF after
<1>4. /\ v \in J!Verdicts
      /\ v.status = "stop_hit" => v.gain <= 0
      /\ v.status = "not_triggered" => v.gain = 0
      /\ v.status = "target_hit" /\ v.gain <= 0 /\ p.entry < p.target =>
           \E k \in 1..(Len(after) - 1) : after[k].close >= p.trigger /\ after[k].close >= p.target
  BY <1>2, <1>3, J!VerdictsGain
<1>5. v.status \in J!Statuses /\ v.gain \in Int
  BY <1>4 DEF J!Verdicts
<1>6. JVSound(p, v.status, v.gain, bars)
  BY <1>2, <1>4, <1>5 DEF JVSound
<1> QED BY <1>6, JVLonger

LEMMA JVInitI == JO!Init => JVInv
<1> SUFFICES ASSUME JO!Init PROVE JVInv
  OBVIOUS
<1>1. tape = <<>> /\ rowsJO = <<>> /\ \A s \in Callers : task[s] = None
  BY DEF JO!Init
<1> QED BY <1>1 DEF JVInv

\* The rows as they are, with more of the tape.
LEMMA JVTapeGrows ==
  ASSUME JVInv, JVReadOf(tape, tape'), tape' \in Seq(J!Candles), UNCHANGED <<rowsJO, task>>
  PROVE  JVInv'
<1>1. \A i \in DOMAIN rowsJO : JVSound(rowsJO[i].plan, rowsJO[i].status, rowsJO[i].gain, tape')
  BY JVLonger DEF JVInv
<1>2. ASSUME NEW s \in Callers, task[s] # None PROVE JVReadOf(task[s].bars, tape')
  <2> DEFINE read == task[s].bars
  <2>1. JVReadOf(read, tape)
    BY <1>2 DEF JVInv, JVListed
  <2> HIDE DEF read
  <2>2. Len(read) \in Nat /\ Len(tape) \in Nat /\ Len(tape') \in Nat
    BY <2>1 DEF JVReadOf, JVInv
  <2>3. JVReadOf(read, tape')
    BY <2>1, <2>2 DEF JVReadOf
  <2> QED BY <2>3 DEF read
<1>3. \A s \in Callers : task[s] # None => JVListed(task[s])'
  BY <1>2 DEF JVListed, JVInv
<1> QED BY <1>1, <1>3 DEF JVInv

\* The rows have a domain and know when they were written.
LEMMA JVRowsAre ==
  ASSUME JO!JournalAssumption, JOInv
  PROVE  /\ DOMAIN rowsJO = 1..Len(rowsJO) /\ Len(rowsJO) \in Nat
         /\ rowsJO = [i \in 1..Len(rowsJO) |-> rowsJO[i]]
         /\ \A i \in DOMAIN rowsJO : rowsJO[i].at \in Nat
         /\ \A s \in Callers : task[s] # None => Len(task[s].listed) \in 0..Len(rowsJO)
         /\ Len(tape) \in Nat /\ task = [s \in Callers |-> task[s]]
<1>1. PICK n \in 0..MaxRows :
       /\ rowsJO = [i \in 1..n |-> rowsJO[i]]
       /\ \A i \in 1..n : JORowLike(rowsJO[i], nowJO)
       /\ \A s \in Callers : task[s] # None => Len(task[s].listed) \in 0..n
  BY DEF JOInv, JOShape
<1>2. DOMAIN rowsJO = 1..n /\ n \in Nat /\ nowJO \in Nat
  BY <1>1 DEF JOInv, JOShape, JO!JournalAssumption
<1>3. Len(rowsJO) = n
  BY <1>2
<1>4. \A i \in 1..n : rowsJO[i].at \in Nat
  BY <1>1, <1>2 DEF JORowLike
<1>5. Len(tape) \in Nat /\ task = [s \in Callers |-> task[s]]
  <2>1. nowJO \in Nat /\ DOMAIN tape = 1..JO!Day /\ JO!Day \in Nat
    BY <1>2 DEF JOInv, JOShape, JO!Day
  <2> QED BY <2>1 DEF JOInv, JOShape
<1> QED BY <1>1, <1>2, <1>3, <1>4, <1>5

LEMMA JVInsertI ==
  ASSUME JO!JournalAssumption, JOInv, JVInv, NEW p \in Propositions, NEW source,
         rowsJO' = Append(rowsJO, JO!Row(p, source)), UNCHANGED <<tape, task>>
  PROVE  JVInv'
<1> DEFINE n == Len(rowsJO)
           r == JO!Row(p, source)
<1>1. /\ DOMAIN rowsJO = 1..n /\ n \in Nat /\ rowsJO = [i \in 1..n |-> rowsJO[i]]
      /\ \A s \in Callers : task[s] # None => Len(task[s].listed) \in 0..n
  BY JVRowsAre
<1> HIDE DEF n
<1>2. r.plan = p /\ r.status = "open" /\ r.gain = 0
  BY DEF JO!Row
<1>3. JVSound(p, "open", 0, tape)
  BY DEF JVSound, J!Statuses
<1> HIDE DEF r
<1>4. rowsJO' = [i \in 1..(n + 1) |-> IF i = n + 1 THEN r ELSE rowsJO[i]]
  BY <1>1, JOAppendIs DEF r
<1>5. /\ DOMAIN rowsJO' = 1..(n + 1) /\ rowsJO'[n + 1] = r
      /\ \A i \in 1..n : rowsJO'[i] = rowsJO[i]
  BY <1>1, <1>4
<1>6. ASSUME NEW i \in DOMAIN rowsJO'
      PROVE  /\ rowsJO'[i].plan \in Propositions
             /\ JVSound(rowsJO'[i].plan, rowsJO'[i].status, rowsJO'[i].gain, tape)
  <2>1. i \in 1..n \/ i = n + 1
    BY <1>1, <1>5
  <2> QED BY <1>1, <1>2, <1>3, <1>5, <2>1 DEF JVInv
<1>7. ASSUME NEW s \in Callers, task[s] # None PROVE JVListed(task[s])'
  <2>1. Len(task[s].listed) \in 0..n
    BY <1>1, <1>7
  <2>2. \A i \in 1..Len(task[s].listed) : i \in 1..n
    BY <1>1, <2>1
  <2>3. JVListed(task[s])
    BY <1>7 DEF JVInv
  <2> QED BY <1>5, <2>2, <2>3 DEF JVListed
<1> QED BY <1>6, <1>7 DEF JVInv

LEMMA JVEndI ==
  ASSUME JO!HorizonAssumption, JO!JournalAssumption, JOInv, JVInv, NEW s \in Callers, JO!EndEvaluation(s)
  PROVE  JVInv'
<1> DEFINE e == task[s]
<1>1. /\ e # None /\ task' = [task EXCEPT ![s] = None] /\ tape' = tape
      /\ rowsJO' = [i \in DOMAIN rowsJO |-> IF i <= Len(e.listed) THEN JO!Judged(e, i) ELSE rowsJO[i]]
  BY DEF JO!EndEvaluation
<1>2. /\ DOMAIN rowsJO = 1..Len(rowsJO) /\ \A i \in DOMAIN rowsJO : rowsJO[i].at \in Nat
      /\ \A u \in Callers : task[u] # None => Len(task[u].listed) \in 0..Len(rowsJO)
      /\ Len(rowsJO) \in Nat /\ task = [u \in Callers |-> task[u]]
  BY JVRowsAre
<1>3. JVListed(e) /\ tape \in Seq(J!Candles) /\ Len(e.listed) \in Nat
  BY <1>1, <1>2 DEF JVInv
<1>4. \A q \in Propositions : JO!InOrder(q)
  BY DEF JO!JournalAssumption
<1>5. ASSUME NEW i \in DOMAIN rowsJO
      PROVE  /\ rowsJO'[i].plan = rowsJO[i].plan /\ rowsJO'[i].at = rowsJO[i].at
             /\ JVSound(rowsJO[i].plan, rowsJO'[i].status, rowsJO'[i].gain, tape)
  <2> DEFINE v == JO!JudgeOutcome(JO!BarsAfter(e.bars, e.listed[i].at), e.listed[i].plan)
             w == [rowsJO[i] EXCEPT !.status = v.status, !.gain = v.gain]
             x == IF i <= Len(e.listed) THEN JO!Judged(e, i) ELSE rowsJO[i]
  <2>1. rowsJO'[i] = x
    BY <1>1
  <2>2. x = rowsJO[i] \/ (x = w /\ i <= Len(e.listed))
    BY DEF JO!Judged
  <2>3. JORowLike(rowsJO[i], nowJO) /\ rowsJO[i].plan \in Propositions
        /\ JVSound(rowsJO[i].plan, rowsJO[i].status, rowsJO[i].gain, tape)
    BY DEF JOInv, JOShape, JVInv
  <2>4. i <= Len(e.listed) => JVSound(rowsJO[i].plan, v.status, v.gain, tape)
    <3> SUFFICES ASSUME i <= Len(e.listed) PROVE JVSound(rowsJO[i].plan, v.status, v.gain, tape)
      OBVIOUS
    <3>1. i \in 1..Len(e.listed)
      BY <1>2, <1>3
    <3>2. /\ e.listed[i].plan = rowsJO[i].plan /\ e.listed[i].at = rowsJO[i].at
          /\ JVReadOf(e.bars, tape)
      BY <1>3, <3>1 DEF JVListed
    <3>3. v = JO!JudgeOutcome(JO!BarsAfter(e.bars, rowsJO[i].at), rowsJO[i].plan)
      BY <3>2
    <3>4. JO!InOrder(rowsJO[i].plan) /\ rowsJO[i].at \in Nat
      BY <1>2, <1>4, <2>3
    <3> HIDE DEF v, e
    <3> QED BY <1>3, <3>2, <3>3, <3>4, JVVerdict
  <2>5. w = [rowsJO[i] EXCEPT !["status"] = v.status, !["gain"] = v.gain]
    OBVIOUS
  <2> HIDE DEF v
  <2>6. w.plan = rowsJO[i].plan /\ w.at = rowsJO[i].at /\ w.status = v.status /\ w.gain = v.gain
    BY <2>3, <2>5 DEF JORowLike, JORecorded
  <2> HIDE DEF w, x
  <2> QED BY <2>1, <2>2, <2>3, <2>4, <2>6
<1>6. DOMAIN rowsJO' = DOMAIN rowsJO
  BY <1>1
<1>7. ASSUME NEW u \in Callers, task'[u] # None PROVE JVListed(task[u])' /\ task'[u] = task[u]
  <2>1. task'[u] = task[u] /\ u # s
    BY <1>1, <1>2, <1>7
  <2>2. JVListed(task[u]) /\ Len(task[u].listed) \in 0..Len(rowsJO)
    BY <1>2, <1>7, <2>1 DEF JVInv
  <2>3. \A i \in 1..Len(task[u].listed) : i \in DOMAIN rowsJO
    BY <1>2, <2>2
  <2> HIDE DEF e
  <2> QED BY <1>1, <1>5, <2>1, <2>2, <2>3 DEF JVListed
<1> HIDE DEF e
<1>8. \A i \in DOMAIN rowsJO' : /\ rowsJO'[i].plan \in Propositions
                                /\ JVSound(rowsJO'[i].plan, rowsJO'[i].status, rowsJO'[i].gain, tape')
  BY <1>1, <1>5, <1>6 DEF JVInv
<1> QED BY <1>1, <1>3, <1>7, <1>8 DEF JVInv

LEMMA JVStepI ==
  JO!HorizonAssumption /\ JO!JournalAssumption /\ JOInv /\ JVInv /\ [JO!Next]_(JO!vars) => JVInv'
<1> SUFFICES ASSUME JO!HorizonAssumption, JO!JournalAssumption, JOInv, JVInv, [JO!Next]_(JO!vars) PROVE JVInv'
  OBVIOUS
<1>1. /\ tape \in Seq(J!Candles) /\ Len(tape) \in Nat /\ \A b \in JournalBars : b \in J!Candles
      /\ task = [s \in Callers |-> task[s]]
  BY JVRowsAre, JournalJudges DEF JVInv, JO!JournalAssumption
<1>2. ASSUME NEW p \in Propositions, JO!WorkerInsert(p) \/ JO!TabInsert(p) PROVE JVInv'
  BY <1>2, JVInsertI DEF JO!WorkerInsert, JO!TabInsert
<1>3. ASSUME NEW s \in Callers, JO!BeginEvaluation(s) PROVE JVInv'
  <2>1. task' = [task EXCEPT ![s] = [listed |-> rowsJO, bars |-> tape]] /\ UNCHANGED <<tape, rowsJO>>
    BY <1>3 DEF JO!BeginEvaluation
  <2>2. JVListed([listed |-> rowsJO, bars |-> tape])'
    BY <1>1, <2>1 DEF JVListed, JVReadOf
  <2>3. ASSUME NEW u \in Callers, task'[u] # None PROVE JVListed(task[u])'
    <3>1. CASE u = s
      <4>1. task'[u] = [listed |-> rowsJO, bars |-> tape]
        BY <1>1, <2>1, <3>1
      <4> QED BY <2>1, <2>2, <4>1 DEF JVListed
    <3>2. CASE u # s
      <4>1. task'[u] = task[u]
        BY <1>1, <2>1, <3>2
      <4> QED BY <2>1, <2>3, <4>1 DEF JVInv, JVListed
    <3> QED BY <3>1, <3>2
  <2> QED BY <2>1, <2>3 DEF JVInv
<1>4. ASSUME NEW b \in JournalBars, JO!CloseDay(b) PROVE JVInv'
  <2>1. UNCHANGED <<rowsJO, task>>
    BY <1>4 DEF JO!CloseDay
  <2>2. CASE tape' = tape
    BY <1>1, <2>1, <2>2, JVTapeGrows DEF JVReadOf
  <2>3. CASE tape # <<>> /\ tape' = JO!Front(tape) \o <<b>>
    <3> DEFINE n == Len(tape)
               front == JO!Front(tape)
    <3>1. n \in Nat /\ n > 0
      BY <1>1, <2>3
    <3>2. front = [i \in 1..(n - 1) |-> tape[i]]
      BY <1>1 DEF JO!Front
    <3>3. front \in Seq(J!Candles) /\ Len(front) = n - 1
      BY <1>1, <3>1, <3>2
    <3>4. <<b>> \in Seq(J!Candles) /\ Len(<<b>>) = 1
      BY <1>1
    <3> HIDE DEF front
    <3>5. tape' \in Seq(J!Candles) /\ Len(tape') = n /\ \A i \in 1..(n - 1) : tape'[i] = front[i]
      BY <2>3, <3>1, <3>3, <3>4, ConcatProperties DEF front
    <3>6. JVReadOf(tape, tape')
      BY <1>1, <3>1, <3>2, <3>5 DEF JVReadOf
    <3> QED BY <2>1, <3>5, <3>6, JVTapeGrows
  <2> QED BY <1>4, <2>2, <2>3 DEF JO!CloseDay
<1>5. ASSUME NEW b \in JournalBars, JO!OpenDay(b) PROVE JVInv'
  <2>1. UNCHANGED <<rowsJO, task>> /\ tape' = Append(tape, b)
    BY <1>5 DEF JO!OpenDay
  <2>2. /\ tape' \in Seq(J!Candles) /\ Len(tape') = Len(tape) + 1
        /\ \A i \in 1..Len(tape) : tape'[i] = tape[i]
    BY <1>1, <2>1, AppendProperties
  <2>3. JVReadOf(tape, tape')
    BY <1>1, <2>2 DEF JVReadOf
  <2> QED BY <2>1, <2>2, <2>3, JVTapeGrows
<1>6. CASE UNCHANGED JO!vars
  BY <1>1, <1>6, JVTapeGrows DEF JO!vars, JVReadOf
<1> QED BY <1>2, <1>3, <1>4, <1>5, <1>6, JVEndI DEF JO!Next

LEMMA JVReferenceI ==
  JO!HorizonAssumption /\ JO!JournalAssumption /\ JOInv /\ JVInv => JO!JudgesLikeTheReference
<1> SUFFICES ASSUME JO!HorizonAssumption, JO!JournalAssumption, JOInv, JVInv, NEW i \in DOMAIN rowsJO
             PROVE  JO!JudgeOutcome(JO!BarsAfter(tape, rowsJO[i].at), rowsJO[i].plan).status
                      = JO!Reference(JO!BarsAfter(tape, rowsJO[i].at), rowsJO[i].plan)
  BY DEF JO!JudgesLikeTheReference
<1>1. rowsJO[i].at \in Nat
  BY JVRowsAre
<1>2. JO!BarsAfter(tape, rowsJO[i].at) \in Seq(J!Candles)
  BY <1>1, JVAfter DEF JVInv
<1>3. J!HorizonAssumption /\ J!Propositional(rowsJO[i].plan)
  BY JournalJudges DEF JVInv, JO!JournalAssumption, J!InOrder
<1> QED BY <1>2, <1>3, J!JudgeFollowsReference, JournalJudges

LEMMA JournalCardinality == ASSUME NEW S PROVE JO!Cardinality(S) = Cardinality(S)
BY DEF JO!Cardinality, Cardinality

LEMMA TwoParts ==
  ASSUME NEW A, NEW B, IsFiniteSet(A), IsFiniteSet(B), A \cap B = {}
  PROVE  IsFiniteSet(A \cup B) /\ Cardinality(A \cup B) = Cardinality(A) + Cardinality(B)
<1>1. IsFiniteSet(A \cup B) /\ Cardinality(A \cup B) = Cardinality(A) + Cardinality(B) - Cardinality(A \cap B)
  BY FS_Union
<1>2. Cardinality(A \cap B) = 0
  BY FS_EmptySet
<1>3. Cardinality(A) \in Nat /\ Cardinality(B) \in Nat
  BY FS_CardinalityType
<1> QED BY <1>1, <1>2, <1>3

\* Four disjoint parts of a set of rows.
LEMMA JVFourParts ==
  ASSUME NEW S, IsFiniteSet(S), NEW A, NEW B, NEW C, NEW D, S = A \cup B \cup C \cup D,
         A \cap B = {}, A \cap C = {}, A \cap D = {}, B \cap C = {}, B \cap D = {}, C \cap D = {}
  PROVE  Cardinality(A) + Cardinality(B) + Cardinality(C) + Cardinality(D) = Cardinality(S)
<1>1. IsFiniteSet(A) /\ IsFiniteSet(B) /\ IsFiniteSet(C) /\ IsFiniteSet(D)
  <2>1. A \subseteq S /\ B \subseteq S /\ C \subseteq S /\ D \subseteq S
    OBVIOUS
  <2> QED BY <2>1, FS_Subset
<1>2. IsFiniteSet(A \cup B) /\ Cardinality(A \cup B) = Cardinality(A) + Cardinality(B)
  BY <1>1, TwoParts
<1>3. IsFiniteSet(C \cup D) /\ Cardinality(C \cup D) = Cardinality(C) + Cardinality(D)
  BY <1>1, TwoParts
<1>4. S = (A \cup B) \cup (C \cup D) /\ (A \cup B) \cap (C \cup D) = {}
  OBVIOUS
<1>5. Cardinality((A \cup B) \cup (C \cup D)) = Cardinality(A \cup B) + Cardinality(C \cup D)
  BY <1>2, <1>3, <1>4, TwoParts
<1>6. /\ Cardinality(A) \in Nat /\ Cardinality(B) \in Nat
      /\ Cardinality(C) \in Nat /\ Cardinality(D) \in Nat
  BY <1>1, FS_CardinalityType
<1>7. Cardinality(S) = Cardinality((A \cup B) \cup (C \cup D))
  BY <1>4, Zenon
<1> QED BY <1>2, <1>3, <1>5, <1>6, <1>7

LEMMA JVWholeI ==
  JO!HorizonAssumption /\ JO!JournalAssumption /\ JOInv /\ JVInv => JO!ReportCardIsWhole
<1> SUFFICES ASSUME JO!HorizonAssumption, JO!JournalAssumption, JOInv, JVInv PROVE JO!ReportCardIsWhole
  OBVIOUS
<1> DEFINE S == DOMAIN rowsJO
           Won == {i \in S : "wins" \in JO!Columns(rowsJO[i])}
           Lost == {i \in S : "losses" \in JO!Columns(rowsJO[i])}
           StillOpen == {i \in S : "open" \in JO!Columns(rowsJO[i])}
           Never == {i \in S : "not_triggered" \in JO!Columns(rowsJO[i])}
           card == JO!ReportCard(rowsJO)
<1>1. S = 1..Len(rowsJO) /\ Len(rowsJO) \in Nat
  BY JVRowsAre
<1>2. IsFiniteSet(S) /\ Cardinality(S) = Len(rowsJO)
  <2> DEFINE n == Len(rowsJO)
  <2>0. 1 \in Int /\ n \in Int
    BY <1>1
  <2> HIDE DEF n
  <2>1. IsFiniteSet(1..n) /\ Cardinality(1..n) = IF 1 > n THEN 0 ELSE n - 1 + 1
    BY <2>0, FS_Interval
  <2>2. Cardinality(1..n) = n
    BY <1>1, <2>1 DEF n
  <2> HIDE DEF S
  <2> QED BY <1>1, <2>1, <2>2 DEF n
<1>3. ASSUME NEW i \in S
      PROVE  LET r == rowsJO[i] IN
             /\ r.status \in J!Statuses /\ r.gain \in Int /\ r.plan.entry <= r.plan.target
             /\ r.plan.entry \in Int /\ r.plan.target \in Int
             /\ JVSound(r.plan, r.status, r.gain, tape)
  BY JournalJudges DEF JVInv, JVSound, JO!JournalAssumption, J!InOrder, J!Propositional
<1>4. ASSUME NEW i \in S
      PROVE  LET r == rowsJO[i]
                 c == JO!Columns(r) IN
             /\ r.status = "target_hit" => c = {"wins"}
             /\ r.status = "stop_hit" => c = {"losses"}
             /\ r.status = "expired" /\ r.gain > 0 => c = {"expired", "wins"}
             /\ r.status = "expired" /\ ~(r.gain > 0) => c = {"expired", "losses"}
             /\ r.status = "not_triggered" => c = {"not_triggered"}
             /\ r.status = "open" => c = {"open"}
  BY DEF JO!Columns
<1>5. ASSUME NEW i \in S
      PROVE  rowsJO[i].status \in {"target_hit", "stop_hit", "expired", "not_triggered", "open"}
  BY <1>3 DEF J!Statuses, J!Final
<1>6. S = Won \cup Lost \cup StillOpen \cup Never
  BY <1>4, <1>5
<1>7. Won \cap Lost = {} /\ Won \cap StillOpen = {} /\ Won \cap Never = {}
  BY <1>4, <1>5
<1>8. Lost \cap StillOpen = {} /\ Lost \cap Never = {} /\ StillOpen \cap Never = {}
  BY <1>4, <1>5
<1>9. /\ card.wins = Cardinality(Won) /\ card.losses = Cardinality(Lost)
      /\ card.open = Cardinality(StillOpen) /\ card.not_triggered = Cardinality(Never)
  BY JournalCardinality DEF JO!ReportCard
<1>10. ASSUME NEW i \in S, rowsJO[i].status \in JO!Final
       PROVE  /\ rowsJO[i].gain > 0 => "wins" \in JO!Columns(rowsJO[i])
              /\ "wins" \in JO!Columns(rowsJO[i]) /\ rowsJO[i].gain <= 0 => JO!NothingToGain(rowsJO[i])
  <2> DEFINE r == rowsJO[i]
  <2>1. r.gain > 0 => "wins" \in JO!Columns(r)
    BY <1>3, <1>4, <1>5, <1>10 DEF JO!Final, JVSound
  <2>2. "wins" \in JO!Columns(r) /\ r.gain <= 0 => r.status = "target_hit"
    BY <1>3, <1>4, <1>5
  <2>3. r.status = "target_hit" /\ r.gain <= 0 => JO!NothingToGain(r)
    <3> SUFFICES ASSUME r.status = "target_hit", r.gain <= 0, r.plan.entry # r.plan.target
                 PROVE  \E k \in DOMAIN tape : tape[k].close >= r.plan.trigger /\ tape[k].close >= r.plan.target
      BY DEF JO!NothingToGain
    <3>1. r.plan.entry < r.plan.target
      BY <1>3
    <3>2. PICK k \in 1..(Len(tape) - 1) : tape[k].close >= r.plan.trigger /\ tape[k].close >= r.plan.target
      BY <1>3, <3>1 DEF JVSound
    <3>3. k \in DOMAIN tape
      BY JVRowsAre DEF JVInv
    <3> QED BY <3>2, <3>3
  <2> QED BY <2>1, <2>2, <2>3
<1>11. Cardinality(Won) + Cardinality(Lost) + Cardinality(StillOpen) + Cardinality(Never) = Len(rowsJO)
  <2> HIDE DEF Won, Lost, StillOpen, Never, S
  <2> QED BY <1>2, <1>6, <1>7, <1>8, JVFourParts
<1> QED
  <2>1. card.wins + card.losses + card.open + card.not_triggered = Len(rowsJO)
    BY <1>9, <1>11
  <2> QED BY <1>10, <2>1 DEF JO!ReportCardIsWhole

-----------------------------------------------------------------------------
\* SqliteBook, one thread: what a call is about to write is what one call of
\* TradeBook makes of the table.

S1OneThread == \A t, u \in {Alone} : t = u

S1Columns == {"owner", "plan", "status", "opened", "activated", "brokeOut", "stop", "best", "events",
            "moves", "exit", "reason", "closedAt"}
S1LogEntry == [kind : {"trend_test_tighten", "trail_stop", "move_stop_breakeven", "weekend_flat"},
             old : Int, new : Int \cup {None}]

\* As much of a row's shape as its writing depends on.
S1RowLike(r) ==
  /\ r = [c \in S1Columns |-> r[c]]
  /\ r["events"] \in Seq(S1LogEntry) /\ r["moves"] \in Nat /\ r["stop"] \in Int /\ r["plan"] \in Positions

\* n is r with more in its log.
S1Extends(r, n) ==
  /\ S1RowLike(r) /\ S1RowLike(n)
  /\ Len(r["events"]) <= Len(n["events"])
  /\ \A i \in 1..Len(r["events"]) : n["events"][i] = r["events"][i]

LEMMA S1AppendLog ==
  ASSUME NEW s \in Seq(S1LogEntry), NEW e \in S1LogEntry
  PROVE  /\ Append(s, e) \in Seq(S1LogEntry)
         /\ Len(Append(s, e)) = Len(s) + 1
         /\ Len(s) \in Nat
         /\ \A i \in 1..Len(s) : Append(s, e)[i] = s[i]
BY AppendProperties, LenProperties

LEMMA S1ExtendsTwice ==
  ASSUME NEW a, NEW b, NEW c, S1Extends(a, b), S1Extends(b, c)
  PROVE  S1Extends(a, c)
<1>1. /\ a["events"] \in Seq(S1LogEntry) /\ b["events"] \in Seq(S1LogEntry) /\ c["events"] \in Seq(S1LogEntry)
  BY DEF S1Extends, S1RowLike
<1>2. Len(a["events"]) \in Nat /\ Len(b["events"]) \in Nat /\ Len(c["events"]) \in Nat
  BY <1>1
<1> QED BY <1>2 DEF S1Extends

\* An UPDATE of a row nobody has changed meanwhile leaves the row as it was made.
LEMMA S1WrittenIs == ASSUME NEW r, NEW n, S1Extends(r, n), r # None PROVE S1!Written(r, r, n) = n
<1> DEFINE tail == SubSeq(n["events"], Len(r["events"]) + 1, Len(n["events"]))
           w == [c \in DOMAIN r |->
                   CASE c = "moves" -> r.moves + n.moves - r.moves
                     [] c = "events" -> r.events \o SubSeq(n.events, Len(r.events) + 1, Len(n.events))
                     [] n[c] # r[c] -> n[c]
                     [] OTHER -> r[c]]
<1>1. S1!Written(r, r, n) = w
  BY DEF S1!Written
<1>2. /\ r = [c \in S1Columns |-> r[c]] /\ n = [c \in S1Columns |-> n[c]]
      /\ r["moves"] \in Nat /\ n["moves"] \in Nat
      /\ r["events"] \in Seq(S1LogEntry) /\ n["events"] \in Seq(S1LogEntry)
  BY DEF S1Extends, S1RowLike
<1>3. r["events"] \o tail = n["events"]
  <2> DEFINE a == r["events"]
             b == n["events"]
  <2>1. /\ a \in Seq(S1LogEntry) /\ b \in Seq(S1LogEntry) /\ Len(a) <= Len(b)
        /\ \A i \in 1..Len(a) : b[i] = a[i]
    BY <1>2 DEF S1Extends
  <2> HIDE DEF a, b
  <2>2. /\ SubSeq(b, Len(a) + 1, Len(b)) \in Seq(S1LogEntry)
        /\ Len(SubSeq(b, Len(a) + 1, Len(b))) = Len(b) - Len(a)
        /\ \A i \in 1..(Len(b) - Len(a)) : SubSeq(b, Len(a) + 1, Len(b))[i] = b[Len(a) + i]
    BY <2>1
  <2> DEFINE s == SubSeq(b, Len(a) + 1, Len(b))
             x == a \o s
  <2>3. x \in Seq(S1LogEntry) /\ Len(x) = Len(b)
        /\ \A i \in 1..Len(b) : x[i] = IF i <= Len(a) THEN a[i] ELSE s[i - Len(a)]
    BY <2>1, <2>2
  <2>4. \A i \in 1..Len(b) : x[i] = b[i]
    BY <2>1, <2>2, <2>3
  <2>5. x = b
    BY <2>1, <2>3, <2>4, SeqEqual
  <2> QED BY <2>5 DEF a, b
<1>4. w = [c \in S1Columns |-> n[c]]
  <2> DEFINE v1 == r.moves + n.moves - r.moves
             v2 == r.events \o SubSeq(n.events, Len(r.events) + 1, Len(n.events))
  <2>1. w = [c \in DOMAIN r |-> CASE c = "moves" -> v1 [] c = "events" -> v2
                                 [] n[c] # r[c] -> n[c] [] OTHER -> r[c]]
    OBVIOUS
  <2>2. v1 = n["moves"]
    BY <1>2
  <2>3. v2 = n["events"]
    BY <1>3
  <2> HIDE DEF v1, v2, w
  <2>4. ASSUME NEW c \in DOMAIN r PROVE w[c] = n[c]
    BY <2>1, <2>2, <2>3
  <2>5. DOMAIN r = S1Columns
    BY <1>2
  <2>6. w = [c \in DOMAIN r |-> n[c]]
    BY <2>1, <2>4
  <2> QED BY <2>5, <2>6
<1> QED BY <1>1, <1>2, <1>4

LEMMA S1Same == ASSUME NEW r, S1RowLike(r) PROVE S1Extends(r, r)
<1>1. r["events"] \in Seq(S1LogEntry)
  BY DEF S1RowLike
<1> QED BY <1>1 DEF S1Extends

\* A row that differs in none of the columns that matter.
LEMMA S1Differs == ASSUME NEW r, NEW n, S1RowLike(r), n = [c \in S1Columns |-> n[c]],
    n["events"] = r["events"], n["moves"] = r["moves"], n["stop"] = r["stop"], n["plan"] = r["plan"]
  PROVE S1Extends(r, n)
<1>1. S1RowLike(n)
  BY DEF S1RowLike
<1>2. r["events"] \in Seq(S1LogEntry)
  BY DEF S1RowLike
<1> QED BY <1>1, <1>2 DEF S1Extends

LEMMA S1FinishExtends ==
  ASSUME NEW r, S1RowLike(r), NEW x, NEW why
  PROVE  S1Extends(r, S1!Book!Finish(r, x, why))
<1> DEFINE n == S1!Book!Finish(r, x, why)
<1>1. /\ n = [c \in S1Columns |-> n[c]]
      /\ n["events"] = r["events"] /\ n["moves"] = r["moves"] /\ n["stop"] = r["stop"]
      /\ n["plan"] = r["plan"]
  BY DEF S1!Book!Finish, S1RowLike, S1Columns
<1> HIDE DEF n
<1>2. S1Extends(r, n)
  BY <1>1, S1Differs
<1> QED BY <1>2 DEF n

LEMMA S1MarkExtends ==
  ASSUME NEW r, S1RowLike(r), NEW mkt
  PROVE  S1Extends(r, S1!Book!MarkRow(r, mkt))
<1>1. ASSUME NEW n, n \in {[r EXCEPT !.brokeOut = now1], [r EXCEPT !.status = "open", !.activated = now1]}
      PROVE  S1Extends(r, n)
  <2>1. /\ n = [c \in S1Columns |-> n[c]]
        /\ n["events"] = r["events"] /\ n["moves"] = r["moves"] /\ n["stop"] = r["stop"]
        /\ n["plan"] = r["plan"]
    BY <1>1 DEF S1RowLike, S1Columns
  <2> QED BY <2>1, S1Differs
<1>2. S1Extends(r, S1!Book!MarkPending(r, mkt))
  BY <1>1, S1Same, S1FinishExtends DEF S1!Book!MarkPending
<1>3. S1Extends(r, S1!Book!MarkOpen(r, mkt))
  BY S1Same, S1FinishExtends DEF S1!Book!MarkOpen
<1> QED BY <1>2, <1>3 DEF S1!Book!MarkRow

LEMMA S1SeenExtends ==
  ASSUME NEW r, S1RowLike(r), NEW mkt
  PROVE  S1Extends(r, S1!Book!Seen(r, mkt))
<1> DEFINE n == S1!Book!Seen(r, mkt)
<1>1. /\ n = [c \in S1Columns |-> n[c]]
      /\ n["events"] = r["events"] /\ n["moves"] = r["moves"] /\ n["stop"] = r["stop"]
      /\ n["plan"] = r["plan"]
  BY DEF S1!Book!Seen, S1RowLike, S1Columns
<1> HIDE DEF n
<1>2. S1Extends(r, n)
  BY <1>1, S1Differs
<1> QED BY <1>2 DEF n

\* A row with one more entry in its log.
LEMMA S1LoggedExtends == ASSUME NEW r, NEW n, S1RowLike(r), n = [c \in S1Columns |-> n[c]], NEW e \in S1LogEntry,
    n["events"] = Append(r["events"], e), n["moves"] \in Nat, n["stop"] \in Int, n["plan"] = r["plan"]
  PROVE S1Extends(r, n)
<1>1. r["events"] \in Seq(S1LogEntry)
  BY DEF S1RowLike
<1>2. /\ n["events"] \in Seq(S1LogEntry) /\ Len(n["events"]) = Len(r["events"]) + 1
      /\ Len(r["events"]) \in Nat
      /\ \A i \in 1..Len(r["events"]) : n["events"][i] = r["events"][i]
  <2> DEFINE s == r["events"]
  <2>1. s \in Seq(S1LogEntry) /\ n["events"] = Append(s, e)
    BY <1>1
  <2> HIDE DEF s
  <2>2. /\ n["events"] \in Seq(S1LogEntry) /\ Len(n["events"]) = Len(s) + 1
        /\ Len(s) \in Nat /\ \A i \in 1..Len(s) : n["events"][i] = s[i]
    BY <2>1, S1AppendLog
  <2> QED BY <2>2 DEF s
<1>3. S1RowLike(n)
  BY <1>2 DEF S1RowLike
<1>4. Len(r["events"]) <= Len(n["events"])
  BY <1>2
<1> QED BY <1>2, <1>3, <1>4 DEF S1Extends

S1MoveShape == [kind : {"trend_test_tighten", "trail_stop", "move_stop_breakeven", None}, level : Int]

LEMMA S1ApplyExtends ==
  ASSUME NEW r, S1RowLike(r), NEW m \in S1MoveShape
  PROVE  S1Extends(r, S1!Book!Apply(r, m))
<1> DEFINE e == [kind |-> m.kind, old |-> r.stop, new |-> m.level]
           n == [r EXCEPT !.stop = m.level, !.moves = @ + 1, !.events = Append(@, e)]
<1>1. CASE m.kind # None /\ m.level > r.stop
  <2>1. S1!Book!Apply(r, m) = n
    BY <1>1 DEF S1!Book!Apply
  <2>2. e \in S1LogEntry
    BY <1>1 DEF S1MoveShape, S1LogEntry, S1RowLike
  <2> HIDE DEF e
  <2>3. /\ n = [c \in S1Columns |-> n[c]] /\ n["events"] = Append(r["events"], e)
        /\ n["moves"] = r["moves"] + 1 /\ n["stop"] = m.level /\ n["plan"] = r["plan"]
    BY DEF S1RowLike, S1Columns
  <2>4. n["moves"] \in Nat /\ n["stop"] \in Int
    <3> HIDE DEF n
    <3>1. r["moves"] \in Nat /\ m.level \in Int
      BY DEF S1RowLike, S1MoveShape
    <3> QED BY <2>3, <3>1
  <2> HIDE DEF n
  <2> QED BY <2>1, <2>2, <2>3, <2>4, S1LoggedExtends
<1>2. CASE ~(m.kind # None /\ m.level > r.stop)
  BY <1>2, S1Same DEF S1!Book!Apply
<1> QED BY <1>1, <1>2

LEMMA S1ManageExtends ==
  ASSUME S1!BookAssumption, NEW r, S1RowLike(r), NEW mkt \in MarketPrices, NEW ro \in Readouts,
         NEW ff \in BOOLEAN
  PROVE  S1Extends(r, S1!Book!ManageRow(r, mkt, ro, ff))
<1> DEFINE s == S1!Book!Seen(r, mkt)
<1>1. S1Extends(r, s) /\ S1RowLike(s)
  BY S1SeenExtends DEF S1Extends
<1>2. /\ mkt \in Int /\ ro.gap \in Int /\ ro.ema8 \in Int \cup {None}
      /\ ro.chandelier \in Int \cup {None} /\ Spread \in Int
      /\ r.plan.entry \in Int /\ r.stop \in Int
  <2>1. r["plan"] \in S1!Book!PlanShape /\ ro \in S1!Book!ReadoutShape /\ mkt \in S1!Book!Price
    BY DEF S1RowLike, S1!BookAssumption
  <2>2. r.plan.entry \in Int
    BY <2>1 DEF S1!Book!PlanShape, S1!Book!Price
  <2>3. ro.gap \in Int /\ ro.ema8 \in Int \cup {None} /\ ro.chandelier \in Int \cup {None}
    BY <2>1 DEF S1!Book!ReadoutShape, S1!Book!Level, S1!Book!Price
  <2> QED BY <2>1, <2>2, <2>3 DEF S1RowLike, S1!BookAssumption, S1!Book!Price
<1>3. CASE ff /\ ~r.plan.hold
  <2> DEFINE f == S1!Book!Finish(s, mkt - Spread, "weekend_flat")
             e == [kind |-> "weekend_flat", old |-> s.stop, new |-> None]
             n == [f EXCEPT !.events = Append(@, e)]
  <2>1. S1Extends(s, f) /\ S1RowLike(f)
    BY <1>1, S1FinishExtends DEF S1Extends
  <2>2. S1!Book!ManageRow(r, mkt, ro, ff) = n
    BY <1>3 DEF S1!Book!ManageRow, S1!Book!Flatten
  <2>3. e \in S1LogEntry
    BY <1>1 DEF S1LogEntry, S1RowLike
  <2> HIDE DEF e, f
  <2>4. /\ n = [c \in S1Columns |-> n[c]] /\ n["events"] = Append(f["events"], e)
        /\ n["moves"] = f["moves"] /\ n["stop"] = f["stop"] /\ n["plan"] = f["plan"]
    BY <2>1 DEF S1RowLike, S1Columns
  <2>5. n["moves"] \in Nat /\ n["stop"] \in Int
    BY <2>1, <2>4 DEF S1RowLike
  <2> HIDE DEF n
  <2>6. S1Extends(f, n)
    BY <2>1, <2>3, <2>4, <2>5, S1LoggedExtends
  <2> HIDE DEF s
  <2> QED BY <1>1, <2>1, <2>2, <2>6, S1ExtendsTwice
<1>4. CASE ~(ff /\ ~r.plan.hold)
  <2> DEFINE m1 == S1!Book!Tighten(r, mkt, ro)
             m2 == S1!Book!TrailOrBreakeven(r, mkt, ro)
             a == S1!Book!Apply(s, m1)
             n == S1!Book!Apply(a, m2)
  <2>1. m1 \in S1MoveShape
    <3>1. \A k \in {"trend_test_tighten", None}, l \in Int : [kind |-> k, level |-> l] \in S1MoveShape
      BY DEF S1MoveShape
    <3> QED BY <1>2, <3>1 DEF S1!Book!Tighten, S1!Book!NoMove
  <2>2. m2 \in S1MoveShape
    <3>1. \A k \in {"trail_stop", "move_stop_breakeven", None}, l \in Int :
             [kind |-> k, level |-> l] \in S1MoveShape
      BY DEF S1MoveShape
    <3>2. S1!Book!Breakeven(r) \in Int
      BY <1>2 DEF S1!Book!Breakeven
    <3>3. S1!Book!TrailLevel(r, ro) \in Int
      <4>1. \A a1, b1 \in Int : S1!Book!Higher(a1, b1) \in Int
        BY DEF S1!Book!Higher
      <4>2. \A x \in Int : S1!Book!UnderEma(x) \in Int
        BY DEF S1!Book!UnderEma, S1!Book!EmaBufferPerMille
      <4> DEFINE x == IF ro.chandelier = None THEN r.stop ELSE ro.chandelier
                 y == IF ro.ema8 = None THEN r.stop ELSE S1!Book!UnderEma(ro.ema8)
      <4>3. x \in Int /\ y \in Int
        BY <1>2, <4>2
      <4>4. S1!Book!TrailLevel(r, ro) = S1!Book!Higher(S1!Book!Higher(r.stop, x), y)
        BY DEF S1!Book!TrailLevel
      <4> HIDE DEF x, y
      <4>5. S1!Book!Higher(r.stop, x) \in Int
        BY <1>2, <4>1, <4>3
      <4> QED BY <4>1, <4>3, <4>4, <4>5
    <3> QED BY <3>1, <3>2, <3>3 DEF S1!Book!TrailOrBreakeven, S1!Book!NoMove
  <2>3. S1!Book!ManageRow(r, mkt, ro, ff) = n
    BY <1>4 DEF S1!Book!ManageRow
  <2> HIDE DEF m1, m2, s
  <2>4. S1Extends(s, a) /\ S1RowLike(a)
    BY <1>1, <2>1, S1ApplyExtends DEF S1Extends
  <2>5. S1Extends(a, n)
    BY <2>2, <2>4, S1ApplyExtends
  <2> HIDE DEF a, n
  <2> QED BY <1>1, <2>3, <2>4, <2>5, S1ExtendsTwice
<1> QED BY <1>3, <1>4

LEMMA S1NewIs ==
  ASSUME S1!BookAssumption, NEW o, NEW p \in Positions
  PROVE  S1RowLike(S1!Book!NewRow(o, p))
<1> DEFINE r == S1!Book!NewRow(o, p)
<1>1. p.stop \in Int
  BY DEF S1!BookAssumption, S1!Book!PlanShape, S1!Book!Price
<1>2. r = [c \in S1Columns |-> r[c]]
  BY DEF S1!Book!NewRow, S1Columns
<1>3. r["events"] = <<>> /\ r["moves"] = 0 /\ r["stop"] = p.stop /\ r["plan"] = p
  BY DEF S1!Book!NewRow
<1>4. <<>> \in Seq(S1LogEntry)
  OBVIOUS
<1> HIDE DEF r
<1>5. r["events"] \in Seq(S1LogEntry)
  BY <1>3, <1>4
<1>6. r["stop"] \in Int /\ r["moves"] \in Nat /\ r["plan"] \in Positions
  BY <1>1, <1>3
<1>7. S1RowLike(r)
  BY <1>2, <1>5, <1>6 DEF S1RowLike
<1> QED BY <1>7 DEF r

-----------------------------------------------------------------------------
\* The table a commit makes.
S1After(t) == [id \in TradeIds |-> IF id \in DOMAIN call1[t].new THEN call1[t].new[id] ELSE trades1[id]]

\* One call of TradeBook makes T of the table.
S1Makes(T) ==
  \/ \E id \in TradeIds, o \in Owners, p \in Positions :
       /\ trades1[id] = None /\ S1!Book!ActiveFor(o, p.trader) = {}
       /\ T = [trades1 EXCEPT ![id] = S1!Book!NewRow(o, p)]
  \/ \E id \in TradeIds, px \in MarketPrices \cup {None} :
       /\ S1!Book!IsActive(id)
       /\ T = [trades1 EXCEPT ![id] = S1!Closed(trades1[id], px)]
  \/ \E o \in Owners, mkt \in MarketPrices :
       T = [id \in TradeIds |->
              IF S1!Book!Marked(id, o) THEN S1!Book!MarkRow(trades1[id], mkt) ELSE trades1[id]]
  \/ \E o \in Owners, mkt \in MarketPrices, ro \in Readouts, ff \in BOOLEAN :
       T = [id \in TradeIds |->
              IF S1!Book!Managed(id, o) THEN S1!Book!ManageRow(trades1[id], mkt, ro, ff) ELSE trades1[id]]

LEMMA S1MakesIs == ASSUME NEW T, S1Makes(T), trades1' = T, now1' = now1 PROVE S1!Book!Next
<1>1. ASSUME NEW id \in TradeIds, NEW o \in Owners, NEW p \in Positions,
             trades1[id] = None, S1!Book!ActiveFor(o, p.trader) = {},
             T = [trades1 EXCEPT ![id] = S1!Book!NewRow(o, p)]
      PROVE  S1!Book!Next
  <2>1. S1!Book!Open(id, o, p)
    BY <1>1 DEF S1!Book!Open
  <2> QED BY <2>1 DEF S1!Book!Next
<1>2. ASSUME NEW id \in TradeIds, NEW px \in MarketPrices \cup {None}, S1!Book!IsActive(id),
             T = [trades1 EXCEPT ![id] = S1!Closed(trades1[id], px)]
      PROVE  S1!Book!Next
  <2>1. S1!Book!Close(id, px)
    BY <1>2 DEF S1!Book!Close, S1!Closed, S1!Book!IsActive, S1!Book!Active
  <2> QED BY <2>1 DEF S1!Book!Next
<1>3. ASSUME NEW o \in Owners, NEW mkt \in MarketPrices,
             T = [id \in TradeIds |->
                    IF S1!Book!Marked(id, o) THEN S1!Book!MarkRow(trades1[id], mkt) ELSE trades1[id]]
      PROVE  S1!Book!Next
  <2>1. S1!Book!Mark(o, mkt)
    BY <1>3 DEF S1!Book!Mark
  <2> QED BY <2>1 DEF S1!Book!Next
<1>4. ASSUME NEW o \in Owners, NEW mkt \in MarketPrices, NEW ro \in Readouts, NEW ff \in BOOLEAN,
             T = [id \in TradeIds |->
                    IF S1!Book!Managed(id, o) THEN S1!Book!ManageRow(trades1[id], mkt, ro, ff)
                    ELSE trades1[id]]
      PROVE  S1!Book!Next
  <2>1. S1!Book!Manage(o, mkt, ro, ff)
    BY <1>4 DEF S1!Book!Manage
  <2> QED BY <2>1 DEF S1!Book!Next
<1> QED BY <1>1, <1>2, <1>3, <1>4 DEF S1Makes

S1Rows == {id \in TradeIds : trades1[id] # None}
S1GoodCall(t) ==
  LET c == call1[t] IN
  /\ DOMAIN c.old = DOMAIN c.new /\ DOMAIN c.new \subseteq TradeIds
  /\ S1!InCall(t) =>
       /\ \A id \in DOMAIN c.new :
            /\ c.old[id] = trades1[id]
            /\ S1RowLike(c.new[id])
            /\ trades1[id] # None => S1Extends(trades1[id], c.new[id])
       /\ S1Makes(S1After(t))
S1Inv ==
  /\ trades1 = [id \in TradeIds |-> trades1[id]]
  /\ call1 = [t \in {Alone} |-> call1[t]]
  /\ \A id \in TradeIds : trades1[id] # None => S1RowLike(trades1[id])
  /\ \A t \in {Alone} : S1GoodCall(t)

LEMMA S1InitI == S1!Init => S1Inv
<1> SUFFICES ASSUME S1!Init PROVE S1Inv
  OBVIOUS
<1>1. \A t \in {Alone} : call1[t] = S1!NoCall
  BY DEF S1!Init
<1>2. DOMAIN S1!NoCall.old = {} /\ DOMAIN S1!NoCall.new = {}
  BY DEF S1!NoCall
<1>3. trades1 = [id \in TradeIds |-> None] /\ call1 = [t \in {Alone} |-> S1!NoCall]
  BY DEF S1!Init, S1!Book!Init
<1> QED BY <1>1, <1>2, <1>3 DEF S1Inv, S1GoodCall, S1!InCall

LEMMA S1MakesStays == ASSUME NEW T, S1Makes(T), trades1' = trades1, now1' = now1 PROVE S1Makes(T)'
<1>1. ASSUME NEW id \in TradeIds, NEW o \in Owners, NEW p \in Positions,
             trades1[id] = None, S1!Book!ActiveFor(o, p.trader) = {},
             T = [trades1 EXCEPT ![id] = S1!Book!NewRow(o, p)]
      PROVE  (/\ trades1[id] = None /\ S1!Book!ActiveFor(o, p.trader) = {}
              /\ T = [trades1 EXCEPT ![id] = S1!Book!NewRow(o, p)])'
  BY <1>1 DEF S1!Book!ActiveFor, S1!Book!IsActive, S1!Book!Active, S1!Book!NewRow
<1>2. ASSUME NEW id \in TradeIds, NEW px \in MarketPrices \cup {None}, S1!Book!IsActive(id),
             T = [trades1 EXCEPT ![id] = S1!Closed(trades1[id], px)]
      PROVE  (S1!Book!IsActive(id) /\ T = [trades1 EXCEPT ![id] = S1!Closed(trades1[id], px)])'
  BY <1>2 DEF S1!Book!IsActive, S1!Book!Active, S1!Closed, S1!Book!Finish, S1!Book!ExitPrice
<1>3. ASSUME NEW o \in Owners, NEW mkt \in MarketPrices,
             T = [id \in TradeIds |->
                    IF S1!Book!Marked(id, o) THEN S1!Book!MarkRow(trades1[id], mkt) ELSE trades1[id]]
      PROVE  (T = [id \in TradeIds |->
                    IF S1!Book!Marked(id, o) THEN S1!Book!MarkRow(trades1[id], mkt) ELSE trades1[id]])'
  <2>1. ASSUME NEW r PROVE S1!Book!MarkRow(r, mkt)' = S1!Book!MarkRow(r, mkt)
    <3>1. /\ (S1!Book!Finish(r, None, "cancelled"))' = S1!Book!Finish(r, None, "cancelled")
          /\ (S1!Book!Finish(r, r.stop, "stop_hit"))' = S1!Book!Finish(r, r.stop, "stop_hit")
          /\ (S1!Book!Finish(r, r.plan.target, "target_hit"))' = S1!Book!Finish(r, r.plan.target, "target_hit")
          /\ (S1!Book!Finish(r, mkt, "expired"))' = S1!Book!Finish(r, mkt, "expired")
      BY DEF S1!Book!Finish
    <3>2. /\ (S1!Book!Elapsed(r, r.opened))' = S1!Book!Elapsed(r, r.opened)
          /\ (S1!Book!Elapsed(r, r.activated))' = S1!Book!Elapsed(r, r.activated)
      BY DEF S1!Book!Elapsed
    <3>3. S1!Book!MarkPending(r, mkt)' = S1!Book!MarkPending(r, mkt)
      BY <3>1, <3>2 DEF S1!Book!MarkPending, S1!Book!Confirms
    <3>4. S1!Book!MarkOpen(r, mkt)' = S1!Book!MarkOpen(r, mkt)
      BY <3>1, <3>2 DEF S1!Book!MarkOpen
    <3> QED BY <3>3, <3>4 DEF S1!Book!MarkRow
  <2>2. ASSUME NEW id \in TradeIds PROVE S1!Book!Marked(id, o)' = S1!Book!Marked(id, o)
    BY DEF S1!Book!Marked, S1!Book!Active, S1!Book!IsActive
  <2> QED BY <1>3, <2>1, <2>2
<1>4. ASSUME NEW o \in Owners, NEW mkt \in MarketPrices, NEW ro \in Readouts, NEW ff \in BOOLEAN,
             T = [id \in TradeIds |->
                    IF S1!Book!Managed(id, o) THEN S1!Book!ManageRow(trades1[id], mkt, ro, ff)
                    ELSE trades1[id]]
      PROVE  (T = [id \in TradeIds |->
                    IF S1!Book!Managed(id, o) THEN S1!Book!ManageRow(trades1[id], mkt, ro, ff)
                    ELSE trades1[id]])'
  <2>1. ASSUME NEW r
        PROVE  (S1!Book!ManageRow(r, mkt, ro, ff))' = S1!Book!ManageRow(r, mkt, ro, ff)
    <3>1. (S1!Book!Flatten(S1!Book!Seen(r, mkt), mkt))' = S1!Book!Flatten(S1!Book!Seen(r, mkt), mkt)
      BY DEF S1!Book!Flatten, S1!Book!Finish, S1!Book!Seen, S1!Book!Higher
    <3> QED BY <3>1 DEF S1!Book!ManageRow
  <2>2. ASSUME NEW id \in TradeIds PROVE S1!Book!Managed(id, o)' = S1!Book!Managed(id, o)
    BY DEF S1!Book!Managed
  <2> QED BY <1>4, <2>1, <2>2
<1> QED BY <1>1, <1>2, <1>3, <1>4 DEF S1Makes

LEMMA S1BeginI ==
  ASSUME S1OneThread, S1Inv, NEW t \in {Alone}, NEW new, S1!Begin(t, new), DOMAIN new \subseteq TradeIds,
         \A id \in DOMAIN new : /\ S1RowLike(new[id])
                                /\ trades1[id] # None => S1Extends(trades1[id], new[id]),
         S1Makes([id \in TradeIds |-> IF id \in DOMAIN new THEN new[id] ELSE trades1[id]])
  PROVE  S1Inv'
<1> DEFINE ids == {id \in DOMAIN new : new[id] # trades1[id]}
           c == [old |-> [id \in ids |-> trades1[id]], new |-> [id \in ids |-> new[id]]]
           T == [id \in TradeIds |-> IF id \in DOMAIN new THEN new[id] ELSE trades1[id]]
<1>1. call1' = [call1 EXCEPT ![t] = c] /\ trades1' = trades1 /\ now1' = now1
  BY DEF S1!Begin
<1>2. /\ DOMAIN c.old = ids /\ DOMAIN c.new = ids /\ ids \subseteq DOMAIN new
      /\ \A id \in ids : c.old[id] = trades1[id] /\ c.new[id] = new[id]
  OBVIOUS
<1>3. call1'[t] = c /\ call1' = [u \in {Alone} |-> call1'[u]] /\ \A u \in {Alone} : u = t
  BY <1>1 DEF S1Inv, S1OneThread
<1>4. S1After(t)' = T
  <2>1. \A id \in TradeIds : (IF id \in DOMAIN c.new THEN c.new[id] ELSE trades1[id]) = T[id]
    BY <1>2
  <2> QED BY <1>1, <1>3, <2>1 DEF S1After
<1>5. S1Makes(S1After(t))'
  BY <1>1, <1>4, S1MakesStays
<1> HIDE DEF c, T, ids
<1>6. S1GoodCall(t)'
  BY <1>1, <1>2, <1>3, <1>4, <1>5 DEF S1GoodCall
<1> QED BY <1>1, <1>3, <1>6 DEF S1Inv

LEMMA S1BeginOpenI ==
  ASSUME S1!BookAssumption, S1OneThread, S1Inv, NEW t \in {Alone}, NEW id \in TradeIds, NEW o \in Owners,
         NEW p \in Positions, S1!BeginOpen(t, id, o, p)
  PROVE  S1Inv'
<1> DEFINE new == [i \in {id} |-> S1!Book!NewRow(o, p)]
           T == [i \in TradeIds |-> IF i \in DOMAIN new THEN new[i] ELSE trades1[i]]
<1>1. trades1[id] = None /\ S1!Book!ActiveFor(o, p.trader) = {} /\ S1!Begin(t, new)
  BY DEF S1!BeginOpen
<1>2. S1RowLike(S1!Book!NewRow(o, p))
  BY S1NewIs
<1>3. DOMAIN new = {id} /\ new[id] = S1!Book!NewRow(o, p)
  OBVIOUS
<1>4. T = [trades1 EXCEPT ![id] = S1!Book!NewRow(o, p)]
  BY DEF S1Inv
<1>5. S1Makes(T)
  BY <1>1, <1>4 DEF S1Makes
<1> HIDE DEF new
<1> QED BY <1>1, <1>2, <1>3, <1>5, S1BeginI

LEMMA S1BeginCloseI ==
  ASSUME S1OneThread, S1Inv, NEW t \in {Alone}, NEW id \in TradeIds,
         NEW px \in MarketPrices \cup {None}, S1!BeginClose(t, id, px)
  PROVE  S1Inv'
<1> DEFINE n == S1!Closed(trades1[id], px)
           new == [i \in {id} |-> n]
           T == [i \in TradeIds |-> IF i \in DOMAIN new THEN new[i] ELSE trades1[i]]
<1>1. S1!Book!IsActive(id) /\ S1!Begin(t, new)
  BY DEF S1!BeginClose
<1>2. S1Extends(trades1[id], n) /\ S1RowLike(n)
  <2>1. S1RowLike(trades1[id])
    BY <1>1 DEF S1Inv, S1!Book!IsActive
  <2> QED BY <2>1, S1FinishExtends DEF S1!Closed, S1Extends
<1>3. DOMAIN new = {id} /\ new[id] = n
  OBVIOUS
<1>4. T = [trades1 EXCEPT ![id] = n]
  BY DEF S1Inv
<1>5. S1Makes(T)
  BY <1>1, <1>4 DEF S1Makes
<1> HIDE DEF new, n
<1> QED BY <1>1, <1>2, <1>3, <1>5, S1BeginI

LEMMA S1BeginMarkI ==
  ASSUME S1OneThread, S1Inv, NEW t \in {Alone}, NEW o \in Owners, NEW mkt \in MarketPrices,
         S1!BeginMark(t, o, mkt)
  PROVE  S1Inv'
<1> DEFINE D == {i \in TradeIds : S1!Book!Marked(i, o)}
           new == [id \in D |-> S1!Book!MarkRow(trades1[id], mkt)]
           T == [i \in TradeIds |-> IF i \in DOMAIN new THEN new[i] ELSE trades1[i]]
<1>1. S1!Begin(t, new)
  BY DEF S1!BeginMark
<1>2. ASSUME NEW id \in D PROVE S1Extends(trades1[id], new[id]) /\ S1RowLike(new[id])
  <2>1. S1RowLike(trades1[id])
    BY DEF S1Inv, S1!Book!Marked, S1!Book!IsActive
  <2> QED BY <2>1, S1MarkExtends DEF S1Extends
<1>3. DOMAIN new = D /\ D \subseteq TradeIds
  OBVIOUS
<1>4. T = [id \in TradeIds |->
             IF S1!Book!Marked(id, o) THEN S1!Book!MarkRow(trades1[id], mkt) ELSE trades1[id]]
  OBVIOUS
<1>5. S1Makes(T)
  BY <1>4 DEF S1Makes
<1> HIDE DEF new, D
<1> QED BY <1>1, <1>2, <1>3, <1>5, S1BeginI

LEMMA S1BeginManageI ==
  ASSUME S1!BookAssumption, S1OneThread, S1Inv, NEW t \in {Alone}, NEW o \in Owners,
         NEW mkt \in MarketPrices, NEW ro \in Readouts, NEW ff \in BOOLEAN,
         S1!BeginManage(t, o, mkt, ro, ff)
  PROVE  S1Inv'
<1> DEFINE D == {i \in TradeIds : S1!Book!Managed(i, o)}
           new == [id \in D |-> S1!Book!ManageRow(trades1[id], mkt, ro, ff)]
           T == [i \in TradeIds |-> IF i \in DOMAIN new THEN new[i] ELSE trades1[i]]
<1>1. S1!Begin(t, new)
  BY DEF S1!BeginManage
<1>2. ASSUME NEW id \in D PROVE S1Extends(trades1[id], new[id]) /\ S1RowLike(new[id])
  <2>1. S1RowLike(trades1[id])
    BY DEF S1Inv, S1!Book!Managed
  <2> QED BY <2>1, S1ManageExtends DEF S1Extends
<1>3. DOMAIN new = D /\ D \subseteq TradeIds
  OBVIOUS
<1>4. T = [id \in TradeIds |->
             IF S1!Book!Managed(id, o) THEN S1!Book!ManageRow(trades1[id], mkt, ro, ff) ELSE trades1[id]]
  OBVIOUS
<1>5. S1Makes(T)
  <2> HIDE DEF T
  <2>1. \E o1 \in Owners, p1 \in MarketPrices, ro1 \in Readouts, f1 \in BOOLEAN :
           T = [id \in TradeIds |->
                  IF S1!Book!Managed(id, o1) THEN S1!Book!ManageRow(trades1[id], p1, ro1, f1)
                  ELSE trades1[id]]
    BY <1>4, Zenon
  <2> QED BY <2>1 DEF S1Makes
<1> HIDE DEF new, D
<1> QED BY <1>1, <1>2, <1>3, <1>5, S1BeginI

\* A thread alone writes what it has made, and nothing but that.
LEMMA S1CommitIs ==
  ASSUME S1Inv, NEW t \in {Alone}, S1!Commit(t)
  PROVE  trades1' = S1After(t) /\ S1Makes(S1After(t))
<1> DEFINE c == call1[t]
<1>1. /\ DOMAIN c.new \subseteq TradeIds /\ S1Makes(S1After(t))
      /\ \A id \in DOMAIN c.new : /\ c.old[id] = trades1[id]
                                  /\ trades1[id] # None => S1Extends(trades1[id], c.new[id])
  BY DEF S1Inv, S1GoodCall, S1!Commit
<1>2. ASSUME NEW id \in DOMAIN c.new
      PROVE  S1!Written(trades1[id], c.old[id], c.new[id]) = c.new[id]
  <2>1. CASE trades1[id] = None
    BY <1>1, <2>1 DEF S1!Written
  <2>2. CASE trades1[id] # None
    BY <1>1, <2>2, S1WrittenIs
  <2> QED BY <2>1, <2>2
<1>3. trades1' = S1After(t)
  BY <1>2 DEF S1!Commit, S1After
<1> QED BY <1>1, <1>3

LEMMA S1NoneLeft ==
  ASSUME S1OneThread, S1Inv, NEW t \in {Alone}, call1' = [call1 EXCEPT ![t] = S1!NoCall],
         trades1' = [id \in TradeIds |-> trades1'[id]],
         \A id \in TradeIds : trades1'[id] # None => S1RowLike(trades1'[id])
  PROVE  S1Inv'
<1>1. call1' = [u \in {Alone} |-> S1!NoCall]
  BY DEF S1Inv, S1OneThread
<1>2. DOMAIN S1!NoCall.old = {} /\ DOMAIN S1!NoCall.new = {}
  BY DEF S1!NoCall
<1>3. \A u \in {Alone} : call1'[u] = S1!NoCall
  BY <1>1
<1>4. \A u \in {Alone} : S1GoodCall(u)'
  BY <1>2, <1>3 DEF S1GoodCall, S1!InCall
<1>5. call1' = [u \in {Alone} |-> call1'[u]]
  BY <1>1
<1> QED BY <1>4, <1>5 DEF S1Inv

LEMMA S1StepI ==
  ASSUME S1!BookAssumption, S1OneThread
  PROVE  S1Inv /\ [S1!Next]_(S1!vars) => S1Inv'
<1> SUFFICES ASSUME S1Inv, [S1!Next]_(S1!vars) PROVE S1Inv'
  OBVIOUS
<1>1. ASSUME NEW t \in {Alone}, S1!Commit(t) PROVE S1Inv'
  <2>1. trades1' = S1After(t) /\ call1' = [call1 EXCEPT ![t] = S1!NoCall]
    BY <1>1, S1CommitIs DEF S1!Commit
  <2>2. \A id \in DOMAIN call1[t].new : S1RowLike(call1[t].new[id])
    BY <1>1 DEF S1Inv, S1GoodCall, S1!Commit
  <2>3. trades1' = [id \in TradeIds |-> trades1'[id]]
    BY <2>1 DEF S1After
  <2>4. \A id \in TradeIds : trades1'[id] # None => S1RowLike(trades1'[id])
    BY <2>1, <2>2 DEF S1After, S1Inv
  <2> QED BY <2>1, <2>3, <2>4, S1NoneLeft
<1>2. ASSUME NEW t \in {Alone}, S1!Lost(t) PROVE S1Inv'
  <2>1. trades1' = trades1 /\ call1' = [call1 EXCEPT ![t] = S1!NoCall]
    BY <1>2 DEF S1!Lost
  <2> QED BY <2>1, S1NoneLeft DEF S1Inv
<1>3. CASE S1!Tick
  <2>1. trades1' = trades1 /\ call1' = call1 /\ \A t \in {Alone} : ~S1!InCall(t)
    BY <1>3 DEF S1!Tick
  <2>2. \A t \in {Alone} : S1GoodCall(t)'
    BY <2>1 DEF S1Inv, S1GoodCall, S1!InCall
  <2> QED BY <2>1, <2>2 DEF S1Inv
<1>4. CASE UNCHANGED S1!vars
  <2>1. trades1' = trades1 /\ call1' = call1 /\ now1' = now1
    BY <1>4 DEF S1!vars
  <2>2. ASSUME NEW t \in {Alone} PROVE S1GoodCall(t)'
    <3>1. S1After(t)' = S1After(t)
      BY <2>1 DEF S1After
    <3>2. S1!InCall(t) => S1Makes(S1After(t))'
      BY <2>1, <3>1, S1MakesStays DEF S1Inv, S1GoodCall
    <3> QED BY <2>1, <3>2 DEF S1Inv, S1GoodCall, S1!InCall
  <2> QED BY <2>1, <2>2 DEF S1Inv
<1> QED
  BY <1>1, <1>2, <1>3, <1>4, S1BeginOpenI, S1BeginCloseI, S1BeginMarkI, S1BeginManageI DEF S1!Next

LEMMA S1Implements == S1Inv /\ [S1!Next]_(S1!vars) => [S1!Book!Next]_(S1!Book!vars)
<1> SUFFICES ASSUME S1Inv, [S1!Next]_(S1!vars) PROVE [S1!Book!Next]_(S1!Book!vars)
  OBVIOUS
<1>1. ASSUME NEW t \in {Alone}, S1!Commit(t) PROVE S1!Book!Next
  BY <1>1, S1CommitIs, S1MakesIs DEF S1!Commit
<1>2. ASSUME trades1' = trades1, now1' = now1 PROVE [S1!Book!Next]_(S1!Book!vars)
  BY <1>2 DEF S1!Book!vars
<1>3. ASSUME S1!Tick PROVE S1!Book!Next
  BY <1>3 DEF S1!Tick, S1!Book!Next, S1!Book!Tick
<1>4. ASSUME NEW t \in {Alone}, S1!Lost(t) PROVE trades1' = trades1 /\ now1' = now1
  BY <1>4 DEF S1!Lost
<1>5. ASSUME NEW t \in {Alone}, NEW new, S1!Begin(t, new) PROVE trades1' = trades1 /\ now1' = now1
  BY <1>5 DEF S1!Begin
<1>6. \/ trades1' = trades1 /\ now1' = now1
      \/ \E t \in {Alone} : S1!Commit(t)
      \/ S1!Tick
  BY <1>4, <1>5 DEF S1!Next, S1!vars, S1!BeginOpen, S1!BeginClose, S1!BeginMark, S1!BeginManage
<1> QED BY <1>1, <1>2, <1>3, <1>6

-----------------------------------------------------------------------------
\* SqliteBook, several threads: a call has read rows that were active.

\* A call has read rows of the book that were active, or the place of a row that
\* nobody else is about to write.
S2CallShape ==
  /\ call2 \in [Callers -> {call2[t] : t \in Callers}]
  /\ \A t \in Callers : /\ DOMAIN call2[t].old = DOMAIN call2[t].new
                        /\ DOMAIN call2[t].new \subseteq TradeIds
S2BookShape == trades2 = [id \in TradeIds |-> trades2[id]]
S2ReadActive ==
  \A t \in Callers : \A id \in DOMAIN call2[t].old :
    \/ call2[t].old[id] # None /\ call2[t].old[id].status # "closed"
    \/ /\ trades2[id] = None
       /\ \A u \in Callers \ {t} : id \notin DOMAIN call2[u].new

S2FInv == S2BookShape /\ S2CallShape /\ S2ReadActive

LEMMA S2InitF == S2!Init => S2FInv
<1> SUFFICES ASSUME S2!Init PROVE S2FInv
  OBVIOUS
<1>1. \A t \in Callers : call2[t] = S2!NoCall
  BY DEF S2!Init
<1>2. DOMAIN S2!NoCall.old = {} /\ DOMAIN S2!NoCall.new = {}
  BY DEF S2!NoCall
<1>3. trades2 = [id \in TradeIds |-> None]
  BY DEF S2!Init, S2!Book!Init
<1>4. call2 = [t \in Callers |-> S2!NoCall]
  BY DEF S2!Init
<1> QED BY <1>1, <1>2, <1>3, <1>4 DEF S2FInv, S2BookShape, S2CallShape, S2ReadActive

\* A call begins with rows it found active.
LEMMA S2BeginF ==
  ASSUME S2FInv, NEW t \in Callers, NEW new, S2!Begin(t, new), DOMAIN new \subseteq TradeIds,
         \A id \in DOMAIN new :
           \/ trades2[id] # None /\ trades2[id].status # "closed"
           \/ trades2[id] = None /\ \A u \in Callers \ {t} : id \notin DOMAIN call2[u].new
  PROVE  S2FInv'
<1> DEFINE ids == {id \in DOMAIN new : new[id] # trades2[id]}
           c == [old |-> [id \in ids |-> trades2[id]], new |-> [id \in ids |-> new[id]]]
<1>1. ~S2!InCall(t) /\ call2' = [call2 EXCEPT ![t] = c] /\ UNCHANGED <<trades2, now2>>
  BY DEF S2!Begin
<1>2. /\ DOMAIN c.old = ids /\ DOMAIN c.new = ids /\ ids \subseteq DOMAIN new
      /\ \A id \in ids : c.old[id] = trades2[id]
  OBVIOUS
<1> HIDE DEF c, ids
<1>3. /\ \A u \in Callers \ {t} : call2'[u] = call2[u]
      /\ call2'[t] = c /\ DOMAIN call2' = Callers
  BY <1>1 DEF S2FInv, S2CallShape
<1>4. S2BookShape' /\ S2CallShape'
  <2>1. call2' = [u \in Callers |-> call2'[u]]
    BY <1>1 DEF S2FInv, S2CallShape
  <2> QED BY <1>1, <1>2, <1>3, <2>1 DEF S2FInv, S2BookShape, S2CallShape
<1>5. S2ReadActive'
  <2> SUFFICES ASSUME NEW u \in Callers, NEW id \in DOMAIN call2'[u].old
               PROVE  \/ call2'[u].old[id] # None /\ call2'[u].old[id].status # "closed"
                      \/ /\ trades2'[id] = None
                         /\ \A v \in Callers \ {u} : id \notin DOMAIN call2'[v].new
    BY DEF S2ReadActive
  <2>1. CASE u = t
    BY <1>1, <1>2, <1>3, <2>1
  <2>2. CASE u # t
    <3>1. id \in DOMAIN call2[u].new /\ call2'[u] = call2[u]
      BY <1>3, <2>2 DEF S2FInv, S2CallShape
    <3>2. CASE call2[u].old[id] # None /\ call2[u].old[id].status # "closed"
      BY <3>1, <3>2
    <3>3. CASE /\ trades2[id] = None
               /\ \A v \in Callers \ {u} : id \notin DOMAIN call2[v].new
      <4>1. id \notin DOMAIN c.new
        BY <1>2, <2>2, <3>1, <3>3
      <4> QED BY <1>1, <1>3, <3>3, <4>1, <2>2
    <3> QED BY <1>3, <2>2, <3>1, <3>2, <3>3 DEF S2FInv, S2ReadActive
  <2> QED BY <2>1, <2>2
<1> QED BY <1>4, <1>5 DEF S2FInv

\* Whatever a call is, of the five it can be.
LEMMA S2CallsF == ASSUME S2FInv, NEW t \in Callers,
    \/ \E id \in TradeIds, o \in Owners, p \in Positions : S2!BeginOpen(t, id, o, p)
    \/ \E id \in TradeIds, px \in SharedPrices \cup {None} : S2!BeginClose(t, id, px)
    \/ \E o \in Owners, mkt \in SharedPrices : S2!BeginMark(t, o, mkt)
    \/ \E o \in Owners, mkt \in SharedPrices, ro \in Readouts, ff \in BOOLEAN :
            S2!BeginManage(t, o, mkt, ro, ff)
  PROVE S2FInv'
<1>1. ASSUME NEW id \in TradeIds, NEW o \in Owners, NEW p \in Positions, S2!BeginOpen(t, id, o, p)
      PROVE  S2FInv'
  <2> DEFINE new == [i \in {id} |-> S2!Book!NewRow(o, p)]
  <2>1. S2!Begin(t, new) /\ DOMAIN new = {id}
    BY <1>1 DEF S2!BeginOpen
  <2>2. trades2[id] = None /\ \A u \in Callers : id \notin DOMAIN call2[u].new
    BY <1>1 DEF S2!BeginOpen
  <2> HIDE DEF new
  <2> QED BY <2>1, <2>2, S2BeginF
<1>2. ASSUME NEW id \in TradeIds, NEW px \in SharedPrices \cup {None}, S2!BeginClose(t, id, px)
      PROVE  S2FInv'
  <2> DEFINE new == [i \in {id} |-> S2!Closed(trades2[id], px)]
  <2>1. S2!Begin(t, new) /\ DOMAIN new = {id}
    BY <1>2 DEF S2!BeginClose
  <2>2. trades2[id] # None /\ trades2[id].status # "closed"
    BY <1>2 DEF S2!BeginClose, S2!Book!IsActive, S2!Book!Active
  <2> HIDE DEF new
  <2> QED BY <2>1, <2>2, S2BeginF
<1>3. ASSUME NEW o \in Owners, NEW mkt \in SharedPrices, S2!BeginMark(t, o, mkt) PROVE S2FInv'
  <2> DEFINE new == [id \in {i \in TradeIds : S2!Book!Marked(i, o)} |-> S2!Book!MarkRow(trades2[id], mkt)]
  <2>1. S2!Begin(t, new) /\ DOMAIN new \subseteq TradeIds
    BY <1>3 DEF S2!BeginMark
  <2>2. \A id \in DOMAIN new : trades2[id] # None /\ trades2[id].status # "closed"
    BY DEF S2!Book!Marked, S2!Book!IsActive, S2!Book!Active
  <2> HIDE DEF new
  <2> QED BY <2>1, <2>2, S2BeginF
<1>4. ASSUME NEW o \in Owners, NEW mkt \in SharedPrices, NEW ro \in Readouts, NEW ff \in BOOLEAN,
             S2!BeginManage(t, o, mkt, ro, ff)
      PROVE S2FInv'
  <2> DEFINE new == [id \in {i \in TradeIds : S2!Book!Managed(i, o)} |->
                       S2!Book!ManageRow(trades2[id], mkt, ro, ff)]
  <2>1. S2!Begin(t, new) /\ DOMAIN new \subseteq TradeIds
    BY <1>4 DEF S2!BeginManage
  <2>2. \A id \in DOMAIN new : trades2[id] # None /\ trades2[id].status # "closed"
    BY DEF S2!Book!Managed
  <2> HIDE DEF new
  <2> QED BY <2>1, <2>2, S2BeginF
<1> QED BY <1>1, <1>2, <1>3, <1>4

LEMMA S2EndF == ASSUME S2FInv, NEW t \in Callers, S2!Commit(t) \/ S2!Lost(t) PROVE S2FInv'
<1>1. /\ call2' = [call2 EXCEPT ![t] = S2!NoCall]
      /\ \A id \in TradeIds : id \notin DOMAIN call2[t].new => trades2'[id] = trades2[id]
      /\ trades2' = [id \in TradeIds |-> trades2'[id]]
  BY DEF S2!Commit, S2!Lost, S2FInv, S2BookShape
<1>2. DOMAIN S2!NoCall.old = {} /\ DOMAIN S2!NoCall.new = {}
  BY DEF S2!NoCall
<1>3. /\ \A u \in Callers \ {t} : call2'[u] = call2[u]
      /\ call2'[t] = S2!NoCall /\ call2' = [u \in Callers |-> call2'[u]]
  BY <1>1 DEF S2FInv, S2CallShape
<1>4. S2BookShape' /\ S2CallShape'
  BY <1>1, <1>2, <1>3 DEF S2FInv, S2BookShape, S2CallShape
<1>5. S2ReadActive'
  <2> SUFFICES ASSUME NEW u \in Callers, NEW id \in DOMAIN call2'[u].old
               PROVE  \/ call2'[u].old[id] # None /\ call2'[u].old[id].status # "closed"
                      \/ /\ trades2'[id] = None
                         /\ \A v \in Callers \ {u} : id \notin DOMAIN call2'[v].new
    BY DEF S2ReadActive
  <2>1. u # t /\ call2'[u] = call2[u]
    BY <1>2, <1>3
  <2>2. id \in TradeIds
    BY <2>1 DEF S2FInv, S2CallShape
  <2>3. CASE call2[u].old[id] # None /\ call2[u].old[id].status # "closed"
    BY <2>1, <2>3
  <2>4. CASE trades2[id] = None /\ \A v \in Callers \ {u} : id \notin DOMAIN call2[v].new
    BY <1>1, <1>2, <1>3, <2>1, <2>2, <2>4
  <2> QED BY <2>1, <2>3, <2>4 DEF S2FInv, S2ReadActive
<1> QED BY <1>4, <1>5 DEF S2FInv

LEMMA S2StepF == S2FInv /\ [S2!Next]_(S2!vars) => S2FInv'
<1>1. CASE UNCHANGED <<trades2, call2>>
  BY <1>1 DEF S2FInv, S2BookShape, S2CallShape, S2ReadActive
<1> QED BY <1>1, S2CallsF, S2EndF DEF S2!Next, S2!Tick, S2!vars

LEMMA S2FinalF ==
  ASSUME S2FInv, [S2!Next]_(S2!vars), NEW id \in S2!Book!Rows,
         trades2[id].status = "closed", trades2'[id] # trades2[id]
  PROVE  \E t \in Callers : id \in DOMAIN call2[t].old /\ call2[t].old[id].status # "closed"
<1>1. PICK t \in Callers : S2!Commit(t)
  <2>1. ~S2!Tick /\ ~UNCHANGED S2!vars /\ \A t \in Callers : ~S2!Lost(t)
    BY DEF S2!Tick, S2!vars, S2!Lost
  <2>2. \A t \in Callers : \A new : ~S2!Begin(t, new)
    BY DEF S2!Begin
  <2> QED BY <2>1, <2>2 DEF S2!Next, S2!BeginOpen, S2!BeginClose, S2!BeginMark, S2!BeginManage
<1>2. id \in DOMAIN call2[t].new /\ trades2[id] # None
  BY <1>1 DEF S2!Commit, S2!Book!Rows
<1> QED BY <1>2 DEF S2FInv, S2CallShape, S2ReadActive

-----------------------------------------------------------------------------
\* LegacyImport: what an import has ready is apart from what is there.

LITradeRows == [id : {t.id : t \in OldTrades} \cup {NewId}, key : {t.key : t \in OldTrades}, active : BOOLEAN]
LIJobs == [at : {"idle", "trades", "papers", "lists", "count"}, known : SUBSET ({t.id : t \in OldTrades} \cup {NewId}),
         trades : SUBSET OldTrades, papers : SUBSET LI!Sources, lists : SUBSET OldLists]

LIShape ==
  /\ tradesLI \in SUBSET LITradeRows /\ IsFiniteSet(tradesLI)
  /\ papers \in SUBSET LI!Sources /\ lists \in SUBSET OldLists /\ removed \in SUBSET OldLists
  /\ count \in {LI!Absent} \cup 0..MaxCount
  /\ imported \in BOOLEAN
  /\ job \in [Callers -> LIJobs]

\* No two rows, written or waiting to be, are one another's clash.
LIDistinct(rows) ==
  \A s, t \in rows : s.id = t.id \/ (s.active /\ t.active /\ s.key = t.key) => s = t
LIRowsApart ==
  /\ LIDistinct(tradesLI)
  /\ \A i \in Callers : \A s \in job[i].trades :
       /\ \A t \in tradesLI : s.id # t.id /\ ~(s.active /\ t.active /\ s.key = t.key)
       /\ \A k \in Callers \ {i} : \A t \in job[k].trades :
            s.id # t.id /\ ~(s.active /\ t.active /\ s.key = t.key)
       /\ \A t \in job[i].trades : s.active /\ t.active /\ s.key = t.key => s = t
LIPapersApart ==
  \A i \in Callers :
    /\ job[i].papers \cap papers = {}
    /\ \A k \in Callers \ {i} : job[i].papers \cap job[k].papers = {}

\* An import has whatever is not there yet.
LIComplete ==
  \A i \in Callers :
    /\ job[i].at # "idle" => job[i].known \subseteq LI!IdsOf(tradesLI)
    /\ job[i].at \in {"idle", "trades"} => job[i].trades = {}
    /\ job[i].at \in {"idle", "trades", "papers"} => job[i].papers = {}
    /\ job[i].at \in {"papers", "lists", "count"} =>
         LI!IdsOf(OldTrades) \subseteq job[i].known \cup LI!IdsOf(job[i].trades)
    /\ job[i].at \in {"lists", "count"} => LI!Sources \subseteq papers \cup job[i].papers
    /\ job[i].at = "count" => OldLists \subseteq lists \cup job[i].lists \cup removed
LITaken ==
  imported =>
    /\ LI!IdsOf(OldTrades) \subseteq LI!IdsOf(tradesLI)
    /\ LI!Sources \subseteq papers
    /\ OldLists \subseteq lists \cup removed
    /\ count >= OldCount

LIInv == LIShape /\ LIRowsApart /\ LIPapersApart /\ LIComplete /\ LITaken

LEMMA LIInitI == LI!FilesAssumption /\ LI!Init => LIInv
<1> SUFFICES ASSUME LI!FilesAssumption, LI!Init PROVE LIInv
  OBVIOUS
<1>1. LI!Idle \in LIJobs
  BY DEF LI!Idle, LIJobs
<1>2. LIShape
  BY <1>1, FS_EmptySet DEF LI!Init, LIShape, LI!FilesAssumption
<1>3. \A i \in Callers : job[i] = LI!Idle
  BY DEF LI!Init
<1>4. LIRowsApart /\ LIPapersApart /\ LIComplete /\ LITaken
  BY <1>3 DEF LI!Init, LIRowsApart, LIPapersApart, LIComplete, LITaken, LI!Idle, LIDistinct
<1> QED BY <1>2, <1>4 DEF LIInv

\* A job starts again.
LEMMA LIFailI == ASSUME LI!FilesAssumption, LIInv, NEW i \in Callers, LI!Fail(i) PROVE LIInv'
<1>1. /\ \A k \in Callers \ {i} : job'[k] = job[k]
      /\ job'[i] = LI!Idle /\ job' \in [Callers -> LIJobs]
      /\ LI!Tables' = LI!Tables
  BY DEF LI!Fail, LI!Become, LIInv, LIShape, LIJobs, LI!Idle
<1>2. LI!Idle.trades = {} /\ LI!Idle.papers = {} /\ LI!Idle.at = "idle"
  BY DEF LI!Idle
<1>3. LIShape'
  BY <1>1 DEF LIInv, LIShape, LI!Tables
<1>4. LIRowsApart'
  BY <1>1, <1>2 DEF LIInv, LIRowsApart, LI!Tables
<1>5. LIPapersApart'
  BY <1>1, <1>2 DEF LIInv, LIPapersApart, LI!Tables
<1>6. LIComplete'
  BY <1>1, <1>2 DEF LIInv, LIComplete, LI!Tables, LI!IdsOf
<1>7. LITaken'
  BY <1>1 DEF LIInv, LITaken, LI!Tables, LI!IdsOf
<1> QED BY <1>3, <1>4, <1>5, <1>6, <1>7 DEF LIInv

LEMMA LIBeginI == ASSUME LI!FilesAssumption, LIInv, NEW i \in Callers, LI!Begin(i) PROVE LIInv'
<1> DEFINE b == [LI!Idle EXCEPT !.at = "trades", !.known = LI!IdsOf(tradesLI)]
<1>0. LI!IdsOf(tradesLI) \in SUBSET ({t.id : t \in OldTrades} \cup {NewId})
  BY DEF LIInv, LIShape, LI!IdsOf, LITradeRows
<1>1. b.trades = {} /\ b.papers = {} /\ b.at = "trades" /\ b.known = LI!IdsOf(tradesLI) /\ b \in LIJobs
  <2>1. LI!Idle \in LIJobs /\ LI!Idle.trades = {} /\ LI!Idle.papers = {}
    BY DEF LI!Idle, LIJobs
  <2> QED BY <1>0, <2>1 DEF LIJobs
<1>2. /\ \A k \in Callers \ {i} : job'[k] = job[k]
      /\ job'[i] = b /\ job' \in [Callers -> LIJobs]
      /\ LI!Tables' = LI!Tables
  BY <1>1 DEF LI!Begin, LI!Become, LIInv, LIShape
<1> HIDE DEF b
<1>3. LIShape'
  BY <1>2 DEF LIInv, LIShape, LI!Tables
<1>4. LIRowsApart'
  BY <1>1, <1>2 DEF LIInv, LIRowsApart, LI!Tables
<1>5. LIPapersApart'
  BY <1>1, <1>2 DEF LIInv, LIPapersApart, LI!Tables
<1>6. LIComplete'
  BY <1>1, <1>2 DEF LIInv, LIComplete, LI!Tables, LI!IdsOf
<1>7. LITaken'
  BY <1>2 DEF LIInv, LITaken, LI!Tables, LI!IdsOf
<1> QED BY <1>3, <1>4, <1>5, <1>6, <1>7 DEF LIInv

LEMMA LIInsertTradesI ==
  ASSUME LI!FilesAssumption, LIInv, NEW i \in Callers, LI!InsertTrades(i)
  PROVE  LIInv'
<1> DEFINE new == {t \in OldTrades : t.id \notin job[i].known}
           b == [job[i] EXCEPT !.at = "papers", !.trades = new]
<1>0. CASE LI!Fail(i)
  BY <1>0, LIFailI
<1>1. CASE ~LI!Fail(i)
  <2>1. /\ job[i].at = "trades"
        /\ job' = [job EXCEPT ![i] = b] /\ LI!Tables' = LI!Tables
        /\ ~LI!TwiceActive(new)
    BY <1>1 DEF LI!InsertTrades, LI!Become
  <2>2. /\ LI!IdsOf(new) \cap LI!IdsOf(tradesLI) = {} /\ LI!ActiveKeys(new) \cap LI!ActiveKeys(tradesLI) = {}
        /\ \A k \in Callers \ {i} : /\ LI!IdsOf(new) \cap LI!IdsOf(job[k].trades) = {}
                                    /\ LI!ActiveKeys(new) \cap LI!ActiveKeys(job[k].trades) = {}
    BY <1>1 DEF LI!InsertTrades
  <2>3. /\ job[i] \in LIJobs /\ b \in LIJobs /\ b.trades = new /\ b.papers = job[i].papers
        /\ b.at = "papers" /\ b.known = job[i].known
    BY DEF LIJobs, LIInv, LIShape
  <2> HIDE DEF b
  <2>4. /\ \A k \in Callers \ {i} : job'[k] = job[k]
        /\ job'[i] = b /\ job' \in [Callers -> LIJobs]
    BY <2>1, <2>3 DEF LIInv, LIShape
  <2>5. LIShape'
    BY <2>1, <2>4 DEF LIInv, LIShape, LI!Tables
  <2>6. \A s \in new, t \in new : s.active /\ t.active /\ s.key = t.key => s = t
    BY <2>1 DEF LI!TwiceActive
  <2>7. \A s \in new :
          /\ \A t \in tradesLI : s.id # t.id /\ ~(s.active /\ t.active /\ s.key = t.key)
          /\ \A k \in Callers \ {i} : \A t \in job[k].trades :
               s.id # t.id /\ ~(s.active /\ t.active /\ s.key = t.key)
    BY <2>2 DEF LI!IdsOf, LI!ActiveKeys
  <2> HIDE DEF new
  <2>8. LIRowsApart'
    <3>1. ASSUME NEW j \in Callers, NEW s \in job'[j].trades
          PROVE  /\ \A t \in tradesLI' : s.id # t.id /\ ~(s.active /\ t.active /\ s.key = t.key)
                 /\ \A k \in Callers \ {j} : \A t \in job'[k].trades :
                      s.id # t.id /\ ~(s.active /\ t.active /\ s.key = t.key)
                 /\ \A t \in job'[j].trades : s.active /\ t.active /\ s.key = t.key => s = t
      <4>1. CASE j = i
        BY <2>1, <2>3, <2>4, <2>6, <2>7, <3>1, <4>1 DEF LI!Tables
      <4>2. CASE j # i
        BY <2>1, <2>3, <2>4, <2>7, <3>1, <4>2 DEF LI!Tables, LIInv, LIRowsApart
      <4> QED BY <4>1, <4>2
    <3> QED BY <2>1, <3>1 DEF LIRowsApart, LIInv, LI!Tables
  <2>9. LIPapersApart'
    BY <2>1, <2>3, <2>4 DEF LIInv, LIPapersApart, LI!Tables
  <2>10. LI!IdsOf(OldTrades) \subseteq job[i].known \cup LI!IdsOf(new)
    BY DEF LI!IdsOf, new
  <2>11. LIComplete'
    BY <2>1, <2>3, <2>4, <2>10 DEF LIInv, LIComplete, LI!Tables
  <2>12. LITaken'
    BY <2>1 DEF LIInv, LITaken, LI!Tables
  <2> QED BY <2>5, <2>8, <2>9, <2>11, <2>12 DEF LIInv
<1> QED BY <1>0, <1>1

LEMMA LIInsertPapersI ==
  ASSUME LI!FilesAssumption, LIInv, NEW i \in Callers, LI!InsertPapers(i)
  PROVE  LIInv'
<1> DEFINE new == LI!Sources \ papers
           b == [job[i] EXCEPT !.at = "lists", !.papers = new]
<1>1. /\ job[i].at = "papers"
      /\ job' = [job EXCEPT ![i] = b] /\ LI!Tables' = LI!Tables
      /\ \A k \in Callers \ {i} : job[k].papers \cap new = {}
  BY DEF LI!InsertPapers, LI!Become
<1>2. /\ job[i] \in LIJobs /\ b \in LIJobs /\ b.trades = job[i].trades /\ b.papers = new
      /\ b.at = "lists" /\ b.known = job[i].known
  BY DEF LIJobs, LIInv, LIShape
<1>3. new \cap papers = {} /\ LI!Sources \subseteq papers \cup new
  OBVIOUS
<1> HIDE DEF b, new
<1>4. /\ \A k \in Callers \ {i} : job'[k] = job[k]
      /\ job'[i] = b /\ job' \in [Callers -> LIJobs]
  BY <1>1, <1>2 DEF LIInv, LIShape
<1>5. LIShape'
  BY <1>1, <1>4 DEF LIInv, LIShape, LI!Tables
<1>6. LIRowsApart'
  BY <1>1, <1>2, <1>4 DEF LIInv, LIRowsApart, LI!Tables
<1>7. LIPapersApart'
  BY <1>1, <1>2, <1>3, <1>4 DEF LIInv, LIPapersApart, LI!Tables
<1>8. LIComplete'
  BY <1>1, <1>2, <1>3, <1>4 DEF LIInv, LIComplete, LI!Tables
<1>9. LITaken'
  BY <1>1 DEF LIInv, LITaken, LI!Tables
<1> QED BY <1>5, <1>6, <1>7, <1>8, <1>9 DEF LIInv

LEMMA LIInsertListsI ==
  ASSUME LI!FilesAssumption, LIInv, NEW i \in Callers, LI!InsertLists(i)
  PROVE  LIInv'
<1> DEFINE new == OldLists \ lists
           b == [job[i] EXCEPT !.at = "count", !.lists = new]
<1>1. /\ job[i].at = "lists"
      /\ job' = [job EXCEPT ![i] = b] /\ LI!Tables' = LI!Tables
  BY DEF LI!InsertLists, LI!Become
<1>2. /\ job[i] \in LIJobs /\ b \in LIJobs /\ b.trades = job[i].trades /\ b.papers = job[i].papers
      /\ b.at = "count" /\ b.known = job[i].known /\ b.lists = new
  BY DEF LIJobs, LIInv, LIShape
<1>3. OldLists \subseteq lists \cup new
  OBVIOUS
<1> HIDE DEF b, new
<1>4. /\ \A k \in Callers \ {i} : job'[k] = job[k]
      /\ job'[i] = b /\ job' \in [Callers -> LIJobs]
  BY <1>1, <1>2 DEF LIInv, LIShape
<1>5. LIShape'
  BY <1>1, <1>4 DEF LIInv, LIShape, LI!Tables
<1>6. LIRowsApart'
  BY <1>1, <1>2, <1>4 DEF LIInv, LIRowsApart, LI!Tables
<1>7. LIPapersApart'
  BY <1>1, <1>2, <1>4 DEF LIInv, LIPapersApart, LI!Tables
<1>8. LIComplete'
  BY <1>1, <1>2, <1>3, <1>4 DEF LIInv, LIComplete, LI!Tables
<1>9. LITaken'
  BY <1>1 DEF LIInv, LITaken, LI!Tables
<1> QED BY <1>5, <1>6, <1>7, <1>8, <1>9 DEF LIInv

LEMMA LICommitI == ASSUME LI!FilesAssumption, LIInv, NEW i \in Callers, LI!Commit(i) PROVE LIInv'
<1> DEFINE me == job[i]
<1>1. /\ me.at = "count"
      /\ tradesLI' = tradesLI \cup me.trades /\ papers' = papers \cup me.papers
      /\ lists' = lists \cup me.lists /\ count' = LI!Larger(count, OldCount)
      /\ imported' = TRUE /\ removed' = removed \ me.lists
      /\ job' = [job EXCEPT ![i] = LI!Idle]
  BY DEF LI!Commit, LI!Become
<1>2. LI!Idle \in LIJobs /\ LI!Idle.trades = {} /\ LI!Idle.papers = {} /\ LI!Idle.at = "idle"
  BY DEF LI!Idle, LIJobs
<1>3. /\ \A k \in Callers \ {i} : job'[k] = job[k]
      /\ job'[i] = LI!Idle /\ job' \in [Callers -> LIJobs]
  BY <1>1, <1>2 DEF LIInv, LIShape
<1>4. /\ me.trades \in SUBSET OldTrades /\ me.papers \in SUBSET LI!Sources /\ me.lists \in SUBSET OldLists
  BY DEF LIInv, LIShape, LIJobs
<1>5. OldTrades \subseteq LITradeRows
  <2> SUFFICES ASSUME NEW t \in OldTrades PROVE t \in LITradeRows
    OBVIOUS
  <2>1. t = [id |-> t.id, key |-> t.key, active |-> t.active] /\ t.active \in BOOLEAN
    BY DEF LI!FilesAssumption
  <2>2. t.id \in {r.id : r \in OldTrades} \cup {NewId} /\ t.key \in {r.key : r \in OldTrades}
    OBVIOUS
  <2>3. [id |-> t.id, key |-> t.key, active |-> t.active] \in LITradeRows
    BY <2>1, <2>2 DEF LITradeRows
  <2> QED BY <2>1, <2>3
<1>6. IsFiniteSet(tradesLI \cup me.trades)
  <2>1. IsFiniteSet(me.trades)
    BY <1>4, SameFiniteSets, FS_Subset DEF LI!FilesAssumption
  <2> QED BY <2>1, FS_Union DEF LIInv, LIShape
<1>7. LI!Larger(count, OldCount) \in {LI!Absent} \cup 0..MaxCount /\ LI!Larger(count, OldCount) >= OldCount
  BY DEF LI!Larger, LIInv, LIShape, LI!FilesAssumption, LI!Absent
<1>8. LIShape'
  BY <1>1, <1>3, <1>4, <1>5, <1>6, <1>7 DEF LIInv, LIShape
<1>9. LIRowsApart'
  <2>1. LIDistinct(tradesLI \cup me.trades)
    <3> SUFFICES ASSUME NEW s \in tradesLI \cup me.trades, NEW t \in tradesLI \cup me.trades,
                        s.id = t.id \/ (s.active /\ t.active /\ s.key = t.key)
                 PROVE  s = t
      BY DEF LIDistinct
    <3>1. CASE s \in me.trades /\ t \in me.trades
      <4>1. s.id = t.id => s = t
        BY <1>4, <3>1 DEF LI!FilesAssumption
      <4> QED BY <3>1, <4>1 DEF LIInv, LIRowsApart
    <3>2. CASE s \in tradesLI /\ t \in tradesLI
      BY <3>2 DEF LIInv, LIRowsApart, LIDistinct
    <3>3. CASE (s \in me.trades /\ t \in tradesLI) \/ (t \in me.trades /\ s \in tradesLI)
      BY <3>3 DEF LIInv, LIRowsApart
    <3> QED BY <3>1, <3>2, <3>3
  <2>2. ASSUME NEW j \in Callers, NEW s \in job'[j].trades
        PROVE  /\ \A t \in tradesLI' : s.id # t.id /\ ~(s.active /\ t.active /\ s.key = t.key)
               /\ \A k \in Callers \ {j} : \A t \in job'[k].trades :
                    s.id # t.id /\ ~(s.active /\ t.active /\ s.key = t.key)
               /\ \A t \in job'[j].trades : s.active /\ t.active /\ s.key = t.key => s = t
    <3>1. j # i
      BY <1>2, <1>3, <2>2
    <3>2. job'[j] = job[j]
      BY <1>3, <3>1
    <3>3. \A t \in tradesLI' : s.id # t.id /\ ~(s.active /\ t.active /\ s.key = t.key)
      BY <1>1, <3>1, <3>2, <2>2 DEF LIInv, LIRowsApart
    <3>4. \A k \in Callers \ {j} : \A t \in job'[k].trades :
                    s.id # t.id /\ ~(s.active /\ t.active /\ s.key = t.key)
      BY <1>2, <1>3, <3>1, <3>2, <2>2 DEF LIInv, LIRowsApart
    <3> QED BY <3>2, <3>3, <3>4, <2>2 DEF LIInv, LIRowsApart
  <2> QED BY <1>1, <2>1, <2>2 DEF LIRowsApart
<1>10. LIPapersApart'
  BY <1>1, <1>2, <1>3 DEF LIInv, LIPapersApart
<1>11. LI!IdsOf(tradesLI') = LI!IdsOf(tradesLI) \cup LI!IdsOf(me.trades)
  BY <1>1 DEF LI!IdsOf
<1>12. LIComplete'
  <2> SUFFICES ASSUME NEW j \in Callers
               PROVE
    /\ job'[j].at # "idle" => job'[j].known \subseteq LI!IdsOf(tradesLI')
    /\ job'[j].at \in {"idle", "trades"} => job'[j].trades = {}
    /\ job'[j].at \in {"idle", "trades", "papers"} => job'[j].papers = {}
    /\ job'[j].at \in {"papers", "lists", "count"} =>
         LI!IdsOf(OldTrades) \subseteq job'[j].known \cup LI!IdsOf(job'[j].trades)
    /\ job'[j].at \in {"lists", "count"} => LI!Sources \subseteq papers' \cup job'[j].papers
    /\ job'[j].at = "count" => OldLists \subseteq lists' \cup job'[j].lists \cup removed'
    BY DEF LIComplete, LI!IdsOf
  <2>1. CASE j = i
    BY <1>2, <1>3, <2>1
  <2>2. CASE j # i
    BY <1>1, <1>3, <1>11, <2>2 DEF LIInv, LIComplete
  <2> QED BY <2>1, <2>2
<1>13. LITaken'
  <2>1. LI!IdsOf(OldTrades) \subseteq LI!IdsOf(tradesLI')
    BY <1>1, <1>11 DEF LIInv, LIComplete
  <2>2. LI!Sources \subseteq papers' /\ OldLists \subseteq lists' \cup removed'
    BY <1>1 DEF LIInv, LIComplete
  <2> QED BY <1>1, <1>7, <2>1, <2>2 DEF LITaken, LI!IdsOf
<1> QED BY <1>8, <1>9, <1>10, <1>12, <1>13 DEF LIInv

LEMMA LIOpenTradeI ==
  ASSUME LI!FilesAssumption, LIInv, NEW key \in {t.key : t \in OldTrades}, LI!OpenTrade(key)
  PROVE  LIInv'
<1> DEFINE n == [id |-> NewId, key |-> key, active |-> TRUE]
<1>1. /\ NewId \notin LI!IdsOf(tradesLI)
      /\ key \notin LI!ActiveKeys(tradesLI \cup LI!Written("trades"))
      /\ tradesLI' = tradesLI \cup {n}
      /\ UNCHANGED <<papers, lists, count, job, imported, removed>>
  BY DEF LI!OpenTrade
<1>2. n \in LITradeRows /\ n.id = NewId /\ n.key = key /\ n.active
  BY DEF LITradeRows
<1> HIDE DEF n
<1>3. \A t \in tradesLI : t.id # n.id /\ ~(t.active /\ t.key = n.key)
  BY <1>1, <1>2 DEF LI!IdsOf, LI!ActiveKeys
<1>4. \A k \in Callers : \A t \in job[k].trades : t.id # n.id /\ ~(t.active /\ t.key = n.key)
  <2> SUFFICES ASSUME NEW k \in Callers, NEW t \in job[k].trades
               PROVE  t.id # n.id /\ ~(t.active /\ t.key = n.key)
    OBVIOUS
  <2>1. t \in OldTrades /\ job[k] \in LIJobs
    BY DEF LIInv, LIShape, LIJobs
  <2>2. job[k]["trades"] = job[k].trades
    BY <2>1 DEF LIJobs
  <2>3. t \in LI!Written("trades")
    BY <2>2 DEF LI!Written
  <2> QED BY <1>1, <1>2, <2>1, <2>3 DEF LI!FilesAssumption, LI!ActiveKeys
<1>5. IsFiniteSet(tradesLI')
  BY <1>1, FS_AddElement DEF LIInv, LIShape
<1>6. LIShape'
  BY <1>1, <1>2, <1>5 DEF LIInv, LIShape
<1>7. LIRowsApart'
  BY <1>1, <1>2, <1>3, <1>4 DEF LIInv, LIRowsApart, LIDistinct
<1>8. LI!IdsOf(tradesLI) \subseteq LI!IdsOf(tradesLI')
  BY <1>1 DEF LI!IdsOf
<1>9. LIPapersApart' /\ LIComplete' /\ LITaken'
  <2>1. LIPapersApart'
    BY <1>1 DEF LIInv, LIPapersApart
  <2>2. LIComplete'
    BY <1>1, <1>8 DEF LIInv, LIComplete, LI!IdsOf
  <2>3. LITaken'
    BY <1>1, <1>8 DEF LIInv, LITaken, LI!IdsOf
  <2> QED BY <2>1, <2>2, <2>3
<1> QED BY <1>6, <1>7, <1>9 DEF LIInv

LEMMA LICloseTradeI ==
  ASSUME LI!FilesAssumption, LIInv, NEW t \in tradesLI, LI!CloseTrade(t)
  PROVE  LIInv'
<1> DEFINE c == [t EXCEPT !.active = FALSE]
<1>1. /\ t.active /\ tradesLI' = (tradesLI \ {t}) \cup {c}
      /\ UNCHANGED <<papers, lists, count, job, imported, removed>>
  BY DEF LI!CloseTrade
<1>2. c \in LITradeRows /\ c.id = t.id /\ ~c.active
  BY DEF LITradeRows, LIInv, LIShape
<1> HIDE DEF c
<1>3. IsFiniteSet(tradesLI')
  <2>1. IsFiniteSet(tradesLI \ {t})
    BY FS_Subset DEF LIInv, LIShape
  <2> QED BY <1>1, <2>1, FS_AddElement
<1>4. LIShape'
  BY <1>1, <1>2, <1>3 DEF LIInv, LIShape
<1>5. LIRowsApart'
  <2>1. LIDistinct(tradesLI')
    BY <1>1, <1>2 DEF LIInv, LIRowsApart, LIDistinct
  <2>2. ASSUME NEW j \in Callers, NEW s \in job[j].trades, NEW r \in tradesLI'
        PROVE  s.id # r.id /\ ~(s.active /\ r.active /\ s.key = r.key)
    BY <1>1, <1>2, <2>2 DEF LIInv, LIRowsApart
  <2> QED BY <1>1, <2>1, <2>2 DEF LIInv, LIRowsApart
<1>6. LI!IdsOf(tradesLI) = LI!IdsOf(tradesLI')
  BY <1>1, <1>2 DEF LI!IdsOf
<1>9. LIPapersApart' /\ LIComplete' /\ LITaken'
  <2>1. LIPapersApart'
    BY <1>1 DEF LIInv, LIPapersApart
  <2>2. LIComplete'
    BY <1>1, <1>6 DEF LIInv, LIComplete, LI!IdsOf
  <2>3. LITaken'
    BY <1>1, <1>6 DEF LIInv, LITaken, LI!IdsOf
  <2> QED BY <2>1, <2>2, <2>3
<1> QED BY <1>4, <1>5, <1>9 DEF LIInv

\* The user's lists, and the counter.
LEMMA LIListsI ==
  ASSUME LI!FilesAssumption, LIInv, NEW item \in OldLists, LI!AddTo(item) \/ LI!RemoveFrom(item)
  PROVE  LIInv'
<1>1. /\ lists' \in SUBSET OldLists /\ removed' \in SUBSET OldLists
      /\ lists \cup removed \subseteq lists' \cup removed'
      /\ UNCHANGED <<tradesLI, papers, count, job, imported>>
  BY DEF LI!AddTo, LI!RemoveFrom, LIInv, LIShape
<1>2. LIShape' /\ LIRowsApart' /\ LIPapersApart'
  BY <1>1 DEF LIInv, LIShape, LIRowsApart, LIPapersApart
<1>3. LIComplete'
  BY <1>1 DEF LIInv, LIComplete, LI!IdsOf
<1>4. LITaken'
  BY <1>1 DEF LIInv, LITaken, LI!IdsOf
<1> QED BY <1>2, <1>3, <1>4 DEF LIInv

LEMMA LICountI == ASSUME LI!FilesAssumption, LIInv, LI!CountCall PROVE LIInv'
<1>1. /\ count' \in 0..MaxCount /\ count' >= count
      /\ UNCHANGED <<tradesLI, papers, lists, job, imported, removed>>
  BY DEF LI!CountCall, LIInv, LIShape, LI!Absent, LI!FilesAssumption
<1>2. LIShape' /\ LIRowsApart' /\ LIPapersApart' /\ LIComplete'
  BY <1>1 DEF LIInv, LIShape, LIRowsApart, LIPapersApart, LIComplete, LI!IdsOf
<1>4. LITaken'
  BY <1>1 DEF LIInv, LITaken, LI!IdsOf, LIShape, LI!Absent, LI!FilesAssumption
<1> QED BY <1>2, <1>4 DEF LIInv

LEMMA LIStepI == ASSUME LI!FilesAssumption, LIInv, [LI!Next]_(LI!vars) PROVE LIInv'
<1>1. ASSUME NEW i \in Callers, LI!Die(i) PROVE LIInv'
  BY <1>1, LIFailI DEF LI!Die
<1>2. CASE UNCHANGED LI!vars
  BY <1>2 DEF LI!vars, LIInv, LIShape, LIRowsApart, LIPapersApart, LIComplete, LITaken, LI!IdsOf,
       LIDistinct
<1> QED BY <1>1, <1>2, LIBeginI, LIInsertTradesI, LIInsertPapersI, LIInsertListsI, LICommitI,
     LIOpenTradeI,
           LICloseTradeI, LIListsI, LICountI DEF LI!Next

LEMMA LIImportI == ASSUME LI!FilesAssumption, LIInv, [LI!Next]_(LI!vars), LI!Imports, LI!Moves
                 PROVE \E i \in Callers : LI!Commit(i)
<1>1. PICK i \in Callers : job[i].at = "count" /\ job'[i] = LI!Idle
  BY DEF LI!Imports
<1>2. ~UNCHANGED LI!vars
  BY DEF LI!Moves, LI!vars
<1>3. ASSUME NEW k \in Callers, \/ LI!Begin(k) \/ LI!InsertTrades(k) \/ LI!InsertPapers(k) \/ LI!InsertLists(k) \/ LI!Die(k)
      PROVE FALSE
  BY <1>3 DEF LI!Moves, LI!Begin, LI!InsertTrades, LI!InsertPapers, LI!InsertLists, LI!Die,
       LI!Fail, LI!Tables
<1>4. UNCHANGED job => FALSE
  BY <1>1 DEF LI!Idle
<1>5. ~LI!CountCall /\ (\A key \in {t.key : t \in OldTrades} : ~LI!OpenTrade(key))
      /\ (\A t \in tradesLI : ~LI!CloseTrade(t))
      /\ (\A item \in OldLists : ~LI!AddTo(item) /\ ~LI!RemoveFrom(item))
  BY <1>4 DEF LI!CountCall, LI!OpenTrade, LI!CloseTrade, LI!AddTo, LI!RemoveFrom
<1> QED BY <1>2, <1>3, <1>5 DEF LI!Next

LEMMA LIWholeI == ASSUME LI!FilesAssumption, LIInv, [LI!Next]_(LI!vars), LI!Imports, LI!Moves
  PROVE  /\ LI!IdsOf(OldTrades) \subseteq LI!IdsOf(tradesLI') /\ tradesLI \subseteq tradesLI'
         /\ {p.id : p \in OldPapers} = papers'
         /\ lists \subseteq lists' /\ OldLists \subseteq lists' \cup removed
         /\ count' >= OldCount /\ count' >= count
<1>1. PICK i \in Callers : LI!Commit(i)
  BY LIImportI
<1>2. /\ job[i].at = "count"
      /\ tradesLI' = tradesLI \cup job[i].trades /\ papers' = papers \cup job[i].papers
      /\ lists' = lists \cup job[i].lists /\ count' = LI!Larger(count, OldCount)
  BY <1>1 DEF LI!Commit
<1>3. LI!IdsOf(OldTrades) \subseteq LI!IdsOf(tradesLI')
  <2>1. LI!IdsOf(tradesLI') = LI!IdsOf(tradesLI) \cup LI!IdsOf(job[i].trades)
    BY <1>2 DEF LI!IdsOf
  <2> QED BY <1>2, <2>1 DEF LIInv, LIComplete
<1>4. papers' = LI!Sources
  BY <1>2 DEF LIInv, LIComplete, LIShape, LIJobs
<1>5. OldLists \subseteq lists' \cup removed
  BY <1>2 DEF LIInv, LIComplete
<1>6. count' >= OldCount /\ count' >= count
  BY <1>2 DEF LI!Larger, LIInv, LIShape, LI!FilesAssumption, LI!Absent
<1> QED BY <1>2, <1>3, <1>4, <1>5, <1>6 DEF LI!Sources

LEMMA LIRerunI == ASSUME LI!FilesAssumption, LIInv, [LI!Next]_(LI!vars), imported, LI!Imports
  PROVE  /\ tradesLI' = tradesLI /\ papers' = papers /\ count' = count
         /\ lists' \ lists \subseteq removed
<1>1. CASE ~LI!Moves
  BY <1>1 DEF LI!Moves
<1>2. CASE LI!Moves
  <2>1. PICK i \in Callers : LI!Commit(i)
    BY <1>2, LIImportI
  <2>2. /\ job[i].at = "count" /\ job[i] \in LIJobs
        /\ tradesLI' = tradesLI \cup job[i].trades /\ papers' = papers \cup job[i].papers
        /\ lists' = lists \cup job[i].lists /\ count' = LI!Larger(count, OldCount)
    BY <2>1 DEF LI!Commit, LIInv, LIShape
  <2>3. job[i].trades = {}
    <3> SUFFICES ASSUME NEW s \in job[i].trades PROVE FALSE
      OBVIOUS
    <3>1. s.id \in LI!IdsOf(OldTrades) /\ LI!IdsOf(OldTrades) \subseteq LI!IdsOf(tradesLI)
      BY <2>2 DEF LIInv, LITaken, LIJobs, LI!IdsOf
    <3>2. PICK t \in tradesLI : t.id = s.id
      BY <3>1 DEF LI!IdsOf
    <3> QED BY <3>2 DEF LIInv, LIRowsApart
  <2>4. job[i].papers = {}
    BY <2>2 DEF LIInv, LITaken, LIJobs, LIPapersApart
  <2>5. lists' \ lists \subseteq removed
    BY <2>2 DEF LIInv, LITaken, LIJobs
  <2>6. LI!Larger(count, OldCount) = count
    BY DEF LI!Larger, LIInv, LITaken, LIShape, LI!FilesAssumption, LI!Absent
  <2> QED BY <2>2, <2>3, <2>4, <2>5, <2>6
<1> QED BY <1>1, <1>2

LEMMA LITypeI == ASSUME LI!FilesAssumption, LIInv PROVE LI!TypeOK
<1> DEFINE f == [t \in tradesLI |-> t.id]
<1>1. f \in Bijection(tradesLI, LI!IdsOf(tradesLI))
  <2>1. f \in [tradesLI -> LI!IdsOf(tradesLI)]
    BY DEF LI!IdsOf
  <2>2. \A s, t \in tradesLI : f[s] = f[t] => s = t
    BY DEF LIInv, LIRowsApart, LIDistinct
  <2>3. \A x \in LI!IdsOf(tradesLI) : \E t \in tradesLI : f[t] = x
    BY DEF LI!IdsOf
  <2> QED BY <2>1, <2>2, <2>3 DEF Bijection, Injection, Surjection, IsInjective
<1>2. Cardinality(LI!IdsOf(tradesLI)) = Cardinality(tradesLI)
  BY <1>1, FS_Bijection DEF ExistsBijection, LIInv, LIShape
<1> QED BY <1>2, SameFiniteSets DEF LI!TypeOK, LIInv, LIShape, LIRowsApart, LIDistinct

-----------------------------------------------------------------------------
\* TabRadar: frames where no fetch has failed are fresh, and what a tab has on
\* its radar tells when it was made.

TRTabAssumption == TR!ClockAssumption /\ TR!CadenceAssumption /\ TR!QuoteAssumption /\ TR!TierAssumption

\* An analysis of the time at: its frames are not from the future, and where no
\* fetch has failed they are there and fresh.
TRAnalysed(frames, at, gone) ==
  /\ \A tf \in DOMAIN TTL : frames[tf] \in {None} \cup 0..at
  /\ \A tf \in DOMAIN TTL \ gone : frames[tf] # None /\ at - frames[tf] <= TTL[tf]

TRShape ==
  /\ clockTR \in Nat
  /\ \A tf \in DOMAIN TTL : stored[tf] \in {None} \cup 0..clockTR
  /\ held \in {None} \cup 0..clockTR

TRSharedIsAnalysed == run # None => run.at \in 0..clockTR /\ TRAnalysed(run.frames, run.at, failed)

\* What a tab has on its radar was made at some m; a position that was held then
\* made it due soon.
TRRadarIsDue ==
  radar # None =>
    \E m \in 0..clockTR :
      /\ radar.due \in Nat /\ radar.due <= m + Cadence["FAR"]
      /\ \A tf \in DOMAIN TTL : radar.frames[tf] \in {None} \cup 0..m
      /\ held # None /\ held < m => radar.due <= m + Cadence["HOT"]
      /\ "1D" \notin failed =>
           radar.frames["1D"] \in 0..m /\ m - radar.frames["1D"] <= RunTTL + TTL["1D"]

TRRangeIsTimed == range # None => range.at \in Nat

TRInv == TRShape /\ TRSharedIsAnalysed /\ TRRadarIsDue /\ TRRangeIsTimed /\ TR!HeldIsWatched /\ TR!GapIsOverOneNight

LEMMA TRInitI == TRTabAssumption /\ TR!Init => TRInv
BY DEF TR!Init, TRInv, TRShape, TRSharedIsAnalysed, TRRadarIsDue, TRRangeIsTimed, TR!HeldIsWatched,
   TR!GapIsOverOneNight

\* What a run of the body has to work with is an analysis no older than the cache's time.
LEMMA TRRunQuietIs ==
  ASSUME TRTabAssumption, TRInv, NEW fails, TR!RunQuiet(fails), clockTR' = clockTR
  PROVE  /\ \A tf \in DOMAIN TTL : stored'[tf] \in {None} \cup 0..clockTR
         /\ failed \subseteq failed'
         /\ run' # None => run'.at \in 0..clockTR /\ TRAnalysed(run'.frames, run'.at, failed')
         /\ run'.at \in 0..clockTR /\ TRAnalysed(run'.frames, run'.at, failed')
         /\ clockTR - run'.at <= RunTTL
         /\ clockTR >= RunTTL + RangeEnd => run'.at >= RangeEnd
<1>1. CASE run # None /\ clockTR - run.at < RunTTL
  <2>1. run' = run /\ failed' = failed /\ stored' = stored
    BY <1>1 DEF TR!RunQuiet
  <2>2. run.at \in 0..clockTR /\ TRAnalysed(run.frames, run.at, failed)
    BY <1>1 DEF TRInv, TRSharedIsAnalysed
  <2>3. TRAnalysed(run'.frames, run'.at, failed')
    BY <2>1, <2>2 DEF TRAnalysed
  <2>4. clockTR \in Nat /\ RunTTL \in Nat /\ RangeEnd \in Nat
    BY DEF TRInv, TRShape, TRTabAssumption, TR!ClockAssumption, TR!CadenceAssumption
  <2> QED BY <1>1, <2>1, <2>2, <2>3, <2>4 DEF TRInv, TRShape
<1>2. CASE ~(run # None /\ clockTR - run.at < RunTTL)
  <2> DEFINE frames == TR!Analysis(stored, clockTR, fails)
             bad == {tf \in fails : TR!Fetched(stored, clockTR, tf, {}) # stored[tf]}
  <2>1. stored' = frames /\ run' = [at |-> clockTR, frames |-> frames] /\ failed' = failed \cup bad
    BY <1>2 DEF TR!RunQuiet
  <2>2. clockTR \in Nat /\ None \notin Int /\ \A tf \in DOMAIN TTL : TTL[tf] \in Nat
    BY DEF TRInv, TRShape, TRTabAssumption, TR!ClockAssumption
  <2>3. ASSUME NEW tf \in DOMAIN TTL
        PROVE  /\ frames[tf] \in {None} \cup 0..clockTR
               /\ tf \notin bad => frames[tf] # None /\ clockTR - frames[tf] <= TTL[tf]
    <3>1. stored[tf] \in {None} \cup 0..clockTR
      BY DEF TRInv, TRShape
    <3>2. frames[tf] = TR!Fetched(stored, clockTR, tf, fails)
      BY DEF TR!Analysis
    <3>3. CASE stored[tf] # None /\ clockTR - stored[tf] <= TTL[tf]
      BY <2>2, <3>1, <3>2, <3>3 DEF TR!Fetched
    <3>4. CASE ~(stored[tf] # None /\ clockTR - stored[tf] <= TTL[tf])
      <4>1. stored[tf] # clockTR
        BY <2>2, <3>1, <3>4
      <4>2. tf \in fails => tf \in bad
        BY <3>4, <4>1 DEF TR!Fetched
      <4>3. tf \notin fails => frames[tf] = clockTR
        BY <3>2, <3>4 DEF TR!Fetched
      <4>4. frames[tf] \in {clockTR, stored[tf]}
        BY <3>2, <3>4 DEF TR!Fetched
      <4> HIDE DEF frames, bad
      <4> QED BY <2>2, <3>1, <4>2, <4>3, <4>4
    <3> QED BY <3>3, <3>4
  <2> HIDE DEF frames, bad
  <2>4. run'.at = clockTR /\ run'.frames = frames
    BY <2>1
  <2>5. TRAnalysed(run'.frames, run'.at, failed')
    BY <2>1, <2>3, <2>4 DEF TRAnalysed
  <2>6. RunTTL \in Nat /\ RangeEnd \in Nat
    BY DEF TRTabAssumption, TR!ClockAssumption, TR!CadenceAssumption
  <2> QED BY <2>1, <2>2, <2>3, <2>4, <2>5, <2>6
<1> QED BY <1>1, <1>2

LEMMA TRTierIs ==
  ASSUME TRTabAssumption, TRShape, NEW v \in Views \cup {None}, NEW q, NEW r
  PROVE  /\ TR!Tier(v, q, r) \in TR!Tiers
         /\ held # None => TR!Tier(v, q, r) = "HOT"
<1>1. CASE held # None
  BY <1>1 DEF TR!Tier, TR!Tiers
<1>2. CASE held = None
  <2>1. clockTR \in Nat /\ OpenAt \in Nat /\ RangeEnd \in Nat /\ CloseAt \in Nat
    BY DEF TRShape, TRTabAssumption, TR!ClockAssumption
  <2>2. TR!Phase(clockTR) \in {"premarket", "opening_range", "regular", "closed"}
    BY <2>1 DEF TR!Phase
  <2>3. v # None => TR!GapTier(v) \in TR!Tiers
    <3>1. v # None => v.below \in Int /\ v.band \in Int
      BY DEF TRTabAssumption, TR!TierAssumption
    <3> QED BY <3>1 DEF TR!GapTier, TR!Tiers
  <2>4. v # None => TR!ScoreTier(v) \in TR!Tiers
    BY DEF TR!ScoreTier, TR!Tiers
  <2> HIDE DEF TR!Tiers
  <2>5. "FAR" \in TR!Tiers /\ "PAUSED" \in TR!Tiers
    BY DEF TR!Tiers
  <2> QED BY <1>2, <2>2, <2>3, <2>4, <2>5 DEF TR!Tier
<1> QED BY <1>1, <1>2

\* The quote of frames that have a print of the day: it is that print, and its
\* close before is that of the month's frame, if there is one.
LEMMA TRQuoteIs ==
  ASSUME TRTabAssumption, NEW frames, NEW at \in Nat,
         \A tf \in DOMAIN TTL : frames[tf] \in {None} \cup 0..at,
         frames["1D"] # None
  PROVE  /\ TR!FallbackQuote(frames) # None
         /\ TR!FallbackQuote(frames).print = frames["1D"]
         /\ frames["1M"] # None => TR!FallbackQuote(frames).prev = TR!PrevClose(frames["1M"])
<1>1. /\ "1D" \in DOMAIN TTL /\ "1M" \in DOMAIN TTL /\ "6M" \in DOMAIN TTL /\ None \notin Int
      /\ OpenAt \in Nat /\ CloseAt \in Nat /\ OpenAt < CloseAt
  BY DEF TRTabAssumption, TR!ClockAssumption
<1>2. frames["1D"] \in Nat /\ frames["1M"] \in {None} \cup Nat /\ frames["6M"] \in {None} \cup Nat
  BY <1>1
<1>3. TR!Shortest(frames) = frames["1D"]
  <2> DEFINE there == {i \in DOMAIN Frames : frames[Frames[i]] # None}
  <2>1. DOMAIN Frames = 1..Len(Frames) /\ Len(Frames) \in Nat /\ 1 \in DOMAIN Frames
    BY DEF TRTabAssumption, TR!ClockAssumption
  <2>2. Frames[1] = "1D"
    BY DEF TRTabAssumption, TR!ClockAssumption
  <2>3. 1 \in there /\ \A k \in there : k \in Nat /\ 1 <= k
    BY <2>1, <2>2
  <2> DEFINE i == CHOOSE i \in there : \A k \in there : i <= k
  <2>4. i \in there /\ \A k \in there : i <= k
    BY <2>3
  <2> HIDE DEF i
  <2>5. i = 1
    <3>1. i \in Nat /\ i <= 1 /\ 1 <= i
      BY <2>3, <2>4
    <3> QED BY <3>1
  <2> USE DEF i
  <2> QED BY <2>2, <2>5 DEF TR!Shortest
<1> DEFINE closes == TR!Daily(frames)
           regular == IF closes = None THEN None ELSE TR!RegularClose(closes)
           before == IF closes = None THEN None ELSE TR!PrevClose(closes)
           session == TR!Session(frames["1D"])
           q1 == [print |-> frames["1D"], prev |-> before, session |-> session,
                  regular |-> IF regular # None THEN regular ELSE TR!RegularClose(frames["1D"])]
           q2 == [print |-> frames["1D"], prev |-> before, session |-> "regular",
                  regular |-> IF regular # None THEN regular ELSE TR!RegularClose(frames["1D"])]
<1>4. TR!FallbackQuote(frames) \in {q1, q2}
  BY <1>1, <1>3 DEF TR!FallbackQuote
<1>5. closes \in {None} \cup Nat /\ (frames["1M"] # None => closes = frames["1M"])
  BY <1>2 DEF TR!Daily
<1>6. session \in {"pre-market", "regular", "after-hours"}
  BY <1>1, <1>2 DEF TR!Session
<1>7. \A t : TR!RegularClose(t) \in Nat /\ TR!PrevClose(t) \in Nat
  BY DEF TR!RegularClose, TR!PrevClose, TR!Today, TR!Yesterday, TR!Before
<1> HIDE DEF closes, session
<1>8. /\ before \in {None} \cup Nat
      /\ (IF regular # None THEN regular ELSE TR!RegularClose(frames["1D"])) \in Nat
  BY <1>7
<1>9. frames["1M"] # None => before = TR!PrevClose(frames["1M"])
  BY <1>5
<1> DEFINE x == IF regular # None THEN regular ELSE TR!RegularClose(frames["1D"])
<1> HIDE DEF before, regular, x
<1>10. q1 # None /\ q2 # None
  <2>1. \A p \in Nat, g \in Nat, v \in {None} \cup Nat, s \in {"pre-market", "regular", "after-hours"} :
          [print |-> p, prev |-> v, session |-> s, regular |-> g] # None
    BY DEF TRTabAssumption, TR!QuoteAssumption
  <2>2. x \in Nat
    BY <1>8 DEF x
  <2>3. [print |-> frames["1D"], prev |-> before, session |-> session, regular |-> x] # None
    BY <1>2, <1>6, <1>8, <2>1, <2>2
  <2>4. [print |-> frames["1D"], prev |-> before, session |-> "regular", regular |-> x] # None
    BY <1>2, <1>8, <2>1, <2>2
  <2> QED BY <2>3, <2>4 DEF x
<1> QED BY <1>4, <1>9, <1>10

-----------------------------------------------------------------------------
\* What the body does when the ticker is due.
LEMMA TRDueI ==
  ASSUME TRTabAssumption, TRInv, NEW fails, NEW v \in Views, NEW up \in BOOLEAN, TR!Due(fails, v, up)
  PROVE  TRInv'
<1> DEFINE frames == run'.frames
           seen == TR!FallbackQuote(frames)
           view == IF \A tf \in DOMAIN TTL : frames[tf] = None THEN None ELSE v
           tier == TR!Tier(view, seen, range')
           at == run'.at
<1>1. /\ TR!RunQuiet(fails) /\ clockTR' = clockTR /\ held' = held
      /\ range' = TR!Range(seen, frames, up)
      /\ radar' = [due |-> clockTR + Cadence[tier], frames |-> frames, planned |-> view # None]
      /\ TR!Mark(frames, view # None)
  BY DEF TR!Due
<1>2. /\ \A tf \in DOMAIN TTL : stored'[tf] \in {None} \cup 0..clockTR
      /\ failed \subseteq failed' /\ (run' # None => at \in 0..clockTR)
      /\ at \in 0..clockTR /\ TRAnalysed(frames, at, failed') /\ clockTR - at <= RunTTL
      /\ clockTR >= RunTTL + RangeEnd => at >= RangeEnd
  BY <1>1, TRRunQuietIs
<1>3. tier \in TR!Tiers /\ (held # None => tier = "HOT")
  <2>1. view \in Views \cup {None}
    OBVIOUS
  <2> QED BY <2>1, TRTierIs DEF TRInv
<1>4. /\ clockTR \in Nat /\ None \notin Int /\ RunTTL \in Nat /\ TTL["1D"] \in Nat /\ TTL["1M"] \in Nat
      /\ Cadence["FAR"] \in Nat \ {0} /\ Cadence["HOT"] \in Nat \ {0} /\ "1D" \in DOMAIN TTL
      /\ "1M" \in DOMAIN TTL /\ held \in {None} \cup 0..clockTR
      /\ Cadence[tier] \in Nat /\ Cadence[tier] <= Cadence["FAR"]
      /\ RangeEnd \in Nat /\ OpenAt \in Nat /\ CloseAt \in Nat /\ TTL["1M"] <= RangeEnd - OpenAt
  BY <1>3 DEF TRInv, TRShape, TRTabAssumption, TR!ClockAssumption, TR!CadenceAssumption, TR!Tiers
<1>5. \A tf \in DOMAIN TTL : frames[tf] \in {None} \cup 0..at
  BY <1>2 DEF TRAnalysed
<1>6. "1D" \notin failed' => frames["1D"] \in 0..at /\ at - frames["1D"] <= TTL["1D"]
  BY <1>2, <1>4 DEF TRAnalysed
<1>7. "1M" \notin failed' => frames["1M"] \in 0..at /\ at - frames["1M"] <= TTL["1M"]
  BY <1>2, <1>4 DEF TRAnalysed
<1>8. frames["1D"] # None =>
        /\ seen # None /\ seen.print = frames["1D"]
        /\ frames["1M"] # None => seen.prev = TR!PrevClose(frames["1M"])
  <2>1. at \in Nat
    BY <1>2
  <2> HIDE DEF frames, at
  <2> QED BY <1>5, <2>1, TRQuoteIs
<1>9. marked' = IF held = None \/ ~(view # None) \/ seen = None THEN None ELSE seen.print
  BY <1>1 DEF TR!Mark
<1>10. radar'.due = clockTR + Cadence[tier] /\ radar'.frames = frames
  BY <1>1
<1> HIDE DEF frames, seen, view, tier, at
<1>11. TRShape'
  BY <1>1, <1>2, <1>4 DEF TRShape
<1>12. TRSharedIsAnalysed'
  BY <1>1, <1>2 DEF TRSharedIsAnalysed, frames, at
<1>13. TRRadarIsDue'
  <2>1. radar'.due \in Nat /\ radar'.due <= clockTR + Cadence["FAR"]
    BY <1>4, <1>10
  <2>2. held # None => radar'.due <= clockTR + Cadence["HOT"]
    BY <1>3, <1>4, <1>10
  <2>3. "1D" \notin failed' =>
          radar'.frames["1D"] \in 0..clockTR /\ clockTR - radar'.frames["1D"] <= RunTTL + TTL["1D"]
    BY <1>2, <1>4, <1>6, <1>10
  <2>4. clockTR \in 0..clockTR
    BY <1>4
  <2>5. \A tf \in DOMAIN TTL : radar'.frames[tf] \in {None} \cup 0..clockTR
    BY <1>2, <1>4, <1>5, <1>10
  <2> QED BY <1>1, <2>1, <2>2, <2>3, <2>4, <2>5 DEF TRRadarIsDue
<1>14. TR!HeldIsWatched'
  <2> SUFFICES ASSUME marked' # None, "1D" \notin failed'
               PROVE  clockTR - marked' < Cadence["HOT"] + RunTTL + TTL["1D"]
    BY <1>1 DEF TR!HeldIsWatched
  <2>1. marked' = frames["1D"]
    BY <1>4, <1>6, <1>8, <1>9
  <2> QED BY <1>2, <1>4, <1>6, <2>1
<1>15. TRRangeIsTimed' /\ TR!GapIsOverOneNight'
  <2>1. CASE range' = range
    BY <1>2, <2>1 DEF TRInv, TRRangeIsTimed, TR!GapIsOverOneNight, TR!Yesterday
  <2> DEFINE before == IF seen = None THEN None ELSE seen.prev
  <2>2. CASE range' = [at |-> clockTR, prev |-> before, up |-> up /\ before # None] /\ frames["1D"] # None
    <3>1. range'.at = clockTR /\ range'.prev = before
      BY <2>2
    <3>2. ASSUME "1M" \notin failed', clockTR >= RangeEnd + RunTTL PROVE before = TR!Yesterday
      <4>1. frames["1M"] >= OpenAt /\ frames["1M"] # None
        BY <1>2, <1>4, <1>7, <3>2
      <4> QED BY <1>8, <2>2, <4>1 DEF TR!PrevClose
    <3> QED BY <1>4, <3>1, <3>2 DEF TRRangeIsTimed, TR!GapIsOverOneNight, TR!Yesterday
  <2>3. \/ range' = range
        \/ range' = [at |-> clockTR, prev |-> before, up |-> up /\ before # None] /\ frames["1D"] # None
    BY <1>1 DEF TR!Range
  <2> QED BY <2>1, <2>2, <2>3
<1> QED BY <1>11, <1>12, <1>13, <1>14, <1>15 DEF TRInv

\* In between, a position that has been held for long is marked soon after.
LEMMA TRNotDueI == ASSUME TRTabAssumption, TRInv, TR!NotDue PROVE TRInv'
<1> DEFINE frames == radar.frames
           seen == TR!FallbackQuote(frames)
<1>1. /\ radar # None /\ radar.due > clockTR /\ TR!Mark(frames, radar.planned)
      /\ clockTR' = clockTR /\ stored' = stored /\ run' = run /\ failed' = failed /\ held' = held
      /\ radar' = radar /\ range' = range
  BY DEF TR!NotDue
<1>2. PICK m \in 0..clockTR :
        /\ radar.due \in Nat /\ radar.due <= m + Cadence["FAR"]
        /\ \A tf \in DOMAIN TTL : radar.frames[tf] \in {None} \cup 0..m
        /\ held # None /\ held < m => radar.due <= m + Cadence["HOT"]
        /\ "1D" \notin failed =>
             radar.frames["1D"] \in 0..m /\ m - radar.frames["1D"] <= RunTTL + TTL["1D"]
  BY <1>1 DEF TRInv, TRRadarIsDue
<1>3. marked' = IF held = None \/ ~radar.planned \/ seen = None THEN None ELSE seen.print
  BY <1>1 DEF TR!Mark
<1>4. /\ clockTR \in Nat /\ None \notin Int /\ RunTTL \in Nat /\ TTL["1D"] \in Nat
      /\ Cadence["FAR"] \in Nat \ {0} /\ Cadence["HOT"] \in Nat \ {0} /\ "1D" \in DOMAIN TTL
      /\ held \in {None} \cup 0..clockTR
  BY DEF TRInv, TRShape, TRTabAssumption, TR!ClockAssumption, TR!CadenceAssumption, TR!Tiers
<1>5. TR!HeldIsWatched'
  <2> SUFFICES ASSUME marked' # None, "1D" \notin failed, clockTR - held > Cadence["FAR"]
               PROVE  clockTR - marked' < Cadence["HOT"] + RunTTL + TTL["1D"]
    BY <1>1 DEF TR!HeldIsWatched
  <2>1. held # None /\ held < m
    BY <1>1, <1>2, <1>3, <1>4
  <2>4. frames["1D"] \in 0..m /\ m - frames["1D"] <= RunTTL + TTL["1D"] /\ m \in Nat
    BY <1>2, <1>4
  <2>5. /\ radar.due <= m + Cadence["HOT"] /\ radar.due \in Nat
        /\ \A tf \in DOMAIN TTL : frames[tf] \in {None} \cup 0..m
    BY <1>2, <2>1
  <2>2. seen # None /\ seen.print = frames["1D"]
    <3>1. m \in Nat /\ frames["1D"] # None /\ \A tf \in DOMAIN TTL : frames[tf] \in {None} \cup 0..m
      BY <1>4, <2>4, <2>5
    <3> HIDE DEF frames
    <3> QED BY <3>1, TRQuoteIs
  <2>3. marked' = frames["1D"]
    BY <1>3, <2>2
  <2> HIDE DEF frames
  <2> QED BY <1>1, <1>4, <2>3, <2>4, <2>5
<1>6. TRShape' /\ TRSharedIsAnalysed' /\ TRRangeIsTimed' /\ TR!GapIsOverOneNight'
  BY <1>1 DEF TRInv, TRShape, TRSharedIsAnalysed, TRRangeIsTimed, TR!GapIsOverOneNight
<1>7. TRRadarIsDue'
  BY <1>1 DEF TRInv, TRRadarIsDue
<1> QED BY <1>5, <1>6, <1>7 DEF TRInv

\* Whatever leaves the shared analysis and the radar alone, and marks nothing.
LEMMA TRQuietI ==
  ASSUME TRTabAssumption, TRInv, marked' = None, run' = run, stored' = stored, failed' = failed,
         range' = range, radar' \in {None, radar}, clockTR' \in Nat, clockTR <= clockTR',
         held' \in {held, None, clockTR}
  PROVE  TRInv'
<1>1. clockTR \in Nat /\ held \in {None} \cup 0..clockTR /\ None \notin Int
  BY DEF TRInv, TRShape, TRTabAssumption, TR!ClockAssumption
<1>2. TRShape'
  <2>1. ASSUME NEW tf \in DOMAIN TTL PROVE stored[tf] \in {None} \cup 0..clockTR'
    <3>1. stored[tf] \in {None} \cup 0..clockTR
      BY DEF TRInv, TRShape
    <3> QED BY <1>1, <3>1
  <2>2. held' \in {None} \cup 0..clockTR'
    BY <1>1
  <2> QED BY <2>1, <2>2 DEF TRShape
<1>3. TRSharedIsAnalysed'
  BY <1>1 DEF TRInv, TRSharedIsAnalysed
<1>4. TRRadarIsDue'
  <2>1. CASE radar' = None
    BY <2>1 DEF TRRadarIsDue
  <2>2. CASE radar' = radar /\ radar # None
    <3>1. PICK m \in 0..clockTR :
            /\ radar.due \in Nat /\ radar.due <= m + Cadence["FAR"]
            /\ \A tf \in DOMAIN TTL : radar.frames[tf] \in {None} \cup 0..m
            /\ held # None /\ held < m => radar.due <= m + Cadence["HOT"]
            /\ "1D" \notin failed =>
                 radar.frames["1D"] \in 0..m /\ m - radar.frames["1D"] <= RunTTL + TTL["1D"]
      BY <2>2 DEF TRInv, TRRadarIsDue
    <3>2. m \in 0..clockTR'
      BY <1>1
    <3>3. held' # None /\ held' < m => held # None /\ held < m
      BY <1>1
    <3> QED BY <2>2, <3>1, <3>2, <3>3 DEF TRRadarIsDue
  <2> QED BY <2>1, <2>2
<1>5. TRRangeIsTimed' /\ TR!HeldIsWatched' /\ TR!GapIsOverOneNight'
  BY DEF TRInv, TRRangeIsTimed, TR!HeldIsWatched, TR!GapIsOverOneNight, TR!Yesterday
<1> QED BY <1>2, <1>3, <1>4, <1>5 DEF TRInv

LEMMA TROtherTabI == ASSUME TRTabAssumption, TRInv, NEW fails, TR!OtherTab(fails) PROVE TRInv'
<1>1. /\ TR!RunQuiet(fails) /\ clockTR' = clockTR /\ held' = held /\ range' = range /\ radar' = radar
      /\ marked' = None
  BY DEF TR!OtherTab
<1>2. /\ \A tf \in DOMAIN TTL : stored'[tf] \in {None} \cup 0..clockTR
      /\ failed \subseteq failed'
      /\ run' # None => run'.at \in 0..clockTR /\ TRAnalysed(run'.frames, run'.at, failed')
  BY <1>1, TRRunQuietIs
<1>3. TRShape' /\ TRSharedIsAnalysed' /\ TRRangeIsTimed' /\ TR!HeldIsWatched'
  BY <1>1, <1>2 DEF TRInv, TRShape, TRSharedIsAnalysed, TRRangeIsTimed, TR!HeldIsWatched
<1>4. TR!GapIsOverOneNight'
  BY <1>1, <1>2 DEF TRInv, TR!GapIsOverOneNight, TR!Yesterday
<1>5. TRRadarIsDue'
  BY <1>1, <1>2 DEF TRInv, TRRadarIsDue
<1> QED BY <1>3, <1>4, <1>5 DEF TRInv

LEMMA TRStepI == TRTabAssumption /\ TRInv /\ [TR!Next]_(TR!vars) => TRInv'
<1> SUFFICES ASSUME TRTabAssumption, TRInv, [TR!Next]_(TR!vars) PROVE TRInv'
  OBVIOUS
<1>1. clockTR \in Nat
  BY DEF TRInv, TRShape
<1>2. CASE TR!Untracked
  BY <1>1, <1>2, TRQuietI DEF TR!Untracked
<1>3. CASE TR!Position
  BY <1>1, <1>3, TRQuietI DEF TR!Position
<1>4. CASE TR!Track
  BY <1>1, <1>4, TRQuietI DEF TR!Track
<1>5. CASE TR!Tick
  BY <1>1, <1>5, TRQuietI DEF TR!Tick
<1>6. CASE UNCHANGED TR!vars
  <2>1. /\ clockTR' = clockTR /\ stored' = stored /\ run' = run /\ failed' = failed /\ held' = held
        /\ radar' = radar /\ range' = range /\ marked' = marked
    BY <1>6 DEF TR!vars
  <2> QED BY <2>1 DEF TRInv, TRShape, TRSharedIsAnalysed, TRRadarIsDue, TRRangeIsTimed,
       TR!HeldIsWatched,
                      TR!GapIsOverOneNight, TR!Yesterday
<1> QED BY <1>2, <1>3, <1>4, <1>5, <1>6, TROtherTabI, TRDueI, TRNotDueI DEF TR!Next

LEMMA TRTypeI == TRTabAssumption /\ TRInv => TR!TypeOK
<1> SUFFICES ASSUME TRTabAssumption, TRInv PROVE TR!TypeOK
  OBVIOUS
<1>1. clockTR \in Nat /\ Cadence["FAR"] \in Nat
  BY DEF TRInv, TRShape, TRTabAssumption, TR!CadenceAssumption, TR!Tiers
<1>2. radar # None => radar.due <= clockTR + Cadence["FAR"]
  BY <1>1 DEF TRInv, TRRadarIsDue
<1> QED BY <1>2 DEF TRInv, TRShape, TR!TypeOK

-----------------------------------------------------------------------------
\* What the type invariants say beyond the invariants above.

TokensFit == tokens \in 0..PerMinute

LEMMA TokensKept ==
  /\ CapAssumption /\ Init => TokensFit
  /\ CapAssumption /\ TokensFit /\ [Next]_vars => TokensFit'
<1>1. CapAssumption /\ Init => TokensFit
  BY DEF CapAssumption, Init, TokensFit
<1>2. ASSUME CapAssumption, TokensFit, [Next]_vars PROVE TokensFit'
  <2>1. tokens' \in {tokens, PerMinute} \/ (tokens' = tokens + 1 /\ tokens < PerMinute)
        \/ (tokens' = tokens - 1 /\ tokens > 0)
    BY <1>2 DEF Next, Step, Ask, TakeToken, Update, Insert, Retry, Count, ImportCount, Restart,
                Refill, Midnight, vars
  <2> QED BY <1>2, <2>1 DEF CapAssumption, TokensFit
<1> QED BY <1>1, <1>2

LLMinuteFits == minute \in 0..LastMinute

LEMMA LLMinuteKept ==
  /\ LL!LockoutAssumption /\ LL!Init => LLMinuteFits
  /\ LL!LockoutAssumption /\ LLMinuteFits /\ [LL!Next]_(LL!vars) => LLMinuteFits'
<1>1. LL!LockoutAssumption /\ LL!Init => LLMinuteFits
  BY DEF LL!LockoutAssumption, LL!Init, LLMinuteFits
<1>2. ASSUME LL!LockoutAssumption, LLMinuteFits, [LL!Next]_(LL!vars) PROVE LLMinuteFits'
  <2>1. minute' = minute \/ (minute < LastMinute /\ minute' = minute + 1)
    BY <1>2 DEF LL!Next, LL!Arrive, LL!Wrong, LL!Right, LL!TurnedAway, LL!NewPassword, LL!Tick,
                LL!vars
  <2> QED BY <1>2, <2>1 DEF LL!LockoutAssumption, LLMinuteFits
<1> QED BY <1>1, <1>2

WLBeatsArePast == \A w \in Callers : beat[w] \in {WL!NoBeat} \cup 0..clockWL

LEMMA WLBeatsKept ==
  /\ WL!Init => WLBeatsArePast
  /\ WLInv /\ WLBeatsArePast /\ [WL!Next]_(WL!vars) => WLBeatsArePast'
<1>1. WL!Init => WLBeatsArePast
  BY DEF WL!Init, WLBeatsArePast
<1>2. ASSUME WLInv, WLBeatsArePast, [WL!Next]_(WL!vars) PROVE WLBeatsArePast'
  <2>1. \/ \E w \in Callers : beat' = [beat EXCEPT ![w] = clockWL] /\ clockWL' = clockWL
        \/ beat' = beat /\ clockWL' \in {clockWL, clockWL + 1}
    BY <1>2 DEF WL!Next, WL!Start, WL!Refused, WL!BeginCycle, WL!EndCycle, WL!RequestStop, WL!Leave,
                WL!Kill, WL!LoseConnection, WL!Beat, WL!Reap, WL!Tick, WL!vars
  <2> QED BY <1>2, <2>1 DEF WLInv, WLShape, WLBeatsArePast
<1> QED BY <1>1, <1>2

LEMMA TypesFollow ==
  /\ IInv /\ TokensFit => TypeOK
  /\ ALInv => AL!TypeOK
  /\ LL!LockoutAssumption /\ LLInv /\ LLMinuteFits => LL!TypeOK
  /\ WLInv /\ WLBeatsArePast => WL!TypeOK
  /\ LFInv => LF!TypeOK
<1>1. IInv /\ TokensFit => TypeOK
  BY DEF IInv, Shape, TokensFit, TypeOK, Stages
<1>2. ALInv => AL!TypeOK
  BY DEF ALInv, AL!TypeOK, AL!NoEntry
<1>3. ASSUME LL!LockoutAssumption, LLInv, LLMinuteFits PROVE LL!TypeOK
  <2>1. \A i \in 1..Len(tried) : tried[i] \in 0..LastMinute
    BY <1>3 DEF LL!LockoutAssumption, LLInv, LLShape, LLTriedInOrder, LLMinuteFits
  <2>2. tried \in [1..Len(tried) -> 0..LastMinute] /\ Len(tried) \in Nat
    BY <1>3, <2>1 DEF LLInv, LLShape
  <2>3. tried \in Seq(0..LastMinute)
    BY <2>2, SeqDef, Zenon
  <2> QED BY <1>3, <2>3 DEF LL!TypeOK, LLInv, LLShape
<1>4. WLInv /\ WLBeatsArePast => WL!TypeOK
  BY DEF WLInv, WLShape, WLGhostHolds, WLBeatsArePast, WL!TypeOK
<1>5. LFInv => LF!TypeOK
  <2>1. ASSUME LFInv, NEW i \in DOMAIN streams
        PROVE  streams[i].stage \in {"started", "made", "loop", "over"}
    <3>1. streams[i] \in LFStreams
      BY <2>1 DEF LFInv, LFShape
    <3> QED BY <3>1 DEF LFStreams, LFStages
  <2> QED BY <2>1 DEF LFInv, LFShape, LF!TypeOK
<1> QED BY <1>1, <1>2, <1>3, <1>4, <1>5

-----------------------------------------------------------------------------
\* A step of the services is a step of each of them, or it leaves it alone.

LEMMA DatabaseStays == Next => database' = database
BY DEF Next, Step, Ask, TakeToken, Update, Insert, Retry, Count, ImportCount, Restart, Refill,
       Midnight

LEMMA EachMoves ==
  ASSUME [ServicesNext]_servicesVars
  PROVE  /\ [Next]_vars /\ [MD!Next]_(MD!vars) /\ [AL!Next]_(AL!vars) /\ [LL!Next]_(LL!vars)
         /\ [WL!Next]_(WL!vars) /\ [LF!Next]_(LF!vars) /\ [JO!Next]_(JO!vars)
         /\ [S1!Next]_(S1!vars) /\ [S2!Next]_(S2!vars) /\ [LI!Next]_(LI!vars)
         /\ [TR!Next]_(TR!vars)
<1>1. [MD!Next]_(MD!vars)
  BY DEF ServicesNext, servicesVars, md, MD!vars
<1>2. [AL!Next]_(AL!vars)
  BY DatabaseStays DEF ServicesNext, servicesVars, vars, al, AL!vars
<1>3. [LL!Next]_(LL!vars)
  BY DEF ServicesNext, servicesVars, ll, LL!vars
<1>4. [WL!Next]_(WL!vars)
  BY DEF ServicesNext, servicesVars, wl, WL!vars
<1>5. [LF!Next]_(LF!vars)
  BY DEF ServicesNext, servicesVars, lf, LF!vars
<1>6. [JO!Next]_(JO!vars)
  BY DEF ServicesNext, servicesVars, jo, JO!vars
<1>7. [S1!Next]_(S1!vars)
  BY DEF ServicesNext, servicesVars, s1, S1!vars
<1>8. [S2!Next]_(S2!vars)
  BY DEF ServicesNext, servicesVars, s2, S2!vars
<1>9. [LI!Next]_(LI!vars)
  BY DEF ServicesNext, servicesVars, li, LI!vars
<1>10. [TR!Next]_(TR!vars)
  BY DEF ServicesNext, servicesVars, tr, TR!vars
<1>11. [Next]_vars
  <2>1. CASE focus = "al"
    <3>1. AL!Next => database' = database
      BY DEF AL!Next, AL!Look, AL!Ask, AL!Put, AL!Commit, AL!Prune, AL!Turn, AL!Tick
    <3> QED BY <2>1, <3>1 DEF ServicesNext, servicesVars, vars
  <2>2. CASE focus # "al"
    BY <2>2 DEF ServicesNext, servicesVars
  <2> QED BY <2>1, <2>2
<1> QED BY <1>1, <1>2, <1>3, <1>4, <1>5, <1>6, <1>7, <1>8, <1>9, <1>10, <1>11

-----------------------------------------------------------------------------
\* All of them are always so.

ServicesInv ==
  /\ IInv /\ TokensFit /\ MDInv /\ ALInv /\ LLInv /\ LLMinuteFits
  /\ WLInv /\ WLBeatsArePast /\ LFInv /\ JOInv /\ JVInv /\ S1Inv /\ S2FInv /\ LIInv /\ TRInv

LEMMA BoundsGiven ==
  /\ Bounds /\ CapAssumption /\ WLContainers /\ S1OneThread /\ TRTabAssumption
  /\ MD!WindowAssumption /\ AL!AgesAssumption /\ LL!LockoutAssumption /\ LF!PricesAssumption
  /\ JO!HorizonAssumption /\ JO!JournalAssumption /\ S1!BookAssumption /\ LI!FilesAssumption
BY BoundsAreSound DEF Bounds, WLContainers, S1OneThread, TRTabAssumption

LEMMA ServicesInductive ==
  /\ ServicesInit => ServicesInv
  /\ ServicesInv /\ [ServicesNext]_servicesVars => ServicesInv'
<1>1. ASSUME ServicesInit PROVE ServicesInv
  <2>1. /\ Init /\ MD!Init /\ AL!Init /\ LL!Init /\ WL!Init /\ LF!Init /\ JO!Init /\ S1!Init
        /\ S2!Init /\ LI!Init /\ TR!Init
    BY <1>1 DEF ServicesInit
  <2>2. IInv /\ TokensFit /\ MDInv /\ ALInv
    BY <2>1, BoundsGiven, InitIInv, TokensKept, MDInitI, ALInitI
  <2>3. LLInv /\ LLMinuteFits /\ WLInv /\ WLBeatsArePast /\ LFInv
    BY <2>1, BoundsGiven, LLInitIInv, LLMinuteKept, WLInitIInv, WLBeatsKept, LFInitI
  <2>4. JOInv /\ JVInv /\ S1Inv /\ S2FInv /\ LIInv /\ TRInv
    BY <2>1, BoundsGiven, JOInitI, JVInitI, S1InitI, S2InitF, LIInitI, TRInitI
  <2> QED BY <2>2, <2>3, <2>4 DEF ServicesInv
<1>2. ASSUME ServicesInv, [ServicesNext]_servicesVars PROVE ServicesInv'
  <2>1. IInv' /\ TokensFit' /\ MDInv' /\ ALInv'
    BY <1>2, EachMoves, BoundsGiven, NextKeeps, TokensKept, MDStepI, ALStepI DEF ServicesInv
  <2>2. LLInv' /\ LLMinuteFits' /\ WLInv' /\ WLBeatsArePast' /\ LFInv'
    BY <1>2, EachMoves, BoundsGiven, LLNextKeeps, LLMinuteKept, WLNextKeeps, WLBeatsKept, LFStepI
       DEF ServicesInv
  <2>3. JOInv' /\ JVInv' /\ S1Inv' /\ S2FInv' /\ LIInv' /\ TRInv'
    BY <1>2, EachMoves, BoundsGiven, JOStepI, JVStepI, S1StepI, S2StepF, LIStepI, TRStepI DEF ServicesInv
  <2> QED BY <2>1, <2>2, <2>3 DEF ServicesInv
<1> QED BY <1>1, <1>2

LEMMA ServicesHold == ServicesSpec => []ServicesInv
BY ServicesInductive, PTL DEF ServicesSpec

\* The tables and files of every service keep the shape their code relies on:
\* a count of tokens within the bucket (ratelimit.py take), one row per active
\* trade (migrate_legacy_data.py), a lock of a worker that is there
\* (radar_worker.py worker_lease).
THEOREM ServicesTypeCorrect == ServicesSpec => []ServicesTypeOK
<1>1. ServicesInv => ServicesTypeOK
  BY BoundsGiven, TypesFollow, MDTypeI, JOTypeI, LITypeI, TRTypeI DEF ServicesInv, ServicesTypeOK
<1> QED BY <1>1, ServicesHold, PTL

\* However fetches, stores, lookups and tabs overlap, fail and prune: the store
\* serves bars of one whole window and raises only without a frame of its own
\* (ohlcv.py, providers.py), a "nothing" of a lookup is no older than its time to
\* live (finnhub.py), and a gap is measured over one night (app.py:811).
THEOREM ServedIsHonest == ServicesSpec => []CachesAreHonest
<1>1. ServicesInv => CachesAreHonest
  <2>1. ALInv => AL!NothingIsRecent
    BY DEF ALInv, AL!NothingIsRecent
  <2>2. TRInv => TR!GapIsOverOneNight
    BY DEF TRInv
  <2> QED BY <2>1, <2>2, MDServesI, MDRaisesI DEF ServicesInv, CachesAreHonest
<1> QED BY <1>1, ServicesHold, PTL

\* However many requests overlap and however old their clocks, of one more wrong
\* password than the limit the first and the last are a lockout apart, less the
\* longest wait for the row (auth.py authenticate).
THEOREM GuessesRationed == ServicesSpec => []GuessesAreRationed
<1>1. ServicesInv => GuessesAreRationed
  BY DEF ServicesInv, LLInv, GuessesAreRationed
<1> QED BY <1>1, ServicesHold, PTL

\* Two workers run together only if one of them lost the connection that took
\* the lock, a worker that was not asked to stop passes its health check
\* (radar_worker.py), and a tab looks at the position that is held (app.py:756).
THEOREM RadarAttended == ServicesSpec => []RadarIsAttended
<1>1. ServicesInv => RadarIsAttended
  <2>1. TRInv => TR!HeldIsWatched
    BY DEF TRInv
  <2> QED BY <2>1, BoundsGiven, WLLeaseLeavesOne, WLWorkingLooksHealthy DEF ServicesInv, RadarIsAttended
<1> QED BY <1>1, ServicesHold, PTL

\* Whoever evaluates the journal, on whatever frames: a verdict is the reference's
\* on the bars it was reached on, and the report card counts every row once, a
\* gain as a win (papertrade.py:77, 182).
THEOREM JournalIsJudged == ServicesSpec => [](JO!JudgesLikeTheReference /\ JO!ReportCardIsWhole)
<1>1. ServicesInv => JO!JudgesLikeTheReference /\ JO!ReportCardIsWhole
  BY BoundsGiven, JVReferenceI, JVWholeI DEF ServicesInv
<1> QED BY <1>1, ServicesHold, PTL

\* A right password is refused only within a lockout (and a wait for the row) of
\* a wrong one, after at least as many wrong ones as the limit (auth.py
\* authenticate).
THEOREM OwnerReturns == ServicesSpec => LL!OwnerComesBack
<1>1. ServicesInv /\ [ServicesNext]_servicesVars => [LLRefusal]_(LL!vars)
  BY EachMoves, BoundsGiven, LLOwnerReturns DEF ServicesInv
<1> QED BY <1>1, ServicesHold, PTL DEF ServicesSpec, LL!OwnerComesBack, LLRefusal

\* An event of the live feed is of a price that was traded after the price it is
\* compared with (app.py:2331).
THEOREM EventsTraded == ServicesSpec => EventsAreTraded
<1> DEFINE A == LF!MidFrame => told' \subseteq trail.prev
<1>1. ServicesInv /\ [ServicesNext]_servicesVars => [A]_(LF!vars)
  BY BoundsGiven, LFTold DEF ServicesInv
<1> QED BY <1>1, ServicesHold, PTL DEF ServicesSpec, EventsAreTraded, LF!EventsAreTraded

\* One thread on the SQLite file does what the PostgreSQL book does: each
\* transaction that commits is one call of TradeBook, each one that is lost
\* none (store.py, trades.py).
THEOREM OneThreadIsTradeBook == ServicesSpec => ImplementsTradeBook
<1>1. ServicesInit => S1!Book!Init
  BY DEF ServicesInit, S1!Init
<1>2. ServicesInv /\ [ServicesNext]_servicesVars => [S1!Book!Next]_(S1!Book!vars)
  BY EachMoves, S1Implements DEF ServicesInv
<1> QED BY <1>1, <1>2, ServicesHold, PTL
       DEF ServicesSpec, ImplementsTradeBook, S1!ImplementsTradeBook, S1!Book!Spec

\* What is settled changes only behind an overlapped call's back, and what comes
\* again counts once: a final verdict and an alert of the journal
\* (papertrade.py:145, paper_trades.py:30), a closed trade of the SQLite book
\* (store.py:593), a stored window (ohlcv.py:58), an import that is run again
\* (migrate_legacy_data.py).
THEOREM SettledStays == ServicesSpec => SettledOnce
<1> DEFINE Verdict == \A i \in DOMAIN rowsJO :
             rowsJO[i].status \in JO!Final /\ rowsJO'[i] # rowsJO[i] =>
               \E s \in Callers : task[s] # None /\ task'[s] = None
                 /\ task[s].listed[i].status \notin JO!Final
           Closed == \A id \in S2!Book!Rows :
             trades2[id].status = "closed" /\ trades2'[id] # trades2[id] =>
               \E t \in Callers : /\ id \in DOMAIN call2[t].old
                                  /\ call2[t].old[id].status # "closed"
           Stored == \A r \in Callers :
             reader[r].at = "upsert" /\ reader'[r].at = "fetched" /\ ~raced'[r] =>
               /\ {b \in MD!Bars : rowsMD'[b] # MD!NoRow} = MD!Window(reader[r].snap)
               /\ \A b \in MD!Window(reader[r].snap) : rowsMD'[b].snap = reader[r].snap
           Whole == LI!Imports /\ LI!Moves =>
             /\ LI!IdsOf(OldTrades) \subseteq LI!IdsOf(tradesLI') /\ tradesLI \subseteq tradesLI'
             /\ {p.id : p \in OldPapers} = papers'
             /\ lists \subseteq lists' /\ OldLists \subseteq lists' \cup removed
             /\ count' >= OldCount /\ count' >= count
           Again == imported /\ LI!Imports =>
             /\ tradesLI' = tradesLI /\ papers' = papers /\ count' = count
             /\ lists' \ lists \subseteq removed
<1>1. ServicesInv => JO!OnlyTheWorkerDoubles
  BY BoundsGiven, JODoublesI DEF ServicesInv
<1>2. ServicesInv /\ [ServicesNext]_servicesVars => [Verdict]_(JO!vars)
  BY EachMoves, BoundsGiven, JOFinalI DEF ServicesInv
<1>3. ServicesInv /\ [ServicesNext]_servicesVars => [Closed]_(S2!vars)
  BY EachMoves, S2FinalF DEF ServicesInv
<1>4. ServicesInv /\ [ServicesNext]_servicesVars => [Stored]_(MD!vars)
  BY EachMoves, BoundsGiven, MDLoneI DEF ServicesInv
<1>5. ServicesInv /\ [ServicesNext]_servicesVars => [Whole]_(LI!vars)
  BY EachMoves, BoundsGiven, LIWholeI DEF ServicesInv
<1>6. ServicesInv /\ [ServicesNext]_servicesVars => [Again]_(LI!vars)
  BY EachMoves, BoundsGiven, LIRerunI DEF ServicesInv
<1>7. ServicesSpec => JO!FinalYieldsOnlyToAnOlderReading
  BY <1>2, ServicesHold, PTL DEF ServicesSpec, JO!FinalYieldsOnlyToAnOlderReading
<1>8. ServicesSpec => []JO!OnlyTheWorkerDoubles
  BY <1>1, ServicesHold, PTL
<1>9. ServicesSpec => S2!FinalUnlessOverlapped
  BY <1>3, ServicesHold, PTL DEF ServicesSpec, S2!FinalUnlessOverlapped
<1>10. ServicesSpec => MD!LoneStoreReplaces
  BY <1>4, ServicesHold, PTL DEF ServicesSpec, MD!LoneStoreReplaces
<1>11. ServicesSpec => LI!ImportsAllOrNothing
  BY <1>5, ServicesHold, PTL DEF ServicesSpec, LI!ImportsAllOrNothing
<1>12. ServicesSpec => LI!RerunChangesNothing
  BY <1>6, ServicesHold, PTL DEF ServicesSpec, LI!RerunChangesNothing
<1> QED BY <1>7, <1>8, <1>9, <1>10, <1>11, <1>12, PTL DEF SettledOnce
=============================================================================
