--------------------------- MODULE TradeBookProofs ---------------------------
(***************************************************************************)
(* Proofs about TradeBook for every set of rows, owners, plans, prices and *)
(* readouts.  The inductive invariant is a property of one row, RowInv:    *)
(* mark and manage rewrite each row they select by a function of that row  *)
(* alone, so preservation is one lemma per such function.                  *)
(***************************************************************************)
EXTENDS TradeBook, SequenceTheorems, TLAPS

\* The stop of a row whose log holds a breakeven move is at breakeven or better.
RowProtected(r) ==
  (\E i \in 1..Len(r.events) : r.events[i].kind = "move_stop_breakeven")
    => r.stop >= r.plan.entry + Spread

RowInv(r) ==
  /\ r \in Row
  /\ StatusColumns(r)
  /\ RowCancelledNeverHeld(r)
  /\ RowTrailExplainsStop(r)
  /\ RowMovesJustified(r)
  /\ RowProtected(r)
  /\ RowBreakevenNeverLoses(r)
  /\ RowExpiryRunsFromFill(r)

IInv ==
  /\ trades \in [TradeIds -> Row \cup {None}]
  /\ now \in 0..MaxTime
  /\ \A id \in Rows : RowInv(trades[id])

\* The levels of a plan are positive integers in the order a long trade needs.
LEMMA PlanLevels ==
  ASSUME NEW p \in Plans
  PROVE  /\ p.entry \in Nat /\ p.stop \in Nat /\ p.target \in Nat
         /\ p.stop < p.entry /\ p.entry < p.target
         /\ p.horizon \in Nat
         /\ p.trigger \in Nat \cup {None}
BY PlanAssumption DEF PlanShape, Price, Level

\* Appending to the event log.
LEMMA AppendEvent ==
  ASSUME NEW s \in Seq(Event), NEW e \in Event
  PROVE  /\ Append(s, e) \in Seq(Event)
         /\ Len(Append(s, e)) = Len(s) + 1
         /\ Len(s) \in Nat
         /\ \A i \in 1..Len(s) : Append(s, e)[i] = s[i]
         /\ Append(s, e)[Len(s) + 1] = e
BY AppendProperties, LenProperties

LEMMA NewRowInv ==
  ASSUME NEW o \in Owners, NEW p \in Plans, now \in Nat
  PROVE  RowInv(NewRow(o, p))
<1> DEFINE r == NewRow(o, p)
<1>1. r \in Row
  BY PlanLevels DEF NewRow, Row, Active
<1>2. StatusColumns(r)
  BY <1>1, NoneAssumption DEF NewRow, StatusColumns
<1>3. r.events = <<>> /\ Len(r.events) = 0
  BY DEF NewRow
<1>4. RowCancelledNeverHeld(r)
  BY NoneAssumption DEF RowCancelledNeverHeld, NewRow
<1>5. RowTrailExplainsStop(r)
  BY <1>3, NoneAssumption DEF RowTrailExplainsStop, NewRow, Reasons
<1>6. RowMovesJustified(r) /\ RowProtected(r)
  BY <1>3 DEF RowMovesJustified, RowProtected
<1>7. RowBreakevenNeverLoses(r)
  BY <1>3 DEF RowBreakevenNeverLoses
<1>8. RowExpiryRunsFromFill(r)
  BY NoneAssumption DEF RowExpiryRunsFromFill, NewRow, Reasons
<1>9. QED
  BY <1>1, <1>2, <1>4, <1>5, <1>6, <1>7, <1>8 DEF RowInv

\* Closing a row: an order that was never filled is cancelled without a price;
\* a position leaves with a price, for another reason, and at its entry,
\* at its stop or better if the market closed it.
LEMMA FinishInv ==
  ASSUME NEW r, RowInv(r), r.status \in Active, now \in Nat,
         NEW x \in Int \cup {None}, NEW why \in Reasons \ {"weekend_flat"},
         why = "cancelled" <=> r.activated = None,
         x = None <=> r.activated = None,
         why \in {"stop_hit", "target_hit", "expired"} =>
           x >= r.plan.entry \/ x >= r.stop,
         why = "expired" => Elapsed(r, r.activated)
  PROVE  RowInv(Finish(r, x, why))
<1> DEFINE c == Finish(r, x, why)
<1>1. r \in Row
  BY DEF RowInv
<1>2. c \in Row
  BY <1>1 DEF Finish, Row
<1>3. /\ c.events = r.events /\ c.moves = r.moves /\ c.stop = r.stop
      /\ c.plan = r.plan /\ c.best = r.best /\ c.activated = r.activated
      /\ c.status = "closed" /\ c.reason = why /\ c.exit = x /\ c.closedAt = now
  BY <1>1 DEF Finish, Row
<1>4. r.reason = None
  BY DEF RowInv, StatusColumns, Active
<1>5. StatusColumns(c)
  BY <1>3, NoneAssumption DEF StatusColumns
<1>6. RowCancelledNeverHeld(c)
  BY <1>3 DEF RowCancelledNeverHeld
<1>7. RowTrailExplainsStop(c)
  BY <1>3, <1>4, NoneAssumption DEF RowInv, RowTrailExplainsStop, Reasons
<1>8. RowMovesJustified(c) /\ RowProtected(c)
  BY <1>3 DEF RowInv, RowMovesJustified, RowProtected, ReachedHalfRs
<1>9. RowBreakevenNeverLoses(c)
  <2>1. r.plan.entry \in Nat /\ r.stop \in Nat
    BY <1>1, PlanLevels DEF Row
  <2>2. QED
    BY <1>3, <2>1, NoneAssumption, BoundAssumption
       DEF RowInv, RowBreakevenNeverLoses, RowProtected
<1>10. RowExpiryRunsFromFill(c)
  BY <1>3 DEF RowExpiryRunsFromFill, Elapsed
<1>11. QED
  BY <1>2, <1>5, <1>6, <1>7, <1>8, <1>9, <1>10 DEF RowInv

\* Confirming the break and filling the order.
LEMMA ConfirmInv ==
  ASSUME NEW r, RowInv(r), r.status = "pending", now \in Nat
  PROVE  RowInv([r EXCEPT !.brokeOut = now])
<1> DEFINE c == [r EXCEPT !.brokeOut = now]
<1>1. r \in Row
  BY DEF RowInv
<1>2. c \in Row
  BY <1>1 DEF Row
<1>3. /\ c.events = r.events /\ c.moves = r.moves /\ c.stop = r.stop
      /\ c.plan = r.plan /\ c.best = r.best /\ c.activated = r.activated
      /\ c.status = r.status /\ c.reason = r.reason /\ c.exit = r.exit
      /\ c.closedAt = r.closedAt
  BY <1>1 DEF Row
<1>4. QED
  BY <1>2, <1>3 DEF RowInv, StatusColumns, RowCancelledNeverHeld, RowTrailExplainsStop,
     RowMovesJustified, ReachedHalfRs, RowProtected, RowBreakevenNeverLoses,
     RowExpiryRunsFromFill

LEMMA FillInv ==
  ASSUME NEW r, RowInv(r), r.status = "pending", now \in Nat
  PROVE  RowInv([r EXCEPT !.status = "open", !.activated = now])
<1> DEFINE c == [r EXCEPT !.status = "open", !.activated = now]
<1>1. r \in Row
  BY DEF RowInv
<1>2. c \in Row
  BY <1>1 DEF Row, Active
<1>3. /\ c.events = r.events /\ c.moves = r.moves /\ c.stop = r.stop
      /\ c.plan = r.plan /\ c.best = r.best /\ c.activated = now
      /\ c.status = "open" /\ c.reason = r.reason /\ c.exit = r.exit
      /\ c.closedAt = r.closedAt
  BY <1>1 DEF Row
<1>4. r.reason = None /\ r.closedAt = None
  BY DEF RowInv, StatusColumns
<1>5. StatusColumns(c)
  BY <1>3, <1>4, NoneAssumption DEF StatusColumns
<1>6. RowCancelledNeverHeld(c)
  BY <1>3 DEF RowInv, RowCancelledNeverHeld
<1>7. RowExpiryRunsFromFill(c)
  BY <1>3, <1>4, NoneAssumption DEF RowExpiryRunsFromFill, Reasons
<1>8. QED
  BY <1>2, <1>3, <1>5, <1>6, <1>7 DEF RowInv, RowTrailExplainsStop,
     RowMovesJustified, ReachedHalfRs, RowProtected, RowBreakevenNeverLoses

LEMMA MarkInv ==
  ASSUME NEW r, RowInv(r), r.status \in Active, now \in Nat,
         NEW price \in MarketPrices
  PROVE  RowInv(MarkRow(r, price))
<1>1. price \in Nat
  BY PriceAssumption DEF Price
<1>2. r.stop \in Nat /\ r.plan.entry \in Nat /\ r.plan.target \in Nat
      /\ r.plan.entry < r.plan.target
  BY PlanLevels DEF RowInv, Row
<1>3. CASE r.status = "pending"
  <2>1. r.activated = None
    BY <1>3 DEF RowInv, StatusColumns
  <2>2. RowInv(Finish(r, None, "cancelled"))
    BY <1>3, <2>1, FinishInv DEF Reasons
  <2>3. QED
    BY <1>3, <2>2, ConfirmInv, FillInv DEF MarkRow, MarkPending
<1>4. CASE r.status = "open"
  <2>1. r.activated # None
    BY <1>4 DEF RowInv, StatusColumns
  <2>2. RowInv(Finish(r, r.stop, "stop_hit"))
    BY <1>2, <2>1, FinishInv, NoneAssumption DEF Reasons
  <2>3. RowInv(Finish(r, r.plan.target, "target_hit"))
    BY <1>2, <2>1, FinishInv, NoneAssumption DEF Reasons
  <2>4. ASSUME price > r.stop, Elapsed(r, r.activated)
        PROVE  RowInv(Finish(r, price, "expired"))
    BY <1>1, <1>2, <2>1, <2>4, FinishInv, NoneAssumption DEF Reasons
  <2>5. QED
    BY <1>1, <1>2, <1>4, <2>2, <2>3, <2>4 DEF MarkRow, MarkOpen
<1>5. QED
  BY <1>3, <1>4 DEF Active

\* The levels manage computes are whole ticks.
LEMMA MoveShape ==
  ASSUME NEW r \in Row, NEW price \in MarketPrices, NEW ro \in Readouts
  PROVE  /\ Tighten(r, price, ro).kind \in {"trend_test_tighten", None}
         /\ Tighten(r, price, ro).level \in Int
         /\ TrailOrBreakeven(r, price, ro).kind \in
              {"trail_stop", "move_stop_breakeven", None}
         /\ TrailOrBreakeven(r, price, ro).level \in Int
         /\ TrailOrBreakeven(r, price, ro).kind = "trail_stop" =>
              AtHalfRs(r, price, 3)
         /\ TrailOrBreakeven(r, price, ro).kind = "move_stop_breakeven" =>
              /\ AtHalfRs(r, price, 2)
              /\ TrailOrBreakeven(r, price, ro).level = Breakeven(r)
<1>1. /\ ro.gap \in Nat
      /\ ro.ema8 \in Nat \cup {None}
      /\ ro.chandelier \in Nat \cup {None}
  BY ReadoutAssumption DEF ReadoutShape, Level, Price
<1>2. price \in Nat /\ r.stop \in Nat /\ r.plan.entry \in Nat /\ r.plan.stop \in Nat
  BY PriceAssumption, PlanLevels DEF Price, Row
<1>3. NoMove.kind = None /\ NoMove.level = 0
  BY DEF NoMove
<1>4. TrailLevel(r, ro) \in Int
  <2>1. ro.ema8 # None => UnderEma(ro.ema8) \in Int
    BY <1>1 DEF UnderEma, EmaBufferPerMille
  <2>2. QED
    BY <1>1, <1>2, <2>1 DEF TrailLevel, Higher
<1>5. Breakeven(r) \in Int
  BY <1>2, BoundAssumption DEF Breakeven
<1>6. /\ Tighten(r, price, ro).kind \in {"trend_test_tighten", None}
      /\ Tighten(r, price, ro).level \in Int
  BY <1>1, <1>2, <1>3 DEF Tighten
<1>7. QED
  BY <1>3, <1>4, <1>5, <1>6, NoneAssumption DEF TrailOrBreakeven, MoveKinds

\* A move that is applied lengthens the log by one justified entry.
LEMMA ApplyInv ==
  ASSUME NEW r, RowInv(r), r.status = "open", NEW m,
         m.kind \in MoveKinds \cup {None}, m.level \in Int,
         m.kind = "trail_stop" => ReachedHalfRs(r, 3),
         m.kind = "move_stop_breakeven" =>
           ReachedHalfRs(r, 2) /\ m.level = Breakeven(r)
  PROVE  /\ RowInv(Apply(r, m))
         /\ Apply(r, m).status = "open"
         /\ Apply(r, m).plan = r.plan
         /\ Apply(r, m).best = r.best
<1>1. CASE ~(m.kind # None /\ m.level > r.stop)
  BY <1>1 DEF Apply
<1>2. CASE m.kind # None /\ m.level > r.stop
  <2> DEFINE e == [kind |-> m.kind, old |-> r.stop, new |-> m.level]
             c == Apply(r, m)
  <2>1. r \in Row
    BY DEF RowInv
  <2>2. r.stop \in Nat /\ r.moves \in Nat /\ r.events \in Seq(Event)
        /\ r.plan.entry \in Nat
    BY <2>1, PlanLevels DEF Row
  <2>3. e \in Event
    BY <1>2, <2>2 DEF Event
  <2>4. c = [r EXCEPT !.stop = m.level, !.moves = @ + 1, !.events = Append(@, e)]
    BY <1>2 DEF Apply
  <2>5. c \in Row
    <3>1. m.level \in Nat /\ r.moves + 1 \in Nat
      BY <1>2, <2>2
    <3>2. Append(r.events, e) \in Seq(Event)
      BY <2>2, <2>3, AppendEvent
    <3> HIDE DEF e
    <3>3. QED
      BY <2>1, <2>4, <3>1, <3>2 DEF Row
  <2>6. /\ c.events = Append(r.events, e) /\ c.moves = r.moves + 1
        /\ c.stop = m.level /\ c.plan = r.plan /\ c.best = r.best
        /\ c.activated = r.activated /\ c.status = r.status
        /\ c.reason = r.reason /\ c.exit = r.exit /\ c.closedAt = r.closedAt
    BY <2>1, <2>4 DEF Row
  <2> HIDE DEF c
  <2>7. r.reason = None
    BY DEF RowInv, StatusColumns
  <2>8. /\ Len(c.events) = Len(r.events) + 1 /\ Len(r.events) \in Nat
        /\ \A i \in 1..Len(r.events) : c.events[i] = r.events[i]
        /\ c.events[Len(r.events) + 1] = e
    BY <2>2, <2>3, <2>6, AppendEvent
  <2>9. Len(r.events) = r.moves
    BY <2>2, <2>7, NoneAssumption DEF RowInv, RowTrailExplainsStop, Reasons
  <2>10. StatusColumns(c) /\ RowCancelledNeverHeld(c)
    BY <2>6 DEF RowInv, StatusColumns, RowCancelledNeverHeld
  <2>11. RowTrailExplainsStop(c)
    <3>1. Len(c.events) = c.moves + (IF c.reason = "weekend_flat" THEN 1 ELSE 0)
      BY <2>2, <2>6, <2>7, <2>8, <2>9, NoneAssumption DEF Reasons
    <3>2. ASSUME NEW i \in 1..Len(c.events)
          PROVE  c.events[i].old = IF i = 1 THEN c.plan.stop ELSE c.events[i-1].new
      <4>1. CASE i \in 1..Len(r.events)
        <5>1. r.events[i].old = IF i = 1 THEN r.plan.stop ELSE r.events[i-1].new
          BY <4>1 DEF RowInv, RowTrailExplainsStop
        <5>2. i # 1 => i - 1 \in 1..Len(r.events)
          BY <2>8, <4>1
        <5>3. QED
          BY <2>6, <2>8, <4>1, <5>1, <5>2
      <4>2. CASE i = Len(r.events) + 1
        <5>1. c.events[i].old = r.stop
          BY <2>8, <4>2
        <5>2. r.stop = IF r.moves = 0 THEN r.plan.stop ELSE r.events[r.moves].new
          BY DEF RowInv, RowTrailExplainsStop
        <5>3. r.moves # 0 => c.events[i-1] = r.events[r.moves]
          <6>1. r.moves # 0 => r.moves \in 1..Len(r.events)
            BY <2>2, <2>9
          <6>2. i - 1 = r.moves
            BY <2>2, <2>9, <4>2
          <6>3. QED
            BY <2>8, <6>1, <6>2
        <5>4. QED
          BY <2>2, <2>6, <2>9, <4>2, <5>1, <5>2, <5>3
      <4>3. QED
        BY <2>8, <4>1, <4>2
    <3>3. ASSUME NEW i \in 1..c.moves
          PROVE  c.events[i].kind \in MoveKinds /\ c.events[i].new > c.events[i].old
      <4>1. CASE i \in 1..r.moves
        BY <2>8, <2>9, <4>1 DEF RowInv, RowTrailExplainsStop
      <4>2. CASE i = r.moves + 1
        BY <1>2, <2>8, <2>9, <4>2
      <4>3. i \in 1..r.moves \/ i = r.moves + 1
        BY <2>2, <2>6
      <4>4. QED
        BY <4>1, <4>2, <4>3
    <3>4. c.stop = IF c.moves = 0 THEN c.plan.stop ELSE c.events[c.moves].new
      BY <2>2, <2>6, <2>8, <2>9
    <3>5. QED
      BY <3>1, <3>2, <3>3, <3>4 DEF RowTrailExplainsStop
  <2>12. RowMovesJustified(c)
    <3>1. ASSUME NEW i \in 1..Len(c.events)
          PROVE  /\ c.events[i].kind = "move_stop_breakeven" => ReachedHalfRs(c, 2)
                 /\ c.events[i].kind = "trail_stop" => ReachedHalfRs(c, 3)
      <4>1. CASE i \in 1..Len(r.events)
        BY <2>6, <2>8, <4>1 DEF RowInv, RowMovesJustified, ReachedHalfRs
      <4>2. CASE i = Len(r.events) + 1
        BY <2>6, <2>8, <4>2 DEF ReachedHalfRs
      <4>3. QED
        BY <2>8, <4>1, <4>2
    <3>2. QED
      BY <3>1 DEF RowMovesJustified
  <2>13. RowProtected(c)
    <3>1. SUFFICES ASSUME NEW i \in 1..Len(c.events),
                          c.events[i].kind = "move_stop_breakeven"
                   PROVE  c.stop >= c.plan.entry + Spread
      BY DEF RowProtected
    <3>2. CASE i \in 1..Len(r.events)
      <4>1. r.stop >= r.plan.entry + Spread
        BY <2>8, <3>1, <3>2 DEF RowInv, RowProtected
      <4>2. QED
        BY <1>2, <2>2, <2>6, <4>1, BoundAssumption
    <3>3. CASE i = Len(r.events) + 1
      BY <2>2, <2>6, <2>8, <3>1, <3>3, BoundAssumption DEF Breakeven
    <3>4. QED
      BY <2>8, <3>2, <3>3
  <2>14. RowBreakevenNeverLoses(c)
    BY <2>6, <2>7, NoneAssumption DEF RowBreakevenNeverLoses, Reasons
  <2>15. RowExpiryRunsFromFill(c)
    BY <2>6, <2>7, NoneAssumption DEF RowExpiryRunsFromFill, Reasons
  <2>16. QED
    BY <2>5, <2>6, <2>10, <2>11, <2>12, <2>13, <2>14, <2>15 DEF RowInv, c
<1>3. QED
  BY <1>1, <1>2

\* Recording a price: the best price only rises.
LEMMA SeenInv ==
  ASSUME NEW r, RowInv(r), r.status = "open", NEW price \in MarketPrices
  PROVE  /\ RowInv(Seen(r, price))
         /\ Seen(r, price).status = "open"
         /\ Seen(r, price).plan = r.plan
         /\ Seen(r, price).stop = r.stop
         /\ Seen(r, price).best \in Nat
         /\ Seen(r, price).best >= price
<1> DEFINE c == Seen(r, price)
<1>1. r \in Row
  BY DEF RowInv
<1>2. price \in Nat /\ r.best \in Nat /\ r.plan.entry \in Nat /\ r.plan.stop \in Nat
  BY <1>1, PriceAssumption, PlanLevels DEF Price, Row
<1>3. /\ c.events = r.events /\ c.moves = r.moves /\ c.stop = r.stop
      /\ c.plan = r.plan /\ c.activated = r.activated
      /\ c.status = r.status /\ c.reason = r.reason /\ c.exit = r.exit
      /\ c.closedAt = r.closedAt /\ c.best = Higher(r.best, price)
  BY <1>1 DEF Seen, Row
<1>4. c.best \in Nat /\ c.best >= price /\ c.best >= r.best
  BY <1>2, <1>3 DEF Higher
<1>5. c \in Row
  BY <1>1, <1>2 DEF Seen, Row, Higher
<1> HIDE DEF c
<1>6. RowMovesJustified(c)
  <2>1. /\ ReachedHalfRs(r, 2) => ReachedHalfRs(c, 2)
        /\ ReachedHalfRs(r, 3) => ReachedHalfRs(c, 3)
    BY <1>2, <1>3, <1>4 DEF ReachedHalfRs
  <2>2. QED
    BY <1>3, <2>1 DEF RowInv, RowMovesJustified
<1>7. QED
  BY <1>3, <1>4, <1>5, <1>6 DEF RowInv, StatusColumns, RowCancelledNeverHeld,
     RowTrailExplainsStop, RowProtected, RowBreakevenNeverLoses,
     RowExpiryRunsFromFill, c

\* The weekend safeguard closes the row and logs it as the last entry.
LEMMA FlattenInv ==
  ASSUME NEW r, RowInv(r), r.status = "open", now \in Nat,
         NEW price \in MarketPrices
  PROVE  RowInv(Flatten(r, price))
<1> DEFINE e == [kind |-> "weekend_flat", old |-> r.stop, new |-> None]
           f == Finish(r, price - Spread, "weekend_flat")
           c == Flatten(r, price)
<1>1. r \in Row
  BY DEF RowInv
<1>2. /\ r.stop \in Nat /\ r.moves \in Nat /\ r.events \in Seq(Event)
      /\ price - Spread \in Int
  BY <1>1, PriceAssumption, BoundAssumption DEF Row, Price
<1>3. e \in Event
  BY <1>2 DEF Event
<1>4. f \in Row /\ f.events = r.events
  BY <1>1, <1>2 DEF Finish, Row, Reasons
<1>5. c = [f EXCEPT !.events = Append(@, e)]
  BY DEF Flatten
<1>6. c \in Row
  <2>1. Append(f.events, e) \in Seq(Event)
    BY <1>2, <1>3, <1>4, AppendEvent
  <2> HIDE DEF e, f, c
  <2>2. QED
    BY <1>4, <1>5, <2>1 DEF Row
<1>7. /\ f.moves = r.moves /\ f.stop = r.stop /\ f.plan = r.plan
      /\ f.best = r.best /\ f.activated = r.activated /\ f.status = "closed"
      /\ f.reason = "weekend_flat" /\ f.exit = price - Spread /\ f.closedAt = now
  BY <1>1 DEF Finish, Row
<1> HIDE DEF e, f, c
<1>8. /\ c.events = Append(r.events, e) /\ c.moves = r.moves
      /\ c.stop = r.stop /\ c.plan = r.plan /\ c.best = r.best
      /\ c.activated = r.activated /\ c.status = "closed"
      /\ c.reason = "weekend_flat" /\ c.exit = price - Spread /\ c.closedAt = now
  BY <1>4, <1>5, <1>7 DEF Row
<1>9. r.reason = None /\ r.activated # None
  BY DEF RowInv, StatusColumns
<1>10. /\ Len(c.events) = Len(r.events) + 1 /\ Len(r.events) \in Nat
       /\ \A i \in 1..Len(r.events) : c.events[i] = r.events[i]
       /\ c.events[Len(r.events) + 1] = e
  BY <1>2, <1>3, <1>8, AppendEvent
<1>11. Len(r.events) = r.moves
  BY <1>2, <1>9, NoneAssumption DEF RowInv, RowTrailExplainsStop, Reasons
<1>12. StatusColumns(c) /\ RowCancelledNeverHeld(c)
  BY <1>2, <1>8, <1>9, NoneAssumption DEF StatusColumns, RowCancelledNeverHeld, Reasons
<1>13. RowTrailExplainsStop(c)
  <2>1. Len(c.events) = c.moves + (IF c.reason = "weekend_flat" THEN 1 ELSE 0)
    BY <1>8, <1>10, <1>11
  <2>2. ASSUME NEW i \in 1..Len(c.events)
        PROVE  c.events[i].old = IF i = 1 THEN c.plan.stop ELSE c.events[i-1].new
    <3>1. CASE i \in 1..Len(r.events)
      <4>1. r.events[i].old = IF i = 1 THEN r.plan.stop ELSE r.events[i-1].new
        BY <3>1 DEF RowInv, RowTrailExplainsStop
      <4>2. i # 1 => i - 1 \in 1..Len(r.events)
        BY <1>10, <3>1
      <4>3. QED
        BY <1>8, <1>10, <3>1, <4>1, <4>2
    <3>2. CASE i = Len(r.events) + 1
      <4>1. c.events[i].old = r.stop
        BY <1>10, <3>2 DEF e
      <4>2. r.stop = IF r.moves = 0 THEN r.plan.stop ELSE r.events[r.moves].new
        BY DEF RowInv, RowTrailExplainsStop
      <4>3. r.moves # 0 => r.moves \in 1..Len(r.events)
        BY <1>2, <1>11
      <4>4. i - 1 = r.moves
        BY <1>2, <1>11, <3>2
      <4>5. r.moves # 0 => c.events[i-1] = r.events[r.moves]
        BY <1>10, <4>3, <4>4
      <4>6. i = 1 <=> r.moves = 0
        BY <1>2, <1>11, <3>2
      <4>7. QED
        BY <1>8, <4>1, <4>2, <4>5, <4>6
    <3>3. QED
      BY <1>10, <3>1, <3>2
  <2>3. ASSUME NEW i \in 1..c.moves
        PROVE  c.events[i].kind \in MoveKinds /\ c.events[i].new > c.events[i].old
    BY <1>8, <1>10, <1>11 DEF RowInv, RowTrailExplainsStop
  <2>4. c.stop = IF c.moves = 0 THEN c.plan.stop ELSE c.events[c.moves].new
    <3>1. r.moves # 0 => r.moves \in 1..Len(r.events)
      BY <1>2, <1>11
    <3>2. QED
      BY <1>8, <1>10, <3>1 DEF RowInv, RowTrailExplainsStop
  <2>5. QED
    BY <2>1, <2>2, <2>3, <2>4 DEF RowTrailExplainsStop
<1>14. \A i \in 1..Len(c.events) : i \in 1..Len(r.events) \/ c.events[i] = e
  BY <1>10
<1>15. RowMovesJustified(c) /\ RowProtected(c)
  BY <1>8, <1>10, <1>14
     DEF RowInv, RowMovesJustified, RowProtected, ReachedHalfRs, e
<1>16. RowBreakevenNeverLoses(c) /\ RowExpiryRunsFromFill(c)
  BY <1>8 DEF RowBreakevenNeverLoses, RowExpiryRunsFromFill
<1>17. QED
  BY <1>6, <1>12, <1>13, <1>15, <1>16 DEF RowInv, c

LEMMA ManageInv ==
  ASSUME NEW r, RowInv(r), r.status = "open", now \in Nat,
         NEW price \in MarketPrices, NEW ro \in Readouts, NEW ff \in BOOLEAN
  PROVE  RowInv(ManageRow(r, price, ro, ff))
<1> DEFINE s  == Seen(r, price)
           m1 == Tighten(r, price, ro)
           m2 == TrailOrBreakeven(r, price, ro)
<1>1. r \in Row
  BY DEF RowInv
<1>2. /\ RowInv(s) /\ s.status = "open" /\ s.plan = r.plan
      /\ s.best \in Nat /\ s.best >= price
  BY SeenInv
<1>3. /\ m1.kind \in {"trend_test_tighten", None} /\ m1.level \in Int
      /\ m2.kind \in {"trail_stop", "move_stop_breakeven", None} /\ m2.level \in Int
      /\ m2.kind = "trail_stop" => AtHalfRs(r, price, 3)
      /\ m2.kind = "move_stop_breakeven" =>
           AtHalfRs(r, price, 2) /\ m2.level = Breakeven(r)
  BY <1>1, MoveShape
<1>4. r.plan.entry \in Nat /\ r.plan.stop \in Nat /\ price \in Nat
  BY <1>1, PriceAssumption, PlanLevels DEF Row, Price
<1>5. /\ AtHalfRs(r, price, 2) => ReachedHalfRs(s, 2)
      /\ AtHalfRs(r, price, 3) => ReachedHalfRs(s, 3)
  <2> HIDE DEF s
  <2> QED
    BY <1>2, <1>4 DEF AtHalfRs, ReachedHalfRs, Risk
<1> HIDE DEF s, m1, m2
<1>6. /\ RowInv(Apply(s, m1)) /\ Apply(s, m1).status = "open"
      /\ Apply(s, m1).plan = s.plan /\ Apply(s, m1).best = s.best
  BY <1>2, <1>3, ApplyInv, NoneAssumption DEF MoveKinds
<1>7. /\ m2.kind = "trail_stop" => ReachedHalfRs(Apply(s, m1), 3)
      /\ m2.kind = "move_stop_breakeven" =>
           /\ ReachedHalfRs(Apply(s, m1), 2)
           /\ m2.level = Breakeven(Apply(s, m1))
  BY <1>2, <1>3, <1>5, <1>6 DEF ReachedHalfRs, Breakeven
<1>8. RowInv(Apply(Apply(s, m1), m2))
  BY <1>3, <1>6, <1>7, ApplyInv DEF MoveKinds
<1>9. RowInv(Flatten(s, price))
  BY <1>2, FlattenInv
<1>10. QED
  BY <1>8, <1>9 DEF ManageRow, s, m1, m2

-----------------------------------------------------------------------------
(* Every step of the book rewrites rows the way one of the lemmas above     *)
(* allows.                                                                  *)

\* What a step does to a row: nothing, unless the row is active; then it keeps
\* the row's owner and plan, and a pending row opens only if it has broken out.
Rewrites(r, n) ==
  \/ n = r
  \/ /\ r.status \in Active
     /\ RowInv(n)
     /\ n.owner = r.owner /\ n.plan = r.plan
     /\ r.status = "pending" /\ n.status = "open" => r.brokeOut # None

BookStep ==
  /\ trades' = [id \in TradeIds |-> trades'[id]]
  /\ \A id \in TradeIds :
       IF trades[id] = None
         THEN \/ trades'[id] = None
              \/ \E o \in Owners, p \in Plans :
                   trades'[id] = NewRow(o, p) /\ ActiveFor(o, p.trader) = {}
         ELSE Rewrites(trades[id], trades'[id])
  /\ \A i, j \in TradeIds :
       trades'[i] # trades[i] /\ trades'[j] # trades[j]
         /\ trades[i] = None /\ trades[j] = None => i = j

LEMMA FinishRewrites ==
  ASSUME NEW r, RowInv(r), r.status \in Active, now \in Nat,
         NEW x, NEW why, RowInv(Finish(r, x, why))
  PROVE  Rewrites(r, Finish(r, x, why))
BY DEF Rewrites, RowInv, Row, Finish

LEMMA MarkRewrites ==
  ASSUME NEW r, RowInv(r), r.status \in Active, now \in Nat,
         NEW price \in MarketPrices
  PROVE  Rewrites(r, MarkRow(r, price))
<1> DEFINE n == MarkRow(r, price)
<1>1. r \in Row
  BY DEF RowInv
<1>2. RowInv(n)
  BY MarkInv
<1>3. n.owner = r.owner /\ n.plan = r.plan
  BY <1>1 DEF MarkRow, MarkPending, MarkOpen, Finish, Row
<1>4. r.status = "pending" /\ n.status = "open" => r.brokeOut # None
  BY <1>1 DEF MarkRow, MarkPending, Finish, Row
<1>5. QED
  BY <1>2, <1>3, <1>4 DEF Rewrites

LEMMA ManageRewrites ==
  ASSUME NEW r, RowInv(r), r.status = "open", now \in Nat,
         NEW price \in MarketPrices, NEW ro \in Readouts, NEW ff \in BOOLEAN
  PROVE  Rewrites(r, ManageRow(r, price, ro, ff))
<1> DEFINE n == ManageRow(r, price, ro, ff)
<1>1. r \in Row
  BY DEF RowInv
<1>2. RowInv(n)
  BY ManageInv
<1>3. \A m, s : s \in Row => Apply(s, m).owner = s.owner /\ Apply(s, m).plan = s.plan
  BY DEF Apply, Row
<1>4. n.owner = r.owner /\ n.plan = r.plan
  <2> DEFINE s  == Seen(r, price)
             m1 == Tighten(r, price, ro)
             m2 == TrailOrBreakeven(r, price, ro)
  <2>1. s.owner = r.owner /\ s.plan = r.plan /\ RowInv(s) /\ s.status = "open"
    BY <1>1, SeenInv DEF Seen, Row
  <2>2. Flatten(s, price).owner = s.owner /\ Flatten(s, price).plan = s.plan
    BY <2>1 DEF Flatten, Finish, RowInv, Row
  <2> HIDE DEF s, m1, m2
  <2>3. Apply(s, m1).owner = s.owner /\ Apply(s, m1).plan = s.plan
    BY <1>3, <2>1 DEF RowInv
  <2>4. Apply(Apply(s, m1), m2).owner = Apply(s, m1).owner
        /\ Apply(Apply(s, m1), m2).plan = Apply(s, m1).plan
    BY DEF Apply
  <2>5. QED
    BY <2>1, <2>2, <2>3, <2>4 DEF ManageRow, s, m1, m2
<1>5. QED
  BY <1>2, <1>4 DEF Rewrites, Active

LEMMA StepShape ==
  ASSUME IInv, Next
  PROVE  /\ BookStep
         /\ now' \in 0..MaxTime
<1>1. /\ trades \in [TradeIds -> Row \cup {None}]
      /\ now \in 0..MaxTime /\ now \in Nat
      /\ \A id \in TradeIds : trades[id] # None => RowInv(trades[id])
  BY BoundAssumption DEF IInv, Rows
<1>2. ASSUME NEW id \in TradeIds, NEW o \in Owners, NEW p \in Plans, Open(id, o, p)
      PROVE  BookStep
  BY <1>1, <1>2 DEF Open, BookStep, Rewrites
<1>3. ASSUME NEW id \in TradeIds, NEW px \in MarketPrices \cup {None}, Close(id, px)
      PROVE  BookStep
  <2>1. trades[id] # None /\ RowInv(trades[id]) /\ trades[id].status \in Active
    BY <1>1, <1>3 DEF Close, IsActive
  <2>2. ASSUME NEW x, NEW why, RowInv(Finish(trades[id], x, why)),
               trades' = [trades EXCEPT ![id] = Finish(@, x, why)]
        PROVE  BookStep
    <3>1. Rewrites(trades[id], trades'[id])
      BY <1>1, <2>1, <2>2, FinishRewrites
    <3>2. QED
      BY <1>1, <2>1, <2>2, <3>1 DEF BookStep, Rewrites
  <2>3. CASE trades[id].status = "pending"
    <3>1. trades[id].activated = None
      BY <2>1, <2>3 DEF RowInv, StatusColumns
    <3>2. RowInv(Finish(trades[id], None, "cancelled"))
      BY <1>1, <2>1, <3>1, FinishInv DEF Reasons
    <3>3. QED
      BY <1>3, <2>2, <2>3, <3>2 DEF Close
  <2>4. CASE trades[id].status = "open"
    <3>1. trades[id].activated # None
      BY <2>1, <2>4 DEF RowInv, StatusColumns
    <3> DEFINE x == ExitPrice(trades[id], px)
    <3>2. x # None /\ x \in Int
      <4>1. trades[id].plan.entry \in Int
        BY <2>1, PlanLevels DEF RowInv, Row
      <4>2. px # None => px \in Int
        BY PriceAssumption DEF Price
      <4>3. x \in Int
        BY <4>1, <4>2 DEF ExitPrice
      <4>4. QED
        BY <4>3, NoneAssumption
    <3> HIDE DEF x
    <3>3. RowInv(Finish(trades[id], x, "manual"))
      BY <1>1, <2>1, <3>1, <3>2, FinishInv DEF Reasons
    <3>4. QED
      BY <1>3, <2>2, <2>4, <3>3 DEF Close, x
  <2>5. QED
    BY <2>1, <2>3, <2>4 DEF Active
<1>4. ASSUME NEW o \in Owners, NEW price \in MarketPrices, Mark(o, price)
      PROVE  BookStep
  <2>1. \A id \in TradeIds :
          Marked(id, o) => Rewrites(trades[id], MarkRow(trades[id], price))
    BY <1>1, MarkRewrites DEF Marked, IsActive
  <2>2. QED
    BY <1>4, <2>1 DEF Mark, Marked, IsActive, BookStep, Rewrites
<1>5. ASSUME NEW o \in Owners, NEW price \in MarketPrices, NEW ro \in Readouts,
             NEW ff \in BOOLEAN, Manage(o, price, ro, ff)
      PROVE  BookStep
  <2>1. \A id \in TradeIds :
          Managed(id, o) => Rewrites(trades[id], ManageRow(trades[id], price, ro, ff))
    BY <1>1, ManageRewrites DEF Managed
  <2>2. QED
    BY <1>5, <2>1 DEF Manage, Managed, BookStep, Rewrites
<1>6. ASSUME Tick
      PROVE  BookStep
  BY <1>1, <1>6 DEF Tick, BookStep, Rewrites
<1>7. now' \in 0..MaxTime
  BY <1>1, BoundAssumption DEF Next, Open, Close, Mark, Manage, Tick
<1>8. QED
  BY <1>2, <1>3, <1>4, <1>5, <1>6, <1>7 DEF Next

-----------------------------------------------------------------------------
(* The theorems.                                                            *)

LEMMA InitIInv == Init => IInv /\ OneActivePerTrader
BY BoundAssumption DEF Init, IInv, Rows, OneActivePerTrader

LEMMA StepIInv == IInv /\ [Next]_vars => IInv'
<1>1. CASE UNCHANGED vars
  BY <1>1 DEF vars, IInv, Rows
<1>2. ASSUME IInv, Next
      PROVE  IInv'
  <2>1. BookStep /\ now' \in 0..MaxTime /\ now \in Nat
    BY <1>2, StepShape, BoundAssumption DEF IInv
  <2>2. ASSUME NEW id \in TradeIds, trades'[id] # None
        PROVE  RowInv(trades'[id])
    <3>1. CASE trades[id] = None
      BY <2>1, <2>2, <3>1, NewRowInv DEF BookStep
    <3>2. CASE trades[id] # None
      BY <1>2, <2>1, <3>2 DEF BookStep, Rewrites, IInv, Rows
    <3>3. QED
      BY <3>1, <3>2
  <2>3. trades' \in [TradeIds -> Row \cup {None}]
    <3>1. \A id \in TradeIds : trades'[id] \in Row \cup {None}
      BY <2>2 DEF RowInv
    <3>2. QED
      BY <2>1, <3>1 DEF BookStep
  <2>4. QED
    BY <2>1, <2>2, <2>3 DEF IInv, Rows
<1>3. QED
  BY <1>1, <1>2

\* Filling, closing and re-opening keep one active row per owner and trader.
LEMMA StepOneActive ==
  IInv /\ OneActivePerTrader /\ [Next]_vars => OneActivePerTrader'
<1>1. CASE UNCHANGED vars
  BY <1>1 DEF vars, OneActivePerTrader, Rows, IsActive
<1>2. ASSUME IInv, OneActivePerTrader, Next
      PROVE  OneActivePerTrader'
  <2>1. BookStep
    BY <1>2, StepShape
  <2>2. SUFFICES ASSUME NEW i \in TradeIds, NEW j \in TradeIds,
                        trades'[i] # None, trades'[j] # None,
                        trades'[i].status \in Active, trades'[j].status \in Active,
                        trades'[i].owner = trades'[j].owner,
                        trades'[i].plan.trader = trades'[j].plan.trader
                 PROVE  i = j
    BY DEF OneActivePerTrader, Rows, IsActive
  <2>3. ASSUME NEW k \in TradeIds, trades[k] # None, trades'[k].status \in Active
        PROVE  /\ trades[k].status \in Active
               /\ trades[k].owner = trades'[k].owner
               /\ trades[k].plan = trades'[k].plan
    BY <2>1, <2>3 DEF BookStep, Rewrites
  <2>4. ASSUME NEW k \in TradeIds, trades[k] = None, trades'[k] # None
        PROVE  ActiveFor(trades'[k].owner, trades'[k].plan.trader) = {}
    BY <2>1, <2>4 DEF BookStep, NewRow
  <2>5. CASE trades[i] # None /\ trades[j] # None
    BY <1>2, <2>2, <2>3, <2>5 DEF OneActivePerTrader, Rows, IsActive
  <2>6. CASE trades[i] = None /\ trades[j] # None
    BY <2>2, <2>3, <2>4, <2>6 DEF ActiveFor, IsActive
  <2>7. CASE trades[i] # None /\ trades[j] = None
    BY <2>2, <2>3, <2>4, <2>7 DEF ActiveFor, IsActive
  <2>8. CASE trades[i] = None /\ trades[j] = None
    BY <2>1, <2>2, <2>8 DEF BookStep
  <2>9. QED
    BY <2>5, <2>6, <2>7, <2>8
<1>3. QED
  BY <1>1, <1>2

LEMMA IInvHolds == Spec => []IInv
BY InitIInv, StepIInv, PTL DEF Spec

\* The tables keep their shape, and every status its columns, under any order
\* of calls (TradeRepository).
THEOREM TypeCorrect == Spec => []TypeOK
<1>1. IInv => TypeOK
  BY DEF IInv, TypeOK, RowInv
<1>2. QED
  BY <1>1, IInvHolds, PTL

\* A trader never holds two active rows of one user and ticker: the partial
\* unique index is enough, because no call activates a row that is not active.
THEOREM OneActive == Spec => []OneActivePerTrader
<1>1. IInv /\ OneActivePerTrader /\ [Next]_vars => (IInv /\ OneActivePerTrader)'
  BY StepIInv, StepOneActive
<1>2. QED
  BY <1>1, InitIInv, PTL DEF Spec

\* A row is cancelled exactly when it was never filled, and has no price then.
THEOREM Cancellations == Spec => []CancelledNeverHeld
<1>1. IInv => CancelledNeverHeld
  BY DEF IInv, CancelledNeverHeld, RowInv
<1>2. QED
  BY <1>1, IInvHolds, PTL

\* The event log accounts for every change of every stop, and no change lowers
\* one.
THEOREM StopsExplained == Spec => []TrailExplainsStop
<1>1. IInv => TrailExplainsStop
  BY DEF IInv, TrailExplainsStop, RowInv
<1>2. QED
  BY <1>1, IInvHolds, PTL

\* No breakeven or trailing move without the excursion manage.py asks for.
THEOREM MovesJustified == Spec => []MovesJustifiedByExcursion
<1>1. IInv => MovesJustifiedByExcursion
  BY DEF IInv, MovesJustifiedByExcursion, RowInv
<1>2. QED
  BY <1>1, IInvHolds, PTL

\* A position moved to breakeven is never closed at a loss by a mark, for every
\* spread, plan, price and readout.
THEOREM CannotLose == Spec => []BreakevenNeverLoses
<1>1. IInv => BreakevenNeverLoses
  BY DEF IInv, BreakevenNeverLoses, RowInv
<1>2. QED
  BY <1>1, IInvHolds, PTL

\* The holding period of an expired position is counted from its fill.
THEOREM ExpiryFromFill == Spec => []ExpiryRunsFromFill
<1>1. IInv => ExpiryRunsFromFill
  BY DEF IInv, ExpiryRunsFromFill, RowInv
<1>2. QED
  BY <1>1, IInvHolds, PTL

\* No call changes a closed row.
THEOREM ClosedFinal == Spec => ClosedIsFinal
<1>1. ASSUME IInv, [Next]_vars
      PROVE  [\A id \in Rows :
                trades[id].status = "closed" => trades'[id] = trades[id]]_vars
  BY <1>1, StepShape DEF BookStep, Rewrites, Active, Rows, vars
<1>2. QED
  BY <1>1, IInvHolds, PTL DEF Spec, ClosedIsFinal

\* No order fills on the call that confirms its breakout.
THEOREM FillAfterBreakout == Spec => FillNeedsEarlierBreakout
<1>1. ASSUME IInv, [Next]_vars
      PROVE  [\A id \in Rows :
                trades[id].status = "pending" /\ trades'[id].status = "open" =>
                  trades[id].brokeOut # None]_vars
  BY <1>1, StepShape DEF BookStep, Rewrites, Rows, vars
<1>2. QED
  BY <1>1, IInvHolds, PTL DEF Spec, FillNeedsEarlierBreakout

=============================================================================
