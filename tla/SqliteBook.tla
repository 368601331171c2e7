----------------------------- MODULE SqliteBook -----------------------------
(***************************************************************************)
(* The virtual book without a database server: data/store.py keeps the     *)
(* trades in a SQLite file that several Streamlit threads use, each over a *)
(* connection of its own.  A call first SELECTs the rows it wants, outside *)
(* any transaction; its first UPDATE takes the file's write lock and its   *)
(* commit gives it back.  So a call is two steps here: what it read and    *)
(* made of it, and the one write, which finds its rows by id alone.        *)
(*                                                                         *)
(* What a row becomes is what TradeBook says: the rules of store.py are    *)
(* those of db/repositories/trades.py.  With one thread the two steps are  *)
(* one call of TradeBook; with two they are not.                           *)
(***************************************************************************)
EXTENDS Integers, Sequences

CONSTANTS TradeIds, Owners, Plans, MarketPrices, Readouts, Spread, MaxTime, None,
  Threads   \* Streamlit's script threads, a connection each

VARIABLES
  trades, now,   \* as in TradeBook
  call           \* call[t]: the rows the call of t read, and what it makes of them

vars == <<trades, now, call>>

Book == INSTANCE TradeBook

\* What TradeBook assumes of its constants.
BookAssumption ==
  /\ MarketPrices \subseteq Book!Price
  /\ Plans \subseteq Book!PlanShape
  /\ \A p \in Plans : p.stop < p.entry /\ p.entry < p.target
  /\ Readouts \subseteq Book!ReadoutShape
  /\ Spread \in Nat /\ MaxTime \in Nat
  /\ None \notin Int

NoCall == [old |-> <<>>, new |-> <<>>]

InCall(t) == call[t] # NoCall

\* A call that changes nothing writes nothing: only the rows that differ count.
Begin(t, new) ==
  LET ids == {id \in DOMAIN new : new[id] # trades[id]}
  IN  /\ ~InCall(t)
      /\ ids # {}
      /\ call' = [call EXCEPT ![t] = [old |-> [id \in ids |-> trades[id]],
                                      new |-> [id \in ids |-> new[id]]]]
      /\ UNCHANGED <<trades, now>>

\* has_open_trade, then insert_trade: no index refuses a second active row.
BeginOpen(t, id, o, p) ==
  /\ trades[id] = None
  /\ \A u \in Threads : id \notin DOMAIN call[u].new
  /\ Book!ActiveFor(o, p.trader) = {}
  /\ Begin(t, [i \in {id} |-> Book!NewRow(o, p)])

\* Mutant: an armed order is closed like a position.
ClosedIgnoringPending(r, px) == Book!Finish(r, Book!ExitPrice(r, px), "manual")

\* close_trade: an armed order is cancelled, a position closed at the price.
Closed(r, px) ==
  IF r.status = "pending"
    THEN Book!Finish(r, None, "cancelled")
    ELSE Book!Finish(r, Book!ExitPrice(r, px), "manual")

BeginClose(t, id, px) ==
  /\ Book!IsActive(id)
  /\ Begin(t, [i \in {id} |-> Closed(trades[id], px)])

BeginMark(t, o, price) ==
  Begin(t, [id \in {i \in TradeIds : Book!Marked(i, o)} |->
              Book!MarkRow(trades[id], price)])

BeginManage(t, o, price, ro, fridayFlat) ==
  Begin(t, [id \in {i \in TradeIds : Book!Managed(i, o)} |->
              Book!ManageRow(trades[id], price, ro, fridayFlat)])

\* UPDATE ... WHERE id=?: the columns the call sets; stop_moves is added to,
\* trade_events gets its rows appended, the rest of the row is what it is now.
Written(cur, old, new) ==
  IF old = None THEN new
  ELSE [c \in DOMAIN cur |->
          CASE c = "moves" -> cur.moves + new.moves - old.moves
            [] c = "events" -> cur.events \o SubSeq(new.events, Len(old.events) + 1,
                                                    Len(new.events))
            [] new[c] # old[c] -> new[c]
            [] OTHER -> cur[c]]

Commit(t) ==
  /\ InCall(t)
  /\ trades' = [id \in TradeIds |->
                  IF id \in DOMAIN call[t].new
                    THEN Written(trades[id], call[t].old[id], call[t].new[id])
                    ELSE trades[id]]
  /\ call' = [call EXCEPT ![t] = NoCall]
  /\ UNCHANGED now

\* The thread dies, or waits five seconds for the write lock in vain.
Lost(t) ==
  /\ InCall(t)
  /\ call' = [call EXCEPT ![t] = NoCall]
  /\ UNCHANGED <<trades, now>>

\* A call takes no time on a clock that counts days.
Tick ==
  /\ \A t \in Threads : ~InCall(t)
  /\ now < MaxTime
  /\ now' = now + 1
  /\ UNCHANGED <<trades, call>>

Init == Book!Init /\ call = [t \in Threads |-> NoCall]

Next ==
  \/ \E t \in Threads :
       \/ \E id \in TradeIds, o \in Owners, p \in Plans : BeginOpen(t, id, o, p)
       \/ \E id \in TradeIds, px \in MarketPrices \cup {None} : BeginClose(t, id, px)
       \/ \E o \in Owners, price \in MarketPrices : BeginMark(t, o, price)
       \/ \E o \in Owners, price \in MarketPrices, ro \in Readouts, ff \in BOOLEAN :
            BeginManage(t, o, price, ro, ff)
       \/ Commit(t)
       \/ Lost(t)
  \/ Tick

Spec == Init /\ [][Next]_vars
-----------------------------------------------------------------------------
\* A closed row changes only by a call that had read it before it was closed:
\* the two steps of store.py's calls are the only way past "closed - final"
\* (virtualbook.py).
FinalUnlessOverlapped ==
  [][\A id \in Book!Rows :
       trades[id].status = "closed" /\ trades'[id] # trades[id] =>
         \E t \in Threads : /\ id \in DOMAIN call[t].old
                            /\ call[t].old[id].status # "closed"]_vars

\* One thread at a time is the book of TradeBook: every call of store.py is a
\* call of the PostgreSQL repository, a lost one none.
ImplementsTradeBook == Book!Spec
=============================================================================
