----------------------------- MODULE WorkerLease -----------------------------
(***************************************************************************)
(* The life of the radar worker's processes around their cycles            *)
(* (radar_worker.py): the advisory lock that should leave one of them, the *)
(* heartbeat file their health check reads, stop signals and crashes.      *)
(*                                                                         *)
(* The lock belongs to a database session.  If the connection is lost the  *)
(* server takes the lock back and the worker, which never uses the         *)
(* connection again before its end, does not notice.  If the process dies  *)
(* the server may take a while to see that.  compose.yaml starts a worker  *)
(* again whenever it ends.                                                 *)
(***************************************************************************)
EXTENDS Integers, FiniteSets

CONSTANTS
  Workers,     \* containers, each with a heartbeat file of its own
  None,
  Interval,    \* of the heartbeat
  MaxAge,      \* RADAR_WORKER_HEALTH_MAX_AGE_SECONDS
  MaxTime      \* bound on the clock

HeartbeatAssumption == Interval \in Nat \ {0} /\ MaxAge \in Nat /\ Interval <= MaxAge

VARIABLES
  clock,
  process,     \* process[w]: "down", "refused", "idle" between cycles or in a "cycle"
  stop,        \* stop[w]: the event the signal handler sets
  linked,      \* linked[w]: the connection that took the lock still stands
  holder,      \* whose session has the lock
  ghost,       \* ... and its process is gone
  beat         \* beat[w]: the time in the heartbeat file

vars == <<clock, process, stop, linked, holder, ghost, beat>>

NoBeat == -1
Running(w) == process[w] \in {"idle", "cycle"}

Goes(w, to) == process' = [process EXCEPT ![w] = to]

\* Mutant: the answer of pg_try_advisory_lock is not looked at.
StartUnasked(w) ==
  /\ ~Running(w)
  /\ Goes(w, "idle")
  /\ IF holder = None THEN holder' = w ELSE UNCHANGED holder
  /\ linked' = [linked EXCEPT ![w] = TRUE]
  /\ stop' = [stop EXCEPT ![w] = FALSE]
  /\ beat' = [beat EXCEPT ![w] = clock]
  /\ UNCHANGED <<clock, ghost>>

\* Mutant: a worker that was refused is not started again.
StartOnlyOnce(w) ==
  /\ process[w] = "down" /\ holder = None
  /\ Goes(w, "idle")
  /\ holder' = w
  /\ linked' = [linked EXCEPT ![w] = TRUE]
  /\ stop' = [stop EXCEPT ![w] = FALSE]
  /\ beat' = [beat EXCEPT ![w] = clock]
  /\ UNCHANGED <<clock, ghost>>

\* worker_lease and the first heartbeat.
Start(w) ==
  /\ ~Running(w)
  /\ holder = None
  /\ Goes(w, "idle")
  /\ holder' = w
  /\ linked' = [linked EXCEPT ![w] = TRUE]
  /\ stop' = [stop EXCEPT ![w] = FALSE]
  /\ beat' = [beat EXCEPT ![w] = clock]
  /\ UNCHANGED <<clock, ghost>>

\* "another radar worker already holds the database lease": exit code 2.
Refused(w) ==
  /\ process[w] = "down"
  /\ holder # None
  /\ Goes(w, "refused")
  /\ UNCHANGED <<clock, stop, linked, holder, ghost, beat>>

BeginCycle(w) ==
  /\ process[w] = "idle" /\ ~stop[w]
  /\ Goes(w, "cycle")
  /\ UNCHANGED <<clock, stop, linked, holder, ghost, beat>>

\* run_cycle: what a ticker raises is counted; a stop is not looked at in it.
EndCycle(w) ==
  /\ process[w] = "cycle"
  /\ Goes(w, "idle")
  /\ UNCHANGED <<clock, stop, linked, holder, ghost, beat>>

RequestStop(w) ==
  /\ Running(w) /\ ~stop[w]
  /\ stop' = [stop EXCEPT ![w] = TRUE]
  /\ UNCHANGED <<clock, process, linked, holder, ghost, beat>>

\* The loop ends, or list_assignments raises out of a cycle: the heartbeat is
\* joined and the lock given back, if there is a connection to do it on.
Leave(w) ==
  /\ (process[w] = "idle" /\ stop[w]) \/ process[w] = "cycle"
  /\ Goes(w, "down")
  /\ holder' = IF linked[w] THEN None ELSE holder
  /\ UNCHANGED <<clock, stop, linked, ghost, beat>>

Kill(w) ==
  /\ Running(w)
  /\ Goes(w, "down")
  /\ ghost' = (linked[w] \/ ghost)
  /\ UNCHANGED <<clock, stop, linked, holder, beat>>

\* The server finds the session of a process that is gone.
Reap ==
  /\ ghost
  /\ holder' = None /\ ghost' = FALSE
  /\ UNCHANGED <<clock, process, stop, linked, beat>>

\* The server, or something on the way to it, ends the session of a running
\* worker.
LoseConnection(w) ==
  /\ Running(w) /\ linked[w]
  /\ linked' = [linked EXCEPT ![w] = FALSE]
  /\ holder' = None
  /\ UNCHANGED <<clock, process, stop, ghost, beat>>

\* Mutant: the heartbeat is written once, when the worker starts.
BeatsAtStartOnly(w) == FALSE

\* The heartbeat thread writes until the stop event, whatever the cycle does.
Beats(w) == Running(w) /\ ~stop[w] /\ beat[w] # clock

Beat(w) ==
  /\ Beats(w)
  /\ beat' = [beat EXCEPT ![w] = clock]
  /\ UNCHANGED <<clock, process, stop, linked, holder, ghost>>

\* Timing: the thread is not late by more than its interval.
Tick ==
  /\ clock < MaxTime
  /\ \A w \in Workers : Beats(w) => clock - beat[w] < Interval
  /\ clock' = clock + 1
  /\ UNCHANGED <<process, stop, linked, holder, ghost, beat>>

Init ==
  /\ clock = 0
  /\ process = [w \in Workers |-> "down"]
  /\ stop = [w \in Workers |-> FALSE]
  /\ linked = [w \in Workers |-> FALSE]
  /\ holder = None /\ ghost = FALSE
  /\ beat = [w \in Workers |-> NoBeat]

Next ==
  \/ \E w \in Workers :
       \/ Start(w) \/ Refused(w) \/ BeginCycle(w) \/ EndCycle(w) \/ RequestStop(w)
       \/ Leave(w) \/ Kill(w) \/ LoseConnection(w) \/ Beat(w)
  \/ Reap \/ Tick

\* restart: unless-stopped; a server finds dead sessions; a cycle may hang, so
\* nothing is asked of it.
Fairness == (\A w \in Workers : WF_vars(Start(w))) /\ WF_vars(Reap)
Spec == Init /\ [][Next]_vars /\ Fairness
-----------------------------------------------------------------------------
TypeOK ==
  /\ holder \in Workers \cup {None}
  /\ ghost => holder # None
  /\ \A w \in Workers : beat[w] \in {NoBeat} \cup 0..clock

\* The lease leaves one worker: two run together only if one of them lost the
\* connection that took the lock (radar_worker.py:532).
SecondOnlyAfterALoss ==
  Cardinality({w \in Workers : Running(w)}) > 1 =>
    \E w \in Workers : Running(w) /\ ~linked[w]

\* heartbeat_is_healthy.
Healthy(w) == beat[w] # NoBeat /\ clock - beat[w] <= MaxAge

\* A worker that was not asked to stop is never found unhealthy, however long
\* its cycle takes: a restart by the health check never hits a working worker,
\* and never a hanging one either (radar_worker.py:109).
OnlyTheStoppedLookIll ==
  \A w \in Workers : Running(w) /\ ~stop[w] => Healthy(w)

\* After any crash, stop or lost connection a worker takes over.
SomeoneTakesOver == []<>(\E w \in Workers : Running(w))
=============================================================================
