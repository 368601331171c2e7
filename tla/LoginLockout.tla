---------------------------- MODULE LoginLockout ----------------------------
(***************************************************************************)
(* The lock of one account after wrong passwords (auth.py authenticate).   *)
(* A login reads the clock, then waits for the row of the user (SELECT ... *)
(* FOR UPDATE) and decides with the time it read: logins that wait for     *)
(* each other decide in any order, each with a clock that may be old.  A   *)
(* change or a reset of the password clears the count and the lock.        *)
(***************************************************************************)
EXTENDS Integers, Sequences

CONSTANTS
  Logins,      \* login requests that can be under way together
  MaxFailures, \* AuthService.max_failures
  Lockout,     \* AuthService.lockout_minutes
  MaxWait,     \* bound on the wait for the row
  LastMinute,  \* bound on the clock
  MaxTries     \* bound on the wrong passwords tried

LockoutAssumption ==
  /\ MaxFailures \in Nat \ {0} /\ Lockout \in Nat \ {0} /\ MaxWait \in Nat /\ LastMinute \in Nat

VARIABLES
  minute,
  failures,    \* users.failed_login_count
  lockedUntil, \* users.locked_until, or Never
  login,       \* login[l]: the request l, its password and the time it read
  tried        \* when a wrong password was tried since the owner last proved himself

vars == <<minute, failures, lockedUntil, login, tried>>

Never == -1
NoLogin == [at |-> "none", right |-> FALSE, now |-> 0]
Refused == [NoLogin EXCEPT !.at = "refused"]
LetIn == [NoLogin EXCEPT !.at = "in"]

\* A request comes in: now = datetime.now(timezone.utc).
Arrive(l, right) ==
  /\ login[l].at # "waiting"
  /\ Len(tried) < MaxTries
  /\ login' = [login EXCEPT ![l] = [at |-> "waiting", right |-> right, now |-> minute]]
  /\ UNCHANGED <<minute, failures, lockedUntil, tried>>

\* Mutant: a lock is a lock, whatever the time.
LockedForever(now) == lockedUntil # Never

Locked(now) == lockedUntil # Never /\ lockedUntil > now

\* A lock that ran out is taken off and the count starts again.
CountBefore == IF lockedUntil # Never THEN 0 ELSE failures

\* Mutant: the account is locked one failure too late.
WrongOffByOne(l) ==
  /\ login[l].at = "waiting" /\ ~login[l].right /\ ~Locked(login[l].now)
  /\ failures' = CountBefore + 1
  /\ lockedUntil' = IF failures' > MaxFailures THEN login[l].now + Lockout ELSE Never
  /\ login' = [login EXCEPT ![l] = Refused]
  /\ tried' = Append(tried, minute)
  /\ UNCHANGED minute

Wrong(l) ==
  /\ login[l].at = "waiting" /\ ~login[l].right /\ ~Locked(login[l].now)
  /\ failures' = CountBefore + 1
  /\ lockedUntil' = IF failures' >= MaxFailures THEN login[l].now + Lockout ELSE Never
  /\ login' = [login EXCEPT ![l] = Refused]
  /\ tried' = Append(tried, minute)
  /\ UNCHANGED minute

Right(l) ==
  /\ login[l].at = "waiting" /\ login[l].right /\ ~Locked(login[l].now)
  /\ failures' = 0 /\ lockedUntil' = Never
  /\ login' = [login EXCEPT ![l] = LetIn]
  /\ tried' = <<>>
  /\ UNCHANGED minute

\* Refused without a look at the password.
TurnedAway(l) ==
  /\ login[l].at = "waiting" /\ Locked(login[l].now)
  /\ login' = [login EXCEPT ![l] = Refused]
  /\ UNCHANGED <<minute, failures, lockedUntil, tried>>

\* change_password by the owner, reset_password by an administrator.
NewPassword ==
  /\ failures' = 0 /\ lockedUntil' = Never /\ tried' = <<>>
  /\ UNCHANGED <<minute, login>>

\* No request waits for the row longer than MaxWait.
Tick ==
  /\ minute < LastMinute
  /\ \A l \in Logins : login[l].at = "waiting" => minute < login[l].now + MaxWait
  /\ minute' = minute + 1
  /\ UNCHANGED <<failures, lockedUntil, login, tried>>

Init ==
  /\ minute = 0 /\ failures = 0 /\ lockedUntil = Never
  /\ login = [l \in Logins |-> NoLogin]
  /\ tried = <<>>

Next ==
  \/ \E l \in Logins :
       \/ \E right \in BOOLEAN : Arrive(l, right)
       \/ Wrong(l) \/ Right(l) \/ TurnedAway(l)
  \/ NewPassword \/ Tick

Spec == Init /\ [][Next]_vars
-----------------------------------------------------------------------------
TypeOK ==
  /\ failures \in Nat /\ lockedUntil \in Nat \cup {Never}
  /\ tried \in Seq(0..LastMinute)

\* Whatever runs in parallel and however often the lock runs out: of one more
\* wrong password than the limit, the first and the last are a whole lockout
\* apart, less the time a request waits with an old clock (auth.py:99).
GuessesAreRationed ==
  \A i \in 1..(Len(tried) - MaxFailures) :
    tried[i + MaxFailures] - tried[i] >= Lockout - MaxWait

\* The owner is kept out only for a lockout after the limit was reached: a
\* right password is refused only when that many wrong ones were tried and the
\* last of them is at most a lockout ago.
OwnerComesBack ==
  [][\A l \in Logins :
       login[l].at = "waiting" /\ login[l].right /\ login'[l] = Refused =>
         /\ Len(tried) >= MaxFailures
         /\ minute - tried[Len(tried)] <= Lockout + MaxWait]_vars
=============================================================================
