------------------------------ MODULE UserAdmin ------------------------------
(***************************************************************************)
(* Accounts, browser sessions and the administrator's operations on them:  *)
(* auth.py, user_management.py and the login gate app._require_login.      *)
(*                                                                         *)
(* An operation starts on a page that was rendered for a valid session and *)
(* then runs as one transaction of several statements; other sessions run  *)
(* between them.  Row locks are FOR UPDATE on users; the audit row's       *)
(* foreign keys need KEY SHARE on the actor.  The lockout after failed     *)
(* logins is not in this module.                                           *)
(***************************************************************************)
EXTENDS Integers, Sequences, FiniteSets

CONSTANTS
  Users,      \* accounts that may exist
  Admins,     \* those with is_admin, made by scripts/create_admin.py
  Sessions,   \* browser sessions
  MaxAudit,   \* bound on the audit log
  MaxChanges, \* bound on password changes
  None

ASSUME UsersAssumption ==
  /\ Admins \subseteq Users /\ Admins # {}
  /\ IsFiniteSet(Users)
  /\ None \notin Sessions
ASSUME BoundAssumption == MaxAudit \in Nat /\ MaxChanges \in Nat

VARIABLES
  exists,     \* the rows of users
  active,     \* is_active
  must,       \* must_change_password
  pwd,        \* which of its passwords password_hash is of
  rev,        \* session_revision
  audit,      \* admin_audit_events
  sess,       \* session state of a browser: [user, rev, pwd], or None
  op,         \* the operation a session is in: [kind, target], or None
  pc,         \* its next statement
  advisory,   \* who holds the advisory lock on the active admins
  rowLock,    \* who holds FOR UPDATE on each users row
  changes,    \* password changes so far
  revoked     \* history: sessions cut off since they logged in

accounts == <<exists, active, must, pwd, rev, audit, changes>>
vars == <<accounts, sess, op, pc, advisory, rowLock, revoked>>

Kinds == {"enable", "disable", "reset", "create", "change"}
AuditKinds == Kinds \ {"change"}

ASSUME OpAssumption == None \notin [kind : Kinds, target : Users]

Actor(s) == sess[s].user
Target(s) == op[s].target

SessionsOf(u) == {s \in Sessions : sess[s] # None /\ sess[s].user = u}

\* browser_session_user: the account is active and the revision is its own.
Valid(s) ==
  /\ sess[s] # None
  /\ active[Actor(s)]
  /\ sess[s].rev = rev[Actor(s)]

\* _actor: an active administrator.
Authorized(u) == active[u] /\ u \in Admins

Goto(s, where) == pc' = [pc EXCEPT ![s] = where]

\* Mutant: the operation is dropped, its transaction goes on.
EndUnfinished(s) ==
  /\ op' = [op EXCEPT ![s] = None]
  /\ UNCHANGED <<pc, advisory, rowLock>>

\* COMMIT or ROLLBACK ends the operation and gives back its locks.
End(s) ==
  /\ op' = [op EXCEPT ![s] = None]
  /\ Goto(s, "idle")
  /\ advisory' = IF advisory = s THEN None ELSE advisory
  /\ rowLock' = [u \in Users |-> IF rowLock[u] = s THEN None ELSE rowLock[u]]

Refuse(s) == End(s) /\ UNCHANGED <<accounts, sess, revoked>>

-----------------------------------------------------------------------------
(* Login, logout, and the page that starts an operation.                   *)

\* authenticate with the right password, under the row's lock.
Login(s, u) ==
  /\ pc[s] = "idle" /\ sess[s] = None
  /\ u \in exists /\ active[u] /\ rowLock[u] = None
  /\ sess' = [sess EXCEPT ![s] = [user |-> u, rev |-> rev[u], pwd |-> pwd[u]]]
  /\ revoked' = revoked \ {s}
  /\ UNCHANGED <<accounts, op, pc, advisory, rowLock>>

\* Log out, idle time-out, or a gate that no longer lets the session in.
Leave(s) ==
  /\ pc[s] = "idle" /\ sess[s] # None
  /\ sess' = [sess EXCEPT ![s] = None]
  /\ revoked' = revoked \ {s}
  /\ UNCHANGED <<accounts, op, pc, advisory, rowLock>>

\* The page of a valid session; with must_change_password set it offers nothing
\* but the change, the form of which is on no other page.
Start(s, kind, u) ==
  /\ pc[s] = "idle" /\ Valid(s)
  /\ IF must[Actor(s)]
       THEN kind = "change" /\ u = Actor(s) /\ changes < MaxChanges
       ELSE /\ kind \in AuditKinds /\ Actor(s) \in Admins
            /\ Len(audit) < MaxAudit
            /\ u \in exists <=> kind # "create"
  /\ op' = [op EXCEPT ![s] = [kind |-> kind, target |-> u]]
  /\ Goto(s, CASE kind = "change" -> "verify"
               [] kind \in {"enable", "disable"} -> "advisory"
               [] OTHER -> "actor")
  /\ UNCHANGED <<accounts, sess, advisory, rowLock, revoked>>

-----------------------------------------------------------------------------
(* set_active, reset_password, create_user, statement by statement.        *)

\* Mutant: the active administrators are counted without a lock.
NoAdvisory(s) ==
  /\ pc[s] = "advisory"
  /\ Goto(s, "actor")
  /\ UNCHANGED <<accounts, sess, op, advisory, rowLock, revoked>>

\* pg_advisory_xact_lock, set_active only.
TakeAdvisory(s) ==
  /\ pc[s] = "advisory" /\ advisory = None
  /\ advisory' = s
  /\ Goto(s, "actor")
  /\ UNCHANGED <<accounts, sess, op, rowLock, revoked>>

ReadActor(s) ==
  /\ pc[s] = "actor"
  /\ IF Authorized(Actor(s))
       THEN /\ Goto(s, IF op[s].kind = "create" THEN "write" ELSE "target")
            /\ UNCHANGED <<accounts, sess, op, advisory, rowLock, revoked>>
       ELSE Refuse(s)

\* Disabling u would leave no active administrator.
LastAdmin(u) ==
  /\ u \in Admins /\ active[u]
  /\ Cardinality({v \in exists \cap Admins : active[v]}) <= 1

\* Mutant: neither refusal is there.
LockTargetUnguarded(s) ==
  /\ pc[s] = "target" /\ rowLock[Target(s)] = None
  /\ rowLock' = [rowLock EXCEPT ![Target(s)] = s]
  /\ Goto(s, "write")
  /\ UNCHANGED <<accounts, sess, op, advisory, revoked>>

\* The target's row is locked; the last active administrator and oneself are
\* refused.
LockTarget(s) ==
  /\ pc[s] = "target" /\ rowLock[Target(s)] = None
  /\ IF op[s].kind = "disable" /\ (LastAdmin(Target(s)) \/ Target(s) = Actor(s))
       THEN Refuse(s)
       ELSE /\ rowLock' = [rowLock EXCEPT ![Target(s)] = s]
            /\ Goto(s, "write")
            /\ UNCHANGED <<accounts, sess, op, advisory, revoked>>

\* Mutant: enabling and disabling leave the session revision alone.
BumpedByPasswordOnly(s) ==
  IF op[s].kind = "reset" THEN [rev EXCEPT ![Target(s)] = @ + 1] ELSE rev

Bumped(s) ==
  IF op[s].kind = "create" THEN rev ELSE [rev EXCEPT ![Target(s)] = @ + 1]

\* The audit row of the same transaction.
Logged(s) ==
  Append(audit, [actor |-> Actor(s), target |-> Target(s), action |-> op[s].kind])

Turned(s) ==
  [active EXCEPT ![Target(s)] =
     IF op[s].kind \in {"enable", "disable"} THEN op[s].kind = "enable"
     ELSE IF op[s].kind = "create" THEN TRUE ELSE @]

\* Mutant: the statement on users is a transaction of its own.
WriteAutocommitted(s) ==
  /\ pc[s] = "write" /\ rowLock[Target(s)] \in {None, s}
  /\ op[s].kind = "create" => Target(s) \notin exists
  /\ active' = Turned(s)
  /\ rowLock' = [rowLock EXCEPT ![Target(s)] = s]
  /\ Goto(s, "commit")
  /\ UNCHANGED <<exists, must, pwd, rev, audit, changes, sess, op, advisory, revoked>>

\* The flushed INSERT or UPDATE of users: until the commit nobody else sees it,
\* but a second INSERT of the name waits for it and then fails.
Write(s) ==
  /\ pc[s] = "write"
  /\ IF op[s].kind = "create" /\ Target(s) \in exists
       THEN Refuse(s)
       ELSE /\ rowLock[Target(s)] \in {None, s}
            /\ rowLock' = [rowLock EXCEPT ![Target(s)] = s]
            /\ Goto(s, "commit")
            /\ UNCHANGED <<accounts, sess, op, advisory, revoked>>

\* The audit row, whose foreign key waits for the actor's row, and the commit.
Commit(s) ==
  /\ pc[s] = "commit" /\ rowLock[Actor(s)] \in {None, s}
  /\ exists' = exists \cup {Target(s)}
  /\ active' = Turned(s)
  /\ must' = [must EXCEPT ![Target(s)] = @ \/ op[s].kind \in {"reset", "create"}]
  /\ pwd' = [pwd EXCEPT ![Target(s)] = IF op[s].kind = "reset" THEN @ + 1 ELSE @]
  /\ rev' = Bumped(s)
  /\ audit' = Logged(s)
  /\ revoked' = revoked \cup SessionsOf(Target(s))
  /\ End(s)
  /\ UNCHANGED <<sess, changes>>

\* change_password: one statement under the row's lock.  It does not look at the
\* session's revision, but it asks for the current password again.
ChangePassword(s) ==
  /\ pc[s] = "verify" /\ rowLock[Target(s)] = None
  /\ IF active[Target(s)] /\ sess[s].pwd = pwd[Target(s)]
       THEN /\ pwd' = [pwd EXCEPT ![Target(s)] = @ + 1]
            /\ rev' = [rev EXCEPT ![Target(s)] = @ + 1]
            /\ must' = [must EXCEPT ![Target(s)] = FALSE]
            /\ sess' = [sess EXCEPT ![s] =
                          [user |-> Target(s), rev |-> rev'[Target(s)],
                           pwd |-> pwd'[Target(s)]]]
            /\ revoked' = (revoked \cup SessionsOf(Target(s))) \ {s}
            /\ changes' = changes + 1
            /\ End(s)
            /\ UNCHANGED <<exists, active, audit>>
       ELSE Refuse(s)

\* An exception, a deadlock's victim, a lost connection: ROLLBACK.
Fail(s) == pc[s] # "idle" /\ Refuse(s)

-----------------------------------------------------------------------------

Init ==
  /\ exists = Admins
  /\ active = [u \in Users |-> TRUE]
  /\ must = [u \in Users |-> FALSE]
  /\ pwd = [u \in Users |-> 0]
  /\ rev = [u \in Users |-> 0]
  /\ audit = <<>>
  /\ sess = [s \in Sessions |-> None]
  /\ op = [s \in Sessions |-> None]
  /\ pc = [s \in Sessions |-> "idle"]
  /\ advisory = None
  /\ rowLock = [u \in Users |-> None]
  /\ changes = 0
  /\ revoked = {}

Next ==
  \E s \in Sessions :
    \/ \E u \in Users : Login(s, u)
    \/ Leave(s)
    \/ \E kind \in Kinds, u \in Users : Start(s, kind, u)
    \/ TakeAdvisory(s) \/ ReadActor(s) \/ LockTarget(s) \/ Write(s) \/ Commit(s)
    \/ ChangePassword(s)
    \/ Fail(s)

Spec == Init /\ [][Next]_vars
-----------------------------------------------------------------------------
(* Properties.                                                             *)

\* Shapes, and who holds the locks.
TypeOK ==
  /\ exists \subseteq Users
  /\ active \in [Users -> BOOLEAN] /\ must \in [Users -> BOOLEAN]
  /\ pwd \in [Users -> Nat] /\ rev \in [Users -> Nat]
  /\ audit \in Seq([actor : Users, target : Users, action : AuditKinds])
  /\ sess \in [Sessions -> [user : Users, rev : Nat, pwd : Nat] \cup {None}]
  /\ op \in [Sessions -> [kind : Kinds, target : Users] \cup {None}]
  /\ pc \in [Sessions -> {"idle", "advisory", "actor", "target", "write", "commit", "verify"}]
  /\ advisory \in Sessions \cup {None}
  /\ rowLock \in [Users -> Sessions \cup {None}]
  /\ \A s \in Sessions : pc[s] # "idle" => sess[s] # None /\ op[s] # None

\* Whatever administrators do to each other at the same time, one who can log in
\* is left (user_management.set_active, the advisory lock and the count).
SomeAdminActive == \E u \in exists \cap Admins : active[u]

\* A session that was cut off by a reset, a disabling or a password change made
\* elsewhere is never let in again, not even when the account is enabled later
\* (session_revision; app.py: "existing sessions revoked").
RevokedStaysOut == \A s \in revoked : ~Valid(s)

\* The last audit event that enabled or disabled an account says what it is now:
\* no change of is_active without its audit row, no row without the change.
AuditExplainsActive ==
  \A u \in exists :
    LET turns == {i \in 1..Len(audit) :
                    audit[i].target = u /\ audit[i].action \in {"enable", "disable"}}
    IN  active[u] <=> (\A i \in turns : (\A j \in turns : j <= i)
                                          => audit[i].action = "enable")

\* An account is enabled or disabled only by an administrator who is active when
\* the change commits, not only when it was asked for.
NoTurnByDisabledAdmin ==
  [][\A i \in (Len(audit) + 1)..Len(audit') :
       audit'[i].action \in {"enable", "disable"} => Authorized(audit'[i].actor)]_vars
=============================================================================
