--------------------------- MODULE UserAdminProofs ---------------------------
(***************************************************************************)
(* Proofs about UserAdmin for every set of accounts, administrators and    *)
(* sessions.  The count of active administrators plays no part in them: an *)
(* account is disabled only by the holder of the advisory lock, who was    *)
(* read as an active administrator while holding it and is not the target, *)
(* so the holder is the one who is left.                                   *)
(***************************************************************************)
EXTENDS UserAdmin, TLAPS

Turns == {"enable", "disable"}

Shape ==
  /\ exists \subseteq Users /\ revoked \subseteq Sessions
  /\ active \in [Users -> BOOLEAN]
  /\ rev \in [Users -> Nat]
  /\ pwd \in [Users -> Nat]
  /\ audit \in Seq([actor : Users, target : Users, action : Kinds])
  /\ sess \in [Sessions -> [user : Users, rev : Nat, pwd : Nat] \cup {None}]
  /\ op \in [Sessions -> [kind : Kinds, target : Users] \cup {None}]
  /\ pc \in [Sessions -> {"idle", "advisory", "actor", "target", "write", "commit", "verify"}]
  /\ rowLock \in [Users -> Sessions \cup {None}]

\* An operation in progress belongs to the account its session is logged in to,
\* and a password is changed by its owner.
Owned ==
  \A s \in Sessions :
    /\ sess[s] # None => sess[s].user \in exists
    /\ pc[s] # "idle" => sess[s] # None /\ op[s] # None
    /\ pc[s] = "verify" => Target(s) = Actor(s)

\* A turn that is past its check has the advisory lock, an active administrator
\* behind it and, if it disables, another account before it.
TurnsGuarded ==
  \A s \in Sessions :
    /\ pc[s] \in {"actor", "target", "write", "commit"} /\ op[s].kind \in Turns
         => advisory = s
    /\ pc[s] \in {"target", "write", "commit"} /\ op[s].kind \in Turns
         => Authorized(Actor(s))
    /\ pc[s] \in {"write", "commit"} /\ op[s].kind = "disable" => Target(s) # Actor(s)

\* A flushed statement has its row locked, and the row it inserts is not there yet:
\* nobody else can commit one of that name before it.
WritesPending ==
  \A s \in Sessions :
    pc[s] = "commit" =>
      /\ rowLock[Target(s)] = s
      /\ op[s].kind = "create" => Target(s) \notin exists

\* A session's revision is never ahead of its account's, and behind it once the
\* session is cut off.
RevisionsBehind ==
  \A s \in Sessions :
    sess[s] # None =>
      /\ sess[s].rev <= rev[sess[s].user]
      /\ s \in revoked => sess[s].rev < rev[sess[s].user]

IInv == Shape /\ Owned /\ TurnsGuarded /\ SomeAdminActive /\ RevisionsBehind

LEMMA InitIInv == Init => IInv
<1> SUFFICES ASSUME Init PROVE IInv
  OBVIOUS
<1>1. Shape
  BY UsersAssumption DEF Init, Shape
<1>2. Owned /\ TurnsGuarded /\ RevisionsBehind
  BY DEF Init, Owned, TurnsGuarded, RevisionsBehind
<1>3. SomeAdminActive
  BY UsersAssumption DEF Init, SomeAdminActive
<1>4. QED
  BY <1>1, <1>2, <1>3 DEF IInv

\* A refusal or rollback.
LEMMA RefuseInv ==
  ASSUME IInv, NEW s \in Sessions, Refuse(s)
  PROVE  IInv'
<1>1. Shape'
  BY DEF IInv, Shape, Refuse, End, Goto, accounts
<1>2. Owned'
  BY DEF IInv, Shape, Owned, Refuse, End, Goto, accounts, Actor, Target
<1>3. TurnsGuarded'
  <2>1. \A t \in Sessions : pc'[t] # "idle" => t # s /\ pc'[t] = pc[t] /\ op'[t] = op[t]
    BY DEF IInv, Shape, Refuse, End, Goto
  <2>2. sess' = sess /\ active' = active
    BY DEF Refuse, accounts
  <2>3. \A t \in Sessions : t # s /\ advisory = t => advisory' = t
    BY DEF Refuse, End
  <2>4. QED
    BY <2>1, <2>2, <2>3 DEF IInv, TurnsGuarded, Authorized, Actor, Target
<1>4. SomeAdminActive'
  BY DEF IInv, SomeAdminActive, Refuse, accounts
<1>5. RevisionsBehind'
  BY DEF IInv, RevisionsBehind, Refuse, accounts
<1>6. QED
  BY <1>1, <1>2, <1>3, <1>4, <1>5 DEF IInv

LEMMA LoginInv ==
  ASSUME IInv, NEW s \in Sessions, NEW u \in Users, Login(s, u)
  PROVE  IInv'
<1>1. Shape'
  BY DEF IInv, Shape, Login, accounts
<1>2. Owned'
  BY DEF IInv, Shape, Owned, Login, accounts, Actor, Target
<1>3. TurnsGuarded'
  <2>1. \A t \in Sessions : pc[t] # "idle" => sess'[t] = sess[t]
    BY DEF IInv, Shape, Login
  <2>2. QED
    BY <2>1 DEF IInv, TurnsGuarded, Login, accounts, Authorized, Actor, Target
<1>4. SomeAdminActive'
  BY DEF IInv, SomeAdminActive, Login, accounts
<1>5. RevisionsBehind'
  BY DEF IInv, Shape, RevisionsBehind, Login, accounts
<1>6. QED
  BY <1>1, <1>2, <1>3, <1>4, <1>5 DEF IInv

LEMMA LeaveInv ==
  ASSUME IInv, NEW s \in Sessions, Leave(s)
  PROVE  IInv'
<1>1. Shape'
  BY DEF IInv, Shape, Leave, accounts
<1>2. Owned'
  BY DEF IInv, Shape, Owned, Leave, accounts, Actor, Target
<1>3. TurnsGuarded'
  <2>1. \A t \in Sessions : pc[t] # "idle" => sess'[t] = sess[t]
    BY DEF IInv, Shape, Leave
  <2>2. QED
    BY <2>1 DEF IInv, TurnsGuarded, Leave, accounts, Authorized, Actor, Target
<1>4. SomeAdminActive'
  BY DEF IInv, SomeAdminActive, Leave, accounts
<1>5. RevisionsBehind'
  BY DEF IInv, Shape, RevisionsBehind, Leave, accounts
<1>6. QED
  BY <1>1, <1>2, <1>3, <1>4, <1>5 DEF IInv

LEMMA StartInv ==
  ASSUME IInv, NEW s \in Sessions, NEW kind \in Kinds, NEW u \in Users,
         Start(s, kind, u)
  PROVE  IInv'
<1>1. Shape'
  BY DEF IInv, Shape, Start, accounts, Goto
<1>2. Owned'
  <2>1. [kind |-> kind, target |-> u] \in [kind : Kinds, target : Users]
    OBVIOUS
  <2>2. sess[s] # None
    BY DEF Start, Valid
  <2>3. op'[s] = [kind |-> kind, target |-> u]
    BY DEF IInv, Shape, Start
  <2>4. op'[s] # None
    BY <2>3, OpAssumption DEF Kinds
  <2>6. pc'[s] = "verify" => kind = "change"
    BY DEF IInv, Shape, Start, Goto
  <2>7. kind = "change" => u = Actor(s)
    BY DEF Start, AuditKinds
  <2>8. QED
    BY <2>2, <2>3, <2>4, <2>6, <2>7 DEF IInv, Shape, Owned, Start, accounts, Goto, Actor, Target
<1>3. TurnsGuarded'
  <2>1. \A t \in Sessions : t # s => pc'[t] = pc[t] /\ op'[t] = op[t]
    BY DEF IInv, Shape, Start, Goto
  <2>2. pc'[s] \in {"verify", "advisory", "actor"} /\ op'[s].kind = kind
    BY DEF IInv, Shape, Start, Goto
  <2>3. pc'[s] = "actor" => kind \notin Turns
    BY DEF IInv, Shape, Start, Goto, Turns
  <2>4. sess' = sess /\ active' = active /\ advisory' = advisory
    BY DEF Start, accounts
  <2>5. QED
    BY <2>1, <2>2, <2>3, <2>4 DEF IInv, TurnsGuarded, Authorized, Actor, Target
<1>4. SomeAdminActive'
  BY DEF IInv, SomeAdminActive, Start, accounts
<1>5. RevisionsBehind'
  BY DEF IInv, RevisionsBehind, Start, accounts
<1>6. QED
  BY <1>1, <1>2, <1>3, <1>4, <1>5 DEF IInv

LEMMA TakeAdvisoryInv ==
  ASSUME IInv, NEW s \in Sessions, TakeAdvisory(s)
  PROVE  IInv'
<1>1. Shape'
  BY DEF IInv, Shape, TakeAdvisory, accounts, Goto
<1>2. Owned'
  BY DEF IInv, Shape, Owned, TakeAdvisory, accounts, Goto, Actor, Target
<1>3. TurnsGuarded'
  <2>1. \A t \in Sessions : t # s => pc'[t] = pc[t]
    BY DEF IInv, Shape, TakeAdvisory, Goto
  <2>2. pc'[s] = "actor" /\ advisory' = s /\ advisory = None
    BY DEF IInv, Shape, TakeAdvisory, Goto
  <2>3. sess' = sess /\ active' = active /\ op' = op
    BY DEF TakeAdvisory, accounts
  <2>4. \A t \in Sessions : t # None
    BY UsersAssumption
  <2>5. QED
    BY <2>1, <2>2, <2>3, <2>4 DEF IInv, TurnsGuarded, Authorized, Actor, Target
<1>4. SomeAdminActive'
  BY DEF IInv, SomeAdminActive, TakeAdvisory, accounts
<1>5. RevisionsBehind'
  BY DEF IInv, RevisionsBehind, TakeAdvisory, accounts
<1>6. QED
  BY <1>1, <1>2, <1>3, <1>4, <1>5 DEF IInv

\* A statement that only moves s on, after what TurnsGuarded asks was checked.
LEMMA CheckedInv ==
  ASSUME IInv, NEW s \in Sessions,
         pc[s] \in {"actor", "target", "write"},
         NEW where \in {"target", "write", "commit"}, Goto(s, where),
         rowLock' \in [Users -> Sessions \cup {None}],
         op[s].kind \in Turns => advisory = s /\ Authorized(Actor(s)),
         where \in {"write", "commit"} /\ op[s].kind = "disable" => Target(s) # Actor(s),
         UNCHANGED <<accounts, sess, op, advisory, revoked>>
  PROVE  IInv'
<1>1. Shape'
  BY DEF IInv, Shape, accounts, Goto
<1>2. Owned'
  BY DEF IInv, Shape, Owned, accounts, Goto, Actor, Target
<1>3. TurnsGuarded'
  <2>1. \A t \in Sessions : t # s => pc'[t] = pc[t]
    BY DEF IInv, Shape, Goto
  <2>2. pc'[s] = where
    BY DEF IInv, Shape, Goto
  <2>3. sess' = sess /\ active' = active /\ op' = op /\ advisory' = advisory
    BY DEF accounts
  <2>4. QED
    BY <2>1, <2>2, <2>3 DEF IInv, TurnsGuarded, Authorized, Actor, Target
<1>4. SomeAdminActive'
  BY DEF IInv, SomeAdminActive, accounts
<1>5. RevisionsBehind'
  BY DEF IInv, RevisionsBehind, accounts
<1>6. QED
  BY <1>1, <1>2, <1>3, <1>4, <1>5 DEF IInv

LEMMA ReadActorInv ==
  ASSUME IInv, NEW s \in Sessions, ReadActor(s)
  PROVE  IInv'
<1>1. CASE ~Authorized(Actor(s))
  BY <1>1, RefuseInv DEF ReadActor
<1>2. CASE Authorized(Actor(s))
  <2>1. op[s].kind \in Turns => advisory = s
    BY DEF IInv, TurnsGuarded, ReadActor
  <2>2. op[s].kind = "create" => op[s].kind \notin Turns /\ op[s].kind # "disable"
    BY DEF Turns
  <2>3. rowLock' \in [Users -> Sessions \cup {None}]
    BY <1>2 DEF IInv, Shape, ReadActor
  <2>4. CASE op[s].kind = "create"
    BY <1>2, <2>1, <2>2, <2>3, <2>4, CheckedInv DEF ReadActor
  <2>5. CASE op[s].kind # "create"
    BY <1>2, <2>1, <2>3, <2>5, CheckedInv DEF ReadActor
  <2>6. QED
    BY <2>4, <2>5
<1>3. QED
  BY <1>1, <1>2

LEMMA LockTargetInv ==
  ASSUME IInv, NEW s \in Sessions, LockTarget(s)
  PROVE  IInv'
<1> DEFINE refused ==
      op[s].kind = "disable" /\ (LastAdmin(Target(s)) \/ Target(s) = Actor(s))
<1>1. CASE refused
  BY <1>1, RefuseInv DEF LockTarget
<1>2. CASE ~refused
  <2>1. op[s].kind \in Turns => advisory = s /\ Authorized(Actor(s))
    BY DEF IInv, TurnsGuarded, LockTarget
  <2>2. rowLock' \in [Users -> Sessions \cup {None}]
    BY <1>2 DEF IInv, Shape, LockTarget
  <2>3. QED
    BY <1>2, <2>1, <2>2, CheckedInv DEF LockTarget
<1>3. QED
  BY <1>1, <1>2

LEMMA WriteInv ==
  ASSUME IInv, NEW s \in Sessions, Write(s)
  PROVE  IInv'
<1>1. CASE op[s].kind = "create" /\ Target(s) \in exists
  BY <1>1, RefuseInv DEF Write
<1>2. CASE ~(op[s].kind = "create" /\ Target(s) \in exists)
  <2>1. /\ pc[s] = "write" /\ Goto(s, "commit")
        /\ rowLock' = [rowLock EXCEPT ![Target(s)] = s]
        /\ UNCHANGED <<accounts, sess, op, advisory, revoked>>
    BY <1>2 DEF Write
  <2>2. op[s].kind \in Turns => advisory = s /\ Authorized(Actor(s))
    BY <2>1 DEF IInv, TurnsGuarded
  <2>3. op[s].kind = "disable" => Target(s) # Actor(s)
    BY <2>1 DEF IInv, TurnsGuarded
  <2>4. rowLock' \in [Users -> Sessions \cup {None}]
    BY <2>1 DEF IInv, Shape
  <2>5. QED
    BY <2>1, <2>2, <2>3, <2>4, CheckedInv
<1>3. QED
  BY <1>1, <1>2

LEMMA CommitInv ==
  ASSUME IInv, WritesPending, NEW s \in Sessions, Commit(s)
  PROVE  IInv'
<1>0. op[s].kind = "create" => Target(s) \notin exists
  BY DEF WritesPending, Commit
<1>1. /\ op[s] \in [kind : Kinds, target : Users]
      /\ sess[s] \in [user : Users, rev : Nat, pwd : Nat]
      /\ Actor(s) \in exists /\ Target(s) \in Users /\ Actor(s) \in Users
  BY DEF IInv, Shape, Owned, Commit, Actor, Target
<1>2. /\ exists' = exists \cup {Target(s)}
      /\ sess' = sess /\ End(s)
      /\ rev' = Bumped(s) /\ audit' = Logged(s)
      /\ revoked' = revoked \cup SessionsOf(Target(s))
      /\ active' = [active EXCEPT ![Target(s)] =
                      IF op[s].kind \in {"enable", "disable"}
                        THEN op[s].kind = "enable"
                      ELSE IF op[s].kind = "create" THEN TRUE ELSE @]
      /\ pwd' = [pwd EXCEPT ![Target(s)] = IF op[s].kind = "reset" THEN @ + 1 ELSE @]
  BY DEF Commit, Turned
<1>3. Shape'
  <2>1. active' \in [Users -> BOOLEAN]
    BY <1>1, <1>2 DEF IInv, Shape
  <2>2. rev' \in [Users -> Nat] /\ pwd' \in [Users -> Nat]
    <3>1. /\ pwd \in [Users -> Nat] /\ rev \in [Users -> Nat]
          /\ pwd[Target(s)] \in Nat /\ rev[Target(s)] \in Nat
      BY <1>1 DEF IInv, Shape
    <3>2. pwd' = pwd \/ pwd' = [pwd EXCEPT ![Target(s)] = pwd[Target(s)] + 1]
      BY <1>2, <3>1
    <3>3. rev' = rev \/ rev' = [rev EXCEPT ![Target(s)] = rev[Target(s)] + 1]
      BY <1>2 DEF Bumped
    <3>4. pwd' \in [Users -> Nat]
      BY <1>1, <3>1, <3>2
    <3>5. rev' \in [Users -> Nat]
      BY <1>1, <3>1, <3>3
    <3>6. QED
      BY <3>4, <3>5
  <2>3. audit' \in Seq([actor : Users, target : Users, action : Kinds])
    BY <1>1, <1>2 DEF IInv, Shape, Logged
  <2>4. QED
    BY <1>1, <1>2, <2>1, <2>2, <2>3 DEF IInv, Shape, End, Goto, SessionsOf
<1>4. \A t \in Sessions : pc'[t] # "idle" => t # s /\ pc'[t] = pc[t] /\ op'[t] = op[t]
  BY <1>2 DEF IInv, Shape, End, Goto
<1>5. Owned'
  BY <1>2, <1>4 DEF IInv, Owned, Actor, Target
<1>6. \A t \in Sessions : t # s /\ advisory = t => advisory' = t
  BY <1>2 DEF End
<1>7. op[s].kind \in Turns => advisory = s /\ Authorized(Actor(s))
  BY DEF IInv, TurnsGuarded, Commit
<1>8. op[s].kind = "disable" => Target(s) # Actor(s)
  BY DEF IInv, TurnsGuarded, Commit
<1>9. \A v \in Users : active'[v] # active[v] /\ active[v] =>
        op[s].kind = "disable" /\ v = Target(s)
  BY <1>1, <1>2 DEF IInv, Shape
<1>10. TurnsGuarded'
  <2>1. SUFFICES ASSUME NEW t \in Sessions, pc'[t] \in {"actor", "target", "write", "commit"}
                 PROVE  /\ op'[t].kind \in Turns => advisory' = t
                        /\ pc'[t] \in {"target", "write", "commit"} /\ op'[t].kind \in Turns
                             => Authorized(Actor(t))'
                        /\ pc'[t] \in {"write", "commit"} /\ op'[t].kind = "disable"
                             => Target(t)' # Actor(t)'
    BY DEF TurnsGuarded
  <2>2. t # s /\ pc'[t] = pc[t] /\ op'[t] = op[t] /\ sess'[t] = sess[t]
    BY <1>2, <1>4, <2>1
  <2>3. op[t].kind \in Turns => advisory = t
    BY <2>1, <2>2 DEF IInv, TurnsGuarded
  <2>4. op[t].kind \in Turns => op[s].kind \notin Turns
    BY <1>7, <2>2, <2>3
  <2>5. op[t].kind \in Turns /\ pc[t] \in {"target", "write", "commit"} => Authorized(Actor(t))
    BY <2>1, <2>2 DEF IInv, TurnsGuarded
  <2>6. Actor(t) \in Users
    BY <2>1, <2>2 DEF IInv, Shape, Owned, Actor
  <2>7. op[t].kind \in Turns /\ pc[t] \in {"target", "write", "commit"} => active'[Actor(t)]
    <3>1. ASSUME op[t].kind \in Turns, pc[t] \in {"target", "write", "commit"}
          PROVE  active'[Actor(t)]
      <4>1. op[s].kind # "disable"
        BY <2>4, <3>1 DEF Turns
      <4>2. active[Actor(t)]
        BY <2>5, <3>1 DEF Authorized
      <4>3. active'[Actor(t)] = active[Actor(t)]
        BY <1>9, <2>6, <4>1, <4>2
      <4>4. QED
        BY <4>2, <4>3
    <3>2. QED
      BY <3>1
  <2>8. QED
    BY <1>6, <2>2, <2>3, <2>5, <2>7, <2>1
       DEF IInv, TurnsGuarded, Authorized, Actor, Target
<1>11. SomeAdminActive'
  <2>1. CASE op[s].kind = "disable"
    <3>1. Authorized(Actor(s)) /\ Target(s) # Actor(s)
      BY <1>7, <1>8, <2>1 DEF Turns
    <3>2. active'[Actor(s)]
      BY <1>1, <1>2, <3>1 DEF IInv, Shape, Authorized
    <3>3. QED
      BY <1>1, <1>2, <3>1, <3>2 DEF SomeAdminActive, Authorized
  <2>2. CASE op[s].kind # "disable"
    <3>1. PICK u \in exists \cap Admins : active[u]
      BY DEF IInv, SomeAdminActive
    <3>2. u \in Users
      BY <3>1 DEF IInv, Shape
    <3>3. active'[u] = active[u]
      BY <1>9, <2>2, <3>1, <3>2
    <3>4. QED
      BY <1>2, <3>1, <3>3 DEF SomeAdminActive
  <2>3. QED
    BY <2>1, <2>2
<1>12. RevisionsBehind'
  <2>1. SUFFICES ASSUME NEW t \in Sessions, sess[t] # None
                 PROVE  /\ sess[t].rev <= rev'[sess[t].user]
                        /\ t \in revoked' => sess[t].rev < rev'[sess[t].user]
    BY <1>2 DEF RevisionsBehind
  <2>2. /\ sess[t].user \in exists /\ sess[t].user \in Users /\ sess[t].rev \in Nat
        /\ rev[sess[t].user] \in Nat
        /\ sess[t].rev <= rev[sess[t].user]
        /\ t \in revoked => sess[t].rev < rev[sess[t].user]
    BY <2>1 DEF IInv, Shape, Owned, RevisionsBehind
  <2>3. CASE sess[t].user = Target(s)
    <3>1. rev'[sess[t].user] = rev[sess[t].user] + 1
      BY <1>0, <1>1, <1>2, <2>2, <2>3 DEF IInv, Shape, Bumped
    <3>2. QED
      BY <2>2, <3>1
  <2>4. CASE sess[t].user # Target(s)
    <3>1. rev'[sess[t].user] = rev[sess[t].user]
      BY <1>1, <1>2, <2>2, <2>4 DEF IInv, Shape, Bumped
    <3>2. t \in revoked' => t \in revoked
      BY <1>2, <2>4 DEF SessionsOf
    <3>3. QED
      BY <2>2, <3>1, <3>2
  <2>5. QED
    BY <2>3, <2>4
<1>13. QED
  BY <1>3, <1>5, <1>10, <1>11, <1>12 DEF IInv

LEMMA ChangePasswordInv ==
  ASSUME IInv, NEW s \in Sessions, ChangePassword(s)
  PROVE  IInv'
<1> DEFINE u == Target(s)
           good == active[u] /\ sess[s].pwd = pwd[u]
<1>1. CASE ~good
  BY <1>1, RefuseInv DEF ChangePassword
<1>2. CASE good
  <2>1. /\ sess[s] # None /\ sess[s] \in [user : Users, rev : Nat, pwd : Nat]
        /\ u = Actor(s) /\ u = sess[s].user /\ u \in Users /\ u \in exists
        /\ rev[u] \in Nat /\ pwd[u] \in Nat
    BY DEF IInv, Shape, Owned, ChangePassword, Actor
  <2>2. /\ pwd' = [pwd EXCEPT ![u] = @ + 1]
        /\ rev' = [rev EXCEPT ![u] = @ + 1]
        /\ sess' = [sess EXCEPT ![s] =
                      [user |-> u, rev |-> rev'[u], pwd |-> pwd'[u]]]
        /\ revoked' = (revoked \cup SessionsOf(u)) \ {s}
        /\ End(s)
        /\ exists' = exists /\ active' = active /\ audit' = audit
    BY <1>2 DEF ChangePassword
  <2> HIDE DEF u
  <2>3. /\ pwd' \in [Users -> Nat] /\ rev' \in [Users -> Nat]
        /\ rev'[u] = rev[u] + 1
        /\ \A v \in Users : v # u => rev'[v] = rev[v]
    BY <2>1, <2>2 DEF IInv, Shape
  <2>4. /\ \A t \in Sessions : t # s => sess'[t] = sess[t]
        /\ sess'[s] = [user |-> u, rev |-> rev'[u], pwd |-> pwd'[u]]
        /\ sess'[s] \in [user : Users, rev : Nat, pwd : Nat]
    BY <2>1, <2>2, <2>3 DEF IInv, Shape
  <2>5. Shape'
    <3>1. sess' \in [Sessions -> [user : Users, rev : Nat, pwd : Nat] \cup {None}]
      BY <2>2, <2>4 DEF IInv, Shape
    <3>2. QED
      BY <2>2, <2>3, <3>1 DEF IInv, Shape, End, Goto, SessionsOf
  <2>6. \A t \in Sessions : pc'[t] # "idle" => t # s /\ pc'[t] = pc[t] /\ op'[t] = op[t]
    BY <2>2 DEF IInv, Shape, End, Goto
  <2>7. Owned'
    BY <2>1, <2>2, <2>4, <2>6 DEF IInv, Owned, Target, Actor
  <2>8. \A t \in Sessions : t # s /\ advisory = t => advisory' = t
    BY <2>2 DEF End
  <2>9. TurnsGuarded'
    BY <2>2, <2>4, <2>6, <2>8 DEF IInv, TurnsGuarded, Authorized, Actor, Target
  <2>10. SomeAdminActive'
    BY <2>2 DEF IInv, SomeAdminActive
  <2>11. RevisionsBehind'
    <3>1. SUFFICES ASSUME NEW t \in Sessions, sess'[t] # None
                   PROVE  /\ sess'[t].rev <= rev'[sess'[t].user]
                          /\ t \in revoked' => sess'[t].rev < rev'[sess'[t].user]
      BY DEF RevisionsBehind
    <3>2. CASE t = s
      <4>1. sess'[t].user = u /\ sess'[t].rev = rev'[u]
        BY <2>4, <3>2
      <4>2. t \notin revoked'
        BY <2>2, <3>2
      <4>3. rev'[u] \in Nat
        BY <2>1, <2>3
      <4>4. QED
        BY <4>1, <4>2, <4>3
    <3>3. CASE t # s
      <4>1. sess'[t] = sess[t] /\ sess[t] # None
        BY <2>4, <3>1, <3>3
      <4>2. /\ sess[t].user \in Users /\ sess[t].rev \in Nat
            /\ rev[sess[t].user] \in Nat
            /\ sess[t].rev <= rev[sess[t].user]
            /\ t \in revoked => sess[t].rev < rev[sess[t].user]
        BY <4>1 DEF IInv, Shape, RevisionsBehind
      <4>3. CASE sess[t].user = u
        BY <2>1, <2>3, <4>1, <4>2, <4>3
      <4>4. CASE sess[t].user # u
        <5>1. t \in revoked' => t \in revoked
          BY <2>2, <4>4 DEF SessionsOf
        <5>2. QED
          BY <2>3, <4>1, <4>2, <4>4, <5>1
      <4>5. QED
        BY <4>3, <4>4
    <3>4. QED
      BY <3>2, <3>3
  <2>12. QED
    BY <2>5, <2>7, <2>9, <2>10, <2>11 DEF IInv
<1>3. QED
  BY <1>1, <1>2

-----------------------------------------------------------------------------

LEMMA StepIInv == IInv /\ WritesPending /\ [Next]_vars => IInv'
<1> SUFFICES ASSUME IInv, WritesPending, [Next]_vars PROVE IInv'
  OBVIOUS
<1>1. CASE UNCHANGED vars
  BY <1>1 DEF vars, accounts, IInv, Shape, Owned, TurnsGuarded, SomeAdminActive,
     RevisionsBehind, Authorized, Actor, Target
<1>2. CASE Next
  <2>1. PICK s \in Sessions :
          \/ \E u \in Users : Login(s, u)
          \/ Leave(s)
          \/ \E kind \in Kinds, u \in Users : Start(s, kind, u)
          \/ TakeAdvisory(s) \/ ReadActor(s) \/ LockTarget(s) \/ Write(s) \/ Commit(s)
          \/ ChangePassword(s)
          \/ Fail(s)
    BY <1>2 DEF Next
  <2>2. ASSUME NEW u \in Users, Login(s, u)
        PROVE  IInv'
    BY <2>2, LoginInv
  <2>3. CASE Leave(s)
    BY <2>3, LeaveInv
  <2>4. ASSUME NEW kind \in Kinds, NEW u \in Users, Start(s, kind, u)
        PROVE  IInv'
    BY <2>4, StartInv
  <2>5. CASE TakeAdvisory(s)
    BY <2>5, TakeAdvisoryInv
  <2>6. CASE ReadActor(s)
    BY <2>6, ReadActorInv
  <2>7. CASE LockTarget(s)
    BY <2>7, LockTargetInv
  <2>8. CASE Write(s)
    BY <2>8, WriteInv
  <2>9. CASE ChangePassword(s)
    BY <2>9, ChangePasswordInv
  <2>10. CASE Fail(s)
    BY <2>10, RefuseInv DEF Fail
  <2>11. CASE Commit(s)
    BY <2>11, CommitInv
  <2>12. QED
    BY <2>1, <2>2, <2>3, <2>4, <2>5, <2>6, <2>7, <2>8, <2>9, <2>10, <2>11
<1>3. QED
  BY <1>1, <1>2

LEMMA InitWritesPending == Init => WritesPending
BY DEF Init, WritesPending

\* Whatever ends an operation gives back only its own locks.
LEMMA EndWritesPending ==
  ASSUME IInv, WritesPending, NEW s \in Sessions, End(s),
         \A t \in Sessions : pc[t] = "commit" /\ t # s /\ op[t].kind = "create" =>
           Target(t) \notin exists'
  PROVE  WritesPending'
<1>1. \A t \in Sessions : pc'[t] # "idle" => t # s /\ pc'[t] = pc[t] /\ op'[t] = op[t]
  BY DEF IInv, Shape, End, Goto
<1>2. ASSUME NEW t \in Sessions, t # s, pc[t] = "commit"
      PROVE  rowLock'[Target(t)] = t
  <2>1. rowLock[Target(t)] = t /\ Target(t) \in Users
    BY <1>2 DEF WritesPending, IInv, Shape, Owned, Target
  <2>2. QED
    BY <1>2, <2>1 DEF End
<1>3. QED
  BY <1>1, <1>2 DEF WritesPending, Target

LEMMA RefuseWritesPending ==
  ASSUME IInv, WritesPending, NEW s \in Sessions, Refuse(s)
  PROVE  WritesPending'
BY EndWritesPending DEF Refuse, accounts, WritesPending

\* A row that was free, or one's own, is locked; nobody reaches the commit but the
\* one who locks it.
LEMMA LockWritesPending ==
  ASSUME IInv, WritesPending, NEW s \in Sessions, pc[s] # "idle",
         rowLock[Target(s)] \in {None, s},
         rowLock' = [rowLock EXCEPT ![Target(s)] = s],
         NEW where, Goto(s, where),
         where = "commit" /\ op[s].kind = "create" => Target(s) \notin exists,
         UNCHANGED <<exists, op>>
  PROVE  WritesPending'
<1>1. \A t \in Sessions : t # s => pc'[t] = pc[t]
  BY DEF IInv, Shape, Goto
<1>2. pc'[s] = where /\ Target(s) \in Users
  BY DEF IInv, Shape, Owned, Goto, Target
<1>3. rowLock'[Target(s)] = s
  BY <1>2 DEF IInv, Shape
<1>4. ASSUME NEW t \in Sessions, t # s, pc[t] = "commit"
      PROVE  rowLock'[Target(t)] = t
  <2>1. rowLock[Target(t)] = t /\ t # None /\ Target(t) \in Users
    BY <1>4, UsersAssumption DEF WritesPending, IInv, Shape, Owned, Target
  <2>2. Target(t) # Target(s)
    BY <1>4, <2>1
  <2>3. QED
    BY <2>1, <2>2 DEF IInv, Shape
<1>5. QED
  BY <1>1, <1>2, <1>3, <1>4 DEF WritesPending, Target

LEMMA CommitWritesPending ==
  ASSUME IInv, WritesPending, NEW s \in Sessions, Commit(s)
  PROVE  WritesPending'
<1>1. End(s) /\ exists' = exists \cup {Target(s)} /\ rowLock[Target(s)] = s
  BY DEF Commit, WritesPending
<1>2. ASSUME NEW t \in Sessions, pc[t] = "commit", t # s, op[t].kind = "create"
      PROVE  Target(t) \notin exists'
  BY <1>1, <1>2 DEF WritesPending
<1>3. QED
  BY <1>1, <1>2, EndWritesPending

LEMMA StepWritesPending == IInv /\ WritesPending /\ [Next]_vars => WritesPending'
<1> SUFFICES ASSUME IInv, WritesPending, [Next]_vars PROVE WritesPending'
  OBVIOUS
<1>1. CASE UNCHANGED <<exists, op, pc, rowLock>>
  BY <1>1 DEF WritesPending, Target
<1>2. ASSUME NEW s \in Sessions, Refuse(s)
      PROVE  WritesPending'
  BY <1>2, RefuseWritesPending
<1>3. ASSUME NEW s \in Sessions, NEW where \in {"advisory", "actor", "target", "write", "verify"},
             Goto(s, where), UNCHANGED <<exists, rowLock>>,
             \A t \in Sessions : t # s => op'[t] = op[t]
      PROVE  WritesPending'
  <2>1. pc'[s] = where /\ \A t \in Sessions : t # s => pc'[t] = pc[t]
    BY <1>3 DEF IInv, Shape, Goto
  <2>2. QED
    BY <1>3, <2>1 DEF WritesPending, Target
<1>4. ASSUME NEW s \in Sessions, NEW kind \in Kinds, NEW u \in Users, Start(s, kind, u)
      PROVE  WritesPending'
  <2>1. \A t \in Sessions : t # s => op'[t] = op[t]
    BY <1>4 DEF IInv, Shape, Start
  <2>2. QED
    BY <1>3, <1>4, <2>1 DEF Start, accounts
<1>5. ASSUME NEW s \in Sessions, TakeAdvisory(s)
      PROVE  WritesPending'
  BY <1>3, <1>5 DEF TakeAdvisory, accounts
<1>6. ASSUME NEW s \in Sessions, ReadActor(s)
      PROVE  WritesPending'
  BY <1>2, <1>3, <1>6 DEF ReadActor, accounts
<1>7. ASSUME NEW s \in Sessions, LockTarget(s)
      PROVE  WritesPending'
  BY <1>2, <1>7, LockWritesPending DEF LockTarget, accounts
<1>8. ASSUME NEW s \in Sessions, Write(s)
      PROVE  WritesPending'
  BY <1>2, <1>8, LockWritesPending DEF Write, accounts
<1>9. ASSUME NEW s \in Sessions, Commit(s)
      PROVE  WritesPending'
  BY <1>9, CommitWritesPending
<1>10. ASSUME NEW s \in Sessions, ChangePassword(s)
       PROVE  WritesPending'
  <2>1. CASE Refuse(s)
    BY <1>2, <2>1
  <2>2. CASE ~Refuse(s)
    <3>1. End(s) /\ exists' = exists
      BY <1>10, <2>2 DEF ChangePassword
    <3>2. QED
      BY <3>1, EndWritesPending DEF WritesPending
  <2>3. QED
    BY <2>1, <2>2
<1>11. CASE Next
  BY <1>1, <1>2, <1>4, <1>5, <1>6, <1>7, <1>8, <1>9, <1>10, <1>11
     DEF Next, Login, Leave, Fail, accounts
<1>12. QED
  BY <1>1, <1>11 DEF vars, accounts

LEMMA IInvHolds == Spec => [](IInv /\ WritesPending)
BY InitIInv, InitWritesPending, StepIInv, StepWritesPending, PTL DEF Spec

\* Whatever the administrators do to each other at the same time, one who is
\* active is left, however many accounts and sessions there are.
THEOREM AdminRemains == Spec => []SomeAdminActive
<1>1. IInv => SomeAdminActive
  BY DEF IInv
<1>2. QED
  BY <1>1, IInvHolds, PTL

\* A session that was cut off is never let in again.
THEOREM RevocationHolds == Spec => []RevokedStaysOut
<1>1. IInv => RevokedStaysOut
  <2>1. SUFFICES ASSUME IInv, NEW s \in revoked, Valid(s)
                 PROVE  FALSE
    BY DEF RevokedStaysOut
  <2>2. s \in Sessions
    BY <2>1 DEF IInv, Shape
  <2>3. sess[s] # None /\ sess[s].rev = rev[sess[s].user]
    BY <2>1 DEF Valid, Actor
  <2>4. sess[s].rev < rev[sess[s].user] /\ sess[s].rev \in Nat
    BY <2>1, <2>2, <2>3 DEF IInv, Shape, RevisionsBehind
  <2>5. QED
    BY <2>3, <2>4
<1>2. QED
  BY <1>1, IInvHolds, PTL

\* Accounts are enabled and disabled by administrators who are active when the
\* change commits.
THEOREM TurnsByActiveAdmins == Spec => NoTurnByDisabledAdmin
<1> DEFINE TurnedRightly ==
      \A i \in (Len(audit) + 1)..Len(audit') :
        audit'[i].action \in {"enable", "disable"} => Authorized(audit'[i].actor)
<1>1. ASSUME IInv, [Next]_vars
      PROVE  [TurnedRightly]_vars
  <2>1. Len(audit) \in Nat
    BY <1>1 DEF IInv, Shape
  <2>2. CASE audit' = audit
    BY <2>1, <2>2
  <2>3. ASSUME NEW s \in Sessions, Commit(s), audit' # audit
        PROVE  TurnedRightly
    <3>1. audit' = Logged(s)
      BY <2>3 DEF Commit
    <3>2. op[s].kind \in Turns => Authorized(Actor(s))
      BY <1>1, <2>3 DEF IInv, TurnsGuarded, Commit
    <3> DEFINE e == [actor |-> Actor(s), target |-> Target(s), action |-> op[s].kind]
    <3>3. e \in [actor : Users, target : Users, action : Kinds]
      BY <1>1, <2>3 DEF IInv, Shape, Owned, Commit, Actor, Target
    <3>4. e.action = op[s].kind /\ e.actor = Actor(s)
      OBVIOUS
    <3>5. audit' = Append(audit, e)
      BY <3>1 DEF Logged
    <3> HIDE DEF e
    <3>6. Len(audit') = Len(audit) + 1 /\ audit'[Len(audit) + 1] = e
      BY <1>1, <3>3, <3>5 DEF IInv, Shape
    <3>7. \A i \in (Len(audit) + 1)..Len(audit') : i = Len(audit) + 1
      BY <2>1, <3>6
    <3>8. QED
      BY <3>2, <3>4, <3>6, <3>7 DEF Turns
  <2>4. audit' = audit \/ \E s \in Sessions : Commit(s)
    BY <1>1 DEF Next, vars, accounts, Login, Leave, Start, TakeAdvisory, ReadActor,
       LockTarget, Write, ChangePassword, Fail, Refuse
  <2>5. QED
    BY <2>2, <2>3, <2>4
<1>2. QED
  BY <1>1, IInvHolds, PTL DEF Spec, NoTurnByDisabledAdmin
-----------------------------------------------------------------------------
(* What the audit log says.                                                *)

\* An operation that reaches the audit log is of a kind the log knows.
KindsAudited == \A s \in Sessions : pc[s] \notin {"idle", "verify"} => op[s].kind # "change"

\* The rest of the shapes, which the other proofs do not need.
MoreShape ==
  /\ must \in [Users -> BOOLEAN]
  /\ audit \in Seq([actor : Users, target : Users, action : AuditKinds])
  /\ advisory \in Sessions \cup {None}
  /\ KindsAudited

LEMMA InitMoreShape == Init => MoreShape
BY DEF Init, MoreShape, KindsAudited

\* Whatever ends an operation leaves shapes behind.
LEMMA EndMoreShape ==
  ASSUME IInv, MoreShape, NEW s \in Sessions, End(s), must' \in [Users -> BOOLEAN],
         audit' \in Seq([actor : Users, target : Users, action : AuditKinds])
  PROVE  MoreShape'
<1>1. advisory' \in Sessions \cup {None}
  BY DEF MoreShape, End
<1>2. KindsAudited'
  BY DEF IInv, Shape, MoreShape, KindsAudited, End, Goto
<1>3. QED
  BY <1>1, <1>2 DEF MoreShape

LEMMA RefuseMoreShape ==
  ASSUME IInv, MoreShape, NEW s \in Sessions, Refuse(s)
  PROVE  MoreShape'
<1>1. End(s) /\ must' = must /\ audit' = audit
  BY DEF Refuse, accounts
<1>2. QED
  BY <1>1, EndMoreShape DEF MoreShape

LEMMA StartMoreShape ==
  ASSUME IInv, MoreShape, NEW s \in Sessions, NEW kind \in Kinds, NEW u \in Users,
         Start(s, kind, u)
  PROVE  MoreShape'
<1>1. /\ must' = must /\ audit' = audit /\ advisory' = advisory /\ rowLock' = rowLock
      /\ op' = [op EXCEPT ![s] = [kind |-> kind, target |-> u]]
  BY DEF Start, accounts
<1>2. pc' = [pc EXCEPT ![s] = CASE kind = "change" -> "verify"
                                [] kind \in {"enable", "disable"} -> "advisory"
                                [] OTHER -> "actor"]
  BY DEF Start, Goto
<1>3. \A t \in Sessions : t # s => pc'[t] = pc[t] /\ op'[t] = op[t]
  BY <1>1, <1>2 DEF IInv, Shape
<1>4. op'[s].kind = kind /\ (kind = "change" => pc'[s] = "verify")
  BY <1>1, <1>2 DEF IInv, Shape
<1>5. KindsAudited'
  BY <1>3, <1>4 DEF MoreShape, KindsAudited
<1>6. QED
  BY <1>1, <1>5 DEF MoreShape

\* A statement that goes on to the next one.
LEMMA OnwardMoreShape ==
  ASSUME IInv, MoreShape, NEW s \in Sessions, pc[s] \in {"advisory", "actor", "target", "write"},
         NEW where, Goto(s, where), UNCHANGED <<op, must, audit>>,
         advisory' \in Sessions \cup {None}
  PROVE  MoreShape'
<1>1. \A t \in Sessions : t # s => pc'[t] = pc[t]
  BY DEF IInv, Shape, Goto
<1>2. KindsAudited'
  BY <1>1 DEF MoreShape, KindsAudited
<1>3. QED
  BY <1>2 DEF MoreShape

LEMMA CommitMoreShape ==
  ASSUME IInv, MoreShape, NEW s \in Sessions, Commit(s)
  PROVE  MoreShape'
<1>1. /\ must' = [must EXCEPT ![Target(s)] = @ \/ op[s].kind \in {"reset", "create"}]
      /\ audit' = Logged(s) /\ End(s)
  BY DEF Commit
<1>2. /\ Actor(s) \in Users /\ Target(s) \in Users
      /\ op[s].kind \in AuditKinds
  BY DEF IInv, Shape, Owned, Commit, Actor, Target, MoreShape, KindsAudited, AuditKinds
<1>3. audit' \in Seq([actor : Users, target : Users, action : AuditKinds])
  BY <1>1, <1>2 DEF Logged, MoreShape
<1>4. must' \in [Users -> BOOLEAN]
  BY <1>1, <1>2 DEF MoreShape
<1>5. QED
  BY <1>1, <1>3, <1>4, EndMoreShape

LEMMA ChangeMoreShape ==
  ASSUME IInv, MoreShape, NEW s \in Sessions, ChangePassword(s)
  PROVE  MoreShape'
<1>1. CASE Refuse(s)
  BY <1>1, RefuseMoreShape
<1>2. CASE ~Refuse(s)
  <2>1. must' = [must EXCEPT ![Target(s)] = FALSE] /\ audit' = audit /\ End(s)
    BY <1>2 DEF ChangePassword
  <2>2. QED
    BY <2>1, EndMoreShape DEF MoreShape
<1>3. QED
  BY <1>1, <1>2

LEMMA StepMoreShape == IInv /\ MoreShape /\ [Next]_vars => MoreShape'
<1> SUFFICES ASSUME IInv, MoreShape, [Next]_vars PROVE MoreShape'
  OBVIOUS
<1>1. CASE UNCHANGED <<accounts, op, pc, advisory, rowLock>>
  BY <1>1 DEF accounts, MoreShape, KindsAudited
<1>2. ASSUME NEW s \in Sessions, NEW kind \in Kinds, NEW u \in Users, Start(s, kind, u)
      PROVE  MoreShape'
  BY <1>2, StartMoreShape
<1>3. ASSUME NEW s \in Sessions, TakeAdvisory(s)
      PROVE  MoreShape'
  <2>1. /\ pc[s] = "advisory" /\ Goto(s, "actor") /\ advisory' = s
        /\ UNCHANGED <<op, must, audit>>
    BY <1>3 DEF TakeAdvisory, accounts
  <2>2. QED
    BY <2>1, OnwardMoreShape
<1>4. ASSUME NEW s \in Sessions, ReadActor(s)
      PROVE  MoreShape'
  <2>1. CASE Refuse(s)
    BY <2>1, RefuseMoreShape
  <2>2. CASE ~Refuse(s)
    <3>1. /\ pc[s] = "actor" /\ UNCHANGED <<op, must, audit>>
          /\ Goto(s, IF op[s].kind = "create" THEN "write" ELSE "target")
          /\ advisory' = advisory
      BY <1>4, <2>2 DEF ReadActor, accounts
    <3>2. QED
      BY <3>1, OnwardMoreShape DEF MoreShape
  <2>3. QED
    BY <2>1, <2>2
<1>5. ASSUME NEW s \in Sessions, LockTarget(s)
      PROVE  MoreShape'
  <2>1. CASE Refuse(s)
    BY <2>1, RefuseMoreShape
  <2>2. CASE ~Refuse(s)
    <3>1. /\ pc[s] = "target" /\ UNCHANGED <<op, must, audit>> /\ Goto(s, "write")
          /\ advisory' = advisory
      BY <1>5, <2>2 DEF LockTarget, accounts
    <3>2. QED
      BY <3>1, OnwardMoreShape DEF MoreShape
  <2>3. QED
    BY <2>1, <2>2
<1>6. ASSUME NEW s \in Sessions, Write(s)
      PROVE  MoreShape'
  <2>1. CASE Refuse(s)
    BY <2>1, RefuseMoreShape
  <2>2. CASE ~Refuse(s)
    <3>1. /\ pc[s] = "write" /\ UNCHANGED <<op, must, audit>> /\ Goto(s, "commit")
          /\ advisory' = advisory
      BY <1>6, <2>2 DEF Write, accounts
    <3>2. QED
      BY <3>1, OnwardMoreShape DEF MoreShape
  <2>3. QED
    BY <2>1, <2>2
<1>7. ASSUME NEW s \in Sessions, ChangePassword(s)
      PROVE  MoreShape'
  BY <1>7, ChangeMoreShape
<1>8. ASSUME NEW s \in Sessions, Fail(s)
      PROVE  MoreShape'
  BY <1>8, RefuseMoreShape DEF Fail
<1>9. ASSUME NEW s \in Sessions, Commit(s)
      PROVE  MoreShape'
  BY <1>9, CommitMoreShape
<1>10. CASE Next
  BY <1>1, <1>2, <1>3, <1>4, <1>5, <1>6, <1>7, <1>8, <1>9, <1>10 DEF Next, Login, Leave
<1>11. QED
  BY <1>1, <1>10 DEF vars

\* Accounts, sessions, operations, locks and the log have their shapes, and a
\* session in the middle of an operation is logged in and has one.
THEOREM TypeCorrect == Spec => []TypeOK
<1>1. Spec => [](IInv /\ MoreShape)
  BY IInvHolds, InitMoreShape, StepMoreShape, PTL DEF Spec
<1>2. IInv /\ MoreShape => TypeOK
  BY DEF IInv, Shape, Owned, MoreShape, TypeOK
<1>3. QED
  BY <1>1, <1>2, PTL

\* Event i of a log turned u on or off.
IsTurn(log, i, u) == log[i].target = u /\ log[i].action \in Turns

\* The last of them, if there is one, turned it on.
LastTurnEnables(log, u) ==
  \A i \in 1..Len(log) :
    IsTurn(log, i, u) /\ (\A j \in 1..Len(log) : IsTurn(log, j, u) => j <= i)
      => log[i].action = "enable"

\* The log explains what every account is, and an account that does not exist yet
\* is not in it.
LogExplains ==
  /\ \A u \in Users : active[u] <=> LastTurnEnables(audit, u)
  /\ \A i \in 1..Len(audit) : audit[i].target \in exists

LEMMA InitLogExplains == Init => LogExplains
BY DEF Init, LogExplains, LastTurnEnables

\* A change that is committed.
LEMMA CommitLogExplains ==
  ASSUME IInv, WritesPending, MoreShape, LogExplains, NEW s \in Sessions, Commit(s)
  PROVE  LogExplains'
<1> DEFINE e == [actor |-> Actor(s), target |-> Target(s), action |-> op[s].kind]
           n == Len(audit) + 1
<1>1. /\ exists' = exists \cup {Target(s)}
      /\ audit' = Append(audit, e)
      /\ active' = [active EXCEPT ![Target(s)] =
                      IF op[s].kind \in {"enable", "disable"}
                        THEN op[s].kind = "enable"
                      ELSE IF op[s].kind = "create" THEN TRUE ELSE @]
  BY DEF Commit, Turned, Logged
<1>2. /\ Actor(s) \in Users /\ Target(s) \in Users
      /\ op[s].kind \in AuditKinds /\ e \in [actor : Users, target : Users, action : AuditKinds]
      /\ e.target = Target(s) /\ e.action = op[s].kind
  BY DEF IInv, Shape, Owned, Commit, Actor, Target, MoreShape, KindsAudited, AuditKinds
<1> HIDE DEF e
<1>3. /\ Len(audit) \in Nat /\ Len(audit') = n /\ audit'[n] = e
      /\ \A i \in 1..Len(audit) : audit'[i] = audit[i]
  BY <1>1, <1>2 DEF MoreShape
<1>4. \A i \in 1..Len(audit') : audit'[i].target \in exists'
  <2>1. \A i \in 1..Len(audit') : i \in 1..Len(audit) \/ i = n
    BY <1>3
  <2>2. QED
    BY <1>1, <1>2, <1>3, <2>1 DEF LogExplains
<1>5. \A u \in Users, i \in 1..Len(audit) : IsTurn(audit', i, u) <=> IsTurn(audit, i, u)
  BY <1>3 DEF IsTurn
<1>6. ASSUME NEW u \in Users, ~(u = Target(s) /\ op[s].kind \in Turns)
      PROVE  LastTurnEnables(audit', u) <=> LastTurnEnables(audit, u)
  <2>1. ~IsTurn(audit', n, u)
    BY <1>2, <1>3, <1>6 DEF IsTurn
  <2>2. \A i \in 1..Len(audit') : i \in 1..Len(audit) \/ i = n
    BY <1>3
  <2>3. \A i \in 1..Len(audit) : i \in 1..Len(audit')
    BY <1>3
  <2>4. QED
    BY <1>3, <1>5, <2>1, <2>2, <2>3 DEF LastTurnEnables
<1>7. CASE op[s].kind \in Turns
  <2>1. LastTurnEnables(audit', Target(s)) <=> op[s].kind = "enable"
    <3>1. IsTurn(audit', n, Target(s))
      BY <1>2, <1>3, <1>7 DEF IsTurn
    <3>2. n \in 1..Len(audit') /\ \A j \in 1..Len(audit') : j <= n
      BY <1>3
    <3>3. \A i \in 1..Len(audit') : n <= i => i = n
      BY <1>3
    <3>4. QED
      BY <1>2, <1>3, <3>1, <3>2, <3>3 DEF LastTurnEnables
  <2>2. active'[Target(s)] <=> op[s].kind = "enable"
    BY <1>1, <1>2, <1>7 DEF IInv, Shape, Turns
  <2>3. \A u \in Users : u # Target(s) => active'[u] = active[u]
    BY <1>1 DEF IInv, Shape
  <2>4. QED
    BY <1>4, <1>6, <2>1, <2>2, <2>3 DEF LogExplains
<1>8. CASE op[s].kind \notin Turns
  <2>1. ASSUME op[s].kind = "create"
        PROVE  active[Target(s)]
    <3>1. \A i \in 1..Len(audit) : ~IsTurn(audit, i, Target(s))
      BY <2>1 DEF LogExplains, IsTurn, WritesPending, Commit
    <3>2. QED
      BY <1>2, <3>1 DEF LogExplains, LastTurnEnables
  <2>2. \A u \in Users : active'[u] = active[u]
    BY <1>1, <1>2, <1>8, <2>1 DEF IInv, Shape, Turns
  <2>3. QED
    BY <1>4, <1>6, <1>8, <2>2 DEF LogExplains
<1>9. QED
  BY <1>7, <1>8

LEMMA StepLogExplains ==
  IInv /\ WritesPending /\ MoreShape /\ LogExplains /\ [Next]_vars => LogExplains'
<1> SUFFICES ASSUME IInv, WritesPending, MoreShape, LogExplains, [Next]_vars PROVE LogExplains'
  OBVIOUS
<1>1. CASE UNCHANGED <<exists, active, audit>>
  BY <1>1 DEF LogExplains, LastTurnEnables, IsTurn
<1>2. ASSUME NEW s \in Sessions, Commit(s)
      PROVE  LogExplains'
  BY <1>2, CommitLogExplains
<1>3. CASE Next
  BY <1>1, <1>2, <1>3 DEF Next, accounts, Login, Leave, Start, TakeAdvisory, ReadActor,
     LockTarget, Write, ChangePassword, Fail, Refuse
<1>4. QED
  BY <1>1, <1>3 DEF vars, accounts

\* The last event of the log that turned an account on or off says what it is
\* now: the change and its audit row are one transaction, whatever runs between.
THEOREM AuditIsTrue == Spec => []AuditExplainsActive
<1>1. Spec => [](IInv /\ MoreShape /\ LogExplains)
  BY IInvHolds, InitMoreShape, InitLogExplains, StepMoreShape, StepLogExplains, PTL DEF Spec
<1>2. IInv /\ MoreShape /\ LogExplains => AuditExplainsActive
  <2>1. SUFFICES ASSUME IInv, LogExplains, NEW u \in exists
                 PROVE  active[u] <=> LastTurnEnables(audit, u)
    BY DEF AuditExplainsActive, LastTurnEnables, IsTurn, Turns
  <2>2. QED
    BY <2>1 DEF IInv, Shape, LogExplains
<1>3. QED
  BY <1>1, <1>2, PTL

=============================================================================
