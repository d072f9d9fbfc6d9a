---------------------------- MODULE CinemaProofs -----------------------------
(***************************************************************************)
(* Who belongs to a cinema, and which modules it has switched on, for any    *)
(* number of accounts and cinemas, any catalogue of modules and dependencies *)
(* and any number of concurrent requests: the default cinema follows the     *)
(* memberships, a MASTER has none, who is blocked keeps the default, and      *)
(* modules are switched as one atomic step.                                   *)
(***************************************************************************)
EXTENDS Accounts, CinemaModules, WellFoundedInduction, TLAPS

-----------------------------------------------------------------------------
(* The inductive invariant *)

Locking == Withdrawal \cup Choice \cup {"reactivate", "status"}

\* Who is blocked is a MASTER, who has no memberships; there is no row of an
\* account that does not exist.
AccountRows ==
  \A u \in User :
    /\ account[u] = "none" => default[u] = None
    /\ account[u] # "MEMBER" => Active(u) = {} /\ \A c \in Cinema : member[u][c] = "none"
    /\ u \in blocked => account[u] = "MASTER"

\* A transaction holds the lock of the account it changes, or of the directory.
LocksHeld ==
  \A s \in Session :
    /\ sess[s].op \in Locking => lock[sess[s].user] = s
    /\ sess[s].op = "create" => directory = s

\* What the transaction checked of the request and the account is still so.
AccountsChecked ==
  \A s \in Session :
    LET r == sess[s] IN
    /\ r.op \in Locking => account[r.user] # "none"
    /\ r.op \in Withdrawal \cup {"reactivate", "manageDefault"} => account[r.user] = "MEMBER"
    /\ r.op = "status" => account[r.user] = "MASTER"
    /\ r.op = "choose" => r.user \notin blocked
    /\ r.op = "replace" => r.cinema \in r.cinemas \cup {None}
    /\ r.op = "create" =>
         /\ r.role \in {"MEMBER", "MASTER"}
         /\ r.role = "MEMBER" => r.cinema \in Cinema
         /\ r.known => r.role = "MEMBER" /\ account[r.user] = "MEMBER"
         /\ ~r.known => account[r.user] = "none"

\* A link found a default that is still there.
LinksOK ==
  \A s \in Session :
    LET r == sess[s] IN
    r.op = "create" /\ r.known /\ r.user \notin crossed /\ r.seen # None =>
      default[r.user] # None

\* A withdrawal that no link overlaps knows the default, and leaves one of the
\* memberships that remain, if any does.
Leaves(active, off, on, next) ==
  LET remaining == (active \ off) \cup on IN
  IF remaining = {} THEN next = None ELSE next \in remaining

WithdrawalsOK ==
  \A s \in Session, u \in User :
    sess[s].op \in Withdrawal /\ sess[s].user = u /\ u \notin crossed =>
      /\ ~Linking(u)
      /\ sess[s].seen = default[u]
      /\ sess[s].step \in {"members", "commit"}
      /\ sess[s].step = "commit" =>
           Leaves(Active(u), sess[s].off, sess[s].on, sess[s].next)

\* A reactivation keeps a default that is still there, or makes its cinema one.
ReactivationsOK ==
  \A s \in Session :
    LET r == sess[s] IN
    r.op = "reactivate" =>
      /\ r.seen # None => default[r.user] # None
      /\ r.cinema \in Cinema
      /\ r.step = "commit" =>
           /\ r.off = {} /\ r.on = {r.cinema}
           /\ r.next = IF r.seen = None THEN r.cinema ELSE r.seen

\* A default that is chosen is an active membership.
ChoicesOK ==
  \A s \in Session, u \in User :
    sess[s].op \in Choice /\ sess[s].user = u /\ sess[s].step = "commit" =>
      /\ sess[s].off = {} /\ sess[s].on = {}
      /\ account[u] = "MEMBER" => sess[s].next \in Active(u)

Inv ==
  /\ TypeOK /\ AccountRows /\ LocksHeld /\ AccountsChecked
  /\ LinksOK /\ WithdrawalsOK /\ ReactivationsOK /\ ChoicesOK
  /\ DefaultFollowsMemberships

-----------------------------------------------------------------------------
(* Requests *)

\* The least of some cinemas is one of them.
LEMMA LeastCinema ==
  ASSUME NEW S \in SUBSET Cinema, S # {}
  PROVE  Min(S) \in S
<1>1. S \subseteq Nat
  BY AccountsAssumption
<1>2. \E x \in S : \A y \in S : ~ (<<y, x>> \in OpToRel(<, Nat))
  BY <1>1, NatLessThanWellFounded, WFMin
<1>3. PICK x \in S : \A y \in S : ~ (<<y, x>> \in OpToRel(<, Nat))
  BY <1>2
<1>4. ASSUME NEW y \in S PROVE x <= y
  <2>1. ~ (y < x)
    BY <1>1, <1>3 DEF OpToRel
  <2> QED BY <1>1, <2>1
<1> QED BY <1>4 DEF Min

\* The sign of "no cinema" is none of them.
LEMMA NoneIsNoCinema == None \notin Cinema
BY AccountsAssumption DEF None

\* A new request is well formed.
LEMMA NewRequestType ==
  ASSUME NEW op \in {"create", "reactivate", "status", "edit", "login"} \cup Withdrawal \cup Choice,
         NEW u \in User
  PROVE  NewRequest(op, u) \in Request /\ NewRequest(op, u).op = op /\ NewRequest(op, u).user = u
BY DEF NewRequest, Request, Role, MaybeCinema

\* What a session that ends leaves behind.
LEMMA ReleaseEffect ==
  ASSUME TypeOK, NEW self \in Session, Release(self)
  PROVE  /\ sess' \in [Session -> Request \cup {Idle}]
         /\ sess'[self] = Idle
         /\ \A p \in Session \ {self} : sess'[p] = sess[p]
         /\ directory' \in Session \cup {Free} /\ lock' \in [User -> Session \cup {Free}]
         /\ \A u \in User, p \in Session \ {self} : lock[u] = p => lock'[u] = p
         /\ \A p \in Session \ {self} : directory = p => directory' = p
BY DEF TypeOK, Release, Set

\* A session at rest runs nothing.
LEMMA IdleOp == Idle.op = "none"
BY DEF Idle

\* The initial state satisfies the invariant.
LEMMA InitInv == Init => Inv
<1> SUFFICES ASSUME Init PROVE Inv
  OBVIOUS
<1>1. TypeOK
  BY DEF Init, TypeOK, Role, MaybeCinema, Status
<1>2. \A s \in Session : sess[s].op = "none"
  BY IdleOp DEF Init
<1>3. AccountRows
  BY DEF Init, AccountRows, Active
<1>4. DefaultFollowsMemberships
  BY DEF Init, DefaultFollowsMemberships
<1> QED BY <1>1, <1>2, <1>3, <1>4
  DEF Inv, LocksHeld, AccountsChecked, LinksOK, WithdrawalsOK, ReactivationsOK, ChoicesOK,
      Locking, Withdrawal, Choice

-----------------------------------------------------------------------------
(* Steps that leave the tables alone *)

\* Quiet: the tables and the others are as before, and no new request is one
\* the invariant speaks of.
Quiet(self) ==
  /\ UNCHANGED <<tables, crossed>>
  /\ sess' \in [Session -> Request \cup {Idle}]
  /\ \A p \in Session \ {self} : sess'[p] = sess[p]
  /\ sess'[self].op \in {"none", "edit", "login"}
  /\ directory' \in Session \cup {Free} /\ lock' \in [User -> Session \cup {Free}]
  /\ \A u \in User, p \in Session \ {self} : lock[u] = p => lock'[u] = p
  /\ \A p \in Session \ {self} : directory = p => directory' = p

\* A step that leaves every row alone keeps the invariant.
LEMMA QuietInv ==
  ASSUME Inv, NEW self \in Session, Quiet(self)
  PROVE  Inv'
<1> USE DEF Inv
<1>1. /\ account' = account /\ blocked' = blocked /\ default' = default /\ member' = member
      /\ crossed' = crossed
  BY DEF Quiet, tables
<1>2. TypeOK'
  BY <1>1 DEF Quiet, TypeOK
<1>3. \A u \in User : Active(u)' = Active(u)
  BY <1>1 DEF Active
<1>4. \A u \in User : Linking(u)' => Linking(u)
  BY DEF Linking, Quiet
<1>5. \A s \in Session : sess'[s].op \notin {"none", "edit", "login"} => sess'[s] = sess[s] /\ s # self
  BY DEF Quiet
<1>6. \A s \in Session : sess[s] # Idle => sess[s].user \in User
  BY DEF TypeOK, Request
<1>7. AccountRows'
  BY <1>1, <1>3 DEF AccountRows
<1>8. LocksHeld'
  BY <1>5, <1>6, IdleOp DEF LocksHeld, Quiet, Locking, Withdrawal, Choice
<1>9. AccountsChecked'
  BY <1>1, <1>5 DEF AccountsChecked, Locking, Withdrawal, Choice
<1>10. LinksOK'
  BY <1>1, <1>5 DEF LinksOK
<1>11. WithdrawalsOK'
  <2> SUFFICES ASSUME NEW s \in Session, NEW u \in User,
                      sess'[s].op \in Withdrawal, sess'[s].user = u, u \notin crossed'
               PROVE  /\ ~Linking(u)'
                      /\ sess'[s].seen = default'[u]
                      /\ sess'[s].step \in {"members", "commit"}
                      /\ sess'[s].step = "commit" =>
                           Leaves(Active(u)', sess'[s].off, sess'[s].on, sess'[s].next)
    BY DEF WithdrawalsOK, Leaves
  <2>1. sess'[s] = sess[s]
    BY <1>5, IdleOp DEF Withdrawal
  <2>2. Active(u)' = Active(u)
    BY <1>3
  <2> QED BY <1>1, <1>4, <2>1, <2>2 DEF WithdrawalsOK
<1>12. ReactivationsOK'
  BY <1>1, <1>5 DEF ReactivationsOK
<1>13. ChoicesOK'
  BY <1>1, <1>3, <1>5, <1>6, IdleOp DEF ChoicesOK, Choice
<1>14. DefaultFollowsMemberships'
  BY <1>1, <1>3 DEF DefaultFollowsMemberships, Settled
<1> QED BY <1>2, <1>7, <1>8, <1>9, <1>10, <1>11, <1>12, <1>13, <1>14

\* Refusals, edits and the reads of a login are quiet.
LEMMA QuietSteps ==
  ASSUME TypeOK, NEW self \in Session,
         \/ Abort(self) \/ WriteEdit(self) \/ LoginDefault(self) \/ LoginFallback(self)
         \/ \E u \in User : EditUser(self, u) \/ Login(self, u)
  PROVE  Quiet(self)
<1>1. CASE Abort(self) \/ WriteEdit(self)
  BY <1>1, ReleaseEffect, IdleOp DEF Abort, WriteEdit, Quiet
<1>2. CASE LoginDefault(self)
  <2>1. sess[self] \in Request
    BY <1>2, IdleOp DEF TypeOK, LoginDefault, Running
  <2>2. [sess[self] EXCEPT !.step = "fallback"] \in Request
    BY <2>1 DEF Request
  <2>3. [sess[self] EXCEPT !.step = "fallback"].op = "login"
    BY <1>2, <2>1 DEF LoginDefault, Running, Request
  <2> QED BY <1>2, <2>2, <2>3, IdleOp DEF TypeOK, LoginDefault, Quiet, Set
<1>3. CASE LoginFallback(self)
  <2>1. sess[self] \in Request
    BY <1>3, IdleOp DEF TypeOK, LoginFallback, Running
  <2>2. PICK c \in Cinema :
          Set(self, IF c = sess[self].seen THEN Idle
                    ELSE [sess[self] EXCEPT !.step = "lock", !.cinema = c])
    BY <1>3 DEF LoginFallback, Active
  <2>3. [sess[self] EXCEPT !.step = "lock", !.cinema = c] \in Request
    BY <2>1 DEF Request, MaybeCinema
  <2>4. [sess[self] EXCEPT !.step = "lock", !.cinema = c].op = "login"
    BY <1>3, <2>1 DEF LoginFallback, Running, Request
  <2> QED BY <1>3, <2>2, <2>3, <2>4, IdleOp DEF TypeOK, LoginFallback, Quiet, Set
<1>4. ASSUME NEW u \in User, EditUser(self, u) PROVE Quiet(self)
  BY <1>4, NewRequestType, AccountsAssumption DEF TypeOK, EditUser, Quiet, Set, tables
<1>5. ASSUME NEW u \in User, Login(self, u) PROVE Quiet(self)
  <2> DEFINE r == [NewRequest("login", u) EXCEPT !.step = "members", !.seen = default[u]]
  <2>1. r \in Request /\ r.op = "login"
    BY DEF TypeOK, NewRequest, Request, Role, MaybeCinema
  <2> QED BY <1>5, <2>1 DEF TypeOK, Login, Quiet, Set
<1> QED BY <1>1, <1>2, <1>3, <1>4, <1>5

-----------------------------------------------------------------------------
(* A handler locks the account, or decides what to write *)

\* The account of a request that is checked again under its lock.
LEMMA LockInv ==
  ASSUME Inv, NEW self \in Session, sess[self].op \in {"none", "edit", "login"},
         NEW q \in Request, LockUser(self, q),
         q.op \in Locking \cup {"edit"},
         q.op \in Withdrawal \cup {"reactivate", "manageDefault"} => account[q.user] = "MEMBER",
         q.op = "status" => account[q.user] = "MASTER",
         q.op = "choose" => q.user \notin blocked,
         q.op = "replace" => q.cinema \in q.cinemas \cup {None},
         q.op = "reactivate" => q.cinema \in Cinema
  PROVE  Inv'
<1> DEFINE u == q.user
<1> DEFINE r == [q EXCEPT !.step = "members", !.seen = default[u]]
<1> USE DEF Inv
<1>1. /\ account' = account /\ blocked' = blocked /\ default' = default /\ member' = member
      /\ directory' = directory /\ lock[u] = Free /\ account[u] # "none"
      /\ lock' = [lock EXCEPT ![u] = self]
      /\ sess' = [sess EXCEPT ![self] = r]
      /\ crossed' = IF q.op \in Withdrawal /\ Linking(u) THEN crossed \cup {u} ELSE crossed
  BY DEF LockUser, Set, tables
<1>2. u \in User
  BY DEF Request
<1>3. r \in Request /\ r.op = q.op /\ r.user = u /\ r.step = "members" /\ r.seen = default[u]
      /\ r.cinema = q.cinema /\ r.cinemas = q.cinemas
  BY <1>2 DEF TypeOK, Request
<1>4. sess'[self] = r /\ \A s \in Session \ {self} : sess'[s] = sess[s]
  BY <1>1 DEF TypeOK
<1>5. TypeOK'
  BY <1>1, <1>2, <1>3 DEF TypeOK
<1>6. \A v \in User : Active(v)' = Active(v)
  BY <1>1 DEF Active
<1>7. q.op # "create"
  BY DEF Locking, Withdrawal, Choice
<1>8. \A v \in User : Linking(v)' => Linking(v)
  BY <1>3, <1>4, <1>7 DEF Linking
<1>9. AccountRows'
  BY <1>1, <1>6 DEF AccountRows
<1>10. LocksHeld'
  <2> SUFFICES ASSUME NEW s \in Session
               PROVE  /\ sess'[s].op \in Locking => lock'[sess'[s].user] = s
                      /\ sess'[s].op = "create" => directory' = s
    BY DEF LocksHeld
  <2>1. CASE s = self
    BY <1>1, <1>2, <1>3, <1>4, <1>7, <2>1 DEF TypeOK
  <2>2. CASE s # self
    BY <1>1, <1>2, <1>4, <2>2, AccountsAssumption DEF TypeOK, LocksHeld
  <2> QED BY <2>1, <2>2
<1>11. AccountsChecked'
  <2>1. \A s \in Session \ {self} : sess'[s] = sess[s]
    BY <1>4
  <2>2. r.op # "create"
    BY <1>3, <1>7
  <2> QED BY <1>1, <1>3, <1>4, <2>2 DEF AccountsChecked
<1>12. LinksOK'
  <2>1. \A s \in Session : sess'[s].op = "create" => sess'[s] = sess[s]
    BY <1>3, <1>4, <1>7
  <2> QED BY <1>1, <2>1 DEF LinksOK
<1>13. WithdrawalsOK'
  <2> SUFFICES ASSUME NEW s \in Session, NEW v \in User,
                      sess'[s].op \in Withdrawal, sess'[s].user = v, v \notin crossed'
               PROVE  /\ ~Linking(v)'
                      /\ sess'[s].seen = default'[v]
                      /\ sess'[s].step \in {"members", "commit"}
                      /\ sess'[s].step = "commit" =>
                           Leaves(Active(v)', sess'[s].off, sess'[s].on, sess'[s].next)
    BY DEF WithdrawalsOK, Leaves
  <2>1. CASE s = self
    <3>1. r.op \in Withdrawal /\ u = v /\ sess'[s] = r
      BY <1>3, <1>4, <2>1
    <3>2. ~Linking(v)
      BY <1>1, <3>1
    <3> HIDE DEF r
    <3> QED BY <1>1, <1>3, <1>8, <3>1, <3>2
  <2>2. CASE s # self
    <3>1. sess'[s] = sess[s] /\ v \notin crossed /\ Active(v)' = Active(v)
      BY <1>1, <1>4, <1>6, <2>2
    <3> QED BY <1>1, <1>8, <3>1 DEF WithdrawalsOK
  <2> QED BY <2>1, <2>2
<1>14. ReactivationsOK'
  <2> SUFFICES ASSUME NEW s \in Session, sess'[s].op = "reactivate"
               PROVE  /\ sess'[s].seen # None => default'[sess'[s].user] # None
                      /\ sess'[s].cinema \in Cinema
                      /\ sess'[s].step = "commit" =>
                           /\ sess'[s].off = {} /\ sess'[s].on = {sess'[s].cinema}
                           /\ sess'[s].next = IF sess'[s].seen = None THEN sess'[s].cinema
                                              ELSE sess'[s].seen
    BY DEF ReactivationsOK
  <2>1. CASE s = self
    BY <1>1, <1>3, <1>4, <2>1
  <2>2. CASE s # self
    BY <1>1, <1>4, <2>2 DEF ReactivationsOK
  <2> QED BY <2>1, <2>2
<1>15. ChoicesOK'
  <2> SUFFICES ASSUME NEW s \in Session, NEW v \in User,
                      sess'[s].op \in Choice, sess'[s].user = v, sess'[s].step = "commit"
               PROVE  /\ sess'[s].off = {} /\ sess'[s].on = {}
                      /\ account'[v] = "MEMBER" => sess'[s].next \in Active(v)'
    BY DEF ChoicesOK
  <2>1. sess'[s] = sess[s]
    BY <1>3, <1>4
  <2> QED BY <1>1, <1>6, <2>1 DEF ChoicesOK
<1>16. DefaultFollowsMemberships'
  BY <1>1, <1>6 DEF DefaultFollowsMemberships, Settled
<1> QED BY <1>5, <1>9, <1>10, <1>11, <1>12, <1>13, <1>14, <1>15, <1>16

\* The five handlers that begin with the lock of the account.
LEMMA LockingSteps ==
  ASSUME Inv, NEW self \in Session,
         \/ \E u \in User, c \in MaybeCinema, cs \in SUBSET Cinema, op \in Withdrawal \cup {"manageDefault"} :
              ChangeMemberships(self, u, op, c, cs)
         \/ \E u \in User, c \in Cinema : ChangeMemberships(self, u, "reactivate", c, {})
         \/ \E u \in User, c \in MaybeCinema : ChooseDefault(self, u, c)
         \/ \E u \in User : ChangeStatus(self, u)
         \/ LockEdited(self) \/ LoginLock(self)
  PROVE  Inv'
<1> USE DEF Locking, Withdrawal, Choice
<1>1. ASSUME NEW u \in User, NEW c \in MaybeCinema, NEW cs \in SUBSET Cinema,
             NEW op \in Withdrawal \cup {"manageDefault", "reactivate"},
             op = "reactivate" => c \in Cinema,
             ChangeMemberships(self, u, op, c, cs)
      PROVE  Inv'
  <2> DEFINE q == [NewRequest(op, u) EXCEPT !.cinema = c, !.cinemas = cs]
  <2>1. q \in Request /\ q.op = op /\ q.user = u /\ q.cinema = c /\ q.cinemas = cs
    BY DEF NewRequest, Request, Role, MaybeCinema
  <2>2. /\ account[u] = "MEMBER" /\ LockUser(self, q) /\ sess[self].op = "none"
        /\ op = "replace" => c \in cs \cup {None}
    BY <1>1, IdleOp DEF ChangeMemberships
  <2> HIDE DEF q
  <2> QED BY <1>1, <2>1, <2>2, LockInv
<1>2. ASSUME NEW u \in User, NEW c \in MaybeCinema, ChooseDefault(self, u, c)
      PROVE  Inv'
  <2> DEFINE q == [NewRequest("choose", u) EXCEPT !.cinema = c]
  <2>1. q \in Request /\ q.op = "choose" /\ q.user = u
    BY DEF NewRequest, Request, Role, MaybeCinema
  <2>2. u \notin blocked /\ LockUser(self, q) /\ sess[self].op = "none"
    BY <1>2, IdleOp DEF ChooseDefault
  <2> HIDE DEF q
  <2> QED BY <2>1, <2>2, LockInv
<1>3. ASSUME NEW u \in User, ChangeStatus(self, u)
      PROVE  Inv'
  <2>1. NewRequest("status", u) \in Request /\ NewRequest("status", u).op = "status"
        /\ NewRequest("status", u).user = u
    BY NewRequestType
  <2>2. account[u] = "MASTER" /\ LockUser(self, NewRequest("status", u)) /\ sess[self].op = "none"
    BY <1>3, IdleOp DEF ChangeStatus
  <2> QED BY <2>1, <2>2, LockInv
<1>4. CASE LockEdited(self)
  <2>1. sess[self] \in Request /\ sess[self].op = "edit"
    BY <1>4, IdleOp DEF Inv, TypeOK, LockEdited, Running
  <2> QED BY <1>4, <2>1, LockInv DEF LockEdited
<1>5. CASE LoginLock(self)
  <2> DEFINE u == sess[self].user
  <2> DEFINE q == [NewRequest("choose", u) EXCEPT !.cinema = sess[self].cinema]
  <2>1. sess[self] \in Request /\ sess[self].op = "login"
    BY <1>5, IdleOp DEF Inv, TypeOK, LoginLock, Running
  <2>2. u \in User /\ sess[self].cinema \in MaybeCinema
    BY <2>1 DEF Request
  <2>3. q \in Request /\ q.op = "choose" /\ q.user = u
    BY <2>2 DEF NewRequest, Request, Role, MaybeCinema
  <2>4. u \notin blocked /\ LockUser(self, q)
    BY <1>5 DEF LoginLock
  <2> HIDE DEF q
  <2> QED BY <2>1, <2>3, <2>4, LockInv
<1>6. Cinema \subseteq MaybeCinema /\ {} \in SUBSET Cinema
  BY DEF MaybeCinema
<1> QED BY <1>1, <1>2, <1>3, <1>4, <1>5, <1>6

\* What a handler decides to write fits the account.
LEMMA DecideInv ==
  ASSUME Inv, NEW self \in Session, NEW off \in SUBSET Cinema, NEW on \in SUBSET Cinema,
         NEW next \in MaybeCinema, NEW r, r = sess[self], Decide(self, off, on, next),
         r.op \in Withdrawal \cup Choice \cup {"reactivate"}, r.step = "members",
         r.op \in Withdrawal => Leaves(Active(r.user), off, on, next),
         r.op = "reactivate" =>
           off = {} /\ on = {r.cinema} /\ next = IF r.seen = None THEN r.cinema ELSE r.seen,
         r.op \in Choice =>
           off = {} /\ on = {} /\ (account[r.user] = "MEMBER" => next \in Active(r.user))
  PROVE  Inv'
<1> DEFINE d == [r EXCEPT !.step = "commit", !.off = off, !.on = on, !.next = next]
<1> USE DEF Inv
<1>1. /\ account' = account /\ blocked' = blocked /\ default' = default /\ member' = member
      /\ directory' = directory /\ lock' = lock /\ crossed' = crossed
      /\ sess' = [sess EXCEPT ![self] = d]
  BY DEF Decide, Set, tables
<1>2. r \in Request /\ r.user \in User
  BY IdleOp DEF TypeOK, Request, Withdrawal, Choice
<1>3. d \in Request /\ d.op = r.op /\ d.user = r.user /\ d.step = "commit" /\ d.seen = r.seen
      /\ d.cinema = r.cinema /\ d.cinemas = r.cinemas /\ d.off = off /\ d.on = on /\ d.next = next
  BY <1>2 DEF Request
<1> HIDE DEF d
<1>4. sess'[self] = d /\ \A s \in Session \ {self} : sess'[s] = sess[s]
  BY <1>1 DEF TypeOK
<1>5. r.op # "create" /\ r.op # "status"
  BY DEF Withdrawal, Choice
<1>6. TypeOK'
  BY <1>1, <1>3 DEF TypeOK
<1>7. \A v \in User : Active(v)' = Active(v)
  BY <1>1 DEF Active
<1>8. \A v \in User : Linking(v)' => Linking(v)
  BY <1>3, <1>4, <1>5 DEF Linking
<1>9. AccountRows'
  BY <1>1, <1>7 DEF AccountRows
<1>10. LocksHeld'
  BY <1>1, <1>3, <1>4, <1>5 DEF LocksHeld
<1>11. AccountsChecked'
  BY <1>1, <1>3, <1>4, <1>5 DEF AccountsChecked
<1>12. LinksOK'
  BY <1>1, <1>3, <1>4, <1>5 DEF LinksOK
<1>13. WithdrawalsOK'
  <2> SUFFICES ASSUME NEW s \in Session, NEW v \in User,
                      sess'[s].op \in Withdrawal, sess'[s].user = v, v \notin crossed'
               PROVE  /\ ~Linking(v)'
                      /\ sess'[s].seen = default'[v]
                      /\ sess'[s].step \in {"members", "commit"}
                      /\ sess'[s].step = "commit" =>
                           Leaves(Active(v)', sess'[s].off, sess'[s].on, sess'[s].next)
    BY DEF WithdrawalsOK, Leaves
  <2>1. CASE s = self
    BY <1>1, <1>3, <1>4, <1>7, <1>8, <2>1 DEF WithdrawalsOK
  <2>2. CASE s # self
    BY <1>1, <1>4, <1>7, <1>8, <2>2 DEF WithdrawalsOK
  <2> QED BY <2>1, <2>2
<1>14. ReactivationsOK'
  BY <1>1, <1>3, <1>4 DEF ReactivationsOK
<1>15. ChoicesOK'
  <2> SUFFICES ASSUME NEW s \in Session, NEW v \in User,
                      sess'[s].op \in Choice, sess'[s].user = v, sess'[s].step = "commit"
               PROVE  /\ sess'[s].off = {} /\ sess'[s].on = {}
                      /\ account'[v] = "MEMBER" => sess'[s].next \in Active(v)'
    BY DEF ChoicesOK
  <2>1. CASE s = self
    BY <1>1, <1>3, <1>4, <1>7, <2>1
  <2>2. CASE s # self
    BY <1>1, <1>4, <1>7, <2>2 DEF ChoicesOK
  <2> QED BY <2>1, <2>2
<1>16. DefaultFollowsMemberships'
  BY <1>1, <1>7 DEF DefaultFollowsMemberships, Settled
<1> QED BY <1>6, <1>9, <1>10, <1>11, <1>12, <1>13, <1>14, <1>15, <1>16

\* The handlers that decide.
LEMMA DecidingSteps ==
  ASSUME Inv, NEW self \in Session,
         Deactivate(self) \/ Reactivate(self) \/ Replace(self) \/ Manage(self) \/ Choose(self)
  PROVE  Inv'
<1> DEFINE r == sess[self]
<1>1. r \in Request
  BY IdleOp DEF Inv, TypeOK, Deactivate, Reactivate, Replace, Manage, Choose, Running, Choice
<1>2. r.user \in User /\ r.cinema \in MaybeCinema /\ r.cinemas \in SUBSET Cinema
      /\ r.seen \in MaybeCinema
  BY <1>1 DEF Request
<1>3. Active(r.user) \subseteq Cinema /\ Cinema \subseteq MaybeCinema /\ None \in MaybeCinema
  BY DEF Active, MaybeCinema
<1> HIDE DEF r
<1>4. CASE Deactivate(self)
  <2> DEFINE rest == Active(r.user) \ {r.cinema}
  <2> DEFINE next == IF r.seen \in rest THEN r.seen ELSE IF rest = {} THEN None ELSE Min(rest)
  <2>1. r.op = "deactivate" /\ r.step = "members" /\ r.cinema \in Active(r.user)
        /\ Decide(self, {r.cinema}, {}, next)
    BY <1>4 DEF Deactivate, Running, r
  <2>2. rest # {} => Min(rest) \in rest
    BY <1>3, LeastCinema
  <2>3. next \in MaybeCinema /\ Leaves(Active(r.user), {r.cinema}, {}, next)
    BY <1>3, <2>2 DEF Leaves
  <2> HIDE DEF next
  <2> QED BY <1>3, <2>1, <2>3, DecideInv DEF r, Withdrawal, Choice
<1>5. CASE Reactivate(self)
  <2> DEFINE next == IF r.seen = None THEN r.cinema ELSE r.seen
  <2>1. r.op = "reactivate" /\ r.step = "members" /\ Decide(self, {}, {r.cinema}, next)
    BY <1>5 DEF Reactivate, Running, r
  <2>2. r.cinema \in Cinema
    BY <2>1 DEF Inv, ReactivationsOK, r
  <2> QED BY <1>2, <2>1, <2>2, DecideInv DEF r, Withdrawal, Choice
<1>6. CASE Replace(self)
  <2>1. PICK first \in r.cinemas \cup {None} :
          /\ first = None <=> r.cinemas = {}
          /\ Decide(self, Active(r.user) \ r.cinemas, r.cinemas,
                    IF r.cinema # None THEN r.cinema
                    ELSE IF r.seen \in r.cinemas THEN r.seen ELSE first)
    BY <1>6 DEF Replace, r
  <2> DEFINE next == IF r.cinema # None THEN r.cinema
                     ELSE IF r.seen \in r.cinemas THEN r.seen ELSE first
  <2>2. r.op = "replace" /\ r.step = "members"
    BY <1>6 DEF Replace, Running, r
  <2>3. r.cinema # None => r.cinema \in r.cinemas
    BY <2>2 DEF Inv, AccountsChecked, r
  <2>4. next \in MaybeCinema /\ Leaves(Active(r.user), Active(r.user) \ r.cinemas, r.cinemas, next)
    BY <1>2, <1>3, <2>1, <2>3 DEF Leaves
  <2>5. Decide(self, Active(r.user) \ r.cinemas, r.cinemas, next)
    BY <2>1
  <2> HIDE DEF next
  <2> QED BY <1>2, <1>3, <2>2, <2>4, <2>5, DecideInv DEF r, Withdrawal, Choice
<1>7. CASE Manage(self)
  <2> DEFINE next == NextDefault(r.seen, r.cinemas)
  <2>1. r.op = "manage" /\ r.step = "members"
        /\ Decide(self, Active(r.user) \ r.cinemas, r.cinemas, next)
    BY <1>7 DEF Manage, Running, r
  <2>2. r.cinemas # {} => Min(r.cinemas) \in r.cinemas
    BY <1>2, LeastCinema
  <2>3. next \in MaybeCinema /\ Leaves(Active(r.user), Active(r.user) \ r.cinemas, r.cinemas, next)
    BY <1>2, <1>3, <2>2 DEF Leaves, NextDefault
  <2> HIDE DEF next
  <2> QED BY <1>2, <1>3, <2>1, <2>3, DecideInv DEF r, Withdrawal, Choice
<1>8. CASE Choose(self)
  <2>1. r.op \in Choice /\ r.step = "members" /\ Decide(self, {}, {}, r.cinema)
        /\ (account[r.user] = "MEMBER" => r.cinema \in Active(r.user))
    BY <1>8 DEF Choose, r
  <2> QED BY <1>2, <2>1, DecideInv DEF r, Withdrawal, Choice
<1> QED BY <1>4, <1>5, <1>6, <1>7, <1>8

-----------------------------------------------------------------------------
(* createUserFlow *)

\* Creating an account links it to the cinema its default names.
LEMMA CreateInv ==
  ASSUME Inv, NEW self \in Session, NEW u \in User, NEW c \in MaybeCinema,
         NEW role \in {"MEMBER", "MASTER"}, role = "MEMBER" => c \in Cinema,
         CreateUser(self, u, c, role)
  PROVE  Inv'
<1> DEFINE r == [NewRequest("create", u) EXCEPT
                   !.step = "commit", !.role = role, !.cinema = c,
                   !.known = account[u] # "none", !.seen = default[u]]
<1> USE DEF Inv
<1>1. /\ account' = account /\ blocked' = blocked /\ default' = default /\ member' = member
      /\ directory = Free /\ directory' = self /\ lock' = lock
      /\ sess[self] = Idle /\ sess' = [sess EXCEPT ![self] = r]
      /\ crossed' = IF Withdrawing(u) THEN crossed \cup {u} ELSE crossed
      /\ IF role = "MASTER" THEN account[u] = "none" ELSE account[u] # "MASTER"
  BY DEF CreateUser, Set, tables
<1>2. /\ r \in Request /\ r.op = "create" /\ r.user = u /\ r.step = "commit" /\ r.role = role
      /\ r.cinema = c /\ r.known = (account[u] # "none") /\ r.seen = default[u]
  BY DEF TypeOK, NewRequest, Request, Role, MaybeCinema
<1> HIDE DEF r
<1>3. sess'[self] = r /\ \A s \in Session \ {self} : sess'[s] = sess[s]
  BY <1>1 DEF TypeOK
<1>4. TypeOK'
  BY <1>1, <1>2 DEF TypeOK
<1>5. \A v \in User : Active(v)' = Active(v)
  BY <1>1 DEF Active
<1>6. \A v \in User : Linking(v)' => Linking(v) \/ v = u
  BY <1>2, <1>3 DEF Linking
<1>7. AccountRows'
  BY <1>1, <1>5 DEF AccountRows
<1>8. LocksHeld'
  BY <1>1, <1>2, <1>3, AccountsAssumption DEF LocksHeld, Locking, Withdrawal, Choice
<1>9. AccountsChecked'
  <2>1. account[u] # "none" => role = "MEMBER" /\ account[u] = "MEMBER"
    BY <1>1 DEF TypeOK, Role
  <2> SUFFICES ASSUME NEW s \in Session
               PROVE  LET q == sess'[s] IN
                      /\ q.op \in Locking => account'[q.user] # "none"
                      /\ q.op \in Withdrawal \cup {"reactivate", "manageDefault"} =>
                           account'[q.user] = "MEMBER"
                      /\ q.op = "status" => account'[q.user] = "MASTER"
                      /\ q.op = "choose" => q.user \notin blocked'
                      /\ q.op = "replace" => q.cinema \in q.cinemas \cup {None}
                      /\ q.op = "create" =>
                           /\ q.role \in {"MEMBER", "MASTER"}
                           /\ q.role = "MEMBER" => q.cinema \in Cinema
                           /\ q.known => q.role = "MEMBER" /\ account'[q.user] = "MEMBER"
                           /\ ~q.known => account'[q.user] = "none"
    BY DEF AccountsChecked
  <2>2. CASE s = self
    BY <1>1, <1>2, <1>3, <2>1, <2>2 DEF Locking, Withdrawal, Choice
  <2>3. CASE s # self
    BY <1>1, <1>3, <2>3 DEF AccountsChecked
  <2> QED BY <2>2, <2>3
<1>10. LinksOK'
  BY <1>1, <1>2, <1>3 DEF LinksOK
<1>11. WithdrawalsOK'
  <2> SUFFICES ASSUME NEW s \in Session, NEW v \in User,
                      sess'[s].op \in Withdrawal, sess'[s].user = v, v \notin crossed'
               PROVE  /\ ~Linking(v)'
                      /\ sess'[s].seen = default'[v]
                      /\ sess'[s].step \in {"members", "commit"}
                      /\ sess'[s].step = "commit" =>
                           Leaves(Active(v)', sess'[s].off, sess'[s].on, sess'[s].next)
    BY DEF WithdrawalsOK, Leaves
  <2>1. s # self /\ sess'[s] = sess[s]
    BY <1>2, <1>3 DEF Withdrawal
  <2>2. v # u
    <3>1. v = u => Withdrawing(u)
      BY <2>1 DEF Withdrawing
    <3> QED BY <1>1, <3>1
  <2>3. v \notin crossed
    BY <1>1
  <2> QED BY <1>1, <1>5, <1>6, <2>1, <2>2, <2>3 DEF WithdrawalsOK
<1>12. ReactivationsOK'
  BY <1>1, <1>2, <1>3 DEF ReactivationsOK
<1>13. ChoicesOK'
  <2> SUFFICES ASSUME NEW s \in Session, NEW v \in User,
                      sess'[s].op \in Choice, sess'[s].user = v, sess'[s].step = "commit"
               PROVE  /\ sess'[s].off = {} /\ sess'[s].on = {}
                      /\ account'[v] = "MEMBER" => sess'[s].next \in Active(v)'
    BY DEF ChoicesOK
  <2>1. sess'[s] = sess[s]
    BY <1>2, <1>3 DEF Choice
  <2> QED BY <1>1, <1>5, <2>1 DEF ChoicesOK
<1>14. DefaultFollowsMemberships'
  BY <1>1, <1>5 DEF DefaultFollowsMemberships, Settled
<1> QED BY <1>4, <1>7, <1>8, <1>9, <1>10, <1>11, <1>12, <1>13, <1>14

-----------------------------------------------------------------------------
(* Writes of one account *)

\* A transaction that ends and changed only the row of u, on which no other
\* handler holds the lock.
LEMMA RowInv ==
  ASSUME Inv, NEW self \in Session, NEW u \in User, Release(self), TypeOK',
         \A v \in User \ {u} : /\ account'[v] = account[v] /\ default'[v] = default[v]
                               /\ member'[v] = member[v]
                               /\ v \in blocked' <=> v \in blocked
                               /\ v \in crossed' <=> v \in crossed,
         \A s \in Session \ {self} : sess[s].op \in Locking => sess[s].user # u,
         \A s \in Session \ {self} : sess[s].op = "create" /\ sess[s].user = u =>
           /\ account'[u] = account[u]
           /\ sess[s].known /\ u \notin crossed' /\ sess[s].seen # None => default'[u] # None,
         account'[u] = "none" => default'[u] = None,
         account'[u] # "MEMBER" => \A c \in Cinema : member'[u][c] = "none",
         u \in blocked' => account'[u] = "MASTER",
         u \notin crossed' /\ account'[u] = "MEMBER" => Settled(u)'
  PROVE  Inv'
<1> USE DEF Inv
<1>1. \A v \in User \ {u} : Active(v)' = Active(v)
  BY DEF Active
<1>2. sess'[self].op = "none" /\ \A s \in Session \ {self} : sess'[s] = sess[s]
  BY ReleaseEffect, IdleOp
<1>3. \A s \in Session : sess[s].op # "none" => sess[s].user \in User
  BY IdleOp DEF TypeOK, Request
<1>4. \A s \in Session : sess'[s].op # "none" =>
        s # self /\ sess'[s] = sess[s] /\ sess[s].user \in User
  BY <1>2, <1>3
<1>5. \A s \in Session : sess'[s].op \in Locking =>
        s # self /\ sess'[s] = sess[s] /\ sess[s].user \in User \ {u}
  <2>1. "none" \notin Locking
    BY DEF Locking, Withdrawal, Choice
  <2> QED BY <1>4, <2>1
<1>6. \A v \in User : Linking(v)' => Linking(v)
  BY <1>4 DEF Linking
<1>7. AccountRows'
  <2>1. account'[u] # "MEMBER" => Active(u)' = {}
    BY DEF Active
  <2> QED BY <1>1, <2>1 DEF AccountRows
<1>8. LocksHeld'
  <2>1. \A s \in Session : sess'[s].op \in Locking => lock'[sess'[s].user] = s
    BY <1>5, ReleaseEffect DEF LocksHeld
  <2>2. \A s \in Session : sess'[s].op = "create" => directory' = s
    BY <1>4, ReleaseEffect DEF LocksHeld
  <2> QED BY <2>1, <2>2 DEF LocksHeld
<1>9. AccountsChecked'
  <2>1. ASSUME NEW s \in Session, sess'[s].op \in Locking
        PROVE  LET q == sess'[s] IN
               /\ account'[q.user] # "none"
               /\ q.op \in Withdrawal \cup {"reactivate", "manageDefault"} =>
                    account'[q.user] = "MEMBER"
               /\ q.op = "status" => account'[q.user] = "MASTER"
               /\ q.op = "choose" => q.user \notin blocked'
               /\ q.op = "replace" => q.cinema \in q.cinemas \cup {None}
    <3>1. sess'[s] = sess[s] /\ sess[s].user \in User \ {u}
      BY <1>5, <2>1
    <3> QED BY <2>1, <3>1 DEF AccountsChecked
  <2>2. ASSUME NEW s \in Session, sess'[s].op = "create"
        PROVE  LET q == sess'[s] IN
               /\ q.role \in {"MEMBER", "MASTER"}
               /\ q.role = "MEMBER" => q.cinema \in Cinema
               /\ q.known => q.role = "MEMBER" /\ account'[q.user] = "MEMBER"
               /\ ~q.known => account'[q.user] = "none"
    <3>1. s # self /\ sess'[s] = sess[s] /\ sess[s].user \in User
      BY <1>4, <2>2
    <3>2. account'[sess[s].user] = account[sess[s].user]
      BY <2>2, <3>1
    <3> QED BY <2>2, <3>1, <3>2 DEF AccountsChecked
  <2> QED BY <2>1, <2>2 DEF AccountsChecked, Locking, Withdrawal, Choice
<1>10. LinksOK'
  <2> SUFFICES ASSUME NEW s \in Session, NEW v \in User,
                      sess'[s].op = "create", sess'[s].known, sess'[s].user = v,
                      v \notin crossed', sess'[s].seen # None
               PROVE  default'[v] # None
    BY <1>4 DEF LinksOK
  <2>1. s # self /\ sess'[s] = sess[s]
    BY <1>4
  <2> QED BY <2>1 DEF LinksOK
<1>11. WithdrawalsOK'
  <2> SUFFICES ASSUME NEW s \in Session, NEW v \in User,
                      sess'[s].op \in Withdrawal, sess'[s].user = v, v \notin crossed'
               PROVE  /\ ~Linking(v)'
                      /\ sess'[s].seen = default'[v]
                      /\ sess'[s].step \in {"members", "commit"}
                      /\ sess'[s].step = "commit" =>
                           Leaves(Active(v)', sess'[s].off, sess'[s].on, sess'[s].next)
    BY DEF WithdrawalsOK, Leaves
  <2>1. sess'[s] = sess[s] /\ v # u
    BY <1>5 DEF Locking
  <2> QED BY <1>1, <1>6, <2>1 DEF WithdrawalsOK
<1>12. ReactivationsOK'
  <2>1. \A s \in Session : sess'[s].op = "reactivate" =>
          sess'[s] = sess[s] /\ default'[sess[s].user] = default[sess[s].user]
    BY <1>5 DEF Locking
  <2> QED BY <2>1 DEF ReactivationsOK
<1>13. ChoicesOK'
  <2> SUFFICES ASSUME NEW s \in Session, NEW v \in User,
                      sess'[s].op \in Choice, sess'[s].user = v, sess'[s].step = "commit"
               PROVE  /\ sess'[s].off = {} /\ sess'[s].on = {}
                      /\ account'[v] = "MEMBER" => sess'[s].next \in Active(v)'
    BY DEF ChoicesOK
  <2>1. sess'[s] = sess[s] /\ v # u
    BY <1>5 DEF Locking
  <2> QED BY <1>1, <2>1 DEF ChoicesOK
<1>14. DefaultFollowsMemberships'
  <2> SUFFICES ASSUME NEW v \in User, v \notin crossed', account'[v] = "MEMBER"
               PROVE  Settled(v)'
    BY DEF DefaultFollowsMemberships
  <2>1. CASE v = u
    BY <2>1
  <2>2. CASE v # u
    <3>1. Active(v)' = Active(v) /\ default'[v] = default[v] /\ Settled(v)
      BY <1>1, <2>2 DEF DefaultFollowsMemberships
    <3> QED BY <3>1 DEF Settled
  <2> QED BY <2>1, <2>2
<1> QED BY <1>7, <1>8, <1>9, <1>10, <1>11, <1>12, <1>13, <1>14

\* Who holds the lock of an account is the only one with a handler on it.
LEMMA OneOwner ==
  ASSUME LocksHeld, NEW self \in Session, sess[self].op \in Locking,
         NEW s \in Session \ {self}, sess[s].op \in Locking
  PROVE  sess[s].user # sess[self].user
BY DEF LocksHeld

\* A new account has one membership, its default, or is a MASTER and has none.
LEMMA InsertInv ==
  ASSUME Inv, NEW self \in Session, InsertUser(self)
  PROVE  Inv'
<1> DEFINE r == sess[self]
<1> USE DEF Inv
<1>1. /\ r.op = "create" /\ ~r.known /\ account[r.user] = "none"
      /\ account' = [account EXCEPT ![r.user] = r.role]
      /\ blocked' = blocked /\ crossed' = crossed
      /\ Release(self)
  BY DEF InsertUser, Running
<1>2. r \in Request /\ r.user \in User /\ r.role \in {"MEMBER", "MASTER"}
      /\ (r.role = "MEMBER" => r.cinema \in Cinema)
  BY <1>1, IdleOp DEF TypeOK, Request, AccountsChecked
<1>3. PICK u \in User, c \in Cinema \cup {r.cinema}, role \in {"MEMBER", "MASTER"} :
        u = r.user /\ c = r.cinema /\ role = r.role
  BY <1>2
<1>4. \/ role = "MASTER" /\ default' = default /\ member' = member
      \/ /\ role = "MEMBER" /\ c \in Cinema
         /\ default' = [default EXCEPT ![u] = c]
         /\ member' = [member EXCEPT ![u][c] = "active"]
  BY <1>2, <1>3 DEF InsertUser
<1>5. /\ account[u] = "none" /\ account' = [account EXCEPT ![u] = role]
      /\ (\A d \in Cinema : member[u][d] = "none") /\ default[u] = None /\ u \notin blocked
  BY <1>1, <1>3 DEF AccountRows
<1>6. \A s \in Session \ {self} : sess[s].op # "create"
  BY <1>1 DEF LocksHeld
<1>7. \A s \in Session \ {self} : sess[s].op \in Locking => sess[s].user # u
  BY <1>5 DEF AccountsChecked
<1> HIDE DEF r
<1>8. CASE role = "MASTER"
  <2>1. default' = default /\ member' = member
    BY <1>4, <1>8
  <2>2. TypeOK'
    BY <1>1, <1>5, <2>1, ReleaseEffect DEF TypeOK, Role
  <2>3. account'[u] = "MASTER" /\ \A v \in User \ {u} : account'[v] = account[v]
    BY <1>5, <1>8 DEF TypeOK
  <2> QED BY <1>1, <1>5, <1>6, <1>7, <2>1, <2>2, <2>3, RowInv
<1>9. CASE role = "MEMBER"
  <2>1. /\ c \in Cinema /\ default' = [default EXCEPT ![u] = c]
        /\ member' = [member EXCEPT ![u][c] = "active"]
    BY <1>4, <1>9
  <2>2. member' \in [User -> [Cinema -> Status]]
    BY <2>1 DEF TypeOK, Status
  <2>3. default' \in [User -> MaybeCinema] /\ account' \in [User -> Role]
    BY <1>5, <2>1 DEF TypeOK, MaybeCinema, Role
  <2>4. TypeOK'
    BY <1>1, <2>2, <2>3, ReleaseEffect DEF TypeOK
  <2>5. account'[u] = "MEMBER" /\ default'[u] = c /\ member'[u] = [member[u] EXCEPT ![c] = "active"]
        /\ \A v \in User \ {u} : account'[v] = account[v] /\ default'[v] = default[v]
                                  /\ member'[v] = member[v]
    BY <1>5, <1>9, <2>1 DEF TypeOK
  <2>6. Settled(u)'
    <3>1. member'[u][c] = "active"
      BY <2>1, <2>5 DEF TypeOK
    <3>2. c \in Active(u)'
      BY <2>1, <3>1 DEF Active
    <3> QED BY <2>1, <2>5, <3>2, NoneIsNoCinema DEF Settled
  <2> QED BY <1>1, <1>5, <1>6, <1>7, <2>4, <2>5, <2>6, RowInv
<1> QED BY <1>8, <1>9

\* A link adds a membership, and makes it the default of who had none.
LEMMA LinkInv ==
  ASSUME Inv, NEW self \in Session, LinkUser(self)
  PROVE  Inv'
<1> DEFINE r == sess[self]
<1> USE DEF Inv
<1>1. /\ r.op = "create" /\ r.known
      /\ member' = [member EXCEPT ![r.user][r.cinema] = "active"]
      /\ default' = IF r.seen = None THEN [default EXCEPT ![r.user] = r.cinema] ELSE default
      /\ account' = account /\ blocked' = blocked /\ crossed' = crossed
      /\ Release(self)
  BY DEF LinkUser, Running
<1>2. r \in Request /\ r.user \in User /\ r.cinema \in Cinema /\ account[r.user] = "MEMBER"
  BY <1>1, IdleOp DEF TypeOK, Request, AccountsChecked
<1>3. PICK u \in User, c \in Cinema, dflt \in MaybeCinema :
        u = r.user /\ c = r.cinema /\ dflt = r.seen
  BY <1>2 DEF Request
<1>4. /\ member' = [member EXCEPT ![u][c] = "active"]
      /\ default' = IF dflt = None THEN [default EXCEPT ![u] = c] ELSE default
      /\ account[u] = "MEMBER"
  BY <1>1, <1>2, <1>3
<1>5. Linking(u) /\ (u \notin crossed /\ dflt # None => default[u] # None)
  BY <1>1, <1>3 DEF Linking, LinksOK
<1>6. \A s \in Session \ {self} : sess[s].op # "create"
  BY <1>1 DEF LocksHeld
<1> HIDE DEF r
<1>7. TypeOK'
  <2>1. member' \in [User -> [Cinema -> Status]]
    BY <1>4 DEF TypeOK, Status
  <2>2. default' \in [User -> MaybeCinema]
    BY <1>4 DEF TypeOK, MaybeCinema
  <2> QED BY <1>1, <2>1, <2>2, ReleaseEffect DEF TypeOK
<1>8. sess'[self].op = "none" /\ \A s \in Session \ {self} : sess'[s] = sess[s]
  BY <1>1, ReleaseEffect, IdleOp
<1>9. \A s \in Session : sess'[s].op # "none" =>
        /\ s # self /\ sess'[s] = sess[s] /\ sess[s].user \in User
        /\ sess'[s].op # "create"
  <2>1. \A s \in Session : sess[s].op # "none" => sess[s].user \in User
    BY IdleOp DEF TypeOK, Request
  <2> QED BY <1>6, <1>8, <2>1
<1>10. \A s \in Session : sess'[s].op # "create"
  BY <1>9
<1>11. /\ \A v \in User \ {u} : member'[v] = member[v] /\ default'[v] = default[v]
       /\ member'[u] = [member[u] EXCEPT ![c] = "active"]
       /\ default'[u] = IF dflt = None THEN c ELSE default[u]
  BY <1>4 DEF TypeOK
<1>12. /\ \A v \in User \ {u} : Active(v)' = Active(v)
       /\ Active(u)' = Active(u) \cup {c}
  <2>1. \A v \in User \ {u} : Active(v)' = Active(v)
    BY <1>11 DEF Active
  <2>2. Active(u)' = Active(u) \cup {c}
    BY <1>11 DEF Active, TypeOK
  <2> QED BY <2>1, <2>2
<1>13. \A v \in User : Active(v) \subseteq Active(v)' /\ (default[v] # None => default'[v] # None)
  BY <1>11, <1>12, NoneIsNoCinema
<1>14. AccountRows'
  <2> SUFFICES ASSUME NEW v \in User
               PROVE  /\ account'[v] = "none" => default'[v] = None
                      /\ account'[v] # "MEMBER" =>
                           Active(v)' = {} /\ \A d \in Cinema : member'[v][d] = "none"
                      /\ v \in blocked' => account'[v] = "MASTER"
    BY DEF AccountRows
  <2>1. CASE v = u
    BY <1>1, <1>4, <2>1 DEF AccountRows
  <2>2. CASE v # u
    BY <1>1, <1>11, <1>12, <2>2 DEF AccountRows
  <2> QED BY <2>1, <2>2
<1>15. LocksHeld'
  <2> SUFFICES ASSUME NEW s \in Session, sess'[s].op \in Locking
               PROVE  lock'[sess'[s].user] = s
    BY <1>10 DEF LocksHeld
  <2>1. sess'[s].op # "none"
    BY DEF Locking, Withdrawal, Choice
  <2> QED BY <1>1, <1>9, <2>1, ReleaseEffect DEF LocksHeld
<1>16. AccountsChecked'
  <2> SUFFICES ASSUME NEW s \in Session, sess'[s].op \in Locking
               PROVE  LET q == sess'[s] IN
                      /\ account'[q.user] # "none"
                      /\ q.op \in Withdrawal \cup {"reactivate", "manageDefault"} =>
                           account'[q.user] = "MEMBER"
                      /\ q.op = "status" => account'[q.user] = "MASTER"
                      /\ q.op = "choose" => q.user \notin blocked'
                      /\ q.op = "replace" => q.cinema \in q.cinemas \cup {None}
    BY <1>10 DEF AccountsChecked, Locking, Withdrawal, Choice
  <2>1. sess'[s].op # "none"
    BY DEF Locking, Withdrawal, Choice
  <2> QED BY <1>1, <1>9, <2>1 DEF AccountsChecked
<1>17. LinksOK'
  BY <1>10 DEF LinksOK
<1>18. WithdrawalsOK'
  <2> SUFFICES ASSUME NEW s \in Session, NEW v \in User,
                      sess'[s].op \in Withdrawal, sess'[s].user = v, v \notin crossed'
               PROVE  /\ ~Linking(v)'
                      /\ sess'[s].seen = default'[v]
                      /\ sess'[s].step \in {"members", "commit"}
                      /\ sess'[s].step = "commit" =>
                           Leaves(Active(v)', sess'[s].off, sess'[s].on, sess'[s].next)
    BY DEF WithdrawalsOK, Leaves
  <2>1. sess'[s].op # "none"
    BY DEF Withdrawal
  <2>2. sess'[s] = sess[s] /\ v \notin crossed
    BY <1>1, <1>9, <2>1
  <2>3. ~Linking(v)
    BY <2>2 DEF WithdrawalsOK
  <2>4. v # u
    BY <1>5, <2>3
  <2>5. ~Linking(v)'
    BY <1>10 DEF Linking
  <2> QED BY <1>11, <1>12, <2>2, <2>4, <2>5 DEF WithdrawalsOK
<1>19. ReactivationsOK'
  <2>1. \A s \in Session : sess'[s].op = "reactivate" =>
          /\ sess'[s] = sess[s]
          /\ default[sess[s].user] # None => default'[sess[s].user] # None
    BY <1>9, <1>13
  <2> QED BY <2>1 DEF ReactivationsOK
<1>20. ChoicesOK'
  <2> SUFFICES ASSUME NEW s \in Session, NEW v \in User,
                      sess'[s].op \in Choice, sess'[s].user = v, sess'[s].step = "commit"
               PROVE  /\ sess'[s].off = {} /\ sess'[s].on = {}
                      /\ account'[v] = "MEMBER" => sess'[s].next \in Active(v)'
    BY DEF ChoicesOK
  <2>1. sess'[s].op # "none"
    BY DEF Choice
  <2> QED BY <1>1, <1>9, <1>13, <2>1 DEF ChoicesOK
<1>21. DefaultFollowsMemberships'
  <2> SUFFICES ASSUME NEW v \in User, v \notin crossed', account'[v] = "MEMBER"
               PROVE  Settled(v)'
    BY DEF DefaultFollowsMemberships
  <2>1. Settled(v)
    BY <1>1 DEF DefaultFollowsMemberships
  <2>2. CASE v = u
    <3>1. default'[u] # None /\ default'[u] \in Active(u)'
      BY <1>1, <1>5, <1>11, <1>12, <2>1, <2>2, NoneIsNoCinema DEF Settled
    <3> QED BY <2>2, <3>1 DEF Settled
  <2>3. CASE v # u
    BY <1>11, <1>12, <2>1, <2>3 DEF Settled
  <2> QED BY <2>2, <2>3
<1> QED BY <1>7, <1>14, <1>15, <1>16, <1>17, <1>18, <1>19, <1>20, <1>21

-----------------------------------------------------------------------------
(* Writes under the lock of the account *)

\* A withdrawal, a reactivation or a choice writes what it decided.
LEMMA CommitInv ==
  ASSUME Inv, NEW self \in Session, Commit(self)
  PROVE  Inv'
<1> DEFINE r == sess[self]
<1> USE DEF Inv
<1>1. /\ r.op \in Withdrawal \cup Choice \cup {"reactivate"} /\ r.step = "commit"
      /\ crossed' = IF r.op \in Choice THEN crossed \ {r.user} ELSE crossed
      /\ account' = account /\ blocked' = blocked
      /\ Release(self)
  BY DEF Commit
<1>2. r \in Request /\ r.op \in Locking
  BY <1>1, IdleOp DEF TypeOK, Locking, Withdrawal, Choice
<1>3. PICK u \in User, off \in SUBSET Cinema, on \in SUBSET Cinema, next \in MaybeCinema,
           dflt \in MaybeCinema, cinema \in MaybeCinema :
        /\ u = r.user /\ off = r.off /\ on = r.on /\ next = r.next
        /\ dflt = r.seen /\ cinema = r.cinema
  BY <1>2 DEF Request
<1>4. PICK op \in Withdrawal \cup Choice \cup {"reactivate"} : op = r.op
  BY <1>1
<1>5. /\ member' = [member EXCEPT ![u] =
                      [c \in Cinema |-> IF c \in on THEN "active"
                                        ELSE IF c \in off THEN "inactive" ELSE member[u][c]]]
      /\ default' = IF op \in Choice \/ next # dflt THEN [default EXCEPT ![u] = next] ELSE default
      /\ crossed' = IF op \in Choice THEN crossed \ {u} ELSE crossed
  BY <1>1, <1>3, <1>4 DEF Commit, WritesDefault, TypeOK
<1>6. \A s \in Session \ {self} : sess[s].op \in Locking => sess[s].user # u
  BY <1>2, <1>3, OneOwner
<1>7. /\ account[u] # "none" /\ u \in User
      /\ op \in Withdrawal \cup {"reactivate"} => account[u] = "MEMBER"
  BY <1>2, <1>3, <1>4 DEF AccountsChecked
<1>8. op \in Withdrawal /\ u \notin crossed =>
        ~Linking(u) /\ dflt = default[u] /\ Leaves(Active(u), off, on, next)
  BY <1>1, <1>3, <1>4 DEF WithdrawalsOK
<1>9. op = "reactivate" =>
        /\ dflt # None => default[u] # None
        /\ cinema \in Cinema /\ off = {} /\ on = {cinema}
        /\ next = IF dflt = None THEN cinema ELSE dflt
  BY <1>1, <1>3, <1>4 DEF ReactivationsOK
<1>10. op \in Choice => /\ off = {} /\ on = {}
                        /\ account[u] = "MEMBER" => next \in Active(u)
  BY <1>1, <1>3, <1>4 DEF ChoicesOK
<1>11. \A s \in Session \ {self} : sess[s].op = "create" /\ sess[s].user = u =>
         /\ sess[s].known => account[u] = "MEMBER" /\ Linking(u)
         /\ sess[s].known /\ u \notin crossed /\ sess[s].seen # None => default[u] # None
  BY <1>3 DEF AccountsChecked, LinksOK, Linking
<1> HIDE DEF r
<1>12. TypeOK'
  <2>1. [c \in Cinema |-> IF c \in on THEN "active"
                          ELSE IF c \in off THEN "inactive" ELSE member[u][c]]
          \in [Cinema -> Status]
    BY DEF TypeOK, Status
  <2>2. member' \in [User -> [Cinema -> Status]]
    BY <1>5, <2>1 DEF TypeOK
  <2>3. default' \in [User -> MaybeCinema] /\ crossed' \subseteq User
    BY <1>5 DEF TypeOK
  <2> QED BY <1>1, <2>2, <2>3, ReleaseEffect DEF TypeOK
<1>13. /\ \A v \in User \ {u} : /\ member'[v] = member[v] /\ default'[v] = default[v]
                                /\ v \in crossed' <=> v \in crossed
       /\ \A c \in Cinema : member'[u][c] = IF c \in on THEN "active"
                                            ELSE IF c \in off THEN "inactive" ELSE member[u][c]
       /\ default'[u] = IF op \in Choice \/ next # dflt THEN next ELSE default[u]
  BY <1>5 DEF TypeOK
<1>14. Active(u)' = (Active(u) \ off) \cup on
  BY <1>13 DEF Active
<1>15. account[u] # "MEMBER" => \A c \in Cinema : member'[u][c] = "none"
  <2> SUFFICES ASSUME account[u] # "MEMBER" PROVE \A c \in Cinema : member'[u][c] = "none"
    OBVIOUS
  <2>1. off = {} /\ on = {}
    BY <1>7, <1>10
  <2> QED BY <1>13, <2>1 DEF AccountRows
<1>16. Active(u) \subseteq Cinema
  BY DEF Active
<1>17. u \notin crossed' /\ account[u] = "MEMBER" => Settled(u)'
  <2> SUFFICES ASSUME u \notin crossed', account[u] = "MEMBER" PROVE Settled(u)'
    OBVIOUS
  <2>1. CASE op \in Choice
    <3>1. default'[u] \in Active(u)'
      BY <1>10, <1>13, <1>14, <2>1
    <3> QED BY <1>14, <1>16, <3>1, NoneIsNoCinema DEF Settled
  <2>2. CASE op \in Withdrawal
    <3>1. op \notin Choice /\ u \notin crossed
      BY <1>5, <2>2 DEF Withdrawal, Choice
    <3>2. default'[u] = next
      BY <1>8, <1>13, <2>2, <3>1
    <3>3. Leaves(Active(u), off, on, next)
      BY <1>8, <2>2, <3>1
    <3> QED BY <1>14, <1>16, <3>2, <3>3, NoneIsNoCinema DEF Leaves, Settled
  <2>3. CASE op = "reactivate"
    <3>1. op \notin Choice /\ u \notin crossed
      BY <1>5, <2>3 DEF Choice
    <3>2. Settled(u)
      BY <3>1 DEF DefaultFollowsMemberships
    <3>3. Active(u)' = Active(u) \cup {cinema}
      BY <1>9, <1>14, <2>3
    <3>4. CASE dflt = None
      BY <1>9, <1>13, <2>3, <3>3, <3>4, NoneIsNoCinema DEF Settled
    <3>5. CASE dflt # None
      BY <1>9, <1>13, <2>3, <3>1, <3>2, <3>3, <3>5 DEF Settled
    <3> QED BY <3>4, <3>5
  <2> QED BY <2>1, <2>2, <2>3
<1>18. ASSUME NEW s \in Session \ {self}, sess[s].op = "create", sess[s].user = u,
              sess[s].known, u \notin crossed', sess[s].seen # None
       PROVE  default'[u] # None
  <2>1. CASE op \in Choice
    BY <1>10, <1>11, <1>13, <1>16, <1>18, <2>1, NoneIsNoCinema
  <2>2. CASE op \in Withdrawal
    <3>1. u \notin crossed
      BY <1>5, <1>18, <2>2 DEF Withdrawal, Choice
    <3> QED BY <1>8, <1>11, <1>18, <2>2, <3>1
  <2>3. CASE op = "reactivate"
    <3>1. u \notin crossed
      BY <1>5, <1>18, <2>3 DEF Choice
    <3> QED BY <1>9, <1>11, <1>13, <1>18, <2>3, <3>1, NoneIsNoCinema
  <2> QED BY <2>1, <2>2, <2>3
<1>19. u \in blocked => account[u] = "MASTER"
  BY DEF AccountRows
<1> QED BY <1>1, <1>6, <1>7, <1>12, <1>13, <1>15, <1>17, <1>18, <1>19, RowInv

\* Only accounts of MASTER users are blocked.
LEMMA StatusInv ==
  ASSUME Inv, NEW self \in Session, WriteStatus(self)
  PROVE  Inv'
<1> USE DEF Inv
<1>1. sess[self].op = "status" /\ sess[self] \in Request
  BY IdleOp DEF TypeOK, WriteStatus, Running
<1>2. PICK u \in User : u = sess[self].user
  BY <1>1 DEF Request
<1>3. /\ blocked' = IF u \in blocked THEN blocked \ {u} ELSE blocked \cup {u}
      /\ account' = account /\ default' = default /\ member' = member /\ crossed' = crossed
      /\ Release(self)
  BY <1>2 DEF WriteStatus
<1>4. account[u] = "MASTER" /\ \A c \in Cinema : member[u][c] = "none"
  BY <1>1, <1>2 DEF AccountsChecked, AccountRows
<1>5. \A s \in Session \ {self} : sess[s].op \in Locking => sess[s].user # u
  BY <1>1, <1>2, OneOwner DEF Locking
<1>6. \A s \in Session \ {self} : sess[s].op = "create" /\ sess[s].user = u => ~sess[s].known
  BY <1>4 DEF AccountsChecked
<1>7. TypeOK'
  BY <1>3, ReleaseEffect DEF TypeOK
<1> QED BY <1>3, <1>4, <1>5, <1>6, <1>7, RowInv

-----------------------------------------------------------------------------
(* Every step *)

\* The invariant of the accounts is inductive.
LEMMA NextInv == Inv /\ [Next]_vars => Inv'
<1> SUFFICES ASSUME Inv, [Next]_vars PROVE Inv'
  OBVIOUS
<1>1. CASE UNCHANGED vars
  <2> USE DEF vars, tables
  <2>1. \A u \in User : Active(u)' = Active(u) /\ Linking(u)' = Linking(u)
    BY <1>1 DEF Active, Linking
  <2> QED BY <1>1, <2>1
    DEF Inv, TypeOK, AccountRows, LocksHeld, AccountsChecked, LinksOK, WithdrawalsOK,
        ReactivationsOK, ChoicesOK, DefaultFollowsMemberships, Settled
<1>2. ASSUME NEW self \in Session, NEW u \in User, NEW c \in Cinema,
             CreateUser(self, u, c, "MEMBER")
      PROVE  Inv'
  BY <1>2, CreateInv DEF MaybeCinema
<1>3. ASSUME NEW self \in Session, NEW u \in User, CreateUser(self, u, None, "MASTER")
      PROVE  Inv'
  BY <1>3, CreateInv DEF MaybeCinema
<1>4. ASSUME NEW self \in Session, Advance(self) PROVE Inv'
  BY <1>4, QuietSteps, QuietInv, LockingSteps, DecidingSteps, InsertInv, LinkInv, CommitInv,
     StatusInv DEF Inv, Advance
<1>5. ASSUME NEW self \in Session, Start(self) PROVE Inv'
  <2>1. PICK u \in User :
          \/ \E c \in Cinema : CreateUser(self, u, c, "MEMBER")
          \/ CreateUser(self, u, None, "MASTER")
          \/ \E c \in Cinema, op \in {"deactivate", "reactivate", "manageDefault"} :
               ChangeMemberships(self, u, op, c, {})
          \/ \E cs \in SUBSET Cinema : ChangeMemberships(self, u, "manage", None, cs)
          \/ \E cs \in SUBSET Cinema, c \in MaybeCinema : ChangeMemberships(self, u, "replace", c, cs)
          \/ \E c \in MaybeCinema : ChooseDefault(self, u, c)
          \/ ChangeStatus(self, u)
          \/ EditUser(self, u)
          \/ Login(self, u)
    BY <1>5 DEF Start
  <2>2. ASSUME NEW c \in Cinema, NEW op \in {"deactivate", "reactivate", "manageDefault"},
               ChangeMemberships(self, u, op, c, {})
        PROVE  Inv'
    BY <2>2, LockingSteps DEF MaybeCinema, Withdrawal
  <2>3. ASSUME NEW cs \in SUBSET Cinema, ChangeMemberships(self, u, "manage", None, cs)
        PROVE  Inv'
    BY <2>3, LockingSteps DEF MaybeCinema, Withdrawal
  <2>4. ASSUME NEW cs \in SUBSET Cinema, NEW c \in MaybeCinema,
               ChangeMemberships(self, u, "replace", c, cs)
        PROVE  Inv'
    BY <2>4, LockingSteps DEF Withdrawal
  <2>5. CASE (\E c \in MaybeCinema : ChooseDefault(self, u, c)) \/ ChangeStatus(self, u)
    BY <2>5, LockingSteps
  <2>6. CASE EditUser(self, u) \/ Login(self, u)
    BY <2>6, QuietSteps, QuietInv DEF Inv
  <2> QED BY <1>2, <1>3, <2>1, <2>2, <2>3, <2>4, <2>5, <2>6
<1> QED BY <1>1, <1>4, <1>5 DEF Next

\* The invariant of the accounts holds throughout.
LEMMA InvAlways == Spec => []Inv
BY InitInv, NextInv, PTL DEF Spec

-----------------------------------------------------------------------------
(* Theorems *)

\* The tables and the requests keep their types: the handlers of users/ and auth/
\* write nothing but roles, cinemas and the states of memberships.
THEOREM TypeCorrect == Spec => []TypeOK
<1>1. Inv => TypeOK
  BY DEF Inv
<1> QED BY <1>1, InvAlways, PTL

\* Any number of handlers that change memberships, choose a default, link an
\* account or log in leave its default one of its active memberships, and give it
\* one if it has any; but for a withdrawal that a link overlaps.
THEOREM DefaultsFollow == Spec => []DefaultFollowsMemberships
<1>1. Inv => DefaultFollowsMemberships
  BY DEF Inv
<1> QED BY <1>1, InvAlways, PTL

\* No order of createUserFlow, which checks the role under the lock of the
\* directory, and of the handlers under the lock of the account makes a MASTER a
\* member of a cinema.
THEOREM MastersHaveNone == Spec => []MasterHasNoMembership
<1>1. Inv => MasterHasNoMembership
  <2> SUFFICES ASSUME AccountRows PROVE MasterHasNoMembership
    BY DEF Inv
  <2> QED BY DEF AccountRows, MasterHasNoMembership
<1> QED BY <1>1, InvAlways, PTL

\* From the check of isActive to the write of the default, the lock of the account
\* keeps deactivateUserFlow out; and a MASTER is never linked.
THEOREM BlockedKeep == Spec => BlockedKeepsDefault
<1>1. ASSUME Inv, [Next]_vars
      PROVE  [\A u \in blocked : default'[u] = default[u]]_vars
  <2> SUFFICES ASSUME NEW u \in blocked, Next PROVE default'[u] = default[u]
    BY <1>1
  <2>1. u \in User /\ account[u] = "MASTER"
    BY <1>1 DEF Inv, TypeOK, AccountRows
  <2>2. PICK self \in Session : Start(self) \/ Advance(self)
    BY DEF Next
  <2>3. CASE InsertUser(self)
    <3>1. sess[self].user # u
      BY <2>1, <2>3 DEF InsertUser
    <3> QED BY <1>1, <2>1, <2>3, <3>1 DEF InsertUser, Inv, TypeOK
  <2>4. CASE LinkUser(self)
    <3>1. sess[self].user # u
      BY <1>1, <2>1, <2>4 DEF LinkUser, Running, Inv, AccountsChecked
    <3> QED BY <1>1, <2>1, <2>4, <3>1 DEF LinkUser, Inv, TypeOK
  <2>5. CASE Commit(self)
    <3>1. sess[self].user # u
      BY <1>1, <2>1, <2>5 DEF Commit, Inv, AccountsChecked, Withdrawal, Choice
    <3> QED BY <1>1, <2>1, <2>5, <3>1 DEF Commit, Inv, TypeOK
  <2>6. CASE Start(self)
    <3>1. ASSUME NEW v, NEW c, NEW role, CreateUser(self, v, c, role) PROVE default' = default
      BY <3>1 DEF CreateUser, tables
    <3>2. ASSUME NEW v, NEW op, NEW c, NEW cs, ChangeMemberships(self, v, op, c, cs)
          PROVE  default' = default
      BY <3>2 DEF ChangeMemberships, LockUser, tables
    <3>3. ASSUME NEW v, NEW c, ChooseDefault(self, v, c) PROVE default' = default
      BY <3>3 DEF ChooseDefault, LockUser, tables
    <3>4. ASSUME NEW v, ChangeStatus(self, v) \/ EditUser(self, v) \/ Login(self, v)
          PROVE  default' = default
      BY <3>4 DEF ChangeStatus, EditUser, Login, LockUser, tables
    <3> QED BY <2>6, <3>1, <3>2, <3>3, <3>4 DEF Start
  <2>7. CASE \/ WriteStatus(self) \/ LockEdited(self) \/ WriteEdit(self)
            \/ LoginDefault(self) \/ LoginFallback(self) \/ LoginLock(self) \/ Abort(self)
    BY <2>7 DEF WriteStatus, LockEdited, WriteEdit, LoginDefault, LoginFallback, LoginLock, Abort,
                LockUser, tables
  <2>8. CASE Deactivate(self) \/ Reactivate(self) \/ Replace(self) \/ Manage(self) \/ Choose(self)
    BY <2>8 DEF Deactivate, Reactivate, Replace, Manage, Choose, Decide, tables
  <2> QED BY <2>2, <2>3, <2>4, <2>5, <2>6, <2>7, <2>8 DEF Advance
<1> QED BY <1>1, InvAlways, PTL DEF Spec, BlockedKeepsDefault

-----------------------------------------------------------------------------
(* The modules of a cinema *)

\* The state an update has read is still there when it writes.
UpdateOK(c) ==
  call[c].op = "update" =>
    /\ moduleLock = c
    /\ call[c].step = "write" =>
         LET wanted == (Usable(Stored) \cup call[c].on) \ call[c].off IN
         /\ \A m \in call[c].on : Requires[m] \subseteq wanted \cup call[c].off
         /\ call[c].result = Usable(wanted)
         /\ call[c].keys = call[c].on \cup call[c].off
                             \cup (call[c].result \ Stored) \cup (Stored \ call[c].result)

\* A question reads the module it is about first.
QuestionOK(c) ==
  call[c].op = "question" =>
    /\ \/ seen[c] = Module
       \/ Closed(Stored) /\ Stored \subseteq seen[c]
    /\ call[c].visited = {} => call[c].todo = {call[c].module}
    /\ call[c].visited # {} => call[c].module \in seen[c]

LockOK == moduleLock # NoCaller => call[moduleLock].op = "update"

ModulesInv ==
  /\ ModulesTypeOK
  /\ LockOK
  /\ \A c \in Caller : UpdateOK(c) /\ QuestionOK(c)

-----------------------------------------------------------------------------

\* applyDisabledDependencies leaves the largest part that lacks nothing.
LEMMA UsableIsLargest ==
  ASSUME NEW S \in SUBSET Module
  PROVE  /\ Usable(S) \subseteq S
         /\ Closed(Usable(S))
         /\ \A T \in SUBSET S : Closed(T) => T \subseteq Usable(S)
  BY DEF Usable, Closed

\* What lacks nothing stays as it is.
LEMMA ClosedIsUsable ==
  ASSUME NEW S \in SUBSET Module, Closed(S)
  PROVE  Usable(S) = S
  BY UsableIsLargest

\* What the table of module settings holds is a set of modules.
LEMMA StoredType == Stored \in SUBSET Module
  BY DEF Stored

\* No step but the commit of an update changes what is stored.
LEMMA OnlyUpdatesStore ==
  ASSUME ModulesInv, [ModulesNext]_moduleVars,
         ~\E c \in Caller : UpdateWrite(c)
  PROVE  Stored' = Stored
<1>1. \A m \in Module : setting'[m] # "off" <=> setting[m] # "off"
  <2>1. CASE setting' = setting
    BY <2>1
  <2>2. ASSUME NEW c \in Caller, ListInsert(c)
        PROVE  \A m \in Module : setting'[m] # "off" <=> setting[m] # "off"
    BY <2>2 DEF ListInsert
  <2>3. QED
    BY <2>1, <2>2 DEF ModulesNext, moduleVars, UpdateLock, UpdateRead, ListRead, Ask,
       ReadSetting, End
<1>2. QED
  BY <1>1 DEF Stored

\* The commit of an update stores what it resolved, which lacks nothing.
LEMMA UpdateStores ==
  ASSUME ModulesInv, NEW c \in Caller, UpdateWrite(c)
  PROVE  /\ Stored' = call[c].result
         /\ Usable(Stored') = call[c].result
         /\ call[c].result =
              Usable((Usable(Stored) \cup call[c].on) \ call[c].off)
<1> DEFINE u == call[c]
           wanted == (Usable(Stored) \cup u.on) \ u.off
<1>1. u.op = "update" /\ u.step = "write"
  BY DEF UpdateWrite
<1>2. u \in Update
  BY <1>1 DEF ModulesInv, ModulesTypeOK, Update, List, Question, NoCall
<1>3. /\ u.result = Usable(wanted)
      /\ u.keys = u.on \cup u.off \cup (u.result \ Stored) \cup (Stored \ u.result)
  BY <1>1 DEF ModulesInv, UpdateOK
<1>4. wanted \in SUBSET Module
  BY <1>2, StoredType, UsableIsLargest DEF Update
<1>5. u.result \in SUBSET Module
  BY <1>2 DEF Update
<1>6. ASSUME NEW m \in Module
      PROVE  setting'[m] # "off" <=> m \in u.result
  <2>1. CASE m \in u.keys
    BY <2>1 DEF UpdateWrite
  <2>2. CASE m \notin u.keys
    <3>1. setting'[m] = (IF setting[m] = "none" THEN "on" ELSE setting[m])
      BY <2>2 DEF UpdateWrite
    <3>2. m \in Stored <=> m \in u.result
      BY <2>2, <1>3
    <3>3. QED
      BY <3>1, <3>2 DEF Stored
  <2>3. QED
    BY <2>1, <2>2
<1>7. Stored' = u.result
  BY <1>5, <1>6 DEF Stored
<1>8. Closed(u.result)
  BY <1>3, <1>4, UsableIsLargest
<1>9. Usable(Stored') = u.result
  BY <1>5, <1>7, <1>8, ClosedIsUsable
<1>10. QED
  BY <1>3, <1>7, <1>9
-----------------------------------------------------------------------------

\* The switches start with their invariant.
LEMMA InitialInv == ModulesInit => ModulesInv
  BY ModulesAssumption DEF ModulesInit, ModulesInv, ModulesTypeOK, LockOK, UpdateOK,
     QuestionOK, NoCall

\* What a handler of one caller does leaves the records of the others alone.
LEMMA TypePreserved ==
  ASSUME ModulesInv, [ModulesNext]_moduleVars
  PROVE  ModulesTypeOK'
<1> USE ModulesAssumption
<1>1. CASE UNCHANGED moduleVars
  BY <1>1 DEF ModulesInv, ModulesTypeOK, moduleVars
<1>2. ASSUME NEW c \in Caller, NEW on \in SUBSET Module, NEW off \in SUBSET Module,
             UpdateLock(c, on, off)
      PROVE  ModulesTypeOK'
  <2>1. [op |-> "update", step |-> "read", on |-> on, off |-> off, keys |-> {},
         result |-> {}] \in Update
    BY DEF Update
  <2>2. QED
    BY <1>2, <2>1 DEF ModulesInv, ModulesTypeOK, UpdateLock
<1>3. ASSUME NEW c \in Caller, UpdateRead(c)
      PROVE  ModulesTypeOK'
  <2> DEFINE result == Usable(Wanted(call[c].on, call[c].off))
             keys == call[c].on \cup call[c].off \cup (result \ Stored) \cup (Stored \ result)
  <2>1. call[c] \in Update
    BY <1>3 DEF UpdateRead, ModulesInv, ModulesTypeOK, Update, List, Question, NoCall
  <2>2. Wanted(call[c].on, call[c].off) \in SUBSET Module
    BY <2>1, StoredType, UsableIsLargest DEF Wanted, Update
  <2>3. result \in SUBSET Module
    BY <2>2, UsableIsLargest
  <2>4. keys \in SUBSET Module
    BY <2>1, <2>3, StoredType DEF Update
  <2>5. [call[c] EXCEPT !.step = "write", !.result = result, !.keys = keys] \in Update
    <3> HIDE DEF result, keys
    <3> QED BY <2>1, <2>3, <2>4 DEF Update
  <2>6. QED
    BY <1>3, <2>5 DEF UpdateRead, ModulesInv, ModulesTypeOK
<1>4. ASSUME NEW c \in Caller, UpdateWrite(c)
      PROVE  ModulesTypeOK'
  <2>1. Usable(Stored') \in SUBSET Module
    <3>1. call[c] \in Update
      BY <1>4 DEF UpdateWrite, ModulesInv, ModulesTypeOK, Update, List, Question, NoCall
    <3>2. QED
      BY <1>4, <3>1, UpdateStores DEF Update
  <2>2. seen' \in [Caller -> SUBSET Module]
    <3> DEFINE after == Usable(Stored')
    <3>1. seen' = [d \in Caller |-> IF call[d].op = "question" THEN seen[d] \cup after ELSE {}]
      BY <1>4 DEF UpdateWrite
    <3> HIDE DEF after
    <3>2. after \in SUBSET Module
      BY <2>1 DEF after
    <3>3. QED
      BY <3>1, <3>2 DEF ModulesInv, ModulesTypeOK
  <2>3. setting' \in [Module -> {"none", "on", "off"}]
    BY <1>4 DEF UpdateWrite, ModulesInv, ModulesTypeOK
  <2>4. QED
    BY <1>4, <2>2, <2>3 DEF UpdateWrite, Reply, Unlock, ModulesInv, ModulesTypeOK
<1>5. ASSUME NEW c \in Caller, ListRead(c)
      PROVE  ModulesTypeOK'
  <2>1. [op |-> "list", missing |-> {m \in Module : setting[m] = "none"}] \in List
    BY DEF List
  <2>2. QED
    BY <1>5, <2>1 DEF ListRead, ModulesInv, ModulesTypeOK
<1>6. ASSUME NEW c \in Caller, ListInsert(c)
      PROVE  ModulesTypeOK'
  BY <1>6 DEF ListInsert, Reply, ModulesInv, ModulesTypeOK
<1>7. ASSUME NEW c \in Caller, NEW m \in Module, Ask(c, m)
      PROVE  ModulesTypeOK'
  <2>1. [op |-> "question", module |-> m, todo |-> {m}, visited |-> {}] \in Question
    BY DEF Question
  <2>2. QED
    BY <1>7, <2>1, StoredType DEF Ask, ModulesInv, ModulesTypeOK
<1>8. ASSUME NEW c \in Caller, NEW m \in Module, ReadSetting(c, m)
      PROVE  ModulesTypeOK'
  <2> DEFINE visited == call[c].visited \cup {m}
             todo == (call[c].todo \cup Requires[m]) \ visited
  <2>1. call[c] \in Question
    BY <1>8 DEF ReadSetting, ModulesInv, ModulesTypeOK, Update, List, Question, NoCall
  <2>2. visited \in SUBSET Module /\ todo \in SUBSET Module
    BY <2>1 DEF Question
  <2>3. [call[c] EXCEPT !.visited = visited, !.todo = todo] \in Question
    <3> HIDE DEF visited, todo
    <3> QED BY <2>1, <2>2 DEF Question
  <2>4. call' = [call EXCEPT ![c] = [call[c] EXCEPT !.visited = visited, !.todo = todo]]
    BY <1>8 DEF ReadSetting, ModulesInv, ModulesTypeOK
  <2>5. QED
    BY <1>8, <2>3, <2>4 DEF ReadSetting, ModulesInv, ModulesTypeOK
<1>9. ASSUME NEW c \in Caller, End(c)
      PROVE  ModulesTypeOK'
  BY <1>9 DEF End, Reply, Unlock, ModulesInv, ModulesTypeOK
<1>10. QED
  BY <1>1, <1>2, <1>3, <1>4, <1>5, <1>6, <1>7, <1>8, <1>9 DEF ModulesNext

\* While what is stored stays, so does what the updates have read.
LEMMA InvPreserved ==
  ASSUME ModulesInv, [ModulesNext]_moduleVars
  PROVE  ModulesInv'
<1> USE ModulesAssumption
<1>1. ModulesTypeOK'
  BY TypePreserved
<1>2. ASSUME NEW c \in Caller, NEW other \in Caller, other # c,
             Stored' = Stored, call' = [call EXCEPT ![c] = call'[c]],
             moduleLock' = moduleLock \/ moduleLock \in {NoCaller, c},
             seen'[other] = seen[other]
      PROVE  UpdateOK(other)' /\ QuestionOK(other)'
  <2>1. call'[other] = call[other]
    BY <1>2 DEF ModulesInv, ModulesTypeOK
  <2>2. UpdateOK(other)'
    <3>1. SUFFICES ASSUME call[other].op = "update"
                   PROVE  UpdateOK(other)'
      BY <2>1 DEF UpdateOK
    <3>2. moduleLock = other
      BY <3>1 DEF ModulesInv, UpdateOK
    <3>3. moduleLock' = other
      BY <1>2, <3>2
    <3>4. UpdateOK(other)
      BY DEF ModulesInv
    <3>5. Usable(Stored') = Usable(Stored)
      BY <1>2
    <3>6. QED
      BY <1>2, <2>1, <3>3, <3>4, <3>5 DEF UpdateOK, Usable, Closed
  <2>3. QuestionOK(other)'
    BY <1>2, <2>1 DEF ModulesInv, QuestionOK, Closed
  <2>4. QED
    BY <2>2, <2>3
<1>3. CASE UNCHANGED moduleVars
  <2>1. Stored' = Stored
    BY <1>3 DEF Stored, moduleVars
  <2>2. Usable(Stored') = Usable(Stored)
    BY <2>1
  <2>3. ASSUME NEW c \in Caller
        PROVE  UpdateOK(c)' /\ QuestionOK(c)'
    BY <1>3, <2>1, <2>2 DEF moduleVars, ModulesInv, UpdateOK, QuestionOK, Closed, Usable
  <2>4. LockOK'
    BY <1>3 DEF moduleVars, ModulesInv, LockOK
  <2>5. QED
    BY <1>1, <2>3, <2>4 DEF ModulesInv
<1>4. ASSUME NEW c \in Caller, NEW on \in SUBSET Module, NEW off \in SUBSET Module,
             UpdateLock(c, on, off)
      PROVE  ModulesInv'
  <2>1. Stored' = Stored
    BY <1>4 DEF UpdateLock, Stored
  <2>2. /\ call'[c].op = "update" /\ call'[c].step = "read"
        /\ call' = [call EXCEPT ![c] = call'[c]]
    BY <1>4 DEF UpdateLock, ModulesInv, ModulesTypeOK
  <2>3. UpdateOK(c)' /\ QuestionOK(c)' /\ LockOK'
    BY <1>4, <2>2 DEF UpdateLock, UpdateOK, QuestionOK, LockOK
  <2>4. QED
    BY <1>1, <1>2, <1>4, <2>1, <2>2, <2>3 DEF UpdateLock, ModulesInv
<1>5. ASSUME NEW c \in Caller, UpdateRead(c)
      PROVE  ModulesInv'
  <2> DEFINE u == call[c]
             wanted == (Usable(Stored) \cup u.on) \ u.off
             result == Usable(wanted)
             keys == u.on \cup u.off \cup (result \ Stored) \cup (Stored \ result)
             next == [u EXCEPT !.step = "write", !.result = result, !.keys = keys]
  <2>1. Stored' = Stored /\ moduleLock' = moduleLock /\ seen' = seen
    BY <1>5 DEF UpdateRead, Stored
  <2>2. u \in Update
    BY <1>5 DEF UpdateRead, ModulesInv, ModulesTypeOK, Update, List, Question, NoCall
  <2>3. call' = [call EXCEPT ![c] = next]
    BY <1>5 DEF UpdateRead, Wanted
  <2>4. /\ next.op = "update" /\ next.on = u.on /\ next.off = u.off
        /\ next.result = result /\ next.keys = keys
    <3> HIDE DEF result, keys
    <3> QED BY <2>2 DEF Update
  <2>5. call'[c] = next
    BY <2>3 DEF ModulesInv, ModulesTypeOK
  <2>6. moduleLock = c
    BY <1>5 DEF UpdateRead, ModulesInv, UpdateOK
  <2>7. \A m \in u.on : Requires[m] \subseteq wanted \cup u.off
    BY <1>5 DEF UpdateRead, Wanted
  <2>8. Usable(Stored)' = Usable(Stored)
    BY <2>1 DEF Usable, Closed
  <2>9. wanted' = (Usable(Stored) \cup call'[c].on) \ call'[c].off
    BY <2>8
  <2>10. /\ ((Usable(Stored) \cup call[c].on) \ call[c].off)' = wanted
         /\ Usable((Usable(Stored) \cup call[c].on) \ call[c].off)' = result
    BY <2>4, <2>5, <2>8 DEF Usable, Closed
  <2>11. UpdateOK(c)'
    BY <2>1, <2>4, <2>5, <2>6, <2>7, <2>10 DEF UpdateOK
  <2>12. QuestionOK(c)' /\ LockOK'
    BY <2>1, <2>4, <2>5, <2>6 DEF QuestionOK, LockOK
  <2>13. QED
    BY <1>1, <1>2, <2>1, <2>3, <2>5, <2>11, <2>12 DEF ModulesInv
<1>6. ASSUME NEW c \in Caller, UpdateWrite(c)
      PROVE  ModulesInv'
  <2>1. call[c].op = "update" /\ moduleLock = c
    BY <1>6 DEF UpdateWrite, ModulesInv, UpdateOK
  <2>2. call[c] \in Update
    BY <2>1 DEF ModulesInv, ModulesTypeOK, Update, List, Question, NoCall
  <2>3. call'[c] = NoCall /\ \A other \in Caller \ {c} : call'[other] = call[other]
    BY <1>6 DEF UpdateWrite, Reply, ModulesInv, ModulesTypeOK
  <2>4. moduleLock' = NoCaller
    BY <1>6, <2>1 DEF UpdateWrite, Unlock
  <2>5. UpdateOK(c)' /\ QuestionOK(c)' /\ LockOK'
    BY <2>3, <2>4 DEF UpdateOK, QuestionOK, LockOK, NoCall
  <2>6. ASSUME NEW other \in Caller, other # c
        PROVE  UpdateOK(other)' /\ QuestionOK(other)'
    <3>1. call[other].op # "update"
      BY <2>1, <2>6 DEF ModulesInv, UpdateOK
    <3>2. UpdateOK(other)'
      BY <2>3, <2>6, <3>1 DEF UpdateOK
    <3>3. QuestionOK(other)'
      <4>1. SUFFICES ASSUME call[other].op = "question"
                     PROVE  QuestionOK(other)'
        BY <2>3, <2>6 DEF QuestionOK
      <4>2. seen'[other] = seen[other] \cup Usable(Stored')
        BY <1>6, <4>1 DEF UpdateWrite
      <4>3. Usable(Stored') = Stored'
        BY <1>6, UpdateStores
      <4>4. Closed(Stored)'
        <5>1. call[c].result \in SUBSET Module /\ Stored' = call[c].result
          BY <1>6, <2>2, UpdateStores DEF Update
        <5>2. Closed(Stored')
          BY <4>3, <5>1, UsableIsLargest
        <5>3. QED
          BY <5>2 DEF Closed
      <4>5. QuestionOK(other)
        BY DEF ModulesInv
      <4>6. Stored' \subseteq seen'[other] /\ seen[other] \subseteq seen'[other]
        BY <4>2, <4>3
      <4>7. QED
        BY <2>3, <2>6, <4>4, <4>5, <4>6 DEF QuestionOK
    <3>4. QED
      BY <3>2, <3>3
  <2>7. QED
    BY <1>1, <2>5, <2>6 DEF ModulesInv
<1>7. ASSUME NEW c \in Caller, ListRead(c) \/ ListInsert(c)
      PROVE  ModulesInv'
  <2>1. ~\E d \in Caller : UpdateWrite(d)
    <3>1. SUFFICES ASSUME NEW d \in Caller, UpdateWrite(d)
                   PROVE  FALSE
      OBVIOUS
    <3>2. call[d].op = "update" /\ call'[d] = NoCall
      BY <3>1 DEF UpdateWrite, Reply, ModulesInv, ModulesTypeOK
    <3>3. QED
      BY <1>7, <3>2 DEF ListRead, ListInsert, Reply, ModulesInv, ModulesTypeOK, NoCall
  <2>2. Stored' = Stored
    BY <2>1, OnlyUpdatesStore
  <2>3. call'[c].op \in {"none", "list"} /\ call' = [call EXCEPT ![c] = call'[c]]
    BY <1>7 DEF ListRead, ListInsert, Reply, NoCall, ModulesInv, ModulesTypeOK
  <2>4. call[c].op # "update"
    BY <1>7 DEF ListRead, ListInsert, NoCall
  <2>5. moduleLock' = moduleLock /\ seen' = seen
    BY <1>7 DEF ListRead, ListInsert
  <2>6. UpdateOK(c)' /\ QuestionOK(c)' /\ LockOK'
    BY <2>3, <2>4, <2>5 DEF UpdateOK, QuestionOK, LockOK, ModulesInv, ModulesTypeOK
  <2>7. QED
    BY <1>1, <1>2, <2>2, <2>3, <2>5, <2>6 DEF ModulesInv
<1>8. ASSUME NEW c \in Caller, NEW m \in Module, Ask(c, m)
      PROVE  ModulesInv'
  <2>1. Stored' = Stored /\ moduleLock' = moduleLock
    BY <1>8 DEF Ask, Stored
  <2>2. call'[c] = [op |-> "question", module |-> m, todo |-> {m}, visited |-> {}]
        /\ call' = [call EXCEPT ![c] = call'[c]]
    BY <1>8 DEF Ask, ModulesInv, ModulesTypeOK
  <2>3. seen'[c] = (IF Closed(Stored) THEN Stored ELSE Module)
    BY <1>8 DEF Ask, ModulesInv, ModulesTypeOK
  <2>4. UpdateOK(c)' /\ QuestionOK(c)'
    BY <2>1, <2>2, <2>3 DEF UpdateOK, QuestionOK, Closed
  <2>5. LockOK'
    BY <1>8, <2>1, <2>2 DEF Ask, NoCall, LockOK, ModulesInv, ModulesTypeOK
  <2>6. \A other \in Caller \ {c} : seen'[other] = seen[other]
    BY <1>8 DEF Ask, ModulesInv, ModulesTypeOK
  <2>7. QED
    BY <1>1, <1>2, <2>1, <2>2, <2>4, <2>5, <2>6 DEF ModulesInv
<1>9. ASSUME NEW c \in Caller, NEW m \in Module, ReadSetting(c, m)
      PROVE  ModulesInv'
  <2> DEFINE q == call[c]
             visited == q.visited \cup {m}
             todo == (q.todo \cup Requires[m]) \ visited
  <2>1. Stored' = Stored /\ moduleLock' = moduleLock /\ seen' = seen
    BY <1>9 DEF ReadSetting, Stored
  <2>2. q \in Question
    BY <1>9 DEF ReadSetting, ModulesInv, ModulesTypeOK, Update, List, Question, NoCall
  <2>3. call' = [call EXCEPT ![c] = [q EXCEPT !.visited = visited, !.todo = todo]]
    BY <1>9 DEF ReadSetting, ModulesInv, ModulesTypeOK
  <2>4. call'[c] = [q EXCEPT !.visited = visited, !.todo = todo]
    BY <2>3 DEF ModulesInv, ModulesTypeOK
  <2>5. call'[c].op = "question" /\ call'[c].module = q.module /\ call'[c].visited # {}
    BY <2>2, <2>4 DEF Question
  <2>6. QuestionOK(c)
    BY DEF ModulesInv
  <2>7. q.module \in seen[c]
    <3>1. CASE q.visited = {}
      <4>1. m = q.module /\ m \in Stored
        BY <1>9, <2>6, <3>1 DEF ReadSetting, QuestionOK, Stored
      <4>2. QED
        BY <1>9, <2>6, <4>1 DEF ReadSetting, QuestionOK
    <3>2. CASE q.visited # {}
      BY <1>9, <2>6, <3>2 DEF ReadSetting, QuestionOK
    <3>3. QED
      BY <3>1, <3>2
  <2>8. QuestionOK(c)'
    BY <1>9, <2>1, <2>5, <2>6, <2>7 DEF ReadSetting, QuestionOK, Closed
  <2>9. UpdateOK(c)'
    BY <2>5 DEF UpdateOK
  <2>10. LockOK'
    BY <1>9, <2>1, <2>3, <2>5 DEF ReadSetting, LockOK, ModulesInv, ModulesTypeOK
  <2>11. QED
    BY <1>1, <1>2, <2>1, <2>3, <2>4, <2>8, <2>9, <2>10 DEF ModulesInv
<1>10. ASSUME NEW c \in Caller, End(c)
      PROVE  ModulesInv'
  <2>1. Stored' = Stored
    BY <1>10 DEF End, Stored
  <2>2. call'[c] = NoCall /\ call' = [call EXCEPT ![c] = call'[c]]
    BY <1>10 DEF End, Reply, ModulesInv, ModulesTypeOK
  <2>3. UpdateOK(c)' /\ QuestionOK(c)'
    BY <2>2 DEF UpdateOK, QuestionOK, NoCall
  <2>4. LockOK'
    BY <1>10, <2>2 DEF End, Unlock, LockOK, ModulesInv, ModulesTypeOK
  <2>5. ASSUME NEW other \in Caller, other # c
        PROVE  UpdateOK(other)' /\ QuestionOK(other)'
    <3>1. moduleLock' = moduleLock \/ moduleLock \in {NoCaller, c}
      BY <1>10 DEF End, Unlock
    <3>2. seen'[other] = seen[other]
      BY <1>10, <2>5 DEF End, ModulesInv, ModulesTypeOK
    <3>3. QED
      BY <1>2, <2>1, <2>2, <2>5, <3>1, <3>2
  <2>6. QED
    BY <1>1, <2>3, <2>4, <2>5 DEF ModulesInv
<1>11. QED
  BY <1>3, <1>4, <1>5, <1>6, <1>7, <1>8, <1>9, <1>10 DEF ModulesNext

\* What holds in every state of every behaviour.
THEOREM ModulesInvariant == ModulesSpec => []ModulesInv
<1>1. ModulesInv /\ [ModulesNext]_moduleVars => ModulesInv'
  BY InvPreserved
<1>2. QED
  BY InitialInv, <1>1, PTL DEF ModulesSpec

-----------------------------------------------------------------------------

\* Whom the guard lets in asked for a module that was enabled at some moment
\* since, although it reads the rows one by one while updates commit: an answer
\* comes after the module's own row, and rows an update wrote lack nothing.
THEOREM AllowedWereEnabled == ModulesSpec => []AllowedWasEnabled
<1>1. ModulesInv => AllowedWasEnabled
  <2>1. SUFFICES ASSUME ModulesInv, NEW c \in Caller, Allowed(c)
                 PROVE  call[c].module \in seen[c]
    BY DEF AllowedWasEnabled
  <2>2. QuestionOK(c) /\ call[c].op = "question" /\ call[c].todo = {}
    BY <2>1 DEF ModulesInv, Allowed
  <2>3. call[c].visited # {}
    BY <2>2 DEF QuestionOK
  <2>4. QED
    BY <2>2, <2>3 DEF QuestionOK
<1>2. QED
  BY ModulesInvariant, <1>1, PTL

-----------------------------------------------------------------------------
(* Updates are atomic switches *)

\* The switches start where the abstract switches start.
LEMMA InitialSwitches == ModulesInit => Switches!SwitchesInit
<1>1. Usable(Stored) \in SUBSET Module /\ Closed(Usable(Stored))
  BY StoredType, UsableIsLargest
<1>2. QED
  BY <1>1 DEF ModulesInit, AskedOf, Closed, Switches!SwitchesInit, Switches!Consistent,
     Switches!NotAsked

\* Taking the lock is considering a request, the commit grants it, and the end of
\* a request that holds the lock turns it down; the other steps change nothing.
LEMMA StepsAreSwitches ==
  ASSUME ModulesInv, ModulesInv', [ModulesNext]_moduleVars
  PROVE  [Switches!SwitchesNext]_<<Usable(Stored), AskedOf>>
<1> USE ModulesAssumption
<1>1. CASE \E c \in Caller : UpdateWrite(c)
  <2>1. PICK c \in Caller : UpdateWrite(c)
    BY <1>1
  <2> DEFINE u == call[c]
             wanted == (Usable(Stored) \cup u.on) \ u.off
  <2>2. u.op = "update" /\ u.step = "write" /\ moduleLock = c
    BY <2>1 DEF UpdateWrite, ModulesInv, UpdateOK
  <2>3. u \in Update
    BY <2>2 DEF ModulesInv, ModulesTypeOK, Update, List, Question, NoCall
  <2>4. AskedOf = [on |-> u.on, off |-> u.off]
    BY <2>2 DEF AskedOf
  <2>5. wanted \in SUBSET Module
    BY <2>3, StoredType, UsableIsLargest DEF Update
  <2>6. Usable(Stored') = Usable(wanted)
    BY <2>1, UpdateStores
  <2>7. /\ Usable(wanted) \in SUBSET wanted
        /\ Closed(Usable(wanted))
        /\ \A other \in SUBSET wanted : Closed(other) => other \subseteq Usable(wanted)
    BY <2>5, UsableIsLargest
  <2>8. \A m \in u.on : Requires[m] \subseteq wanted \cup u.off
    BY <2>2 DEF ModulesInv, UpdateOK
  <2>9. AskedOf' = Switches!NotAsked
    BY <2>1, <2>2 DEF UpdateWrite, Unlock, AskedOf, Switches!NotAsked
  <2>10. Usable(Stored)' = Usable(wanted)
    BY <2>6 DEF Usable, Closed
  <2>11. Switches!Grant
    BY <2>4, <2>7, <2>8, <2>9, <2>10 DEF Switches!Grant, Switches!Consistent, Closed
  <2>12. QED
    BY <2>11 DEF Switches!SwitchesNext
<1>2. CASE ~\E c \in Caller : UpdateWrite(c)
  <2>1. Stored' = Stored
    BY <1>2, OnlyUpdatesStore
  <2>2. Usable(Stored)' = Usable(Stored)
    BY <2>1 DEF Usable, Closed
  <2>3. ASSUME NEW c \in Caller, NEW on \in SUBSET Module, NEW off \in SUBSET Module,
               UpdateLock(c, on, off)
        PROVE  Switches!Consider
    <3>1. AskedOf = Switches!NotAsked
      BY <2>3 DEF UpdateLock, AskedOf, Switches!NotAsked
    <3>2. call'[c].on = on /\ call'[c].off = off /\ moduleLock' = c /\ c # NoCaller
      BY <2>3 DEF UpdateLock, ModulesInv, ModulesTypeOK
    <3>3. AskedOf' = [on |-> on, off |-> off]
      BY <3>2 DEF AskedOf
    <3>4. QED
      BY <2>2, <3>1, <3>3 DEF Switches!Consider
  <2>4. ASSUME NEW c \in Caller, UpdateRead(c)
        PROVE  AskedOf' = AskedOf
    <3>1. moduleLock = c /\ moduleLock' = c
      BY <2>4 DEF UpdateRead, ModulesInv, UpdateOK
    <3>2. call'[c].on = call[c].on /\ call'[c].off = call[c].off
      BY <2>4 DEF UpdateRead, ModulesInv, ModulesTypeOK, Update, List, Question, NoCall
    <3>3. QED
      BY <3>1, <3>2 DEF AskedOf
  <2>5. ASSUME NEW c \in Caller, NEW m \in Module,
               Ask(c, m) \/ ReadSetting(c, m)
        PROVE  AskedOf' = AskedOf
    <3>1. call[c].op # "update" /\ moduleLock' = moduleLock
      BY <2>5 DEF Ask, ReadSetting, NoCall
    <3>2. moduleLock # c
      BY <3>1 DEF ModulesInv, LockOK
    <3>3. \A other \in Caller \ {c} : call'[other] = call[other]
      BY <2>5 DEF Ask, ReadSetting, ModulesInv, ModulesTypeOK
    <3>4. moduleLock = NoCaller \/ moduleLock \in Caller \ {c}
      BY <3>2 DEF ModulesInv, ModulesTypeOK
    <3>5. QED
      BY <3>1, <3>3, <3>4 DEF AskedOf
  <2>6. ASSUME NEW c \in Caller, End(c)
        PROVE  Switches!TurnDown \/ AskedOf' = AskedOf
    <3>1. CASE moduleLock = c
      <4>1. AskedOf' = Switches!NotAsked
        BY <2>6, <3>1 DEF End, Unlock, AskedOf, Switches!NotAsked
      <4>2. QED
        BY <2>2, <4>1 DEF Switches!TurnDown
    <3>2. CASE moduleLock # c
      <4>1. moduleLock' = moduleLock
        BY <2>6, <3>2 DEF End, Unlock
      <4>2. \A other \in Caller \ {c} : call'[other] = call[other]
        BY <2>6 DEF End, Reply, ModulesInv, ModulesTypeOK
      <4>3. moduleLock = NoCaller \/ moduleLock \in Caller \ {c}
        BY <3>2 DEF ModulesInv, ModulesTypeOK
      <4>4. QED
        BY <4>1, <4>2, <4>3 DEF AskedOf
    <3>3. QED
      BY <3>1, <3>2
  <2>7. CASE UNCHANGED moduleVars
    BY <2>7 DEF moduleVars, AskedOf, Stored, Usable, Closed
  <2>8. CASE ModulesNext
    <3>1. PICK c \in Caller :
            \/ \E on \in SUBSET Module, off \in SUBSET Module : UpdateLock(c, on, off)
            \/ UpdateRead(c)
            \/ \E m \in Module : Ask(c, m) \/ ReadSetting(c, m)
            \/ ListRead(c) \/ ListInsert(c) \/ End(c)
      BY <1>2, <2>8 DEF ModulesNext
    <3>2. CASE \E on \in SUBSET Module, off \in SUBSET Module : UpdateLock(c, on, off)
      BY <2>3, <3>2 DEF Switches!SwitchesNext
    <3>3. CASE UpdateRead(c)
      BY <2>2, <2>4, <3>3
    <3>4. CASE \E m \in Module : Ask(c, m) \/ ReadSetting(c, m)
      BY <2>2, <2>5, <3>4
    <3>5. CASE ListRead(c) \/ ListInsert(c)
      <4>1. AskedOf' = AskedOf
        <5>1. call[c].op # "update" /\ moduleLock' = moduleLock
          BY <3>5 DEF ListRead, ListInsert, NoCall
        <5>2. moduleLock = NoCaller \/ moduleLock \in Caller \ {c}
          BY <5>1 DEF ModulesInv, LockOK, ModulesTypeOK
        <5>3. \A other \in Caller \ {c} : call'[other] = call[other]
          BY <3>5 DEF ListRead, ListInsert, Reply, ModulesInv, ModulesTypeOK
        <5>4. QED
          BY <5>1, <5>2, <5>3 DEF AskedOf
      <4>2. QED
        BY <2>2, <4>1
    <3>6. CASE End(c)
      BY <2>2, <2>6, <3>6 DEF Switches!SwitchesNext
    <3>7. QED
      BY <3>1, <3>2, <3>3, <3>4, <3>5, <3>6
  <2>9. QED
    BY <2>7, <2>8
<1>3. QED
  BY <1>1, <1>2

\* However updates, lists and questions overlap, the modules in effect change as
\* if one update after the other were granted or turned down.
THEOREM UpdatesAreSwitches == ModulesSpec => ImplementsSwitches
<1>1. ModulesInv /\ ModulesInv' /\ [ModulesNext]_moduleVars
        => [Switches!SwitchesNext]_<<Usable(Stored), AskedOf>>
  BY StepsAreSwitches
<1>2. QED
  BY InitialSwitches, ModulesInvariant, <1>1, PTL
  DEF ModulesSpec, ImplementsSwitches, Switches!SwitchesSpec
=============================================================================
