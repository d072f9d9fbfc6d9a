------------------------------- MODULE Accounts -------------------------------
(***************************************************************************)
(* User accounts, their memberships of cinemas and their default cinema:    *)
(* the handlers of users/ and the default cinema of auth/.                  *)
(*                                                                          *)
(* Every handler but one holds the write lock of the account it changes;    *)
(* createUserFlow, which also links an existing account to another cinema,  *)
(* holds the lock of the directory of all accounts instead.  Transactions   *)
(* read committed rows, so each statement that reads what another handler   *)
(* may commit meanwhile is a step of its own.                               *)
(***************************************************************************)
EXTENDS Integers, FiniteSetsExt

CONSTANTS
  User,     \* email addresses, which are unique
  Cinema,   \* ids of cinemas
  Session   \* concurrent requests to the backend

None == 0   \* defaultCinemaId is null
Free == "free"

ASSUME AccountsAssumption ==
  /\ Cinema \subseteq Nat \ {0}
  /\ Free \notin Session

VARIABLES
  account,    \* table User: role, MEMBER for ADMIN and EMPLOYEE
  blocked,    \* the accounts with isActive = false
  default,    \* table User: defaultCinemaId
  member,     \* table UserCinemaMembership: isActive
  directory,  \* who holds the lock of the directory
  lock,       \* who holds the write lock of each account
  sess,       \* the handler each session runs
  crossed     \* auxiliary: accounts that lost a membership while they were
              \* linked to another cinema, and had no default chosen since

tables == <<account, blocked, default, member>>
vars == <<tables, directory, lock, sess, crossed>>

-----------------------------------------------------------------------------
(* Rows and requests *)

Role == {"none", "MEMBER", "MASTER"}
MaybeCinema == Cinema \cup {None}

\* Memberships are never deleted.
Status == {"none", "active", "inactive"}
Active(u) == {c \in Cinema : member[u][c] = "active"}

\* Handlers that may take memberships away, and those that choose a default.
Withdrawal == {"deactivate", "replace", "manage"}
Choice == {"choose", "manageDefault"}

\* A request, what it has read and what it will write.
Request ==
  [op : {"create", "reactivate", "status", "edit", "login"} \cup Withdrawal \cup Choice,
   step : {"user", "members", "fallback", "lock", "commit"},
   user : User,
   role : Role,                 \* of a new account
   cinema : MaybeCinema,        \* the cinema it is about
   cinemas : SUBSET Cinema,     \* the memberships it asks for
   known : BOOLEAN,             \* it read an existing account
   seen : MaybeCinema,          \* the defaultCinemaId it read
   off : SUBSET Cinema,         \* memberships it ends
   on : SUBSET Cinema,          \* memberships it begins
   next : MaybeCinema]          \* nextDefaultCinemaId

Idle == [op |-> "none"]

NewRequest(op, u) ==
  [op |-> op, step |-> "user", user |-> u, role |-> "none", cinema |-> None,
   cinemas |-> {}, known |-> FALSE, seen |-> None, off |-> {}, on |-> {}, next |-> None]

Running(self, op, step) == sess[self].op = op /\ sess[self].step = step
Set(self, request) == sess' = [sess EXCEPT ![self] = request]

TypeOK ==
  /\ account \in [User -> Role]
  /\ blocked \subseteq User
  /\ default \in [User -> MaybeCinema]
  /\ member \in [User -> [Cinema -> Status]]
  /\ directory \in Session \cup {Free}
  /\ lock \in [User -> Session \cup {Free}]
  /\ sess \in [Session -> Request \cup {Idle}]
  /\ crossed \subseteq User

Init ==
  /\ account = [u \in User |-> "none"]
  /\ blocked = {}
  /\ default = [u \in User |-> None]
  /\ member = [u \in User |-> [c \in Cinema |-> "none"]]
  /\ directory = Free
  /\ lock = [u \in User |-> Free]
  /\ sess = [s \in Session |-> Idle]
  /\ crossed = {}

\* The transaction ends: its locks are released.
Release(self) ==
  /\ directory' = IF directory = self THEN Free ELSE directory
  /\ lock' = [u \in User |-> IF lock[u] = self THEN Free ELSE lock[u]]
  /\ Set(self, Idle)

-----------------------------------------------------------------------------
(* createUserFlow: a new account, or a link of an existing one *)

Linking(u) == \E s \in Session : sess[s].op = "create" /\ sess[s].user = u /\ sess[s].known
Withdrawing(u) == \E s \in Session : sess[s].op \in Withdrawal /\ sess[s].user = u

\* Mutant of CreateUser: an existing MASTER is linked like anybody else.
CreateOrLink(self, u, c, role) ==
  /\ sess[self] = Idle
  /\ directory = Free
  /\ role = "MASTER" => account[u] = "none"
  /\ directory' = self
  /\ Set(self, [NewRequest("create", u) EXCEPT
                  !.step = "commit", !.role = role, !.cinema = c,
                  !.known = account[u] # "none", !.seen = default[u]])
  /\ crossed' = IF Withdrawing(u) THEN crossed \cup {u} ELSE crossed
  /\ UNCHANGED <<tables, lock>>

CreateUser(self, u, c, role) ==
  /\ sess[self] = Idle
  /\ directory = Free
  /\ IF role = "MASTER" THEN account[u] = "none" ELSE account[u] # "MASTER"
  /\ directory' = self
  /\ Set(self, [NewRequest("create", u) EXCEPT
                  !.step = "commit", !.role = role, !.cinema = c,
                  !.known = account[u] # "none", !.seen = default[u]])
  /\ crossed' = IF Withdrawing(u) THEN crossed \cup {u} ELSE crossed
  /\ UNCHANGED <<tables, lock>>

\* The email is unique.
InsertUser(self) ==
  LET r == sess[self] IN
  /\ Running(self, "create", "commit") /\ ~r.known
  /\ account[r.user] = "none"
  /\ account' = [account EXCEPT ![r.user] = r.role]
  /\ IF r.role = "MASTER" THEN UNCHANGED <<default, member>>
     ELSE /\ default' = [default EXCEPT ![r.user] = r.cinema]
          /\ member' = [member EXCEPT ![r.user][r.cinema] = "active"]
  /\ Release(self)
  /\ UNCHANGED <<blocked, crossed>>

\* Only an account that is not a member, not even a former one, is linked.
LinkUser(self) ==
  LET r == sess[self] IN
  /\ Running(self, "create", "commit") /\ r.known
  /\ member[r.user][r.cinema] = "none"
  /\ member' = [member EXCEPT ![r.user][r.cinema] = "active"]
  /\ default' = IF r.seen = None THEN [default EXCEPT ![r.user] = r.cinema] ELSE default
  /\ Release(self)
  /\ UNCHANGED <<account, blocked, crossed>>

-----------------------------------------------------------------------------
(* withUserWriteLock: handlers that hold the lock of the account *)

\* Mutant of LockUser: a transaction without the lock of the account.
ReadUser(self, request) ==
  /\ account[request.user] # "none"
  /\ Set(self, [request EXCEPT !.step = "members", !.seen = default[request.user]])
  /\ crossed' = IF request.op \in Withdrawal /\ Linking(request.user)
                THEN crossed \cup {request.user} ELSE crossed
  /\ UNCHANGED <<tables, directory, lock>>

\* They lock the account and read it.
LockUser(self, request) ==
  /\ lock[request.user] = Free
  /\ account[request.user] # "none"
  /\ lock' = [lock EXCEPT ![request.user] = self]
  /\ Set(self, [request EXCEPT !.step = "members", !.seen = default[request.user]])
  /\ crossed' = IF request.op \in Withdrawal /\ Linking(request.user)
                THEN crossed \cup {request.user} ELSE crossed
  /\ UNCHANGED <<tables, directory>>

\* Requests about the memberships of an account; only those of cinemas have any.
ChangeMemberships(self, u, op, c, cs) ==
  /\ sess[self] = Idle
  /\ account[u] = "MEMBER"
  /\ op = "replace" => c \in cs \cup {None}
  /\ LockUser(self, [NewRequest(op, u) EXCEPT !.cinema = c, !.cinemas = cs])

\* Mutant of ChooseDefault: isActive is not looked at.
ChooseAnyway(self, u, c) ==
  /\ sess[self] = Idle
  /\ account[u] = "MEMBER" => c # None
  /\ LockUser(self, [NewRequest("choose", u) EXCEPT !.cinema = c])

\* updateAuthDefaultCinemaFlow, of one's own default.
ChooseDefault(self, u, c) ==
  /\ sess[self] = Idle
  /\ u \notin blocked
  /\ account[u] = "MEMBER" => c # None
  /\ LockUser(self, [NewRequest("choose", u) EXCEPT !.cinema = c])

\* They read the memberships and decide what to write.
Decide(self, off, on, next) ==
  /\ Set(self, [sess[self] EXCEPT !.step = "commit", !.off = off, !.on = on, !.next = next])
  /\ UNCHANGED <<tables, directory, lock, crossed>>

Deactivate(self) ==
  LET r == sess[self]
      rest == Active(r.user) \ {r.cinema}
  IN
  /\ Running(self, "deactivate", "members")
  /\ r.cinema \in Active(r.user)
  /\ Decide(self, {r.cinema}, {},
            IF r.seen \in rest THEN r.seen ELSE IF rest = {} THEN None ELSE Min(rest))

Reactivate(self) ==
  LET r == sess[self] IN
  /\ Running(self, "reactivate", "members")
  /\ member[r.user][r.cinema] = "inactive"
  /\ Decide(self, {}, {r.cinema}, IF r.seen = None THEN r.cinema ELSE r.seen)

\* replace of the configuration service: the default is the one asked for, the
\* present one, or the first of the list.
Replace(self) ==
  LET r == sess[self] IN
  /\ Running(self, "replace", "members")
  /\ \E first \in r.cinemas \cup {None} :
       /\ first = None <=> r.cinemas = {}
       /\ Decide(self, Active(r.user) \ r.cinemas, r.cinemas,
                 IF r.cinema # None THEN r.cinema
                 ELSE IF r.seen \in r.cinemas THEN r.seen ELSE first)

\* resolveNextDefaultCinemaId
NextDefault(seen, cinemas) ==
  IF cinemas = {} THEN None ELSE IF seen \in cinemas THEN seen ELSE Min(cinemas)

\* applyManagedMemberships
Manage(self) ==
  LET r == sess[self] IN
  /\ Running(self, "manage", "members")
  /\ Decide(self, Active(r.user) \ r.cinemas, r.cinemas, NextDefault(r.seen, r.cinemas))

\* A MASTER, who has no memberships, may have any default.
Choose(self) ==
  LET r == sess[self] IN
  /\ r.op \in Choice /\ r.step = "members"
  /\ account[r.user] = "MEMBER" => r.cinema \in Active(r.user)
  /\ Decide(self, {}, {}, r.cinema)

\* A default that is not chosen is written only if it changes.
WritesDefault(r) == r.op \in Choice \/ r.next # r.seen

Commit(self) ==
  LET r == sess[self] IN
  /\ r.op \in Withdrawal \cup Choice \cup {"reactivate"} /\ r.step = "commit"
  /\ member' = [member EXCEPT ![r.user] =
                  [c \in Cinema |-> IF c \in r.on THEN "active"
                                    ELSE IF c \in r.off THEN "inactive" ELSE @[c]]]
  /\ default' = IF WritesDefault(r) THEN [default EXCEPT ![r.user] = r.next] ELSE default
  /\ crossed' = IF r.op \in Choice THEN crossed \ {r.user} ELSE crossed
  /\ Release(self)
  /\ UNCHANGED <<account, blocked>>

-----------------------------------------------------------------------------
(* Accounts of MASTER users, and edits of names, passwords and permissions *)

\* deactivateUserFlow and reactivateUserFlow
ChangeStatus(self, u) ==
  /\ sess[self] = Idle
  /\ account[u] = "MASTER"
  /\ LockUser(self, NewRequest("status", u))

WriteStatus(self) ==
  LET u == sess[self].user IN
  /\ Running(self, "status", "members")
  /\ blocked' = IF u \in blocked THEN blocked \ {u} ELSE blocked \cup {u}
  /\ Release(self)
  /\ UNCHANGED <<account, default, member, crossed>>

\* Edits that may change the email lock the directory, then the account.
EditUser(self, u) ==
  /\ sess[self] = Idle
  /\ directory = Free
  /\ directory' = self
  /\ Set(self, NewRequest("edit", u))
  /\ UNCHANGED <<tables, lock, crossed>>

LockEdited(self) == Running(self, "edit", "user") /\ LockUser(self, sess[self])

WriteEdit(self) ==
  /\ Running(self, "edit", "members")
  /\ Release(self)
  /\ UNCHANGED <<tables, crossed>>

-----------------------------------------------------------------------------
(* login: the membership of the session, read without a lock *)

Login(self, u) ==
  /\ sess[self] = Idle
  /\ account[u] = "MEMBER" /\ u \notin blocked
  /\ Set(self, [NewRequest("login", u) EXCEPT !.step = "members", !.seen = default[u]])
  /\ UNCHANGED <<tables, directory, lock, crossed>>

\* findAccessibleDefaultMembership
LoginDefault(self) ==
  LET r == sess[self] IN
  /\ Running(self, "login", "members")
  /\ Set(self, IF r.seen \in Active(r.user) THEN Idle ELSE [r EXCEPT !.step = "fallback"])
  /\ UNCHANGED <<tables, directory, lock, crossed>>

\* findFallbackMembership: the first by name, which may be any.
LoginFallback(self) ==
  LET r == sess[self] IN
  /\ Running(self, "login", "fallback")
  /\ \E c \in Active(r.user) :
       Set(self, IF c = r.seen THEN Idle ELSE [r EXCEPT !.step = "lock", !.cinema = c])
  /\ UNCHANGED <<tables, directory, lock, crossed>>

LoginLock(self) ==
  LET r == sess[self] IN
  /\ Running(self, "login", "lock")
  /\ r.user \notin blocked
  /\ LockUser(self, [NewRequest("choose", r.user) EXCEPT !.cinema = r.cinema])

-----------------------------------------------------------------------------

\* A check refuses, or the transaction times out: it has no effect.
Abort(self) ==
  /\ sess[self] # Idle
  /\ Release(self)
  /\ UNCHANGED <<tables, crossed>>

Start(self) ==
  \E u \in User :
    \/ \E c \in Cinema : CreateUser(self, u, c, "MEMBER")
    \/ CreateUser(self, u, None, "MASTER")
    \/ \E c \in Cinema, op \in {"deactivate", "reactivate", "manageDefault"} :
         ChangeMemberships(self, u, op, c, {})
    \/ \E cs \in SUBSET Cinema : ChangeMemberships(self, u, "manage", None, cs)
    \/ \E cs \in SUBSET Cinema, c \in MaybeCinema : ChangeMemberships(self, u, "replace", c, cs)
    \/ \E c \in MaybeCinema : ChooseDefault(self, u, c)
    \/ ChangeStatus(self, u)
    \/ EditUser(self, u)
    \/ Login(self, u)

Advance(self) ==
  \/ InsertUser(self) \/ LinkUser(self)
  \/ Deactivate(self) \/ Reactivate(self) \/ Replace(self) \/ Manage(self)
  \/ Choose(self) \/ Commit(self)
  \/ WriteStatus(self) \/ LockEdited(self) \/ WriteEdit(self)
  \/ LoginDefault(self) \/ LoginFallback(self) \/ LoginLock(self)
  \/ Abort(self)

Next == \E self \in Session : Start(self) \/ Advance(self)

Spec == Init /\ [][Next]_vars

-----------------------------------------------------------------------------
(* Properties *)

\* The default cinema is an active membership, and there is one while there are
\* active memberships.
Settled(u) ==
  /\ default[u] # None => default[u] \in Active(u)
  /\ Active(u) # {} => default[u] # None

\* The default cinema of ADMIN and EMPLOYEE is one of their active memberships,
\* and only who has none is without: the five handlers that write it keep that,
\* with logins that read without locks in between.  It is out of order only for
\* an account from which memberships were taken while createUserFlow linked it,
\* and that lasts no longer than until a default is next chosen for it.
DefaultFollowsMemberships ==
  \A u \in User \ crossed : account[u] = "MEMBER" => Settled(u)

\* A MASTER is never a member of a cinema, whichever handlers overlap.
MasterHasNoMembership ==
  \A u \in User : account[u] = "MASTER" => \A c \in Cinema : member[u][c] = "none"

\* Who is blocked keeps the default: updateAuthDefaultCinemaFlow checks isActive
\* under the lock that deactivateUserFlow takes, so nothing comes in between.
BlockedKeepsDefault ==
  [][\A u \in blocked : default'[u] = default[u]]_vars
=============================================================================
