------------------------------ MODULE ShiftStore ------------------------------
(***************************************************************************)
(* The committed tables that the shift, shift-trade, staffing-request,     *)
(* leave and clock-in handlers of the backend share, the PostgreSQL        *)
(* advisory locks they serialise on, and the requests ("sessions") in      *)
(* flight.                                                                  *)
(*                                                                         *)
(* A handler is a sequence of actions of one session: it begins, acquires  *)
(* its advisory locks, reads what is committed at that moment, and commits *)
(* all its writes in one action.  Transactions run at READ COMMITTED:      *)
(* nothing a session wrote is visible before that action, and what it read *)
(* may be stale when it commits: a handler that writes the rows it has     *)
(* found remembers which they were (found...), and a row inserted since is *)
(* none of them.  pg_advisory_xact_lock keys are released by COMMIT or     *)
(* ROLLBACK.  Reads that follow each other with no lock acquisition or     *)
(* write between them are one action, but for those that find the rows a   *)
(* handler is about to write, which are an action of their own.            *)
(***************************************************************************)
EXTENDS Integers, FiniteSets

CONSTANTS
  User,       \* employees and administrators, active in every cinema
  Qualified,  \* users qualified for the job function the shifts need
  Cinema,
  ShiftId, TradeId, RequestId, LeaveId, EntryId,   \* row ids (bounds)
  Interval,   \* the periods a shift or a leave may have
  DayLength,  \* hours of a calendar day
  MinNotice,  \* Cinema.leaveRequestMinimumNoticeDays
  MaxTime,    \* the clock stops here (bound)
  Session,    \* concurrent requests to the backend
  Ops         \* the operations clients send in this instance (bound)

None == 0     \* SQL NULL in a column that holds an id

ASSUME IdAssumption ==
  /\ User \subseteq Nat \ {None}
  /\ Cinema \subseteq Nat \ {None}
  /\ ShiftId \subseteq Nat \ {None}
  /\ TradeId \subseteq Nat \ {None}
  /\ RequestId \subseteq Nat \ {None}
  /\ LeaveId \subseteq Nat \ {None}
  /\ EntryId \subseteq Nat \ {None}
  /\ Qualified \subseteq User

ASSUME TimeAssumption ==
  /\ Interval \subseteq {i \in [from : Nat, to : Nat] : i.from < i.to}
  /\ DayLength \in Nat \ {0}
  /\ MinNotice \in Nat
  /\ MaxTime \in Nat

VARIABLES
  shifts,    \* table Shift
  trades,    \* table ShiftTrade, with its ShiftTradeDecline rows
  requests,  \* table StaffingRequest, with its StaffingRequestDecline rows
  leaves,    \* table LeaveRequest
  entries,   \* table TimeEntry
  now,       \* wall clock, in hours
  held,      \* the advisory locks each session's transaction holds
  sess       \* the handler each session runs

tables == <<shifts, trades, requests, leaves, entries>>
vars == <<shifts, trades, requests, leaves, entries, now, held, sess>>

-----------------------------------------------------------------------------
(* Rows *)

NoInterval == [from |-> 0, to |-> 0]
MaybeInterval == Interval \cup {NoInterval}
MaybeUser == User \cup {None}
MaybeShift == ShiftId \cup {None}
MaybeCinema == Cinema \cup {None}

ShiftRow == [state : {"unused", "live", "deleted"}, user : MaybeUser,
             cinema : MaybeCinema, ivl : MaybeInterval]

TradeStatus == {"unused", "OPEN", "ACCEPTED", "REJECTED", "CANCELLED"}
TradeRow == [status : TradeStatus, shift : MaybeShift, offeredBy : MaybeUser,
             target : MaybeUser, acceptedBy : MaybeUser,
             declines : SUBSET User]

RequestStatus == {"unused", "PENDING", "ACCEPTED", "REJECTED", "CANCELLED"}
RequestRow == [status : RequestStatus, shift : MaybeShift,
               target : MaybeUser, acceptedBy : MaybeUser,
               declines : SUBSET User]

LeaveStatus ==
  {"unused", "PENDING", "APPROVED", "REJECTED", "CANCELLED", "EXPIRED"}
LeaveRow == [status : LeaveStatus, user : MaybeUser, cinema : MaybeCinema,
             ivl : MaybeInterval]

EntryRow == [status : {"unused", "open", "done"}, user : MaybeUser,
             shift : MaybeShift]

UnusedShift == [state |-> "unused", user |-> None, cinema |-> None,
                ivl |-> NoInterval]
UnusedTrade == [status |-> "unused", shift |-> None, offeredBy |-> None,
                target |-> None, acceptedBy |-> None, declines |-> {}]
UnusedRequest == [status |-> "unused", shift |-> None, target |-> None,
                  acceptedBy |-> None, declines |-> {}]
UnusedLeave == [status |-> "unused", user |-> None, cinema |-> None,
                ivl |-> NoInterval]
UnusedEntry == [status |-> "unused", user |-> None, shift |-> None]

LiveShift(s) == s \in ShiftId /\ shifts[s].state = "live"

\* The id an INSERT gets: ids are handed out in order.  When a table is full
\* (bound) the INSERT fails and its transaction aborts.
First(id, unused) == id \in unused /\ \A other \in unused : id <= other

UnusedShiftIds == {s \in ShiftId : shifts[s].state = "unused"}
UnusedTradeIds == {t \in TradeId : trades[t].status = "unused"}
UnusedRequestIds == {r \in RequestId : requests[r].status = "unused"}
UnusedLeaveIds == {l \in LeaveId : leaves[l].status = "unused"}
UnusedEntryIds == {e \in EntryId : entries[e].status = "unused"}

-----------------------------------------------------------------------------
(* Time *)

Day(t) == t \div DayLength
Overlap(i, j) == i.from < j.to /\ j.from < i.to
Started(i) == i.from <= now

-----------------------------------------------------------------------------
(* Advisory locks: one key per namespace and resource id *)

UserLock(u) == <<"user", u>>            \* namespace 56001
RecordLock(s) == <<"record", s>>        \* namespace 56002
OfferLock(s) == <<"offer", s>>          \* namespace 53001
LeaveUserLock(u) == <<"leaveUser", u>>  \* namespace 54001
LeaveLock(l) == <<"leave", l>>          \* namespace 54002
PeriodLock(c) == <<"period", c>>        \* the payroll period of today in c

LockKey ==
  ({"user", "leaveUser"} \X User) \cup ({"record", "offer"} \X ShiftId)
    \cup ({"leave"} \X LeaveId) \cup ({"period"} \X Cinema)

Available(self, key) == \A p \in Session \ {self} : key \notin held[p]

Acquire(self, key) ==
  /\ Available(self, key)
  /\ held' = [held EXCEPT ![self] = @ \cup {key}]

-----------------------------------------------------------------------------
(* Sessions: op is the handler, step the next thing it does, the other     *)
(* fields its arguments (user: the acting user, other: a second user), the *)
(* row it has read (old...) and the offers it has found (found...)         *)

OpName == {"createShift", "updateShift", "deleteShift",
           "createTrade", "acceptTrade", "rejectTrade", "cancelTrade",
           "createRequest", "acceptRequest", "rejectRequest",
           "cancelRequest", "createLeave", "setLeaveStatus", "expireLeaves",
           "clockIn", "clockOut"}

Step == {"idle", "read", "lock", "users", "check", "insertShift", "find", "write"}

SessionState ==
  [op : OpName \cup {"none"}, step : Step, user : MaybeUser,
   other : MaybeUser, cinema : MaybeCinema, shift : MaybeShift,
   item : TradeId \cup RequestId \cup LeaveId \cup EntryId \cup {None},
   ivl : MaybeInterval, status : LeaveStatus, oldUser : MaybeUser,
   oldIvl : MaybeInterval, oldStatus : LeaveStatus,
   foundTrades : SUBSET TradeId, foundRequests : SUBSET RequestId]

Idle == [op |-> "none", step |-> "idle", user |-> None, other |-> None,
         cinema |-> None, shift |-> None, item |-> None, ivl |-> NoInterval,
         status |-> "unused", oldUser |-> None, oldIvl |-> NoInterval,
         oldStatus |-> "unused", foundTrades |-> {}, foundRequests |-> {}]

At(self, op, step) == sess[self].op = op /\ sess[self].step = step

Begin(self, state) ==
  /\ state.op \in Ops
  /\ sess[self] = Idle
  /\ sess' = [sess EXCEPT ![self] = state]

Goto(self, step) == sess' = [sess EXCEPT ![self].step = step]

\* COMMIT, ROLLBACK or the end of a handler: its locks go with it.
Finish(self) ==
  /\ sess' = [sess EXCEPT ![self] = Idle]
  /\ held' = [held EXCEPT ![self] = {}]

\* A failed check: the exception aborts the transaction.
Rollback(self) == Finish(self) /\ UNCHANGED <<tables, now>>

\* A step that only reads: it goes on when ok holds and aborts otherwise.
Check(self, ok, step) ==
  \/ ok /\ Goto(self, step) /\ UNCHANGED <<tables, now, held>>
  \/ ~ok /\ Rollback(self)

-----------------------------------------------------------------------------
(* Checks the handlers share *)

ShiftConflict(u, i, except) ==
  \E s \in ShiftId \ {except} :
    LiveShift(s) /\ shifts[s].user = u /\ Overlap(shifts[s].ivl, i)

ApprovedLeave(u, c, i) ==
  \E l \in LeaveId :
    /\ leaves[l].status = "APPROVED"
    /\ leaves[l].user = u
    /\ leaves[l].cinema = c
    /\ Overlap(leaves[l].ivl, i)

\* checkShiftConflicts: shifts of every cinema, leave of this one.
Conflicts(u, c, i, except) == ShiftConflict(u, i, except) \/ ApprovedLeave(u, c, i)

\* assertShiftHasNoActiveTimeEntry throws: the shift is frozen.
ActiveTimeEntry(s) ==
  \E e \in EntryId : entries[e].status # "unused" /\ entries[e].shift = s

OpenTrade(t) == trades[t].status = "OPEN"
PendingRequest(r) == requests[r].status = "PENDING"

OpenTradesOn(s) == {t \in TradeId : OpenTrade(t) /\ trades[t].shift = s}
PendingRequestsOn(s) == {r \in RequestId : PendingRequest(r) /\ requests[r].shift = s}

\* A handler looks up the offers it will close.
Find(self, ts, rs) ==
  /\ sess' = [sess EXCEPT ![self].step = "write", ![self].foundTrades = ts,
                          ![self].foundRequests = rs]
  /\ UNCHANGED <<tables, now, held>>

\* resolveOpenShiftLinkedActions, its updates: of the offers of shift s, those
\* that were found and are still open are cancelled.  The caller passes the
\* shift id the rows keep: s itself, or None when s is deleted (ON DELETE
\* SET NULL, for every row of the shift, found or not).
ResolveTrades(s, found, keep) ==
  [t \in TradeId |->
     IF trades[t].shift # s THEN trades[t]
     ELSE [trades[t] EXCEPT !.shift = keep,
             !.status = IF t \in found /\ @ = "OPEN" THEN "CANCELLED" ELSE @]]

ResolveRequests(s, found, keep) ==
  [r \in RequestId |->
     IF requests[r].shift # s THEN requests[r]
     ELSE [requests[r] EXCEPT !.shift = keep,
             !.status = IF r \in found /\ @ = "PENDING" THEN "CANCELLED" ELSE @]]

InsertShift(s, u, c, i) ==
  /\ First(s, UnusedShiftIds)
  /\ shifts' = [shifts EXCEPT ![s] =
       [state |-> "live", user |-> u, cinema |-> c, ivl |-> i]]

-----------------------------------------------------------------------------
StoreInit ==
  /\ shifts = [s \in ShiftId |-> UnusedShift]
  /\ trades = [t \in TradeId |-> UnusedTrade]
  /\ requests = [r \in RequestId |-> UnusedRequest]
  /\ leaves = [l \in LeaveId |-> UnusedLeave]
  /\ entries = [e \in EntryId |-> UnusedEntry]
  /\ now = 0
  /\ held = [p \in Session |-> {}]
  /\ sess = [p \in Session |-> Idle]

\* The process dies, the connection is lost, or the interactive transaction
\* times out: whatever was not committed is gone and the locks are free.
Crash(self) == sess[self] # Idle /\ Rollback(self)

Tick ==
  /\ now < MaxTime
  /\ now' = now + 1
  /\ UNCHANGED <<tables, held, sess>>

StoreTypeOK ==
  /\ shifts \in [ShiftId -> ShiftRow]
  /\ trades \in [TradeId -> TradeRow]
  /\ requests \in [RequestId -> RequestRow]
  /\ leaves \in [LeaveId -> LeaveRow]
  /\ entries \in [EntryId -> EntryRow]
  /\ now \in 0 .. MaxTime
  /\ held \in [Session -> SUBSET LockKey]
  /\ sess \in [Session -> SessionState]
=============================================================================
