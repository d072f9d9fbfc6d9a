------------------------ MODULE ShiftAssignmentProofs ------------------------
(***************************************************************************)
(* The types of every column and session, and trading, for any number of    *)
(* users, shifts, trades and concurrent requests, whatever edits, staffing   *)
(* requests, absences and clock-ins run beside it: a shift has at most one   *)
(* open trade, nobody takes what he has declined, and the whole implements   *)
(* the ledger of TradeLedger.                                                *)
(***************************************************************************)
EXTENDS ShiftAssignment, TLAPS

-----------------------------------------------------------------------------
(* The type invariant is not inductive: a lock key or a decline is well     *)
(* typed because the handler that makes it was given, or has read, an id    *)
(* that is not NULL.                                                          *)

SessionOK(a) ==
  /\ a.op \in {"acceptTrade", "rejectTrade", "acceptRequest",
               "rejectRequest", "createLeave", "clockIn", "createTrade"}
       => a.user \in User
  /\ a.op \in {"createTrade", "acceptTrade", "acceptRequest", "clockIn"} => a.shift \in ShiftId
  /\ a.op = "rejectTrade" /\ a.step = "lock" => a.shift \in ShiftId
  /\ a.op \in {"createShift", "createLeave", "clockIn"} => a.cinema \in Cinema
  /\ a.op = "createRequest" /\ a.step = "insertShift" => a.cinema \in Cinema
  /\ a.op \in {"acceptTrade", "rejectTrade", "cancelTrade"} => a.item \in TradeId
  /\ a.op \in {"acceptRequest", "rejectRequest", "cancelRequest"} => a.item \in RequestId
  /\ a.op = "clockOut" => a.item \in EntryId
  /\ a.op = "setLeaveStatus" =>
       /\ a.status \in LeaveStatus \ {"unused"}
       /\ a.item \in LeaveId
       /\ a.step # "read" => a.oldUser \in User

\* A live shift has a cinema; a leave has an employee; the status of a leave
\* is only changed when there is one.
RowsOK ==
  /\ \A s \in ShiftId : shifts[s].state = "live" => shifts[s].cinema \in Cinema
  /\ \A l \in LeaveId : leaves[l].status # "unused" => leaves[l].user \in User
  /\ \A p \in Session :
       sess[p].op = "setLeaveStatus" => leaves[sess[p].item].status # "unused"

TypeInv == TypeOK /\ RowsOK /\ \A p \in Session : SessionOK(sess[p])

USE DEF None

\* NULL is no id.
LEMMA IdsAreNotNull ==
  /\ None \notin User /\ None \notin Cinema /\ None \notin ShiftId
  /\ None \notin TradeId /\ None \notin RequestId /\ None \notin LeaveId
  /\ None \notin EntryId
  /\ Qualified \subseteq User
BY IdAssumption

\* A session at rest is well typed.
LEMMA IdleTyped == Idle \in SessionState /\ SessionOK(Idle)
BY DEF Idle, SessionState, SessionOK, OpName, Step, MaybeUser, MaybeCinema,
       MaybeShift, MaybeInterval, NoInterval, LeaveStatus

\* Ending a handler keeps everything typed but the tables it has written.
LEMMA FinishTyped ==
  ASSUME TypeInv, NEW self \in Session, Finish(self)
  PROVE  /\ sess' \in [Session -> SessionState]
         /\ held' \in [Session -> SUBSET LockKey]
         /\ \A p \in Session : SessionOK(sess'[p])
         /\ \A p \in Session : sess'[p].op = "setLeaveStatus" => sess'[p] = sess[p]
<1>1. Idle.op = "none"
  BY DEF Idle
<1>2. QED
  BY <1>1, IdleTyped DEF TypeInv, TypeOK, StoreTypeOK, Finish

\* A refused request leaves the tables alone.
LEMMA RollbackTyped ==
  ASSUME TypeInv, NEW self \in Session, Rollback(self)
  PROVE  TypeInv'
<1>1. Finish(self) /\ UNCHANGED <<tables, now>>
  BY DEF Rollback
<1>2. TypeOK'
  BY <1>1, FinishTyped DEF TypeInv, TypeOK, StoreTypeOK, tables
<1>3. RowsOK'
  BY <1>1, FinishTyped DEF TypeInv, RowsOK, tables
<1>4. QED
  BY <1>1, <1>2, <1>3, FinishTyped DEF TypeInv

\* A session that goes on with the same request stays well typed.
LEMMA GotoTyped ==
  ASSUME TypeInv, NEW self \in Session, NEW step \in {"check", "find", "write"},
         Goto(self, step), sess[self].step # "read", UNCHANGED <<tables, now>>,
         held' \in [Session -> SUBSET LockKey]
  PROVE  TypeInv'
<1> DEFINE b == [sess[self] EXCEPT !.step = step]
<1>a. sess[self] \in SessionState
  BY DEF TypeInv, TypeOK, StoreTypeOK
<1>b. b \in SessionState
  BY <1>a DEF SessionState, Step
<1>c. sess' = [sess EXCEPT ![self] = b]
  BY DEF Goto
<1>1. sess' \in [Session -> SessionState]
  <2> HIDE DEF b
  <2> QED BY <1>b, <1>c DEF TypeInv, TypeOK, StoreTypeOK
<1>2. \A p \in Session : SessionOK(sess'[p]) /\ sess'[p].op = sess[p].op
                         /\ sess'[p].item = sess[p].item
  BY DEF TypeInv, TypeOK, StoreTypeOK, Goto, SessionState, SessionOK
<1>3. QED
  BY <1>1, <1>2 DEF TypeInv, TypeOK, StoreTypeOK, RowsOK, tables

\* A handler that begins in a well-formed state, with or without a lock.
LEMMA BeginTyped ==
  ASSUME TypeInv, NEW self \in Session, NEW a \in SessionState, Begin(self, a),
         SessionOK(a), UNCHANGED <<tables, now>>,
         held' \in [Session -> SUBSET LockKey],
         a.op = "setLeaveStatus" => leaves[a.item].status # "unused"
  PROVE  TypeInv'
<1>1. sess' \in [Session -> SessionState] /\ \A p \in Session : SessionOK(sess'[p])
  BY DEF TypeInv, TypeOK, StoreTypeOK, Begin
<1>2. QED
  BY <1>1 DEF TypeInv, TypeOK, StoreTypeOK, RowsOK, tables, Begin

\* Taking a lock adds it to those held.
LEMMA AcquireTyped ==
  ASSUME TypeInv, NEW self \in Session, NEW key \in LockKey, Acquire(self, key)
  PROVE  held' \in [Session -> SUBSET LockKey]
BY DEF TypeInv, TypeOK, StoreTypeOK, Acquire

\* A check that passes or fails.
LEMMA CheckTyped ==
  ASSUME TypeInv, NEW self \in Session, sess[self].step # "read",
         NEW step \in {"find", "write"},
         \/ Goto(self, step) /\ UNCHANGED <<tables, now, held>>
         \/ Rollback(self)
  PROVE  TypeInv'
BY GotoTyped, RollbackTyped DEF TypeInv, TypeOK, StoreTypeOK

\* A handler that remembers the offers it has found.
LEMMA FindTyped ==
  ASSUME TypeInv, NEW self \in Session, sess[self].step \notin {"read", "insertShift", "lock"},
         NEW ts \in SUBSET TradeId, NEW rs \in SUBSET RequestId, Find(self, ts, rs)
  PROVE  TypeInv'
<1> DEFINE b == [sess[self] EXCEPT !.step = "write", !.foundTrades = ts, !.foundRequests = rs]
<1>a. sess[self] \in SessionState /\ SessionOK(sess[self])
  BY DEF TypeInv, TypeOK, StoreTypeOK
<1>b. /\ b \in SessionState /\ b.op = sess[self].op /\ b.item = sess[self].item
      /\ b.user = sess[self].user /\ b.shift = sess[self].shift
      /\ b.cinema = sess[self].cinema /\ b.status = sess[self].status
      /\ b.oldUser = sess[self].oldUser /\ b.step = "write"
  BY <1>a DEF SessionState, Step
<1>c. sess' = [sess EXCEPT ![self] = b] /\ UNCHANGED <<tables, now, held>>
  BY DEF Find
<1> HIDE DEF b
<1>1. SessionOK(b)
  BY <1>a, <1>b DEF SessionOK
<1>2. sess' \in [Session -> SessionState]
  BY <1>b, <1>c DEF TypeInv, TypeOK, StoreTypeOK
<1>3. /\ \A p \in Session : SessionOK(sess'[p])
      /\ \A p \in Session : sess'[p].op = sess[p].op /\ sess'[p].item = sess[p].item
  BY <1>1, <1>b, <1>c DEF TypeInv, TypeOK, StoreTypeOK
<1> QED BY <1>2, <1>3, <1>c DEF TypeInv, TypeOK, StoreTypeOK, RowsOK, tables

\* The lock a handler waits for before its check.
LEMMA LockTyped ==
  ASSUME TypeInv, NEW self \in Session, NEW key \in LockKey,
         sess[self].step # "read", Acquire(self, key), Goto(self, "check"),
         UNCHANGED <<tables, now>>
  PROVE  TypeInv'
BY GotoTyped, AcquireTyped

\* A handler that ends by writing well-typed rows.
LEMMA CommitTyped ==
  ASSUME TypeInv, NEW self \in Session, Finish(self), now' = now,
         shifts' \in [ShiftId -> ShiftRow], trades' \in [TradeId -> TradeRow],
         requests' \in [RequestId -> RequestRow],
         leaves' \in [LeaveId -> LeaveRow], entries' \in [EntryId -> EntryRow],
         \A s \in ShiftId : shifts'[s].state = "live" => shifts'[s].cinema \in Cinema,
         \A l \in LeaveId : leaves'[l].status # "unused" => leaves'[l].user \in User,
         \A l \in LeaveId : leaves[l].status # "unused" => leaves'[l].status # "unused"
  PROVE  TypeInv'
<1>1. TypeOK'
  BY FinishTyped DEF TypeInv, TypeOK, StoreTypeOK
<1>2. RowsOK'
  BY FinishTyped DEF TypeInv, RowsOK, SessionOK
<1>3. QED
  BY <1>1, <1>2, FinishTyped DEF TypeInv

\* The offers a shift takes with it keep their types.
LEMMA ResolveTyped ==
  ASSUME TypeInv, NEW s \in ShiftId, NEW keep \in MaybeShift, NEW ts, NEW rs
  PROVE  /\ ResolveTrades(s, ts, keep) \in [TradeId -> TradeRow]
         /\ ResolveRequests(s, rs, keep) \in [RequestId -> RequestRow]
<1>1. ASSUME NEW t \in TradeId
      PROVE  [trades[t] EXCEPT !.shift = keep,
               !.status = IF t \in ts /\ @ = "OPEN" THEN "CANCELLED" ELSE @] \in TradeRow
  <2>1. trades[t] \in TradeRow
    BY DEF TypeInv, TypeOK, StoreTypeOK
  <2>2. QED
    BY <2>1 DEF TradeRow, TradeStatus
<1>2. ASSUME NEW r \in RequestId
      PROVE  [requests[r] EXCEPT !.shift = keep,
               !.status = IF r \in rs /\ @ = "PENDING" THEN "CANCELLED" ELSE @] \in RequestRow
  <2>1. requests[r] \in RequestRow
    BY DEF TypeInv, TypeOK, StoreTypeOK
  <2>2. QED
    BY <2>1 DEF RequestRow, RequestStatus
<1>3. QED
  BY <1>1, <1>2 DEF TypeInv, TypeOK, StoreTypeOK, ResolveTrades, ResolveRequests

\* The shift table after an INSERT.
LEMMA InsertTyped ==
  ASSUME TypeInv, NEW s \in ShiftId, NEW u \in MaybeUser, NEW c \in Cinema,
         NEW i \in MaybeInterval, InsertShift(s, u, c, i)
  PROVE  /\ shifts' \in [ShiftId -> ShiftRow]
         /\ \A r \in ShiftId : shifts'[r].state = "live" => shifts'[r].cinema \in Cinema
<1> DEFINE row == [state |-> "live", user |-> u, cinema |-> c, ivl |-> i]
<1>1. row \in ShiftRow /\ row.cinema \in Cinema
  BY DEF ShiftRow, MaybeCinema
<1>2. shifts' = [shifts EXCEPT ![s] = row]
  BY DEF InsertShift
<1> HIDE DEF row
<1>3. QED
  BY <1>1, <1>2 DEF TypeInv, TypeOK, StoreTypeOK, RowsOK

\* The shift table after a shift gets a new assignee and period.
LEMMA EditTyped ==
  ASSUME TypeInv, NEW s \in ShiftId, NEW u \in MaybeUser, NEW i \in MaybeInterval,
         shifts' = [shifts EXCEPT ![s].user = u, ![s].ivl = i]
  PROVE  /\ shifts' \in [ShiftId -> ShiftRow]
         /\ \A r \in ShiftId : shifts'[r].state = "live" => shifts'[r].cinema \in Cinema
<1> DEFINE row == [shifts[s] EXCEPT !.user = u, !.ivl = i]
<1>1. shifts[s] \in ShiftRow
  BY DEF TypeInv, TypeOK, StoreTypeOK
<1>2. row \in ShiftRow /\ row.cinema = shifts[s].cinema /\ row.state = shifts[s].state
  BY <1>1 DEF ShiftRow
<1>3. shifts' = [shifts EXCEPT ![s] = row]
  BY DEF TypeInv, TypeOK, StoreTypeOK
<1> HIDE DEF row
<1>4. QED
  BY <1>2, <1>3 DEF TypeInv, TypeOK, StoreTypeOK, RowsOK

\* The shift table after a shift gets a new assignee.
LEMMA AssignTyped ==
  ASSUME TypeInv, NEW s \in ShiftId, NEW u \in MaybeUser,
         shifts' = [shifts EXCEPT ![s].user = u]
  PROVE  /\ shifts' \in [ShiftId -> ShiftRow]
         /\ \A r \in ShiftId : shifts'[r].state = "live" => shifts'[r].cinema \in Cinema
<1> DEFINE row == [shifts[s] EXCEPT !.user = u]
<1>1. shifts[s] \in ShiftRow
  BY DEF TypeInv, TypeOK, StoreTypeOK
<1>2. row \in ShiftRow /\ row.cinema = shifts[s].cinema /\ row.state = shifts[s].state
  BY <1>1 DEF ShiftRow
<1>3. shifts' = [shifts EXCEPT ![s] = row]
  OBVIOUS
<1> HIDE DEF row
<1>4. QED
  BY <1>2, <1>3 DEF TypeInv, TypeOK, StoreTypeOK, RowsOK

-----------------------------------------------------------------------------
(* Every action keeps the type invariant *)

\* The steps of the shift handlers keep the types.
LEMMA ShiftsTyped ==
  ASSUME TypeInv, NEW self \in Session, ShiftRequest(self) \/ ShiftStep(self)
  PROVE  TypeInv'
<1> USE IdsAreNotNull
<1>a. /\ sess[self] \in SessionState
      /\ SessionOK(sess[self])
      /\ sess[self].user \in MaybeUser /\ sess[self].oldUser \in MaybeUser
      /\ sess[self].shift \in MaybeShift /\ sess[self].ivl \in MaybeInterval
  BY DEF TypeInv, TypeOK, StoreTypeOK, SessionState
<1>1. ASSUME NEW u \in MaybeUser, NEW c \in Cinema, NEW i \in Interval,
             CreateShiftBegin(self, u, c, i)
      PROVE  TypeInv'
  <2> DEFINE a == [Idle EXCEPT !.op = "createShift", !.step = "check",
                               !.user = u, !.cinema = c, !.ivl = i]
  <2>1. a \in SessionState /\ SessionOK(a) /\ a.op = "createShift"
    <3>1. "createShift" \in OpName /\ "check" \in Step
      BY DEF OpName, Step
    <3>2. a \in SessionState
      BY <3>1, IdleTyped DEF SessionState, MaybeCinema, MaybeInterval
    <3>3. a.op = "createShift" /\ a.cinema = c
      BY DEF Idle
    <3> QED BY <3>2, <3>3 DEF SessionOK
  <2>2. held' \in [Session -> SUBSET LockKey]
    <3>1. CASE u # None /\ Acquire(self, UserLock(u))
      <4>1. UserLock(u) \in LockKey
        BY <3>1 DEF UserLock, LockKey, MaybeUser
      <4>2. QED
        BY <3>1, <4>1, AcquireTyped
    <3>2. CASE UNCHANGED held
      BY <3>2 DEF TypeInv, TypeOK, StoreTypeOK
    <3>3. QED
      BY <1>1, <3>1, <3>2 DEF CreateShiftBegin
  <2>3. Begin(self, a) /\ UNCHANGED <<tables, now>>
    BY <1>1 DEF CreateShiftBegin
  <2> HIDE DEF a
  <2>4. QED
    BY <2>1, <2>2, <2>3, BeginTyped
<1>2. CASE CreateShiftCheck(self)
  BY <1>2, CheckTyped DEF CreateShiftCheck, At, Check
<1>3. CASE CreateShiftCommit(self)
  <2>1. sess[self].cinema \in Cinema
    BY <1>a, <1>3 DEF CreateShiftCommit, At, SessionOK
  <2>2. ASSUME NEW s \in ShiftId,
               InsertShift(s, sess[self].user, sess[self].cinema, sess[self].ivl),
               Finish(self), UNCHANGED <<trades, requests, leaves, entries, now>>
        PROVE  TypeInv'
    BY <1>a, <2>1, <2>2, InsertTyped, CommitTyped DEF TypeInv, TypeOK, StoreTypeOK, RowsOK
  <2>3. QED
    BY <1>3, <2>2, RollbackTyped DEF CreateShiftCommit
<1>4. ASSUME NEW s \in ShiftId, NEW u \in MaybeUser, NEW i \in Interval,
             UpdateShiftBegin(self, s, u, i)
      PROVE  TypeInv'
  <2> DEFINE a == [Idle EXCEPT !.op = "updateShift", !.step = "read",
                               !.user = u, !.shift = s, !.ivl = i]
  <2>1. a \in SessionState /\ SessionOK(a) /\ a.op = "updateShift"
    <3>1. "updateShift" \in OpName /\ "read" \in Step
      BY DEF OpName, Step
    <3>2. a \in SessionState
      BY <3>1, IdleTyped DEF SessionState, MaybeShift, MaybeInterval
    <3>3. a.op = "updateShift"
      BY DEF Idle
    <3> QED BY <3>2, <3>3 DEF SessionOK
  <2>2. Begin(self, a) /\ UNCHANGED <<tables, now>> /\ Acquire(self, RecordLock(s))
    BY <1>4 DEF UpdateShiftBegin
  <2>3. RecordLock(s) \in LockKey
    BY DEF RecordLock, LockKey
  <2> HIDE DEF a
  <2>4. QED
    BY <2>1, <2>2, <2>3, BeginTyped, AcquireTyped
<1>5. CASE UpdateShiftRead(self)
  <2>1. ASSUME LiveShift(sess[self].shift),
               sess' = [sess EXCEPT ![self].step = "users",
                          ![self].oldUser = shifts[sess[self].shift].user,
                          ![self].oldIvl = shifts[sess[self].shift].ivl,
                          ![self].cinema = shifts[sess[self].shift].cinema],
               UNCHANGED <<tables, now, held>>
        PROVE  TypeInv'
    <3> DEFINE row == shifts[sess[self].shift]
    <3> DEFINE b == [sess[self] EXCEPT !.step = "users", !.oldUser = row.user,
                       !.oldIvl = row.ivl, !.cinema = row.cinema]
    <3>1. row \in ShiftRow
      BY <2>1 DEF LiveShift, TypeInv, TypeOK, StoreTypeOK
    <3>2. row.user \in MaybeUser /\ row.ivl \in MaybeInterval /\ row.cinema \in MaybeCinema
      BY <3>1 DEF ShiftRow
    <3>3. b \in SessionState /\ b.op = "updateShift"
      <4> HIDE DEF row
      <4>1. sess[self].op = "updateShift"
        BY <1>5 DEF UpdateShiftRead, At
      <4>2. QED
        BY <1>a, <3>2, <4>1 DEF SessionState, Step
    <3>4. SessionOK(b)
      BY <3>3 DEF SessionOK
    <3>5. sess' = [sess EXCEPT ![self] = b]
      BY <2>1 DEF TypeInv, TypeOK, StoreTypeOK
    <3> HIDE DEF b
    <3>a. sess \in [Session -> SessionState] /\ UNCHANGED <<tables, now, held>>
      BY <2>1 DEF TypeInv, TypeOK, StoreTypeOK
    <3>b. sess' \in [Session -> SessionState]
      BY <3>3, <3>5, <3>a
    <3>c. TypeOK'
      BY <3>a, <3>b DEF TypeInv, TypeOK, StoreTypeOK, tables
    <3>d. \A p \in Session : SessionOK(sess'[p])
      BY <3>4, <3>5, <3>a DEF TypeInv
    <3>7. \A p \in Session : sess'[p].op = "setLeaveStatus" => sess'[p] = sess[p]
      BY <3>3, <3>5 DEF TypeInv, TypeOK, StoreTypeOK
    <3>8. RowsOK'
      BY <2>1, <3>7 DEF TypeInv, RowsOK, tables
    <3>9. QED
      BY <3>c, <3>d, <3>8 DEF TypeInv
  <2>2. QED
    BY <1>5, <2>1, RollbackTyped DEF UpdateShiftRead
<1>6. ASSUME NEW u \in User, UpdateShiftLockUser(self, u)
      PROVE  TypeInv'
  <2>1. UserLock(u) \in LockKey
    BY DEF UserLock, LockKey
  <2>2. held' \in [Session -> SUBSET LockKey] /\ UNCHANGED <<tables, now, sess>>
    BY <1>6, <2>1, AcquireTyped DEF UpdateShiftLockUser
  <2>3. QED
    BY <2>2 DEF TypeInv, TypeOK, StoreTypeOK, RowsOK, tables
<1>7. CASE UpdateShiftCheck(self)
  BY <1>7, CheckTyped DEF UpdateShiftCheck, At, Check
<1>f. ASSUME NEW s, NEW ts \in SUBSET OpenTradesOn(s), NEW rs \in SUBSET PendingRequestsOn(s),
             sess[self].step = "find", Find(self, ts, rs)
      PROVE  TypeInv'
  <2>1. ts \in SUBSET TradeId /\ rs \in SUBSET RequestId
    BY DEF OpenTradesOn, PendingRequestsOn
  <2> QED BY <1>f, <2>1, FindTyped
<1>g. CASE UpdateShiftFind(self)
  BY <1>f, <1>g DEF UpdateShiftFind, At
<1>h. CASE DeleteShiftFind(self)
  BY <1>f, <1>h DEF DeleteShiftFind, At
<1>8. CASE UpdateShiftCommit(self)
  <2>1. ASSUME LiveShift(sess[self].shift), Finish(self),
               shifts' = [shifts EXCEPT ![sess[self].shift].user = sess[self].user,
                                        ![sess[self].shift].ivl = sess[self].ivl],
               trades' = ResolveTrades(sess[self].shift, sess[self].foundTrades,
                                       sess[self].shift),
               requests' = ResolveRequests(sess[self].shift, sess[self].foundRequests,
                                           sess[self].shift),
               UNCHANGED <<leaves, entries, now>>
        PROVE  TypeInv'
    <3>1. sess[self].shift \in ShiftId
      BY <2>1 DEF LiveShift
    <3>2. trades' \in [TradeId -> TradeRow] /\ requests' \in [RequestId -> RequestRow]
      BY <1>a, <2>1, <3>1, ResolveTyped DEF TypeInv, TypeOK, StoreTypeOK
    <3>3. QED
      BY <1>a, <2>1, <3>1, <3>2, EditTyped, CommitTyped
         DEF TypeInv, TypeOK, StoreTypeOK, RowsOK
  <2>2. QED
    BY <1>8, <2>1, RollbackTyped DEF UpdateShiftCommit
<1>9. ASSUME NEW s \in ShiftId, DeleteShiftBegin(self, s)
      PROVE  TypeInv'
  <2> DEFINE a == [Idle EXCEPT !.op = "deleteShift", !.step = "check", !.shift = s]
  <2>1. a \in SessionState /\ SessionOK(a) /\ a.op = "deleteShift"
    BY IdleTyped DEF Idle, SessionState, SessionOK, OpName, Step, MaybeShift
  <2>2. Begin(self, a) /\ UNCHANGED <<tables, now>> /\ Acquire(self, RecordLock(s))
    BY <1>9 DEF DeleteShiftBegin
  <2>3. RecordLock(s) \in LockKey
    BY DEF RecordLock, LockKey
  <2> HIDE DEF a
  <2>4. QED
    BY <2>1, <2>2, <2>3, BeginTyped, AcquireTyped
<1>10. CASE DeleteShiftCheck(self)
  BY <1>10, CheckTyped DEF DeleteShiftCheck, At, Check
<1>11. CASE DeleteShiftCommit(self)
  <2> DEFINE s == sess[self].shift
             gone == [UnusedShift EXCEPT !.state = "deleted"]
  <2>1. ASSUME LiveShift(s), shifts' = [shifts EXCEPT ![s] = gone],
               trades' = ResolveTrades(s, sess[self].foundTrades, None),
               requests' = ResolveRequests(s, sess[self].foundRequests, None),
               entries' = [e \in EntryId |->
                  IF entries[e].shift = s
                  THEN [entries[e] EXCEPT !.shift = None] ELSE entries[e]],
               Finish(self), UNCHANGED <<leaves, now>>
        PROVE  TypeInv'
    <3>1. s \in ShiftId /\ None \in MaybeShift
      BY <2>1 DEF LiveShift, MaybeShift
    <3>2. gone \in ShiftRow /\ gone.state # "live"
      BY DEF UnusedShift, ShiftRow, MaybeUser, MaybeCinema, MaybeInterval
    <3>3. /\ shifts' \in [ShiftId -> ShiftRow]
          /\ \A r \in ShiftId : shifts'[r].state = "live" => shifts'[r].cinema \in Cinema
      <4> HIDE DEF gone, s
      <4>1. QED
        BY <2>1, <3>2 DEF TypeInv, TypeOK, StoreTypeOK, RowsOK
    <3>4. entries' \in [EntryId -> EntryRow]
      <4>1. \A e \in EntryId : /\ entries[e] \in EntryRow
                               /\ [entries[e] EXCEPT !.shift = None] \in EntryRow
        BY <3>1 DEF TypeInv, TypeOK, StoreTypeOK, EntryRow
      <4>2. QED
        BY <2>1, <4>1
    <3>5. QED
      BY <2>1, <3>1, <3>3, <3>4, ResolveTyped, CommitTyped
         DEF TypeInv, TypeOK, StoreTypeOK, RowsOK
  <2>2. QED
    BY <1>11, <2>1, RollbackTyped DEF DeleteShiftCommit
<1>12. QED
  BY <1>1, <1>2, <1>3, <1>4, <1>5, <1>6, <1>7, <1>8, <1>9, <1>10, <1>11, <1>g, <1>h
     DEF ShiftRequest, ShiftStep

\* The steps of the trade handlers keep the types.
LEMMA TradesTyped ==
  ASSUME TypeInv, NEW self \in Session, TradeRequest(self) \/ TradeStep(self)
  PROVE  TypeInv'
<1> USE IdsAreNotNull
<1>a. /\ sess[self] \in SessionState
      /\ SessionOK(sess[self])
      /\ sess[self].user \in MaybeUser /\ sess[self].other \in MaybeUser
      /\ sess[self].shift \in MaybeShift
      /\ trades \in [TradeId -> TradeRow]
      /\ \A t \in TradeId : trades[t] \in TradeRow
      /\ \A t \in TradeId : trades[t].shift \in MaybeShift
      /\ \A t \in TradeId : trades[t].offeredBy \in MaybeUser
      /\ held \in [Session -> SUBSET LockKey]
  BY DEF TypeInv, TypeOK, StoreTypeOK, SessionState, TradeRow
<1>b. \A t \in TradeId, row \in TradeRow :
        [trades EXCEPT ![t] = row] \in [TradeId -> TradeRow]
  BY <1>a
<1>1. ASSUME NEW u \in User, NEW s \in ShiftId, NEW target \in MaybeUser,
             CreateTradeBegin(self, u, s, target)
      PROVE  TypeInv'
  <2> DEFINE a == [Idle EXCEPT !.op = "createTrade", !.step = "check",
                     !.user = u, !.other = target, !.shift = s]
  <2>1. a \in SessionState /\ SessionOK(a) /\ a.op = "createTrade"
    <3>1. "createTrade" \in OpName /\ "check" \in Step
      BY DEF OpName, Step
    <3>2. a \in SessionState
      BY <3>1, IdleTyped DEF SessionState, MaybeUser, MaybeShift
    <3>3. a.op = "createTrade" /\ a.user = u /\ a.shift = s
      BY DEF Idle
    <3> QED BY <3>2, <3>3 DEF SessionOK
  <2>2. Begin(self, a) /\ UNCHANGED <<tables, now>> /\ Acquire(self, OfferLock(s))
    BY <1>1 DEF CreateTradeBegin
  <2>3. OfferLock(s) \in LockKey
    BY DEF OfferLock, LockKey
  <2> HIDE DEF a
  <2>4. QED
    BY <2>1, <2>2, <2>3, BeginTyped, AcquireTyped
<1>2. CASE CreateTradeCheck(self)
  BY <1>2, CheckTyped DEF CreateTradeCheck, At, Check
<1>3. CASE CreateTradeCommit(self)
  <2> DEFINE row == [status |-> "OPEN", shift |-> sess[self].shift,
                     offeredBy |-> sess[self].user, target |-> sess[self].other,
                     acceptedBy |-> None, declines |-> {}]
  <2>1. row \in TradeRow
    BY <1>a DEF TradeRow, TradeStatus, MaybeUser
  <2>2. ASSUME NEW t \in TradeId, trades' = [trades EXCEPT ![t] = row], Finish(self),
               UNCHANGED <<shifts, requests, leaves, entries, now>>
        PROVE  TypeInv'
    <3> HIDE DEF row
    <3>1. trades' \in [TradeId -> TradeRow]
      BY <1>b, <2>1, <2>2
    <3>2. QED
      BY <2>2, <3>1, CommitTyped DEF TypeInv, TypeOK, StoreTypeOK, RowsOK
  <2>3. QED
    BY <1>3, <2>2, RollbackTyped DEF CreateTradeCommit
<1>4. ASSUME NEW u \in User, NEW t \in TradeId, AcceptTradeBegin(self, u, t)
      PROVE  TypeInv'
  <2> DEFINE a == [Idle EXCEPT !.op = "acceptTrade", !.step = "lock",
                     !.user = u, !.item = t, !.shift = trades[t].shift]
  <2>a. trades[t].shift \in ShiftId
    BY <1>4, <1>a DEF AcceptTradeBegin, MaybeShift
  <2>b. a \in SessionState
    <3>1. "acceptTrade" \in OpName /\ "lock" \in Step
      BY DEF OpName, Step
    <3> QED BY <1>a, <3>1, IdleTyped DEF SessionState, MaybeUser
  <2>1. a \in SessionState /\ SessionOK(a) /\ a.op = "acceptTrade"
    <3>1. a.op = "acceptTrade" /\ a.user = u /\ a.item = t /\ a.shift = trades[t].shift
      BY DEF Idle
    <3> QED BY <2>a, <2>b, <3>1 DEF SessionOK
  <2>2. Begin(self, a) /\ UNCHANGED <<tables, now, held>>
    BY <1>4 DEF AcceptTradeBegin
  <2> HIDE DEF a
  <2>3. QED
    BY <1>a, <2>1, <2>2, BeginTyped
<1>5. CASE AcceptTradeLock(self)
  <2>1. RecordLock(sess[self].shift) \in LockKey
    BY <1>5, <1>a DEF AcceptTradeLock, At, SessionOK, RecordLock, LockKey
  <2>2. QED
    BY <1>5, <2>1, LockTyped DEF AcceptTradeLock, At
<1>6. CASE AcceptTradeCheck(self)
  BY <1>6, CheckTyped DEF AcceptTradeCheck, At, Check
<1>7. CASE AcceptTradeCommit(self)
  <2> DEFINE t == sess[self].item
             u == sess[self].user
             row == [trades[t] EXCEPT !.status = "ACCEPTED", !.acceptedBy = u]
  <2>1. t \in TradeId /\ u \in MaybeUser
    BY <1>7, <1>a DEF AcceptTradeCommit, At, SessionOK
  <2>2. row \in TradeRow
    BY <1>a, <2>1 DEF TradeRow, TradeStatus
  <2>3. ASSUME LiveShift(sess[self].shift),
               trades' = [trades EXCEPT ![t].status = "ACCEPTED", ![t].acceptedBy = u],
               shifts' = [shifts EXCEPT ![sess[self].shift].user = u],
               Finish(self), UNCHANGED <<requests, leaves, entries, now>>
        PROVE  TypeInv'
    <3>1. trades' = [trades EXCEPT ![t] = row]
      BY <1>a, <2>1, <2>3
    <3> HIDE DEF row, t, u
    <3>2. trades' \in [TradeId -> TradeRow]
      BY <1>b, <2>1, <2>2, <3>1
    <3>3. /\ shifts' \in [ShiftId -> ShiftRow]
          /\ \A r \in ShiftId : shifts'[r].state = "live" => shifts'[r].cinema \in Cinema
      BY <2>1, <2>3, AssignTyped DEF LiveShift
    <3>4. QED
      BY <2>3, <3>2, <3>3, CommitTyped DEF TypeInv, TypeOK, StoreTypeOK, RowsOK
  <2>4. QED
    BY <1>7, <2>3, RollbackTyped DEF AcceptTradeCommit
<1>8. ASSUME NEW u \in User, NEW t \in TradeId, RejectTradeBegin(self, u, t)
      PROVE  TypeInv'
  <2> DEFINE st == IF Pool(t) THEN "lock" ELSE "write"
             a == [Idle EXCEPT !.op = "rejectTrade", !.step = st,
                     !.user = u, !.item = t, !.shift = trades[t].shift]
  <2>a. Pool(t) => trades[t].shift \in ShiftId
    BY <1>8, <1>a DEF RejectTradeBegin, MaybeShift
  <2>b. "rejectTrade" \in OpName /\ st \in Step
    BY DEF OpName, Step
  <2>c. a \in SessionState
    <3> HIDE DEF st
    <3>1. QED
      BY <1>a, <2>b, IdleTyped DEF SessionState, MaybeUser
  <2>1. a \in SessionState /\ SessionOK(a) /\ a.op = "rejectTrade"
    BY <2>a, <2>c DEF Idle, SessionOK
  <2>2. Begin(self, a) /\ UNCHANGED <<tables, now, held>>
    BY <1>8 DEF RejectTradeBegin
  <2> HIDE DEF a
  <2>3. QED
    BY <1>a, <2>1, <2>2, BeginTyped
<1>9. CASE RejectPoolTradeLock(self)
  <2>1. RecordLock(sess[self].shift) \in LockKey
    BY <1>9, <1>a DEF RejectPoolTradeLock, At, SessionOK, RecordLock, LockKey
  <2>2. QED
    BY <1>9, <2>1, LockTyped DEF RejectPoolTradeLock, At
<1>10. CASE RejectPoolTradeCheck(self)
  BY <1>10, CheckTyped DEF RejectPoolTradeCheck, At, Check
<1>11. CASE RejectPoolTradeCommit(self)
  <2> DEFINE t == sess[self].item
             row == [trades[t] EXCEPT !.declines = @ \cup {sess[self].user}]
  <2>1. t \in TradeId /\ sess[self].user \in User
    BY <1>11, <1>a DEF RejectPoolTradeCommit, At, SessionOK
  <2>2. row \in TradeRow
    BY <1>a, <2>1 DEF TradeRow
  <2>3. ASSUME trades' = [trades EXCEPT ![t].declines = @ \cup {sess[self].user}],
               Finish(self), UNCHANGED <<shifts, requests, leaves, entries, now>>
        PROVE  TypeInv'
    <3>1. trades' = [trades EXCEPT ![t] = row]
      BY <1>a, <2>1, <2>3
    <3> HIDE DEF row, t
    <3>2. trades' \in [TradeId -> TradeRow]
      BY <1>b, <2>1, <2>2, <3>1
    <3>3. QED
      BY <2>3, <3>2, CommitTyped DEF TypeInv, TypeOK, StoreTypeOK, RowsOK
  <2>4. QED
    BY <1>11, <2>3, RollbackTyped DEF RejectPoolTradeCommit
<1>12. ASSUME NEW status \in TradeStatus, sess[self].item \in TradeId,
              CloseTrade(self, sess[self].item, status)
       PROVE  TypeInv'
  <2> DEFINE t == sess[self].item
             row == [trades[t] EXCEPT !.status = status]
  <2>1. row \in TradeRow
    BY <1>a, <1>12 DEF TradeRow
  <2>2. ASSUME trades' = [trades EXCEPT ![t].status = status], Finish(self),
               UNCHANGED <<shifts, requests, leaves, entries, now>>
        PROVE  TypeInv'
    <3>1. trades' = [trades EXCEPT ![t] = row]
      BY <1>a, <1>12, <2>2
    <3> HIDE DEF row
    <3>2. trades' \in [TradeId -> TradeRow]
      BY <1>b, <1>12, <2>1, <3>1
    <3>3. QED
      BY <2>2, <3>2, CommitTyped DEF TypeInv, TypeOK, StoreTypeOK, RowsOK
  <2>3. QED
    BY <1>12, <2>2, RollbackTyped DEF CloseTrade
<1>13. CASE RejectDirectTradeCommit(self)
  BY <1>13, <1>12, <1>a DEF RejectDirectTradeCommit, At, SessionOK, TradeStatus
<1>14. ASSUME NEW t \in TradeId, CancelTradeBegin(self, t)
       PROVE  TypeInv'
  <2> DEFINE a == [Idle EXCEPT !.op = "cancelTrade", !.step = "write",
                     !.user = trades[t].offeredBy, !.item = t]
  <2>0. trades[t].offeredBy \in MaybeUser
    BY <1>a DEF TradeRow
  <2>1. a \in SessionState /\ SessionOK(a) /\ a.op = "cancelTrade"
    <3>1. "cancelTrade" \in OpName /\ "write" \in Step
      BY DEF OpName, Step
    <3>2. a \in SessionState
      BY <2>0, <3>1, IdleTyped DEF SessionState
    <3>3. a.op = "cancelTrade" /\ a.item = t
      BY DEF Idle
    <3> QED BY <3>2, <3>3 DEF SessionOK
  <2>2. Begin(self, a) /\ UNCHANGED <<tables, now, held>>
    BY <1>14 DEF CancelTradeBegin
  <2> HIDE DEF a
  <2>3. QED
    BY <1>a, <2>1, <2>2, BeginTyped
<1>15. CASE CancelTradeCommit(self)
  BY <1>15, <1>12, <1>a DEF CancelTradeCommit, At, SessionOK, TradeStatus
<1>16. QED
  BY <1>1, <1>2, <1>3, <1>4, <1>5, <1>6, <1>7, <1>8, <1>9, <1>10, <1>11,
     <1>13, <1>14, <1>15 DEF TradeRequest, TradeStep

\* The steps of the staffing handlers keep the types.
LEMMA StaffingTyped ==
  ASSUME TypeInv, NEW self \in Session, StaffingRequest(self) \/ StaffingStep(self)
  PROVE  TypeInv'
<1> USE IdsAreNotNull
<1>a. /\ sess[self] \in SessionState
      /\ SessionOK(sess[self])
      /\ sess[self].user \in MaybeUser /\ sess[self].other \in MaybeUser
      /\ sess[self].shift \in MaybeShift /\ sess[self].ivl \in MaybeInterval
      /\ requests \in [RequestId -> RequestRow]
      /\ \A r \in RequestId : requests[r] \in RequestRow
      /\ \A r \in RequestId : requests[r].shift \in MaybeShift
      /\ held \in [Session -> SUBSET LockKey]
  BY DEF TypeInv, TypeOK, StoreTypeOK, SessionState, RequestRow
<1>b. \A r \in RequestId, row \in RequestRow :
        [requests EXCEPT ![r] = row] \in [RequestId -> RequestRow]
  BY <1>a
<1>1. ASSUME NEW s \in ShiftId, NEW target \in MaybeUser,
             CreateRequestForShift(self, s, target)
      PROVE  TypeInv'
  <2> DEFINE a == [Idle EXCEPT !.op = "createRequest", !.step = "write",
                     !.other = target, !.shift = s]
  <2>1. a \in SessionState /\ SessionOK(a) /\ a.op = "createRequest"
    BY IdleTyped DEF Idle, SessionState, SessionOK, OpName, Step, MaybeShift
  <2>2. Begin(self, a) /\ UNCHANGED <<tables, now, held>>
    BY <1>1 DEF CreateRequestForShift
  <2> HIDE DEF a
  <2>3. QED
    BY <1>a, <2>1, <2>2, BeginTyped
<1>2. ASSUME NEW c \in Cinema, NEW i \in Interval, NEW target \in MaybeUser,
             CreateRequestForPeriod(self, c, i, target)
      PROVE  TypeInv'
  <2> DEFINE a == [Idle EXCEPT !.op = "createRequest", !.step = "insertShift",
                     !.other = target, !.cinema = c, !.ivl = i]
  <2>1. a \in SessionState /\ SessionOK(a) /\ a.op = "createRequest"
    <3>1. "createRequest" \in OpName /\ "insertShift" \in Step
      BY DEF OpName, Step
    <3>2. a \in SessionState
      BY <3>1, IdleTyped DEF SessionState, MaybeCinema, MaybeInterval
    <3>3. a.op = "createRequest" /\ a.cinema = c
      BY DEF Idle
    <3> QED BY <3>2, <3>3 DEF SessionOK
  <2>2. Begin(self, a) /\ UNCHANGED <<tables, now, held>>
    BY <1>2 DEF CreateRequestForPeriod
  <2> HIDE DEF a
  <2>3. QED
    BY <1>a, <2>1, <2>2, BeginTyped
<1>3. CASE CreateRequestInsertShift(self)
  <2>1. sess[self].cinema \in Cinema /\ sess[self].op = "createRequest"
    BY <1>3, <1>a DEF CreateRequestInsertShift, At, SessionOK
  <2>2. ASSUME NEW s \in ShiftId,
               InsertShift(s, None, sess[self].cinema, sess[self].ivl),
               sess' = [sess EXCEPT ![self].step = "write", ![self].shift = s],
               UNCHANGED <<trades, requests, leaves, entries, now, held>>
        PROVE  TypeInv'
    <3> DEFINE b == [sess[self] EXCEPT !.step = "write", !.shift = s]
    <3>1. b \in SessionState /\ b.op = "createRequest"
      BY <1>a, <2>1 DEF SessionState, Step, MaybeShift
    <3>2. SessionOK(b)
      BY <3>1 DEF SessionOK
    <3>3. sess \in [Session -> SessionState] /\ sess' = [sess EXCEPT ![self] = b]
      BY <2>2 DEF TypeInv, TypeOK, StoreTypeOK
    <3> HIDE DEF b
    <3>4. sess' \in [Session -> SessionState] /\ \A p \in Session : SessionOK(sess'[p])
      BY <3>1, <3>2, <3>3 DEF TypeInv
    <3>5. \A p \in Session : sess'[p].op = "setLeaveStatus" => sess'[p] = sess[p]
      BY <3>1, <3>3
    <3>6. None \in MaybeUser
      BY DEF MaybeUser
    <3>7. /\ shifts' \in [ShiftId -> ShiftRow]
          /\ \A r \in ShiftId : shifts'[r].state = "live" => shifts'[r].cinema \in Cinema
      BY <1>a, <2>1, <2>2, <3>6, InsertTyped
    <3>8. TypeOK'
      BY <2>2, <3>4, <3>7 DEF TypeInv, TypeOK, StoreTypeOK
    <3>9. RowsOK'
      BY <2>2, <3>5, <3>7 DEF TypeInv, RowsOK
    <3>10. QED
      BY <3>4, <3>8, <3>9 DEF TypeInv
  <2>3. QED
    BY <1>3, <2>2, RollbackTyped DEF CreateRequestInsertShift
<1>4. CASE CreateRequestCommit(self)
  <2> DEFINE row == [status |-> "PENDING", shift |-> sess[self].shift,
                     target |-> sess[self].other, acceptedBy |-> None,
                     declines |-> {}]
  <2>1. row \in RequestRow
    BY <1>a DEF RequestRow, RequestStatus, MaybeUser
  <2>2. ASSUME NEW r \in RequestId, requests' = [requests EXCEPT ![r] = row],
               Finish(self), UNCHANGED <<shifts, trades, leaves, entries, now>>
        PROVE  TypeInv'
    <3> HIDE DEF row
    <3>1. requests' \in [RequestId -> RequestRow]
      BY <1>b, <2>1, <2>2
    <3>2. QED
      BY <2>2, <3>1, CommitTyped DEF TypeInv, TypeOK, StoreTypeOK, RowsOK
  <2>3. QED
    BY <1>4, <2>2, RollbackTyped DEF CreateRequestCommit
<1>5. ASSUME NEW u \in User, NEW r \in RequestId, AcceptRequestBegin(self, u, r)
      PROVE  TypeInv'
  <2> DEFINE a == [Idle EXCEPT !.op = "acceptRequest", !.step = "lock",
                     !.user = u, !.item = r, !.shift = requests[r].shift]
  <2>1. requests[r].shift \in ShiftId
    BY <1>5, <1>a DEF AcceptRequestBegin, MaybeShift
  <2>2. a \in SessionState
    BY <1>a, IdleTyped DEF Idle, SessionState, OpName, Step, MaybeUser
  <2>3. SessionOK(a) /\ a.op = "acceptRequest"
    BY <2>1, <2>2 DEF Idle, SessionOK
  <2>4. Begin(self, a) /\ UNCHANGED <<tables, now, held>>
    BY <1>5 DEF AcceptRequestBegin
  <2> HIDE DEF a
  <2>5. QED
    BY <1>a, <2>2, <2>3, <2>4, BeginTyped
<1>6. CASE AcceptRequestLock(self)
  <2>1. RecordLock(sess[self].shift) \in LockKey
    BY <1>6, <1>a DEF AcceptRequestLock, At, SessionOK, RecordLock, LockKey
  <2>2. QED
    BY <1>6, <2>1, LockTyped DEF AcceptRequestLock, At
<1>7. CASE AcceptRequestCheck(self)
  BY <1>7, CheckTyped DEF AcceptRequestCheck, At, Check
<1>f. CASE AcceptRequestFind(self)
  <2>1. ASSUME NEW rs \in SUBSET RequestId, Find(self, {}, rs), sess[self].step = "find"
        PROVE  TypeInv'
    BY <2>1, FindTyped
  <2>2. PendingRequestsOn(sess[self].shift) \ {sess[self].item} \in SUBSET RequestId
    BY DEF PendingRequestsOn
  <2> QED BY <1>f, <2>1, <2>2 DEF AcceptRequestFind, At
<1>8. CASE AcceptRequestCommit(self)
  <2> DEFINE item == sess[self].item
             s == sess[self].shift
             u == sess[self].user
             row(r) == IF r = item
                       THEN [requests[r] EXCEPT !.status = "ACCEPTED", !.acceptedBy = u]
                       ELSE IF r \in sess[self].foundRequests /\ PendingRequest(r)
                       THEN [requests[r] EXCEPT !.status = "CANCELLED"]
                       ELSE requests[r]
  <2>1. ASSUME NEW r \in RequestId PROVE row(r) \in RequestRow
    <3>1. requests[r] \in RequestRow /\ u \in MaybeUser
      BY <1>a
    <3>2. [requests[r] EXCEPT !.status = "ACCEPTED", !.acceptedBy = u] \in RequestRow
      BY <3>1 DEF RequestRow, RequestStatus
    <3>3. [requests[r] EXCEPT !.status = "CANCELLED"] \in RequestRow
      BY <3>1 DEF RequestRow, RequestStatus
    <3>4. QED
      BY <3>1, <3>2, <3>3
  <2>2. ASSUME LiveShift(s), shifts' = [shifts EXCEPT ![s].user = u],
               requests' = [r \in RequestId |-> row(r)],
               Finish(self), UNCHANGED <<trades, leaves, entries, now>>
        PROVE  TypeInv'
    <3>1. requests' \in [RequestId -> RequestRow]
      <4> HIDE DEF row
      <4>1. QED
        BY <2>1, <2>2
    <3>2. /\ shifts' \in [ShiftId -> ShiftRow]
          /\ \A r \in ShiftId : shifts'[r].state = "live" => shifts'[r].cinema \in Cinema
      BY <1>a, <2>2, AssignTyped DEF LiveShift
    <3> HIDE DEF row, item, s, u
    <3>3. QED
      BY <2>2, <3>1, <3>2, CommitTyped DEF TypeInv, TypeOK, StoreTypeOK, RowsOK
  <2>3. QED
    BY <1>8, <2>2, RollbackTyped DEF AcceptRequestCommit
<1>9. ASSUME NEW u \in User, NEW r \in RequestId, RejectRequestBegin(self, u, r)
      PROVE  TypeInv'
  <2> DEFINE st == IF Broadcast(r) THEN "check" ELSE "write"
             a == [Idle EXCEPT !.op = "rejectRequest", !.step = st,
                     !.user = u, !.item = r]
  <2>1. st \in {"check", "write"}
    OBVIOUS
  <2>2. Begin(self, a) /\ UNCHANGED <<tables, now, held>>
    BY <1>9 DEF RejectRequestBegin
  <2> HIDE DEF st
  <2>3. a \in SessionState
    BY <1>a, <2>1, IdleTyped DEF Idle, SessionState, OpName, Step, MaybeUser
  <2>4. SessionOK(a) /\ a.op = "rejectRequest"
    BY <2>3 DEF Idle, SessionOK
  <2> HIDE DEF a
  <2>5. QED
    BY <1>a, <2>2, <2>3, <2>4, BeginTyped
<1>10. CASE RejectBroadcastCheck(self)
  BY <1>10, CheckTyped DEF RejectBroadcastCheck, At, Check
<1>11. CASE RejectBroadcastCommit(self)
  <2> DEFINE r == sess[self].item
             row == [requests[r] EXCEPT !.declines = @ \cup {sess[self].user}]
  <2>1. r \in RequestId /\ sess[self].user \in User
    BY <1>11, <1>a DEF RejectBroadcastCommit, At, SessionOK
  <2>2. row \in RequestRow
    BY <1>a, <2>1 DEF RequestRow
  <2>3. requests' = [requests EXCEPT ![r] = row]
    BY <1>11, <1>a, <2>1 DEF RejectBroadcastCommit
  <2> HIDE DEF row, r
  <2>4. requests' \in [RequestId -> RequestRow]
    BY <1>b, <2>1, <2>2, <2>3
  <2>5. QED
    BY <1>11, <2>4, CommitTyped
       DEF RejectBroadcastCommit, TypeInv, TypeOK, StoreTypeOK, RowsOK
<1>12. ASSUME NEW status \in RequestStatus, sess[self].item \in RequestId,
              CloseRequest(self, sess[self].item, status)
       PROVE  TypeInv'
  <2> DEFINE r == sess[self].item
             row == [requests[r] EXCEPT !.status = status]
  <2>1. row \in RequestRow
    BY <1>a, <1>12 DEF RequestRow
  <2>2. ASSUME requests' = [requests EXCEPT ![r].status = status], Finish(self),
               UNCHANGED <<shifts, trades, leaves, entries, now>>
        PROVE  TypeInv'
    <3>1. requests' = [requests EXCEPT ![r] = row]
      BY <1>a, <1>12, <2>2
    <3> HIDE DEF row
    <3>2. requests' \in [RequestId -> RequestRow]
      BY <1>b, <1>12, <2>1, <3>1
    <3>3. QED
      BY <2>2, <3>2, CommitTyped DEF TypeInv, TypeOK, StoreTypeOK, RowsOK
  <2>3. QED
    BY <1>12, <2>2, RollbackTyped DEF CloseRequest
<1>13. CASE RejectTargetedCommit(self)
  BY <1>13, <1>12, <1>a DEF RejectTargetedCommit, At, SessionOK, RequestStatus
<1>14. ASSUME NEW r \in RequestId, CancelRequestBegin(self, r)
       PROVE  TypeInv'
  <2> DEFINE a == [Idle EXCEPT !.op = "cancelRequest", !.step = "write", !.item = r]
  <2>1. a \in SessionState /\ SessionOK(a) /\ a.op = "cancelRequest"
    BY IdleTyped DEF Idle, SessionState, SessionOK, OpName, Step
  <2>2. Begin(self, a) /\ UNCHANGED <<tables, now, held>>
    BY <1>14 DEF CancelRequestBegin
  <2> HIDE DEF a
  <2>3. QED
    BY <1>a, <2>1, <2>2, BeginTyped
<1>15. CASE CancelRequestCommit(self)
  BY <1>15, <1>12, <1>a DEF CancelRequestCommit, At, SessionOK, RequestStatus
<1>16. QED
  BY <1>1, <1>2, <1>3, <1>4, <1>5, <1>6, <1>7, <1>8, <1>9, <1>10, <1>11,
     <1>13, <1>14, <1>15, <1>f DEF StaffingRequest, StaffingStep

\* The steps of the leave handlers keep the types.
LEMMA LeavesTyped ==
  ASSUME TypeInv, NEW self \in Session, LeaveRequest(self) \/ LeaveStep(self)
  PROVE  TypeInv'
<1> USE IdsAreNotNull
<1>a. /\ sess[self] \in SessionState
      /\ SessionOK(sess[self])
      /\ sess[self].user \in MaybeUser /\ sess[self].cinema \in MaybeCinema
      /\ sess[self].ivl \in MaybeInterval /\ sess[self].status \in LeaveStatus
      /\ leaves \in [LeaveId -> LeaveRow]
      /\ \A l \in LeaveId : leaves[l] \in LeaveRow
      /\ held \in [Session -> SUBSET LockKey]
  BY DEF TypeInv, TypeOK, StoreTypeOK, SessionState
<1>1. ASSUME NEW u \in User, NEW c \in Cinema, NEW i \in Interval,
             CreateLeaveBegin(self, u, c, i)
      PROVE  TypeInv'
  <2> DEFINE a == [Idle EXCEPT !.op = "createLeave", !.step = "check",
                     !.user = u, !.cinema = c, !.ivl = i]
  <2>1. a \in SessionState /\ SessionOK(a) /\ a.op = "createLeave"
    <3>1. "createLeave" \in OpName /\ "check" \in Step
      BY DEF OpName, Step
    <3>2. a \in SessionState
      BY <3>1, IdleTyped DEF SessionState, MaybeUser, MaybeCinema, MaybeInterval
    <3>3. a.op = "createLeave" /\ a.user = u /\ a.cinema = c
      BY DEF Idle
    <3> QED BY <3>2, <3>3 DEF SessionOK
  <2>2. Begin(self, a) /\ UNCHANGED <<tables, now>> /\ Acquire(self, LeaveUserLock(u))
    BY <1>1 DEF CreateLeaveBegin
  <2>3. LeaveUserLock(u) \in LockKey
    BY DEF LeaveUserLock, LockKey
  <2> HIDE DEF a
  <2>4. QED
    BY <2>1, <2>2, <2>3, BeginTyped, AcquireTyped
<1>2. CASE CreateLeaveCheck(self)
  BY <1>2, CheckTyped DEF CreateLeaveCheck, At, Check
<1>3. CASE CreateLeaveCommit(self)
  <2> DEFINE row == [status |-> "PENDING", user |-> sess[self].user,
                     cinema |-> sess[self].cinema, ivl |-> sess[self].ivl]
  <2>1. row \in LeaveRow /\ row.user \in User /\ row.status # "unused"
    BY <1>3, <1>a DEF LeaveRow, LeaveStatus, CreateLeaveCommit, At, SessionOK
  <2>2. ASSUME NEW l \in LeaveId, leaves' = [leaves EXCEPT ![l] = row],
               Finish(self), UNCHANGED <<shifts, trades, requests, entries, now>>
        PROVE  TypeInv'
    <3> HIDE DEF row
    <3>1. /\ leaves' \in [LeaveId -> LeaveRow]
          /\ \A k \in LeaveId : leaves'[k].status # "unused" => leaves'[k].user \in User
          /\ \A k \in LeaveId : leaves[k].status # "unused" => leaves'[k].status # "unused"
      BY <1>a, <2>1, <2>2 DEF TypeInv, RowsOK
    <3>2. QED
      BY <2>2, <3>1, CommitTyped DEF TypeInv, TypeOK, StoreTypeOK, RowsOK
  <2>3. QED
    BY <1>3, <2>2, RollbackTyped DEF CreateLeaveCommit
<1>4. ASSUME NEW l \in LeaveId, NEW status \in {"APPROVED", "REJECTED", "CANCELLED"},
             SetLeaveStatusBegin(self, l, status)
      PROVE  TypeInv'
  <2> DEFINE a == [Idle EXCEPT !.op = "setLeaveStatus", !.step = "read",
                     !.item = l, !.status = status]
  <2>1. a \in SessionState
    BY IdleTyped DEF Idle, SessionState, OpName, Step, LeaveStatus
  <2>2. SessionOK(a) /\ a.item = l
    BY <2>1 DEF Idle, SessionOK, LeaveStatus
  <2>3. /\ Begin(self, a) /\ UNCHANGED <<tables, now>> /\ Acquire(self, LeaveLock(l))
        /\ leaves[l].status # "unused"
    BY <1>4 DEF SetLeaveStatusBegin
  <2>4. LeaveLock(l) \in LockKey
    BY DEF LeaveLock, LockKey
  <2> HIDE DEF a
  <2>5. QED
    BY <2>1, <2>2, <2>3, <2>4, BeginTyped, AcquireTyped
<1>5. CASE SetLeaveStatusRead(self)
  <2> DEFINE row == leaves[sess[self].item]
             b == [sess[self] EXCEPT !.step = "lock", !.oldUser = row.user,
                     !.oldIvl = row.ivl, !.cinema = row.cinema,
                     !.oldStatus = row.status]
  <2>1. sess[self].op = "setLeaveStatus" /\ sess[self].item \in LeaveId
    BY <1>5, <1>a DEF SetLeaveStatusRead, At, SessionOK
  <2>2. row \in LeaveRow /\ row.user \in User
    BY <1>a, <2>1 DEF TypeInv, RowsOK
  <2>3. /\ row.user \in MaybeUser /\ row.ivl \in MaybeInterval
        /\ row.cinema \in MaybeCinema /\ row.status \in LeaveStatus
    BY <2>2 DEF LeaveRow
  <2>4. /\ sess \in [Session -> SessionState] /\ sess' = [sess EXCEPT ![self] = b]
        /\ UNCHANGED <<tables, now, held>>
    BY <1>5 DEF SetLeaveStatusRead, TypeInv, TypeOK, StoreTypeOK
  <2> HIDE DEF row
  <2>5. /\ b \in SessionState /\ b.item = sess[self].item
        /\ b.op = sess[self].op /\ b.status = sess[self].status
        /\ b.oldUser = row.user
    BY <1>a, <2>3 DEF SessionState, Step
  <2>6. SessionOK(b)
    BY <1>a, <2>1, <2>2, <2>5 DEF SessionOK
  <2> HIDE DEF b
  <2>7. sess' \in [Session -> SessionState] /\ \A p \in Session : SessionOK(sess'[p])
    BY <2>4, <2>5, <2>6 DEF TypeInv
  <2>8. \A p \in Session : sess'[p].op = sess[p].op /\ sess'[p].item = sess[p].item
    BY <2>4, <2>5
  <2>9. TypeOK'
    BY <2>4, <2>7 DEF TypeInv, TypeOK, StoreTypeOK, tables
  <2>10. RowsOK'
    BY <2>4, <2>8 DEF TypeInv, RowsOK, tables
  <2>11. QED
    BY <2>7, <2>9, <2>10 DEF TypeInv
<1>6. CASE SetLeaveStatusLockUser(self)
  <2>1. LeaveUserLock(sess[self].oldUser) \in LockKey /\ sess[self].step # "read"
    BY <1>6, <1>a DEF SetLeaveStatusLockUser, At, SessionOK, LeaveUserLock, LockKey
  <2>2. QED
    BY <1>6, <2>1, LockTyped DEF SetLeaveStatusLockUser
<1>7. CASE SetLeaveStatusCheck(self)
  BY <1>7, CheckTyped DEF SetLeaveStatusCheck, At, Check
<1>8. CASE SetLeaveStatusCommit(self)
  <2> DEFINE l == sess[self].item
             row == [leaves[l] EXCEPT !.status = sess[self].status]
  <2>1. /\ l \in LeaveId /\ sess[self].status \in LeaveStatus \ {"unused"}
        /\ leaves[l].status # "unused"
    BY <1>8, <1>a DEF SetLeaveStatusCommit, At, SessionOK, TypeInv, RowsOK
  <2>2. row \in LeaveRow /\ row.status # "unused" /\ row.user \in User
    BY <1>a, <2>1 DEF LeaveRow, TypeInv, RowsOK
  <2>3. ASSUME leaves' = [leaves EXCEPT ![l].status = sess[self].status],
               Finish(self), UNCHANGED <<shifts, trades, requests, entries, now>>
        PROVE  TypeInv'
    <3>1. leaves' = [leaves EXCEPT ![l] = row]
      BY <1>a, <2>1, <2>3
    <3> HIDE DEF row, l
    <3>2. /\ leaves' \in [LeaveId -> LeaveRow]
          /\ \A k \in LeaveId : leaves'[k].status # "unused" => leaves'[k].user \in User
          /\ \A k \in LeaveId : leaves[k].status # "unused" => leaves'[k].status # "unused"
      BY <1>a, <2>1, <2>2, <3>1 DEF TypeInv, RowsOK
    <3>3. QED
      BY <2>3, <3>2, CommitTyped DEF TypeInv, TypeOK, StoreTypeOK, RowsOK
  <2>4. QED
    BY <1>8, <2>3, RollbackTyped DEF SetLeaveStatusCommit
<1>9. QED
  BY <1>1, <1>2, <1>3, <1>4, <1>5, <1>6, <1>7, <1>8 DEF LeaveRequest, LeaveStep

\* The expiry job keeps the types.
LEMMA ExpiryTyped ==
  ASSUME TypeInv, ExpireLeaves
  PROVE  TypeInv'
<1> DEFINE row(l) == IF Expiring(l) THEN [leaves[l] EXCEPT !.status = "EXPIRED"]
                     ELSE leaves[l]
<1>1. ASSUME NEW l \in LeaveId
      PROVE  /\ row(l) \in LeaveRow
             /\ row(l).status # "unused" => row(l).user \in User
             /\ leaves[l].status # "unused" => row(l).status # "unused"
  <2>1. leaves[l] \in LeaveRow
    BY DEF TypeInv, TypeOK, StoreTypeOK
  <2>2. CASE Expiring(l)
    <3>1. leaves[l].status # "unused"
      BY <2>2 DEF Expiring
    <3>2. leaves[l].user \in User
      BY <3>1 DEF TypeInv, RowsOK
    <3>3. QED
      BY <2>1, <2>2, <3>2 DEF LeaveRow, LeaveStatus
  <2>3. CASE ~Expiring(l)
    BY <2>1, <2>3 DEF TypeInv, RowsOK
  <2>4. QED
    BY <2>2, <2>3
<1>2. leaves' = [l \in LeaveId |-> row(l)]
  BY DEF ExpireLeaves
<1> HIDE DEF row
<1>3. /\ leaves' \in [LeaveId -> LeaveRow]
      /\ \A l \in LeaveId : leaves'[l] = row(l)
  BY <1>1, <1>2
<1>4. TypeOK'
  BY <1>3 DEF ExpireLeaves, TypeInv, TypeOK, StoreTypeOK
<1>a. UNCHANGED <<shifts, sess>>
  BY DEF ExpireLeaves
<1>b. \A p \in Session : sess[p].op = "setLeaveStatus" =>
        sess[p].item \in LeaveId /\ leaves[sess[p].item].status # "unused"
  BY DEF TypeInv, RowsOK, SessionOK
<1>c. \A s \in ShiftId : shifts[s].state = "live" => shifts[s].cinema \in Cinema
  BY DEF TypeInv, RowsOK
<1>5. RowsOK'
  BY <1>1, <1>3, <1>a, <1>b, <1>c DEF RowsOK
<1>6. QED
  BY <1>4, <1>5 DEF ExpireLeaves, TypeInv

\* The steps of the clock handlers keep the types.
LEMMA ClocksTyped ==
  ASSUME TypeInv, NEW self \in Session, ClockRequest(self) \/ ClockStep(self)
  PROVE  TypeInv'
<1> USE IdsAreNotNull
<1>a. /\ sess[self] \in SessionState
      /\ SessionOK(sess[self])
      /\ sess[self].user \in MaybeUser /\ sess[self].shift \in MaybeShift
      /\ entries \in [EntryId -> EntryRow]
      /\ \A e \in EntryId : entries[e] \in EntryRow
      /\ held \in [Session -> SUBSET LockKey]
  BY DEF TypeInv, TypeOK, StoreTypeOK, SessionState
<1>1. ASSUME NEW u \in User, NEW s \in ShiftId, ClockInBegin(self, u, s)
      PROVE  TypeInv'
  <2> DEFINE c == shifts[s].cinema
             a == [Idle EXCEPT !.op = "clockIn", !.step = "lock", !.user = u,
                     !.cinema = c, !.shift = s]
  <2>1. c \in Cinema
    BY <1>1 DEF ClockInBegin, LiveShift, TypeInv, RowsOK
  <2>2. Begin(self, a) /\ UNCHANGED <<tables, now, held>>
    BY <1>1 DEF ClockInBegin
  <2> HIDE DEF c
  <2>3. a \in SessionState /\ SessionOK(a) /\ a.op = "clockIn"
    <3>1. "clockIn" \in OpName /\ "lock" \in Step
      BY DEF OpName, Step
    <3>2. a \in SessionState
      BY <2>1, <3>1, IdleTyped DEF SessionState, MaybeUser, MaybeCinema, MaybeShift
    <3>3. a.op = "clockIn" /\ a.user = u /\ a.cinema = c /\ a.shift = s
      BY DEF Idle
    <3> QED BY <2>1, <3>2, <3>3 DEF SessionOK
  <2> HIDE DEF a
  <2>4. QED
    BY <1>a, <2>2, <2>3, BeginTyped
<1>2. CASE ClockInLock(self)
  <2>1. PeriodLock(sess[self].cinema) \in LockKey
    BY <1>2, <1>a DEF ClockInLock, At, SessionOK, PeriodLock, LockKey
  <2>2. QED
    BY <1>2, <2>1, LockTyped DEF ClockInLock, At
<1>3. CASE ClockInCheck(self)
  BY <1>3, CheckTyped DEF ClockInCheck, At, Check
<1>4. CASE ClockInCommit(self)
  <2> DEFINE row == [status |-> "open", user |-> sess[self].user,
                     shift |-> sess[self].shift]
  <2>1. row \in EntryRow
    BY <1>a DEF EntryRow
  <2>2. ASSUME NEW e \in EntryId, entries' = [entries EXCEPT ![e] = row],
               Finish(self), UNCHANGED <<shifts, trades, requests, leaves, now>>
        PROVE  TypeInv'
    <3> HIDE DEF row
    <3>1. entries' \in [EntryId -> EntryRow]
      BY <1>a, <2>1, <2>2
    <3>2. QED
      BY <2>2, <3>1, CommitTyped DEF TypeInv, TypeOK, StoreTypeOK, RowsOK
  <2>3. QED
    BY <1>4, <2>2, RollbackTyped DEF ClockInCommit
<1>5. ASSUME NEW e \in EntryId, ClockOutBegin(self, e)
      PROVE  TypeInv'
  <2> DEFINE a == [Idle EXCEPT !.op = "clockOut", !.step = "write", !.item = e]
  <2>1. a \in SessionState /\ SessionOK(a) /\ a.op = "clockOut"
    BY IdleTyped DEF Idle, SessionState, SessionOK, OpName, Step
  <2>2. Begin(self, a) /\ UNCHANGED <<tables, now, held>>
    BY <1>5 DEF ClockOutBegin
  <2> HIDE DEF a
  <2>3. QED
    BY <1>a, <2>1, <2>2, BeginTyped
<1>6. CASE ClockOutCommit(self)
  <2> DEFINE e == sess[self].item
             row == [entries[e] EXCEPT !.status = "done"]
  <2>1. e \in EntryId
    BY <1>6, <1>a DEF ClockOutCommit, At, SessionOK
  <2>2. row \in EntryRow
    BY <1>a, <2>1 DEF EntryRow
  <2>3. entries' = [entries EXCEPT ![e] = row]
    BY <1>6, <1>a, <2>1 DEF ClockOutCommit
  <2> HIDE DEF row, e
  <2>4. entries' \in [EntryId -> EntryRow]
    BY <1>a, <2>1, <2>2, <2>3
  <2>5. QED
    BY <1>6, <2>4, CommitTyped
       DEF ClockOutCommit, TypeInv, TypeOK, StoreTypeOK, RowsOK
<1>7. QED
  BY <1>1, <1>2, <1>3, <1>4, <1>5, <1>6 DEF ClockRequest, ClockStep

\* The initial state is well typed.
LEMMA InitTyped == Init => TypeInv
<1> SUFFICES ASSUME Init PROVE TypeInv
  OBVIOUS
<1> USE DEF Init, StoreInit
<1>1. UnusedShift \in ShiftRow /\ UnusedShift.state # "live"
  BY DEF UnusedShift, ShiftRow, MaybeUser, MaybeCinema, MaybeInterval
<1>2. UnusedTrade \in TradeRow
  BY DEF UnusedTrade, TradeRow, TradeStatus, MaybeShift, MaybeUser
<1>3. UnusedRequest \in RequestRow
  BY DEF UnusedRequest, RequestRow, RequestStatus, MaybeShift, MaybeUser
<1>4. UnusedLeave \in LeaveRow /\ UnusedLeave.status = "unused"
  BY DEF UnusedLeave, LeaveRow, LeaveStatus, MaybeUser, MaybeCinema, MaybeInterval
<1>5. UnusedEntry \in EntryRow
  BY DEF UnusedEntry, EntryRow, MaybeShift, MaybeUser
<1>6. Idle.op = "none"
  BY DEF Idle
<1>7. now \in 0 .. MaxTime
  BY TimeAssumption
<1>8. TypeOK
  BY <1>1, <1>2, <1>3, <1>4, <1>5, <1>7, IdleTyped DEF TypeOK, StoreTypeOK
<1>9. RowsOK
  BY <1>1, <1>4, <1>6 DEF RowsOK
<1>10. QED
  BY <1>8, <1>9, IdleTyped DEF TypeInv

\* Every step keeps the types.
LEMMA NextTyped == TypeInv /\ [Next]_vars => TypeInv'
<1> SUFFICES ASSUME TypeInv, [Next]_vars PROVE TypeInv'
  OBVIOUS
<1>1. ASSUME NEW self \in Session, Request(self) \/ Advance(self)
      PROVE  TypeInv'
  BY <1>1, ShiftsTyped, TradesTyped, StaffingTyped, LeavesTyped, ClocksTyped
     DEF Request, Advance
<1>2. ASSUME NEW self \in Session, Crash(self)
      PROVE  TypeInv'
  BY <1>2, RollbackTyped DEF Crash
<1>3. CASE ExpireLeaves
  BY <1>3, ExpiryTyped
<1>4. CASE Tick
  <2>1. now' \in 0 .. MaxTime
    BY <1>4, TimeAssumption DEF Tick, TypeInv, TypeOK, StoreTypeOK
  <2>2. QED
    BY <1>4, <2>1 DEF Tick, TypeInv, TypeOK, StoreTypeOK, RowsOK, tables
<1>5. CASE UNCHANGED vars
  BY <1>5 DEF vars, TypeInv, TypeOK, StoreTypeOK, RowsOK
<1>6. QED
  BY <1>1, <1>2, <1>3, <1>4, <1>5 DEF Next

\* However requests interleave, crash and time out, every column holds a value
\* of its enumeration or an id of its table, every session a handler in one of
\* its steps, and every advisory lock held is one of a row's.
THEOREM TypeCorrect == Spec => []TypeOK
<1>1. TypeInv => TypeOK
  BY DEF TypeInv
<1>2. QED
  BY <1>1, InitTyped, NextTyped, PTL DEF Spec

-----------------------------------------------------------------------------
(* There is no unique index on open trades: that a shift has at most one     *)
(* rests on createShiftTrade holding the offer lock of the shift from its    *)
(* look at the open trades to its INSERT, on decline and acceptance looking  *)
(* for each other's row under the record lock, and on no other handler       *)
(* opening a trade or moving one.                                            *)

OpenOn(s) == {t \in TradeId : OpenTrade(t) /\ trades[t].shift = s}

\* The advisory locks are exclusive.
LocksExclusive == \A p, q \in Session : p # q => held[p] \cap held[q] = {}

\* Whoever is creating a trade holds the offer lock of its shift and, once
\* past the check, the shift has no open trade.
Offering ==
  \A p \in Session : sess[p].op = "createTrade" =>
    /\ OfferLock(sess[p].shift) \in held[p]
    /\ sess[p].step = "write" => OpenOn(sess[p].shift) = {}

OfferInv == TypeInv /\ LocksExclusive /\ Offering /\ OneOpenTrade

\* What every step but the three of createShiftTrade has in common: no trade
\* is opened or moved (at most it loses its shift), no one else's state changes,
\* and locks are only taken when they are free, and only released at the end of
\* the handler.
KeepsOffers ==
  \A t \in TradeId : trades'[t].status = "OPEN" =>
    OpenTrade(t) /\ trades'[t].shift \in {trades[t].shift, None}

TakesLocks(self) ==
  /\ \A p \in Session \ {self} : held'[p] = held[p]
  /\ \A p \in Session \ {self} : held'[self] \cap held[p] \subseteq held[self]
  /\ \/ held[self] \subseteq held'[self]
     \/ sess'[self] = Idle

Quiet(self) ==
  /\ KeepsOffers
  /\ TakesLocks(self)
  /\ \A p \in Session \ {self} : sess'[p] = sess[p]
  /\ sess'[self].op = "createTrade" => sess'[self] = sess[self]

\* Locks that are only taken when free stay exclusive.
LEMMA LocksStayExclusive ==
  ASSUME LocksExclusive, NEW self \in Session, TakesLocks(self)
  PROVE  LocksExclusive'
BY DEF LocksExclusive, TakesLocks

\* An idle session runs no handler.
LEMMA IdleOp == Idle.op = "none"
BY DEF Idle

\* A step that is quiet keeps the invariant.
LEMMA QuietKeepsOfferInv ==
  ASSUME OfferInv, TypeInv', NEW self \in Session, Quiet(self)
  PROVE  OfferInv'
<1>1. LocksExclusive'
  BY LocksStayExclusive DEF OfferInv, Quiet
<1>2. OneOpenTrade'
  BY DEF OfferInv, OneOpenTrade, Quiet, KeepsOffers, OpenTrade
<1>3. ASSUME NEW p \in Session, sess'[p].op = "createTrade"
      PROVE  /\ OfferLock(sess'[p].shift) \in held'[p]
             /\ sess'[p].step = "write" => OpenOn(sess[p].shift)' = {}
  <2>1. sess'[p] = sess[p] /\ held[p] \subseteq held'[p]
    BY <1>3, IdleOp DEF Quiet, TakesLocks
  <2>a. sess[p].shift # None
    BY <1>3, <2>1, IdsAreNotNull DEF OfferInv, TypeInv, SessionOK
  <2>2. OpenOn(sess[p].shift)' \subseteq OpenOn(sess[p].shift)
    BY <2>1, <2>a DEF Quiet, KeepsOffers, OpenOn, OpenTrade
  <2>3. QED
    BY <1>3, <2>1, <2>2 DEF OfferInv, Offering
<1>4. QED
  BY <1>1, <1>2, <1>3 DEF OfferInv, Offering

-----------------------------------------------------------------------------
(* The shapes of a quiet step *)

\* Waiting for a lock takes it when nobody has it.
LEMMA AcquireTakes ==
  ASSUME TypeInv, NEW self \in Session, NEW key,
         Acquire(self, key) \/ UNCHANGED held
  PROVE  TakesLocks(self)
BY DEF TypeInv, TypeOK, StoreTypeOK, Acquire, Available, TakesLocks

\* Ending a handler that opened no trade is quiet.
LEMMA FinishQuiet ==
  ASSUME TypeInv, NEW self \in Session, Finish(self), KeepsOffers
  PROVE  Quiet(self)
BY IdleOp DEF TypeInv, TypeOK, StoreTypeOK, Finish, TakesLocks, Quiet

\* No trade is opened where none is written.
LEMMA SameTrades == UNCHANGED trades => KeepsOffers
BY DEF KeepsOffers, OpenTrade

\* A refusal is quiet.
LEMMA RollbackQuiet ==
  ASSUME TypeInv, NEW self \in Session, Rollback(self)
  PROVE  Quiet(self)
BY FinishQuiet, SameTrades DEF Rollback, tables

\* The start of another handler than createShiftTrade is quiet.
LEMMA BeginQuiet ==
  ASSUME TypeInv, NEW self \in Session, NEW a, Begin(self, a), a.op # "createTrade",
         UNCHANGED <<tables, now>>, TakesLocks(self)
  PROVE  Quiet(self)
BY SameTrades DEF TypeInv, TypeOK, StoreTypeOK, Begin, Quiet, tables

\* Going on to the next step of another handler is quiet.
LEMMA GotoQuiet ==
  ASSUME TypeInv, NEW self \in Session, NEW step, Goto(self, step),
         sess[self].op # "createTrade", UNCHANGED <<tables, now>>, TakesLocks(self)
  PROVE  Quiet(self)
<1>1. sess'[self].op = sess[self].op /\ \A p \in Session \ {self} : sess'[p] = sess[p]
  BY DEF TypeInv, TypeOK, StoreTypeOK, SessionState, Goto
<1>2. QED
  BY <1>1, SameTrades DEF Quiet, tables

\* A check of another handler is quiet.
LEMMA CheckQuiet ==
  ASSUME TypeInv, NEW self \in Session, sess[self].op # "createTrade",
         NEW step, \/ Goto(self, step) /\ UNCHANGED <<tables, now, held>>
                   \/ Rollback(self)
  PROVE  Quiet(self)
BY GotoQuiet, RollbackQuiet, AcquireTakes

\* Finding the offers of a shift keeps the handler.
LEMMA FindKeepsOp ==
  ASSUME TypeInv, NEW self \in Session, NEW ts, NEW rs, Find(self, ts, rs)
  PROVE  /\ sess'[self].op = sess[self].op /\ sess'[self].shift = sess[self].shift
         /\ sess'[self].user = sess[self].user /\ sess'[self].item = sess[self].item
         /\ sess'[self].oldUser = sess[self].oldUser
         /\ sess'[self].cinema = sess[self].cinema /\ sess'[self].ivl = sess[self].ivl
         /\ sess'[self].oldIvl = sess[self].oldIvl
         /\ sess'[self].step = "write"
         /\ sess'[self].foundTrades = ts /\ sess'[self].foundRequests = rs
         /\ \A p \in Session \ {self} : sess'[p] = sess[p]
         /\ UNCHANGED <<tables, now, held>>
<1>1. sess \in [Session -> SessionState] /\ sess[self] \in SessionState
  BY DEF TypeInv, TypeOK, StoreTypeOK
<1>2. sess'[self] = [sess[self] EXCEPT !.step = "write", !.foundTrades = ts,
                                       !.foundRequests = rs]
  BY <1>1 DEF Find
<1> QED BY <1>1, <1>2 DEF Find, SessionState

\* So it is quiet.
LEMMA FindQuiet ==
  ASSUME TypeInv, NEW self \in Session, NEW ts, NEW rs, Find(self, ts, rs),
         sess[self].op # "createTrade"
  PROVE  Quiet(self)
BY FindKeepsOp, SameTrades, AcquireTakes DEF Quiet, tables

\* Closing the offers of a shift opens none, whatever shift id they keep.
LEMMA ResolveKeepsOffers ==
  ASSUME TypeInv, NEW s, NEW ts, NEW keep \in {s, None},
         trades' = ResolveTrades(s, ts, keep)
  PROVE  KeepsOffers
<1> SUFFICES ASSUME NEW t \in TradeId, trades'[t].status = "OPEN"
             PROVE  OpenTrade(t) /\ trades'[t].shift \in {trades[t].shift, None}
  BY DEF KeepsOffers
<1>1. trades[t] \in TradeRow
  BY DEF TypeInv, TypeOK, StoreTypeOK
<1>2. CASE trades[t].shift = s
  <2>1. trades'[t] = [trades[t] EXCEPT !.shift = keep,
                        !.status = IF t \in ts /\ @ = "OPEN" THEN "CANCELLED" ELSE @]
    BY <1>2 DEF ResolveTrades
  <2>2. /\ trades'[t].status \in {"CANCELLED", trades[t].status}
        /\ trades'[t].shift = keep
    BY <1>1, <2>1 DEF TradeRow
  <2>3. QED
    BY <1>2, <2>2 DEF OpenTrade
<1>3. CASE trades[t].shift # s
  BY <1>3 DEF ResolveTrades, OpenTrade
<1>4. QED
  BY <1>2, <1>3

-----------------------------------------------------------------------------
(* The steps of every other handler are quiet *)

\* The edits of a shift are quiet.
LEMMA ShiftsQuiet ==
  ASSUME TypeInv, NEW self \in Session, ShiftRequest(self) \/ ShiftStep(self)
  PROVE  Quiet(self)
<1>1. ASSUME NEW u \in MaybeUser, NEW c \in Cinema, NEW i \in Interval,
             CreateShiftBegin(self, u, c, i)
      PROVE  Quiet(self)
  BY <1>1, BeginQuiet, AcquireTakes DEF CreateShiftBegin, Idle
<1>2. CASE CreateShiftCheck(self)
  BY <1>2, CheckQuiet DEF CreateShiftCheck, At, Check
<1>3. CASE CreateShiftCommit(self)
  BY <1>3, FinishQuiet, RollbackQuiet, SameTrades DEF CreateShiftCommit
<1>4. ASSUME NEW s \in ShiftId, NEW u \in MaybeUser, NEW i \in Interval,
             UpdateShiftBegin(self, s, u, i)
      PROVE  Quiet(self)
  BY <1>4, BeginQuiet, AcquireTakes DEF UpdateShiftBegin, Idle
<1>5. CASE UpdateShiftRead(self)
  <2>1. ASSUME sess' = [sess EXCEPT ![self].step = "users",
                          ![self].oldUser = shifts[sess[self].shift].user,
                          ![self].oldIvl = shifts[sess[self].shift].ivl,
                          ![self].cinema = shifts[sess[self].shift].cinema],
               UNCHANGED <<tables, now, held>>
        PROVE  Quiet(self)
    <3>1. sess[self].op = "updateShift" /\ sess \in [Session -> SessionState]
      BY <1>5 DEF UpdateShiftRead, At, TypeInv, TypeOK, StoreTypeOK
    <3>2. /\ sess'[self].op = "updateShift"
          /\ \A p \in Session \ {self} : sess'[p] = sess[p]
      BY <2>1, <3>1 DEF SessionState
    <3>3. QED
      BY <2>1, <3>2, SameTrades, AcquireTakes DEF Quiet, tables
  <2>2. QED
    BY <1>5, <2>1, RollbackQuiet DEF UpdateShiftRead
<1>6. ASSUME NEW u \in User, UpdateShiftLockUser(self, u)
      PROVE  Quiet(self)
  BY <1>6, SameTrades, AcquireTakes DEF UpdateShiftLockUser, Quiet, tables
<1>7. CASE UpdateShiftCheck(self)
  BY <1>7, CheckQuiet DEF UpdateShiftCheck, At, Check
<1>g. CASE UpdateShiftFind(self)
  BY <1>g, FindQuiet DEF UpdateShiftFind, At
<1>h. CASE DeleteShiftFind(self)
  BY <1>h, FindQuiet DEF DeleteShiftFind, At
<1>8. CASE UpdateShiftCommit(self)
  BY <1>8, FinishQuiet, RollbackQuiet, ResolveKeepsOffers DEF UpdateShiftCommit
<1>9. ASSUME NEW s \in ShiftId, DeleteShiftBegin(self, s)
      PROVE  Quiet(self)
  BY <1>9, BeginQuiet, AcquireTakes DEF DeleteShiftBegin, Idle
<1>10. CASE DeleteShiftCheck(self)
  BY <1>10, CheckQuiet DEF DeleteShiftCheck, At, Check
<1>11. CASE DeleteShiftCommit(self)
  BY <1>11, FinishQuiet, RollbackQuiet, ResolveKeepsOffers DEF DeleteShiftCommit
<1>12. QED
  BY <1>1, <1>2, <1>3, <1>4, <1>5, <1>6, <1>7, <1>8, <1>9, <1>10, <1>11, <1>g, <1>h
     DEF ShiftRequest, ShiftStep

\* The handlers of staffing requests are quiet.
LEMMA StaffingQuiet ==
  ASSUME TypeInv, NEW self \in Session, StaffingRequest(self) \/ StaffingStep(self)
  PROVE  Quiet(self)
<1>1. ASSUME NEW s \in ShiftId, NEW target \in MaybeUser,
             CreateRequestForShift(self, s, target)
      PROVE  Quiet(self)
  BY <1>1, BeginQuiet, AcquireTakes DEF CreateRequestForShift, Idle
<1>2. ASSUME NEW c \in Cinema, NEW i \in Interval, NEW target \in MaybeUser,
             CreateRequestForPeriod(self, c, i, target)
      PROVE  Quiet(self)
  BY <1>2, BeginQuiet, AcquireTakes DEF CreateRequestForPeriod, Idle
<1>3. CASE CreateRequestInsertShift(self)
  <2>1. ASSUME NEW s \in ShiftId,
               sess' = [sess EXCEPT ![self].step = "write", ![self].shift = s],
               UNCHANGED <<trades, held>>
        PROVE  Quiet(self)
    <3>1. sess[self].op = "createRequest" /\ sess \in [Session -> SessionState]
      BY <1>3 DEF CreateRequestInsertShift, At, TypeInv, TypeOK, StoreTypeOK
    <3>2. /\ sess'[self].op = "createRequest"
          /\ \A p \in Session \ {self} : sess'[p] = sess[p]
      BY <2>1, <3>1 DEF SessionState
    <3>3. QED
      BY <2>1, <3>2, SameTrades, AcquireTakes DEF Quiet
  <2>2. QED
    BY <1>3, <2>1, RollbackQuiet DEF CreateRequestInsertShift
<1>4. CASE CreateRequestCommit(self)
  BY <1>4, FinishQuiet, RollbackQuiet, SameTrades DEF CreateRequestCommit
<1>5. ASSUME NEW u \in User, NEW r \in RequestId, AcceptRequestBegin(self, u, r)
      PROVE  Quiet(self)
  BY <1>5, BeginQuiet, AcquireTakes DEF AcceptRequestBegin, Idle
<1>6. CASE AcceptRequestLock(self)
  BY <1>6, GotoQuiet, AcquireTakes DEF AcceptRequestLock, At
<1>7. CASE AcceptRequestCheck(self)
  BY <1>7, CheckQuiet DEF AcceptRequestCheck, At, Check
<1>f. CASE AcceptRequestFind(self)
  BY <1>f, FindQuiet DEF AcceptRequestFind, At
<1>8. CASE AcceptRequestCommit(self)
  BY <1>8, FinishQuiet, RollbackQuiet, SameTrades DEF AcceptRequestCommit
<1>9. ASSUME NEW u \in User, NEW r \in RequestId, RejectRequestBegin(self, u, r)
      PROVE  Quiet(self)
  BY <1>9, BeginQuiet, AcquireTakes DEF RejectRequestBegin, Idle
<1>10. CASE RejectBroadcastCheck(self)
  BY <1>10, CheckQuiet DEF RejectBroadcastCheck, At, Check
<1>11. CASE RejectBroadcastCommit(self)
  BY <1>11, FinishQuiet, SameTrades DEF RejectBroadcastCommit
<1>12. CASE RejectTargetedCommit(self)
  BY <1>12, FinishQuiet, RollbackQuiet, SameTrades DEF RejectTargetedCommit, CloseRequest
<1>13. ASSUME NEW r \in RequestId, CancelRequestBegin(self, r)
       PROVE  Quiet(self)
  BY <1>13, BeginQuiet, AcquireTakes DEF CancelRequestBegin, Idle
<1>14. CASE CancelRequestCommit(self)
  BY <1>14, FinishQuiet, RollbackQuiet, SameTrades DEF CancelRequestCommit, CloseRequest
<1>15. QED
  BY <1>1, <1>2, <1>3, <1>4, <1>5, <1>6, <1>7, <1>8, <1>9, <1>10, <1>11,
     <1>12, <1>13, <1>14, <1>f DEF StaffingRequest, StaffingStep

\* The handlers of absence are quiet.
LEMMA LeavesQuiet ==
  ASSUME TypeInv, NEW self \in Session, LeaveRequest(self) \/ LeaveStep(self)
  PROVE  Quiet(self)
<1>1. ASSUME NEW u \in User, NEW c \in Cinema, NEW i \in Interval,
             CreateLeaveBegin(self, u, c, i)
      PROVE  Quiet(self)
  BY <1>1, BeginQuiet, AcquireTakes DEF CreateLeaveBegin, Idle
<1>2. CASE CreateLeaveCheck(self)
  BY <1>2, CheckQuiet DEF CreateLeaveCheck, At, Check
<1>3. CASE CreateLeaveCommit(self)
  BY <1>3, FinishQuiet, RollbackQuiet, SameTrades DEF CreateLeaveCommit
<1>4. ASSUME NEW l \in LeaveId, NEW status \in {"APPROVED", "REJECTED", "CANCELLED"},
             SetLeaveStatusBegin(self, l, status)
      PROVE  Quiet(self)
  BY <1>4, BeginQuiet, AcquireTakes DEF SetLeaveStatusBegin, Idle
<1>5. CASE SetLeaveStatusRead(self)
  <2>1. sess[self].op = "setLeaveStatus" /\ sess \in [Session -> SessionState]
    BY <1>5 DEF SetLeaveStatusRead, At, TypeInv, TypeOK, StoreTypeOK
  <2>2. /\ sess'[self].op = "setLeaveStatus"
        /\ \A p \in Session \ {self} : sess'[p] = sess[p]
    BY <1>5, <2>1 DEF SetLeaveStatusRead, SessionState
  <2>3. QED
    BY <1>5, <2>2, SameTrades, AcquireTakes DEF SetLeaveStatusRead, Quiet, tables
<1>6. CASE SetLeaveStatusLockUser(self)
  BY <1>6, GotoQuiet, AcquireTakes DEF SetLeaveStatusLockUser, At
<1>7. CASE SetLeaveStatusCheck(self)
  BY <1>7, CheckQuiet DEF SetLeaveStatusCheck, At, Check
<1>8. CASE SetLeaveStatusCommit(self)
  BY <1>8, FinishQuiet, RollbackQuiet, SameTrades DEF SetLeaveStatusCommit
<1>9. QED
  BY <1>1, <1>2, <1>3, <1>4, <1>5, <1>6, <1>7, <1>8 DEF LeaveRequest, LeaveStep

\* The handlers of clocking are quiet.
LEMMA ClocksQuiet ==
  ASSUME TypeInv, NEW self \in Session, ClockRequest(self) \/ ClockStep(self)
  PROVE  Quiet(self)
<1>1. ASSUME NEW u \in User, NEW s \in ShiftId, ClockInBegin(self, u, s)
      PROVE  Quiet(self)
  BY <1>1, BeginQuiet, AcquireTakes DEF ClockInBegin, Idle
<1>2. CASE ClockInLock(self)
  BY <1>2, GotoQuiet, AcquireTakes DEF ClockInLock, At
<1>3. CASE ClockInCheck(self)
  BY <1>3, CheckQuiet DEF ClockInCheck, At, Check
<1>4. CASE ClockInCommit(self)
  BY <1>4, FinishQuiet, RollbackQuiet, SameTrades DEF ClockInCommit
<1>5. ASSUME NEW e \in EntryId, ClockOutBegin(self, e)
      PROVE  Quiet(self)
  BY <1>5, BeginQuiet, AcquireTakes DEF ClockOutBegin, Idle
<1>6. CASE ClockOutCommit(self)
  BY <1>6, FinishQuiet, SameTrades DEF ClockOutCommit
<1>7. QED
  BY <1>1, <1>2, <1>3, <1>4, <1>5, <1>6 DEF ClockRequest, ClockStep

\* Accepting, rejecting and cancelling take trades out of OPEN.
LEMMA AnswersQuiet ==
  ASSUME TypeInv, NEW self \in Session,
         \/ \E u \in User, t \in TradeId : AcceptTradeBegin(self, u, t)
                                           \/ RejectTradeBegin(self, u, t)
         \/ \E t \in TradeId : CancelTradeBegin(self, t)
         \/ AcceptTradeLock(self) \/ AcceptTradeCheck(self) \/ AcceptTradeCommit(self)
         \/ RejectPoolTradeLock(self) \/ RejectPoolTradeCheck(self)
         \/ RejectPoolTradeCommit(self) \/ RejectDirectTradeCommit(self)
         \/ CancelTradeCommit(self)
  PROVE  Quiet(self)
<1>a. trades \in [TradeId -> TradeRow]
  BY DEF TypeInv, TypeOK, StoreTypeOK
<1>1. ASSUME NEW u \in User, NEW t \in TradeId, AcceptTradeBegin(self, u, t)
      PROVE  Quiet(self)
  BY <1>1, BeginQuiet, AcquireTakes DEF AcceptTradeBegin, Idle
<1>2. ASSUME NEW u \in User, NEW t \in TradeId, RejectTradeBegin(self, u, t)
      PROVE  Quiet(self)
  BY <1>2, BeginQuiet, AcquireTakes DEF RejectTradeBegin, Idle
<1>3. ASSUME NEW t \in TradeId, CancelTradeBegin(self, t)
      PROVE  Quiet(self)
  BY <1>3, BeginQuiet, AcquireTakes DEF CancelTradeBegin, Idle
<1>4. CASE AcceptTradeLock(self) \/ RejectPoolTradeLock(self)
  BY <1>4, GotoQuiet, AcquireTakes DEF AcceptTradeLock, RejectPoolTradeLock, At
<1>5. CASE AcceptTradeCheck(self)
  BY <1>5, CheckQuiet DEF AcceptTradeCheck, At, Check
<1>6. CASE RejectPoolTradeCheck(self)
  BY <1>6, CheckQuiet DEF RejectPoolTradeCheck, At, Check
<1>7. CASE AcceptTradeCommit(self)
  <2>1. ASSUME NEW x, NEW u,
               trades' = [trades EXCEPT ![x].status = "ACCEPTED", ![x].acceptedBy = u]
        PROVE  KeepsOffers
    BY <1>a, <2>1 DEF KeepsOffers, OpenTrade, TradeRow
  <2>2. QED
    BY <1>7, <2>1, FinishQuiet, RollbackQuiet DEF AcceptTradeCommit
<1>8. CASE RejectPoolTradeCommit(self)
  <2>1. ASSUME NEW x, NEW u, trades' = [trades EXCEPT ![x].declines = @ \cup {u}]
        PROVE  KeepsOffers
    BY <1>a, <2>1 DEF KeepsOffers, OpenTrade, TradeRow
  <2>2. QED
    BY <1>8, <2>1, FinishQuiet, RollbackQuiet DEF RejectPoolTradeCommit
<1>9. CASE RejectDirectTradeCommit(self) \/ CancelTradeCommit(self)
  <2>1. ASSUME NEW x, NEW status \in {"REJECTED", "CANCELLED"},
               trades' = [trades EXCEPT ![x].status = status]
        PROVE  KeepsOffers
    BY <1>a, <2>1 DEF KeepsOffers, OpenTrade, TradeRow
  <2>2. QED
    BY <1>9, <2>1, FinishQuiet, RollbackQuiet
       DEF RejectDirectTradeCommit, CancelTradeCommit, CloseTrade
<1>10. QED
  BY <1>1, <1>2, <1>3, <1>4, <1>5, <1>6, <1>7, <1>8, <1>9

-----------------------------------------------------------------------------
(* createShiftTrade: the lock makes the look and the INSERT one step *)

\* createShiftTrade takes the lock of the shift first.
LEMMA CreateTradeBeginKeeps ==
  ASSUME OfferInv, TypeInv', NEW self \in Session, NEW u \in User,
         NEW s \in ShiftId, NEW target \in MaybeUser,
         CreateTradeBegin(self, u, s, target)
  PROVE  OfferInv'
<1> DEFINE a == [Idle EXCEPT !.op = "createTrade", !.step = "check",
                   !.user = u, !.other = target, !.shift = s]
<1>1. a.op = "createTrade" /\ a.step = "check" /\ a.shift = s
  BY DEF Idle
<1>2. /\ Begin(self, a) /\ Acquire(self, OfferLock(s)) /\ UNCHANGED trades
      /\ sess \in [Session -> SessionState] /\ held \in [Session -> SUBSET LockKey]
  BY DEF CreateTradeBegin, OfferInv, TypeInv, TypeOK, StoreTypeOK, tables
<1> HIDE DEF a
<1>3. LocksExclusive'
  BY <1>2, AcquireTakes, LocksStayExclusive DEF OfferInv
<1>4. ASSUME NEW p \in Session, sess'[p].op = "createTrade"
      PROVE  /\ OfferLock(sess'[p].shift) \in held'[p]
             /\ sess'[p].step = "write" => OpenOn(sess[p].shift)' = {}
  <2>1. CASE p = self
    <3>1. sess'[p] = a /\ OfferLock(s) \in held'[p]
      BY <1>2, <2>1 DEF Begin, Acquire
    <3>2. QED
      BY <1>1, <3>1
  <2>2. CASE p # self
    <3>1. sess'[p] = sess[p] /\ held'[p] = held[p]
      BY <1>2, <2>2 DEF Begin, Acquire
    <3>2. OpenOn(sess[p].shift)' = OpenOn(sess[p].shift)
      BY <1>2, <3>1 DEF OpenOn, OpenTrade
    <3>3. QED
      BY <1>4, <3>1, <3>2 DEF OfferInv, Offering
  <2>3. QED
    BY <2>1, <2>2
<1>5. OneOpenTrade'
  BY <1>2 DEF OfferInv, OneOpenTrade, OpenTrade
<1>6. QED
  BY <1>3, <1>4, <1>5 DEF OfferInv, Offering

\* It looks for open trades of the shift under the lock.
LEMMA CreateTradeCheckKeeps ==
  ASSUME OfferInv, TypeInv', NEW self \in Session, CreateTradeCheck(self)
  PROVE  OfferInv'
<1>1. CASE Rollback(self)
  BY <1>1, RollbackQuiet, QuietKeepsOfferInv DEF OfferInv
<1>2. CASE /\ ~\E t \in TradeId : OpenTrade(t) /\ trades[t].shift = sess[self].shift
           /\ Goto(self, "write")
           /\ UNCHANGED <<tables, now, held>>
  <2>1. OpenOn(sess[self].shift) = {}
    BY <1>2 DEF OpenOn
  <2>2. /\ \A p \in Session : sess'[p].op = sess[p].op /\ sess'[p].shift = sess[p].shift
        /\ \A p \in Session \ {self} : sess'[p] = sess[p]
    BY <1>2 DEF Goto, OfferInv, TypeInv, TypeOK, StoreTypeOK, SessionState
  <2>3. \A p \in Session : OpenOn(sess[p].shift)' = OpenOn(sess[p].shift)
    BY <1>2, <2>2 DEF OpenOn, OpenTrade, tables
  <2>4. Offering'
    BY <1>2, <2>1, <2>2, <2>3 DEF OfferInv, Offering
  <2>5. LocksExclusive' /\ OneOpenTrade'
    BY <1>2 DEF OfferInv, LocksExclusive, OneOpenTrade, OpenTrade, tables
  <2>6. QED
    BY <2>4, <2>5 DEF OfferInv
<1>3. QED
  BY <1>1, <1>2 DEF CreateTradeCheck, Check

\* It inserts the trade when there was none.
LEMMA CreateTradeCommitKeeps ==
  ASSUME OfferInv, TypeInv', NEW self \in Session, CreateTradeCommit(self)
  PROVE  OfferInv'
<1> DEFINE s == sess[self].shift
           row == [status |-> "OPEN", shift |-> s, offeredBy |-> sess[self].user,
                   target |-> sess[self].other, acceptedBy |-> None,
                   declines |-> {}]
<1>1. CASE Rollback(self)
  BY <1>1, RollbackQuiet, QuietKeepsOfferInv DEF OfferInv
<1>2. ASSUME NEW t \in TradeId, trades[t].status = "unused", Finish(self),
             trades' = [trades EXCEPT ![t] = row]
      PROVE  OfferInv'
  <2>1. /\ trades \in [TradeId -> TradeRow] /\ sess \in [Session -> SessionState]
        /\ held \in [Session -> SUBSET LockKey]
    BY DEF OfferInv, TypeInv, TypeOK, StoreTypeOK
  <2>2. OfferLock(s) \in held[self] /\ OpenOn(s) = {}
    BY DEF CreateTradeCommit, At, OfferInv, Offering
  <2>3. row.status = "OPEN" /\ row.shift = s
    OBVIOUS
  <2> HIDE DEF row
  <2>4. OneOpenTrade'
    <3>1. \A r \in TradeId \ {t} : trades'[r] = trades[r]
      BY <1>2, <2>1
    <3>2. trades'[t] = row
      BY <1>2, <2>1
    <3>3. QED
      BY <2>2, <2>3, <3>1, <3>2 DEF OfferInv, OneOpenTrade, OpenTrade, OpenOn
  <2>5. LocksExclusive'
    BY <1>2, <2>1 DEF Finish, OfferInv, LocksExclusive
  <2>6. ASSUME NEW p \in Session, sess'[p].op = "createTrade"
        PROVE  /\ OfferLock(sess'[p].shift) \in held'[p]
               /\ sess'[p].step = "write" => OpenOn(sess[p].shift)' = {}
    <3>1. p # self /\ sess'[p] = sess[p] /\ held'[p] = held[p]
      BY <1>2, <2>1, <2>6, IdleOp DEF Finish
    <3>2. OfferLock(sess[p].shift) \in held[p]
      BY <2>6, <3>1 DEF OfferInv, Offering
    <3>3. sess[p].shift # s
      BY <2>2, <3>1, <3>2 DEF OfferInv, LocksExclusive
    <3>4. OpenOn(sess[p].shift)' = OpenOn(sess[p].shift)
      <4>1. sess'[p].shift # s /\ ~OpenTrade(t)
        BY <1>2, <3>1, <3>3 DEF OpenTrade
      <4>2. /\ trades'[t] = row
            /\ \A r \in TradeId \ {t} : trades'[r] = trades[r]
        BY <1>2, <2>1
      <4>3. \A r \in TradeId :
              (trades'[r].status = "OPEN" /\ trades'[r].shift = sess'[p].shift)
                <=> (OpenTrade(r) /\ trades[r].shift = sess[p].shift)
        BY <2>3, <3>1, <4>1, <4>2 DEF OpenTrade
      <4>4. QED
        BY <4>3 DEF OpenOn, OpenTrade
    <3>5. QED
      BY <2>6, <3>1, <3>2, <3>4 DEF OfferInv, Offering
  <2>7. QED
    BY <2>4, <2>5, <2>6 DEF OfferInv, Offering
<1>3. QED
  BY <1>1, <1>2 DEF CreateTradeCommit, First, UnusedTradeIds

\* The handlers of trades keep the invariant.
LEMMA TradesKeepOfferInv ==
  ASSUME OfferInv, TypeInv', NEW self \in Session,
         TradeRequest(self) \/ TradeStep(self)
  PROVE  OfferInv'
BY AnswersQuiet, QuietKeepsOfferInv, CreateTradeBeginKeeps,
   CreateTradeCheckKeeps, CreateTradeCommitKeeps DEF TradeRequest, TradeStep, OfferInv

\* Every step keeps the invariant of the offers.
LEMMA OfferInvInductive == OfferInv /\ [Next]_vars => OfferInv'
<1> SUFFICES ASSUME OfferInv, [Next]_vars PROVE OfferInv'
  OBVIOUS
<1>1. TypeInv'
  BY NextTyped DEF OfferInv
<1>2. ASSUME NEW self \in Session, Request(self) \/ Advance(self) \/ Crash(self)
      PROVE  OfferInv'
  BY <1>1, <1>2, ShiftsQuiet, StaffingQuiet, LeavesQuiet, ClocksQuiet,
     RollbackQuiet, QuietKeepsOfferInv, TradesKeepOfferInv
     DEF Request, Advance, Crash, OfferInv
<1>3. CASE UNCHANGED <<trades, held, sess>>
  BY <1>1, <1>3 DEF OfferInv, LocksExclusive, Offering, OneOpenTrade, OpenOn, OpenTrade
<1>4. QED
  BY <1>2, <1>3 DEF Next, ExpireLeaves, Tick, tables, vars

\* It holds where there is nothing yet.
LEMMA InitOfferInv == Init => OfferInv
BY InitTyped, IdleOp
   DEF Init, StoreInit, OfferInv, LocksExclusive, Offering, OneOpenTrade,
       OpenTrade, UnusedTrade

\* Whatever the interleaving of offers, acceptances, edits and crashes, a
\* shift has at most one open trade.
THEOREM AtMostOneOpenTrade == Spec => []OneOpenTrade
<1>1. OfferInv => OneOpenTrade
  BY DEF OfferInv
<1>2. QED
  BY <1>1, InitOfferInv, OfferInvInductive, PTL DEF Spec

-----------------------------------------------------------------------------
(* The handlers of one component leave the tables and the sessions of the   *)
(* others alone.                                                             *)

Footprint(self, ops) ==
  /\ TakesLocks(self)
  /\ \A p \in Session \ {self} : sess'[p] = sess[p]
  /\ sess'[self].op \in ops \cup {"none"}

\* The end of a transaction leaves the others alone.
LEMMA FinishFoot ==
  ASSUME TypeInv, NEW self \in Session, NEW ops, Finish(self)
  PROVE  Footprint(self, ops)
BY IdleOp DEF TypeInv, TypeOK, StoreTypeOK, Finish, TakesLocks, Footprint

\* So does a refusal, which leaves the tables alone too.
LEMMA RollbackFoot ==
  ASSUME TypeInv, NEW self \in Session, NEW ops, Rollback(self)
  PROVE  Footprint(self, ops) /\ UNCHANGED tables
BY FinishFoot DEF Rollback

\* A request that starts takes the name of its handler.
LEMMA BeginFoot ==
  ASSUME TypeInv, NEW self \in Session, NEW ops, NEW a, Begin(self, a), a.op \in ops,
         TakesLocks(self)
  PROVE  Footprint(self, ops)
BY DEF TypeInv, TypeOK, StoreTypeOK, Begin, Footprint

\* A request that goes on to its next step keeps its handler.
LEMMA GotoFoot ==
  ASSUME TypeInv, NEW self \in Session, NEW ops, NEW step, Goto(self, step),
         sess[self].op \in ops, TakesLocks(self)
  PROVE  Footprint(self, ops)
<1>1. sess'[self].op = sess[self].op /\ \A p \in Session \ {self} : sess'[p] = sess[p]
  BY DEF TypeInv, TypeOK, StoreTypeOK, SessionState, Goto
<1> QED BY <1>1 DEF Footprint

\* A check goes on to its write or refuses, and writes no table.
LEMMA CheckFoot ==
  ASSUME TypeInv, NEW self \in Session, NEW ops, sess[self].op \in ops,
         NEW step, \/ Goto(self, step) /\ UNCHANGED <<tables, now, held>>
                   \/ Rollback(self)
  PROVE  Footprint(self, ops) /\ UNCHANGED tables
BY GotoFoot, RollbackFoot, AcquireTakes

\* Looking up the offers of a shift leaves the tables alone.
LEMMA FindFoot ==
  ASSUME TypeInv, NEW self \in Session, NEW ops, sess[self].op \in ops,
         NEW ts, NEW rs, Find(self, ts, rs)
  PROVE  Footprint(self, ops) /\ UNCHANGED tables
BY FindKeepsOp, AcquireTakes DEF Footprint

ShiftsOps == {"createShift", "updateShift", "deleteShift"}

\* The edits of a shift write no absence.
LEMMA ShiftsFootprint ==
  ASSUME TypeInv, NEW self \in Session, ShiftRequest(self) \/ ShiftStep(self)
  PROVE  Footprint(self, ShiftsOps) /\ UNCHANGED leaves
<1>1. ASSUME NEW u \in MaybeUser, NEW c \in Cinema, NEW i \in Interval,
             CreateShiftBegin(self, u, c, i)
      PROVE  Footprint(self, ShiftsOps) /\ UNCHANGED leaves
  BY <1>1, BeginFoot, AcquireTakes DEF CreateShiftBegin, Idle, ShiftsOps, tables
<1>2. ASSUME NEW s \in ShiftId, NEW u \in MaybeUser, NEW i \in Interval,
             UpdateShiftBegin(self, s, u, i)
      PROVE  Footprint(self, ShiftsOps) /\ UNCHANGED leaves
  BY <1>2, BeginFoot, AcquireTakes DEF UpdateShiftBegin, Idle, ShiftsOps, tables
<1>3. ASSUME NEW s \in ShiftId,
             DeleteShiftBegin(self, s)
      PROVE  Footprint(self, ShiftsOps) /\ UNCHANGED leaves
  BY <1>3, BeginFoot, AcquireTakes DEF DeleteShiftBegin, Idle, ShiftsOps, tables
<1>4. CASE CreateShiftCheck(self)
  BY <1>4, CheckFoot DEF CreateShiftCheck, At, Check, ShiftsOps, tables
<1>5. CASE UpdateShiftCheck(self)
  BY <1>5, CheckFoot DEF UpdateShiftCheck, At, Check, ShiftsOps, tables
<1>6. CASE DeleteShiftCheck(self)
  BY <1>6, CheckFoot DEF DeleteShiftCheck, At, Check, ShiftsOps, tables
<1>7. CASE CreateShiftCommit(self)
  BY <1>7, FinishFoot, RollbackFoot DEF CreateShiftCommit, tables
<1>8. CASE UpdateShiftCommit(self)
  BY <1>8, FinishFoot, RollbackFoot DEF UpdateShiftCommit, tables
<1>9. CASE DeleteShiftCommit(self)
  BY <1>9, FinishFoot, RollbackFoot DEF DeleteShiftCommit, tables
<1>10. CASE UpdateShiftRead(self)
  <2>1. sess[self].op = "updateShift" /\ sess \in [Session -> SessionState]
    BY <1>10 DEF UpdateShiftRead, At, TypeInv, TypeOK, StoreTypeOK
  <2>2. CASE Rollback(self)
    BY <2>2, RollbackFoot DEF tables
  <2>3. CASE ~ Rollback(self)
    <3>1. /\ sess'[self].op = "updateShift"
          /\ \A p \in Session \ {self} : sess'[p] = sess[p]
          /\ held' = held /\ UNCHANGED leaves
      BY <1>10, <2>1, <2>3 DEF UpdateShiftRead, SessionState, tables
    <3> QED BY <3>1, AcquireTakes DEF Footprint, ShiftsOps
  <2> QED BY <2>2, <2>3
<1>11. ASSUME NEW u \in User, UpdateShiftLockUser(self, u)
      PROVE  Footprint(self, ShiftsOps) /\ UNCHANGED leaves
  BY <1>11, AcquireTakes DEF UpdateShiftLockUser, At, Footprint, ShiftsOps, tables
<1>g. CASE UpdateShiftFind(self) \/ DeleteShiftFind(self)
  BY <1>g, FindFoot DEF UpdateShiftFind, DeleteShiftFind, At, ShiftsOps, tables
<1> QED BY <1>1, <1>2, <1>3, <1>4, <1>5, <1>6, <1>7, <1>8, <1>9, <1>10, <1>11, <1>g
  DEF ShiftRequest, ShiftStep

OffersOps == {"createTrade", "cancelTrade"}
AnswersOps == {"acceptTrade", "rejectTrade"}
TradesOps == OffersOps \cup AnswersOps

\* Offering and withdrawing write neither requests nor absences.
LEMMA OffersFootprint ==
  ASSUME TypeInv, NEW self \in Session,
         \/ \E u \in User, s \in ShiftId, target \in MaybeUser :
              CreateTradeBegin(self, u, s, target)
         \/ \E t \in TradeId : CancelTradeBegin(self, t)
         \/ CreateTradeCheck(self) \/ CreateTradeCommit(self) \/ CancelTradeCommit(self)
  PROVE  Footprint(self, OffersOps) /\ UNCHANGED <<requests, leaves>>
<1>1. ASSUME NEW u \in User, NEW s \in ShiftId, NEW target \in MaybeUser,
             CreateTradeBegin(self, u, s, target)
      PROVE  Footprint(self, OffersOps) /\ UNCHANGED <<requests, leaves>>
  BY <1>1, BeginFoot, AcquireTakes DEF CreateTradeBegin, Idle, OffersOps, tables
<1>2. ASSUME NEW t \in TradeId, CancelTradeBegin(self, t)
      PROVE  Footprint(self, OffersOps) /\ UNCHANGED <<requests, leaves>>
  BY <1>2, BeginFoot, AcquireTakes DEF CancelTradeBegin, Idle, OffersOps, tables
<1>3. CASE CreateTradeCheck(self)
  BY <1>3, CheckFoot DEF CreateTradeCheck, At, Check, OffersOps, tables
<1>4. CASE CreateTradeCommit(self)
  BY <1>4, FinishFoot, RollbackFoot DEF CreateTradeCommit, tables
<1>5. CASE CancelTradeCommit(self)
  BY <1>5, FinishFoot, RollbackFoot DEF CancelTradeCommit, CloseTrade, tables
<1> QED BY <1>1, <1>2, <1>3, <1>4, <1>5

\* Nor do the answers.
LEMMA AnswersFootprint ==
  ASSUME TypeInv, NEW self \in Session,
         \/ \E u \in User, t \in TradeId : AcceptTradeBegin(self, u, t)
                                           \/ RejectTradeBegin(self, u, t)
         \/ AcceptTradeLock(self) \/ AcceptTradeCheck(self) \/ AcceptTradeCommit(self)
         \/ RejectPoolTradeLock(self) \/ RejectPoolTradeCheck(self)
         \/ RejectPoolTradeCommit(self) \/ RejectDirectTradeCommit(self)
  PROVE  Footprint(self, AnswersOps) /\ UNCHANGED <<requests, leaves>>
<1>1. ASSUME NEW u \in User, NEW t \in TradeId, AcceptTradeBegin(self, u, t)
      PROVE  Footprint(self, AnswersOps) /\ UNCHANGED <<requests, leaves>>
  BY <1>1, BeginFoot, AcquireTakes DEF AcceptTradeBegin, Idle, AnswersOps, tables
<1>2. ASSUME NEW u \in User, NEW t \in TradeId, RejectTradeBegin(self, u, t)
      PROVE  Footprint(self, AnswersOps) /\ UNCHANGED <<requests, leaves>>
  <2> DEFINE a == [Idle EXCEPT !.op = "rejectTrade",
                     !.step = IF Pool(t) THEN "lock" ELSE "write",
                     !.user = u, !.item = t, !.shift = trades[t].shift]
  <2>1. a.op = "rejectTrade"
    BY DEF Idle
  <2>2. Begin(self, a) /\ UNCHANGED <<tables, now, held>>
    BY <1>2 DEF RejectTradeBegin
  <2> HIDE DEF a
  <2> QED BY <2>1, <2>2, BeginFoot, AcquireTakes DEF AnswersOps, tables
<1>3. CASE AcceptTradeLock(self)
  BY <1>3, GotoFoot, AcquireTakes DEF AcceptTradeLock, At, AnswersOps, tables
<1>4. CASE RejectPoolTradeLock(self)
  BY <1>4, GotoFoot, AcquireTakes DEF RejectPoolTradeLock, At, AnswersOps, tables
<1>5. CASE AcceptTradeCheck(self)
  BY <1>5, CheckFoot DEF AcceptTradeCheck, At, Check, AnswersOps, tables
<1>6. CASE RejectPoolTradeCheck(self)
  BY <1>6, CheckFoot DEF RejectPoolTradeCheck, At, Check, AnswersOps, tables
<1>7. CASE AcceptTradeCommit(self)
  BY <1>7, FinishFoot, RollbackFoot DEF AcceptTradeCommit, tables
<1>8. CASE RejectPoolTradeCommit(self)
  BY <1>8, FinishFoot, RollbackFoot DEF RejectPoolTradeCommit, tables
<1>9. CASE RejectDirectTradeCommit(self)
  BY <1>9, FinishFoot, RollbackFoot DEF RejectDirectTradeCommit, CloseTrade, tables
<1> QED BY <1>1, <1>2, <1>3, <1>4, <1>5, <1>6, <1>7, <1>8, <1>9

\* The handlers of trades write neither requests nor absences.
LEMMA TradesFootprint ==
  ASSUME TypeInv, NEW self \in Session, TradeRequest(self) \/ TradeStep(self)
  PROVE  Footprint(self, TradesOps) /\ UNCHANGED <<requests, leaves>>
<1>1. \/ Footprint(self, OffersOps) /\ UNCHANGED <<requests, leaves>>
      \/ Footprint(self, AnswersOps) /\ UNCHANGED <<requests, leaves>>
  BY OffersFootprint, AnswersFootprint DEF TradeRequest, TradeStep
<1> QED BY <1>1 DEF Footprint, TradesOps

StaffingOps == {"createRequest", "acceptRequest", "rejectRequest", "cancelRequest"}

\* The handlers of staffing requests write neither trades nor absences.
LEMMA StaffingFootprint ==
  ASSUME TypeInv, NEW self \in Session, StaffingRequest(self) \/ StaffingStep(self)
  PROVE  Footprint(self, StaffingOps) /\ UNCHANGED <<trades, leaves>>
<1>1. ASSUME NEW s \in ShiftId, NEW target \in MaybeUser,
             CreateRequestForShift(self, s, target)
      PROVE  Footprint(self, StaffingOps) /\ UNCHANGED <<trades, leaves>>
  BY <1>1, BeginFoot, AcquireTakes DEF CreateRequestForShift, Idle, StaffingOps, tables
<1>2. ASSUME NEW c \in Cinema, NEW i \in Interval, NEW target \in MaybeUser,
             CreateRequestForPeriod(self, c, i, target)
      PROVE  Footprint(self, StaffingOps) /\ UNCHANGED <<trades, leaves>>
  BY <1>2, BeginFoot, AcquireTakes DEF CreateRequestForPeriod, Idle, StaffingOps, tables
<1>3. ASSUME NEW u \in User, NEW r \in RequestId,
             AcceptRequestBegin(self, u, r)
      PROVE  Footprint(self, StaffingOps) /\ UNCHANGED <<trades, leaves>>
  BY <1>3, BeginFoot, AcquireTakes DEF AcceptRequestBegin, Idle, StaffingOps, tables
<1>4. ASSUME NEW u \in User, NEW r \in RequestId,
             RejectRequestBegin(self, u, r)
      PROVE  Footprint(self, StaffingOps) /\ UNCHANGED <<trades, leaves>>
  BY <1>4, BeginFoot, AcquireTakes DEF RejectRequestBegin, Idle, StaffingOps, tables
<1>5. ASSUME NEW r \in RequestId,
             CancelRequestBegin(self, r)
      PROVE  Footprint(self, StaffingOps) /\ UNCHANGED <<trades, leaves>>
  BY <1>5, BeginFoot, AcquireTakes DEF CancelRequestBegin, Idle, StaffingOps, tables
<1>6. CASE AcceptRequestLock(self)
  BY <1>6, GotoFoot, AcquireTakes DEF AcceptRequestLock, At, StaffingOps, tables
<1>7. CASE AcceptRequestCheck(self)
  BY <1>7, CheckFoot DEF AcceptRequestCheck, At, Check, StaffingOps, tables
<1>8. CASE RejectBroadcastCheck(self)
  BY <1>8, CheckFoot DEF RejectBroadcastCheck, At, Check, StaffingOps, tables
<1>9. CASE CreateRequestCommit(self)
  BY <1>9, FinishFoot, RollbackFoot DEF CreateRequestCommit, tables
<1>10. CASE AcceptRequestCommit(self)
  BY <1>10, FinishFoot, RollbackFoot DEF AcceptRequestCommit, tables
<1>11. CASE RejectBroadcastCommit(self)
  BY <1>11, FinishFoot, RollbackFoot DEF RejectBroadcastCommit, tables
<1>12. CASE RejectTargetedCommit(self)
  BY <1>12, FinishFoot, RollbackFoot DEF RejectTargetedCommit, CloseRequest, tables
<1>13. CASE CancelRequestCommit(self)
  BY <1>13, FinishFoot, RollbackFoot DEF CancelRequestCommit, CloseRequest, tables
<1>14. CASE CreateRequestInsertShift(self)
  <2>1. sess[self].op = "createRequest" /\ sess \in [Session -> SessionState]
    BY <1>14 DEF CreateRequestInsertShift, At, TypeInv, TypeOK, StoreTypeOK
  <2>2. CASE Rollback(self)
    BY <2>2, RollbackFoot DEF tables
  <2>3. CASE ~ Rollback(self)
    <3>1. /\ sess'[self].op = "createRequest"
          /\ \A p \in Session \ {self} : sess'[p] = sess[p]
          /\ held' = held /\ UNCHANGED <<trades, leaves>>
      BY <1>14, <2>1, <2>3 DEF CreateRequestInsertShift, SessionState, tables
    <3> QED BY <3>1, AcquireTakes DEF Footprint, StaffingOps
  <2> QED BY <2>2, <2>3
<1>f. CASE AcceptRequestFind(self)
  BY <1>f, FindFoot DEF AcceptRequestFind, At, StaffingOps, tables
<1> QED BY <1>1, <1>2, <1>3, <1>4, <1>5, <1>6, <1>7, <1>8, <1>9, <1>10, <1>11, <1>12, <1>13, <1>14,
           <1>f
  DEF StaffingRequest, StaffingStep

ClocksOps == {"clockIn", "clockOut"}

\* Clocking writes neither trades, nor requests, nor absences.
LEMMA ClocksFootprint ==
  ASSUME TypeInv, NEW self \in Session, ClockRequest(self) \/ ClockStep(self)
  PROVE  Footprint(self, ClocksOps) /\ UNCHANGED <<trades, requests, leaves>>
<1>1. ASSUME NEW u \in User, NEW s \in ShiftId,
             ClockInBegin(self, u, s)
      PROVE  Footprint(self, ClocksOps) /\ UNCHANGED <<trades, requests, leaves>>
  BY <1>1, BeginFoot, AcquireTakes DEF ClockInBegin, Idle, ClocksOps, tables
<1>2. ASSUME NEW e \in EntryId,
             ClockOutBegin(self, e)
      PROVE  Footprint(self, ClocksOps) /\ UNCHANGED <<trades, requests, leaves>>
  BY <1>2, BeginFoot, AcquireTakes DEF ClockOutBegin, Idle, ClocksOps, tables
<1>3. CASE ClockInLock(self)
  BY <1>3, GotoFoot, AcquireTakes DEF ClockInLock, At, ClocksOps, tables
<1>4. CASE ClockInCheck(self)
  BY <1>4, CheckFoot DEF ClockInCheck, At, Check, ClocksOps, tables
<1>5. CASE ClockInCommit(self)
  BY <1>5, FinishFoot, RollbackFoot DEF ClockInCommit, tables
<1>6. CASE ClockOutCommit(self)
  BY <1>6, FinishFoot, RollbackFoot DEF ClockOutCommit, tables
<1> QED BY <1>1, <1>2, <1>3, <1>4, <1>5, <1>6
  DEF ClockRequest, ClockStep

LeavesOps == {"createLeave", "setLeaveStatus"}

\* The handlers of absence write neither trades nor requests.
LEMMA LeavesFootprint ==
  ASSUME TypeInv, NEW self \in Session, LeaveRequest(self) \/ LeaveStep(self)
  PROVE  Footprint(self, LeavesOps) /\ UNCHANGED <<trades, requests>>
<1>1. ASSUME NEW u \in User, NEW c \in Cinema, NEW i \in Interval,
             CreateLeaveBegin(self, u, c, i)
      PROVE  Footprint(self, LeavesOps) /\ UNCHANGED <<trades, requests>>
  <2>1. TakesLocks(self) /\ UNCHANGED <<trades, requests>>
    BY <1>1, AcquireTakes DEF CreateLeaveBegin, tables
  <2> PICK a : a = [Idle EXCEPT !.op = "createLeave", !.step = "check", !.user = u,
                                !.cinema = c, !.ivl = i]
    OBVIOUS
  <2>2. a.op = "createLeave"
    BY DEF Idle
  <2>3. Begin(self, a)
    BY <1>1 DEF CreateLeaveBegin
  <2> QED BY <2>1, <2>2, <2>3, BeginFoot DEF LeavesOps
<1>2. ASSUME NEW l \in LeaveId, NEW status \in {"APPROVED", "REJECTED", "CANCELLED"},
             SetLeaveStatusBegin(self, l, status)
      PROVE  Footprint(self, LeavesOps) /\ UNCHANGED <<trades, requests>>
  <2>1. TakesLocks(self) /\ UNCHANGED <<trades, requests>>
    BY <1>2, AcquireTakes DEF SetLeaveStatusBegin, tables
  <2> QED BY <1>2, <2>1, BeginFoot, ZenonT(30) DEF SetLeaveStatusBegin, Idle, LeavesOps
<1>3. CASE SetLeaveStatusLockUser(self)
  BY <1>3, GotoFoot, AcquireTakes DEF SetLeaveStatusLockUser, At, LeavesOps, tables
<1>4. CASE CreateLeaveCheck(self)
  BY <1>4, CheckFoot DEF CreateLeaveCheck, At, Check, LeavesOps, tables
<1>5. CASE SetLeaveStatusCheck(self)
  BY <1>5, CheckFoot DEF SetLeaveStatusCheck, At, Check, LeavesOps, tables
<1>6. CASE CreateLeaveCommit(self)
  BY <1>6, FinishFoot, RollbackFoot DEF CreateLeaveCommit, tables
<1>7. CASE SetLeaveStatusCommit(self)
  BY <1>7, FinishFoot, RollbackFoot DEF SetLeaveStatusCommit, tables
<1>8. CASE SetLeaveStatusRead(self)
  <2>1. sess[self].op = "setLeaveStatus" /\ sess \in [Session -> SessionState]
    BY <1>8 DEF SetLeaveStatusRead, At, TypeInv, TypeOK, StoreTypeOK
  <2>2. /\ sess'[self].op = "setLeaveStatus"
        /\ \A p \in Session \ {self} : sess'[p] = sess[p]
    BY <1>8, <2>1 DEF SetLeaveStatusRead, SessionState
  <2> QED BY <1>8, <2>2, AcquireTakes DEF SetLeaveStatusRead, Footprint, LeavesOps, tables
<1> QED BY <1>1, <1>2, <1>3, <1>4, <1>5, <1>6, <1>7, <1>8
  DEF LeaveRequest, LeaveStep

-----------------------------------------------------------------------------
(* Declines and acceptances.  That the one who declined a trade has not     *)
(* taken it rests on the record lock of the shift, which both look for the  *)
(* other's row under, and on the trade still being about that shift: its     *)
(* shift changes only when the shift is deleted.                             *)

TradeRowOK(row) ==
  /\ row.status = "unused" => row = UnusedTrade
  /\ row.status # "ACCEPTED" => row.acceptedBy = None
  /\ row.target # None => row.declines = {}
  /\ row.acceptedBy \notin row.declines

\* A request that answers a trade under the record lock of its shift.
OnRecord(a, row) == a.op = "acceptTrade" \/ row.target = None

\* What a request a that answers a trade, read as row, knows of it, holding locks.
KnowsTrade(a, row, locks) ==
  /\ row.status # "unused"
  /\ row.offeredBy # a.user
  /\ a.op = "rejectTrade" /\ a.step # "write" => row.target = None
  /\ OnRecord(a, row) =>
       /\ a.shift # None
       /\ row.shift \in {a.shift, None}
       /\ a.step # "lock" => RecordLock(a.shift) \in locks
  /\ a.op = "acceptTrade" /\ a.step = "write" /\ row.shift = a.shift
       => a.user \notin row.declines
  /\ a.op = "rejectTrade" /\ a.step = "write" /\ row.target = None
       => row.acceptedBy # a.user

Answering(p) ==
  sess[p].op \in AnswersOps => KnowsTrade(sess[p], trades[sess[p].item], held[p])

AnswerInv ==
  /\ OfferInv
  /\ \A t \in TradeId : TradeRowOK(trades[t])
  /\ \A p \in Session : Answering(p)

\* A trade is left alone, closed, or separated from its deleted shift.
ClosedRow(old, new) ==
  /\ new.offeredBy = old.offeredBy /\ new.target = old.target
  /\ new.acceptedBy = old.acceptedBy /\ new.declines = old.declines
  /\ new.shift \in {old.shift, None}
  /\ \/ new.status = old.status
     \/ old.status = "OPEN" /\ new.status \in {"REJECTED", "CANCELLED"}
  /\ old.status = "unused" => new = old

ClosesTrades == \A t \in TradeId : ClosedRow(trades[t], trades'[t])

\* Closing a trade keeps what is known of its row.
LEMMA ClosedRowOK ==
  ASSUME NEW old, NEW new, ClosedRow(old, new), TradeRowOK(old)
  PROVE  TradeRowOK(new)
BY DEF ClosedRow, TradeRowOK

\* What a request knows of a trade survives its closing.
LEMMA ClosedKnown ==
  ASSUME NEW old, NEW new, ClosedRow(old, new), NEW a, a.op \in AnswersOps,
         NEW locks, NEW more, locks \subseteq more, KnowsTrade(a, old, locks)
  PROVE  KnowsTrade(a, new, more)
BY DEF ClosedRow, KnowsTrade, OnRecord, AnswersOps

\* Two requests that answer one trade of an existing shift, with its record
\* lock, are the same.
LEMMA OneOnRecord ==
  ASSUME LocksExclusive, NEW p \in Session, NEW q \in Session, NEW row,
         KnowsTrade(sess[p], row, held[p]), KnowsTrade(sess[q], row, held[q]),
         OnRecord(sess[p], row), OnRecord(sess[q], row),
         sess[p].step # "lock", sess[q].step # "lock", row.shift # None
  PROVE  p = q
BY DEF LocksExclusive, KnowsTrade

\* The requests of others know what they knew, where their trade was closed
\* at most.
LEMMA OthersKnow ==
  ASSUME AnswerInv, NEW self \in Session, NEW ops, Footprint(self, ops),
         NEW p \in Session \ {self},
         sess[p].op \in AnswersOps =>
           ClosedRow(trades[sess[p].item], trades'[sess[p].item])
  PROVE  Answering(p)'
<1>1. sess'[p] = sess[p] /\ held'[p] = held[p]
  BY DEF Footprint, TakesLocks
<1>2. Answering(p)
  BY DEF AnswerInv
<1> QED BY <1>1, <1>2, ClosedKnown DEF Answering

\* Steps that close trades at most.
LEMMA ClosingKeeps ==
  ASSUME AnswerInv, OfferInv', NEW self \in Session, NEW ops, Footprint(self, ops),
         ClosesTrades, Answering(self)'
  PROVE  AnswerInv'
<1>1. ASSUME NEW t \in TradeId PROVE TradeRowOK(trades[t])'
  BY ClosedRowOK DEF AnswerInv, ClosesTrades
<1>2. ASSUME NEW p \in Session \ {self} PROVE Answering(p)'
  <2>1. sess[p].op \in AnswersOps => sess[p].item \in TradeId
    BY DEF AnswerInv, OfferInv, TypeInv, SessionOK, AnswersOps
  <2> QED BY <2>1, OthersKnow DEF ClosesTrades
<1> QED BY <1>1, <1>2 DEF AnswerInv

\* Steps of the other handlers.
LEMMA OtherOpsKeep ==
  ASSUME AnswerInv, OfferInv', NEW self \in Session, NEW ops, Footprint(self, ops),
         ClosesTrades, ops \cap AnswersOps = {}
  PROVE  AnswerInv'
<1>1. sess'[self].op \notin AnswersOps
  BY DEF Footprint, AnswersOps
<1> QED BY <1>1, ClosingKeeps DEF Answering

\* Nothing is closed where no trade is written.
LEMMA SameClosed == UNCHANGED trades => ClosesTrades
BY DEF ClosesTrades, ClosedRow

\* The end of a transaction that closed trades at most.
LEMMA EndCloses ==
  ASSUME AnswerInv, OfferInv', NEW self \in Session, Finish(self), ClosesTrades
  PROVE  AnswerInv'
<1>1. Footprint(self, {})
  BY FinishFoot DEF AnswerInv, OfferInv
<1> QED BY <1>1, OtherOpsKeep

\* A refusal keeps the invariant of the answers.
LEMMA RollbackAnswers ==
  ASSUME AnswerInv, OfferInv', NEW self \in Session, Rollback(self)
  PROVE  AnswerInv'
BY EndCloses, SameClosed DEF Rollback, tables

\* What an edit of a shift does to the trades on it.
LEMMA ResolveCloses ==
  ASSUME AnswerInv, NEW s \in ShiftId, NEW keep \in {s, None}, NEW ts,
         trades' = ResolveTrades(s, ts, keep)
  PROVE  ClosesTrades
<1> SUFFICES ASSUME NEW t \in TradeId PROVE ClosedRow(trades[t], trades'[t])
  BY DEF ClosesTrades
<1>1. trades[t] \in TradeRow
  BY DEF AnswerInv, OfferInv, TypeInv, TypeOK, StoreTypeOK
<1>2. CASE trades[t].shift = s
  <2>1. trades'[t] = [trades[t] EXCEPT !.shift = keep,
                        !.status = IF t \in ts /\ @ = "OPEN" THEN "CANCELLED" ELSE @]
    BY <1>2 DEF ResolveTrades
  <2>2. trades[t].status # "unused"
    BY <1>2, IdsAreNotNull DEF AnswerInv, TradeRowOK, UnusedTrade
  <2> QED BY <1>1, <1>2, <2>1, <2>2 DEF ClosedRow, TradeRow
<1>3. CASE trades[t].shift # s
  BY <1>3 DEF ResolveTrades, ClosedRow
<1> QED BY <1>2, <1>3

\* The shape of a step of an answer that only moves its request on.
LEMMA AnswerStep ==
  ASSUME AnswerInv, OfferInv', NEW self \in Session, Footprint(self, AnswersOps),
         UNCHANGED trades, NEW a, sess'[self] = a,
         a.op \in AnswersOps => KnowsTrade(a, trades[a.item], held'[self])
  PROVE  AnswerInv'
<1>1. Answering(self)'
  BY DEF Answering
<1> QED BY <1>1, ClosingKeeps, SameClosed

\* acceptShiftTrade and rejectShiftTrade read the trade before they wait.
LEMMA BeginAnswerKeeps ==
  ASSUME AnswerInv, OfferInv', NEW self \in Session, NEW u \in User, NEW t \in TradeId,
         AcceptTradeBegin(self, u, t) \/ RejectTradeBegin(self, u, t)
  PROVE  AnswerInv'
<1> DEFINE a == [Idle EXCEPT !.op = "acceptTrade", !.step = "lock",
                   !.user = u, !.item = t, !.shift = trades[t].shift]
           b == [Idle EXCEPT !.op = "rejectTrade",
                   !.step = IF Pool(t) THEN "lock" ELSE "write",
                   !.user = u, !.item = t, !.shift = trades[t].shift]
<1>a. TypeInv /\ sess \in [Session -> SessionState]
  BY DEF AnswerInv, OfferInv, TypeInv, TypeOK, StoreTypeOK
<1>1. Footprint(self, AnswersOps) /\ Actionable(t, u) /\ UNCHANGED trades
  BY <1>a, AnswersFootprint DEF AcceptTradeBegin, RejectTradeBegin, tables
<1>2. /\ trades[t].status # "unused" /\ trades[t].offeredBy # u
      /\ trades[t].acceptedBy = None
  BY <1>1 DEF Actionable, OpenTrade, AnswerInv, TradeRowOK
<1>3. CASE AcceptTradeBegin(self, u, t)
  <2>1. Begin(self, a) /\ trades[t].shift # None
    BY <1>3 DEF AcceptTradeBegin
  <2>2. /\ a.op = "acceptTrade" /\ a.step = "lock" /\ a.user = u /\ a.item = t
        /\ a.shift = trades[t].shift
    BY DEF Idle
  <2> HIDE DEF a
  <2>3. sess'[self] = a
    BY <1>a, <2>1 DEF Begin
  <2>4. KnowsTrade(a, trades[a.item], held'[self])
    BY <1>2, <2>1, <2>2 DEF KnowsTrade
  <2> QED BY <1>1, <2>3, <2>4, AnswerStep
<1>4. CASE RejectTradeBegin(self, u, t)
  <2>1. Begin(self, b) /\ (Pool(t) => trades[t].shift # None)
    BY <1>4 DEF RejectTradeBegin
  <2>2. /\ b.op = "rejectTrade" /\ b.user = u /\ b.item = t /\ b.shift = trades[t].shift
        /\ b.step = IF Pool(t) THEN "lock" ELSE "write"
    BY DEF Idle
  <2> HIDE DEF b
  <2>3. sess'[self] = b
    BY <1>a, <2>1 DEF Begin
  <2>4. KnowsTrade(b, trades[b.item], held'[self])
    BY <1>2, <2>1, <2>2 DEF KnowsTrade, OnRecord, Pool
  <2> QED BY <1>1, <2>3, <2>4, AnswerStep
<1> QED BY <1>3, <1>4

\* They get the lock of the shift the trade had then.
LEMMA LockAnswerKeeps ==
  ASSUME AnswerInv, OfferInv', NEW self \in Session,
         AcceptTradeLock(self) \/ RejectPoolTradeLock(self)
  PROVE  AnswerInv'
<1> PICK a : a = sess[self]
  OBVIOUS
<1> PICK b : b = [a EXCEPT !.step = "check"]
  OBVIOUS
<1>a. /\ TypeInv /\ sess \in [Session -> SessionState] /\ a \in SessionState
      /\ held \in [Session -> SUBSET LockKey]
  BY DEF AnswerInv, OfferInv, TypeInv, TypeOK, StoreTypeOK
<1>1. Footprint(self, AnswersOps) /\ UNCHANGED trades
  BY <1>a, AnswersFootprint DEF AcceptTradeLock, RejectPoolTradeLock, tables
<1>2. /\ a.op \in AnswersOps /\ a.step = "lock" /\ Goto(self, "check")
      /\ Acquire(self, RecordLock(a.shift))
  BY DEF AcceptTradeLock, RejectPoolTradeLock, At, AnswersOps
<1>3. /\ b.op = a.op /\ b.step = "check" /\ b.user = a.user /\ b.item = a.item
      /\ b.shift = a.shift
  BY <1>a DEF SessionState
<1>4. sess'[self] = b /\ RecordLock(a.shift) \in held'[self]
  BY <1>a, <1>2 DEF Goto, Acquire
<1>5. KnowsTrade(a, trades[a.item], held[self])
  BY <1>2 DEF AnswerInv, Answering
<1>6. KnowsTrade(b, trades[b.item], held'[self])
  BY <1>2, <1>3, <1>4, <1>5 DEF KnowsTrade, OnRecord, AnswersOps
<1> QED BY <1>1, <1>4, <1>6, AnswerStep

\* They look for each other's rows with the lock.
LEMMA CheckAnswerKeeps ==
  ASSUME AnswerInv, OfferInv', NEW self \in Session,
         AcceptTradeCheck(self) \/ RejectPoolTradeCheck(self)
  PROVE  AnswerInv'
<1>1. CASE Rollback(self)
  BY <1>1, RollbackAnswers
<1>2. CASE ~ Rollback(self)
  <2> PICK a : a = sess[self]
    OBVIOUS
  <2> PICK b : b = [a EXCEPT !.step = "write"]
    OBVIOUS
  <2>a. /\ TypeInv /\ sess \in [Session -> SessionState] /\ a \in SessionState
        /\ SessionOK(a)
    BY DEF AnswerInv, OfferInv, TypeInv, TypeOK, StoreTypeOK
  <2>1. /\ a.op \in AnswersOps /\ a.step = "check" /\ Goto(self, "write")
        /\ UNCHANGED <<trades, held>>
        /\ Actionable(a.item, a.user)
        /\ a.op = "acceptTrade" /\ Pool(a.item) => a.user \notin trades[a.item].declines
    BY <1>2 DEF AcceptTradeCheck, RejectPoolTradeCheck, At, Check, AnswersOps, tables
  <2>2. Footprint(self, AnswersOps)
    BY <2>a, <2>1, GotoFoot, AcquireTakes
  <2>3. /\ b.op = a.op /\ b.step = "write" /\ b.user = a.user /\ b.item = a.item
        /\ b.shift = a.shift
    BY <2>a DEF SessionState
  <2>4. sess'[self] = b
    BY <2>a, <2>1 DEF Goto
  <2>5. KnowsTrade(a, trades[a.item], held[self])
    BY <2>1 DEF AnswerInv, Answering
  <2>6. a.user \in User /\ a.item \in TradeId
    BY <2>a, <2>1 DEF SessionOK, AnswersOps
  <2>7. trades[a.item].acceptedBy # a.user
    BY <2>1, <2>6, IdsAreNotNull DEF AnswerInv, TradeRowOK, Actionable, OpenTrade
  <2>8. a.op = "acceptTrade" => a.user \notin trades[a.item].declines
    BY <2>1, <2>6 DEF AnswerInv, TradeRowOK, Pool
  <2>9. KnowsTrade(b, trades[b.item], held'[self])
    BY <2>1, <2>3, <2>5, <2>7, <2>8 DEF KnowsTrade, OnRecord
  <2> QED BY <2>1, <2>2, <2>4, <2>9, AnswerStep
<1> QED BY <1>1, <1>2

\* A transaction that ends having written one trade, which others may be
\* answering.
LEMMA EndWithTrade ==
  ASSUME AnswerInv, OfferInv', NEW self \in Session, Finish(self),
         NEW t \in TradeId, \A r \in TradeId \ {t} : trades'[r] = trades[r],
         TradeRowOK(trades'[t]),
         \A p \in Session \ {self} :
           sess[p].op \in AnswersOps /\ sess[p].item = t
             => KnowsTrade(sess[p], trades'[t], held[p])
  PROVE  AnswerInv'
<1>a. Footprint(self, {})
  BY FinishFoot DEF AnswerInv, OfferInv
<1>1. ASSUME NEW r \in TradeId PROVE TradeRowOK(trades[r])'
  BY <1>1 DEF AnswerInv
<1>2. ASSUME NEW p \in Session PROVE Answering(p)'
  <2>1. CASE p = self
    BY <1>a, <2>1 DEF Footprint, Answering, AnswersOps
  <2>2. CASE p # self /\ sess[p].item # t
    <3>1. sess[p].op \in AnswersOps => sess[p].item \in TradeId
      BY DEF AnswerInv, OfferInv, TypeInv, SessionOK, AnswersOps
    <3> QED BY <1>a, <2>2, <3>1, OthersKnow DEF ClosedRow
  <2>3. CASE p # self /\ sess[p].item = t
    <3>1. sess'[p] = sess[p] /\ held'[p] = held[p]
      BY <1>a, <2>3 DEF Footprint, TakesLocks
    <3> QED BY <2>3, <3>1 DEF Answering
  <2> QED BY <2>1, <2>2, <2>3
<1> QED BY <1>1, <1>2 DEF AnswerInv

\* createShiftTrade inserts a trade that nobody answers yet.
LEMMA CreateTradeAnswers ==
  ASSUME AnswerInv, OfferInv', NEW self \in Session, CreateTradeCommit(self)
  PROVE  AnswerInv'
<1>1. CASE Rollback(self)
  BY <1>1, RollbackAnswers
<1>2. CASE ~ Rollback(self)
  <2> PICK a : a = sess[self]
    OBVIOUS
  <2> DEFINE row == [status |-> "OPEN", shift |-> a.shift, offeredBy |-> a.user,
                     target |-> a.other, acceptedBy |-> None, declines |-> {}]
  <2>1. PICK t \in TradeId :
          trades[t].status = "unused" /\ trades' = [trades EXCEPT ![t] = row]
    BY <1>2 DEF CreateTradeCommit, First, UnusedTradeIds
  <2>2. Finish(self) /\ trades \in [TradeId -> TradeRow]
    BY <1>2 DEF CreateTradeCommit, AnswerInv, OfferInv, TypeInv, TypeOK, StoreTypeOK
  <2>3. TradeRowOK(row)
    BY DEF TradeRowOK
  <2>4. trades'[t] = row /\ \A r \in TradeId \ {t} : trades'[r] = trades[r]
    BY <2>1, <2>2
  <2>5. \A p \in Session : sess[p].op \in AnswersOps => sess[p].item # t
    BY <2>1 DEF AnswerInv, Answering, KnowsTrade
  <2> QED BY <2>2, <2>3, <2>4, <2>5, EndWithTrade
<1> QED BY <1>1, <1>2

\* Who takes the trade has not declined it, and no one who is about to decline
\* it has taken it: they would hold the same lock.
LEMMA AcceptTradeAnswers ==
  ASSUME AnswerInv, OfferInv', NEW self \in Session, AcceptTradeCommit(self)
  PROVE  AnswerInv'
<1>1. CASE Rollback(self)
  BY <1>1, RollbackAnswers
<1>2. CASE ~ Rollback(self)
  <2> PICK a : a = sess[self]
    OBVIOUS
  <2> PICK old : old = trades[a.item]
    OBVIOUS
  <2> PICK new : new = [old EXCEPT !.status = "ACCEPTED", !.acceptedBy = a.user]
    OBVIOUS
  <2>a. /\ TypeInv /\ sess \in [Session -> SessionState] /\ SessionOK(a)
        /\ trades \in [TradeId -> TradeRow] /\ LocksExclusive
    BY DEF AnswerInv, OfferInv, TypeInv, TypeOK, StoreTypeOK
  <2>1. /\ a.op = "acceptTrade" /\ a.step = "write" /\ Finish(self)
        /\ old.status = "OPEN" /\ old.shift = a.shift
        /\ trades' = [trades EXCEPT ![a.item].status = "ACCEPTED",
                                    ![a.item].acceptedBy = a.user]
    BY <1>2 DEF AcceptTradeCommit, At, OpenTrade
  <2>2. a.user \in User /\ a.item \in TradeId /\ old \in TradeRow
    BY <2>a, <2>1 DEF SessionOK
  <2>3. trades'[a.item] = new /\ \A r \in TradeId \ {a.item} : trades'[r] = trades[r]
    BY <2>a, <2>1, <2>2
  <2>4. KnowsTrade(a, old, held[self]) /\ TradeRowOK(old)
    BY <2>1, <2>2 DEF AnswerInv, Answering, AnswersOps
  <2>5. /\ new.status = "ACCEPTED" /\ new.acceptedBy = a.user /\ new.shift = old.shift
        /\ new.offeredBy = old.offeredBy /\ new.target = old.target
        /\ new.declines = old.declines
    BY <2>2 DEF TradeRow
  <2>6. TradeRowOK(new)
    BY <2>1, <2>4, <2>5 DEF TradeRowOK, KnowsTrade
  <2>7. ASSUME NEW p \in Session \ {self}, sess[p].op \in AnswersOps, sess[p].item = a.item
        PROVE  KnowsTrade(sess[p], new, held[p])
    <3>1. KnowsTrade(sess[p], old, held[p])
      BY <2>7 DEF AnswerInv, Answering
    <3>2. ~ (sess[p].op = "rejectTrade" /\ sess[p].step = "write" /\ old.target = None)
      <4> SUFFICES ASSUME sess[p].op = "rejectTrade", sess[p].step = "write",
                          old.target = None
                   PROVE  FALSE
        OBVIOUS
      <4>1. old.shift # None
        BY <2>1, <2>4 DEF KnowsTrade, OnRecord
      <4>2. /\ OnRecord(sess[p], old) /\ OnRecord(sess[self], old)
            /\ sess[p].step # "lock" /\ sess[self].step # "lock"
            /\ KnowsTrade(sess[self], old, held[self])
        BY <2>1, <2>4 DEF OnRecord
      <4> QED BY <2>a, <3>1, <4>1, <4>2, OneOnRecord
    <3> QED BY <2>5, <3>1, <3>2 DEF KnowsTrade, OnRecord
  <2>8. /\ TradeRowOK(trades'[a.item])
        /\ \A p \in Session \ {self} :
             sess[p].op \in AnswersOps /\ sess[p].item = a.item
               => KnowsTrade(sess[p], trades'[a.item], held[p])
    BY <2>3, <2>6, <2>7
  <2> QED BY <2>1, <2>2, <2>3, <2>8, EndWithTrade
<1> QED BY <1>1, <1>2

\* Who declines the trade has not taken it, and no one who is about to take it
\* while it has a shift has declined it.
LEMMA DeclineTradeAnswers ==
  ASSUME AnswerInv, OfferInv', NEW self \in Session, RejectPoolTradeCommit(self)
  PROVE  AnswerInv'
<1>1. CASE Rollback(self)
  BY <1>1, RollbackAnswers
<1>2. CASE ~ Rollback(self)
  <2> PICK a : a = sess[self]
    OBVIOUS
  <2> PICK old : old = trades[a.item]
    OBVIOUS
  <2> PICK new : new = [old EXCEPT !.declines = @ \cup {a.user}]
    OBVIOUS
  <2>a. /\ TypeInv /\ sess \in [Session -> SessionState] /\ SessionOK(a)
        /\ trades \in [TradeId -> TradeRow] /\ LocksExclusive
    BY DEF AnswerInv, OfferInv, TypeInv, TypeOK, StoreTypeOK
  <2>1. /\ a.op = "rejectTrade" /\ a.step = "write" /\ Finish(self)
        /\ old.target = None
        /\ trades' = [trades EXCEPT ![a.item].declines = @ \cup {a.user}]
    BY <1>2 DEF RejectPoolTradeCommit, At, Pool
  <2>2. a.user \in User /\ a.item \in TradeId /\ old \in TradeRow
    BY <2>a, <2>1 DEF SessionOK
  <2>3. trades'[a.item] = new /\ \A r \in TradeId \ {a.item} : trades'[r] = trades[r]
    BY <2>a, <2>1, <2>2
  <2>4. KnowsTrade(a, old, held[self]) /\ TradeRowOK(old)
    BY <2>1, <2>2 DEF AnswerInv, Answering, AnswersOps
  <2>5. /\ new.status = old.status /\ new.acceptedBy = old.acceptedBy
        /\ new.shift = old.shift /\ new.offeredBy = old.offeredBy
        /\ new.target = old.target /\ new.declines = old.declines \cup {a.user}
    BY <2>2 DEF TradeRow
  <2>6. TradeRowOK(new)
    BY <2>1, <2>4, <2>5 DEF TradeRowOK, KnowsTrade
  <2>7. ASSUME NEW p \in Session \ {self}, sess[p].op \in AnswersOps, sess[p].item = a.item
        PROVE  KnowsTrade(sess[p], new, held[p])
    <3>1. KnowsTrade(sess[p], old, held[p])
      BY <2>7 DEF AnswerInv, Answering
    <3>2. ~ (sess[p].op = "acceptTrade" /\ sess[p].step = "write"
             /\ old.shift = sess[p].shift)
      <4> SUFFICES ASSUME sess[p].op = "acceptTrade", sess[p].step = "write",
                          old.shift = sess[p].shift
                   PROVE  FALSE
        OBVIOUS
      <4>1. old.shift # None
        BY <3>1 DEF KnowsTrade, OnRecord
      <4>2. /\ OnRecord(sess[p], old) /\ OnRecord(sess[self], old)
            /\ sess[p].step # "lock" /\ sess[self].step # "lock"
            /\ KnowsTrade(sess[self], old, held[self])
        BY <2>1, <2>4 DEF OnRecord
      <4> QED BY <2>a, <3>1, <4>1, <4>2, OneOnRecord
    <3> QED BY <2>5, <3>1, <3>2 DEF KnowsTrade, OnRecord
  <2>8. /\ TradeRowOK(trades'[a.item])
        /\ \A p \in Session \ {self} :
             sess[p].op \in AnswersOps /\ sess[p].item = a.item
               => KnowsTrade(sess[p], trades'[a.item], held[p])
    BY <2>3, <2>6, <2>7
  <2> QED BY <2>1, <2>2, <2>3, <2>8, EndWithTrade
<1> QED BY <1>1, <1>2

\* A direct trade that is declined, or any that is withdrawn, is closed.
LEMMA CloseCloses ==
  ASSUME AnswerInv, NEW self, NEW t \in TradeId, NEW status \in {"REJECTED", "CANCELLED"},
         CloseTrade(self, t, status)
  PROVE  ClosesTrades
<1>1. CASE UNCHANGED trades
  BY <1>1, SameClosed
<1>2. CASE OpenTrade(t) /\ trades' = [trades EXCEPT ![t].status = status]
  <2>1. trades \in [TradeId -> TradeRow]
    BY DEF AnswerInv, OfferInv, TypeInv, TypeOK, StoreTypeOK
  <2>2. \A r \in TradeId \ {t} : trades'[r] = trades[r]
    BY <1>2, <2>1
  <2>3. trades'[t] = [trades[t] EXCEPT !.status = status]
    BY <1>2, <2>1
  <2>4. ClosedRow(trades[t], trades'[t])
    BY <1>2, <2>1, <2>3 DEF ClosedRow, TradeRow, OpenTrade
  <2> QED BY <2>2, <2>4 DEF ClosesTrades, ClosedRow
<1> QED BY <1>1, <1>2 DEF CloseTrade, Rollback, tables

-----------------------------------------------------------------------------
(* The invariant of the answers *)

\* The handlers of trades keep it.
LEMMA TradesAnswer ==
  ASSUME AnswerInv, OfferInv', NEW self \in Session, TradeRequest(self) \/ TradeStep(self)
  PROVE  AnswerInv'
<1>a. TypeInv
  BY DEF AnswerInv, OfferInv
<1>1. ASSUME \/ \E u \in User, s \in ShiftId, target \in MaybeUser :
                  CreateTradeBegin(self, u, s, target)
             \/ \E t \in TradeId : CancelTradeBegin(self, t)
             \/ CreateTradeCheck(self)
      PROVE  AnswerInv'
  <2>1. Footprint(self, OffersOps)
    BY <1>a, <1>1, OffersFootprint
  <2>2. UNCHANGED trades
    BY <1>1 DEF CreateTradeBegin, CancelTradeBegin, CreateTradeCheck, Check, Rollback, tables
  <2> QED BY <2>1, <2>2, SameClosed, OtherOpsKeep DEF OffersOps, AnswersOps
<1>2. CASE CancelTradeCommit(self) \/ RejectDirectTradeCommit(self)
  <2>1. sess[self].item \in TradeId
    BY <1>a, <1>2 DEF CancelTradeCommit, RejectDirectTradeCommit, At, TypeInv, SessionOK
  <2>2. ClosesTrades /\ (Finish(self) \/ Rollback(self))
    BY <1>2, <2>1, CloseCloses DEF CancelTradeCommit, RejectDirectTradeCommit, CloseTrade
  <2> QED BY <2>2, EndCloses, RollbackAnswers
<1> QED BY <1>1, <1>2, BeginAnswerKeeps, LockAnswerKeeps, CheckAnswerKeeps,
           CreateTradeAnswers, AcceptTradeAnswers, DeclineTradeAnswers
        DEF TradeRequest, TradeStep

\* An edit of a shift closes its trades, and writes no other.
LEMMA ShiftsClose ==
  ASSUME AnswerInv, NEW self \in Session, ShiftRequest(self) \/ ShiftStep(self)
  PROVE  ClosesTrades
<1>a. TypeInv
  BY DEF AnswerInv, OfferInv
<1>1. ASSUME ~ UpdateShiftCommit(self), ~ DeleteShiftCommit(self) PROVE UNCHANGED trades
  BY <1>1
  DEF ShiftRequest, ShiftStep, CreateShiftBegin, UpdateShiftBegin, DeleteShiftBegin,
      CreateShiftCheck, CreateShiftCommit, UpdateShiftRead, UpdateShiftLockUser,
      UpdateShiftCheck, DeleteShiftCheck, UpdateShiftFind, DeleteShiftFind, Find, Check,
      Rollback, tables
<1>2. CASE UpdateShiftCommit(self)
  BY <1>2, SameClosed, ResolveCloses DEF UpdateShiftCommit, LiveShift, Rollback, tables
<1>3. CASE DeleteShiftCommit(self)
  BY <1>3, SameClosed, ResolveCloses DEF DeleteShiftCommit, LiveShift, Rollback, tables
<1> QED BY <1>1, <1>2, <1>3, SameClosed

\* It holds where there is nothing yet.
LEMMA InitAnswerInv == Init => AnswerInv
BY InitOfferInv, IdleOp
   DEF Init, StoreInit, AnswerInv, TradeRowOK, Answering, AnswersOps, UnusedTrade

\* Every step keeps it.
LEMMA AnswerInvInductive == AnswerInv /\ [Next]_vars => AnswerInv'
<1> SUFFICES ASSUME AnswerInv, [Next]_vars PROVE AnswerInv'
  OBVIOUS
<1>1. OfferInv' /\ TypeInv
  BY OfferInvInductive DEF AnswerInv, OfferInv
<1>2. ASSUME NEW self \in Session, ShiftRequest(self) \/ ShiftStep(self) PROVE AnswerInv'
  BY <1>1, <1>2, ShiftsFootprint, ShiftsClose, OtherOpsKeep DEF ShiftsOps, AnswersOps
<1>3. ASSUME NEW self \in Session, TradeRequest(self) \/ TradeStep(self) PROVE AnswerInv'
  BY <1>1, <1>3, TradesAnswer
<1>4. ASSUME NEW self \in Session, StaffingRequest(self) \/ StaffingStep(self) PROVE AnswerInv'
  BY <1>1, <1>4, StaffingFootprint, SameClosed, OtherOpsKeep DEF StaffingOps, AnswersOps
<1>5. ASSUME NEW self \in Session, ClockRequest(self) \/ ClockStep(self) PROVE AnswerInv'
  BY <1>1, <1>5, ClocksFootprint, SameClosed, OtherOpsKeep DEF ClocksOps, AnswersOps
<1>6. ASSUME NEW self \in Session, LeaveRequest(self) \/ LeaveStep(self) PROVE AnswerInv'
  BY <1>1, <1>6, LeavesFootprint, SameClosed, OtherOpsKeep DEF LeavesOps, AnswersOps
<1>7. ASSUME NEW self \in Session, Crash(self) PROVE AnswerInv'
  BY <1>1, <1>7, RollbackAnswers DEF Crash
<1>8. CASE UNCHANGED <<trades, held, sess>>
  BY <1>1, <1>8 DEF AnswerInv, Answering
<1> QED BY <1>2, <1>3, <1>4, <1>5, <1>6, <1>7, <1>8
        DEF Next, Request, Advance, ExpireLeaves, Tick, tables, vars

\* Whoever declined a pool trade has not taken it, however his answers from two
\* devices, the edits of the shift and crashes interleave.
THEOREM DeclinersNeverAccept == Spec => []TradeDeclinerNeverAccepts
<1>1. AnswerInv => TradeDeclinerNeverAccepts
  BY DEF AnswerInv, TradeRowOK, TradeDeclinerNeverAccepts
<1> QED BY <1>1, InitAnswerInv, AnswerInvInductive, PTL DEF Spec

-----------------------------------------------------------------------------
(* Who has a shift.  Every handler that gives an existing shift to somebody  *)
(* holds its record lock, so that an edit still finds the assignee it has    *)
(* read when it decides whether the offers of the shift are void.             *)

Records(a) ==
  \/ a.op \in {"updateShift", "deleteShift"}
  \/ a.op \in {"acceptTrade", "acceptRequest"} /\ a.step # "lock"

OnShift(p) == Records(sess[p]) => RecordLock(sess[p].shift) \in held[p]

Editing(p) ==
  sess[p].op = "updateShift" /\ sess[p].step # "read" =>
    LiveShift(sess[p].shift) /\ shifts[sess[p].shift].user = sess[p].oldUser

NobodyHasDeleted == \A s \in ShiftId : shifts[s].state # "live" => shifts[s].user = None

RecordInv ==
  /\ AnswerInv
  /\ NobodyHasDeleted
  /\ \A p \in Session : OnShift(p) /\ Editing(p)

\* A step writes new shifts and the one whose record lock it holds.
WritesOwnShift(self) ==
  \A s \in ShiftId :
    \/ shifts'[s] = shifts[s]
    \/ shifts[s].state = "unused"
    \/ Records(sess[self]) /\ sess[self].shift = s

\* What a step has to keep besides its own request.
LEMMA RecordKeeps ==
  ASSUME RecordInv, AnswerInv', NEW self \in Session, NEW ops, Footprint(self, ops),
         WritesOwnShift(self), NobodyHasDeleted', (OnShift(self) /\ Editing(self))'
  PROVE  RecordInv'
<1>1. ASSUME NEW p \in Session, p # self PROVE (OnShift(p) /\ Editing(p))'
  <2>1. sess'[p] = sess[p] /\ held'[p] = held[p]
    BY <1>1 DEF Footprint, TakesLocks
  <2>2. OnShift(p) /\ Editing(p) /\ OnShift(self) /\ LocksExclusive
    BY DEF RecordInv, AnswerInv, OfferInv
  <2>3. Records(sess[p]) /\ Records(sess[self]) => sess[p].shift # sess[self].shift
    BY <1>1, <2>2 DEF OnShift, LocksExclusive
  <2>4. ASSUME sess[p].op = "updateShift", sess[p].step # "read"
        PROVE  shifts'[sess[p].shift] = shifts[sess[p].shift] /\ sess[p].shift \in ShiftId
    BY <2>2, <2>3, <2>4 DEF Editing, LiveShift, WritesOwnShift, Records
  <2> QED BY <2>1, <2>2, <2>4 DEF OnShift, Editing, LiveShift
<1> QED BY <1>1 DEF RecordInv

\* Handlers that hold no record lock.
LEMMA NoRecordKeeps ==
  ASSUME RecordInv, AnswerInv', NEW self \in Session, NEW ops, Footprint(self, ops),
         WritesOwnShift(self), NobodyHasDeleted',
         ops \cap {"updateShift", "deleteShift", "acceptTrade", "acceptRequest"} = {}
  PROVE  RecordInv'
<1>1. sess'[self].op \notin {"updateShift", "deleteShift", "acceptTrade", "acceptRequest"}
  BY DEF Footprint
<1>2. (OnShift(self) /\ Editing(self))'
  BY <1>1 DEF OnShift, Editing, Records
<1> QED BY <1>2, RecordKeeps

\* Steps that leave the shifts alone.
LEMMA SameShifts ==
  ASSUME RecordInv, UNCHANGED shifts, NEW self \in Session
  PROVE  WritesOwnShift(self) /\ NobodyHasDeleted'
BY DEF RecordInv, WritesOwnShift, NobodyHasDeleted

\* The end of a transaction that wrote its own shift.
LEMMA EndRecords ==
  ASSUME RecordInv, AnswerInv', NEW self \in Session, Finish(self),
         WritesOwnShift(self), NobodyHasDeleted'
  PROVE  RecordInv'
<1>1. Footprint(self, {})
  BY FinishFoot DEF RecordInv, AnswerInv, OfferInv
<1> QED BY <1>1, NoRecordKeeps

\* A refusal keeps the invariant of the records.
LEMMA RollbackRecords ==
  ASSUME RecordInv, AnswerInv', NEW self \in Session, Rollback(self)
  PROVE  RecordInv'
BY EndRecords, SameShifts DEF Rollback, tables

\* A new shift.
LEMMA InsertOwn ==
  ASSUME RecordInv, NEW self \in Session, NEW s \in ShiftId, NEW u, NEW c, NEW i,
         InsertShift(s, u, c, i)
  PROVE  WritesOwnShift(self) /\ NobodyHasDeleted' /\ shifts[s].user = None
<1>1. shifts \in [ShiftId -> ShiftRow] /\ NobodyHasDeleted
  BY DEF RecordInv, AnswerInv, OfferInv, TypeInv, TypeOK, StoreTypeOK
<1>2. shifts[s].state = "unused"
  BY DEF InsertShift, First, UnusedShiftIds
<1>3. \A r \in ShiftId \ {s} : shifts'[r] = shifts[r]
  BY <1>1 DEF InsertShift
<1>4. shifts'[s].state = "live"
  BY <1>1 DEF InsertShift
<1> QED BY <1>1, <1>2, <1>3, <1>4 DEF WritesOwnShift, NobodyHasDeleted

\* A shift somebody is given, or whose assignment or period is edited.
LEMMA AssignOwn ==
  ASSUME RecordInv, NEW self \in Session, Records(sess[self]), LiveShift(sess[self].shift),
         \A r \in ShiftId \ {sess[self].shift} : shifts'[r] = shifts[r],
         shifts'[sess[self].shift].state = "live" \/ shifts'[sess[self].shift].user = None
  PROVE  WritesOwnShift(self) /\ NobodyHasDeleted'
BY DEF RecordInv, WritesOwnShift, NobodyHasDeleted, LiveShift

-----------------------------------------------------------------------------
(* The edits of a shift *)

\* The step that reads the shift leaves its request with the assignee it found.
LEMMA UpdateReadKeeps ==
  ASSUME RecordInv, AnswerInv', NEW self \in Session, UpdateShiftRead(self)
  PROVE  RecordInv'
<1>1. CASE Rollback(self)
  BY <1>1, RollbackRecords
<1>2. CASE ~ Rollback(self)
  <2> PICK a : a = sess[self]
    OBVIOUS
  <2> PICK b : b = sess'[self]
    OBVIOUS
  <2>a. TypeInv /\ sess \in [Session -> SessionState] /\ a \in SessionState
    BY DEF RecordInv, AnswerInv, OfferInv, TypeInv, TypeOK, StoreTypeOK
  <2>1. /\ a.op = "updateShift" /\ LiveShift(a.shift) /\ UNCHANGED <<shifts, held>>
        /\ sess' = [sess EXCEPT ![self].step = "users",
                      ![self].oldUser = shifts[sess[self].shift].user,
                      ![self].oldIvl = shifts[sess[self].shift].ivl,
                      ![self].cinema = shifts[sess[self].shift].cinema]
    BY <1>2 DEF UpdateShiftRead, At, tables
  <2>2. /\ b.op = a.op /\ b.shift = a.shift /\ b.oldUser = shifts[a.shift].user
    BY <2>a, <2>1 DEF SessionState
  <2>3. Footprint(self, ShiftsOps)
    BY <2>a, ShiftsFootprint DEF ShiftStep
  <2>4. RecordLock(a.shift) \in held[self]
    BY <2>1 DEF RecordInv, OnShift, Records
  <2>5. (OnShift(self) /\ Editing(self))'
    BY <2>1, <2>2, <2>4 DEF OnShift, Editing, LiveShift
  <2> QED BY <2>1, <2>3, <2>5, SameShifts, RecordKeeps
<1> QED BY <1>1, <1>2

\* The other steps before the commit.
LEMMA ShiftStepKeeps ==
  ASSUME RecordInv, AnswerInv', NEW self \in Session,
         \/ \E u \in User : UpdateShiftLockUser(self, u)
         \/ UpdateShiftCheck(self) \/ DeleteShiftCheck(self)
         \/ UpdateShiftFind(self) \/ DeleteShiftFind(self)
  PROVE  RecordInv'
<1>1. CASE Rollback(self)
  BY <1>1, RollbackRecords
<1>2. CASE ~ Rollback(self)
  <2> PICK a : a = sess[self]
    OBVIOUS
  <2> PICK b : b = sess'[self]
    OBVIOUS
  <2>a. /\ TypeInv /\ sess \in [Session -> SessionState] /\ a \in SessionState
        /\ held \in [Session -> SUBSET LockKey]
    BY DEF RecordInv, AnswerInv, OfferInv, TypeInv, TypeOK, StoreTypeOK
  <2>1. UNCHANGED shifts /\ Footprint(self, ShiftsOps)
    BY <1>2, <2>a, ShiftsFootprint
    DEF ShiftStep, UpdateShiftLockUser, UpdateShiftCheck, DeleteShiftCheck, UpdateShiftFind,
        DeleteShiftFind, Find, Check, tables
  <2>2. /\ a.op \in {"updateShift", "deleteShift"}
        /\ a.op = "updateShift" => a.step # "read"
        /\ b.op = a.op /\ b.shift = a.shift /\ b.oldUser = a.oldUser
        /\ held[self] \subseteq held'[self]
    BY <1>2, <2>a, FindKeepsOp
    DEF UpdateShiftLockUser, UpdateShiftCheck, DeleteShiftCheck, UpdateShiftFind,
        DeleteShiftFind, Check, At, Goto, Acquire, SessionState
  <2>3. OnShift(self) /\ Editing(self)
    BY DEF RecordInv
  <2>4. (OnShift(self) /\ Editing(self))'
    BY <2>1, <2>2, <2>3 DEF OnShift, Editing, LiveShift, Records
  <2> QED BY <2>1, <2>4, SameShifts, RecordKeeps
<1> QED BY <1>1, <1>2

\* An edit takes the record lock first.
LEMMA ShiftBeginKeeps ==
  ASSUME RecordInv, AnswerInv', NEW self \in Session, NEW s \in ShiftId,
         \/ \E u \in MaybeUser, i \in Interval : UpdateShiftBegin(self, s, u, i)
         \/ DeleteShiftBegin(self, s)
  PROVE  RecordInv'
<1>a. /\ TypeInv /\ sess \in [Session -> SessionState] /\ held \in [Session -> SUBSET LockKey]
  BY DEF RecordInv, AnswerInv, OfferInv, TypeInv, TypeOK, StoreTypeOK
<1>1. UNCHANGED shifts /\ Footprint(self, ShiftsOps)
  BY <1>a, ShiftsFootprint DEF ShiftRequest, UpdateShiftBegin, DeleteShiftBegin, tables
<1>2. /\ sess'[self].shift = s /\ RecordLock(s) \in held'[self]
      /\ sess'[self].op = "updateShift" => sess'[self].step = "read"
  <2>1. ASSUME NEW u \in MaybeUser, NEW i \in Interval, UpdateShiftBegin(self, s, u, i)
        PROVE  sess'[self].shift = s /\ sess'[self].step = "read"
    BY <1>a, <2>1 DEF UpdateShiftBegin, Begin, Idle
  <2>2. CASE DeleteShiftBegin(self, s)
    <3>1. sess'[self].shift = s /\ sess'[self].op = "deleteShift"
      BY <1>a, <2>2 DEF DeleteShiftBegin, Begin, Idle
    <3> QED BY <1>a, <2>2, <3>1 DEF DeleteShiftBegin, Acquire
  <2>3. RecordLock(s) \in held'[self]
    BY <1>a DEF UpdateShiftBegin, DeleteShiftBegin, Acquire
  <2> QED BY <2>1, <2>2, <2>3
<1>3. (OnShift(self) /\ Editing(self))'
  BY <1>2 DEF OnShift, Editing
<1> QED BY <1>1, <1>3, SameShifts, RecordKeeps

\* The handlers that edit a shift.
LEMMA ShiftsRecord ==
  ASSUME RecordInv, AnswerInv', NEW self \in Session, ShiftRequest(self) \/ ShiftStep(self)
  PROVE  RecordInv'
<1>a. /\ TypeInv /\ shifts \in [ShiftId -> ShiftRow]
  BY DEF RecordInv, AnswerInv, OfferInv, TypeInv, TypeOK, StoreTypeOK
<1>1. ASSUME \/ \E u \in MaybeUser, c \in Cinema, i \in Interval : CreateShiftBegin(self, u, c, i)
             \/ CreateShiftCheck(self)
      PROVE  RecordInv'
  <2>1. UNCHANGED shifts
    BY <1>1 DEF CreateShiftBegin, CreateShiftCheck, Check, Rollback, tables
  <2>2. ASSUME NEW u \in MaybeUser, NEW c \in Cinema, NEW i \in Interval,
               CreateShiftBegin(self, u, c, i)
        PROVE  Footprint(self, {"createShift"})
    <3> DEFINE a == [Idle EXCEPT !.op = "createShift", !.step = "check",
                       !.user = u, !.cinema = c, !.ivl = i]
    <3>1. a.op \in {"createShift"}
      BY DEF Idle
    <3>2. Begin(self, a) /\ TakesLocks(self)
      BY <1>a, <2>2, AcquireTakes DEF CreateShiftBegin
    <3> HIDE DEF a
    <3> QED BY <1>a, <3>1, <3>2, BeginFoot
  <2>3. ASSUME CreateShiftCheck(self) PROVE Footprint(self, {"createShift"})
    <3>1. sess[self].op \in {"createShift"}
      BY <2>3 DEF CreateShiftCheck, At
    <3>2. \/ Goto(self, "write") /\ UNCHANGED <<tables, now, held>>
          \/ Rollback(self)
      BY <2>3 DEF CreateShiftCheck, Check
    <3> QED BY <1>a, <3>1, <3>2, CheckFoot
  <2>4. Footprint(self, {"createShift"})
    BY <1>1, <2>2, <2>3
  <2> QED BY <2>1, <2>4, SameShifts, NoRecordKeeps
<1>2. CASE CreateShiftCommit(self)
  BY <1>2, RollbackRecords, InsertOwn, EndRecords DEF CreateShiftCommit
<1>3. CASE UpdateShiftCommit(self)
  <2>1. CASE Rollback(self)
    BY <2>1, RollbackRecords
  <2>2. CASE ~ Rollback(self)
    <3> PICK a : a = sess[self]
      OBVIOUS
    <3>1. /\ Finish(self) /\ Records(a) /\ LiveShift(a.shift)
          /\ shifts' = [shifts EXCEPT ![a.shift].user = a.user, ![a.shift].ivl = a.ivl]
      BY <1>3, <2>2 DEF UpdateShiftCommit, At, Records
    <3>2. /\ \A r \in ShiftId \ {a.shift} : shifts'[r] = shifts[r]
          /\ shifts'[a.shift].state = "live"
      BY <1>a, <3>1 DEF LiveShift, ShiftRow
    <3> QED BY <3>1, <3>2, AssignOwn, EndRecords
  <2> QED BY <2>1, <2>2
<1>4. CASE DeleteShiftCommit(self)
  <2>1. CASE Rollback(self)
    BY <2>1, RollbackRecords
  <2>2. CASE ~ Rollback(self)
    <3> PICK a : a = sess[self]
      OBVIOUS
    <3>1. /\ Finish(self) /\ Records(a) /\ LiveShift(a.shift)
          /\ shifts' = [shifts EXCEPT ![a.shift] = [UnusedShift EXCEPT !.state = "deleted"]]
      BY <1>4, <2>2 DEF DeleteShiftCommit, At, Records
    <3>2. /\ \A r \in ShiftId \ {a.shift} : shifts'[r] = shifts[r]
          /\ shifts'[a.shift].user = None
      BY <1>a, <3>1 DEF LiveShift, UnusedShift
    <3> QED BY <3>1, <3>2, AssignOwn, EndRecords
  <2> QED BY <2>1, <2>2
<1> QED BY <1>1, <1>2, <1>3, <1>4, ShiftBeginKeeps, UpdateReadKeeps, ShiftStepKeeps
        DEF ShiftRequest, ShiftStep

-----------------------------------------------------------------------------
(* The answers, which give a shift to another *)

\* An acceptance of a trade: AnswerInv says that it holds the record lock.
LEMMA TradesRecord ==
  ASSUME RecordInv, AnswerInv', NEW self \in Session, TradeRequest(self) \/ TradeStep(self)
  PROVE  RecordInv'
<1>a. TypeInv /\ shifts \in [ShiftId -> ShiftRow] /\ Footprint(self, TradesOps)
  BY TradesFootprint DEF RecordInv, AnswerInv, OfferInv, TypeInv, TypeOK, StoreTypeOK
<1>1. sess'[self].op \notin {"updateShift", "deleteShift", "acceptRequest"}
  BY <1>a DEF Footprint, TradesOps, OffersOps, AnswersOps
<1>2. (OnShift(self) /\ Editing(self))'
  BY <1>1 DEF OnShift, Editing, Records, AnswerInv, Answering, AnswersOps, KnowsTrade, OnRecord
<1>3. CASE AcceptTradeCommit(self)
  <2>1. CASE Rollback(self)
    BY <2>1, RollbackRecords
  <2>2. CASE ~ Rollback(self)
    <3> PICK a : a = sess[self]
      OBVIOUS
    <3>1. /\ Finish(self) /\ Records(a) /\ LiveShift(a.shift)
          /\ shifts' = [shifts EXCEPT ![a.shift].user = a.user]
      BY <1>3, <2>2 DEF AcceptTradeCommit, At, Records
    <3>2. /\ \A r \in ShiftId \ {a.shift} : shifts'[r] = shifts[r]
          /\ shifts'[a.shift].state = "live"
      BY <1>a, <3>1 DEF LiveShift, ShiftRow
    <3> QED BY <3>1, <3>2, AssignOwn, EndRecords
  <2> QED BY <2>1, <2>2
<1>4. CASE ~ AcceptTradeCommit(self)
  <2>1. UNCHANGED shifts
    BY <1>4
    DEF TradeRequest, TradeStep, CreateTradeBegin, AcceptTradeBegin, RejectTradeBegin,
        CancelTradeBegin, CreateTradeCheck, CreateTradeCommit, AcceptTradeLock,
        AcceptTradeCheck, RejectPoolTradeLock, RejectPoolTradeCheck, RejectPoolTradeCommit,
        RejectDirectTradeCommit, CancelTradeCommit, CloseTrade, Check, Rollback, tables
  <2> QED BY <1>a, <1>2, <2>1, SameShifts, RecordKeeps
<1> QED BY <1>3, <1>4

\* The steps of an acceptance of a staffing request before its commit.
LEMMA AcceptRequestRecord ==
  ASSUME RecordInv, AnswerInv', NEW self \in Session,
         \/ \E u \in User, r \in RequestId : AcceptRequestBegin(self, u, r)
         \/ AcceptRequestLock(self) \/ AcceptRequestCheck(self) \/ AcceptRequestFind(self)
  PROVE  RecordInv'
<1>a. /\ TypeInv /\ sess \in [Session -> SessionState] /\ held \in [Session -> SUBSET LockKey]
      /\ Footprint(self, StaffingOps)
  BY StaffingFootprint
  DEF RecordInv, AnswerInv, OfferInv, TypeInv, TypeOK, StoreTypeOK, StaffingRequest, StaffingStep
<1>1. UNCHANGED shifts
  BY DEF AcceptRequestBegin, AcceptRequestLock, AcceptRequestCheck, AcceptRequestFind, Find,
         Check, Rollback, tables
<1>2. sess'[self].op \notin {"updateShift", "deleteShift", "acceptTrade"}
  BY <1>a DEF Footprint, StaffingOps
<1>3. CASE Rollback(self)
  BY <1>3, RollbackRecords
<1>4. CASE ~ Rollback(self)
  <2>1. ASSUME NEW u \in User, NEW r \in RequestId, AcceptRequestBegin(self, u, r)
        PROVE  sess'[self].step = "lock"
    BY <1>a, <2>1 DEF AcceptRequestBegin, Begin, Idle
  <2>2. CASE AcceptRequestLock(self)
    <3>1. sess'[self].shift = sess[self].shift
      BY <1>a, <2>2 DEF AcceptRequestLock, Goto, SessionState
    <3>2. RecordLock(sess[self].shift) \in held'[self]
      BY <1>a, <2>2 DEF AcceptRequestLock, Acquire
    <3> QED BY <1>a, <1>1, <1>2, <3>1, <3>2, SameShifts, RecordKeeps DEF OnShift, Editing
  <2>3. CASE AcceptRequestCheck(self)
    <3>1. sess'[self].shift = sess[self].shift /\ held' = held
      BY <1>a, <1>4, <2>3 DEF AcceptRequestCheck, Check, Goto, SessionState
    <3>2. RecordLock(sess[self].shift) \in held[self]
      BY <2>3 DEF AcceptRequestCheck, At, RecordInv, OnShift, Records
    <3> QED BY <1>a, <1>1, <1>2, <3>1, <3>2, SameShifts, RecordKeeps DEF OnShift, Editing
  <2>f. CASE AcceptRequestFind(self)
    <3>1. sess'[self].shift = sess[self].shift /\ held' = held
      BY <1>a, <2>f, FindKeepsOp DEF AcceptRequestFind
    <3>2. RecordLock(sess[self].shift) \in held[self]
      BY <2>f DEF AcceptRequestFind, At, RecordInv, OnShift, Records
    <3> QED BY <1>a, <1>1, <1>2, <3>1, <3>2, SameShifts, RecordKeeps DEF OnShift, Editing
  <2>4. ASSUME sess'[self].step = "lock" PROVE RecordInv'
    BY <1>a, <1>1, <1>2, <2>4, SameShifts, RecordKeeps DEF OnShift, Editing, Records
  <2> QED BY <2>1, <2>2, <2>3, <2>4, <2>f
<1> QED BY <1>3, <1>4

\* The handlers of staffing requests.
LEMMA StaffingRecord ==
  ASSUME RecordInv, AnswerInv', NEW self \in Session,
         StaffingRequest(self) \/ StaffingStep(self)
  PROVE  RecordInv'
<1>a. /\ TypeInv /\ shifts \in [ShiftId -> ShiftRow] /\ sess \in [Session -> SessionState]
      /\ Footprint(self, StaffingOps)
  BY StaffingFootprint DEF RecordInv, AnswerInv, OfferInv, TypeInv, TypeOK, StoreTypeOK
<1>1. CASE AcceptRequestCommit(self)
  <2>1. CASE Rollback(self)
    BY <2>1, RollbackRecords
  <2>2. CASE ~ Rollback(self)
    <3> PICK a : a = sess[self]
      OBVIOUS
    <3>1. /\ Finish(self) /\ Records(a) /\ LiveShift(a.shift)
          /\ shifts' = [shifts EXCEPT ![a.shift].user = a.user]
      BY <1>1, <2>2 DEF AcceptRequestCommit, At, Records
    <3>2. /\ \A r \in ShiftId \ {a.shift} : shifts'[r] = shifts[r]
          /\ shifts'[a.shift].state = "live"
      BY <1>a, <3>1 DEF LiveShift, ShiftRow
    <3> QED BY <3>1, <3>2, AssignOwn, EndRecords
  <2> QED BY <2>1, <2>2
<1>2. CASE CreateRequestInsertShift(self)
  <2>1. CASE Rollback(self)
    BY <2>1, RollbackRecords
  <2>2. CASE ~ Rollback(self)
    <3>1. sess[self].op = "createRequest" /\ sess'[self].op = sess[self].op
      BY <1>a, <1>2, <2>2 DEF CreateRequestInsertShift, At, SessionState
    <3>2. (OnShift(self) /\ Editing(self))'
      BY <3>1 DEF OnShift, Editing, Records
    <3>3. WritesOwnShift(self) /\ NobodyHasDeleted'
      BY <1>2, <2>2, InsertOwn DEF CreateRequestInsertShift
    <3> QED BY <1>a, <3>2, <3>3, RecordKeeps
  <2> QED BY <2>1, <2>2
<1>3. ASSUME \/ CreateRequestCommit(self) \/ RejectBroadcastCommit(self)
             \/ RejectTargetedCommit(self) \/ CancelRequestCommit(self)
      PROVE  RecordInv'
  <2>1. UNCHANGED shifts /\ (Finish(self) \/ Rollback(self))
    BY <1>3 DEF CreateRequestCommit, RejectBroadcastCommit, RejectTargetedCommit,
                CancelRequestCommit, CloseRequest, Rollback, tables
  <2> QED BY <2>1, SameShifts, EndRecords, RollbackRecords
<1>4. ASSUME \/ \E s \in ShiftId, target \in MaybeUser : CreateRequestForShift(self, s, target)
             \/ \E c \in Cinema, i \in Interval, target \in MaybeUser :
                  CreateRequestForPeriod(self, c, i, target)
             \/ \E u \in User, r \in RequestId : RejectRequestBegin(self, u, r)
             \/ \E r \in RequestId : CancelRequestBegin(self, r)
             \/ RejectBroadcastCheck(self)
      PROVE  RecordInv'
  <2>1. UNCHANGED shifts
    BY <1>4 DEF CreateRequestForShift, CreateRequestForPeriod, RejectRequestBegin,
                CancelRequestBegin, RejectBroadcastCheck, Check, Rollback, tables
  <2>2. sess'[self].op \notin {"updateShift", "deleteShift", "acceptTrade", "acceptRequest"}
    <3>1. ASSUME NEW s \in ShiftId, NEW target \in MaybeUser,
                 CreateRequestForShift(self, s, target)
          PROVE  sess'[self].op = "createRequest"
      BY <1>a, <3>1 DEF CreateRequestForShift, Begin, Idle
    <3>2. ASSUME NEW c \in Cinema, NEW i \in Interval, NEW target \in MaybeUser,
                 CreateRequestForPeriod(self, c, i, target)
          PROVE  sess'[self].op = "createRequest"
      BY <1>a, <3>2 DEF CreateRequestForPeriod, Begin, Idle
    <3>3. ASSUME NEW u \in User, NEW r \in RequestId, RejectRequestBegin(self, u, r)
          PROVE  sess'[self].op = "rejectRequest"
      BY <1>a, <3>3 DEF RejectRequestBegin, Begin, Idle
    <3>4. ASSUME NEW r \in RequestId, CancelRequestBegin(self, r)
          PROVE  sess'[self].op = "cancelRequest"
      BY <1>a, <3>4 DEF CancelRequestBegin, Begin, Idle
    <3>5. ASSUME RejectBroadcastCheck(self)
          PROVE  sess'[self].op \in {"rejectRequest", "none"}
      BY <1>a, <3>5, IdleOp DEF RejectBroadcastCheck, At, Check, Goto, Rollback, Finish,
         SessionState
    <3> QED BY <1>4, <3>1, <3>2, <3>3, <3>4, <3>5
  <2>3. (OnShift(self) /\ Editing(self))'
    BY <2>2 DEF OnShift, Editing, Records
  <2> QED BY <1>a, <2>1, <2>3, SameShifts, RecordKeeps
<1> QED BY <1>1, <1>2, <1>3, <1>4, AcceptRequestRecord DEF StaffingRequest, StaffingStep

\* Absence and clocking write no shift.
LEMMA LeavesAndClocksSpareShifts ==
  ASSUME NEW self \in Session,
         LeaveRequest(self) \/ LeaveStep(self) \/ ClockRequest(self) \/ ClockStep(self)
  PROVE  UNCHANGED shifts
BY DEF LeaveRequest, LeaveStep, ClockRequest, ClockStep, CreateLeaveBegin, CreateLeaveCheck,
       CreateLeaveCommit, SetLeaveStatusBegin, SetLeaveStatusRead, SetLeaveStatusLockUser,
       SetLeaveStatusCheck, SetLeaveStatusCommit, ClockInBegin, ClockInLock, ClockInCheck,
       ClockInCommit, ClockOutBegin, ClockOutCommit, Check, Rollback, tables

\* It holds where there is no shift.
LEMMA InitRecordInv == Init => RecordInv
BY InitAnswerInv, IdleOp
   DEF Init, StoreInit, RecordInv, NobodyHasDeleted, OnShift, Editing, Records, UnusedShift

\* Every step keeps the invariant of the records.
LEMMA RecordInvInductive == RecordInv /\ [Next]_vars => RecordInv'
<1> SUFFICES ASSUME RecordInv, [Next]_vars PROVE RecordInv'
  OBVIOUS
<1>1. AnswerInv' /\ TypeInv
  BY AnswerInvInductive DEF RecordInv, AnswerInv, OfferInv
<1>2. ASSUME NEW self \in Session, ShiftRequest(self) \/ ShiftStep(self) PROVE RecordInv'
  BY <1>1, <1>2, ShiftsRecord
<1>3. ASSUME NEW self \in Session, TradeRequest(self) \/ TradeStep(self) PROVE RecordInv'
  BY <1>1, <1>3, TradesRecord
<1>4. ASSUME NEW self \in Session, StaffingRequest(self) \/ StaffingStep(self) PROVE RecordInv'
  BY <1>1, <1>4, StaffingRecord
<1>5. ASSUME NEW self \in Session, ClockRequest(self) \/ ClockStep(self) PROVE RecordInv'
  <2>1. UNCHANGED shifts /\ Footprint(self, ClocksOps)
    BY <1>1, <1>5, ClocksFootprint, LeavesAndClocksSpareShifts
  <2> QED BY <1>1, <2>1, SameShifts, NoRecordKeeps DEF ClocksOps
<1>6. ASSUME NEW self \in Session, LeaveRequest(self) \/ LeaveStep(self) PROVE RecordInv'
  <2>1. UNCHANGED shifts /\ Footprint(self, LeavesOps)
    BY <1>1, <1>6, LeavesFootprint, LeavesAndClocksSpareShifts
  <2> QED BY <1>1, <2>1, SameShifts, NoRecordKeeps DEF LeavesOps
<1>7. ASSUME NEW self \in Session, Crash(self) PROVE RecordInv'
  BY <1>1, <1>7, RollbackRecords DEF Crash
<1>8. CASE UNCHANGED <<shifts, held, sess>>
  BY <1>1, <1>8 DEF RecordInv, NobodyHasDeleted, OnShift, Editing, LiveShift
<1> QED BY <1>2, <1>3, <1>4, <1>5, <1>6, <1>7, <1>8
        DEF Next, Request, Advance, ExpireLeaves, Tick, tables, vars

-----------------------------------------------------------------------------
(* Trading implements the ledger *)

LedgerStep == [Ledger!LedgerNext]_<<holderOf, offerOf>>

\* The offer that a row of ShiftTrade stands for.
OfferRow(row) ==
  [status |-> LedgerStatus(row.status), shift |-> row.shift, maker |-> row.offeredBy,
   taker |-> row.acceptedBy, refused |-> row.declines]

\* The offers of the ledger are the rows of ShiftTrade.
LEMMA OfferRows ==
  /\ offerOf = [t \in TradeId |-> OfferRow(trades[t])]
  /\ offerOf' = [t \in TradeId |-> OfferRow(trades'[t])]
BY DEF offerOf, OfferRow

\* Statuses that the ledger tells apart.
LEMMA Statuses ==
  /\ LedgerStatus("unused") = "unused" /\ LedgerStatus("OPEN") = "OPEN"
  /\ LedgerStatus("ACCEPTED") = "TAKEN" /\ LedgerStatus("REJECTED") = "CLOSED"
  /\ LedgerStatus("CANCELLED") = "CLOSED"
BY DEF LedgerStatus

\* The ledger's open offers are the open trades.
LEMMA OpenOffers ==
  ASSUME TypeInv, NEW t \in TradeId
  PROVE  /\ Ledger!Open(t) <=> OpenTrade(t)
         /\ \A s : t \in Ledger!OpenOn(s) <=> OpenTrade(t) /\ trades[t].shift = s
<1>1. trades[t].status \in TradeStatus
  BY DEF TypeInv, TypeOK, StoreTypeOK, TradeRow
<1>2. offerOf[t].status = LedgerStatus(trades[t].status) /\ offerOf[t].shift = trades[t].shift
  BY DEF offerOf
<1>3. Ledger!Open(t) <=> OpenTrade(t)
  BY <1>1, <1>2, Statuses DEF TradeStatus, OpenTrade, Ledger!Open
<1> QED BY <1>2, <1>3 DEF Ledger!OpenOn

\* A step that gives no shift and writes no trade is none of the ledger.
LEMMA Stutters ==
  ASSUME UNCHANGED trades, \A s \in ShiftId : shifts'[s].user = shifts[s].user
  PROVE  LedgerStep
BY DEF LedgerStep, holderOf, offerOf

\* A new shift.
LEMMA InsertFills ==
  ASSUME RecordInv, NEW s \in ShiftId, NEW u \in MaybeUser, NEW c, NEW i,
         InsertShift(s, u, c, i), UNCHANGED trades
  PROVE  LedgerStep
<1>1. shifts \in [ShiftId -> ShiftRow] /\ NobodyHasDeleted
  BY DEF RecordInv, AnswerInv, OfferInv, TypeInv, TypeOK, StoreTypeOK
<1>2. /\ shifts[s].user = None /\ shifts'[s].user = u
      /\ \A r \in ShiftId \ {s} : shifts'[r] = shifts[r]
  BY <1>1 DEF InsertShift, First, UnusedShiftIds, NobodyHasDeleted
<1>3. CASE u = None
  BY <1>2, <1>3, Stutters
<1>4. CASE u \in User
  <2>1. Ledger!Fill(s, u)
    BY <1>2 DEF Ledger!Fill, Ledger!Nobody, None, holderOf, offerOf
  <2> QED BY <1>4, <2>1 DEF LedgerStep, Ledger!LedgerNext
<1> QED BY <1>3, <1>4 DEF MaybeUser

\* Offers written one by one.
LEMMA OfferWritten ==
  ASSUME TypeInv, NEW t \in TradeId, \A r \in TradeId \ {t} : trades'[r] = trades[r]
  PROVE  /\ offerOf' = [offerOf EXCEPT ![t] = OfferRow(trades'[t])]
         /\ offerOf[t] = OfferRow(trades[t])
BY OfferRows

\* What an edit of a shift does to the offers on it.
LEMMA ResolveOffers ==
  ASSUME TypeInv, NEW s \in ShiftId, NEW keep \in {s, None}, NEW ts,
         trades' = ResolveTrades(s, ts, keep)
  PROVE  offerOf' = Ledger!Closed(Ledger!OpenOn(s) \cap ts, {s} \ {keep})
<1> DEFINE next == Ledger!Closed(Ledger!OpenOn(s) \cap ts, {s} \ {keep})
<1>1. ASSUME NEW t \in TradeId PROVE offerOf'[t] = next[t]
  <2> DEFINE row == trades[t]
  <2>1. row \in TradeRow /\ row.status \in TradeStatus /\ row.shift \in MaybeShift
    BY DEF TypeInv, TypeOK, StoreTypeOK, TradeRow
  <2>2. offerOf[t] = OfferRow(row) /\ offerOf'[t] = OfferRow(trades'[t])
    BY OfferRows
  <2>3. t \in Ledger!OpenOn(s) \cap ts <=> t \in ts /\ row.status = "OPEN" /\ row.shift = s
    BY OpenOffers DEF OpenTrade
  <2>4. next[t] = [offerOf[t] EXCEPT
                     !.status = IF t \in Ledger!OpenOn(s) \cap ts THEN "CLOSED" ELSE @,
                     !.shift = IF @ \in {s} \ {keep} THEN None ELSE @]
    BY DEF Ledger!Closed, Ledger!Nobody, None
  <2>5. next[t] =
          [status |-> IF t \in ts /\ row.status = "OPEN" /\ row.shift = s THEN "CLOSED"
                      ELSE LedgerStatus(row.status),
           shift |-> IF row.shift \in {s} \ {keep} THEN None ELSE row.shift,
           maker |-> row.offeredBy, taker |-> row.acceptedBy, refused |-> row.declines]
    <3> PICK off : off = offerOf[t]
      OBVIOUS
    <3>1. /\ off = [status |-> LedgerStatus(row.status), shift |-> row.shift,
                    maker |-> row.offeredBy, taker |-> row.acceptedBy,
                    refused |-> row.declines]
      BY <2>2 DEF OfferRow
    <3> PICK st : st = IF t \in Ledger!OpenOn(s) \cap ts THEN "CLOSED" ELSE off.status
      OBVIOUS
    <3> PICK sh : sh = IF off.shift \in {s} \ {keep} THEN None ELSE off.shift
      OBVIOUS
    <3>2. next[t] = [off EXCEPT !.status = st, !.shift = sh]
      BY <2>4
    <3> HIDE DEF next
    <3>3. next[t] = [status |-> st, shift |-> sh, maker |-> row.offeredBy,
                     taker |-> row.acceptedBy, refused |-> row.declines]
      <4> PICK one : one = [off EXCEPT !.status = st]
        OBVIOUS
      <4>1. one = [status |-> st, shift |-> row.shift, maker |-> row.offeredBy,
                   taker |-> row.acceptedBy, refused |-> row.declines]
        BY <3>1
      <4>2. next[t] = [one EXCEPT !.shift = sh]
        BY <3>2, Zenon
      <4> QED BY <4>1, <4>2
    <3>4. st = IF t \in ts /\ row.status = "OPEN" /\ row.shift = s THEN "CLOSED"
               ELSE LedgerStatus(row.status)
      BY <2>3, <3>1
    <3>5. sh = IF row.shift \in {s} \ {keep} THEN None ELSE row.shift
      BY <3>1
    <3> QED BY <3>3, <3>4, <3>5
  <2> HIDE DEF next
  <2>6. CASE row.shift = s
    <3>1. trades'[t] = [row EXCEPT !.shift = keep,
                          !.status = IF t \in ts /\ @ = "OPEN" THEN "CANCELLED" ELSE @]
      BY <2>6 DEF ResolveTrades
    <3>2. /\ trades'[t].shift = keep /\ trades'[t].offeredBy = row.offeredBy
          /\ trades'[t].acceptedBy = row.acceptedBy /\ trades'[t].declines = row.declines
          /\ trades'[t].status = IF t \in ts /\ row.status = "OPEN" THEN "CANCELLED"
                                    ELSE row.status
      BY <2>1, <3>1 DEF TradeRow
    <3>3. keep = IF s \in {s} \ {keep} THEN None ELSE s
      OBVIOUS
    <3>4. LedgerStatus(trades'[t].status)
            = IF t \in ts /\ row.status = "OPEN" THEN "CLOSED" ELSE LedgerStatus(row.status)
      BY <3>2, Statuses
    <3> QED BY <2>2, <2>5, <2>6, <3>2, <3>3, <3>4 DEF OfferRow
  <2>7. CASE row.shift # s
    <3>1. trades'[t] = row
      BY <2>7 DEF ResolveTrades
    <3> QED BY <2>2, <2>5, <2>7, <3>1 DEF OfferRow
  <2> QED BY <2>6, <2>7
<1>2. offerOf' = [t \in TradeId |-> offerOf'[t]]
  BY DEF offerOf
<1>3. next = [t \in TradeId |-> next[t]]
  BY DEF Ledger!Closed
<1> HIDE DEF next
<1>4. [t \in TradeId |-> offerOf'[t]] = [t \in TradeId |-> next[t]]
  BY <1>1
<1>5. offerOf' = next
  BY <1>2, <1>3, <1>4
<1> QED BY <1>5 DEF next

\* The edits of a shift reassign or remove it.
LEMMA ShiftsLedger ==
  ASSUME RecordInv, NEW self \in Session, ShiftRequest(self) \/ ShiftStep(self)
  PROVE  LedgerStep
<1> PICK a : a = sess[self]
  OBVIOUS
<1>a. TypeInv /\ shifts \in [ShiftId -> ShiftRow] /\ a.user \in MaybeUser
  BY DEF RecordInv, AnswerInv, OfferInv, TypeInv, TypeOK, StoreTypeOK, SessionState
<1>1. CASE CreateShiftCommit(self)
  <2> QED BY <1>1, <1>a, InsertFills, Stutters
          DEF CreateShiftCommit, At, Rollback, tables
<1>2. CASE UpdateShiftCommit(self)
  <2>1. CASE Rollback(self)
    BY <2>1, Stutters DEF Rollback, tables
  <2>2. CASE ~ Rollback(self)
    <3>1. /\ LiveShift(a.shift) /\ trades' = ResolveTrades(a.shift, a.foundTrades, a.shift)
          /\ shifts' = [shifts EXCEPT ![a.shift].user = a.user, ![a.shift].ivl = a.ivl]
      BY <1>2, <2>2 DEF UpdateShiftCommit
    <3>2. a.shift \in ShiftId /\ a.user \in User \cup {None}
      BY <1>a, <3>1 DEF MaybeUser, LiveShift
    <3>3. /\ shifts'[a.shift].user = a.user
          /\ \A r \in ShiftId \ {a.shift} : shifts'[r] = shifts[r]
      BY <1>a, <3>1, <3>2 DEF ShiftRow
    <3>4. holderOf' = [holderOf EXCEPT ![a.shift] = a.user]
      BY <3>2, <3>3 DEF holderOf
    <3>5. {a.shift} \ {a.shift} = {}
      OBVIOUS
    <3> PICK fs : fs = Ledger!OpenOn(a.shift) \cap a.foundTrades
      OBVIOUS
    <3>6. offerOf' = Ledger!Closed(fs, {})
      BY <1>a, <3>1, <3>2, <3>5, ResolveOffers
    <3>7. fs \subseteq Ledger!OpenOn(a.shift)
      OBVIOUS
    <3>8. Ledger!Reassign(a.shift, a.user, fs)
      BY <3>4, <3>6, <3>7 DEF Ledger!Reassign
    <3> QED BY <3>2, <3>7, <3>8 DEF LedgerStep, Ledger!LedgerNext, Ledger!Nobody, None
  <2> QED BY <2>1, <2>2
<1>3. CASE DeleteShiftCommit(self)
  <2>1. CASE Rollback(self)
    BY <2>1, Stutters DEF Rollback, tables
  <2>2. CASE ~ Rollback(self)
    <3>1. /\ LiveShift(a.shift) /\ trades' = ResolveTrades(a.shift, a.foundTrades, None)
          /\ shifts' = [shifts EXCEPT ![a.shift] = [UnusedShift EXCEPT !.state = "deleted"]]
      BY <1>3, <2>2 DEF DeleteShiftCommit
    <3>2. a.shift \in ShiftId /\ {a.shift} \ {None} = {a.shift}
      BY <3>1, IdsAreNotNull DEF LiveShift
    <3>3. /\ shifts'[a.shift].user = None
          /\ \A r \in ShiftId \ {a.shift} : shifts'[r] = shifts[r]
      BY <1>a, <3>1, <3>2 DEF UnusedShift
    <3>4. holderOf' = [holderOf EXCEPT ![a.shift] = None]
      BY <3>2, <3>3 DEF holderOf
    <3> PICK fs : fs = Ledger!OpenOn(a.shift) \cap a.foundTrades
      OBVIOUS
    <3>5. offerOf' = Ledger!Closed(fs, {a.shift})
      BY <1>a, <3>1, <3>2, ResolveOffers
    <3>6. fs \subseteq Ledger!OpenOn(a.shift)
      OBVIOUS
    <3>7. Ledger!Remove(a.shift, fs)
      BY <3>4, <3>5, <3>6 DEF Ledger!Remove, Ledger!Nobody, None
    <3> QED BY <3>2, <3>6, <3>7 DEF LedgerStep, Ledger!LedgerNext
  <2> QED BY <2>1, <2>2
<1>4. CASE ~ CreateShiftCommit(self) /\ ~ UpdateShiftCommit(self) /\ ~ DeleteShiftCommit(self)
  <2>1. UNCHANGED <<shifts, trades>>
    BY <1>4
    DEF ShiftRequest, ShiftStep, CreateShiftBegin, UpdateShiftBegin, DeleteShiftBegin,
        CreateShiftCheck, UpdateShiftRead, UpdateShiftLockUser,
        UpdateShiftCheck, DeleteShiftCheck, UpdateShiftFind, DeleteShiftFind, Find, Check,
        Rollback, tables
  <2> QED BY <2>1, Stutters
<1> QED BY <1>1, <1>2, <1>3, <1>4

\* Creating a trade makes an offer on a shift that has no open one.
LEMMA CreateTradeMakes ==
  ASSUME RecordInv, NEW self \in Session, CreateTradeCommit(self)
  PROVE  LedgerStep
<1>1. CASE Rollback(self)
  BY <1>1, Stutters DEF Rollback, tables
<1>2. CASE ~ Rollback(self)
  <2> PICK a : a = sess[self]
    OBVIOUS
  <2> DEFINE row == [status |-> "OPEN", shift |-> a.shift, offeredBy |-> a.user,
                     target |-> a.other, acceptedBy |-> None, declines |-> {}]
  <2>1. PICK t \in TradeId :
          trades[t].status = "unused" /\ trades' = [trades EXCEPT ![t] = row]
    BY <1>2 DEF CreateTradeCommit, First, UnusedTradeIds
  <2>2. /\ a.op = "createTrade" /\ a.step = "write" /\ UNCHANGED shifts /\ a.shift \in ShiftId
    BY <1>2 DEF CreateTradeCommit, At, LiveShift
  <2>a. /\ TypeInv /\ trades \in [TradeId -> TradeRow] /\ a.user \in User
        /\ OpenOn(a.shift) = {} /\ trades[t] = UnusedTrade
    BY <2>1, <2>2
    DEF RecordInv, AnswerInv, TradeRowOK, OfferInv, Offering, TypeInv, TypeOK, StoreTypeOK,
        SessionOK
  <2>3. trades'[t] = row /\ \A r \in TradeId \ {t} : trades'[r] = trades[r]
    BY <2>1, <2>a
  <2>4. offerOf[t] = Ledger!NoOffer
    <3>1. /\ trades[t].status = "unused" /\ trades[t].shift = None
          /\ trades[t].offeredBy = None /\ trades[t].acceptedBy = None
          /\ trades[t].declines = {}
      BY <2>a DEF UnusedTrade
    <3>2. OfferRow(trades[t]) = [status |-> "unused", shift |-> None, maker |-> None,
                                 taker |-> None, refused |-> {}]
      BY <3>1, Statuses DEF OfferRow
    <3>3. offerOf[t] = OfferRow(trades[t])
      BY OfferRows
    <3> QED BY <3>2, <3>3 DEF Ledger!NoOffer, Ledger!Nobody, None
  <2>5. Ledger!OpenOn(a.shift) = {}
    BY <2>a, OpenOffers DEF OpenOn, Ledger!OpenOn
  <2>6. OfferRow(trades'[t])
          = [status |-> "OPEN", shift |-> a.shift, maker |-> a.user,
             taker |-> None, refused |-> {}]
    BY <2>3, Statuses DEF OfferRow
  <2>7. offerOf' = [offerOf EXCEPT ![t] = OfferRow(trades'[t])] /\ UNCHANGED holderOf
    BY <2>2, <2>3, <2>a, OfferWritten DEF holderOf
  <2>8. Ledger!Make(t, a.shift, a.user)
    <3>1. OfferRow(trades'[t])
            = [status |-> "OPEN", shift |-> a.shift, maker |-> a.user,
               taker |-> Ledger!Nobody, refused |-> {}]
      BY <2>6 DEF Ledger!Nobody, None
    <3> QED BY <2>4, <2>5, <3>1, <2>7 DEF Ledger!Make
  <2> QED BY <2>2, <2>8, <2>a DEF LedgerStep, Ledger!LedgerNext
<1> QED BY <1>1, <1>2

\* Accepting a trade takes the offer.
LEMMA AcceptTradeTakes ==
  ASSUME RecordInv, NEW self \in Session, AcceptTradeCommit(self)
  PROVE  LedgerStep
<1>1. CASE Rollback(self)
  BY <1>1, Stutters DEF Rollback, tables
<1>2. CASE ~ Rollback(self)
  <2> PICK a : a = sess[self]
    OBVIOUS
  <2> PICK t : t = a.item
    OBVIOUS
  <2> PICK old : old = trades[t]
    OBVIOUS
  <2>1. /\ a.op = "acceptTrade" /\ a.step = "write"
        /\ old.status = "OPEN" /\ old.shift = a.shift
        /\ LiveShift(a.shift) /\ shifts[a.shift].user = old.offeredBy
        /\ trades' = [trades EXCEPT ![t].status = "ACCEPTED", ![t].acceptedBy = a.user]
        /\ shifts' = [shifts EXCEPT ![a.shift].user = a.user]
    BY <1>2 DEF AcceptTradeCommit, At, OpenTrade
  <2>a. /\ TypeInv /\ trades \in [TradeId -> TradeRow] /\ shifts \in [ShiftId -> ShiftRow]
        /\ a.user \in User /\ t \in TradeId /\ a.shift \in ShiftId
    BY <2>1
    DEF RecordInv, AnswerInv, OfferInv, TypeInv, TypeOK, StoreTypeOK, SessionOK, LiveShift
  <2>2. a.user \notin old.declines /\ old.offeredBy # a.user
    BY <2>1 DEF RecordInv, AnswerInv, Answering, AnswersOps, KnowsTrade
  <2>3. /\ trades'[t] = [old EXCEPT !.status = "ACCEPTED", !.acceptedBy = a.user]
        /\ \A r \in TradeId \ {t} : trades'[r] = trades[r]
    BY <2>1, <2>a
  <2>4. /\ trades'[t].status = "ACCEPTED" /\ trades'[t].acceptedBy = a.user
        /\ trades'[t].shift = old.shift /\ trades'[t].offeredBy = old.offeredBy
        /\ trades'[t].declines = old.declines
    BY <2>3, <2>a DEF TradeRow
  <2>5. OfferRow(trades'[t]) = [status |-> "TAKEN", shift |-> old.shift,
                                maker |-> old.offeredBy, taker |-> a.user,
                                refused |-> old.declines]
    BY <2>4, Statuses DEF OfferRow
  <2>6. offerOf[t] = [status |-> "OPEN", shift |-> old.shift, maker |-> old.offeredBy,
                      taker |-> old.acceptedBy, refused |-> old.declines]
    BY <2>1, <2>a, OfferRows, Statuses DEF OfferRow
  <2>7. offerOf' = [offerOf EXCEPT ![t] = OfferRow(trades'[t])]
    BY <2>3, <2>a, OfferWritten
  <2>8. offerOf' = [offerOf EXCEPT ![t].status = "TAKEN", ![t].taker = a.user]
    <3> PICK one : one = [offerOf EXCEPT ![t].status = "TAKEN"]
      OBVIOUS
    <3>1. one = [offerOf EXCEPT ![t] = [offerOf[t] EXCEPT !.status = "TAKEN"]]
      BY DEF offerOf
    <3>2. [one EXCEPT ![t].taker = a.user]
            = [offerOf EXCEPT ![t] = [one[t] EXCEPT !.taker = a.user]]
      BY <3>1 DEF offerOf
    <3>3. one[t] = [status |-> "TAKEN", shift |-> old.shift, maker |-> old.offeredBy,
                    taker |-> old.acceptedBy, refused |-> old.declines]
      BY <2>6, <2>a, <3>1 DEF offerOf
    <3>4. [one[t] EXCEPT !.taker = a.user] = OfferRow(trades'[t])
      BY <2>5, <3>3
    <3>5. offerOf' = [one EXCEPT ![t].taker = a.user]
      BY <2>7, <3>2, <3>4
    <3> QED BY <3>5, Zenon
  <2>9. /\ holderOf' = [holderOf EXCEPT ![old.shift] = a.user]
        /\ holderOf[old.shift] = old.offeredBy
    BY <2>1, <2>a DEF holderOf, ShiftRow
  <2>10. Ledger!Take(t, a.user)
    BY <2>1, <2>2, <2>6, <2>8, <2>9, <2>a DEF Ledger!Take, Ledger!Open
  <2> QED BY <2>10, <2>a DEF LedgerStep, Ledger!LedgerNext
<1> QED BY <1>1, <1>2

\* Declining a pool trade refuses the offer.
LEMMA DeclineTradeRefuses ==
  ASSUME RecordInv, NEW self \in Session, RejectPoolTradeCommit(self)
  PROVE  LedgerStep
<1>1. CASE Rollback(self)
  BY <1>1, Stutters DEF Rollback, tables
<1>2. CASE ~ Rollback(self)
  <2> PICK a : a = sess[self]
    OBVIOUS
  <2> PICK t : t = a.item
    OBVIOUS
  <2> PICK old : old = trades[t]
    OBVIOUS
  <2>1. /\ a.op = "rejectTrade" /\ a.step = "write" /\ old.target = None
        /\ trades' = [trades EXCEPT ![t].declines = @ \cup {a.user}] /\ UNCHANGED shifts
    BY <1>2 DEF RejectPoolTradeCommit, At, Pool
  <2>a. /\ TypeInv /\ trades \in [TradeId -> TradeRow] /\ a.user \in User /\ t \in TradeId
    BY <2>1 DEF RecordInv, AnswerInv, OfferInv, TypeInv, TypeOK, StoreTypeOK, SessionOK
  <2>2. old.status # "unused" /\ old.acceptedBy # a.user
    BY <2>1 DEF RecordInv, AnswerInv, Answering, AnswersOps, KnowsTrade
  <2>3. /\ trades'[t] = [old EXCEPT !.declines = @ \cup {a.user}]
        /\ \A r \in TradeId \ {t} : trades'[r] = trades[r]
    BY <2>1, <2>a
  <2>4. /\ trades'[t].status = old.status /\ trades'[t].acceptedBy = old.acceptedBy
        /\ trades'[t].shift = old.shift /\ trades'[t].offeredBy = old.offeredBy
        /\ trades'[t].declines = old.declines \cup {a.user}
    BY <2>3, <2>a DEF TradeRow
  <2>5. offerOf[t] = OfferRow(old) /\ offerOf' = [offerOf EXCEPT ![t] = OfferRow(trades'[t])]
    BY <2>3, <2>a, OfferWritten
  <2>6. OfferRow(trades'[t]) = [OfferRow(old) EXCEPT !.refused = @ \cup {a.user}]
    <3> PICK off : off = OfferRow(old)
      OBVIOUS
    <3>1. off = [status |-> LedgerStatus(old.status), shift |-> old.shift,
                 maker |-> old.offeredBy, taker |-> old.acceptedBy, refused |-> old.declines]
      BY DEF OfferRow
    <3>2. OfferRow(trades'[t]) = [off EXCEPT !.refused = @ \cup {a.user}]
      BY <2>4, <3>1 DEF OfferRow
    <3> QED BY <3>2
  <2>7. offerOf' = [offerOf EXCEPT ![t].refused = @ \cup {a.user}] /\ UNCHANGED holderOf
    BY <2>1, <2>5, <2>6 DEF holderOf
  <2>8. OfferRow(old).status # "unused" /\ OfferRow(old).taker # a.user
    <3>1. old.status \in TradeStatus
      BY <2>a DEF TradeRow
    <3> QED BY <2>2, <3>1, Statuses DEF OfferRow, TradeStatus
  <2>9. Ledger!Refuse(t, a.user)
    BY <2>5, <2>7, <2>8 DEF Ledger!Refuse
  <2> QED BY <2>9, <2>a DEF LedgerStep, Ledger!LedgerNext
<1> QED BY <1>1, <1>2

\* Withdrawing a trade, or declining a direct one, closes the offer.
LEMMA CloseTradeCloses ==
  ASSUME RecordInv, NEW self \in Session, NEW t \in TradeId,
         NEW status \in {"REJECTED", "CANCELLED"}, CloseTrade(self, t, status)
  PROVE  LedgerStep
<1>1. CASE Rollback(self)
  BY <1>1, Stutters DEF Rollback, tables
<1>2. CASE ~ Rollback(self)
  <2> PICK old : old = trades[t]
    OBVIOUS
  <2>1. /\ old.status = "OPEN" /\ trades' = [trades EXCEPT ![t].status = status]
        /\ UNCHANGED shifts
    BY <1>2 DEF CloseTrade, OpenTrade
  <2>a. TypeInv /\ trades \in [TradeId -> TradeRow]
    BY DEF RecordInv, AnswerInv, OfferInv, TypeInv, TypeOK, StoreTypeOK
  <2>3. /\ trades'[t] = [old EXCEPT !.status = status]
        /\ \A r \in TradeId \ {t} : trades'[r] = trades[r]
    BY <2>1, <2>a
  <2>4. /\ trades'[t].status = status /\ trades'[t].acceptedBy = old.acceptedBy
        /\ trades'[t].shift = old.shift /\ trades'[t].offeredBy = old.offeredBy
        /\ trades'[t].declines = old.declines
    BY <2>3, <2>a DEF TradeRow
  <2>5. OfferRow(trades'[t]) = [OfferRow(old) EXCEPT !.status = "CLOSED"]
    BY <2>4, Statuses DEF OfferRow
  <2>6. offerOf[t] = OfferRow(old) /\ offerOf' = [offerOf EXCEPT ![t] = OfferRow(trades'[t])]
    BY <2>3, <2>a, OfferWritten
  <2>7. offerOf' = Ledger!Closed({t}, {})
    <3>1. ASSUME NEW r \in TradeId PROVE offerOf'[r] = Ledger!Closed({t}, {})[r]
      <4>1. Ledger!Closed({t}, {})[r]
              = [offerOf[r] EXCEPT !.status = IF r \in {t} THEN "CLOSED" ELSE @,
                                   !.shift = IF @ \in {} THEN Ledger!Nobody ELSE @]
        BY DEF Ledger!Closed
      <4>2. Ledger!Closed({t}, {})[r]
              = IF r = t THEN [offerOf[r] EXCEPT !.status = "CLOSED"] ELSE offerOf[r]
        <5> PICK off : off = offerOf[r]
          OBVIOUS
        <5> PICK st : st = IF r \in {t} THEN "CLOSED" ELSE off.status
          OBVIOUS
        <5> PICK one : one = [off EXCEPT !.status = st]
          OBVIOUS
        <5> PICK sh : sh = IF off.shift \in {} THEN Ledger!Nobody ELSE off.shift
          OBVIOUS
        <5>1. Ledger!Closed({t}, {})[r] = [off EXCEPT !.status = st, !.shift = sh]
          BY <4>1
        <5>2. Ledger!Closed({t}, {})[r] = [one EXCEPT !.shift = sh]
          BY <5>1, Zenon
        <5>3. off = [status |-> off.status, shift |-> off.shift, maker |-> off.maker,
                     taker |-> off.taker, refused |-> off.refused]
          BY DEF offerOf
        <5>4. one = [status |-> st, shift |-> off.shift, maker |-> off.maker,
                     taker |-> off.taker, refused |-> off.refused]
          BY <5>3
        <5>5. Ledger!Closed({t}, {})[r] = one
          <6>1. sh = off.shift
            OBVIOUS
          <6>2. [one EXCEPT !.shift = off.shift] = one
            BY <5>4
          <6> QED BY <5>2, <6>1, <6>2
        <5>6. r # t => one = off
          BY <5>3, <5>4
        <5> QED BY <5>5, <5>6
      <4> QED BY <2>5, <2>6, <4>2 DEF offerOf
    <3>2. /\ offerOf' = [r \in TradeId |-> offerOf'[r]]
          /\ Ledger!Closed({t}, {}) = [r \in TradeId |-> Ledger!Closed({t}, {})[r]]
      BY DEF offerOf, Ledger!Closed
    <3> QED BY <3>1, <3>2
  <2>8. Ledger!Close(t)
    BY <2>1, <2>7, <2>a, OpenOffers DEF Ledger!Close, OpenTrade, holderOf
  <2> QED BY <2>8 DEF LedgerStep, Ledger!LedgerNext
<1> QED BY <1>1, <1>2

\* The handlers of trades.
LEMMA TradesLedger ==
  ASSUME RecordInv, NEW self \in Session, TradeRequest(self) \/ TradeStep(self)
  PROVE  LedgerStep
<1>a. TypeInv
  BY DEF RecordInv, AnswerInv, OfferInv
<1>1. CASE CancelTradeCommit(self) \/ RejectDirectTradeCommit(self)
  <2>1. sess[self].item \in TradeId
    BY <1>a, <1>1 DEF CancelTradeCommit, RejectDirectTradeCommit, At, TypeInv, SessionOK
  <2> QED BY <1>1, <2>1, CloseTradeCloses DEF CancelTradeCommit, RejectDirectTradeCommit
<1>2. CASE \/ \E u \in User, s \in ShiftId, target \in MaybeUser :
                CreateTradeBegin(self, u, s, target)
           \/ \E u \in User, t \in TradeId :
                AcceptTradeBegin(self, u, t) \/ RejectTradeBegin(self, u, t)
           \/ \E t \in TradeId : CancelTradeBegin(self, t)
           \/ CreateTradeCheck(self) \/ AcceptTradeLock(self) \/ AcceptTradeCheck(self)
           \/ RejectPoolTradeLock(self) \/ RejectPoolTradeCheck(self)
  <2>1. UNCHANGED <<shifts, trades>>
    BY <1>2
    DEF CreateTradeBegin, AcceptTradeBegin, RejectTradeBegin, CancelTradeBegin,
        CreateTradeCheck, AcceptTradeLock, AcceptTradeCheck, RejectPoolTradeLock,
        RejectPoolTradeCheck, Check, Rollback, tables
  <2> QED BY <2>1, Stutters
<1> QED BY <1>1, <1>2, CreateTradeMakes, AcceptTradeTakes, DeclineTradeRefuses
        DEF TradeRequest, TradeStep

\* An accepted staffing request fills its shift, and createStaffingRequest
\* inserts one that nobody has.
LEMMA StaffingLedger ==
  ASSUME RecordInv, NEW self \in Session, StaffingRequest(self) \/ StaffingStep(self)
  PROVE  LedgerStep
<1>a. TypeInv /\ shifts \in [ShiftId -> ShiftRow] /\ UNCHANGED trades
  BY StaffingFootprint DEF RecordInv, AnswerInv, OfferInv, TypeInv, TypeOK, StoreTypeOK
<1>1. CASE AcceptRequestCommit(self)
  <2>1. CASE Rollback(self)
    BY <1>a, <2>1, Stutters DEF Rollback, tables
  <2>2. CASE ~ Rollback(self)
    <3> PICK a : a = sess[self]
      OBVIOUS
    <3>1. /\ a.op = "acceptRequest" /\ LiveShift(a.shift) /\ shifts[a.shift].user = None
          /\ shifts' = [shifts EXCEPT ![a.shift].user = a.user]
      BY <1>1, <2>2 DEF AcceptRequestCommit, At
    <3>2. a.shift \in ShiftId /\ a.user \in User
      BY <1>a, <3>1 DEF TypeInv, SessionOK, LiveShift
    <3>3. holderOf' = [holderOf EXCEPT ![a.shift] = a.user] /\ holderOf[a.shift] = None
      BY <1>a, <3>1, <3>2 DEF holderOf, ShiftRow
    <3>4. UNCHANGED offerOf
      BY <1>a DEF offerOf
    <3>5. Ledger!Fill(a.shift, a.user)
      BY <3>3, <3>4 DEF Ledger!Fill, Ledger!Nobody, None
    <3> QED BY <3>2, <3>5 DEF LedgerStep, Ledger!LedgerNext
  <2> QED BY <2>1, <2>2
<1>2. CASE CreateRequestInsertShift(self)
  <2>1. None \in MaybeUser
    BY DEF MaybeUser
  <2> QED BY <1>2, <1>a, <2>1, InsertFills, Stutters
          DEF CreateRequestInsertShift, Rollback, tables
<1>3. CASE ~ AcceptRequestCommit(self) /\ ~ CreateRequestInsertShift(self)
  <2>1. UNCHANGED shifts
    BY <1>3
    DEF StaffingRequest, StaffingStep, CreateRequestForShift, CreateRequestForPeriod,
        AcceptRequestBegin, RejectRequestBegin, CancelRequestBegin, CreateRequestCommit,
        AcceptRequestLock, AcceptRequestCheck, AcceptRequestFind, Find, RejectBroadcastCheck,
        RejectBroadcastCommit,
        RejectTargetedCommit, CancelRequestCommit, CloseRequest, Check, Rollback, tables
  <2> QED BY <1>a, <2>1, Stutters
<1> QED BY <1>1, <1>2, <1>3

\* Nobody has a shift and nothing is offered at the start.
LEMMA InitialLedger == Init => Ledger!LedgerInit
<1> SUFFICES ASSUME Init PROVE Ledger!LedgerInit
  OBVIOUS
<1>1. ASSUME NEW t \in TradeId PROVE offerOf[t] = Ledger!NoOffer
  <2>1. /\ trades[t].status = "unused" /\ trades[t].shift = None
        /\ trades[t].offeredBy = None /\ trades[t].acceptedBy = None
        /\ trades[t].declines = {}
    BY DEF Init, StoreInit, UnusedTrade
  <2>2. OfferRow(trades[t]) = [status |-> "unused", shift |-> None, maker |-> None,
                               taker |-> None, refused |-> {}]
    BY <2>1, Statuses DEF OfferRow
  <2>3. offerOf[t] = OfferRow(trades[t])
    BY OfferRows
  <2> QED BY <2>2, <2>3 DEF Ledger!NoOffer, Ledger!Nobody, None
<1>2. offerOf = [t \in TradeId |-> Ledger!NoOffer]
  BY <1>1 DEF offerOf
<1>3. holderOf = [s \in ShiftId |-> Ledger!Nobody]
  BY DEF Init, StoreInit, UnusedShift, holderOf, Ledger!Nobody, None
<1> QED BY <1>2, <1>3 DEF Ledger!LedgerInit

\* Every step of the handlers is a step of the ledger, or changes nothing in it.
LEMMA StepsAreLedgerSteps ==
  RecordInv /\ [Next]_vars => [Ledger!LedgerNext]_<<holderOf, offerOf>>
<1> SUFFICES ASSUME RecordInv, [Next]_vars PROVE LedgerStep
  BY DEF LedgerStep
<1>1. ASSUME NEW self \in Session, ClockRequest(self) \/ ClockStep(self) PROVE LedgerStep
  BY <1>1, ClocksFootprint, LeavesAndClocksSpareShifts, Stutters
     DEF RecordInv, AnswerInv, OfferInv
<1>2. ASSUME NEW self \in Session, LeaveRequest(self) \/ LeaveStep(self) PROVE LedgerStep
  BY <1>2, LeavesFootprint, LeavesAndClocksSpareShifts, Stutters
     DEF RecordInv, AnswerInv, OfferInv
<1>3. CASE UNCHANGED <<shifts, trades>>
  BY <1>3, Stutters
<1> QED BY <1>1, <1>2, <1>3, ShiftsLedger, TradesLedger, StaffingLedger
        DEF Next, Request, Advance, Crash, Rollback, ExpireLeaves, Tick, tables, vars

\* Whatever edits, offers, answers and crashes interleave, trading behaves as
\* the ledger does: an offer is taken once, from the one who made it and still
\* has the shift, by somebody who has not refused it.
THEOREM TradingIsALedger == Spec => ImplementsLedger
<1>1. RecordInv /\ [Next]_vars => [Ledger!LedgerNext]_<<holderOf, offerOf>>
  BY StepsAreLedgerSteps
<1> QED BY <1>1, InitialLedger, InitRecordInv, RecordInvInductive, PTL
        DEF Spec, ImplementsLedger, Ledger!LedgerSpec
=============================================================================
