-------------------------------- MODULE Shifts --------------------------------
(***************************************************************************)
(* The administrator's handlers on single shifts: createShiftFlow,         *)
(* updateShiftFlow and deleteShiftFlow.                                     *)
(***************************************************************************)
EXTENDS ShiftStore

-----------------------------------------------------------------------------
(* createShiftFlow *)

\* u = None creates an unassigned shift, which takes no lock.
CreateShiftBegin(self, u, c, i) ==
  /\ Begin(self, [Idle EXCEPT !.op = "createShift", !.step = "check",
                              !.user = u, !.cinema = c, !.ivl = i])
  /\ \/ u # None /\ Acquire(self, UserLock(u))
     \/ u = None /\ UNCHANGED held
  /\ UNCHANGED <<tables, now>>

CreateShiftCheck(self) ==
  LET a == sess[self] IN
  /\ At(self, "createShift", "check")
  /\ Check(self, \/ a.user = None
                 \/ /\ a.user \in Qualified
                    /\ ~Conflicts(a.user, a.cinema, a.ivl, None),
           "write")

CreateShiftCommit(self) ==
  LET a == sess[self] IN
  /\ At(self, "createShift", "write")
  /\ \/ /\ \E s \in ShiftId : InsertShift(s, a.user, a.cinema, a.ivl)
        /\ Finish(self)
        /\ UNCHANGED <<trades, requests, leaves, entries, now>>
     \/ UnusedShiftIds = {} /\ Rollback(self)

-----------------------------------------------------------------------------
(* updateShiftFlow: u and i are the new assignee and the new period *)

UpdateShiftBegin(self, s, u, i) ==
  /\ shifts[s].state # "unused"
  /\ Begin(self, [Idle EXCEPT !.op = "updateShift", !.step = "read",
                              !.user = u, !.shift = s, !.ivl = i])
  /\ Acquire(self, RecordLock(s))
  /\ UNCHANGED <<tables, now>>

UpdateShiftRead(self) ==
  LET a == sess[self] row == shifts[a.shift] IN
  /\ At(self, "updateShift", "read")
  /\ \/ /\ LiveShift(a.shift)
        /\ ~ActiveTimeEntry(a.shift)
        /\ sess' = [sess EXCEPT ![self].step = "users",
                      ![self].oldUser = row.user, ![self].oldIvl = row.ivl,
                      ![self].cinema = row.cinema]
        /\ UNCHANGED <<tables, now, held>>
     \/ /\ ~(LiveShift(a.shift) /\ ~ActiveTimeEntry(a.shift))
        /\ Rollback(self)

\* Mutant of UserLocksToGet: only the old assignee is locked.
OnlyOldAssignee(self) ==
  {u \in {sess[self].oldUser} \ {None} : UserLock(u) \notin held[self]}

\* acquireShiftUserLocks: the old and the new assignee, smallest id first.
UserLocksToGet(self) ==
  {u \in {sess[self].oldUser, sess[self].user} \ {None} :
     UserLock(u) \notin held[self]}

\* Mutant of UpdateShiftLockUser: the old assignee first, whatever the ids.
LockOldAssigneeFirst(self, u) ==
  /\ At(self, "updateShift", "users")
  /\ u \in UserLocksToGet(self)
  /\ sess[self].oldUser \in UserLocksToGet(self) => u = sess[self].oldUser
  /\ Acquire(self, UserLock(u))
  /\ UNCHANGED <<tables, now, sess>>

UpdateShiftLockUser(self, u) ==
  /\ At(self, "updateShift", "users")
  /\ u \in UserLocksToGet(self)
  /\ \A v \in UserLocksToGet(self) : u <= v
  /\ Acquire(self, UserLock(u))
  /\ UNCHANGED <<tables, now, sess>>

UpdateShiftCheck(self) ==
  LET a == sess[self] IN
  /\ At(self, "updateShift", "users")
  /\ UserLocksToGet(self) = {}
  /\ Check(self, \/ a.user = None
                 \/ /\ a.user \in Qualified
                    /\ ~Conflicts(a.user, a.cinema, a.ivl, a.shift),
           "find")

\* Mutant of UpdateShiftFind: only a shift that is moved loses its offers.
FindWhenMoved(self) ==
  LET a == sess[self]
      moved == Day(a.oldIvl.from) # Day(a.ivl.from)
  IN
  /\ At(self, "updateShift", "find")
  /\ Find(self, IF moved THEN OpenTradesOn(a.shift) ELSE {},
                IF moved THEN PendingRequestsOn(a.shift) ELSE {})

\* resolveOpenShiftLinkedActions looks up the offers of a shift that gets
\* another day or another assignee, and updates them by the ids found.
UpdateShiftFind(self) ==
  LET a == sess[self]
      moved == Day(a.oldIvl.from) # Day(a.ivl.from)
      reassigned == a.oldUser # a.user
  IN
  /\ At(self, "updateShift", "find")
  /\ Find(self, IF moved \/ reassigned THEN OpenTradesOn(a.shift) ELSE {},
                IF moved \/ reassigned THEN PendingRequestsOn(a.shift) ELSE {})

UpdateShiftCommit(self) ==
  LET a == sess[self] IN
  /\ At(self, "updateShift", "write")
  /\ \/ /\ LiveShift(a.shift)
        /\ shifts' = [shifts EXCEPT ![a.shift].user = a.user,
                                    ![a.shift].ivl = a.ivl]
        /\ trades' = ResolveTrades(a.shift, a.foundTrades, a.shift)
        /\ requests' = ResolveRequests(a.shift, a.foundRequests, a.shift)
        /\ Finish(self)
        /\ UNCHANGED <<leaves, entries, now>>
     \/ ~LiveShift(a.shift) /\ Rollback(self)

-----------------------------------------------------------------------------
(* deleteShiftFlow *)

DeleteShiftBegin(self, s) ==
  /\ shifts[s].state # "unused"
  /\ Begin(self, [Idle EXCEPT !.op = "deleteShift", !.step = "check",
                              !.shift = s])
  /\ Acquire(self, RecordLock(s))
  /\ UNCHANGED <<tables, now>>

DeleteShiftCheck(self) ==
  LET s == sess[self].shift IN
  /\ At(self, "deleteShift", "check")
  /\ Check(self, LiveShift(s) /\ ~ActiveTimeEntry(s), "find")

DeleteShiftFind(self) ==
  LET s == sess[self].shift IN
  /\ At(self, "deleteShift", "find")
  /\ Find(self, OpenTradesOn(s), PendingRequestsOn(s))

\* The foreign keys of trades, requests and time entries are ON DELETE SET
\* NULL: an offer made since the others were found stays open without a shift.
DeleteShiftCommit(self) ==
  LET a == sess[self] s == a.shift IN
  /\ At(self, "deleteShift", "write")
  /\ \/ /\ LiveShift(s)
        /\ shifts' = [shifts EXCEPT ![s] = [UnusedShift EXCEPT !.state = "deleted"]]
        /\ trades' = ResolveTrades(s, a.foundTrades, None)
        /\ requests' = ResolveRequests(s, a.foundRequests, None)
        /\ entries' = [e \in EntryId |->
             IF entries[e].shift = s
             THEN [entries[e] EXCEPT !.shift = None] ELSE entries[e]]
        /\ Finish(self)
        /\ UNCHANGED <<leaves, now>>
     \/ ~LiveShift(s) /\ Rollback(self)

-----------------------------------------------------------------------------
ShiftRequest(self) ==
  \/ \E u \in MaybeUser, c \in Cinema, i \in Interval : CreateShiftBegin(self, u, c, i)
  \/ \E s \in ShiftId, u \in MaybeUser, i \in Interval : UpdateShiftBegin(self, s, u, i)
  \/ \E s \in ShiftId : DeleteShiftBegin(self, s)

ShiftStep(self) ==
  \/ CreateShiftCheck(self)
  \/ CreateShiftCommit(self)
  \/ UpdateShiftRead(self)
  \/ \E u \in User : UpdateShiftLockUser(self, u)
  \/ UpdateShiftCheck(self)
  \/ UpdateShiftFind(self)
  \/ UpdateShiftCommit(self)
  \/ DeleteShiftCheck(self)
  \/ DeleteShiftFind(self)
  \/ DeleteShiftCommit(self)
=============================================================================
