---------------------------- MODULE LeaveRequests ----------------------------
(***************************************************************************)
(* Absence: createLeaveRequestFlow, updateLeaveRequestStatusFlow and the   *)
(* hourly LeaveRequestExpiryService.                                        *)
(***************************************************************************)
EXTENDS ShiftStore

\* ensureNoOverlappingShift
ShiftDuring(u, c, i) ==
  \E s \in ShiftId :
    /\ LiveShift(s)
    /\ shifts[s].user = u
    /\ shifts[s].cinema = c
    /\ Overlap(shifts[s].ivl, i)

\* ensureNoOverlappingLeaveRequest
LeaveDuring(u, c, i, except, statuses) ==
  \E l \in LeaveId \ {except} :
    /\ leaves[l].status \in statuses
    /\ leaves[l].user = u
    /\ leaves[l].cinema = c
    /\ Overlap(leaves[l].ivl, i)

-----------------------------------------------------------------------------
(* createLeaveRequestFlow *)

\* Mutant of CreateLeaveBegin: no lock on the employee's leave.
CreateLeaveUnlocked(self, u, c, i) ==
  /\ Day(i.from) >= Day(now) + MinNotice
  /\ Begin(self, [Idle EXCEPT !.op = "createLeave", !.step = "check",
                              !.user = u, !.cinema = c, !.ivl = i])
  /\ UNCHANGED <<tables, now, held>>

CreateLeaveBegin(self, u, c, i) ==
  /\ Day(i.from) >= Day(now) + MinNotice
  /\ Begin(self, [Idle EXCEPT !.op = "createLeave", !.step = "check",
                              !.user = u, !.cinema = c, !.ivl = i])
  /\ Acquire(self, LeaveUserLock(u))
  /\ UNCHANGED <<tables, now>>

CreateLeaveCheck(self) ==
  LET a == sess[self] IN
  /\ At(self, "createLeave", "check")
  /\ Check(self,
       /\ ~ShiftDuring(a.user, a.cinema, a.ivl)
       /\ ~LeaveDuring(a.user, a.cinema, a.ivl, None, {"PENDING", "APPROVED"}),
       "write")

CreateLeaveCommit(self) ==
  LET a == sess[self] IN
  /\ At(self, "createLeave", "write")
  /\ \/ /\ \E l \in LeaveId :
             /\ First(l, UnusedLeaveIds)
             /\ leaves' = [leaves EXCEPT ![l] =
                  [status |-> "PENDING", user |-> a.user,
                   cinema |-> a.cinema, ivl |-> a.ivl]]
        /\ Finish(self)
        /\ UNCHANGED <<shifts, trades, requests, entries, now>>
     \/ UnusedLeaveIds = {} /\ Rollback(self)

-----------------------------------------------------------------------------
(* updateLeaveRequestStatusFlow: the row is read under its own lock,       *)
(* before the lock of its user is taken; the conditional update at the end *)
(* compares with the status read there.                                     *)

SetLeaveStatusBegin(self, l, status) ==
  /\ leaves[l].status # "unused"
  /\ Begin(self, [Idle EXCEPT !.op = "setLeaveStatus", !.step = "read",
                              !.item = l, !.status = status])
  /\ Acquire(self, LeaveLock(l))
  /\ UNCHANGED <<tables, now>>

SetLeaveStatusRead(self) ==
  LET row == leaves[sess[self].item] IN
  /\ At(self, "setLeaveStatus", "read")
  /\ sess' = [sess EXCEPT ![self].step = "lock",
                ![self].oldUser = row.user, ![self].oldIvl = row.ivl,
                ![self].cinema = row.cinema, ![self].oldStatus = row.status]
  /\ UNCHANGED <<tables, now, held>>

SetLeaveStatusLockUser(self) ==
  /\ At(self, "setLeaveStatus", "lock")
  /\ Acquire(self, LeaveUserLock(sess[self].oldUser))
  /\ Goto(self, "check")
  /\ UNCHANGED <<tables, now>>

\* ensureLeaveStatusChangeAllowed, for the owner or an administrator
StatusChangeAllowed(old, new) ==
  \/ new = "CANCELLED" /\ old \in {"PENDING", "APPROVED"}
  \/ new \in {"APPROVED", "REJECTED"} /\ old = "PENDING"

\* Mutant of SetLeaveStatusCheck: approval does not look at the shifts again.
ApproveOverShifts(self) ==
  /\ At(self, "setLeaveStatus", "check")
  /\ Check(self, StatusChangeAllowed(sess[self].oldStatus, sess[self].status),
           "write")

SetLeaveStatusCheck(self) ==
  LET a == sess[self] IN
  /\ At(self, "setLeaveStatus", "check")
  /\ Check(self,
       /\ StatusChangeAllowed(a.oldStatus, a.status)
       /\ a.status = "APPROVED" =>
            /\ ~ShiftDuring(a.oldUser, a.cinema, a.oldIvl)
            /\ ~LeaveDuring(a.oldUser, a.cinema, a.oldIvl, a.item, {"APPROVED"}),
       "write")

\* Mutant of SetLeaveStatusCommit: the row is updated by id alone.
SetLeaveStatusBlindly(self) ==
  LET a == sess[self] IN
  /\ At(self, "setLeaveStatus", "write")
  /\ leaves' = [leaves EXCEPT ![a.item].status = a.status]
  /\ Finish(self)
  /\ UNCHANGED <<shifts, trades, requests, entries, now>>

SetLeaveStatusCommit(self) ==
  LET a == sess[self] unchanged == leaves[a.item].status = a.oldStatus IN
  /\ At(self, "setLeaveStatus", "write")
  /\ \/ /\ unchanged
        /\ leaves' = [leaves EXCEPT ![a.item].status = a.status]
        /\ Finish(self)
        /\ UNCHANGED <<shifts, trades, requests, entries, now>>
     \/ ~unchanged /\ Rollback(self)

-----------------------------------------------------------------------------
(* expirePendingLeaveRequests, from a cron, without a lock: the updateMany *)
(* repeats the conditions of the findMany before it.                       *)

Expiring(l) ==
  leaves[l].status = "PENDING" /\ leaves[l].ivl.from < Day(now) * DayLength

ExpireLeaves ==
  /\ "expireLeaves" \in Ops
  /\ \E l \in LeaveId : Expiring(l)
  /\ leaves' = [l \in LeaveId |->
       IF Expiring(l) THEN [leaves[l] EXCEPT !.status = "EXPIRED"] ELSE leaves[l]]
  /\ UNCHANGED <<shifts, trades, requests, entries, now, held, sess>>

-----------------------------------------------------------------------------
LeaveRequest(self) ==
  \/ \E u \in User, c \in Cinema, i \in Interval : CreateLeaveBegin(self, u, c, i)
  \/ \E l \in LeaveId, status \in {"APPROVED", "REJECTED", "CANCELLED"} :
       SetLeaveStatusBegin(self, l, status)

LeaveStep(self) ==
  \/ CreateLeaveCheck(self)
  \/ CreateLeaveCommit(self)
  \/ SetLeaveStatusRead(self)
  \/ SetLeaveStatusLockUser(self)
  \/ SetLeaveStatusCheck(self)
  \/ SetLeaveStatusCommit(self)
=============================================================================
