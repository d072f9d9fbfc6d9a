--------------------------- MODULE StaffingRequests ---------------------------
(***************************************************************************)
(* An administrator asks everyone (broadcast: target = None) or one        *)
(* employee to take an unassigned shift; an employee accepts or declines:  *)
(* createStaffingRequest, acceptStaffingRequest, rejectStaffingRequest and *)
(* cancelStaffingRequest.                                                   *)
(***************************************************************************)
EXTENDS ShiftStore

Broadcast(r) == requests[r].target = None

-----------------------------------------------------------------------------
(* createStaffingRequest runs without a transaction: it reads a shift or   *)
(* creates an unassigned one, then inserts the request, each on its own.   *)

CreateRequestForShift(self, s, target) ==
  /\ LiveShift(s)
  /\ target \in Qualified \cup {None}
  /\ Begin(self, [Idle EXCEPT !.op = "createRequest", !.step = "write",
                              !.other = target, !.shift = s])
  /\ UNCHANGED <<tables, now, held>>

CreateRequestForPeriod(self, c, i, target) ==
  /\ target \in Qualified \cup {None}
  /\ Begin(self, [Idle EXCEPT !.op = "createRequest", !.step = "insertShift",
                              !.other = target, !.cinema = c, !.ivl = i])
  /\ UNCHANGED <<tables, now, held>>

\* createUnassignedStaffingShiftIfNeeded
CreateRequestInsertShift(self) ==
  LET a == sess[self] IN
  /\ At(self, "createRequest", "insertShift")
  /\ \/ \E s \in ShiftId :
          /\ InsertShift(s, None, a.cinema, a.ivl)
          /\ sess' = [sess EXCEPT ![self].step = "write", ![self].shift = s]
          /\ UNCHANGED <<trades, requests, leaves, entries, now, held>>
     \/ UnusedShiftIds = {} /\ Rollback(self)

CreateRequestCommit(self) ==
  LET a == sess[self] IN
  /\ At(self, "createRequest", "write")
  /\ \/ /\ LiveShift(a.shift)
        /\ \E r \in RequestId :
             /\ First(r, UnusedRequestIds)
             /\ requests' = [requests EXCEPT ![r] =
                  [status |-> "PENDING", shift |-> a.shift,
                   target |-> a.other, acceptedBy |-> None, declines |-> {}]]
        /\ Finish(self)
        /\ UNCHANGED <<shifts, trades, leaves, entries, now>>
     \/ (~LiveShift(a.shift) \/ UnusedRequestIds = {}) /\ Rollback(self)

-----------------------------------------------------------------------------
(* acceptStaffingRequest *)

Answerable(r, u) == PendingRequest(r) /\ requests[r].target \in {None, u}

\* Read outside the transaction, before the lock of the shift is taken.
AcceptRequestBegin(self, u, r) ==
  /\ Answerable(r, u)
  /\ requests[r].shift # None
  /\ Begin(self, [Idle EXCEPT !.op = "acceptRequest", !.step = "lock",
                    !.user = u, !.item = r, !.shift = requests[r].shift])
  /\ UNCHANGED <<tables, now, held>>

AcceptRequestLock(self) ==
  /\ At(self, "acceptRequest", "lock")
  /\ Acquire(self, RecordLock(sess[self].shift))
  /\ Goto(self, "check")
  /\ UNCHANGED <<tables, now>>

AcceptRequestCheck(self) ==
  LET a == sess[self] s == requests[a.item].shift IN
  /\ At(self, "acceptRequest", "check")
  /\ Check(self, /\ Answerable(a.item, a.user)
                 /\ a.user \in Qualified
                 /\ Broadcast(a.item) => a.user \notin requests[a.item].declines
                 /\ LiveShift(s)
                 /\ shifts[s].user = None
                 /\ ~Conflicts(a.user, shifts[s].cinema, shifts[s].ivl, s),
           "find")

\* Mutant of AcceptRequestFind: only requests to the same employees are closed.
FindSameTarget(self) ==
  LET a == sess[self] IN
  /\ At(self, "acceptRequest", "find")
  /\ Find(self, {}, {r \in PendingRequestsOn(a.shift) :
                        r # a.item /\ requests[r].target = requests[a.item].target})

\* The updateMany of the other requests for the shift sees those committed by
\* then.  The two conditional updates before it lock their rows, so that what
\* they found still holds at COMMIT.
AcceptRequestFind(self) ==
  LET a == sess[self] IN
  /\ At(self, "acceptRequest", "find")
  /\ Find(self, {}, PendingRequestsOn(a.shift) \ {a.item})

AcceptRequestCommit(self) ==
  LET a == sess[self]
      claims == /\ PendingRequest(a.item)
                /\ LiveShift(a.shift)
                /\ shifts[a.shift].user = None
  IN
  /\ At(self, "acceptRequest", "write")
  /\ \/ /\ claims
        /\ shifts' = [shifts EXCEPT ![a.shift].user = a.user]
        /\ requests' = [r \in RequestId |->
             IF r = a.item
             THEN [requests[r] EXCEPT !.status = "ACCEPTED", !.acceptedBy = a.user]
             ELSE IF r \in a.foundRequests /\ PendingRequest(r)
             THEN [requests[r] EXCEPT !.status = "CANCELLED"]
             ELSE requests[r]]
        /\ Finish(self)
        /\ UNCHANGED <<trades, leaves, entries, now>>
     \/ ~claims /\ Rollback(self)

-----------------------------------------------------------------------------
(* rejectStaffingRequest: a broadcast request stays open and only records  *)
(* the decline; a targeted one is closed.  No lock in either case.         *)

RejectRequestBegin(self, u, r) ==
  /\ Answerable(r, u)
  /\ Begin(self, [Idle EXCEPT !.op = "rejectRequest",
                    !.step = IF Broadcast(r) THEN "check" ELSE "write",
                    !.user = u, !.item = r])
  /\ UNCHANGED <<tables, now, held>>

RejectBroadcastCheck(self) ==
  LET a == sess[self] IN
  /\ At(self, "rejectRequest", "check")
  /\ Check(self, PendingRequest(a.item) /\ a.user \in Qualified, "write")

\* The decline is an upsert: repeating it changes nothing.
RejectBroadcastCommit(self) ==
  LET a == sess[self] IN
  /\ At(self, "rejectRequest", "write")
  /\ Broadcast(a.item)
  /\ requests' = [requests EXCEPT ![a.item].declines = @ \cup {a.user}]
  /\ Finish(self)
  /\ UNCHANGED <<shifts, trades, leaves, entries, now>>

\* Mutant of CloseRequest: the row is updated by id alone.
CloseAnyRequest(self, r, status) ==
  /\ requests' = [requests EXCEPT ![r].status = status]
  /\ Finish(self)
  /\ UNCHANGED <<shifts, trades, leaves, entries, now>>

CloseRequest(self, r, status) ==
  \/ /\ PendingRequest(r)
     /\ requests' = [requests EXCEPT ![r].status = status]
     /\ Finish(self)
     /\ UNCHANGED <<shifts, trades, leaves, entries, now>>
  \/ ~PendingRequest(r) /\ Rollback(self)

RejectTargetedCommit(self) ==
  /\ At(self, "rejectRequest", "write")
  /\ ~Broadcast(sess[self].item)
  /\ CloseRequest(self, sess[self].item, "REJECTED")

-----------------------------------------------------------------------------
(* cancelStaffingRequest, by an administrator: no lock *)

CancelRequestBegin(self, r) ==
  /\ PendingRequest(r)
  /\ Begin(self, [Idle EXCEPT !.op = "cancelRequest", !.step = "write",
                              !.item = r])
  /\ UNCHANGED <<tables, now, held>>

CancelRequestCommit(self) ==
  /\ At(self, "cancelRequest", "write")
  /\ CloseRequest(self, sess[self].item, "CANCELLED")

-----------------------------------------------------------------------------
StaffingRequest(self) ==
  \/ \E s \in ShiftId, target \in MaybeUser : CreateRequestForShift(self, s, target)
  \/ \E c \in Cinema, i \in Interval, target \in MaybeUser :
       CreateRequestForPeriod(self, c, i, target)
  \/ \E u \in User, r \in RequestId : AcceptRequestBegin(self, u, r)
  \/ \E u \in User, r \in RequestId : RejectRequestBegin(self, u, r)
  \/ \E r \in RequestId : CancelRequestBegin(self, r)

StaffingStep(self) ==
  \/ CreateRequestInsertShift(self)
  \/ CreateRequestCommit(self)
  \/ AcceptRequestLock(self)
  \/ AcceptRequestCheck(self)
  \/ AcceptRequestFind(self)
  \/ AcceptRequestCommit(self)
  \/ RejectBroadcastCheck(self)
  \/ RejectBroadcastCommit(self)
  \/ RejectTargetedCommit(self)
  \/ CancelRequestCommit(self)
=============================================================================
