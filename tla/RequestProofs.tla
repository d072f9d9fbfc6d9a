----------------------------- MODULE RequestProofs -----------------------------
(***************************************************************************)
(* Staffing requests and absences: no employee has two overlapping absences *)
(* of one cinema that are waiting or approved, a staffing request is won    *)
(* from an unassigned shift, and what is settled stays settled, for any      *)
(* number of users, rows and concurrent requests, with the expiry job beside *)
(* them.  Then what the handlers promise each other once the one that breaks *)
(* the promise is left out: no double booking without acceptances, offers and *)
(* time entries that follow their shift without its edits, and no shift       *)
(* during an approved absence where gifts and approvals do not overlap.       *)
(***************************************************************************)
EXTENDS ShiftAssignmentProofs

-----------------------------------------------------------------------------
(* LeaveExclusive is not inductive.  An absence is filed after a look at    *)
(* the others of the employee, so the invariant says that whoever is past   *)
(* the look holds the lock on the employee's leave and that there is still   *)
(* nothing in the way; and that a status is only written over the one it     *)
(* may follow.                                                               *)

ActiveStatus == {"PENDING", "APPROVED"}

Filing(a, locks) ==
  a.op = "createLeave" =>
    /\ LeaveUserLock(a.user) \in locks
    /\ a.step = "write" => ~LeaveDuring(a.user, a.cinema, a.ivl, None, ActiveStatus)

Settling(a) ==
  a.op = "setLeaveStatus" /\ a.step = "write" => StatusChangeAllowed(a.oldStatus, a.status)

LeaveInv ==
  /\ OfferInv
  /\ LeaveExclusive
  /\ \A p \in Session : Filing(sess[p], held[p]) /\ Settling(sess[p])

\* No absence becomes active, or another's.
OpensNoLeave ==
  \A l \in LeaveId : leaves'[l].status \in ActiveStatus =>
    /\ leaves[l].status \in ActiveStatus
    /\ leaves'[l].user = leaves[l].user
    /\ leaves'[l].cinema = leaves[l].cinema
    /\ leaves'[l].ivl = leaves[l].ivl

\* Steps that open no absence leave what others have seen true.
LEMMA FilingStays ==
  ASSUME OpensNoLeave, NEW a, NEW locks, NEW more \in SUBSET locks, Filing(a, more)
  PROVE  Filing(a, locks)'
<1>1. ASSUME LeaveDuring(a.user, a.cinema, a.ivl, None, ActiveStatus)'
      PROVE  LeaveDuring(a.user, a.cinema, a.ivl, None, ActiveStatus)
  BY <1>1 DEF LeaveDuring, OpensNoLeave
<1> QED BY <1>1 DEF Filing

\* Where no absence becomes active, the exclusion stays.
LEMMA ExclusiveStays ==
  ASSUME LeaveExclusive, OpensNoLeave
  PROVE  LeaveExclusive'
BY DEF LeaveExclusive, OpensNoLeave, ActiveStatus

\* Where no absence becomes active, only the requester has to be looked at.
LEMMA OpensNoneKeeps ==
  ASSUME LeaveInv, OfferInv', OpensNoLeave, NEW self \in Session, TakesLocks(self),
         \A p \in Session \ {self} : sess'[p] = sess[p],
         \/ Filing(sess[self], held[self])'
         \/ sess'[self] = sess[self],
         Settling(sess[self])'
  PROVE  LeaveInv'
<1>1. LeaveExclusive'
  BY ExclusiveStays DEF LeaveInv
<1>2. ASSUME NEW p \in Session PROVE Filing(sess[p], held[p])'
  <2>1. CASE sess'[p] = sess[p]
    <3> PICK a : a = sess[p]
      OBVIOUS
    <3> PICK old : old = held[p]
      OBVIOUS
    <3> PICK new : new = held'[p]
      OBVIOUS
    <3>1. a.op # "none" => old \subseteq new
      BY <2>1, IdleOp DEF TakesLocks
    <3>2. a.op # "none" => Filing(a, new)'
      BY <3>1, FilingStays DEF LeaveInv
    <3>3. a.op = "none" => Filing(a, new)'
      BY DEF Filing
    <3>4. sess'[p] = a /\ held'[p] = new
      BY <2>1
    <3> QED BY <3>2, <3>3, <3>4
  <2>2. CASE p = self /\ sess'[p] # sess[p]
    BY <2>2
  <2> QED BY <2>1, <2>2
<1>3. ASSUME NEW p \in Session PROVE Settling(sess[p])'
  BY DEF LeaveInv, Settling
<1> QED BY <1>1, <1>2, <1>3 DEF LeaveInv

\* Every handler but those of absence.
LEMMA OthersKeep ==
  ASSUME LeaveInv, OfferInv', NEW self \in Session, NEW ops,
         Footprint(self, ops), UNCHANGED leaves,
         {"createLeave", "setLeaveStatus"} \cap ops = {}
  PROVE  LeaveInv'
<1>1. OpensNoLeave
  BY DEF OpensNoLeave
<1>2. sess'[self].op \notin {"createLeave", "setLeaveStatus"}
  BY DEF Footprint
<1>3. Filing(sess[self], held[self])' /\ Settling(sess[self])'
  BY <1>2 DEF Filing, Settling
<1> QED BY <1>1, <1>3, OpensNoneKeeps DEF Footprint

\* A transaction that ends and makes no absence active.
LEMMA FinishKeeps ==
  ASSUME LeaveInv, OfferInv', NEW self \in Session, Finish(self), OpensNoLeave
  PROVE  LeaveInv'
<1>a. Footprint(self, {})
  BY FinishFoot DEF LeaveInv, OfferInv
<1>1. sess'[self].op = "none"
  BY <1>a DEF Footprint
<1>2. Filing(sess[self], held[self])' /\ Settling(sess[self])'
  BY <1>1 DEF Filing, Settling
<1> QED BY <1>a, <1>2, OpensNoneKeeps DEF Footprint

\* No absence becomes active where none is written.
LEMMA SameLeaves == UNCHANGED leaves => OpensNoLeave
BY DEF OpensNoLeave

\* A refusal and a crash write no absence.
LEMMA RollbackKeeps ==
  ASSUME LeaveInv, OfferInv', NEW self \in Session, Rollback(self)
  PROVE  LeaveInv'
BY FinishKeeps, SameLeaves DEF Rollback, tables

-----------------------------------------------------------------------------
(* createLeaveRequestFlow *)

\* A filing starts with the lock on the employee's leave.
LEMMA CreateLeaveBeginKeeps ==
  ASSUME LeaveInv, OfferInv', NEW self \in Session, NEW u \in User, NEW c \in Cinema,
         NEW i \in Interval, CreateLeaveBegin(self, u, c, i)
  PROVE  LeaveInv'
<1> PICK a : a = [Idle EXCEPT !.op = "createLeave", !.step = "check",
                              !.user = u, !.cinema = c, !.ivl = i]
  OBVIOUS
<1>1. a.op = "createLeave" /\ a.step = "check" /\ a.user = u
  BY DEF Idle
<1>2. Begin(self, a) /\ Acquire(self, LeaveUserLock(u)) /\ UNCHANGED leaves
  BY DEF CreateLeaveBegin, tables
<1>3. sess \in [Session -> SessionState] /\ held \in [Session -> SUBSET LockKey]
  BY DEF LeaveInv, OfferInv, TypeInv, TypeOK, StoreTypeOK
<1>4. /\ sess'[self] = a /\ LeaveUserLock(u) \in held'[self]
      /\ \A p \in Session \ {self} : sess'[p] = sess[p]
  BY <1>2, <1>3 DEF Begin, Acquire
<1>5. Filing(sess[self], held[self])' /\ Settling(sess[self])'
  BY <1>1, <1>4 DEF Filing, Settling
<1>6. TakesLocks(self)
  BY <1>2, AcquireTakes DEF LeaveInv, OfferInv
<1> QED BY <1>2, <1>4, <1>5, <1>6, SameLeaves, OpensNoneKeeps

\* It goes on where there is no active absence in the way.
LEMMA CreateLeaveCheckKeeps ==
  ASSUME LeaveInv, OfferInv', NEW self \in Session, CreateLeaveCheck(self)
  PROVE  LeaveInv'
<1>1. CASE Rollback(self)
  BY <1>1, RollbackKeeps
<1>2. CASE ~ Rollback(self)
  <2> PICK a : a = sess[self]
    OBVIOUS
  <2>1. /\ a.op = "createLeave" /\ Goto(self, "write") /\ UNCHANGED <<leaves, held>>
        /\ ~LeaveDuring(a.user, a.cinema, a.ivl, None, ActiveStatus)
    BY <1>2 DEF CreateLeaveCheck, Check, At, ActiveStatus, tables
  <2> PICK b : b = [a EXCEPT !.step = "write"]
    OBVIOUS
  <2>2. a \in SessionState /\ sess \in [Session -> SessionState]
    BY DEF LeaveInv, OfferInv, TypeInv, TypeOK, StoreTypeOK
  <2>3. b.op = a.op /\ b.user = a.user /\ b.cinema = a.cinema /\ b.ivl = a.ivl
    BY <2>2 DEF SessionState
  <2>4. sess'[self] = b /\ \A p \in Session \ {self} : sess'[p] = sess[p]
    BY <2>1, <2>2 DEF Goto
  <2>5. LeaveUserLock(b.user) \in held[self]
    BY <2>1, <2>3 DEF LeaveInv, Filing
  <2>6. Filing(b, held[self])
    BY <2>1, <2>3, <2>5 DEF Filing
  <2>7. Filing(sess[self], held[self])' /\ Settling(sess[self])'
    BY <2>1, <2>3, <2>4, <2>6 DEF Filing, Settling, LeaveDuring
  <2>8. TakesLocks(self)
    BY <2>1, AcquireTakes DEF LeaveInv, OfferInv
  <2> QED BY <2>1, <2>4, <2>7, <2>8, SameLeaves, OpensNoneKeeps
<1> QED BY <1>1, <1>2

\* It inserts the absence with the lock still held, so that no other filing
\* of the employee has looked.
LEMMA CreateLeaveCommitKeeps ==
  ASSUME LeaveInv, OfferInv', NEW self \in Session, CreateLeaveCommit(self)
  PROVE  LeaveInv'
<1>1. CASE Rollback(self)
  BY <1>1, RollbackKeeps
<1>2. CASE ~ Rollback(self)
  <2> PICK a : a = sess[self]
    OBVIOUS
  <2> PICK row : row = [status |-> "PENDING", user |-> a.user, cinema |-> a.cinema,
                        ivl |-> a.ivl]
    OBVIOUS
  <2>1. PICK l \in LeaveId : leaves[l].status = "unused" /\ leaves' = [leaves EXCEPT ![l] = row]
    BY <1>2 DEF CreateLeaveCommit, First, UnusedLeaveIds
  <2>2. Finish(self) /\ a.op = "createLeave" /\ a.step = "write"
    BY <1>2 DEF CreateLeaveCommit, At
  <2>3. /\ LeaveUserLock(a.user) \in held[self]
        /\ ~LeaveDuring(a.user, a.cinema, a.ivl, None, ActiveStatus)
    BY <2>2 DEF LeaveInv, Filing
  <2>4. /\ leaves \in [LeaveId -> LeaveRow] /\ sess \in [Session -> SessionState]
        /\ held \in [Session -> SUBSET LockKey] /\ a.user \in User
    BY <2>2 DEF LeaveInv, OfferInv, TypeInv, TypeOK, StoreTypeOK, SessionOK
  <2>5. /\ leaves'[l] = row
        /\ \A k \in LeaveId \ {l} : leaves'[k] = leaves[k]
        /\ row.status = "PENDING" /\ row.user = a.user /\ row.cinema = a.cinema
        /\ row.ivl = a.ivl
    BY <2>1, <2>4
  <2>6. LeaveExclusive'
    <3>1. \A k \in LeaveId : leaves[k].status \in ActiveStatus =>
            ~(leaves[k].user = a.user /\ leaves[k].cinema = a.cinema
              /\ Overlap(leaves[k].ivl, a.ivl))
      BY <2>3, IdsAreNotNull DEF LeaveDuring
    <3>2. \A k \in LeaveId : Overlap(leaves[k].ivl, a.ivl) <=> Overlap(a.ivl, leaves[k].ivl)
      BY DEF Overlap
    <3>3. \A m, n \in LeaveId \ {l} :
            m # n /\ {leaves[m].status, leaves[n].status} \subseteq {"PENDING", "APPROVED"} =>
              ~(/\ leaves[m].user = leaves[n].user
                /\ leaves[m].cinema = leaves[n].cinema
                /\ Overlap(leaves[m].ivl, leaves[n].ivl))
      BY DEF LeaveInv, LeaveExclusive
    <3> SUFFICES ASSUME NEW m \in LeaveId, NEW n \in LeaveId, m # n,
                        leaves'[m].status \in ActiveStatus,
                        leaves'[n].status \in ActiveStatus
                 PROVE  ~(/\ leaves'[m].user = leaves'[n].user
                          /\ leaves'[m].cinema = leaves'[n].cinema
                          /\ Overlap(leaves'[m].ivl, leaves'[n].ivl))
      BY DEF LeaveExclusive, ActiveStatus
    <3>4. CASE m = l
      BY <2>5, <3>1, <3>2, <3>4
    <3>5. CASE n = l
      BY <2>5, <3>1, <3>5
    <3>6. CASE m # l /\ n # l
      BY <2>5, <3>3, <3>6 DEF ActiveStatus
    <3> QED BY <3>4, <3>5, <3>6
  <2>7. ASSUME NEW p \in Session PROVE Filing(sess[p], held[p])' /\ Settling(sess[p])'
    <3>1. CASE p = self
      BY <2>2, <2>4, <3>1, IdleOp DEF Finish, Filing, Settling
    <3>2. CASE p # self
      <4> PICK b : b = sess[p]
        OBVIOUS
      <4>1. sess'[p] = b /\ held'[p] = held[p]
        BY <2>2, <2>4, <3>2 DEF Finish
      <4>2. b.op = "createLeave" => b.user # a.user
        BY <2>3, <3>2 DEF LeaveInv, Filing, OfferInv, LocksExclusive
      <4>3. ASSUME b.op = "createLeave",
                   LeaveDuring(b.user, b.cinema, b.ivl, None, ActiveStatus)'
            PROVE  LeaveDuring(b.user, b.cinema, b.ivl, None, ActiveStatus)
        BY <2>5, <4>2, <4>3 DEF LeaveDuring
      <4>4. Filing(b, held[p]) /\ Settling(b)
        BY DEF LeaveInv
      <4> QED BY <4>1, <4>3, <4>4 DEF Filing, Settling
    <3> QED BY <3>1, <3>2
  <2> QED BY <2>6, <2>7 DEF LeaveInv
<1> QED BY <1>1, <1>2

-----------------------------------------------------------------------------
(* updateLeaveRequestStatusFlow and the expiry job *)

\* A step of the decision that writes no absence.
LEMMA SetStatusStepKeeps ==
  ASSUME LeaveInv, OfferInv', NEW self \in Session,
         Footprint(self, {"setLeaveStatus"}), UNCHANGED leaves,
         Settling(sess[self])'
  PROVE  LeaveInv'
<1>1. Filing(sess[self], held[self])'
  BY DEF Footprint, Filing
<1> QED BY <1>1, SameLeaves, OpensNoneKeeps DEF Footprint

\* A decision writes a status over the one it was checked against.
LEMMA SetLeaveStatusKeeps ==
  ASSUME LeaveInv, OfferInv', NEW self \in Session,
         \/ \E l \in LeaveId, status \in {"APPROVED", "REJECTED", "CANCELLED"} :
              SetLeaveStatusBegin(self, l, status)
         \/ SetLeaveStatusRead(self) \/ SetLeaveStatusLockUser(self)
         \/ SetLeaveStatusCheck(self) \/ SetLeaveStatusCommit(self)
  PROVE  LeaveInv'
<1>a. TypeInv /\ sess \in [Session -> SessionState]
  BY DEF LeaveInv, OfferInv, TypeInv, TypeOK, StoreTypeOK
<1>1. ASSUME NEW l \in LeaveId, NEW status \in {"APPROVED", "REJECTED", "CANCELLED"},
             SetLeaveStatusBegin(self, l, status)
      PROVE  LeaveInv'
  <2>1. Footprint(self, {"setLeaveStatus"}) /\ UNCHANGED leaves
    BY <1>1, <1>a, BeginFoot, AcquireTakes DEF SetLeaveStatusBegin, Idle, tables
  <2>2. sess'[self].step = "read"
    BY <1>1, <1>a DEF SetLeaveStatusBegin, Begin, Idle
  <2> QED BY <2>1, <2>2, SetStatusStepKeeps DEF Settling
<1>2. CASE SetLeaveStatusRead(self)
  <2>1. /\ sess[self].op = "setLeaveStatus" /\ UNCHANGED <<leaves, held>>
    BY <1>2 DEF SetLeaveStatusRead, At, tables
  <2>2. /\ sess'[self].op = "setLeaveStatus" /\ sess'[self].step = "lock"
        /\ \A p \in Session \ {self} : sess'[p] = sess[p]
    BY <1>2, <1>a, <2>1 DEF SetLeaveStatusRead, SessionState
  <2>3. Footprint(self, {"setLeaveStatus"})
    BY <1>a, <2>1, <2>2, AcquireTakes DEF Footprint
  <2> QED BY <2>1, <2>2, <2>3, SetStatusStepKeeps DEF Settling
<1>3. CASE SetLeaveStatusLockUser(self)
  <2>1. Footprint(self, {"setLeaveStatus"}) /\ UNCHANGED leaves
    BY <1>3, <1>a, GotoFoot, AcquireTakes DEF SetLeaveStatusLockUser, At, tables
  <2>2. sess'[self].step = "check"
    BY <1>3, <1>a DEF SetLeaveStatusLockUser, Goto, SessionState
  <2> QED BY <2>1, <2>2, SetStatusStepKeeps DEF Settling
<1>4. CASE SetLeaveStatusCheck(self)
  <2>1. CASE Rollback(self)
    BY <2>1, RollbackKeeps
  <2>2. CASE ~ Rollback(self)
    <3> PICK a : a = sess[self]
      OBVIOUS
    <3>1. /\ a.op = "setLeaveStatus" /\ StatusChangeAllowed(a.oldStatus, a.status)
          /\ Goto(self, "write") /\ UNCHANGED <<leaves, held>>
      BY <1>4, <2>2 DEF SetLeaveStatusCheck, Check, At, tables
    <3>2. Footprint(self, {"setLeaveStatus"})
      BY <1>a, <3>1, GotoFoot, AcquireTakes
    <3>3. sess'[self].oldStatus = a.oldStatus /\ sess'[self].status = a.status
      BY <1>a, <3>1 DEF Goto, SessionState
    <3>4. Settling(sess[self])'
      BY <3>1, <3>3 DEF Settling, StatusChangeAllowed
    <3> QED BY <3>1, <3>2, <3>4, SetStatusStepKeeps
  <2> QED BY <2>1, <2>2
<1>5. CASE SetLeaveStatusCommit(self)
  <2>1. CASE Rollback(self)
    BY <2>1, RollbackKeeps
  <2>2. CASE ~ Rollback(self)
    <3> PICK a : a = sess[self]
      OBVIOUS
    <3>1. /\ a.op = "setLeaveStatus" /\ a.step = "write" /\ Finish(self)
          /\ leaves[a.item].status = a.oldStatus
          /\ leaves' = [leaves EXCEPT ![a.item].status = a.status]
      BY <1>5, <2>2 DEF SetLeaveStatusCommit, At
    <3>2. StatusChangeAllowed(a.oldStatus, a.status)
      BY <3>1 DEF LeaveInv, Settling
    <3>3. leaves \in [LeaveId -> LeaveRow]
      BY <1>a DEF TypeInv, TypeOK, StoreTypeOK
    <3>4. OpensNoLeave
      BY <3>1, <3>2, <3>3 DEF OpensNoLeave, LeaveRow, StatusChangeAllowed, ActiveStatus
    <3> QED BY <3>1, <3>4, FinishKeeps
  <2> QED BY <2>1, <2>2
<1> QED BY <1>1, <1>2, <1>3, <1>4, <1>5

\* A step of no request that makes no absence active.
LEMMA UnsentKeeps ==
  ASSUME LeaveInv, OfferInv', UNCHANGED <<held, sess>>, OpensNoLeave
  PROVE  LeaveInv'
<1>1. LeaveExclusive'
  BY ExclusiveStays DEF LeaveInv
<1>2. ASSUME NEW p \in Session PROVE Filing(sess[p], held[p])' /\ Settling(sess[p])'
  <2> PICK a : a = sess[p]
    OBVIOUS
  <2> PICK locks : locks = held[p]
    OBVIOUS
  <2>1. Filing(a, locks)' /\ Settling(a)
    BY FilingStays DEF LeaveInv
  <2>2. sess'[p] = a /\ held'[p] = locks
    OBVIOUS
  <2> QED BY <2>1, <2>2 DEF Settling, Filing
<1> QED BY <1>1, <1>2 DEF LeaveInv

\* The expiry job makes no absence active.
LEMMA ExpiryOpensNoLeave ==
  ASSUME LeaveInv, ExpireLeaves PROVE OpensNoLeave
<1>1. leaves \in [LeaveId -> LeaveRow]
  BY DEF LeaveInv, OfferInv, TypeInv, TypeOK, StoreTypeOK
<1>2. ASSUME NEW l \in LeaveId, leaves'[l].status \in ActiveStatus
      PROVE  leaves'[l] = leaves[l]
  BY <1>1, <1>2 DEF ExpireLeaves, ActiveStatus, LeaveRow
<1> QED BY <1>2 DEF OpensNoLeave

-----------------------------------------------------------------------------
(* The theorems *)

\* The invariant holds where there is nothing yet.
LEMMA InitLeaveInv == Init => LeaveInv
BY InitOfferInv, IdleOp
   DEF Init, StoreInit, LeaveInv, LeaveExclusive, Filing, Settling, UnusedLeave

\* Every step keeps it: those of the other components by their footprint.
LEMMA LeaveInvInductive == LeaveInv /\ [Next]_vars => LeaveInv'
<1> SUFFICES ASSUME LeaveInv, [Next]_vars PROVE LeaveInv'
  OBVIOUS
<1>1. OfferInv' /\ TypeInv
  BY OfferInvInductive DEF LeaveInv, OfferInv
<1>2. ASSUME NEW self \in Session, ShiftRequest(self) \/ ShiftStep(self) PROVE LeaveInv'
  BY <1>1, <1>2, ShiftsFootprint, OthersKeep DEF ShiftsOps
<1>3. ASSUME NEW self \in Session, TradeRequest(self) \/ TradeStep(self) PROVE LeaveInv'
  BY <1>1, <1>3, TradesFootprint, OthersKeep DEF TradesOps, OffersOps, AnswersOps
<1>4. ASSUME NEW self \in Session, StaffingRequest(self) \/ StaffingStep(self) PROVE LeaveInv'
  BY <1>1, <1>4, StaffingFootprint, OthersKeep DEF StaffingOps
<1>5. ASSUME NEW self \in Session, ClockRequest(self) \/ ClockStep(self) PROVE LeaveInv'
  BY <1>1, <1>5, ClocksFootprint, OthersKeep DEF ClocksOps
<1>6. ASSUME NEW self \in Session, LeaveRequest(self) \/ LeaveStep(self) PROVE LeaveInv'
  BY <1>1, <1>6, CreateLeaveBeginKeeps, CreateLeaveCheckKeeps, CreateLeaveCommitKeeps,
     SetLeaveStatusKeeps
  DEF LeaveRequest, LeaveStep
<1>7. ASSUME NEW self \in Session, Crash(self) PROVE LeaveInv'
  BY <1>1, <1>7, RollbackKeeps DEF Crash
<1>8. CASE ExpireLeaves
  BY <1>1, <1>8, ExpiryOpensNoLeave, UnsentKeeps DEF ExpireLeaves
<1>9. CASE UNCHANGED <<leaves, held, sess>>
  BY <1>1, <1>9, SameLeaves, UnsentKeeps
<1> QED BY <1>2, <1>3, <1>4, <1>5, <1>6, <1>7, <1>8, <1>9
        DEF Next, Request, Advance, Tick, tables, vars

\* However requests for absence, decisions and the expiry job interleave, no
\* employee has two overlapping active absences in a cinema: the lock on the
\* employee's leave is enough, although the job takes no lock.
THEOREM LeavesNeverOverlap == Spec => []LeaveExclusive
<1>1. LeaveInv => LeaveExclusive
  BY DEF LeaveInv
<1> QED BY <1>1, InitLeaveInv, LeaveInvInductive, PTL DEF Spec

\* What one step does to the status of an absence.
LEMMA SettledStep ==
  ASSUME LeaveInv, [Next]_vars, NEW l \in LeaveId
  PROVE  /\ leaves[l].status \in {"REJECTED", "CANCELLED", "EXPIRED"} =>
              leaves'[l].status = leaves[l].status
         /\ leaves[l].status = "APPROVED" =>
              leaves'[l].status \in {"APPROVED", "CANCELLED"}
<1>a. TypeInv /\ leaves \in [LeaveId -> LeaveRow]
  BY DEF LeaveInv, OfferInv, TypeInv, TypeOK, StoreTypeOK
<1>1. CASE UNCHANGED leaves
  BY <1>1
<1>2. CASE ExpireLeaves
  <2>1. leaves'[l] = IF Expiring(l) THEN [leaves[l] EXCEPT !.status = "EXPIRED"] ELSE leaves[l]
    BY <1>2 DEF ExpireLeaves
  <2> QED BY <2>1 DEF Expiring
<1>3. ASSUME NEW self \in Session, CreateLeaveCommit(self), ~ UNCHANGED leaves
      PROVE  leaves'[l] = leaves[l] \/ leaves[l].status = "unused"
  BY <1>3, <1>a DEF CreateLeaveCommit, Rollback, tables, First, UnusedLeaveIds
<1>4. ASSUME NEW self \in Session, SetLeaveStatusCommit(self), ~ UNCHANGED leaves
      PROVE  \/ leaves'[l] = leaves[l]
             \/ StatusChangeAllowed(leaves[l].status, leaves'[l].status)
  <2> PICK a : a = sess[self]
    OBVIOUS
  <2>1. /\ a.op = "setLeaveStatus" /\ a.step = "write"
        /\ leaves[a.item].status = a.oldStatus
        /\ leaves' = [leaves EXCEPT ![a.item].status = a.status]
    BY <1>4 DEF SetLeaveStatusCommit, At, Rollback, tables
  <2>2. StatusChangeAllowed(a.oldStatus, a.status)
    BY <2>1 DEF LeaveInv, Settling
  <2> QED BY <1>a, <2>1, <2>2 DEF LeaveRow
<1>5. ASSUME NEW self \in Session, LeaveRequest(self) \/ LeaveStep(self),
             ~ CreateLeaveCommit(self), ~ SetLeaveStatusCommit(self)
      PROVE  UNCHANGED leaves
  BY <1>5
  DEF LeaveRequest, LeaveStep, CreateLeaveBegin, CreateLeaveCheck, SetLeaveStatusBegin,
      SetLeaveStatusRead, SetLeaveStatusLockUser, SetLeaveStatusCheck, Check, Rollback, tables
<1>6. ASSUME NEW self \in Session,
             \/ ShiftRequest(self) \/ ShiftStep(self)
             \/ TradeRequest(self) \/ TradeStep(self)
             \/ StaffingRequest(self) \/ StaffingStep(self)
             \/ ClockRequest(self) \/ ClockStep(self)
             \/ Crash(self)
      PROVE  UNCHANGED leaves
  BY <1>a, <1>6, ShiftsFootprint, TradesFootprint, StaffingFootprint, ClocksFootprint
  DEF Crash, Rollback, tables
<1>7. ASSUME NEW self \in Session, LeaveRequest(self) \/ LeaveStep(self)
      PROVE  \/ leaves'[l] = leaves[l]
             \/ leaves[l].status = "unused"
             \/ StatusChangeAllowed(leaves[l].status, leaves'[l].status)
  BY <1>3, <1>4, <1>5, <1>7
<1>8. \/ leaves'[l] = leaves[l]
      \/ leaves[l].status = "unused"
      \/ StatusChangeAllowed(leaves[l].status, leaves'[l].status)
      \/ ExpireLeaves
  BY <1>6, <1>7 DEF Next, Request, Advance, Tick, tables, vars
<1> QED BY <1>2, <1>8 DEF StatusChangeAllowed

\* A rejected, cancelled or expired absence stays so and an approved one can
\* only be cancelled: the status is written over the one that was checked.
THEOREM SettledLeavesStay == Spec => SettledLeaveStaysSettled
<1>1. LeaveInv /\ [Next]_vars =>
        [\A l \in LeaveId :
           /\ leaves[l].status \in {"REJECTED", "CANCELLED", "EXPIRED"} =>
                leaves'[l].status = leaves[l].status
           /\ leaves[l].status = "APPROVED" =>
                leaves'[l].status \in {"APPROVED", "CANCELLED"}]_vars
  BY SettledStep
<1> QED BY <1>1, InitLeaveInv, LeaveInvInductive, PTL DEF Spec, SettledLeaveStaysSettled

-----------------------------------------------------------------------------
(* Staffing requests.  An acceptance reads which shift a request is for     *)
(* before it waits for the lock of the shift, and writes the request by id; *)
(* a request that is still pending then is still for that shift, unless the *)
(* shift has been deleted since.                                             *)

Requesting(p) ==
  sess[p].op = "acceptRequest" =>
    /\ requests[sess[p].item].status # "unused"
    /\ PendingRequest(sess[p].item) =>
         \/ requests[sess[p].item].shift = sess[p].shift
         \/ requests[sess[p].item].shift = None /\ shifts[sess[p].shift].state = "deleted"

RequestInv == TypeInv /\ \A p \in Session : Requesting(p)

Settled == {"ACCEPTED", "REJECTED", "CANCELLED"}

\* What a step may do to a request.
MovesRow(old, new) ==
  /\ old.status \in Settled => new.status = old.status
  /\ old.status # "unused" => new.status # "unused"
  /\ old.status # "unused" /\ new.status = "PENDING" =>
       \/ new.shift = old.shift
       \/ new.shift = None /\ shifts'[old.shift].state = "deleted"

MovesRequests == \A r \in RequestId : MovesRow(requests[r], requests'[r])

\* A step that accepts no request.
AcceptsNone == \A r \in RequestId : PendingRequest(r) => requests'[r].status # "ACCEPTED"

\* A step that makes no request.
AsksNone == \A r \in RequestId : requests[r].status = "unused" => requests'[r].status = "unused"

\* Nothing moves where no request is written.
LEMMA SameMoves == UNCHANGED requests => MovesRequests /\ AcceptsNone /\ AsksNone
BY DEF MovesRequests, MovesRow, AcceptsNone, AsksNone, PendingRequest

\* The requests of a shift that is edited or deleted are cancelled if they were
\* found, and lose a shift that is deleted.
LEMMA ResolveMoves ==
  ASSUME TypeInv, NEW s \in ShiftId, NEW rs, NEW keep,
         \/ keep = s
         \/ keep = None /\ shifts'[s].state = "deleted",
         requests' = ResolveRequests(s, rs, keep)
  PROVE  MovesRequests /\ AcceptsNone /\ AsksNone
<1> SUFFICES ASSUME NEW r \in RequestId
             PROVE  /\ MovesRow(requests[r], requests'[r])
                    /\ requests[r].status = "PENDING" => requests'[r].status # "ACCEPTED"
                    /\ requests[r].status = "unused" => requests'[r].status = "unused"
  BY DEF MovesRequests, AcceptsNone, AsksNone, PendingRequest
<1>1. requests[r] \in RequestRow /\ requests[r].status \in RequestStatus
  BY DEF TypeInv, TypeOK, StoreTypeOK, RequestRow
<1>2. CASE requests[r].shift = s
  <2>1. requests'[r] = [requests[r] EXCEPT !.shift = keep,
                          !.status = IF r \in rs /\ @ = "PENDING" THEN "CANCELLED" ELSE @]
    BY <1>2 DEF ResolveRequests
  <2>2. /\ requests'[r].status = IF r \in rs /\ requests[r].status = "PENDING"
                                 THEN "CANCELLED" ELSE requests[r].status
        /\ requests'[r].shift = keep
    BY <1>1, <2>1 DEF RequestRow
  <2> QED BY <1>2, <2>2 DEF MovesRow, Settled
<1>3. CASE requests[r].shift # s
  BY <1>3 DEF ResolveRequests, MovesRow
<1> QED BY <1>2, <1>3

\* An edit of a shift cancels its requests, and writes no other.
LEMMA ShiftsMove ==
  ASSUME TypeInv, NEW self \in Session, ShiftRequest(self) \/ ShiftStep(self)
  PROVE  MovesRequests /\ AcceptsNone /\ AsksNone
<1>a. shifts \in [ShiftId -> ShiftRow]
  BY DEF TypeInv, TypeOK, StoreTypeOK
<1>1. ASSUME ~ UpdateShiftCommit(self), ~ DeleteShiftCommit(self) PROVE UNCHANGED requests
  BY <1>1
  DEF ShiftRequest, ShiftStep, CreateShiftBegin, UpdateShiftBegin, DeleteShiftBegin,
      CreateShiftCheck, CreateShiftCommit, UpdateShiftRead, UpdateShiftLockUser,
      UpdateShiftCheck, UpdateShiftFind, DeleteShiftCheck, DeleteShiftFind, Find, Check,
      Rollback, tables
<1>2. CASE UpdateShiftCommit(self)
  BY <1>2, SameMoves, ResolveMoves DEF UpdateShiftCommit, LiveShift, Rollback, tables
<1>3. CASE DeleteShiftCommit(self)
  <2>1. CASE Rollback(self)
    BY <2>1, SameMoves DEF Rollback, tables
  <2>2. CASE ~Rollback(self)
    <3> PICK a, s : a = sess[self] /\ s = sess[self].shift
      OBVIOUS
    <3>1. /\ s \in ShiftId /\ requests' = ResolveRequests(s, a.foundRequests, None)
          /\ shifts' = [shifts EXCEPT ![s] = [UnusedShift EXCEPT !.state = "deleted"]]
      BY <1>3, <2>2 DEF DeleteShiftCommit, LiveShift
    <3>2. shifts'[s].state = "deleted"
      BY <1>a, <3>1 DEF UnusedShift
    <3> QED BY <3>1, <3>2, ResolveMoves
  <2> QED BY <2>1, <2>2
<1> QED BY <1>1, <1>2, <1>3, SameMoves

\* One request that is written.
LEMMA OneMoves ==
  ASSUME TypeInv, NEW r \in RequestId, NEW row,
         requests' = [requests EXCEPT ![r] = row], MovesRow(requests[r], row),
         requests[r].status = "PENDING" => row.status # "ACCEPTED"
  PROVE  /\ MovesRequests /\ AcceptsNone
         /\ (requests[r].status = "unused" => row.status = "unused") => AsksNone
BY DEF AsksNone, TypeInv, TypeOK, StoreTypeOK, MovesRequests, MovesRow, AcceptsNone, PendingRequest

\* An acceptance accepts its request and cancels the others of the shift.
LEMMA AcceptRequestMoves ==
  ASSUME TypeInv, NEW self \in Session, AcceptRequestCommit(self)
  PROVE  MovesRequests /\ AsksNone
<1>1. CASE Rollback(self)
  BY <1>1, SameMoves DEF Rollback, tables
<1>2. CASE ~ Rollback(self)
  <2> PICK a : a = sess[self]
    OBVIOUS
  <2>1. /\ PendingRequest(a.item)
        /\ requests' = [r \in RequestId |->
             IF r = a.item
             THEN [requests[r] EXCEPT !.status = "ACCEPTED", !.acceptedBy = a.user]
             ELSE IF r \in a.foundRequests /\ PendingRequest(r)
             THEN [requests[r] EXCEPT !.status = "CANCELLED"]
             ELSE requests[r]]
    BY <1>2 DEF AcceptRequestCommit
  <2>2. ASSUME NEW r \in RequestId
        PROVE  \/ requests'[r] = requests[r]
               \/ requests[r].status = "PENDING" /\ requests'[r].status \in Settled
    <3>1. requests[r] \in RequestRow
      BY DEF TypeInv, TypeOK, StoreTypeOK
    <3>2. CASE r = a.item
      <4>1. requests'[r] = [requests[r] EXCEPT !.status = "ACCEPTED", !.acceptedBy = a.user]
        BY <2>1, <3>2
      <4>2. requests'[r].status = "ACCEPTED"
        BY <3>1, <4>1 DEF RequestRow
      <4> QED BY <2>1, <3>2, <4>2 DEF PendingRequest, Settled
    <3>3. CASE r # a.item /\ r \in a.foundRequests /\ PendingRequest(r)
      <4>1. requests'[r] = [requests[r] EXCEPT !.status = "CANCELLED"]
        BY <2>1, <3>3
      <4> QED BY <3>1, <3>3, <4>1 DEF RequestRow, PendingRequest, Settled
    <3>4. CASE r # a.item /\ ~(r \in a.foundRequests /\ PendingRequest(r))
      BY <2>1, <3>4
    <3> QED BY <3>2, <3>3, <3>4
  <2> QED BY <2>2 DEF MovesRequests, MovesRow, Settled, AsksNone
<1> QED BY <1>1, <1>2

\* A targeted request that is declined, or any that is cancelled.
LEMMA CloseMoves ==
  ASSUME TypeInv, NEW self, NEW r \in RequestId, NEW status \in {"REJECTED", "CANCELLED"},
         CloseRequest(self, r, status)
  PROVE  MovesRequests /\ AcceptsNone /\ AsksNone
<1>1. CASE UNCHANGED requests
  BY <1>1, SameMoves
<1>2. CASE PendingRequest(r) /\ requests' = [requests EXCEPT ![r].status = status]
  <2>1. requests[r] \in RequestRow /\ requests \in [RequestId -> RequestRow]
    BY DEF TypeInv, TypeOK, StoreTypeOK
  <2>2. PICK row : row = [requests[r] EXCEPT !.status = status]
    OBVIOUS
  <2>3. requests' = [requests EXCEPT ![r] = row] /\ row.status = status
    BY <1>2, <2>1, <2>2 DEF RequestRow
  <2> QED BY <1>2, <2>3, OneMoves DEF MovesRow, PendingRequest, Settled
<1> QED BY <1>1, <1>2 DEF CloseRequest, Rollback, tables

\* The handlers of staffing requests.
LEMMA StaffingMoves ==
  ASSUME TypeInv, NEW self \in Session, StaffingRequest(self) \/ StaffingStep(self)
  PROVE  /\ MovesRequests
         /\ AcceptsNone \/ AcceptRequestCommit(self)
         /\ AsksNone \/ CreateRequestCommit(self)
<1> PICK a : a = sess[self]
  OBVIOUS
<1>a. SessionOK(a) /\ requests \in [RequestId -> RequestRow]
  BY DEF TypeInv, TypeOK, StoreTypeOK
<1>1. CASE RejectTargetedCommit(self) \/ CancelRequestCommit(self)
  <2>1. a.item \in RequestId
    BY <1>a, <1>1 DEF RejectTargetedCommit, CancelRequestCommit, At, SessionOK
  <2> QED BY <1>1, <2>1, CloseMoves DEF RejectTargetedCommit, CancelRequestCommit, Settled
<1>2. CASE CreateRequestCommit(self)
  <2>1. CASE UNCHANGED requests
    BY <2>1, SameMoves
  <2>2. CASE ~ UNCHANGED requests
    <3> PICK row : row = [status |-> "PENDING", shift |-> a.shift,
                          target |-> a.other, acceptedBy |-> None, declines |-> {}]
      OBVIOUS
    <3>1. PICK r \in RequestId :
            requests[r].status = "unused" /\ requests' = [requests EXCEPT ![r] = row]
      BY <1>2, <2>2 DEF CreateRequestCommit, First, UnusedRequestIds, Rollback, tables
    <3>2. row.status = "PENDING"
      OBVIOUS
    <3>3. MovesRow(requests[r], row)
      BY <3>1, <3>2 DEF MovesRow, Settled
    <3>4. MovesRequests /\ AcceptsNone
      BY <3>1, <3>3, OneMoves
    <3> QED BY <1>2, <3>4
  <2> QED BY <2>1, <2>2
<1>3. CASE RejectBroadcastCommit(self)
  <2>1. a.item \in RequestId
    BY <1>a, <1>3 DEF RejectBroadcastCommit, At, SessionOK
  <2> PICK row : row = [requests[a.item] EXCEPT !.declines = @ \cup {a.user}]
    OBVIOUS
  <2>2. requests' = [requests EXCEPT ![a.item] = row]
    BY <1>3, <2>1, <1>a DEF RejectBroadcastCommit
  <2>3. row.status = requests[a.item].status /\ row.shift = requests[a.item].shift
    BY <1>a, <2>1 DEF RequestRow
  <2> QED BY <2>1, <2>2, <2>3, OneMoves DEF MovesRow, Settled
<1>4. CASE \/ \E s \in ShiftId, target \in MaybeUser : CreateRequestForShift(self, s, target)
           \/ \E c \in Cinema, i \in Interval, target \in MaybeUser :
                CreateRequestForPeriod(self, c, i, target)
           \/ \E u \in User, r \in RequestId :
                AcceptRequestBegin(self, u, r) \/ RejectRequestBegin(self, u, r)
           \/ \E r \in RequestId : CancelRequestBegin(self, r)
           \/ CreateRequestInsertShift(self) \/ AcceptRequestLock(self)
           \/ AcceptRequestCheck(self) \/ AcceptRequestFind(self)
           \/ RejectBroadcastCheck(self)
  <2>1. UNCHANGED requests
    BY <1>4
    DEF CreateRequestForShift, CreateRequestForPeriod, AcceptRequestBegin,
        RejectRequestBegin, CancelRequestBegin, CreateRequestInsertShift,
        AcceptRequestLock, AcceptRequestCheck, AcceptRequestFind, Find, RejectBroadcastCheck,
        Check, Rollback, tables
  <2> QED BY <2>1, SameMoves
<1> QED BY <1>1, <1>2, <1>3, <1>4, AcceptRequestMoves DEF StaffingRequest, StaffingStep


\* Only an acceptance accepts a request, only asking makes one, and nothing
\* reopens one.
LEMMA StepsMove ==
  TypeInv /\ [Next]_vars =>
    /\ MovesRequests
    /\ AcceptsNone \/ \E self \in Session : AcceptRequestCommit(self)
    /\ AsksNone \/ \E self \in Session : CreateRequestCommit(self)
<1> DEFINE Moves == /\ MovesRequests
                    /\ AcceptsNone \/ \E self \in Session : AcceptRequestCommit(self)
                    /\ AsksNone \/ \E self \in Session : CreateRequestCommit(self)
<1> SUFFICES ASSUME TypeInv, [Next]_vars PROVE Moves
  OBVIOUS
<1>1. ASSUME NEW self \in Session, TradeRequest(self) \/ TradeStep(self) PROVE Moves
  BY <1>1, TradesFootprint, SameMoves
<1>2. ASSUME NEW self \in Session, ClockRequest(self) \/ ClockStep(self) PROVE Moves
  BY <1>2, ClocksFootprint, SameMoves
<1>3. ASSUME NEW self \in Session, LeaveRequest(self) \/ LeaveStep(self) PROVE Moves
  BY <1>3, LeavesFootprint, SameMoves
<1>4. CASE UNCHANGED requests
  BY <1>4, SameMoves
<1>5. ASSUME NEW self \in Session, ShiftRequest(self) \/ ShiftStep(self) PROVE Moves
  BY <1>5, ShiftsMove
<1>6. ASSUME NEW self \in Session, StaffingRequest(self) \/ StaffingStep(self) PROVE Moves
  BY <1>6, StaffingMoves
<1> HIDE DEF Moves
<1> QED BY <1>1, <1>2, <1>3, <1>4, <1>5, <1>6
        DEF Next, Request, Advance, Crash, Rollback, ExpireLeaves, Tick, tables, vars

\* A shift that is deleted stays so.
DeletedStay ==
  \A s \in ShiftId : shifts[s].state = "deleted" => shifts'[s].state = "deleted"

\* The edits bring none back.
LEMMA ShiftsStayDeleted ==
  ASSUME TypeInv, NEW self \in Session, ShiftRequest(self) \/ ShiftStep(self)
  PROVE  DeletedStay
<1>a. shifts \in [ShiftId -> ShiftRow]
  BY DEF TypeInv, TypeOK, StoreTypeOK
<1>1. CASE UNCHANGED shifts
  BY <1>1 DEF DeletedStay
<1>2. CASE CreateShiftCommit(self) /\ ~UNCHANGED shifts
  BY <1>a, <1>2
  DEF CreateShiftCommit, InsertShift, First, UnusedShiftIds, Rollback, tables, DeletedStay
<1>3. CASE UpdateShiftCommit(self) /\ ~UNCHANGED shifts
  BY <1>a, <1>3 DEF UpdateShiftCommit, LiveShift, Rollback, tables, DeletedStay, ShiftRow
<1>4. CASE DeleteShiftCommit(self) /\ ~UNCHANGED shifts
  <2>1. PICK s \in ShiftId :
          shifts' = [shifts EXCEPT ![s] = [UnusedShift EXCEPT !.state = "deleted"]]
    BY <1>4 DEF DeleteShiftCommit, LiveShift, Rollback, tables
  <2> QED BY <1>a, <2>1 DEF UnusedShift, DeletedStay
<1>5. CASE ~CreateShiftCommit(self) /\ ~UpdateShiftCommit(self) /\ ~DeleteShiftCommit(self)
  <2>1. UNCHANGED shifts
    BY <1>5
    DEF ShiftRequest, ShiftStep, CreateShiftBegin, UpdateShiftBegin, DeleteShiftBegin,
        CreateShiftCheck, UpdateShiftRead, UpdateShiftLockUser, UpdateShiftCheck,
        UpdateShiftFind, DeleteShiftCheck, DeleteShiftFind, Find, Check, Rollback, tables
  <2> QED BY <1>1, <2>1
<1> QED BY <1>1, <1>2, <1>3, <1>4, <1>5

\* Nor do trades.
LEMMA TradesStayDeleted ==
  ASSUME TypeInv, NEW self \in Session, TradeRequest(self) \/ TradeStep(self)
  PROVE  DeletedStay
<1>a. shifts \in [ShiftId -> ShiftRow]
  BY DEF TypeInv, TypeOK, StoreTypeOK
<1>1. CASE UNCHANGED shifts
  BY <1>1 DEF DeletedStay
<1>2. CASE AcceptTradeCommit(self) /\ ~UNCHANGED shifts
  BY <1>a, <1>2 DEF AcceptTradeCommit, LiveShift, Rollback, tables, DeletedStay, ShiftRow
<1>3. CASE ~AcceptTradeCommit(self)
  <2>1. UNCHANGED shifts
    BY <1>3
    DEF TradeRequest, TradeStep, CreateTradeBegin, AcceptTradeBegin, RejectTradeBegin,
        CancelTradeBegin, CreateTradeCheck, CreateTradeCommit, AcceptTradeLock,
        AcceptTradeCheck, RejectPoolTradeLock, RejectPoolTradeCheck,
        RejectPoolTradeCommit, RejectDirectTradeCommit, CancelTradeCommit, CloseTrade,
        Check, Rollback, tables
  <2> QED BY <1>1, <2>1
<1> QED BY <1>1, <1>2, <1>3

\* Nor staffing requests.
LEMMA StaffingStaysDeleted ==
  ASSUME TypeInv, NEW self \in Session, StaffingRequest(self) \/ StaffingStep(self)
  PROVE  DeletedStay
<1>a. shifts \in [ShiftId -> ShiftRow]
  BY DEF TypeInv, TypeOK, StoreTypeOK
<1>1. CASE UNCHANGED shifts
  BY <1>1 DEF DeletedStay
<1>2. CASE AcceptRequestCommit(self) /\ ~UNCHANGED shifts
  BY <1>a, <1>2 DEF AcceptRequestCommit, LiveShift, Rollback, tables, DeletedStay, ShiftRow
<1>3. CASE CreateRequestInsertShift(self) /\ ~UNCHANGED shifts
  BY <1>a, <1>3
  DEF CreateRequestInsertShift, InsertShift, First, UnusedShiftIds, Rollback, tables, DeletedStay
<1>4. CASE ~CreateRequestInsertShift(self) /\ ~AcceptRequestCommit(self)
  <2>1. UNCHANGED shifts
    BY <1>4
    DEF StaffingRequest, StaffingStep, CreateRequestForShift, CreateRequestForPeriod,
        AcceptRequestBegin, RejectRequestBegin, CancelRequestBegin, CreateRequestCommit,
        AcceptRequestLock, AcceptRequestCheck, AcceptRequestFind, Find, RejectBroadcastCheck,
        RejectBroadcastCommit, RejectTargetedCommit, CancelRequestCommit, CloseRequest, Check,
        Rollback, tables
  <2> QED BY <1>1, <2>1
<1> QED BY <1>1, <1>2, <1>3, <1>4

\* So no step brings a deleted shift back.
LEMMA StepsStayDeleted == TypeInv /\ [Next]_vars => DeletedStay
<1> SUFFICES ASSUME TypeInv, [Next]_vars PROVE DeletedStay
  OBVIOUS
<1>1. CASE UNCHANGED shifts
  BY <1>1 DEF DeletedStay
<1> QED BY <1>1, ShiftsStayDeleted, TradesStayDeleted, StaffingStaysDeleted,
           LeavesAndClocksSpareShifts
        DEF Next, Request, Advance, Crash, Rollback, ExpireLeaves, Tick, tables, vars

\* What a step has to keep besides its own request.
LEMMA RequestKeeps ==
  ASSUME RequestInv, TypeInv', MovesRequests, DeletedStay, NEW self \in Session, NEW ops,
         Footprint(self, ops), Requesting(self)'
  PROVE  RequestInv'
<1>1. ASSUME NEW p \in Session \ {self} PROVE Requesting(p)'
  <2>1. sess'[p] = sess[p] /\ Requesting(p)
    BY DEF Footprint, RequestInv
  <2>2. sess[p].op = "acceptRequest" => sess[p].item \in RequestId /\ sess[p].shift \in ShiftId
    BY DEF RequestInv, TypeInv, SessionOK
  <2>3. sess[p].op = "acceptRequest" => requests[sess[p].item].status \in RequestStatus
    BY <2>2 DEF RequestInv, TypeInv, TypeOK, StoreTypeOK, RequestRow
  <2> QED BY <2>1, <2>2, <2>3
          DEF Requesting, MovesRequests, MovesRow, PendingRequest, RequestStatus, Settled,
              DeletedStay
<1> QED BY <1>1 DEF RequestInv

\* An acceptance reads its request.
LEMMA AcceptBeginKeeps ==
  ASSUME RequestInv, NEW self \in Session, NEW u \in User, NEW r \in RequestId,
         AcceptRequestBegin(self, u, r)
  PROVE  Requesting(self)'
<1> DEFINE a == [Idle EXCEPT !.op = "acceptRequest", !.step = "lock",
                   !.user = u, !.item = r, !.shift = requests[r].shift]
<1>1. Begin(self, a) /\ PendingRequest(r) /\ UNCHANGED requests
  BY DEF AcceptRequestBegin, Answerable, tables
<1>2. a.item = r /\ a.shift = requests[r].shift
  BY DEF Idle
<1> HIDE DEF a
<1>3. sess'[self] = a
  BY <1>1 DEF RequestInv, TypeInv, TypeOK, StoreTypeOK, Begin
<1> QED BY <1>1, <1>2, <1>3 DEF Requesting, PendingRequest

\* It goes on with what it has read.
LEMMA AcceptGoesOn ==
  ASSUME RequestInv, NEW self \in Session,
         AcceptRequestLock(self) \/ AcceptRequestCheck(self) \/ AcceptRequestFind(self)
  PROVE  Requesting(self)'
<1>a. TypeInv /\ sess \in [Session -> SessionState]
  BY DEF RequestInv, TypeInv, TypeOK, StoreTypeOK
<1>1. CASE Finish(self)
  BY <1>a, <1>1, IdleOp DEF Finish, Requesting
<1>2. CASE ~ Finish(self)
  <2>1. /\ UNCHANGED <<shifts, requests>> /\ sess[self].op = "acceptRequest"
        /\ Goto(self, "check") \/ Goto(self, "find") \/ \E ts, rs : Find(self, ts, rs)
    BY <1>2
    DEF AcceptRequestLock, AcceptRequestCheck, AcceptRequestFind, Find, Check, Rollback, At,
        tables
  <2>2. /\ sess'[self].op = sess[self].op /\ sess'[self].item = sess[self].item
        /\ sess'[self].shift = sess[self].shift
    BY <1>a, <2>1, FindKeepsOp DEF Goto, SessionState
  <2> QED BY <2>1, <2>2 DEF RequestInv, Requesting, PendingRequest
<1> QED BY <1>1, <1>2

\* The handlers of staffing requests.
LEMMA StaffingKeeps ==
  ASSUME RequestInv, TypeInv', MovesRequests, DeletedStay, NEW self \in Session,
         StaffingRequest(self) \/ StaffingStep(self)
  PROVE  RequestInv'
<1>a. TypeInv /\ sess \in [Session -> SessionState] /\ Footprint(self, StaffingOps)
  BY StaffingFootprint DEF RequestInv, TypeInv, TypeOK, StoreTypeOK
<1>1. ASSUME Finish(self) PROVE Requesting(self)'
  BY <1>a, <1>1, IdleOp DEF Finish, Requesting
<1>2. ASSUME \/ CreateRequestCommit(self) \/ AcceptRequestCommit(self)
             \/ RejectBroadcastCommit(self) \/ RejectTargetedCommit(self)
             \/ CancelRequestCommit(self)
      PROVE  Requesting(self)'
  BY <1>1, <1>2
  DEF CreateRequestCommit, AcceptRequestCommit, RejectBroadcastCommit, RejectTargetedCommit,
      CancelRequestCommit, CloseRequest, Rollback
<1>3. ASSUME NEW s \in ShiftId, NEW target \in MaybeUser, CreateRequestForShift(self, s, target)
      PROVE  Requesting(self)'
  <2>1. sess'[self].op = "createRequest"
    BY <1>a, <1>3 DEF CreateRequestForShift, Begin, Idle
  <2> QED BY <2>1 DEF Requesting
<1>4. ASSUME NEW c \in Cinema, NEW i \in Interval, NEW target \in MaybeUser,
             CreateRequestForPeriod(self, c, i, target)
      PROVE  Requesting(self)'
  <2>1. sess'[self].op = "createRequest"
    BY <1>a, <1>4 DEF CreateRequestForPeriod, Begin, Idle
  <2> QED BY <2>1 DEF Requesting
<1>5. ASSUME NEW u \in User, NEW r \in RequestId, RejectRequestBegin(self, u, r)
      PROVE  Requesting(self)'
  <2>1. sess'[self].op = "rejectRequest"
    BY <1>a, <1>5 DEF RejectRequestBegin, Begin, Idle
  <2> QED BY <2>1 DEF Requesting
<1>6. ASSUME NEW r \in RequestId, CancelRequestBegin(self, r)
      PROVE  Requesting(self)'
  <2>1. sess'[self].op = "cancelRequest"
    BY <1>a, <1>6 DEF CancelRequestBegin, Begin, Idle
  <2> QED BY <2>1 DEF Requesting
<1>7. ASSUME CreateRequestInsertShift(self) \/ RejectBroadcastCheck(self)
      PROVE  Requesting(self)'
  <2>1. sess'[self].op \in {"createRequest", "rejectRequest", "none"}
    BY <1>a, <1>7, IdleOp
    DEF CreateRequestInsertShift, RejectBroadcastCheck, At, Check, Goto, Rollback, Finish,
        SessionState
  <2> QED BY <2>1 DEF Requesting
<1> QED BY <1>a, <1>2, <1>3, <1>4, <1>5, <1>6, <1>7, AcceptBeginKeeps, AcceptGoesOn, RequestKeeps
        DEF StaffingRequest, StaffingStep

\* It holds where nothing has been asked.
LEMMA InitRequestInv == Init => RequestInv
BY InitTyped, IdleOp DEF Init, StoreInit, RequestInv, Requesting

\* Every step keeps it.
LEMMA RequestInvInductive == RequestInv /\ [Next]_vars => RequestInv'
<1> SUFFICES ASSUME RequestInv, [Next]_vars PROVE RequestInv'
  OBVIOUS
<1>1. TypeInv /\ TypeInv' /\ MovesRequests /\ DeletedStay
  BY NextTyped, StepsMove, StepsStayDeleted DEF RequestInv
<1>2. ASSUME NEW self \in Session, NEW ops, Footprint(self, ops), "acceptRequest" \notin ops
      PROVE  RequestInv'
  <2>1. Requesting(self)'
    BY <1>2 DEF Footprint, Requesting
  <2> QED BY <1>1, <1>2, <2>1, RequestKeeps
<1>3. ASSUME NEW self \in Session, ShiftRequest(self) \/ ShiftStep(self) PROVE RequestInv'
  BY <1>1, <1>2, <1>3, ShiftsFootprint DEF ShiftsOps
<1>4. ASSUME NEW self \in Session, TradeRequest(self) \/ TradeStep(self) PROVE RequestInv'
  BY <1>1, <1>2, <1>4, TradesFootprint DEF TradesOps, OffersOps, AnswersOps
<1>5. ASSUME NEW self \in Session, ClockRequest(self) \/ ClockStep(self) PROVE RequestInv'
  BY <1>1, <1>2, <1>5, ClocksFootprint DEF ClocksOps
<1>6. ASSUME NEW self \in Session, LeaveRequest(self) \/ LeaveStep(self) PROVE RequestInv'
  BY <1>1, <1>2, <1>6, LeavesFootprint DEF LeavesOps
<1>7. ASSUME NEW self \in Session, Crash(self) PROVE RequestInv'
  <2>1. Footprint(self, {})
    BY <1>1, <1>7, RollbackFoot DEF Crash
  <2> QED BY <1>2, <2>1
<1>8. CASE UNCHANGED <<shifts, requests, sess>>
  BY <1>1, <1>8 DEF RequestInv, Requesting, PendingRequest
<1> QED BY <1>1, <1>3, <1>4, <1>5, <1>6, <1>7, <1>8, StaffingKeeps
        DEF Next, Request, Advance, ExpireLeaves, Tick, tables, vars

\* A request that was accepted, declined or cancelled stays so: whoever writes
\* it without a lock writes it only while it is pending.
THEOREM ClosedRequestsStay == Spec => ClosedRequestStaysClosed
<1>1. TypeInv /\ [Next]_vars =>
        [\A r \in RequestId :
           requests[r].status \in {"ACCEPTED", "REJECTED", "CANCELLED"} =>
             requests'[r].status = requests[r].status]_vars
  BY StepsMove DEF MovesRequests, MovesRow, Settled
<1> QED BY <1>1, InitTyped, NextTyped, PTL DEF Spec, ClosedRequestStaysClosed

\* What an acceptance about to commit has found, where nobody asks meanwhile:
\* every other request for the shift that still waits.
Closing(p) ==
  At(p, "acceptRequest", "write") =>
    \A q \in RequestId \ {sess[p].item} :
      PendingRequest(q) /\ requests[q].shift = sess[p].shift => q \in sess[p].foundRequests

WinInv == RequestInv /\ \A p \in Session : Closing(p)

\* Only looking for the other requests brings a staffing handler there.
LEMMA StaffingFinds ==
  ASSUME TypeInv, NEW self \in Session, StaffingRequest(self) \/ StaffingStep(self),
         At(self, "acceptRequest", "write")'
  PROVE  AcceptRequestFind(self)
<1>a. sess \in [Session -> SessionState] /\ sess'[self].op = "acceptRequest"
      /\ sess'[self].step = "write"
  BY DEF TypeInv, TypeOK, StoreTypeOK, At
<1>1. ~Finish(self)
  BY <1>a, IdleOp DEF Finish
<1>2. ASSUME NEW step, Goto(self, step) PROVE step = "write" /\ sess[self].op = "acceptRequest"
  BY <1>a, <1>2 DEF Goto, SessionState
<1>3. ASSUME \/ CreateRequestCommit(self) \/ AcceptRequestCommit(self)
             \/ RejectBroadcastCommit(self) \/ RejectTargetedCommit(self)
             \/ CancelRequestCommit(self)
      PROVE  FALSE
  BY <1>1, <1>3
  DEF CreateRequestCommit, AcceptRequestCommit, RejectBroadcastCommit, RejectTargetedCommit,
      CancelRequestCommit, CloseRequest, Rollback
<1>4. ASSUME AcceptRequestLock(self) \/ AcceptRequestCheck(self) \/ RejectBroadcastCheck(self)
      PROVE  FALSE
  BY <1>1, <1>2, <1>4
  DEF AcceptRequestLock, AcceptRequestCheck, RejectBroadcastCheck, Check, Rollback, At
<1>5. ASSUME CreateRequestInsertShift(self) PROVE FALSE
  <2>1. sess'[self].op = "createRequest"
    BY <1>1, <1>a, <1>5 DEF CreateRequestInsertShift, At, Rollback, SessionState
  <2> QED BY <1>a, <2>1
<1>6. ASSUME NEW s \in ShiftId, NEW target \in MaybeUser, CreateRequestForShift(self, s, target)
      PROVE  FALSE
  BY <1>a, <1>6 DEF CreateRequestForShift, Begin, Idle
<1>7. ASSUME NEW c \in Cinema, NEW i \in Interval, NEW target \in MaybeUser,
             CreateRequestForPeriod(self, c, i, target)
      PROVE  FALSE
  BY <1>a, <1>7 DEF CreateRequestForPeriod, Begin, Idle
<1>8. ASSUME NEW u \in User, NEW r \in RequestId, AcceptRequestBegin(self, u, r)
      PROVE  FALSE
  <2>1. sess'[self].step = "lock"
    BY <1>a, <1>8 DEF AcceptRequestBegin, Begin, Idle
  <2> QED BY <1>a, <2>1
<1>9. ASSUME NEW u \in User, NEW r \in RequestId, RejectRequestBegin(self, u, r)
      PROVE  FALSE
  <2>1. sess'[self].op = "rejectRequest"
    BY <1>a, <1>9 DEF RejectRequestBegin, Begin, Idle
  <2> QED BY <1>a, <2>1
<1>10. ASSUME NEW r \in RequestId, CancelRequestBegin(self, r)
       PROVE  FALSE
  BY <1>a, <1>10 DEF CancelRequestBegin, Begin, Idle
<1> QED BY <1>3, <1>4, <1>5, <1>6, <1>7, <1>8, <1>9, <1>10 DEF StaffingRequest, StaffingStep

\* And no step of anybody else.
LEMMA OnlyFindingCloses ==
  ASSUME TypeInv, [Next]_vars, NEW p \in Session, At(p, "acceptRequest", "write")',
         sess'[p] # sess[p]
  PROVE  AcceptRequestFind(p)
<1>1. ASSUME NEW self \in Session, NEW ops, Footprint(self, ops), "acceptRequest" \notin ops
      PROVE  FALSE
  BY <1>1 DEF Footprint, At
<1>2. ASSUME NEW self \in Session, ShiftRequest(self) \/ ShiftStep(self) PROVE FALSE
  BY <1>1, <1>2, ShiftsFootprint DEF ShiftsOps
<1>3. ASSUME NEW self \in Session, TradeRequest(self) \/ TradeStep(self) PROVE FALSE
  BY <1>1, <1>3, TradesFootprint DEF TradesOps, OffersOps, AnswersOps
<1>4. ASSUME NEW self \in Session, ClockRequest(self) \/ ClockStep(self) PROVE FALSE
  BY <1>1, <1>4, ClocksFootprint DEF ClocksOps
<1>5. ASSUME NEW self \in Session, LeaveRequest(self) \/ LeaveStep(self) PROVE FALSE
  BY <1>1, <1>5, LeavesFootprint DEF LeavesOps
<1>6. ASSUME NEW self \in Session, Crash(self) PROVE FALSE
  <2>1. Footprint(self, {})
    BY <1>6, RollbackFoot DEF Crash
  <2> QED BY <1>1, <2>1
<1>7. ASSUME NEW self \in Session, StaffingRequest(self) \/ StaffingStep(self)
      PROVE  AcceptRequestFind(p)
  <2>1. p = self
    BY <1>7, StaffingFootprint DEF Footprint
  <2> QED BY <1>7, <2>1, StaffingFinds
<1> QED BY <1>2, <1>3, <1>4, <1>5, <1>6, <1>7
        DEF Next, Request, Advance, ExpireLeaves, Tick, tables, vars

\* Where nobody asks while a request is accepted, what was found is all there is.
LEMMA WinInvInductive == WinInv /\ RequestsApart /\ [Next]_vars => WinInv'
<1> SUFFICES ASSUME WinInv, RequestsApart, [Next]_vars PROVE WinInv'
  OBVIOUS
<1>1. RequestInv' /\ TypeInv /\ MovesRequests
  BY RequestInvInductive, StepsMove DEF WinInv, RequestInv
<1>2. ASSUME NEW p \in Session PROVE Closing(p)'
  <2> SUFFICES ASSUME At(p, "acceptRequest", "write")',
                      NEW q \in RequestId, q # sess'[p].item,
                      requests'[q].status = "PENDING", requests'[q].shift = sess'[p].shift
               PROVE  q \in sess'[p].foundRequests
    BY DEF Closing, PendingRequest
  <2>1. CASE sess'[p] # sess[p]
    <3>1. AcceptRequestFind(p)
      BY <1>1, <2>1, OnlyFindingCloses
    <3> PICK a : a = sess[p]
      OBVIOUS
    <3>2. /\ sess'[p].item = a.item /\ sess'[p].shift = a.shift
          /\ sess'[p].foundRequests = PendingRequestsOn(a.shift) \ {a.item}
          /\ UNCHANGED requests
      BY <1>1, <3>1, FindKeepsOp DEF AcceptRequestFind, tables
    <3> QED BY <3>2 DEF PendingRequestsOn, PendingRequest
  <2>2. CASE sess'[p] = sess[p]
    <3>1. sess[p].op = "acceptRequest" /\ At(p, "acceptRequest", "write")
          /\ sess[p].shift \in ShiftId
      BY <1>1, <2>2 DEF At, TypeInv, SessionOK
    <3>2. AsksNone
      <4>1. ASSUME NEW self \in Session, CreateRequestCommit(self) PROVE FALSE
        BY <3>1, <4>1 DEF CreateRequestCommit, At, RequestsApart
      <4> QED BY <1>1, <4>1, StepsMove
    <3>3. requests[q].status \in RequestStatus
      BY <1>1 DEF TypeInv, TypeOK, StoreTypeOK, RequestRow
    <3>4. PendingRequest(q)
      BY <1>1, <3>2, <3>3
      DEF AsksNone, MovesRequests, MovesRow, Settled, RequestStatus, PendingRequest
    <3>5. requests[q].shift = sess[p].shift
      BY <1>1, <2>2, <3>1, <3>4, IdsAreNotNull DEF MovesRequests, MovesRow, PendingRequest
    <3> QED BY <2>2, <3>1, <3>4, <3>5 DEF WinInv, Closing
  <2> QED BY <2>1, <2>2
<1> QED BY <1>1, <1>2 DEF WinInv

\* Nobody accepts anything at the start.
LEMMA InitWinInv == Init => WinInv
BY InitRequestInv, IdleOp DEF Init, StoreInit, WinInv, Closing, At

\* What an acceptance leaves behind, when its request is for the shift it locked.
LEMMA WinnerTakes ==
  ASSUME WinInv, NEW self \in Session, AcceptRequestCommit(self), NEW r \in RequestId,
         PendingRequest(r), requests'[r].status = "ACCEPTED"
  PROVE  LET s == requests[r].shift IN
         /\ LiveShift(s)
         /\ shifts[s].user = None
         /\ shifts'[s].user = requests'[r].acceptedBy
         /\ requests'[r].acceptedBy \notin {None}
         /\ \A q \in RequestId : requests[q].shift = s => requests'[q].status # "PENDING"
<1> PICK a : a = sess[self]
  OBVIOUS
<1> PICK s : s = requests[r].shift
  OBVIOUS
<1>1. ~ Rollback(self)
  BY DEF Rollback, tables, PendingRequest
<1>2. /\ a.op = "acceptRequest" /\ PendingRequest(a.item) /\ LiveShift(a.shift)
      /\ shifts[a.shift].user = None
      /\ shifts' = [shifts EXCEPT ![a.shift].user = a.user]
      /\ requests' = [q \in RequestId |->
           IF q = a.item
           THEN [requests[q] EXCEPT !.status = "ACCEPTED", !.acceptedBy = a.user]
           ELSE IF q \in a.foundRequests /\ PendingRequest(q)
           THEN [requests[q] EXCEPT !.status = "CANCELLED"]
           ELSE requests[q]]
  BY <1>1 DEF AcceptRequestCommit, At
<1>a. /\ requests \in [RequestId -> RequestRow] /\ shifts \in [ShiftId -> ShiftRow]
      /\ a.user \in User /\ a.item \in RequestId /\ None \notin User
  BY <1>2, IdsAreNotNull DEF WinInv, RequestInv, TypeInv, TypeOK, StoreTypeOK, SessionOK
<1>b. \A q \in RequestId \ {a.item} :
        PendingRequest(q) /\ requests[q].shift = a.shift => q \in a.foundRequests
  BY DEF WinInv, Closing, AcceptRequestCommit
<1>3. ASSUME NEW q \in RequestId, q # a.item, q \in a.foundRequests, PendingRequest(q)
      PROVE  requests'[q].status = "CANCELLED"
  <2>1. requests'[q] = [requests[q] EXCEPT !.status = "CANCELLED"]
    BY <1>2, <1>3
  <2> QED BY <1>a, <2>1 DEF RequestRow
<1>4. requests'[a.item].status = "ACCEPTED" /\ requests'[a.item].acceptedBy = a.user
  <2>1. requests'[a.item]
          = [requests[a.item] EXCEPT !.status = "ACCEPTED", !.acceptedBy = a.user]
    BY <1>2, <1>a
  <2> QED BY <1>a, <2>1 DEF RequestRow
<1>5. r = a.item
  <2>1. r # a.item /\ r \notin a.foundRequests => requests'[r] = requests[r]
    BY <1>2
  <2> QED BY <1>3, <2>1 DEF PendingRequest
<1>6. s = a.shift
  BY <1>2, <1>5 DEF WinInv, RequestInv, Requesting, LiveShift
<1>7. shifts'[s].user = a.user
  BY <1>2, <1>6, <1>a DEF LiveShift, ShiftRow
<1>8. ASSUME NEW q \in RequestId, requests[q].shift = s PROVE requests'[q].status # "PENDING"
  <2>1. CASE q # a.item /\ ~ PendingRequest(q)
    BY <1>2, <2>1 DEF PendingRequest
  <2> QED BY <1>b, <1>3, <1>4, <1>6, <1>8, <2>1
<1> QED BY <1>2, <1>4, <1>5, <1>6, <1>7, <1>8, <1>a

\* A request is won from an unassigned shift, by the one who gets it: the
\* acceptance holds the lock of the shift the request is for, although it read
\* it before.  The other requests for the shift are closed with it, as long as
\* none is made between its look for them and its COMMIT.
THEOREM WinnersTakeTheShift == Spec /\ []RequestsApart => StaffingWinnerTakesShift
<1> DEFINE Winning ==
      \A r \in RequestId :
        PendingRequest(r) /\ requests'[r].status = "ACCEPTED" =>
          LET s == requests[r].shift IN
          /\ LiveShift(s)
          /\ shifts[s].user = None
          /\ shifts'[s].user = requests'[r].acceptedBy
          /\ requests'[r].acceptedBy \notin {None}
          /\ \A q \in RequestId :
               requests[q].shift = s => requests'[q].status # "PENDING"
<1>1. ASSUME WinInv, [Next]_vars PROVE Winning
  <2>1. CASE AcceptsNone
    BY <2>1 DEF AcceptsNone
  <2>2. ASSUME NEW self \in Session, AcceptRequestCommit(self) PROVE Winning
    BY <1>1, <2>2, WinnerTakes
  <2> QED BY <1>1, <2>1, <2>2, StepsMove DEF WinInv, RequestInv
<1>2. WinInv /\ [Next]_vars => [Winning]_vars
  BY <1>1
<1> QED BY <1>2, InitWinInv, WinInvInductive, PTL DEF Spec, StaffingWinnerTakesShift

-----------------------------------------------------------------------------
(* Bookings.  NoDoubleBooking is false of all handlers together, because an *)
(* acceptance takes no lock of the user it gives the shift to.  Without       *)
(* acceptances it holds, since creating and updating a shift look and write   *)
(* under the lock of the assignee.                                            *)

\* A session runs what clients send.
OpsServed == \A p \in Session : sess[p].op \in Ops \cup {"none"}

Serves(self) ==
  \A p \in Session : sess'[p].op \in Ops \cup {"none", sess[p].op}

\* The four shapes of a step.
LEMMA StepServes ==
  ASSUME TypeInv, NEW self \in Session,
         \/ \E a : Begin(self, a)
         \/ \E step : Goto(self, step)
         \/ Finish(self)
         \/ UNCHANGED sess
  PROVE  Serves(self)
<1>1. sess \in [Session -> SessionState]
  BY DEF TypeInv, TypeOK, StoreTypeOK
<1>2. ASSUME NEW a, Begin(self, a) PROVE Serves(self)
  BY <1>1, <1>2 DEF Begin, Serves
<1>3. ASSUME NEW step, Goto(self, step) PROVE Serves(self)
  BY <1>1, <1>3 DEF Goto, Serves, SessionState
<1>4. CASE Finish(self)
  BY <1>1, <1>4, IdleOp DEF Finish, Serves
<1> QED BY <1>2, <1>3, <1>4 DEF Serves

\* A check goes on with the request or refuses it.
LEMMA CheckServes ==
  ASSUME TypeInv, NEW self \in Session, NEW ok, NEW step, Check(self, ok, step)
  PROVE  Serves(self)
BY StepServes DEF Check, Rollback

\* Looking up offers goes on with the request.
LEMMA FindServes ==
  ASSUME TypeInv, NEW self \in Session, NEW ts, NEW rs, Find(self, ts, rs)
  PROVE  Serves(self)
BY FindKeepsOp DEF Serves

\* The shift handlers run what clients send.
LEMMA ShiftsServe ==
  ASSUME TypeInv, NEW self \in Session, ShiftRequest(self) \/ ShiftStep(self)
  PROVE  Serves(self)
<1>0. sess \in [Session -> SessionState]
  BY DEF TypeInv, TypeOK, StoreTypeOK
<1>1. CASE ShiftRequest(self)
  BY <1>1, StepServes
  DEF ShiftRequest, CreateShiftBegin, UpdateShiftBegin, DeleteShiftBegin
<1>2. CASE CreateShiftCheck(self) \/ UpdateShiftCheck(self) \/ DeleteShiftCheck(self)
  BY <1>2, CheckServes DEF CreateShiftCheck, UpdateShiftCheck, DeleteShiftCheck
<1>3. CASE CreateShiftCommit(self) \/ UpdateShiftCommit(self) \/ DeleteShiftCommit(self)
  BY <1>3, StepServes DEF CreateShiftCommit, UpdateShiftCommit, DeleteShiftCommit, Rollback
<1>4. CASE UpdateShiftRead(self)
  BY <1>0, <1>4, StepServes DEF UpdateShiftRead, Rollback, Serves, SessionState
<1>5. CASE \E u \in User : UpdateShiftLockUser(self, u)
  BY <1>5 DEF UpdateShiftLockUser, Serves
<1>6. CASE UpdateShiftFind(self) \/ DeleteShiftFind(self)
  BY <1>6, FindServes DEF UpdateShiftFind, DeleteShiftFind
<1> QED BY <1>1, <1>2, <1>3, <1>4, <1>5, <1>6 DEF ShiftStep

\* The trade handlers run what clients send.
LEMMA TradesServe ==
  ASSUME TypeInv, NEW self \in Session, TradeRequest(self) \/ TradeStep(self)
  PROVE  Serves(self)
<1>1. CASE TradeRequest(self)
  BY <1>1, StepServes
  DEF TradeRequest, CreateTradeBegin, AcceptTradeBegin, RejectTradeBegin, CancelTradeBegin
<1>2. CASE CreateTradeCheck(self) \/ AcceptTradeCheck(self) \/ RejectPoolTradeCheck(self)
  BY <1>2, CheckServes DEF CreateTradeCheck, AcceptTradeCheck, RejectPoolTradeCheck
<1>3. CASE AcceptTradeLock(self) \/ RejectPoolTradeLock(self)
  BY <1>3, StepServes DEF AcceptTradeLock, RejectPoolTradeLock
<1>4. CASE \/ CreateTradeCommit(self) \/ AcceptTradeCommit(self) \/ RejectPoolTradeCommit(self)
           \/ RejectDirectTradeCommit(self) \/ CancelTradeCommit(self)
  BY <1>4, StepServes
  DEF CreateTradeCommit, AcceptTradeCommit, RejectPoolTradeCommit, RejectDirectTradeCommit,
      CancelTradeCommit, CloseTrade, Rollback
<1> QED BY <1>1, <1>2, <1>3, <1>4 DEF TradeStep

\* The staffing handlers run what clients send.
LEMMA StaffingServes ==
  ASSUME TypeInv, NEW self \in Session, StaffingRequest(self) \/ StaffingStep(self)
  PROVE  Serves(self)
<1>0. sess \in [Session -> SessionState]
  BY DEF TypeInv, TypeOK, StoreTypeOK
<1>1. CASE StaffingRequest(self)
  BY <1>1, StepServes
  DEF StaffingRequest, CreateRequestForShift, CreateRequestForPeriod, AcceptRequestBegin,
      RejectRequestBegin, CancelRequestBegin
<1>2. CASE CreateRequestInsertShift(self)
  BY <1>0, <1>2, StepServes DEF CreateRequestInsertShift, Rollback, Serves, SessionState
<1>3. CASE AcceptRequestCheck(self) \/ RejectBroadcastCheck(self)
  BY <1>3, CheckServes DEF AcceptRequestCheck, RejectBroadcastCheck
<1>4. CASE AcceptRequestLock(self)
  BY <1>4, StepServes DEF AcceptRequestLock
<1>5. CASE \/ CreateRequestCommit(self) \/ AcceptRequestCommit(self)
           \/ RejectBroadcastCommit(self) \/ RejectTargetedCommit(self)
           \/ CancelRequestCommit(self)
  BY <1>5, StepServes
  DEF CreateRequestCommit, AcceptRequestCommit, RejectBroadcastCommit, RejectTargetedCommit,
      CancelRequestCommit, CloseRequest, Rollback
<1>6. CASE AcceptRequestFind(self)
  BY <1>6, FindServes DEF AcceptRequestFind
<1> QED BY <1>1, <1>2, <1>3, <1>4, <1>5, <1>6 DEF StaffingStep

\* The leave and clock handlers run what clients send.
LEMMA LeavesAndClocksServe ==
  ASSUME TypeInv, NEW self \in Session,
         LeaveRequest(self) \/ LeaveStep(self) \/ ClockRequest(self) \/ ClockStep(self)
  PROVE  Serves(self)
<1>0. sess \in [Session -> SessionState]
  BY DEF TypeInv, TypeOK, StoreTypeOK
<1>1. CASE LeaveRequest(self) \/ ClockRequest(self)
  BY <1>1, StepServes
  DEF LeaveRequest, ClockRequest, CreateLeaveBegin, SetLeaveStatusBegin, ClockInBegin,
      ClockOutBegin
<1>2. CASE SetLeaveStatusRead(self)
  BY <1>0, <1>2, StepServes DEF SetLeaveStatusRead, Rollback, Serves, SessionState
<1>3. CASE CreateLeaveCheck(self) \/ SetLeaveStatusCheck(self) \/ ClockInCheck(self)
  BY <1>3, CheckServes DEF CreateLeaveCheck, SetLeaveStatusCheck, ClockInCheck
<1>4. CASE SetLeaveStatusLockUser(self) \/ ClockInLock(self)
  BY <1>4, StepServes DEF SetLeaveStatusLockUser, ClockInLock
<1>5. CASE \/ CreateLeaveCommit(self) \/ SetLeaveStatusCommit(self)
           \/ ClockInCommit(self) \/ ClockOutCommit(self)
  BY <1>5, StepServes
  DEF CreateLeaveCommit, SetLeaveStatusCommit, ClockInCommit, ClockOutCommit, Rollback
<1> QED BY <1>1, <1>2, <1>3, <1>4, <1>5 DEF LeaveStep, ClockStep

\* No step starts a request that clients do not send.
LEMMA OpsStayServed == TypeInv /\ OpsServed /\ [Next]_vars => OpsServed'
<1> SUFFICES ASSUME TypeInv, OpsServed, [Next]_vars PROVE OpsServed'
  OBVIOUS
<1>1. ASSUME NEW self \in Session, Request(self) \/ Advance(self) \/ Crash(self)
      PROVE  Serves(self)
  BY <1>1, ShiftsServe, TradesServe, StaffingServes, LeavesAndClocksServe, StepServes
  DEF Request, Advance, Crash, Rollback
<1>2. CASE UNCHANGED sess
  BY <1>2 DEF OpsServed
<1> QED BY <1>1, <1>2 DEF Next, ExpireLeaves, Tick, tables, vars, OpsServed, Serves

-----------------------------------------------------------------------------
\* What a request that gives somebody a shift has made sure of.
Booking(a, locks) ==
  /\ a.op = "createShift" /\ a.user # None =>
       /\ UserLock(a.user) \in locks
       /\ a.step = "write" => ~ShiftConflict(a.user, a.ivl, None)
  /\ a.op = "updateShift" /\ a.step \in {"find", "write"} /\ a.user # None =>
       /\ UserLock(a.user) \in locks
       /\ ~ShiftConflict(a.user, a.ivl, a.shift)

BookInv ==
  /\ RecordInv
  /\ OpsServed
  /\ NoDoubleBooking
  /\ \A p \in Session : Booking(sess[p], held[p])

\* A step writes one shift, and gives it to nobody, or under the lock of the
\* one who gets it and has no other at the time.
Books(self, s) ==
  /\ \A r \in ShiftId \ {s} : shifts'[r] = shifts[r]
  /\ shifts'[s].state = "live" /\ shifts'[s].user # None =>
       \/ shifts'[s] = shifts[s]
       \/ /\ UserLock(shifts'[s].user) \in held[self]
          /\ ~ShiftConflict(shifts'[s].user, shifts'[s].ivl, s)

\* What a step has to keep besides its own request.
LEMMA BookKeeps ==
  ASSUME BookInv, RecordInv', OpsServed', NEW self \in Session, NEW ops, Footprint(self, ops),
         (\E s \in ShiftId : Books(self, s)) \/ UNCHANGED shifts,
         Booking(sess[self], held[self])'
  PROVE  BookInv'
<1>1. CASE UNCHANGED shifts
  <2>1. NoDoubleBooking'
    BY <1>1 DEF BookInv, NoDoubleBooking, LiveShift
  <2>2. ASSUME NEW p \in Session, p # self PROVE Booking(sess[p], held[p])'
    <3>1. sess'[p] = sess[p] /\ held'[p] = held[p]
      BY <2>2 DEF Footprint, TakesLocks
    <3>2. Booking(sess[p], held[p])
      BY DEF BookInv
    <3> QED BY <1>1, <3>1, <3>2 DEF Booking, ShiftConflict, LiveShift
  <2> QED BY <2>1, <2>2 DEF BookInv
<1>2. ASSUME NEW s \in ShiftId, Books(self, s) PROVE BookInv'
  <2>1. NoDoubleBooking'
    <3> SUFFICES ASSUME NEW s1 \in ShiftId, NEW s2 \in ShiftId, s1 # s2,
                        LiveShift(s1)', LiveShift(s2)', shifts'[s1].user # None,
                        shifts'[s1].user = shifts'[s2].user
                 PROVE  ~Overlap(shifts'[s1].ivl, shifts'[s2].ivl)
      BY DEF NoDoubleBooking
    <3>0. shifts'[s1].state = "live" /\ shifts'[s2].state = "live"
      BY DEF LiveShift
    <3>1. CASE s1 # s /\ s2 # s
      BY <1>2, <3>0, <3>1 DEF Books, BookInv, NoDoubleBooking, LiveShift
    <3>2. CASE s1 = s
      <4>1. shifts'[s2] = shifts[s2] /\ LiveShift(s2)
        BY <1>2, <3>0, <3>2 DEF Books, LiveShift
      <4>2. CASE shifts'[s] = shifts[s]
        BY <3>0, <3>2, <4>1, <4>2 DEF BookInv, NoDoubleBooking, LiveShift
      <4>3. CASE ~ShiftConflict(shifts'[s].user, shifts'[s].ivl, s)
        BY <3>2, <4>1, <4>3 DEF ShiftConflict, Overlap
      <4> QED BY <1>2, <3>0, <3>2, <4>2, <4>3 DEF Books
    <3>3. CASE s2 = s
      <4>1. shifts'[s1] = shifts[s1] /\ LiveShift(s1)
        BY <1>2, <3>0, <3>3 DEF Books, LiveShift
      <4>2. CASE shifts'[s] = shifts[s]
        BY <3>0, <3>3, <4>1, <4>2 DEF BookInv, NoDoubleBooking, LiveShift
      <4>3. CASE ~ShiftConflict(shifts'[s].user, shifts'[s].ivl, s)
        BY <3>3, <4>1, <4>3 DEF ShiftConflict, Overlap
      <4> QED BY <1>2, <3>0, <3>3, <4>2, <4>3 DEF Books
    <3> QED BY <3>1, <3>2, <3>3
  <2>2. ASSUME NEW p \in Session, p # self PROVE Booking(sess[p], held[p])'
    <3> PICK a : a = sess[p]
      OBVIOUS
    <3>1. sess'[p] = a /\ held'[p] = held[p]
      BY <2>2 DEF Footprint, TakesLocks
    <3>2. Booking(a, held[p]) /\ LocksExclusive
      BY DEF BookInv, RecordInv, AnswerInv, OfferInv
    <3>3. ASSUME UserLock(a.user) \in held[p], a.user # None, NEW except,
                 ~ShiftConflict(a.user, a.ivl, except)
          PROVE  ~ShiftConflict(a.user, a.ivl, except)'
      <4>1. UserLock(a.user) \notin held[self]
        BY <2>2, <3>2, <3>3 DEF LocksExclusive
      <4>2. \A r \in ShiftId : shifts'[r].state = "live" /\ shifts'[r].user = a.user
              => shifts'[r] = shifts[r]
        BY <1>2, <3>3, <4>1 DEF Books
      <4> QED BY <3>3, <4>2 DEF ShiftConflict, LiveShift
    <3>4. Booking(a, held[p])'
      BY <3>1, <3>2, <3>3 DEF Booking
    <3> QED BY <3>1, <3>4 DEF Booking, ShiftConflict, LiveShift, Overlap
  <2> QED BY <2>1, <2>2 DEF BookInv
<1> QED BY <1>1, <1>2

\* Steps that book nothing and whose request has nothing to book.
LEMMA NoBooking ==
  ASSUME BookInv, RecordInv', OpsServed', NEW self \in Session, NEW ops, Footprint(self, ops),
         UNCHANGED shifts, "createShift" \notin ops, "updateShift" \notin ops
  PROVE  BookInv'
<1>1. Booking(sess[self], held[self])'
  BY DEF Footprint, Booking
<1> QED BY <1>1, BookKeeps

\* A request that ends may have given one employee, under his lock, a shift that is in nobody's way.
LEMMA EndBooks ==
  ASSUME BookInv, RecordInv', OpsServed', NEW self \in Session, Finish(self),
         (\E s \in ShiftId : Books(self, s)) \/ UNCHANGED shifts
  PROVE  BookInv'
<1>1. Footprint(self, {})
  BY FinishFoot DEF BookInv, RecordInv, AnswerInv, OfferInv
<1>2. Booking(sess[self], held[self])'
  BY <1>1 DEF Footprint, Booking
<1> QED BY <1>1, <1>2, BookKeeps

\* A refused request books nothing.
LEMMA RollbackBooks ==
  ASSUME BookInv, RecordInv', OpsServed', NEW self \in Session, Rollback(self)
  PROVE  BookInv'
BY EndBooks DEF Rollback, tables

\* Inserting a shift under the lock of its free assignee books it safely.
LEMMA InsertBooks ==
  ASSUME TypeInv, NEW self \in Session, NEW s \in ShiftId, NEW u \in MaybeUser, NEW c, NEW i,
         InsertShift(s, u, c, i),
         u # None => UserLock(u) \in held[self] /\ ~ShiftConflict(u, i, None)
  PROVE  Books(self, s)
<1>1. shifts \in [ShiftId -> ShiftRow]
  BY DEF TypeInv, TypeOK, StoreTypeOK
<1>2. /\ \A r \in ShiftId \ {s} : shifts'[r] = shifts[r]
      /\ shifts'[s] = [state |-> "live", user |-> u, cinema |-> c, ivl |-> i]
  BY <1>1 DEF InsertShift
<1>3. ShiftConflict(u, i, s) => ShiftConflict(u, i, None)
  BY IdsAreNotNull DEF ShiftConflict
<1> QED BY <1>2, <1>3 DEF Books

\* Creating a shift looks for conflicts under the lock of the assignee and inserts under it.
LEMMA CreateShiftBooks ==
  ASSUME BookInv, RecordInv', OpsServed', NEW self \in Session,
         \/ \E u \in MaybeUser, c \in Cinema, i \in Interval : CreateShiftBegin(self, u, c, i)
         \/ CreateShiftCheck(self) \/ CreateShiftCommit(self)
  PROVE  BookInv'
<1>a. /\ TypeInv /\ sess \in [Session -> SessionState] /\ held \in [Session -> SUBSET LockKey]
  BY DEF BookInv, RecordInv, AnswerInv, OfferInv, TypeInv, TypeOK, StoreTypeOK
<1>b. Footprint(self, ShiftsOps)
  BY <1>a, ShiftsFootprint DEF ShiftRequest, ShiftStep
<1>c. Booking(sess[self], held[self])
  BY DEF BookInv
<1>1. ASSUME NEW u \in MaybeUser, NEW c \in Cinema, NEW i \in Interval,
             CreateShiftBegin(self, u, c, i)
      PROVE  BookInv'
  <2>1. UNCHANGED shifts
    BY <1>1 DEF CreateShiftBegin, tables
  <2>2. /\ sess'[self].op = "createShift" /\ sess'[self].step = "check"
        /\ sess'[self].user = u
    BY <1>a, <1>1 DEF CreateShiftBegin, Begin, Idle
  <2>3. u # None => UserLock(u) \in held'[self]
    BY <1>a, <1>1 DEF CreateShiftBegin, Acquire
  <2>4. Booking(sess[self], held[self])'
    BY <2>2, <2>3 DEF Booking
  <2> QED BY <1>b, <2>1, <2>4, BookKeeps
<1>2. CASE CreateShiftCheck(self)
  <2> PICK a : a = sess[self]
    OBVIOUS
  <2>1. CASE Rollback(self)
    BY <2>1, RollbackBooks
  <2>2. CASE ~Rollback(self)
    <3>1. /\ a.op = "createShift" /\ Goto(self, "write") /\ UNCHANGED <<tables, now, held>>
          /\ a.user = None \/ ~Conflicts(a.user, a.cinema, a.ivl, None)
      BY <1>2, <2>2 DEF CreateShiftCheck, Check, At
    <3>2. /\ sess'[self].op = a.op /\ sess'[self].user = a.user /\ sess'[self].ivl = a.ivl
      BY <1>a, <3>1 DEF Goto, SessionState
    <3>3. Booking(sess[self], held[self])'
      BY <1>c, <3>1, <3>2 DEF Booking, Conflicts, ShiftConflict, LiveShift, tables
    <3> QED BY <1>b, <3>1, <3>3, BookKeeps DEF tables
  <2> QED BY <2>1, <2>2
<1>3. CASE CreateShiftCommit(self)
  <2> PICK a : a = sess[self]
    OBVIOUS
  <2>1. CASE Rollback(self)
    BY <2>1, RollbackBooks
  <2>2. CASE ~Rollback(self)
    <3>1. /\ a.op = "createShift" /\ a.step = "write" /\ a.user \in MaybeUser
      BY <1>a, <1>3 DEF CreateShiftCommit, At, SessionState
    <3>2. PICK s \in ShiftId : InsertShift(s, a.user, a.cinema, a.ivl)
      BY <1>3, <2>2 DEF CreateShiftCommit
    <3>3. Books(self, s)
      BY <1>a, <1>c, <3>1, <3>2, InsertBooks DEF Booking
    <3>4. Finish(self)
      BY <1>3, <2>2 DEF CreateShiftCommit
    <3> QED BY <3>3, <3>4, EndBooks
  <2> QED BY <2>1, <2>2
<1> QED BY <1>1, <1>2, <1>3

\* Updating a shift does so for the assignee it is left with.
LEMMA UpdateShiftBooks ==
  ASSUME BookInv, RecordInv', OpsServed', NEW self \in Session,
         \/ \E s \in ShiftId, u \in MaybeUser, i \in Interval : UpdateShiftBegin(self, s, u, i)
         \/ UpdateShiftRead(self)
         \/ \E u \in User : UpdateShiftLockUser(self, u)
         \/ UpdateShiftCheck(self) \/ UpdateShiftFind(self) \/ UpdateShiftCommit(self)
  PROVE  BookInv'
<1> PICK a : a = sess[self]
  OBVIOUS
<1>a. /\ TypeInv /\ sess \in [Session -> SessionState] /\ held \in [Session -> SUBSET LockKey]
      /\ shifts \in [ShiftId -> ShiftRow] /\ a \in SessionState
  BY DEF BookInv, RecordInv, AnswerInv, OfferInv, TypeInv, TypeOK, StoreTypeOK
<1>b. Footprint(self, ShiftsOps)
  BY <1>a, ShiftsFootprint DEF ShiftRequest, ShiftStep
<1>c. Booking(a, held[self])
  BY DEF BookInv
<1>1. CASE \E s \in ShiftId, u \in MaybeUser, i \in Interval : UpdateShiftBegin(self, s, u, i)
  <2>0. PICK s \in ShiftId, u \in MaybeUser, i \in Interval : UpdateShiftBegin(self, s, u, i)
    BY <1>1
  <2>1. UNCHANGED shifts /\ sess'[self].op = "updateShift" /\ sess'[self].step = "read"
    BY <1>a, <2>0 DEF UpdateShiftBegin, Begin, Idle, tables
  <2>2. Booking(sess[self], held[self])'
    BY <2>1 DEF Booking
  <2> QED BY <1>b, <2>1, <2>2, BookKeeps
<1>2. CASE UpdateShiftRead(self)
  <2>1. CASE Rollback(self)
    BY <2>1, RollbackBooks
  <2>2. CASE ~Rollback(self)
    <3>1. UNCHANGED shifts /\ sess'[self].op = "updateShift" /\ sess'[self].step = "users"
      BY <1>a, <1>2, <2>2 DEF UpdateShiftRead, At, SessionState, tables
    <3>2. Booking(sess[self], held[self])'
      BY <3>1 DEF Booking
    <3> QED BY <1>b, <3>1, <3>2, BookKeeps
  <2> QED BY <2>1, <2>2
<1>3. CASE \E u \in User : UpdateShiftLockUser(self, u)
  <2>1. UNCHANGED <<shifts, sess>> /\ a.op = "updateShift" /\ a.step = "users"
    BY <1>3 DEF UpdateShiftLockUser, At, tables
  <2>2. Booking(sess[self], held[self])'
    BY <2>1 DEF Booking
  <2> QED BY <1>b, <2>1, <2>2, BookKeeps
<1>4. CASE UpdateShiftCheck(self)
  <2>1. CASE Rollback(self)
    BY <2>1, RollbackBooks
  <2>2. CASE ~Rollback(self)
    <3>1. /\ a.op = "updateShift" /\ Goto(self, "find") /\ UNCHANGED <<tables, now, held>>
          /\ a.user = None \/ ~Conflicts(a.user, a.cinema, a.ivl, a.shift)
          /\ UserLocksToGet(self) = {}
      BY <1>4, <2>2 DEF UpdateShiftCheck, Check, At
    <3>2. /\ sess'[self].op = a.op /\ sess'[self].user = a.user /\ sess'[self].ivl = a.ivl
          /\ sess'[self].shift = a.shift
      BY <1>a, <3>1 DEF Goto, SessionState
    <3>3. a.user # None => UserLock(a.user) \in held[self]
      BY <3>1 DEF UserLocksToGet
    <3>4. Booking(sess[self], held[self])'
      BY <1>c, <3>1, <3>2, <3>3 DEF Booking, Conflicts, ShiftConflict, LiveShift, tables
    <3> QED BY <1>b, <3>1, <3>4, BookKeeps DEF tables
  <2> QED BY <2>1, <2>2
<1>5. CASE UpdateShiftCommit(self)
  <2>1. CASE Rollback(self)
    BY <2>1, RollbackBooks
  <2>2. CASE ~Rollback(self)
    <3>1. /\ a.op = "updateShift" /\ a.step = "write" /\ a.shift \in ShiftId
          /\ Finish(self)
          /\ shifts' = [shifts EXCEPT ![a.shift].user = a.user, ![a.shift].ivl = a.ivl]
      BY <1>5, <2>2 DEF UpdateShiftCommit, At, LiveShift
    <3>2. /\ \A r \in ShiftId \ {a.shift} : shifts'[r] = shifts[r]
          /\ shifts'[a.shift].user = a.user /\ shifts'[a.shift].ivl = a.ivl
      BY <1>a, <3>1 DEF ShiftRow
    <3>3. Books(self, a.shift)
      BY <1>c, <3>1, <3>2 DEF Booking, Books
    <3> QED BY <3>1, <3>3, EndBooks
  <2> QED BY <2>1, <2>2
<1>6. CASE UpdateShiftFind(self)
  <2>1. /\ a.op = "updateShift" /\ a.step = "find" /\ UNCHANGED <<shifts, held>>
        /\ sess'[self].op = a.op /\ sess'[self].user = a.user /\ sess'[self].ivl = a.ivl
        /\ sess'[self].shift = a.shift
    BY <1>a, <1>6, FindKeepsOp DEF UpdateShiftFind, At, tables
  <2>2. Booking(sess[self], held[self])'
    BY <1>c, <2>1 DEF Booking, ShiftConflict, LiveShift
  <2> QED BY <1>b, <2>1, <2>2, BookKeeps
<1> QED BY <1>1, <1>2, <1>3, <1>4, <1>5, <1>6

\* Deleting a shift books nothing.
LEMMA DeleteShiftBooks ==
  ASSUME BookInv, RecordInv', OpsServed', NEW self \in Session,
         \/ \E s \in ShiftId : DeleteShiftBegin(self, s)
         \/ DeleteShiftCheck(self) \/ DeleteShiftFind(self) \/ DeleteShiftCommit(self)
  PROVE  BookInv'
<1>a. /\ TypeInv /\ sess \in [Session -> SessionState] /\ shifts \in [ShiftId -> ShiftRow]
  BY DEF BookInv, RecordInv, AnswerInv, OfferInv, TypeInv, TypeOK, StoreTypeOK
<1>b. Footprint(self, ShiftsOps)
  BY <1>a, ShiftsFootprint DEF ShiftRequest, ShiftStep
<1>1. CASE \E s \in ShiftId : DeleteShiftBegin(self, s)
  <2>1. UNCHANGED shifts /\ sess'[self].op = "deleteShift"
    <3>1. PICK s \in ShiftId : DeleteShiftBegin(self, s)
      BY <1>1
    <3>2. sess'[self] = [Idle EXCEPT !.op = "deleteShift", !.step = "check", !.shift = s]
      BY <1>a, <3>1, ZenonT(30) DEF DeleteShiftBegin, Begin
    <3>3. UNCHANGED shifts
      BY <3>1, ZenonT(30) DEF DeleteShiftBegin, tables
    <3> QED BY <3>2, <3>3 DEF Idle
  <2>2. Booking(sess[self], held[self])'
    BY <2>1 DEF Booking
  <2> QED BY <1>b, <2>1, <2>2, BookKeeps
<1>2. CASE DeleteShiftCheck(self)
  <2>1. CASE Rollback(self)
    BY <2>1, RollbackBooks
  <2>2. CASE ~Rollback(self)
    <3>1. /\ UNCHANGED shifts /\ sess[self].op = "deleteShift" /\ Goto(self, "find")
      BY <1>2, <2>2 DEF DeleteShiftCheck, Check, At, tables
    <3>2. sess'[self].op = "deleteShift"
      BY <1>a, <3>1 DEF Goto, SessionState
    <3>3. Booking(sess[self], held[self])'
      BY <3>2 DEF Booking
    <3> QED BY <1>b, <3>1, <3>3, BookKeeps
  <2> QED BY <2>1, <2>2
<1>3. CASE DeleteShiftCommit(self)
  <2>1. CASE Rollback(self)
    BY <2>1, RollbackBooks
  <2>2. CASE ~Rollback(self)
    <3> PICK s : s = sess[self].shift
      OBVIOUS
    <3>1. /\ s \in ShiftId /\ Finish(self)
          /\ shifts' = [shifts EXCEPT ![s] = [UnusedShift EXCEPT !.state = "deleted"]]
      BY <1>3, <2>2 DEF DeleteShiftCommit, LiveShift
    <3>2. Books(self, s)
      BY <1>a, <3>1 DEF Books, UnusedShift
    <3> QED BY <3>1, <3>2, EndBooks
  <2> QED BY <2>1, <2>2
<1>4. CASE DeleteShiftFind(self)
  <2>1. UNCHANGED shifts /\ sess'[self].op = "deleteShift"
    BY <1>a, <1>4, FindKeepsOp DEF DeleteShiftFind, At, tables
  <2>2. Booking(sess[self], held[self])'
    BY <2>1 DEF Booking
  <2> QED BY <1>b, <2>1, <2>2, BookKeeps
<1> QED BY <1>1, <1>2, <1>3, <1>4

\* Of the other handlers, one inserts a shift without an assignee, and two accept.
LEMMA OthersBook ==
  ASSUME BookInv, RecordInv', OpsServed', NEW self \in Session,
         "acceptTrade" \notin Ops, "acceptRequest" \notin Ops,
         \/ TradeRequest(self) \/ TradeStep(self)
         \/ StaffingRequest(self) \/ StaffingStep(self)
  PROVE  BookInv'
<1>a. TypeInv /\ sess[self].op \notin {"acceptTrade", "acceptRequest"}
  BY DEF BookInv, RecordInv, AnswerInv, OfferInv, OpsServed
<1>1. CASE CreateRequestInsertShift(self)
  <2>1. CASE Rollback(self)
    BY <2>1, RollbackBooks
  <2>2. CASE ~Rollback(self)
    <3>1. PICK s \in ShiftId : InsertShift(s, None, sess[self].cinema, sess[self].ivl)
      BY <1>1, <2>2 DEF CreateRequestInsertShift
    <3>2. Books(self, s)
      BY <1>a, <3>1, InsertBooks DEF MaybeUser
    <3>3. Footprint(self, StaffingOps)
      BY <1>a, <1>1, StaffingFootprint DEF StaffingStep
    <3>4. Booking(sess[self], held[self])'
      BY <3>3 DEF Footprint, StaffingOps, Booking
    <3> QED BY <3>2, <3>3, <3>4, BookKeeps
  <2> QED BY <2>1, <2>2
<1>2. CASE ~CreateRequestInsertShift(self)
  <2>1. CASE TradeRequest(self) \/ TradeStep(self)
    <3>1. UNCHANGED shifts
      BY <1>a, <2>1
      DEF TradeRequest, TradeStep, CreateTradeBegin, AcceptTradeBegin, RejectTradeBegin,
          CancelTradeBegin, CreateTradeCheck, CreateTradeCommit, AcceptTradeLock,
          AcceptTradeCheck, AcceptTradeCommit, RejectPoolTradeLock, RejectPoolTradeCheck,
          RejectPoolTradeCommit, RejectDirectTradeCommit, CancelTradeCommit, CloseTrade,
          Check, Rollback, At, tables
    <3>2. Footprint(self, TradesOps)
      BY <1>a, <2>1, TradesFootprint
    <3> QED BY <3>1, <3>2, NoBooking DEF TradesOps, OffersOps, AnswersOps
  <2>2. CASE StaffingRequest(self) \/ StaffingStep(self)
    <3>1. UNCHANGED shifts
      BY <1>a, <1>2, <2>2
      DEF StaffingRequest, StaffingStep, CreateRequestForShift, CreateRequestForPeriod,
          AcceptRequestBegin, RejectRequestBegin, CancelRequestBegin, CreateRequestCommit,
          AcceptRequestLock, AcceptRequestCheck, AcceptRequestFind, Find, AcceptRequestCommit,
          RejectBroadcastCheck, RejectBroadcastCommit, RejectTargetedCommit,
          CancelRequestCommit, CloseRequest, Check, Rollback, At, tables
    <3>2. Footprint(self, StaffingOps)
      BY <1>a, <2>2, StaffingFootprint
    <3> QED BY <3>1, <3>2, NoBooking DEF StaffingOps
  <2> QED BY <2>1, <2>2
<1> QED BY <1>1, <1>2

\* Without acceptances the invariant of the bookings is inductive.
LEMMA BookInvInductive ==
  ASSUME "acceptTrade" \notin Ops, "acceptRequest" \notin Ops
  PROVE  BookInv /\ [Next]_vars => BookInv'
<1> SUFFICES ASSUME BookInv, [Next]_vars PROVE BookInv'
  OBVIOUS
<1>1. RecordInv' /\ TypeInv /\ OpsServed'
  BY RecordInvInductive, OpsStayServed DEF BookInv, RecordInv, AnswerInv, OfferInv
<1>2. ASSUME NEW self \in Session, ShiftRequest(self) \/ ShiftStep(self) PROVE BookInv'
  BY <1>1, <1>2, CreateShiftBooks, UpdateShiftBooks, DeleteShiftBooks
  DEF ShiftRequest, ShiftStep
<1>3. ASSUME NEW self \in Session,
             \/ TradeRequest(self) \/ TradeStep(self)
             \/ StaffingRequest(self) \/ StaffingStep(self)
      PROVE  BookInv'
  BY <1>1, <1>3, OthersBook
<1>4. ASSUME NEW self \in Session, ClockRequest(self) \/ ClockStep(self) PROVE BookInv'
  BY <1>1, <1>4, ClocksFootprint, LeavesAndClocksSpareShifts, NoBooking DEF ClocksOps
<1>5. ASSUME NEW self \in Session, LeaveRequest(self) \/ LeaveStep(self) PROVE BookInv'
  BY <1>1, <1>5, LeavesFootprint, LeavesAndClocksSpareShifts, NoBooking DEF LeavesOps
<1>6. ASSUME NEW self \in Session, Crash(self) PROVE BookInv'
  BY <1>1, <1>6, RollbackBooks DEF Crash
<1>7. CASE UNCHANGED <<shifts, held, sess>>
  BY <1>1, <1>7 DEF BookInv, NoDoubleBooking, Booking, ShiftConflict, LiveShift
<1> QED BY <1>2, <1>3, <1>4, <1>5, <1>6, <1>7
        DEF Next, Request, Advance, ExpireLeaves, Tick, tables, vars

\* Nothing is booked at the start.
LEMMA InitBookInv == Init => BookInv
BY InitRecordInv, IdleOp
   DEF Init, StoreInit, BookInv, OpsServed, NoDoubleBooking, LiveShift, UnusedShift, Booking

\* Where nobody accepts a trade or a staffing request, nobody has two shifts at
\* the same time, however edits, offers, absences and clock-ins overlap.
THEOREM EditsNeverDoubleBook ==
  ASSUME "acceptTrade" \notin Ops, "acceptRequest" \notin Ops
  PROVE  Spec => []NoDoubleBooking
<1>1. BookInv => NoDoubleBooking
  BY DEF BookInv
<1>2. BookInv /\ [Next]_vars => BookInv'
  BY BookInvInductive
<1> QED BY <1>1, <1>2, InitBookInv, PTL DEF Spec

-----------------------------------------------------------------------------
(* Offers and time entries.  Both are about a shift their owner has when they *)
(* are checked, but neither is inserted under the record lock of the shift:   *)
(* an edit may give it to somebody else between the check and the INSERT.     *)
(* An offer can also be made between the look of an edit for the offers of    *)
(* the shift and its COMMIT.  For offers no other handler can come between.   *)

\* What a request to offer a shift has seen of it.
Owning(a) ==
  a.op = "createTrade" /\ a.step = "write" =>
    /\ a.shift \in ShiftId /\ shifts[a.shift].state # "unused"
    /\ LiveShift(a.shift) => shifts[a.shift].user = a.user

\* An edit about to take a shift off its owner has found, where nobody offers
\* meanwhile, every open offer of the shift.
TakesOff(a) ==
  /\ a.step = "write"
  /\ \/ a.op = "deleteShift"
     \/ a.op = "updateShift" /\ a.user # a.oldUser

Finding(a) == TakesOff(a) => OpenOn(a.shift) \subseteq a.foundTrades

FollowInv ==
  /\ RecordInv
  /\ OpenTradeFollowsShift
  /\ \A t \in TradeId : OpenTrade(t) => trades[t].offeredBy # None
  /\ \A p \in Session : Owning(sess[p]) /\ Finding(sess[p])

\* A shift that is there stays its owner's, is given to somebody when nobody has
\* it, or its offers are closed and it is deleted, was offered, or is nobody's
\* business to offer just now.
Spares(s) ==
  shifts[s].state # "unused" =>
    /\ shifts'[s].state # "unused"
    /\ \/ shifts'[s].state = shifts[s].state /\ shifts'[s].user = shifts[s].user
       \/ LiveShift(s) /\ shifts[s].user = None
       \/ /\ \A t \in TradeId : trades'[t].status = "OPEN" => trades[t].shift # s
          /\ \/ shifts'[s].state # "live"
             \/ OpenOn(s) # {}
             \/ \A p \in Session : sess[p].op # "createTrade"

KeepsMakers ==
  \A t \in TradeId : trades'[t].status = "OPEN" =>
    trades'[t].offeredBy = trades[t].offeredBy /\ trades'[t].shift = trades[t].shift

\* What a step that opens no trade has to keep.
LEMMA FollowKeeps ==
  ASSUME FollowInv, RecordInv', NEW self \in Session, NEW ops, Footprint(self, ops),
         KeepsOffers, KeepsMakers, \A s \in ShiftId : Spares(s), Owning(sess[self])',
         Finding(sess[self])'
  PROVE  FollowInv'
<1>1. ASSUME NEW t \in TradeId, OpenTrade(t)'
      PROVE  /\ trades'[t].offeredBy # None
             /\ LiveShift(trades[t].shift)'
             /\ shifts'[trades'[t].shift].user = trades'[t].offeredBy
  <2> PICK s : s = trades[t].shift
    OBVIOUS
  <2>1. /\ OpenTrade(t) /\ trades'[t].shift = s /\ trades'[t].status = "OPEN"
        /\ trades'[t].offeredBy = trades[t].offeredBy
    BY <1>1 DEF KeepsOffers, KeepsMakers, OpenTrade
  <2>2. LiveShift(s) /\ shifts[s].user = trades[t].offeredBy /\ trades[t].offeredBy # None
    BY <2>1 DEF FollowInv, OpenTradeFollowsShift
  <2>3. /\ s \in ShiftId /\ shifts'[s].state = shifts[s].state
        /\ shifts'[s].user = shifts[s].user
    BY <2>1, <2>2 DEF Spares, LiveShift
  <2> QED BY <2>1, <2>2, <2>3 DEF LiveShift
<1>2. ASSUME NEW p \in Session, p # self PROVE Owning(sess[p])'
  <2> SUFFICES ASSUME sess'[p].op = "createTrade", sess'[p].step = "write"
               PROVE  /\ sess'[p].shift \in ShiftId
                      /\ shifts'[sess'[p].shift].state # "unused"
                      /\ LiveShift(sess[p].shift)' =>
                           shifts'[sess'[p].shift].user = sess'[p].user
    BY DEF Owning
  <2> PICK a : a = sess[p]
    OBVIOUS
  <2>1. sess'[p] = a
    BY <1>2 DEF Footprint
  <2>2. Owning(a) /\ OpenOn(a.shift) = {} /\ a.user # None /\ TypeInv
    BY <2>1, IdsAreNotNull
    DEF FollowInv, RecordInv, AnswerInv, OfferInv, Offering, TypeInv, SessionOK
  <2> QED BY <2>1, <2>2 DEF Owning, Spares, LiveShift
<1>3. ASSUME NEW p \in Session, p # self PROVE Finding(sess[p])'
  <2>1. sess'[p] = sess[p] /\ Finding(sess[p])
    BY <1>3 DEF Footprint, FollowInv
  <2>2. \A x : OpenOn(x)' \subseteq OpenOn(x)
    BY DEF KeepsOffers, KeepsMakers, OpenOn, OpenTrade
  <2> QED BY <2>1, <2>2 DEF TakesOff, Finding
<1> QED BY <1>1, <1>2, <1>3 DEF FollowInv, OpenTradeFollowsShift

\* A request that ends without taking a shift off its owner leaves the offers right.
LEMMA EndFollows ==
  ASSUME FollowInv, RecordInv', NEW self \in Session, Finish(self),
         KeepsOffers, KeepsMakers, \A s \in ShiftId : Spares(s)
  PROVE  FollowInv'
<1>1. Footprint(self, {})
  BY FinishFoot DEF FollowInv, RecordInv, AnswerInv, OfferInv
<1>2. Owning(sess[self])' /\ Finding(sess[self])'
  BY <1>1 DEF Footprint, Owning, TakesOff, Finding
<1> QED BY <1>1, <1>2, FollowKeeps

\* Nor does one that writes neither table.
LEMMA SameFollows ==
  ASSUME UNCHANGED <<shifts, trades>>
  PROVE  KeepsOffers /\ KeepsMakers /\ \A s \in ShiftId : Spares(s)
BY DEF KeepsOffers, KeepsMakers, Spares, OpenTrade

\* A refused request leaves the offers right.
LEMMA RollbackFollows ==
  ASSUME FollowInv, RecordInv', NEW self \in Session, Rollback(self)
  PROVE  FollowInv'
BY SameFollows, EndFollows DEF Rollback, tables

\* Handlers that write neither shifts nor trades.
LEMMA OthersFollow ==
  ASSUME FollowInv, RecordInv', NEW self \in Session, NEW ops, Footprint(self, ops),
         UNCHANGED <<shifts, trades>>, "createTrade" \notin ops, Finding(sess[self])'
  PROVE  FollowInv'
<1>1. Owning(sess[self])'
  BY DEF Footprint, Owning
<1> QED BY <1>1, SameFollows, FollowKeeps

\* A new shift is none of those that are there.
LEMMA InsertSpares ==
  ASSUME TypeInv, NEW r \in ShiftId, NEW u, NEW c, NEW i, InsertShift(r, u, c, i),
         UNCHANGED trades
  PROVE  KeepsOffers /\ KeepsMakers /\ \A s \in ShiftId : Spares(s)
<1>1. shifts \in [ShiftId -> ShiftRow] /\ shifts[r].state = "unused"
  BY DEF TypeInv, TypeOK, StoreTypeOK, InsertShift, First, UnusedShiftIds
<1>2. \A s \in ShiftId \ {r} : shifts'[s] = shifts[s]
  BY <1>1 DEF InsertShift
<1> QED BY <1>1, <1>2 DEF KeepsOffers, KeepsMakers, Spares, OpenTrade

\* Closing the offers that were found leaves none of the shift, when they are all.
LEMMA FoundClose ==
  ASSUME TypeInv, NEW s, NEW found, NEW keep, OpenOn(s) \subseteq found,
         trades' = ResolveTrades(s, found, keep)
  PROVE  \A t \in TradeId : trades'[t].status = "OPEN" => trades[t].shift # s
<1> SUFFICES ASSUME NEW t \in TradeId, trades[t].shift = s
             PROVE  trades'[t].status # "OPEN"
  OBVIOUS
<1>1. trades[t] \in TradeRow /\ (trades[t].status = "OPEN" => t \in found)
  BY DEF TypeInv, TypeOK, StoreTypeOK, OpenOn, OpenTrade
<1>2. trades'[t] = [trades[t] EXCEPT !.shift = keep,
                      !.status = IF t \in found /\ @ = "OPEN" THEN "CANCELLED" ELSE @]
  BY DEF ResolveTrades
<1> QED BY <1>1, <1>2 DEF TradeRow

\* A step with no edit about to commit has found nothing.
LEMMA FindsNothing ==
  ASSUME NEW self \in Session, NEW ops, Footprint(self, ops),
         ops \cap {"updateShift", "deleteShift"} = {}
  PROVE  Finding(sess[self])'
BY DEF Footprint, TakesOff, Finding

\* The steps of an edit that write nothing: the last finds the offers.
LEMMA EditsFind ==
  ASSUME FollowInv, NEW self \in Session, ShiftRequest(self) \/ ShiftStep(self),
         ~Finish(self)
  PROVE  Finding(sess[self])'
<1>a. TypeInv /\ sess \in [Session -> SessionState]
  BY DEF FollowInv, RecordInv, AnswerInv, OfferInv, TypeInv, TypeOK, StoreTypeOK
<1> PICK a : a = sess[self]
  OBVIOUS
<1>1. ASSUME \/ \E u \in MaybeUser, c \in Cinema, i \in Interval : CreateShiftBegin(self, u, c, i)
             \/ CreateShiftCheck(self)
      PROVE  sess'[self].op = "createShift"
  <2>1. ASSUME NEW u \in MaybeUser, NEW c \in Cinema, NEW i \in Interval,
               CreateShiftBegin(self, u, c, i)
        PROVE  sess'[self].op = "createShift"
    BY <1>a, <2>1 DEF CreateShiftBegin, Begin, Idle
  <2>2. ASSUME CreateShiftCheck(self) PROVE sess'[self].op = "createShift"
    BY <1>a, <2>2 DEF CreateShiftCheck, Check, Goto, At, Rollback, SessionState
  <2> QED BY <1>1, <2>1, <2>2
<1>2. ASSUME \/ \E s \in ShiftId, u \in MaybeUser, i \in Interval : UpdateShiftBegin(self, s, u, i)
             \/ \E s \in ShiftId : DeleteShiftBegin(self, s)
             \/ UpdateShiftRead(self) \/ UpdateShiftCheck(self) \/ DeleteShiftCheck(self)
             \/ \E u \in User : UpdateShiftLockUser(self, u)
      PROVE  sess'[self].step # "write"
  <2>1. ASSUME NEW s \in ShiftId, NEW u \in MaybeUser, NEW i \in Interval,
               UpdateShiftBegin(self, s, u, i)
        PROVE  sess'[self].step # "write"
    BY <1>a, <2>1 DEF UpdateShiftBegin, Begin, Idle
  <2>2. ASSUME NEW s \in ShiftId, DeleteShiftBegin(self, s)
        PROVE  sess'[self].step # "write"
    BY <1>a, <2>2 DEF DeleteShiftBegin, Begin, Idle
  <2>3. ASSUME UpdateShiftCheck(self) \/ DeleteShiftCheck(self)
        PROVE  sess'[self].step # "write"
    BY <1>a, <2>3 DEF UpdateShiftCheck, DeleteShiftCheck, Check, Goto, Rollback, SessionState
  <2>4. ASSUME UpdateShiftRead(self) PROVE sess'[self].step # "write"
    BY <1>a, <2>4 DEF UpdateShiftRead, Rollback, SessionState
  <2>5. ASSUME NEW u \in User, UpdateShiftLockUser(self, u) PROVE sess'[self].step # "write"
    BY <2>5 DEF UpdateShiftLockUser, At
  <2> QED BY <1>2, <2>1, <2>2, <2>3, <2>4, <2>5
<1>3. CASE UpdateShiftFind(self)
  <2> PICK ts, rs : /\ Find(self, ts, rs)
                    /\ a.user # a.oldUser => ts = OpenTradesOn(a.shift)
    BY <1>3 DEF UpdateShiftFind
  <2>1. /\ sess'[self].user = a.user /\ sess'[self].oldUser = a.oldUser
        /\ sess'[self].shift = a.shift /\ sess'[self].foundTrades = ts
        /\ sess'[self].op = "updateShift" /\ UNCHANGED trades
    BY <1>a, <1>3, FindKeepsOp DEF UpdateShiftFind, At, tables
  <2> QED BY <2>1 DEF TakesOff, Finding, OpenTradesOn, OpenOn, OpenTrade
<1>4. CASE DeleteShiftFind(self)
  <2>1. /\ sess'[self].shift = a.shift /\ sess'[self].foundTrades = OpenTradesOn(a.shift)
        /\ UNCHANGED trades
    BY <1>a, <1>4, FindKeepsOp DEF DeleteShiftFind, tables
  <2> QED BY <2>1 DEF TakesOff, Finding, OpenTradesOn, OpenOn, OpenTrade
<1>5. ~CreateShiftCommit(self) /\ ~UpdateShiftCommit(self) /\ ~DeleteShiftCommit(self)
  BY DEF CreateShiftCommit, UpdateShiftCommit, DeleteShiftCommit, Rollback
<1>6. sess'[self].op = "createShift" \/ sess'[self].step # "write" => Finding(sess[self])'
  BY DEF TakesOff, Finding
<1> QED BY <1>1, <1>2, <1>3, <1>4, <1>5, <1>6 DEF ShiftRequest, ShiftStep

\* An edit closes the offers of a shift it takes off its owner.
LEMMA ShiftsFollow ==
  ASSUME FollowInv, RecordInv', NEW self \in Session, OffersApart,
         ShiftRequest(self) \/ ShiftStep(self)
  PROVE  FollowInv'
<1>a. /\ TypeInv /\ Footprint(self, ShiftsOps) /\ AnswerInv
      /\ shifts \in [ShiftId -> ShiftRow] /\ trades \in [TradeId -> TradeRow]
  BY ShiftsFootprint DEF FollowInv, RecordInv, AnswerInv, OfferInv, TypeInv, TypeOK, StoreTypeOK
<1>b. sess[self].op \in {"updateShift", "deleteShift"} =>
        \A p \in Session : sess[p].op # "createTrade"
  BY DEF OffersApart
<1>1. CASE CreateShiftCommit(self)
  <2>1. CASE Rollback(self)
    BY <2>1, RollbackFollows
  <2>2. CASE ~Rollback(self)
    BY <1>1, <1>a, <2>2, InsertSpares, EndFollows DEF CreateShiftCommit
  <2> QED BY <2>1, <2>2
<1>2. CASE DeleteShiftCommit(self)
  <2>1. CASE Rollback(self)
    BY <2>1, RollbackFollows
  <2>2. CASE ~Rollback(self)
    <3> PICK a, s : a = sess[self] /\ s = sess[self].shift
      OBVIOUS
    <3>1. /\ s \in ShiftId /\ Finish(self) /\ trades' = ResolveTrades(s, a.foundTrades, None)
          /\ shifts' = [shifts EXCEPT ![s] = [UnusedShift EXCEPT !.state = "deleted"]]
          /\ a.op = "deleteShift" /\ a.step = "write"
      BY <1>2, <2>2 DEF DeleteShiftCommit, LiveShift, At
    <3>2. KeepsOffers /\ ClosesTrades
      BY <1>a, <1>2, ShiftsQuiet, ShiftsClose DEF Quiet, ShiftStep
    <3>4. \A t \in TradeId : trades'[t].status = "OPEN" => trades[t].shift # s
      BY <1>a, <3>1, FoundClose DEF FollowInv, TakesOff, Finding
    <3>3. KeepsMakers
      BY <3>1, <3>2, <3>4 DEF ClosesTrades, ClosedRow, KeepsMakers, ResolveTrades
    <3>5. \A r \in ShiftId : Spares(r)
      <4>1. shifts'[s].state = "deleted" /\ \A r \in ShiftId \ {s} : shifts'[r] = shifts[r]
        BY <1>a, <3>1 DEF UnusedShift
      <4> QED BY <3>4, <4>1 DEF Spares
    <3> QED BY <3>1, <3>2, <3>3, <3>5, EndFollows
  <2> QED BY <2>1, <2>2
<1>3. CASE ~CreateShiftCommit(self) /\ ~DeleteShiftCommit(self) /\ ~UpdateShiftCommit(self)
  <2>1. UNCHANGED <<shifts, trades>>
    BY <1>3
    DEF ShiftRequest, ShiftStep, CreateShiftBegin, UpdateShiftBegin, DeleteShiftBegin,
        CreateShiftCheck, UpdateShiftRead, UpdateShiftLockUser, UpdateShiftCheck,
        UpdateShiftFind, DeleteShiftCheck, DeleteShiftFind, Find, Check, Rollback, tables
  <2>2. CASE Finish(self)
    BY <2>1, <2>2, SameFollows, EndFollows
  <2>3. CASE ~Finish(self)
    BY <1>a, <2>1, <2>3, EditsFind, OthersFollow DEF ShiftsOps
  <2> QED BY <2>2, <2>3
<1>4. CASE UpdateShiftCommit(self)
  <2>1. CASE Rollback(self)
    BY <2>1, RollbackFollows
  <2>2. CASE ~Rollback(self)
    <3> PICK a, s : a = sess[self] /\ s = sess[self].shift
      OBVIOUS
    <3>1. /\ LiveShift(s) /\ Finish(self) /\ trades' = ResolveTrades(s, a.foundTrades, s)
          /\ shifts' = [shifts EXCEPT ![s].user = a.user, ![s].ivl = a.ivl]
          /\ a.op = "updateShift" /\ a.step = "write"
      BY <1>4, <2>2 DEF UpdateShiftCommit, At
    <3>2. KeepsOffers /\ ClosesTrades
      BY <1>a, <1>4, ShiftsQuiet, ShiftsClose DEF Quiet, ShiftStep
    <3>3. KeepsMakers
      <4> SUFFICES ASSUME NEW t \in TradeId
                   PROVE  trades'[t].shift = trades[t].shift
        BY <3>2 DEF ClosesTrades, ClosedRow, KeepsMakers
      <4>1. trades'[t] = IF trades[t].shift # s THEN trades[t]
                         ELSE [trades[t] EXCEPT !.shift = s,
                                 !.status = IF t \in a.foundTrades /\ @ = "OPEN"
                                            THEN "CANCELLED" ELSE @]
        BY <3>1 DEF ResolveTrades
      <4> QED BY <1>a, <4>1 DEF TradeRow
    <3>4. a.user # a.oldUser =>
            \A t \in TradeId : trades'[t].status = "OPEN" => trades[t].shift # s
      BY <1>a, <3>1, FoundClose DEF FollowInv, TakesOff, Finding
    <3>5. /\ \A r \in ShiftId \ {s} : shifts'[r] = shifts[r]
          /\ s \in ShiftId /\ shifts'[s].state = "live" /\ shifts'[s].user = a.user
          /\ shifts[s].state = "live" /\ shifts[s].user = a.oldUser
      BY <1>a, <3>1 DEF LiveShift, ShiftRow, FollowInv, RecordInv, Editing
    <3>6. \A r \in ShiftId : Spares(r)
      BY <1>b, <3>1, <3>4, <3>5 DEF Spares
    <3> QED BY <3>1, <3>2, <3>3, <3>6, EndFollows
  <2> QED BY <2>1, <2>2
<1> QED BY <1>1, <1>2, <1>3, <1>4

\* Staffing requests fill shifts that nobody has and nobody can offer.
LEMMA StaffingFollows ==
  ASSUME FollowInv, RecordInv', NEW self \in Session,
         StaffingRequest(self) \/ StaffingStep(self)
  PROVE  FollowInv'
<1>a. /\ TypeInv /\ Footprint(self, StaffingOps) /\ UNCHANGED trades
      /\ shifts \in [ShiftId -> ShiftRow]
  BY StaffingFootprint DEF FollowInv, RecordInv, AnswerInv, OfferInv, TypeInv, TypeOK, StoreTypeOK
<1>1. CASE CreateRequestInsertShift(self)
  <2>1. CASE Rollback(self)
    BY <2>1, RollbackFollows
  <2>2. CASE ~Rollback(self)
    <3>1. StaffingOps \cap {"updateShift", "deleteShift"} = {}
      BY DEF StaffingOps
    <3>2. Owning(sess[self])' /\ Finding(sess[self])'
      BY <1>a, <3>1, FindsNothing DEF Footprint, StaffingOps, Owning
    <3> QED BY <1>1, <1>a, <2>2, <3>2, InsertSpares, FollowKeeps DEF CreateRequestInsertShift
  <2> QED BY <2>1, <2>2
<1>2. CASE AcceptRequestCommit(self)
  <2>1. CASE Rollback(self)
    BY <2>1, RollbackFollows
  <2>2. CASE ~Rollback(self)
    <3> PICK s : s = sess[self].shift
      OBVIOUS
    <3>1. /\ Finish(self) /\ LiveShift(s) /\ shifts[s].user = None
          /\ shifts' = [shifts EXCEPT ![s].user = sess[self].user]
      BY <1>2, <2>2 DEF AcceptRequestCommit
    <3>2. /\ \A r \in ShiftId \ {s} : shifts'[r] = shifts[r]
          /\ shifts'[s].state = "live"
      BY <1>a, <3>1 DEF LiveShift, ShiftRow
    <3>3. \A r \in ShiftId : Spares(r)
      BY <3>1, <3>2 DEF Spares, LiveShift
    <3>4. KeepsOffers /\ KeepsMakers
      BY <1>a DEF KeepsOffers, KeepsMakers, OpenTrade
    <3> QED BY <3>1, <3>3, <3>4, EndFollows
  <2> QED BY <2>1, <2>2
<1>3. CASE ~CreateRequestInsertShift(self) /\ ~AcceptRequestCommit(self)
  <2>1. UNCHANGED shifts
    BY <1>3
    DEF StaffingRequest, StaffingStep, CreateRequestForShift, CreateRequestForPeriod,
        AcceptRequestBegin, RejectRequestBegin, CancelRequestBegin, CreateRequestCommit,
        AcceptRequestLock, AcceptRequestCheck, AcceptRequestFind, Find, RejectBroadcastCheck,
        RejectBroadcastCommit, RejectTargetedCommit, CancelRequestCommit, CloseRequest, Check,
        Rollback, tables
  <2> QED BY <1>a, <2>1, FindsNothing, OthersFollow DEF StaffingOps
<1> QED BY <1>1, <1>2, <1>3

\* An offer is opened on the shift of its owner, which nobody is editing.
LEMMA CreateTradeFollows ==
  ASSUME FollowInv, RecordInv', OffersApart, NEW self \in Session,
         \/ \E u \in User, s \in ShiftId, target \in MaybeUser :
              CreateTradeBegin(self, u, s, target)
         \/ CreateTradeCheck(self) \/ CreateTradeCommit(self)
  PROVE  FollowInv'
<1> PICK a : a = sess[self]
  OBVIOUS
<1>a. /\ TypeInv /\ Footprint(self, TradesOps) /\ a \in SessionState
      /\ sess \in [Session -> SessionState] /\ trades \in [TradeId -> TradeRow]
  BY TradesFootprint
  DEF FollowInv, RecordInv, AnswerInv, OfferInv, TypeInv, TypeOK, StoreTypeOK, TradeRequest,
      TradeStep
<1>f. Finding(sess[self])'
  BY <1>a, FindsNothing DEF TradesOps, OffersOps, AnswersOps
<1>1. ASSUME NEW u \in User, NEW s \in ShiftId, NEW target \in MaybeUser,
             CreateTradeBegin(self, u, s, target)
      PROVE  FollowInv'
  <2>1. UNCHANGED <<shifts, trades>> /\ sess'[self].step = "check"
    BY <1>a, <1>1 DEF CreateTradeBegin, Begin, Idle, tables
  <2>2. Owning(sess[self])'
    BY <2>1 DEF Owning
  <2> QED BY <1>a, <1>f, <2>1, <2>2, SameFollows, FollowKeeps
<1>2. CASE CreateTradeCheck(self)
  <2>1. CASE Rollback(self)
    BY <2>1, RollbackFollows
  <2>2. CASE ~Rollback(self)
    <3>1. /\ LiveShift(a.shift) /\ shifts[a.shift].user = a.user
          /\ Goto(self, "write") /\ UNCHANGED <<shifts, trades>>
      BY <1>2, <2>2 DEF CreateTradeCheck, Check, tables
    <3>2. sess'[self].shift = a.shift /\ sess'[self].user = a.user
      BY <1>a, <3>1 DEF Goto, SessionState
    <3>3. Owning(sess[self])'
      BY <3>1, <3>2 DEF Owning, LiveShift
    <3> QED BY <1>a, <1>f, <3>1, <3>3, SameFollows, FollowKeeps
  <2> QED BY <2>1, <2>2
<1>3. CASE CreateTradeCommit(self)
  <2>1. CASE Rollback(self)
    BY <2>1, RollbackFollows
  <2>2. CASE ~Rollback(self)
    <3> DEFINE row == [status |-> "OPEN", shift |-> a.shift, offeredBy |-> a.user,
                       target |-> a.other, acceptedBy |-> None, declines |-> {}]
    <3>1. /\ a.op = "createTrade" /\ a.step = "write" /\ LiveShift(a.shift)
          /\ Finish(self) /\ UNCHANGED shifts
      BY <1>3, <2>2 DEF CreateTradeCommit, At
    <3>2. PICK t \in TradeId : trades' = [trades EXCEPT ![t] = row]
      BY <1>3, <2>2 DEF CreateTradeCommit
    <3>3. row.shift = a.shift /\ row.offeredBy = a.user
      OBVIOUS
    <3> HIDE DEF row
    <3>4. trades'[t] = row /\ \A r \in TradeId \ {t} : trades'[r] = trades[r]
      BY <1>a, <3>2
    <3>5. a.user # None /\ shifts[a.shift].user = a.user
      BY <1>a, <3>1, IdsAreNotNull DEF FollowInv, Owning, TypeInv, SessionOK
    <3>6. ASSUME NEW r \in TradeId, OpenTrade(r)'
          PROVE  /\ trades'[r].offeredBy # None
                 /\ LiveShift(trades'[r].shift)
                 /\ shifts[trades'[r].shift].user = trades'[r].offeredBy
      <4>1. CASE r = t
        BY <3>1, <3>3, <3>4, <3>5, <4>1
      <4>2. CASE r # t
        BY <3>4, <3>6, <4>2 DEF FollowInv, OpenTradeFollowsShift, OpenTrade
      <4> QED BY <4>1, <4>2
    <3>7. ASSUME NEW p \in Session PROVE Owning(sess[p])' /\ Finding(sess[p])'
      <4>1. sess'[p] = sess[p] \/ sess'[p].op = "none"
        BY <1>a, <3>1, IdleOp DEF Finish
      <4>2. Owning(sess[p]) /\ sess[p].op \notin {"updateShift", "deleteShift"}
        BY <3>1 DEF FollowInv, OffersApart
      <4> QED BY <3>1, <4>1, <4>2 DEF Owning, LiveShift, TakesOff, Finding
    <3> QED BY <3>1, <3>6, <3>7 DEF FollowInv, OpenTradeFollowsShift, LiveShift
  <2> QED BY <2>1, <2>2
<1> QED BY <1>1, <1>2, <1>3

\* An acceptance closes the one offer of the shift it gives away.
LEMMA AcceptTradeFollows ==
  ASSUME FollowInv, RecordInv', NEW self \in Session, AcceptTradeCommit(self)
  PROVE  FollowInv'
<1> PICK a : a = sess[self]
  OBVIOUS
<1>a. /\ TypeInv /\ OneOpenTrade /\ shifts \in [ShiftId -> ShiftRow]
      /\ trades \in [TradeId -> TradeRow]
  BY DEF FollowInv, RecordInv, AnswerInv, OfferInv, TypeInv, TypeOK, StoreTypeOK
<1>1. CASE Rollback(self)
  BY <1>1, RollbackFollows
<1>2. CASE ~Rollback(self)
  <2> PICK s, t : s = a.shift /\ t = a.item
    OBVIOUS
  <2>1. /\ OpenTrade(t) /\ trades[t].shift = s /\ LiveShift(s) /\ Finish(self)
        /\ trades' = [trades EXCEPT ![t].status = "ACCEPTED", ![t].acceptedBy = a.user]
        /\ shifts' = [shifts EXCEPT ![s].user = a.user]
    BY <1>2 DEF AcceptTradeCommit
  <2>2. t \in TradeId
    BY <1>a DEF AcceptTradeCommit, At, TypeInv, SessionOK
  <2>3. /\ \A r \in ShiftId \ {s} : shifts'[r] = shifts[r]
        /\ shifts'[s].state = "live"
    BY <1>a, <2>1 DEF LiveShift, ShiftRow
  <2>4. /\ \A r \in TradeId \ {t} : trades'[r] = trades[r]
        /\ trades'[t].status = "ACCEPTED"
    BY <1>a, <2>1, <2>2 DEF TradeRow
  <2>5. KeepsOffers /\ KeepsMakers
    BY <2>4 DEF KeepsOffers, KeepsMakers, OpenTrade
  <2>6. \A r \in TradeId : trades'[r].status = "OPEN" => trades[r].shift # s
    BY <1>a, <2>1, <2>2, <2>4, IdsAreNotNull DEF OneOpenTrade, OpenTrade, LiveShift
  <2>7. t \in OpenOn(s)
    BY <2>1, <2>2 DEF OpenOn
  <2>8. \A r \in ShiftId : Spares(r)
    BY <2>3, <2>6, <2>7 DEF Spares
  <2> QED BY <2>1, <2>5, <2>8, EndFollows
<1> QED BY <1>1, <1>2

\* An acceptance closes the other offers of the shift it gives away.
LEMMA TradesFollow ==
  ASSUME FollowInv, RecordInv', OffersApart, NEW self \in Session,
         TradeRequest(self) \/ TradeStep(self)
  PROVE  FollowInv'
<1>a. /\ TypeInv /\ trades \in [TradeId -> TradeRow]
  BY DEF FollowInv, RecordInv, AnswerInv, OfferInv, TypeInv, TypeOK, StoreTypeOK
<1>1. ASSUME \/ \E u \in User, t \in TradeId : AcceptTradeBegin(self, u, t)
                                                 \/ RejectTradeBegin(self, u, t)
             \/ \E t \in TradeId : CancelTradeBegin(self, t)
             \/ AcceptTradeLock(self) \/ AcceptTradeCheck(self)
             \/ RejectPoolTradeLock(self) \/ RejectPoolTradeCheck(self)
             \/ RejectPoolTradeCommit(self) \/ RejectDirectTradeCommit(self)
             \/ CancelTradeCommit(self)
      PROVE  FollowInv'
  <2>1. KeepsOffers /\ Footprint(self, TradesOps)
    BY <1>a, <1>1, AnswersQuiet, TradesFootprint DEF Quiet, TradeRequest, TradeStep
  <2>2. UNCHANGED shifts
    BY <1>1
    DEF AcceptTradeBegin, RejectTradeBegin, CancelTradeBegin, AcceptTradeLock, AcceptTradeCheck,
        RejectPoolTradeLock, RejectPoolTradeCheck, RejectPoolTradeCommit,
        RejectDirectTradeCommit, CancelTradeCommit, CloseTrade, Check, Rollback, tables
  <2>3. KeepsMakers
    <3>1. ASSUME NEW t, NEW x, trades' = [trades EXCEPT ![t].declines = @ \cup {x}]
          PROVE  KeepsMakers
      BY <1>a, <3>1 DEF KeepsMakers, TradeRow
    <3>2. ASSUME NEW t, NEW x, trades' = [trades EXCEPT ![t].status = x]
          PROVE  KeepsMakers
      BY <1>a, <3>2 DEF KeepsMakers, TradeRow
    <3>3. UNCHANGED trades => KeepsMakers
      BY DEF KeepsMakers
    <3> QED BY <1>1, <3>1, <3>2, <3>3
    DEF AcceptTradeBegin, RejectTradeBegin, CancelTradeBegin, AcceptTradeLock, AcceptTradeCheck,
        RejectPoolTradeLock, RejectPoolTradeCheck, RejectPoolTradeCommit,
        RejectDirectTradeCommit, CancelTradeCommit, CloseTrade, Check, Rollback, tables
  <2>4. \A s \in ShiftId : Spares(s)
    BY <2>2 DEF Spares
  <2>5. Owning(sess[self])'
    <3>1. sess'[self].op = "createTrade" => sess'[self] = sess[self]
      BY <1>a, <1>1, AnswersQuiet DEF Quiet
    <3>2. Owning(sess[self])
      BY DEF FollowInv
    <3> QED BY <2>2, <3>1, <3>2 DEF Owning, LiveShift
  <2>6. Finding(sess[self])'
    BY <2>1, FindsNothing DEF TradesOps, OffersOps, AnswersOps
  <2> QED BY <2>1, <2>3, <2>4, <2>5, <2>6, FollowKeeps
<1> QED BY <1>1, CreateTradeFollows, AcceptTradeFollows DEF TradeRequest, TradeStep

\* Where nobody offers a shift beside an edit the invariant of the offers is
\* inductive.
LEMMA FollowInvInductive == FollowInv /\ OffersApart /\ [Next]_vars => FollowInv'
<1> SUFFICES ASSUME FollowInv, OffersApart, [Next]_vars PROVE FollowInv'
  OBVIOUS
<1>1. RecordInv' /\ TypeInv
  BY RecordInvInductive DEF FollowInv, RecordInv, AnswerInv, OfferInv
<1>2. ASSUME NEW self \in Session, ShiftRequest(self) \/ ShiftStep(self) PROVE FollowInv'
  BY <1>1, <1>2, ShiftsFollow
<1>3. ASSUME NEW self \in Session, TradeRequest(self) \/ TradeStep(self) PROVE FollowInv'
  BY <1>1, <1>3, TradesFollow
<1>4. ASSUME NEW self \in Session, StaffingRequest(self) \/ StaffingStep(self) PROVE FollowInv'
  BY <1>1, <1>4, StaffingFollows
<1>5. ASSUME NEW self \in Session, ClockRequest(self) \/ ClockStep(self) PROVE FollowInv'
  BY <1>1, <1>5, ClocksFootprint, LeavesAndClocksSpareShifts, FindsNothing, OthersFollow
  DEF ClocksOps
<1>6. ASSUME NEW self \in Session, LeaveRequest(self) \/ LeaveStep(self) PROVE FollowInv'
  BY <1>1, <1>6, LeavesFootprint, LeavesAndClocksSpareShifts, FindsNothing, OthersFollow
  DEF LeavesOps
<1>7. ASSUME NEW self \in Session, Crash(self) PROVE FollowInv'
  BY <1>1, <1>7, RollbackFollows DEF Crash
<1>8. CASE UNCHANGED <<shifts, trades, sess>>
  <2>1. OpenTradeFollowsShift' /\ \A t \in TradeId : OpenTrade(t)' => trades'[t].offeredBy # None
    BY <1>8 DEF FollowInv, OpenTradeFollowsShift, OpenTrade, LiveShift
  <2>2. ASSUME NEW p \in Session PROVE Owning(sess[p])' /\ Finding(sess[p])'
    <3>1. Owning(sess[p]) /\ Finding(sess[p])
      BY DEF FollowInv
    <3> QED BY <1>8, <3>1 DEF Owning, TakesOff, Finding, OpenOn, OpenTrade, LiveShift
  <2> QED BY <1>1, <2>1, <2>2 DEF FollowInv
<1> QED BY <1>2, <1>3, <1>4, <1>5, <1>6, <1>7, <1>8
        DEF Next, Request, Advance, ExpireLeaves, Tick, tables, vars

\* Nothing is offered at the start.
LEMMA InitFollowInv == Init => FollowInv
BY InitRecordInv, IdleOp
   DEF Init, StoreInit, FollowInv, OpenTradeFollowsShift, OpenTrade, UnusedTrade, Owning,
       TakesOff, Finding

\* Where nobody offers a shift while one is edited or deleted, an open offer is
\* about a shift that its owner still has: an edit closes every offer it takes the
\* shift away from, because it has found them all, and both kinds of acceptance
\* hold the record lock, which the one who offers does not.
THEOREM OffersFollowShifts == Spec /\ []OffersApart => []OpenTradeFollowsShift
<1>1. FollowInv => OpenTradeFollowsShift
  BY DEF FollowInv
<1> QED BY <1>1, InitFollowInv, FollowInvInductive, PTL DEF Spec

-----------------------------------------------------------------------------
\* What a request to clock in has seen of its shift, one to clock out of its entry.
Clocking(a) ==
  /\ a.op = "clockIn" =>
       /\ shifts[a.shift].state # "unused"
       /\ LiveShift(a.shift) => shifts[a.shift].user = a.user
  /\ a.op = "clockOut" => entries[a.item].status # "unused"

EntryInv ==
  /\ RecordInv
  /\ OpsServed
  /\ EntryOnOwnShift
  /\ \A e \in EntryId : entries[e].status # "unused" => entries[e].user # None
  /\ \A p \in Session : Clocking(sess[p])

\* A shift that is there keeps its assignee if it has one, as long as it lives,
\* and is not deleted under its entries.
Settles(s) ==
  shifts[s].state # "unused" =>
    /\ shifts'[s].state # "unused"
    /\ shifts'[s].state = "live" =>
         /\ shifts[s].state = "live"
         /\ shifts[s].user # None => shifts'[s].user = shifts[s].user
    /\ shifts'[s].state # "live" =>
         shifts[s].state # "live" \/ \A e \in EntryId : entries'[e].shift # s

KeepsEntries ==
  \A e \in EntryId :
    /\ entries'[e].status # "unused" <=> entries[e].status # "unused"
    /\ entries'[e].user = entries[e].user
    /\ entries'[e].shift \in {None, entries[e].shift}

\* What a step that inserts no entry has to keep.
LEMMA EntryKeeps ==
  ASSUME EntryInv, RecordInv', OpsServed', NEW self \in Session, NEW ops, Footprint(self, ops),
         KeepsEntries, \A s \in ShiftId : Settles(s), Clocking(sess[self])'
  PROVE  EntryInv'
<1>1. ASSUME NEW e \in EntryId, entries'[e].status # "unused"
      PROVE  /\ entries'[e].user # None
             /\ entries'[e].shift # None =>
                  /\ LiveShift(entries[e].shift)'
                  /\ shifts'[entries'[e].shift].user = entries'[e].user
  <2> PICK s : s = entries[e].shift
    OBVIOUS
  <2>1. /\ entries[e].status # "unused" /\ entries'[e].user = entries[e].user
        /\ entries[e].user # None /\ entries'[e].shift \in {None, s}
    BY <1>1 DEF EntryInv, KeepsEntries
  <2>2. ASSUME entries'[e].shift # None
        PROVE  LiveShift(s)' /\ shifts'[s].user = entries'[e].user
    <3>1. entries'[e].shift = s /\ s # None
      BY <2>1, <2>2
    <3>2. LiveShift(s) /\ shifts[s].user = entries[e].user
      BY <2>1, <3>1 DEF EntryInv, EntryOnOwnShift
    <3> QED BY <2>1, <3>1, <3>2 DEF Settles, LiveShift
  <2> QED BY <2>1, <2>2
<1>2. ASSUME NEW p \in Session, p # self PROVE Clocking(sess[p])'
  <2> PICK a : a = sess[p]
    OBVIOUS
  <2>1. sess'[p] = a
    BY <1>2 DEF Footprint
  <2>2. /\ Clocking(a)
        /\ a.op = "clockIn" => a.shift \in ShiftId /\ a.user # None
        /\ a.op = "clockOut" => a.item \in EntryId
    BY <2>1, IdsAreNotNull
    DEF EntryInv, RecordInv, AnswerInv, OfferInv, TypeInv, SessionOK
  <2>3. a.op = "clockIn" =>
          /\ shifts'[a.shift].state # "unused"
          /\ LiveShift(a.shift)' => shifts'[a.shift].user = a.user
    BY <2>1, <2>2 DEF Clocking, Settles, LiveShift
  <2>4. a.op = "clockOut" => entries'[a.item].status # "unused"
    BY <2>2 DEF Clocking, KeepsEntries
  <2> QED BY <2>1, <2>3, <2>4 DEF Clocking, LiveShift
<1> QED BY <1>1, <1>2 DEF EntryInv, EntryOnOwnShift

\* A request that ends without taking a shift off its owner leaves the entries right.
LEMMA EndKeepsEntries ==
  ASSUME EntryInv, RecordInv', OpsServed', NEW self \in Session, Finish(self),
         KeepsEntries, \A s \in ShiftId : Settles(s)
  PROVE  EntryInv'
<1>1. Footprint(self, {})
  BY FinishFoot DEF EntryInv, RecordInv, AnswerInv, OfferInv
<1>2. Clocking(sess[self])'
  BY <1>1 DEF Footprint, Clocking
<1> QED BY <1>1, <1>2, EntryKeeps

\* A step that writes no shift takes none off its owner.
LEMMA SameSettles == UNCHANGED shifts => \A s \in ShiftId : Settles(s)
BY DEF Settles

\* A step that writes no entry keeps them all.
LEMMA SameEntries == UNCHANGED entries => KeepsEntries
BY DEF KeepsEntries

\* A refused request leaves the entries right.
LEMMA RollbackEntries ==
  ASSUME EntryInv, RecordInv', OpsServed', NEW self \in Session, Rollback(self)
  PROVE  EntryInv'
BY SameSettles, SameEntries, EndKeepsEntries DEF Rollback, tables

\* Handlers that write neither shifts nor entries.
LEMMA OthersClock ==
  ASSUME EntryInv, RecordInv', OpsServed', NEW self \in Session, NEW ops, Footprint(self, ops),
         UNCHANGED <<shifts, entries>>, ops \cap ClocksOps = {}
  PROVE  EntryInv'
<1>1. Clocking(sess[self])'
  BY DEF Footprint, Clocking, ClocksOps
<1> QED BY <1>1, SameSettles, SameEntries, EntryKeeps

\* A new row takes no shift off anybody.
LEMMA InsertSettles ==
  ASSUME TypeInv, NEW r \in ShiftId, NEW u, NEW c, NEW i, InsertShift(r, u, c, i)
  PROVE  \A s \in ShiftId : Settles(s)
<1>1. shifts \in [ShiftId -> ShiftRow] /\ shifts[r].state = "unused"
  BY DEF TypeInv, TypeOK, StoreTypeOK, InsertShift, First, UnusedShiftIds
<1>2. \A s \in ShiftId \ {r} : shifts'[s] = shifts[s]
  BY <1>1 DEF InsertShift
<1> QED BY <1>1, <1>2 DEF Settles

\* Creating and deleting shifts leaves the entries right.
LEMMA ShiftsClock ==
  ASSUME EntryInv, RecordInv', OpsServed', NEW self \in Session, "updateShift" \notin Ops,
         ShiftRequest(self) \/ ShiftStep(self)
  PROVE  EntryInv'
<1>a. /\ TypeInv /\ Footprint(self, ShiftsOps)
      /\ shifts \in [ShiftId -> ShiftRow] /\ entries \in [EntryId -> EntryRow]
  BY ShiftsFootprint DEF EntryInv, RecordInv, AnswerInv, OfferInv, TypeInv, TypeOK, StoreTypeOK
<1>b. sess[self].op # "updateShift"
  BY DEF EntryInv, OpsServed
<1>1. CASE CreateShiftCommit(self)
  <2>1. CASE Rollback(self)
    BY <2>1, RollbackEntries
  <2>2. CASE ~Rollback(self)
    BY <1>1, <1>a, <2>2, InsertSettles, SameEntries, EndKeepsEntries DEF CreateShiftCommit
  <2> QED BY <2>1, <2>2
<1>2. CASE DeleteShiftCommit(self)
  <2>1. CASE Rollback(self)
    BY <2>1, RollbackEntries
  <2>2. CASE ~Rollback(self)
    <3> PICK s : s = sess[self].shift
      OBVIOUS
    <3>1. /\ s \in ShiftId /\ Finish(self)
          /\ shifts' = [shifts EXCEPT ![s] = [UnusedShift EXCEPT !.state = "deleted"]]
          /\ entries' = [e \in EntryId |->
               IF entries[e].shift = s
               THEN [entries[e] EXCEPT !.shift = None] ELSE entries[e]]
      BY <1>2, <2>2 DEF DeleteShiftCommit, LiveShift
    <3>2. ASSUME NEW e \in EntryId
          PROVE  /\ entries'[e].status = entries[e].status /\ entries'[e].user = entries[e].user
                 /\ entries'[e].shift \in {None, entries[e].shift} /\ entries'[e].shift # s
      <4>1. entries'[e] = IF entries[e].shift = s
                          THEN [entries[e] EXCEPT !.shift = None] ELSE entries[e]
        BY <3>1
      <4> QED BY <1>a, <3>1, <4>1, IdsAreNotNull DEF EntryRow
    <3>3. KeepsEntries
      BY <3>2 DEF KeepsEntries
    <3>4. \A r \in ShiftId : Settles(r)
      <4>1. shifts'[s].state = "deleted" /\ \A r \in ShiftId \ {s} : shifts'[r] = shifts[r]
        BY <1>a, <3>1 DEF UnusedShift
      <4> QED BY <3>2, <4>1 DEF Settles
    <3> QED BY <3>1, <3>3, <3>4, EndKeepsEntries
  <2> QED BY <2>1, <2>2
<1>3. CASE ~CreateShiftCommit(self) /\ ~DeleteShiftCommit(self)
  <2>1. UNCHANGED <<shifts, entries>>
    BY <1>3, <1>b
    DEF ShiftRequest, ShiftStep, CreateShiftBegin, UpdateShiftBegin, DeleteShiftBegin,
        CreateShiftCheck, UpdateShiftRead, UpdateShiftLockUser, UpdateShiftCheck,
        UpdateShiftFind, UpdateShiftCommit, DeleteShiftCheck, DeleteShiftFind, Find, Check,
        Rollback, At, tables
  <2> QED BY <1>a, <2>1, OthersClock DEF ShiftsOps, ClocksOps
<1> QED BY <1>1, <1>2, <1>3

\* Staffing requests fill shifts that nobody has.
LEMMA StaffingClocks ==
  ASSUME EntryInv, RecordInv', OpsServed', NEW self \in Session,
         StaffingRequest(self) \/ StaffingStep(self)
  PROVE  EntryInv'
<1>a. /\ TypeInv /\ Footprint(self, StaffingOps)
      /\ shifts \in [ShiftId -> ShiftRow]
  BY StaffingFootprint DEF EntryInv, RecordInv, AnswerInv, OfferInv, TypeInv, TypeOK, StoreTypeOK
<1>b. UNCHANGED entries
  BY DEF StaffingRequest, StaffingStep, CreateRequestForShift, CreateRequestForPeriod,
        AcceptRequestBegin, RejectRequestBegin, CancelRequestBegin, CreateRequestInsertShift,
        CreateRequestCommit, AcceptRequestLock, AcceptRequestCheck, AcceptRequestFind, Find,
        AcceptRequestCommit, RejectBroadcastCheck, RejectBroadcastCommit, RejectTargetedCommit,
        CancelRequestCommit, CloseRequest, Check, Rollback, tables
<1>c. Clocking(sess[self])'
  BY <1>a DEF Footprint, StaffingOps, Clocking
<1>1. CASE CreateRequestInsertShift(self)
  <2>1. CASE Rollback(self)
    BY <2>1, RollbackEntries
  <2>2. CASE ~Rollback(self)
    BY <1>1, <1>a, <1>b, <1>c, <2>2, InsertSettles, SameEntries, EntryKeeps
    DEF CreateRequestInsertShift
  <2> QED BY <2>1, <2>2
<1>2. CASE AcceptRequestCommit(self)
  <2>1. CASE Rollback(self)
    BY <2>1, RollbackEntries
  <2>2. CASE ~Rollback(self)
    <3> PICK s : s = sess[self].shift
      OBVIOUS
    <3>1. /\ Finish(self) /\ LiveShift(s) /\ shifts[s].user = None
          /\ shifts' = [shifts EXCEPT ![s].user = sess[self].user]
      BY <1>2, <2>2 DEF AcceptRequestCommit
    <3>2. /\ \A r \in ShiftId \ {s} : shifts'[r] = shifts[r]
          /\ shifts'[s].state = "live"
      BY <1>a, <3>1 DEF LiveShift, ShiftRow
    <3>3. \A r \in ShiftId : Settles(r)
      BY <3>1, <3>2 DEF Settles, LiveShift
    <3> QED BY <1>b, <3>1, <3>3, SameEntries, EndKeepsEntries
  <2> QED BY <2>1, <2>2
<1>3. CASE ~CreateRequestInsertShift(self) /\ ~AcceptRequestCommit(self)
  <2>1. UNCHANGED shifts
    BY <1>3
    DEF StaffingRequest, StaffingStep, CreateRequestForShift, CreateRequestForPeriod,
        AcceptRequestBegin, RejectRequestBegin, CancelRequestBegin, CreateRequestCommit,
        AcceptRequestLock, AcceptRequestCheck, AcceptRequestFind, Find, RejectBroadcastCheck,
        RejectBroadcastCommit, RejectTargetedCommit, CancelRequestCommit, CloseRequest, Check,
        Rollback, tables
  <2> QED BY <1>a, <1>b, <2>1, OthersClock DEF StaffingOps, ClocksOps
<1> QED BY <1>1, <1>2, <1>3

\* Without acceptances no trade moves a shift.
LEMMA TradesClock ==
  ASSUME EntryInv, RecordInv', OpsServed', NEW self \in Session, "acceptTrade" \notin Ops,
         TradeRequest(self) \/ TradeStep(self)
  PROVE  EntryInv'
<1>1. TypeInv /\ sess[self].op # "acceptTrade"
  BY DEF EntryInv, OpsServed, RecordInv, AnswerInv, OfferInv
<1>2. UNCHANGED <<shifts, entries>>
  BY <1>1
  DEF TradeRequest, TradeStep, CreateTradeBegin, AcceptTradeBegin, RejectTradeBegin,
      CancelTradeBegin, CreateTradeCheck, CreateTradeCommit, AcceptTradeLock,
      AcceptTradeCheck, AcceptTradeCommit, RejectPoolTradeLock, RejectPoolTradeCheck,
      RejectPoolTradeCommit, RejectDirectTradeCommit, CancelTradeCommit, CloseTrade,
      Check, Rollback, At, tables
<1>3. Footprint(self, TradesOps)
  BY <1>1, TradesFootprint
<1> QED BY <1>2, <1>3, OthersClock DEF TradesOps, OffersOps, AnswersOps, ClocksOps

\* Clocking in adds an entry of the owner of the shift.
LEMMA ClocksClock ==
  ASSUME EntryInv, RecordInv', OpsServed', NEW self \in Session,
         ClockRequest(self) \/ ClockStep(self)
  PROVE  EntryInv'
<1> PICK a : a = sess[self]
  OBVIOUS
<1>a. /\ TypeInv /\ Footprint(self, ClocksOps) /\ a \in SessionState
      /\ sess \in [Session -> SessionState] /\ entries \in [EntryId -> EntryRow]
  BY ClocksFootprint DEF EntryInv, RecordInv, AnswerInv, OfferInv, TypeInv, TypeOK, StoreTypeOK
<1>b. UNCHANGED shifts
  BY LeavesAndClocksSpareShifts
<1>c. Clocking(a)
  BY DEF EntryInv
<1>0. CASE Rollback(self)
  BY <1>0, RollbackEntries
<1>1. ASSUME NEW u \in User, NEW s \in ShiftId, ClockInBegin(self, u, s)
      PROVE  EntryInv'
  <2>1. /\ UNCHANGED entries /\ LiveShift(s) /\ shifts[s].user = u
        /\ sess'[self].shift = s /\ sess'[self].user = u /\ sess'[self].op = "clockIn"
    BY <1>a, <1>1 DEF ClockInBegin, Begin, Idle, tables
  <2>2. Clocking(sess[self])'
    BY <1>b, <2>1 DEF Clocking, LiveShift
  <2> QED BY <1>a, <1>b, <2>1, <2>2, SameSettles, SameEntries, EntryKeeps
<1>2. ASSUME ClockInLock(self) \/ ClockInCheck(self), ~Rollback(self) PROVE EntryInv'
  <2>1. UNCHANGED entries /\ a.op = "clockIn" /\ \E step : Goto(self, step)
    BY <1>2 DEF ClockInLock, ClockInCheck, Check, At, tables
  <2>2. /\ sess'[self].shift = a.shift /\ sess'[self].user = a.user /\ sess'[self].op = a.op
    BY <1>a, <2>1 DEF Goto, SessionState
  <2>3. Clocking(sess[self])'
    BY <1>b, <1>c, <2>1, <2>2 DEF Clocking, LiveShift
  <2> QED BY <1>a, <1>b, <2>1, <2>3, SameSettles, SameEntries, EntryKeeps
<1>3. ASSUME ClockInCommit(self), ~Rollback(self) PROVE EntryInv'
  <2> DEFINE row == [status |-> "open", user |-> a.user, shift |-> a.shift]
  <2>1. /\ a.op = "clockIn" /\ LiveShift(a.shift) /\ Finish(self)
    BY <1>3 DEF ClockInCommit, At
  <2>2. PICK e \in EntryId :
          entries' = [entries EXCEPT ![e] = row]
    BY <1>3 DEF ClockInCommit
  <2>3. row.shift = a.shift /\ row.user = a.user /\ row.status = "open"
    OBVIOUS
  <2> HIDE DEF row
  <2>4. entries'[e] = row /\ \A f \in EntryId \ {e} : entries'[f] = entries[f]
    BY <1>a, <2>2
  <2>5. a.user # None /\ shifts[a.shift].user = a.user
    BY <1>a, <1>c, <2>1, IdsAreNotNull DEF Clocking, TypeInv, SessionOK
  <2>6. ASSUME NEW f \in EntryId, entries'[f].status # "unused"
        PROVE  /\ entries'[f].user # None
               /\ entries'[f].shift # None =>
                    /\ LiveShift(entries'[f].shift)
                    /\ shifts[entries'[f].shift].user = entries'[f].user
    <3>1. CASE f = e
      BY <2>1, <2>3, <2>4, <2>5, <3>1
    <3>2. CASE f # e
      BY <2>4, <2>6, <3>2 DEF EntryInv, EntryOnOwnShift
    <3> QED BY <3>1, <3>2
  <2>7. ASSUME NEW p \in Session PROVE Clocking(sess[p])'
    <3>1. sess'[p] = sess[p] \/ sess'[p].op = "none"
      BY <1>a, <2>1, IdleOp DEF Finish
    <3>2. Clocking(sess[p]) /\ (sess[p].op = "clockOut" => sess[p].item \in EntryId)
      BY <1>a DEF EntryInv, TypeInv, SessionOK
    <3> QED BY <1>b, <2>3, <2>4, <3>1, <3>2 DEF Clocking, LiveShift
  <2> QED BY <1>b, <2>6, <2>7 DEF EntryInv, EntryOnOwnShift, LiveShift
<1>4. ASSUME NEW e \in EntryId, ClockOutBegin(self, e)
      PROVE  EntryInv'
  <2>1. /\ UNCHANGED entries /\ sess'[self].op = "clockOut" /\ sess'[self].item = e
        /\ entries[e].status # "unused"
    BY <1>a, <1>4 DEF ClockOutBegin, Begin, Idle, tables
  <2>2. Clocking(sess[self])'
    BY <2>1 DEF Clocking
  <2> QED BY <1>a, <1>b, <2>1, <2>2, SameSettles, SameEntries, EntryKeeps
<1>5. CASE ClockOutCommit(self)
  <2> PICK e : e = a.item
    OBVIOUS
  <2>1. Finish(self) /\ entries' = [entries EXCEPT ![e].status = "done"]
    BY <1>5 DEF ClockOutCommit
  <2>2. e \in EntryId /\ entries[e].status # "unused"
    BY <1>a, <1>c, <1>5 DEF ClockOutCommit, At, Clocking, TypeInv, SessionOK
  <2>3. KeepsEntries
    BY <1>a, <2>1, <2>2 DEF KeepsEntries, EntryRow
  <2> QED BY <1>b, <2>1, <2>3, SameSettles, EndKeepsEntries
<1> QED BY <1>0, <1>1, <1>2, <1>3, <1>4, <1>5 DEF ClockRequest, ClockStep

\* Without updates and acceptances of trades the invariant of the entries is inductive.
LEMMA EntryInvInductive ==
  ASSUME "updateShift" \notin Ops, "acceptTrade" \notin Ops
  PROVE  EntryInv /\ [Next]_vars => EntryInv'
<1> SUFFICES ASSUME EntryInv, [Next]_vars PROVE EntryInv'
  OBVIOUS
<1>1. RecordInv' /\ TypeInv /\ OpsServed'
  BY RecordInvInductive, OpsStayServed DEF EntryInv, RecordInv, AnswerInv, OfferInv
<1>2. ASSUME NEW self \in Session, ShiftRequest(self) \/ ShiftStep(self) PROVE EntryInv'
  BY <1>1, <1>2, ShiftsClock
<1>3. ASSUME NEW self \in Session, TradeRequest(self) \/ TradeStep(self) PROVE EntryInv'
  BY <1>1, <1>3, TradesClock
<1>4. ASSUME NEW self \in Session, StaffingRequest(self) \/ StaffingStep(self) PROVE EntryInv'
  BY <1>1, <1>4, StaffingClocks
<1>5. ASSUME NEW self \in Session, ClockRequest(self) \/ ClockStep(self) PROVE EntryInv'
  BY <1>1, <1>5, ClocksClock
<1>6. ASSUME NEW self \in Session, LeaveRequest(self) \/ LeaveStep(self) PROVE EntryInv'
  <2>1. UNCHANGED entries
    BY <1>6
    DEF LeaveRequest, LeaveStep, CreateLeaveBegin, CreateLeaveCheck, CreateLeaveCommit,
        SetLeaveStatusBegin, SetLeaveStatusRead, SetLeaveStatusLockUser, SetLeaveStatusCheck,
        SetLeaveStatusCommit, Check, Rollback, tables
  <2> QED BY <1>1, <1>6, <2>1, LeavesFootprint, LeavesAndClocksSpareShifts, OthersClock
          DEF LeavesOps, ClocksOps
<1>7. ASSUME NEW self \in Session, Crash(self) PROVE EntryInv'
  BY <1>1, <1>7, RollbackEntries DEF Crash
<1>8. CASE UNCHANGED <<shifts, entries, sess>>
  BY <1>1, <1>8 DEF EntryInv, EntryOnOwnShift, Clocking, LiveShift
<1> QED BY <1>2, <1>3, <1>4, <1>5, <1>6, <1>7, <1>8
        DEF Next, Request, Advance, ExpireLeaves, Tick, tables, vars

\* Nobody is clocked in at the start.
LEMMA InitEntryInv == Init => EntryInv
BY InitRecordInv, IdleOp
   DEF Init, StoreInit, EntryInv, OpsServed, EntryOnOwnShift, UnusedEntry, Clocking

\* Updating a shift and accepting a trade are the only requests beside which a
\* time entry can end on somebody else's shift: a clock-in inserts its entry under
\* the lock of the payroll period, but a deletion frees the entry and an accepted
\* staffing request gives away only what nobody had.
THEOREM EntriesFollowShifts ==
  ASSUME "updateShift" \notin Ops, "acceptTrade" \notin Ops
  PROVE  Spec => []EntryOnOwnShift
<1>1. EntryInv => EntryOnOwnShift
  BY DEF EntryInv
<1>2. EntryInv /\ [Next]_vars => EntryInv'
  BY EntryInvInductive
<1> QED BY <1>1, <1>2, InitEntryInv, PTL DEF Spec

-----------------------------------------------------------------------------
(* NoShiftDuringApprovedLeave.  Who gives a shift looks for an approved         *)
(* absence before, and who approves one looks for shifts, under locks that do   *)
(* not exclude each other (56001 and 56002 against 54001 and 54002).  All other *)
(* interleavings are harmless.                                                  *)

\* A request that has checked and is about to give somebody a shift.
GivesTo(a, u) ==
  /\ a.op \in {"createShift", "updateShift", "acceptTrade", "acceptRequest"}
  /\ a.step \in {"find", "write"}
  /\ a.user = u

\* One that is about to approve an absence.
Approves(a) == a.op = "setLeaveStatus" /\ a.status = "APPROVED" /\ a.step = "write"

\* Nobody is given a shift between the check and the write of the approval of
\* an absence of his, nor the other way around.
ApprovalsApart ==
  \A p, q \in Session : Approves(sess[q]) => ~GivesTo(sess[p], sess[q].oldUser)

\* What a request that gives a shift has made sure of.
Giving(a) ==
  /\ a.op \in {"createShift", "updateShift"} /\ a.step \in {"find", "write"}
       => ~ApprovedLeave(a.user, a.cinema, a.ivl)
  /\ a.op = "updateShift" /\ a.step # "read" => shifts[a.shift].cinema = a.cinema
  /\ a.op \in {"acceptTrade", "acceptRequest"} /\ a.step \in {"find", "write"} =>
       /\ LiveShift(a.shift)
       /\ ~ApprovedLeave(a.user, shifts[a.shift].cinema, shifts[a.shift].ivl)

\* What a decision about an absence has read of it, and an approval made sure of.
Deciding(a) ==
  a.op = "setLeaveStatus" =>
    /\ a.step # "read" =>
         LET row == leaves[a.item] IN
         /\ a.oldUser = row.user
         /\ a.cinema = row.cinema
         /\ a.oldIvl = row.ivl
    /\ Approves(a) => ~ShiftDuring(a.oldUser, a.cinema, a.oldIvl)

AwayInv ==
  /\ RecordInv
  /\ RequestInv
  /\ NoShiftDuringApprovedLeave
  /\ \A p \in Session : Giving(sess[p]) /\ Deciding(sess[p])

\* A step leaves an absence the employee, cinema and period it has.
KeepsAbsences ==
  \A l \in LeaveId : leaves[l].status # "unused" =>
    /\ leaves'[l].user = leaves[l].user
    /\ leaves'[l].cinema = leaves[l].cinema
    /\ leaves'[l].ivl = leaves[l].ivl

ApprovesNone == \A l \in LeaveId : leaves'[l].status = "APPROVED" => leaves'[l] = leaves[l]

\* A step gives one shift to nobody or to somebody who is not away.
Gives(self, s) ==
  /\ \A r \in ShiftId \ {s} : shifts'[r] = shifts[r]
  /\ \/ shifts[s].state = "unused"
     \/ Records(sess[self]) /\ sess[self].shift = s
  /\ shifts'[s].state = "live" =>
       \/ shifts'[s].user = None
       \/ /\ GivesTo(sess[self], shifts'[s].user)
          /\ ~ApprovedLeave(shifts'[s].user, shifts'[s].cinema, shifts'[s].ivl)

\* Nobody is not away.
LEMMA NobodyAway == TypeInv => \A c, i : ~ApprovedLeave(None, c, i)
BY IdsAreNotNull DEF TypeInv, RowsOK, ApprovedLeave

\* What others have made sure of stays true where no absence is approved and no
\* shift is written.
LEMMA AwayKeeps ==
  ASSUME AwayInv, RecordInv', RequestInv', NEW self \in Session, NEW ops, Footprint(self, ops),
         UNCHANGED shifts, KeepsAbsences, ApprovesNone,
         Giving(sess[self])', Deciding(sess[self])'
  PROVE  AwayInv'
<1>1. ASSUME NEW u, NEW c, NEW i, ~ApprovedLeave(u, c, i) PROVE ~ApprovedLeave(u, c, i)'
  BY <1>1 DEF ApprovesNone, ApprovedLeave
<1>2. NoShiftDuringApprovedLeave'
  <2> SUFFICES ASSUME NEW s \in ShiftId, LiveShift(s)'
               PROVE  ~ApprovedLeave(shifts[s].user, shifts[s].cinema, shifts[s].ivl)'
    BY DEF NoShiftDuringApprovedLeave
  <2> PICK row : row = shifts[s]
    OBVIOUS
  <2>1. ~ApprovedLeave(row.user, row.cinema, row.ivl)
    BY DEF AwayInv, NoShiftDuringApprovedLeave, LiveShift
  <2>2. ~ApprovedLeave(row.user, row.cinema, row.ivl)'
    BY <2>1, <1>1
  <2>3. shifts'[s] = row
    OBVIOUS
  <2> QED BY <2>2, <2>3 DEF ApprovedLeave
<1>3. ASSUME NEW p \in Session, p # self PROVE (Giving(sess[p]) /\ Deciding(sess[p]))'
  <2> PICK a : a = sess[p]
    OBVIOUS
  <2> PICK row : row = shifts[a.shift]
    OBVIOUS
  <2>1. sess'[p] = a /\ Giving(a) /\ Deciding(a) /\ shifts'[a.shift] = row
    BY <1>3 DEF Footprint, AwayInv
  <2>2. ~ApprovedLeave(a.user, a.cinema, a.ivl) => ~ApprovedLeave(a.user, a.cinema, a.ivl)'
    BY <1>1
  <2>3. ~ApprovedLeave(a.user, row.cinema, row.ivl)
          => ~ApprovedLeave(a.user, row.cinema, row.ivl)'
    BY <1>1
  <2>4. Giving(a)'
    <3>1. ApprovedLeave(a.user, shifts[a.shift].cinema, shifts[a.shift].ivl)'
            => ApprovedLeave(a.user, row.cinema, row.ivl)'
      BY <2>1 DEF ApprovedLeave
    <3> QED BY <2>1, <2>2, <2>3, <3>1 DEF Giving, LiveShift
  <2>5. a.op = "setLeaveStatus" => a.item \in LeaveId /\ leaves[a.item].status # "unused"
    BY DEF AwayInv, RecordInv, AnswerInv, OfferInv, TypeInv, RowsOK, SessionOK
  <2>6. Deciding(a)'
    BY <2>1, <2>5 DEF Deciding, KeepsAbsences, ShiftDuring, LiveShift
  <2>7. Giving(sess[p])'
    BY <2>1, <2>4 DEF Giving, LiveShift, ApprovedLeave
  <2>8. Deciding(sess[p])'
    BY <2>1, <2>6 DEF Deciding, Approves, ShiftDuring, LiveShift
  <2> QED BY <2>7, <2>8
<1> QED BY <1>2, <1>3 DEF AwayInv

\* A step that writes no absence.
LEMMA SameAbsences == UNCHANGED leaves => KeepsAbsences /\ ApprovesNone
BY DEF KeepsAbsences, ApprovesNone

\* A request with nothing to give and nothing to decide.
LEMMA NobodyGives ==
  ASSUME AwayInv, RecordInv', RequestInv', NEW self \in Session, NEW ops, Footprint(self, ops),
         UNCHANGED <<shifts, leaves>>,
         ops \cap {"createShift", "updateShift", "acceptTrade", "acceptRequest",
                   "setLeaveStatus"} = {}
  PROVE  AwayInv'
<1>1. Giving(sess[self])' /\ Deciding(sess[self])'
  BY DEF Footprint, Giving, Deciding
<1> QED BY <1>1, SameAbsences, AwayKeeps

\* Giving a shift to somebody nobody is approving an absence of.
LEMMA GiftKeeps ==
  ASSUME AwayInv, RecordInv', RequestInv', ApprovalsApart,
         NEW self \in Session, NEW ops, Footprint(self, ops), NEW s \in ShiftId, Gives(self, s),
         UNCHANGED leaves, Giving(sess[self])', Deciding(sess[self])'
  PROVE  AwayInv'
<1>0. TypeInv /\ LocksExclusive /\ RecordInv
  BY DEF AwayInv, RecordInv, AnswerInv, OfferInv
<1>1. NoShiftDuringApprovedLeave'
  <2> SUFFICES ASSUME NEW r \in ShiftId, LiveShift(r)'
               PROVE  ~ApprovedLeave(shifts[r].user, shifts[r].cinema, shifts[r].ivl)'
    BY DEF NoShiftDuringApprovedLeave
  <2> PICK row : row = shifts'[r]
    OBVIOUS
  <2>1. ~ApprovedLeave(row.user, row.cinema, row.ivl)
    <3>1. CASE r = s
      BY <1>0, <3>1, NobodyAway DEF Gives, LiveShift
    <3>2. CASE r # s
      BY <3>2 DEF Gives, LiveShift, AwayInv, NoShiftDuringApprovedLeave
    <3> QED BY <3>1, <3>2
  <2> QED BY <2>1 DEF ApprovedLeave
<1>2. ASSUME NEW p \in Session, p # self PROVE (Giving(sess[p]) /\ Deciding(sess[p]))'
  <2> PICK a : a = sess[p]
    OBVIOUS
  <2>1. sess'[p] = a /\ Giving(a) /\ Deciding(a)
    BY <1>2 DEF Footprint, AwayInv
  <2>2. Giving(sess[p])'
    <3>1. Records(a) /\ Records(sess[self]) => a.shift # sess[self].shift
      BY <1>0, <1>2 DEF RecordInv, OnShift, LocksExclusive
    <3>2. ASSUME Records(a), LiveShift(a.shift) PROVE shifts'[a.shift] = shifts[a.shift]
      BY <3>1, <3>2 DEF Gives, LiveShift
    <3>3. a.op = "updateShift" /\ a.step # "read" => Records(a) /\ LiveShift(a.shift)
      BY <1>0 DEF RecordInv, Editing, Records
    <3>4. a.op \in {"acceptTrade", "acceptRequest"} /\ a.step \in {"find", "write"}
            => Records(a) /\ LiveShift(a.shift)
      BY <2>1 DEF Giving, Records
    <3> QED BY <2>1, <3>2, <3>3, <3>4 DEF Giving, LiveShift, ApprovedLeave
  <2>3. Deciding(sess[p])'
    <3>1. ASSUME Approves(a) PROVE ~ShiftDuring(a.oldUser, a.cinema, a.oldIvl)'
      <4>1. a.oldUser \in User /\ ~GivesTo(sess[self], a.oldUser)
        BY <1>0, <3>1 DEF TypeInv, SessionOK, Approves, ApprovalsApart
      <4>2. shifts'[s].state = "live" => shifts'[s].user # a.oldUser
        BY <4>1, IdsAreNotNull DEF Gives
      <4> QED BY <2>1, <3>1, <4>2 DEF Deciding, Approves, ShiftDuring, LiveShift, Gives
    <3> QED BY <2>1, <3>1 DEF Deciding, Approves, ShiftDuring, LiveShift
  <2> QED BY <2>2, <2>3
<1> QED BY <1>1, <1>2 DEF AwayInv

\* A request that ends by giving a shift.
LEMMA EndGives ==
  ASSUME AwayInv, RecordInv', RequestInv', ApprovalsApart, NEW self \in Session, Finish(self),
         (\E s \in ShiftId : Gives(self, s)) \/ UNCHANGED shifts, UNCHANGED leaves
  PROVE  AwayInv'
<1>1. Footprint(self, {})
  BY FinishFoot DEF AwayInv, RecordInv, AnswerInv, OfferInv
<1>2. Giving(sess[self])' /\ Deciding(sess[self])'
  BY <1>1 DEF Footprint, Giving, Deciding
<1>3. CASE UNCHANGED shifts
  BY <1>1, <1>2, <1>3, SameAbsences, AwayKeeps
<1> QED BY <1>1, <1>2, <1>3, GiftKeeps

\* A refused request gives nothing.
LEMMA RollbackGives ==
  ASSUME AwayInv, RecordInv', RequestInv', NEW self \in Session, Rollback(self)
  PROVE  AwayInv'
<1>1. Footprint(self, {}) /\ UNCHANGED tables
  BY RollbackFoot DEF AwayInv, RecordInv, AnswerInv, OfferInv
<1> QED BY <1>1, NobodyGives DEF tables

\* Creating a shift looks for approved absences of the assignee first.
LEMMA CreateShiftGives ==
  ASSUME AwayInv, RecordInv', RequestInv', ApprovalsApart, NEW self \in Session,
         \/ \E u \in MaybeUser, c \in Cinema, i \in Interval : CreateShiftBegin(self, u, c, i)
         \/ CreateShiftCheck(self) \/ CreateShiftCommit(self)
  PROVE  AwayInv'
<1> PICK a : a = sess[self]
  OBVIOUS
<1>a. /\ TypeInv /\ sess \in [Session -> SessionState] /\ shifts \in [ShiftId -> ShiftRow]
  BY DEF AwayInv, RecordInv, AnswerInv, OfferInv, TypeInv, TypeOK, StoreTypeOK
<1>b. Footprint(self, ShiftsOps) /\ UNCHANGED leaves
  BY <1>a, ShiftsFootprint DEF ShiftRequest, ShiftStep
<1>1. ASSUME NEW u \in MaybeUser, NEW c \in Cinema, NEW i \in Interval,
             CreateShiftBegin(self, u, c, i)
      PROVE  AwayInv'
  <2>1. UNCHANGED shifts /\ sess'[self].op = "createShift" /\ sess'[self].step = "check"
    BY <1>a, <1>1 DEF CreateShiftBegin, Begin, Idle, tables
  <2>2. Giving(sess[self])' /\ Deciding(sess[self])'
    BY <2>1 DEF Giving, Deciding
  <2> QED BY <1>b, <2>1, <2>2, SameAbsences, AwayKeeps
<1>2. CASE CreateShiftCheck(self)
  <2>1. CASE Rollback(self)
    BY <2>1, RollbackGives
  <2>2. CASE ~Rollback(self)
    <3>1. /\ a.op = "createShift" /\ Goto(self, "write") /\ UNCHANGED <<tables, now, held>>
          /\ a.user = None \/ ~Conflicts(a.user, a.cinema, a.ivl, None)
      BY <1>2, <2>2 DEF CreateShiftCheck, Check, At
    <3>2. /\ sess'[self].op = a.op /\ sess'[self].user = a.user /\ sess'[self].ivl = a.ivl
          /\ sess'[self].cinema = a.cinema
      BY <1>a, <3>1 DEF Goto, SessionState
    <3>3. ~ApprovedLeave(a.user, a.cinema, a.ivl)
      BY <1>a, <3>1, NobodyAway DEF Conflicts
    <3>4. UNCHANGED <<shifts, leaves>>
      BY <3>1 DEF tables
    <3>5. Giving(sess[self])' /\ Deciding(sess[self])'
      BY <3>1, <3>2, <3>3, <3>4 DEF Giving, Deciding, ApprovedLeave
    <3> QED BY <1>b, <3>4, <3>5, SameAbsences, AwayKeeps
  <2> QED BY <2>1, <2>2
<1>3. CASE CreateShiftCommit(self)
  <2>1. CASE Rollback(self)
    BY <2>1, RollbackGives
  <2>2. CASE ~Rollback(self)
    <3>1. PICK s \in ShiftId : InsertShift(s, a.user, a.cinema, a.ivl)
      BY <1>3, <2>2 DEF CreateShiftCommit
    <3>2. /\ a.op = "createShift" /\ a.step = "write" /\ Finish(self) /\ Giving(a)
      BY <1>3, <2>2 DEF CreateShiftCommit, At, AwayInv
    <3>3. /\ \A r \in ShiftId \ {s} : shifts'[r] = shifts[r]
          /\ shifts'[s] = [state |-> "live", user |-> a.user, cinema |-> a.cinema,
                           ivl |-> a.ivl]
          /\ shifts[s].state = "unused"
      BY <1>a, <3>1 DEF InsertShift, First, UnusedShiftIds
    <3>4. Gives(self, s)
      BY <3>2, <3>3 DEF Gives, GivesTo, Giving
    <3> QED BY <1>b, <3>2, <3>4, EndGives
  <2> QED BY <2>1, <2>2
<1> QED BY <1>1, <1>2, <1>3

\* Updating a shift looks for those of the assignee it is left with, in the
\* cinema it has had all along.
LEMMA UpdateShiftGives ==
  ASSUME AwayInv, RecordInv', RequestInv', ApprovalsApart, NEW self \in Session,
         \/ \E s \in ShiftId, u \in MaybeUser, i \in Interval : UpdateShiftBegin(self, s, u, i)
         \/ UpdateShiftRead(self)
         \/ \E u \in User : UpdateShiftLockUser(self, u)
         \/ UpdateShiftCheck(self) \/ UpdateShiftFind(self) \/ UpdateShiftCommit(self)
  PROVE  AwayInv'
<1> PICK a : a = sess[self]
  OBVIOUS
<1>a. /\ TypeInv /\ sess \in [Session -> SessionState] /\ shifts \in [ShiftId -> ShiftRow]
      /\ a \in SessionState
  BY DEF AwayInv, RecordInv, AnswerInv, OfferInv, TypeInv, TypeOK, StoreTypeOK
<1>b. Footprint(self, ShiftsOps) /\ UNCHANGED leaves
  BY <1>a, ShiftsFootprint DEF ShiftRequest, ShiftStep
<1>c. Giving(a)
  BY DEF AwayInv
<1>1. CASE \E s \in ShiftId, u \in MaybeUser, i \in Interval : UpdateShiftBegin(self, s, u, i)
  <2>0. PICK s \in ShiftId, u \in MaybeUser, i \in Interval : UpdateShiftBegin(self, s, u, i)
    BY <1>1
  <2>1. UNCHANGED shifts /\ sess'[self].op = "updateShift" /\ sess'[self].step = "read"
    BY <1>a, <2>0 DEF UpdateShiftBegin, Begin, Idle, tables
  <2>2. Giving(sess[self])' /\ Deciding(sess[self])'
    BY <2>1 DEF Giving, Deciding
  <2> QED BY <1>b, <2>1, <2>2, SameAbsences, AwayKeeps
<1>2. CASE UpdateShiftRead(self)
  <2>1. CASE Rollback(self)
    BY <2>1, RollbackGives
  <2>2. CASE ~Rollback(self)
    <3>1. /\ UNCHANGED shifts /\ sess'[self].op = "updateShift" /\ sess'[self].step = "users"
          /\ sess'[self].shift = a.shift /\ sess'[self].cinema = shifts[a.shift].cinema
      BY <1>a, <1>2, <2>2 DEF UpdateShiftRead, At, SessionState, tables
    <3>2. Giving(sess[self])' /\ Deciding(sess[self])'
      BY <3>1 DEF Giving, Deciding
    <3> QED BY <1>b, <3>1, <3>2, SameAbsences, AwayKeeps
  <2> QED BY <2>1, <2>2
<1>3. CASE \E u \in User : UpdateShiftLockUser(self, u)
  <2>1. UNCHANGED <<shifts, sess>> /\ a.op = "updateShift" /\ a.step = "users"
    BY <1>3 DEF UpdateShiftLockUser, At, tables
  <2>2. Giving(sess[self])' /\ Deciding(sess[self])'
    BY <1>c, <2>1 DEF Giving, Deciding
  <2> QED BY <1>b, <2>1, <2>2, SameAbsences, AwayKeeps
<1>4. CASE UpdateShiftCheck(self)
  <2>1. CASE Rollback(self)
    BY <2>1, RollbackGives
  <2>2. CASE ~Rollback(self)
    <3>1. /\ a.op = "updateShift" /\ a.step = "users" /\ Goto(self, "find")
          /\ UNCHANGED <<tables, now, held>>
          /\ a.user = None \/ ~Conflicts(a.user, a.cinema, a.ivl, a.shift)
      BY <1>4, <2>2 DEF UpdateShiftCheck, Check, At
    <3>2. /\ sess'[self].op = a.op /\ sess'[self].user = a.user /\ sess'[self].ivl = a.ivl
          /\ sess'[self].cinema = a.cinema /\ sess'[self].shift = a.shift
      BY <1>a, <3>1 DEF Goto, SessionState
    <3>3. ~ApprovedLeave(a.user, a.cinema, a.ivl) /\ shifts[a.shift].cinema = a.cinema
      BY <1>a, <1>c, <3>1, NobodyAway DEF Conflicts, Giving
    <3>4. UNCHANGED <<shifts, leaves>>
      BY <3>1 DEF tables
    <3>5. Giving(sess[self])' /\ Deciding(sess[self])'
      BY <3>1, <3>2, <3>3, <3>4 DEF Giving, Deciding, ApprovedLeave
    <3> QED BY <1>b, <3>4, <3>5, SameAbsences, AwayKeeps
  <2> QED BY <2>1, <2>2
<1>5. CASE UpdateShiftCommit(self)
  <2>1. CASE Rollback(self)
    BY <2>1, RollbackGives
  <2>2. CASE ~Rollback(self)
    <3>1. /\ a.op = "updateShift" /\ a.step = "write" /\ a.shift \in ShiftId
          /\ Finish(self)
          /\ shifts' = [shifts EXCEPT ![a.shift].user = a.user, ![a.shift].ivl = a.ivl]
      BY <1>5, <2>2 DEF UpdateShiftCommit, At, LiveShift
    <3>2. /\ \A r \in ShiftId \ {a.shift} : shifts'[r] = shifts[r]
          /\ shifts'[a.shift].user = a.user /\ shifts'[a.shift].ivl = a.ivl
          /\ shifts'[a.shift].cinema = shifts[a.shift].cinema
      BY <1>a, <3>1 DEF ShiftRow
    <3>3. ~ApprovedLeave(a.user, a.cinema, a.ivl) /\ shifts[a.shift].cinema = a.cinema
      BY <1>c, <3>1 DEF Giving
    <3>4. Gives(self, a.shift)
      BY <3>1, <3>2, <3>3 DEF Gives, GivesTo, Records
    <3> QED BY <1>b, <3>1, <3>4, EndGives
  <2> QED BY <2>1, <2>2
<1>6. CASE UpdateShiftFind(self)
  <2>1. /\ a.op = "updateShift" /\ a.step = "find"
        /\ sess'[self].op = a.op /\ sess'[self].step = "write" /\ sess'[self].user = a.user
        /\ sess'[self].cinema = a.cinema /\ sess'[self].ivl = a.ivl
        /\ sess'[self].shift = a.shift /\ UNCHANGED <<shifts, leaves>>
    BY <1>a, <1>6, FindKeepsOp DEF UpdateShiftFind, At, tables
  <2>2. Giving(sess[self])' /\ Deciding(sess[self])'
    BY <1>c, <2>1 DEF Giving, Deciding, ApprovedLeave
  <2> QED BY <1>b, <2>1, <2>2, SameAbsences, AwayKeeps
<1> QED BY <1>1, <1>2, <1>3, <1>4, <1>5, <1>6

\* Deleting a shift gives it to nobody.
LEMMA DeleteShiftGives ==
  ASSUME AwayInv, RecordInv', RequestInv', ApprovalsApart, NEW self \in Session,
         \/ \E s \in ShiftId : DeleteShiftBegin(self, s)
         \/ DeleteShiftCheck(self) \/ DeleteShiftFind(self) \/ DeleteShiftCommit(self)
  PROVE  AwayInv'
<1>a. /\ TypeInv /\ sess \in [Session -> SessionState] /\ shifts \in [ShiftId -> ShiftRow]
  BY DEF AwayInv, RecordInv, AnswerInv, OfferInv, TypeInv, TypeOK, StoreTypeOK
<1>b. Footprint(self, ShiftsOps) /\ UNCHANGED leaves
  BY <1>a, ShiftsFootprint DEF ShiftRequest, ShiftStep
<1>1. CASE Rollback(self)
  BY <1>1, RollbackGives
<1>2. CASE DeleteShiftCommit(self) /\ ~Rollback(self)
  <2> PICK s : s = sess[self].shift
    OBVIOUS
  <2>1. /\ s \in ShiftId /\ Finish(self) /\ sess[self].op = "deleteShift"
        /\ shifts' = [shifts EXCEPT ![s] = [UnusedShift EXCEPT !.state = "deleted"]]
    BY <1>2 DEF DeleteShiftCommit, LiveShift, At
  <2>2. Gives(self, s)
    BY <1>a, <2>1 DEF Gives, UnusedShift, Records
  <2> QED BY <1>b, <2>1, <2>2, EndGives
<1>3. CASE ~DeleteShiftCommit(self) /\ ~Rollback(self)
  <2>1. UNCHANGED shifts /\ sess'[self].op = "deleteShift"
    <3>1. ASSUME NEW s \in ShiftId, DeleteShiftBegin(self, s)
          PROVE  UNCHANGED shifts /\ sess'[self].op = "deleteShift"
      BY <1>a, <3>1 DEF DeleteShiftBegin, Begin, Idle, tables
    <3>2. ASSUME DeleteShiftCheck(self)
          PROVE  UNCHANGED shifts /\ sess'[self].op = "deleteShift"
      BY <1>a, <1>3, <3>2 DEF DeleteShiftCheck, Check, Goto, At, SessionState, tables
    <3>3. ASSUME DeleteShiftFind(self)
          PROVE  UNCHANGED shifts /\ sess'[self].op = "deleteShift"
      BY <1>a, <3>3, FindKeepsOp DEF DeleteShiftFind, At, tables
    <3> QED BY <1>3, <3>1, <3>2, <3>3
  <2>2. Giving(sess[self])' /\ Deciding(sess[self])'
    BY <2>1 DEF Giving, Deciding
  <2> QED BY <1>b, <2>1, <2>2, SameAbsences, AwayKeeps
<1> QED BY <1>1, <1>2, <1>3

\* An acceptance writes the shift it has checked, under the record lock of it.
LEMMA AcceptTradeGives ==
  ASSUME AwayInv, RecordInv', RequestInv', ApprovalsApart, NEW self \in Session,
         \/ \E u \in User, t \in TradeId : AcceptTradeBegin(self, u, t)
         \/ AcceptTradeLock(self) \/ AcceptTradeCheck(self) \/ AcceptTradeCommit(self)
  PROVE  AwayInv'
<1> PICK a : a = sess[self]
  OBVIOUS
<1>a. /\ TypeInv /\ sess \in [Session -> SessionState] /\ shifts \in [ShiftId -> ShiftRow]
  BY DEF AwayInv, RecordInv, AnswerInv, OfferInv, TypeInv, TypeOK, StoreTypeOK
<1>b. Footprint(self, TradesOps) /\ UNCHANGED leaves
  BY <1>a, TradesFootprint DEF TradeRequest, TradeStep
<1>c. Giving(a)
  BY DEF AwayInv
<1>1. CASE Rollback(self)
  BY <1>1, RollbackGives
<1>2. ASSUME NEW u \in User, NEW t \in TradeId, AcceptTradeBegin(self, u, t)
      PROVE  AwayInv'
  <2>1. UNCHANGED shifts /\ sess'[self].op = "acceptTrade" /\ sess'[self].step = "lock"
    BY <1>a, <1>2 DEF AcceptTradeBegin, Begin, Idle, tables
  <2>2. Giving(sess[self])' /\ Deciding(sess[self])'
    BY <2>1 DEF Giving, Deciding
  <2> QED BY <1>b, <2>1, <2>2, SameAbsences, AwayKeeps
<1>3. CASE AcceptTradeLock(self)
  <2>1. UNCHANGED shifts /\ sess'[self].op = "acceptTrade" /\ sess'[self].step = "check"
    BY <1>a, <1>3 DEF AcceptTradeLock, Goto, At, SessionState, tables
  <2>2. Giving(sess[self])' /\ Deciding(sess[self])'
    BY <2>1 DEF Giving, Deciding
  <2> QED BY <1>b, <2>1, <2>2, SameAbsences, AwayKeeps
<1>4. CASE AcceptTradeCheck(self) /\ ~Rollback(self)
  <2> PICK s : s = trades[a.item].shift
    OBVIOUS
  <2>1. /\ a.op = "acceptTrade" /\ Goto(self, "write") /\ UNCHANGED <<tables, now, held>>
        /\ LiveShift(s) /\ ~ApprovedLeave(a.user, shifts[s].cinema, shifts[s].ivl)
    BY <1>4 DEF AcceptTradeCheck, Check, At
  <2>2. s = a.shift
    <3>1. KnowsTrade(a, trades[a.item], held[self])
      BY <2>1 DEF AwayInv, RecordInv, AnswerInv, Answering, AnswersOps
    <3> QED BY <2>1, <3>1, IdsAreNotNull DEF KnowsTrade, OnRecord, LiveShift
  <2>3. /\ sess'[self].op = a.op /\ sess'[self].user = a.user /\ sess'[self].shift = s
    BY <1>a, <2>1, <2>2 DEF Goto, SessionState
  <2>4. UNCHANGED <<shifts, leaves>>
    BY <2>1 DEF tables
  <2>5. Giving(sess[self])' /\ Deciding(sess[self])'
    BY <2>1, <2>3, <2>4 DEF Giving, Deciding, ApprovedLeave, LiveShift
  <2> QED BY <1>b, <2>4, <2>5, SameAbsences, AwayKeeps
<1>5. CASE AcceptTradeCommit(self) /\ ~Rollback(self)
  <2> PICK s : s = a.shift
    OBVIOUS
  <2>1. /\ a.op = "acceptTrade" /\ a.step = "write" /\ Finish(self) /\ s \in ShiftId
        /\ shifts' = [shifts EXCEPT ![s].user = a.user]
    BY <1>5 DEF AcceptTradeCommit, At, LiveShift
  <2>2. Gives(self, s)
    <3>1. /\ \A r \in ShiftId \ {s} : shifts'[r] = shifts[r]
          /\ shifts'[s].user = a.user /\ shifts'[s].cinema = shifts[s].cinema
          /\ shifts'[s].ivl = shifts[s].ivl
      BY <1>a, <2>1 DEF ShiftRow
    <3> QED BY <1>c, <2>1, <3>1 DEF Gives, GivesTo, Giving, Records
  <2> QED BY <1>b, <2>1, <2>2, EndGives
<1> QED BY <1>1, <1>2, <1>3, <1>4, <1>5

\* The other handlers of trades give no shift.
LEMMA TradesGive ==
  ASSUME AwayInv, RecordInv', RequestInv', ApprovalsApart, NEW self \in Session,
         TradeRequest(self) \/ TradeStep(self)
  PROVE  AwayInv'
<1>a. /\ TypeInv /\ sess \in [Session -> SessionState]
  BY DEF AwayInv, RecordInv, AnswerInv, OfferInv, TypeInv, TypeOK, StoreTypeOK
<1>b. Footprint(self, TradesOps) /\ UNCHANGED leaves
  BY <1>a, TradesFootprint
<1>1. ASSUME \/ \E u \in User, s \in ShiftId, target \in MaybeUser :
                  CreateTradeBegin(self, u, s, target)
             \/ \E t \in TradeId : CancelTradeBegin(self, t)
             \/ CreateTradeCheck(self) \/ CreateTradeCommit(self) \/ CancelTradeCommit(self)
      PROVE  AwayInv'
  <2>1. UNCHANGED shifts
    BY <1>1
    DEF CreateTradeBegin, CancelTradeBegin, CreateTradeCheck, CreateTradeCommit,
        CancelTradeCommit, CloseTrade, Check, Rollback, tables
  <2> QED BY <1>a, <1>b, <1>1, <2>1, OffersFootprint, NobodyGives DEF OffersOps
<1>2. ASSUME \/ \E u \in User, t \in TradeId : RejectTradeBegin(self, u, t)
             \/ RejectPoolTradeLock(self) \/ RejectPoolTradeCheck(self)
             \/ RejectPoolTradeCommit(self) \/ RejectDirectTradeCommit(self)
      PROVE  AwayInv'
  <2>1. UNCHANGED shifts
    BY <1>2
    DEF RejectTradeBegin, RejectPoolTradeLock, RejectPoolTradeCheck, RejectPoolTradeCommit,
        RejectDirectTradeCommit, CloseTrade, Check, Rollback, tables
  <2>2. sess'[self].op \in {"rejectTrade", "none"}
    <3>1. ASSUME NEW u \in User, NEW t \in TradeId, RejectTradeBegin(self, u, t)
          PROVE  sess'[self].op = "rejectTrade"
      <4> PICK step : step = IF Pool(t) THEN "lock" ELSE "write"
        OBVIOUS
      <4>1. Begin(self, [Idle EXCEPT !.op = "rejectTrade", !.step = step,
                           !.user = u, !.item = t, !.shift = trades[t].shift])
        BY <3>1 DEF RejectTradeBegin
      <4> QED BY <1>a, <4>1 DEF Begin, Idle
    <3>2. ASSUME NEW step, Goto(self, step), sess[self].op = "rejectTrade"
          PROVE  sess'[self].op = "rejectTrade"
      BY <1>a, <3>2 DEF Goto, SessionState
    <3>3. ASSUME Finish(self) PROVE sess'[self].op = "none"
      BY <1>a, <3>3, IdleOp DEF Finish
    <3> QED BY <1>2, <3>1, <3>2, <3>3
        DEF RejectPoolTradeLock, RejectPoolTradeCheck, RejectPoolTradeCommit,
            RejectDirectTradeCommit, CloseTrade, Check, Rollback, At
  <2>3. Footprint(self, {"rejectTrade"})
    BY <1>b, <2>2 DEF Footprint
  <2> QED BY <1>b, <2>1, <2>3, NobodyGives
<1> QED BY <1>1, <1>2, AcceptTradeGives DEF TradeRequest, TradeStep

\* So for staffing requests.
LEMMA AcceptRequestGives ==
  ASSUME AwayInv, RecordInv', RequestInv', ApprovalsApart, NEW self \in Session,
         \/ \E u \in User, r \in RequestId : AcceptRequestBegin(self, u, r)
         \/ AcceptRequestLock(self) \/ AcceptRequestCheck(self)
         \/ AcceptRequestFind(self) \/ AcceptRequestCommit(self)
  PROVE  AwayInv'
<1> PICK a : a = sess[self]
  OBVIOUS
<1>a. /\ TypeInv /\ sess \in [Session -> SessionState] /\ shifts \in [ShiftId -> ShiftRow]
  BY DEF AwayInv, RecordInv, AnswerInv, OfferInv, TypeInv, TypeOK, StoreTypeOK
<1>b. Footprint(self, StaffingOps) /\ UNCHANGED leaves
  BY <1>a, StaffingFootprint DEF StaffingRequest, StaffingStep
<1>c. Giving(a)
  BY DEF AwayInv
<1>1. CASE Rollback(self)
  BY <1>1, RollbackGives
<1>2. ASSUME NEW u \in User, NEW r \in RequestId, AcceptRequestBegin(self, u, r)
      PROVE  AwayInv'
  <2>1. UNCHANGED shifts /\ sess'[self].op = "acceptRequest" /\ sess'[self].step = "lock"
    BY <1>a, <1>2 DEF AcceptRequestBegin, Begin, Idle, tables
  <2>2. Giving(sess[self])' /\ Deciding(sess[self])'
    BY <2>1 DEF Giving, Deciding
  <2> QED BY <1>b, <2>1, <2>2, SameAbsences, AwayKeeps
<1>3. CASE AcceptRequestLock(self)
  <2>1. UNCHANGED shifts /\ sess'[self].op = "acceptRequest" /\ sess'[self].step = "check"
    BY <1>a, <1>3 DEF AcceptRequestLock, Goto, At, SessionState, tables
  <2>2. Giving(sess[self])' /\ Deciding(sess[self])'
    BY <2>1 DEF Giving, Deciding
  <2> QED BY <1>b, <2>1, <2>2, SameAbsences, AwayKeeps
<1>4. CASE AcceptRequestCheck(self) /\ ~Rollback(self)
  <2> PICK s : s = requests[a.item].shift
    OBVIOUS
  <2>1. /\ a.op = "acceptRequest" /\ Goto(self, "find") /\ UNCHANGED <<tables, now, held>>
        /\ LiveShift(s) /\ ~ApprovedLeave(a.user, shifts[s].cinema, shifts[s].ivl)
        /\ PendingRequest(a.item)
    BY <1>4 DEF AcceptRequestCheck, Check, At, Conflicts, Answerable
  <2>2. s = a.shift
    BY <2>1, IdsAreNotNull DEF AwayInv, RequestInv, Requesting, LiveShift
  <2>3. /\ sess'[self].op = a.op /\ sess'[self].user = a.user /\ sess'[self].shift = s
    BY <1>a, <2>1, <2>2 DEF Goto, SessionState
  <2>4. UNCHANGED <<shifts, leaves>>
    BY <2>1 DEF tables
  <2>5. Giving(sess[self])' /\ Deciding(sess[self])'
    BY <2>1, <2>3, <2>4 DEF Giving, Deciding, ApprovedLeave, LiveShift
  <2> QED BY <1>b, <2>4, <2>5, SameAbsences, AwayKeeps
<1>5. CASE AcceptRequestCommit(self) /\ ~Rollback(self)
  <2> PICK s : s = a.shift
    OBVIOUS
  <2>1. /\ a.op = "acceptRequest" /\ a.step = "write" /\ Finish(self) /\ s \in ShiftId
        /\ shifts' = [shifts EXCEPT ![s].user = a.user]
    BY <1>5 DEF AcceptRequestCommit, At, LiveShift
  <2>2. Gives(self, s)
    <3>1. /\ \A r \in ShiftId \ {s} : shifts'[r] = shifts[r]
          /\ shifts'[s].user = a.user /\ shifts'[s].cinema = shifts[s].cinema
          /\ shifts'[s].ivl = shifts[s].ivl
      BY <1>a, <2>1 DEF ShiftRow
    <3> QED BY <1>c, <2>1, <3>1 DEF Gives, GivesTo, Giving, Records
  <2> QED BY <1>b, <2>1, <2>2, EndGives
<1>6. CASE AcceptRequestFind(self)
  <2>1. /\ a.op = "acceptRequest" /\ a.step = "find"
        /\ sess'[self].op = a.op /\ sess'[self].step = "write" /\ sess'[self].user = a.user
        /\ sess'[self].shift = a.shift /\ UNCHANGED <<shifts, leaves>>
    BY <1>a, <1>6, FindKeepsOp DEF AcceptRequestFind, At, tables
  <2>2. Giving(sess[self])' /\ Deciding(sess[self])'
    BY <1>c, <2>1 DEF Giving, Deciding, ApprovedLeave, LiveShift
  <2> QED BY <1>b, <2>1, <2>2, SameAbsences, AwayKeeps
<1> QED BY <1>1, <1>2, <1>3, <1>4, <1>5, <1>6

\* The other handlers of staffing requests give no shift; one inserts a shift
\* without an assignee.
LEMMA StaffingGives ==
  ASSUME AwayInv, RecordInv', RequestInv', ApprovalsApart, NEW self \in Session,
         StaffingRequest(self) \/ StaffingStep(self)
  PROVE  AwayInv'
<1> PICK a : a = sess[self]
  OBVIOUS
<1>a. /\ TypeInv /\ sess \in [Session -> SessionState] /\ shifts \in [ShiftId -> ShiftRow]
  BY DEF AwayInv, RecordInv, AnswerInv, OfferInv, TypeInv, TypeOK, StoreTypeOK
<1>b. Footprint(self, StaffingOps) /\ UNCHANGED leaves
  BY <1>a, StaffingFootprint
<1>1. CASE CreateRequestInsertShift(self)
  <2>1. CASE Rollback(self)
    BY <2>1, RollbackGives
  <2>2. CASE ~Rollback(self)
    <3>1. PICK s \in ShiftId :
            /\ InsertShift(s, None, a.cinema, a.ivl)
            /\ sess' = [sess EXCEPT ![self].step = "write", ![self].shift = s]
      BY <1>1, <2>2 DEF CreateRequestInsertShift
    <3>2. sess'[self].op = "createRequest"
      BY <1>a, <1>1, <3>1 DEF CreateRequestInsertShift, At, SessionState
    <3>3. /\ \A r \in ShiftId \ {s} : shifts'[r] = shifts[r]
          /\ shifts'[s].user = None /\ shifts[s].state = "unused"
      BY <1>a, <3>1 DEF InsertShift, First, UnusedShiftIds
    <3>4. Gives(self, s)
      BY <3>3 DEF Gives
    <3>5. Giving(sess[self])' /\ Deciding(sess[self])'
      BY <3>2 DEF Giving, Deciding
    <3> QED BY <1>b, <3>4, <3>5, GiftKeeps
  <2> QED BY <2>1, <2>2
<1>2. ASSUME \/ \E s \in ShiftId, target \in MaybeUser : CreateRequestForShift(self, s, target)
             \/ \E c \in Cinema, i \in Interval, target \in MaybeUser :
                  CreateRequestForPeriod(self, c, i, target)
             \/ \E u \in User, r \in RequestId : RejectRequestBegin(self, u, r)
             \/ \E r \in RequestId : CancelRequestBegin(self, r)
             \/ CreateRequestCommit(self) \/ RejectBroadcastCheck(self)
             \/ RejectBroadcastCommit(self) \/ RejectTargetedCommit(self)
             \/ CancelRequestCommit(self)
      PROVE  AwayInv'
  <2>1. UNCHANGED shifts
    BY <1>2
    DEF CreateRequestForShift, CreateRequestForPeriod, RejectRequestBegin, CancelRequestBegin,
        CreateRequestCommit, RejectBroadcastCheck, RejectBroadcastCommit, RejectTargetedCommit,
        CancelRequestCommit, CloseRequest, Check, Rollback, tables
  <2>2. sess'[self].op \in {"createRequest", "rejectRequest", "cancelRequest", "none"}
    <3>1. ASSUME NEW u \in User, NEW r \in RequestId, RejectRequestBegin(self, u, r)
          PROVE  sess'[self].op = "rejectRequest"
      <4> PICK step : step = IF Broadcast(r) THEN "check" ELSE "write"
        OBVIOUS
      <4>1. Begin(self, [Idle EXCEPT !.op = "rejectRequest", !.step = step,
                           !.user = u, !.item = r])
        BY <3>1 DEF RejectRequestBegin
      <4> QED BY <1>a, <4>1 DEF Begin, Idle
    <3>2. ASSUME NEW s \in ShiftId, NEW target \in MaybeUser,
                 CreateRequestForShift(self, s, target)
          PROVE  sess'[self].op = "createRequest"
      BY <1>a, <3>2 DEF CreateRequestForShift, Begin, Idle
    <3>3. ASSUME NEW c \in Cinema, NEW i \in Interval, NEW target \in MaybeUser,
                 CreateRequestForPeriod(self, c, i, target)
          PROVE  sess'[self].op = "createRequest"
      BY <1>a, <3>3 DEF CreateRequestForPeriod, Begin, Idle
    <3>4. ASSUME NEW r \in RequestId, CancelRequestBegin(self, r)
          PROVE  sess'[self].op = "cancelRequest"
      BY <1>a, <3>4 DEF CancelRequestBegin, Begin, Idle
    <3>5. ASSUME Finish(self) PROVE sess'[self].op = "none"
      BY <1>a, <3>5, IdleOp DEF Finish
    <3>6. ASSUME RejectBroadcastCheck(self) PROVE sess'[self].op \in {"rejectRequest", "none"}
      BY <1>a, <3>5, <3>6 DEF RejectBroadcastCheck, Check, Goto, Rollback, At, SessionState
    <3> QED BY <1>2, <3>1, <3>2, <3>3, <3>4, <3>5, <3>6
        DEF CreateRequestCommit, RejectBroadcastCommit, RejectTargetedCommit,
            CancelRequestCommit, CloseRequest, Rollback
  <2>3. Footprint(self, {"createRequest", "rejectRequest", "cancelRequest"})
    BY <1>b, <2>2 DEF Footprint
  <2> QED BY <1>b, <2>1, <2>3, NobodyGives
<1> QED BY <1>1, <1>2, AcceptRequestGives DEF StaffingRequest, StaffingStep

\* An absence is filed for approval, not approved.
LEMMA CreateLeaveGives ==
  ASSUME AwayInv, RecordInv', RequestInv', NEW self \in Session,
         \/ \E u \in User, c \in Cinema, i \in Interval : CreateLeaveBegin(self, u, c, i)
         \/ CreateLeaveCheck(self) \/ CreateLeaveCommit(self)
  PROVE  AwayInv'
<1>a. /\ TypeInv /\ sess \in [Session -> SessionState] /\ leaves \in [LeaveId -> LeaveRow]
  BY DEF AwayInv, RecordInv, AnswerInv, OfferInv, TypeInv, TypeOK, StoreTypeOK
<1>b. Footprint(self, LeavesOps) /\ UNCHANGED shifts
  BY <1>a, LeavesFootprint, LeavesAndClocksSpareShifts DEF LeaveRequest, LeaveStep
<1>1. CASE Rollback(self)
  BY <1>1, RollbackGives
<1>2. CASE ~CreateLeaveCommit(self) /\ ~Rollback(self)
  <2>1. sess'[self].op = "createLeave" /\ UNCHANGED leaves
    <3>1. ASSUME NEW u \in User, NEW c \in Cinema, NEW i \in Interval,
                 CreateLeaveBegin(self, u, c, i)
          PROVE  sess'[self].op = "createLeave" /\ UNCHANGED leaves
      BY <1>a, <3>1 DEF CreateLeaveBegin, Begin, Idle, tables
    <3>2. ASSUME CreateLeaveCheck(self)
          PROVE  sess'[self].op = "createLeave" /\ UNCHANGED leaves
      BY <1>a, <1>2, <3>2 DEF CreateLeaveCheck, Check, Goto, At, SessionState, tables
    <3> QED BY <1>2, <3>1, <3>2
  <2>2. Giving(sess[self])' /\ Deciding(sess[self])'
    BY <2>1 DEF Giving, Deciding
  <2> QED BY <1>b, <2>1, <2>2, SameAbsences, AwayKeeps
<1>3. CASE CreateLeaveCommit(self) /\ ~Rollback(self)
  <2> PICK a : a = sess[self]
    OBVIOUS
  <2>1. PICK l \in LeaveId :
          /\ First(l, UnusedLeaveIds)
          /\ leaves' = [leaves EXCEPT ![l] =
               [status |-> "PENDING", user |-> a.user, cinema |-> a.cinema, ivl |-> a.ivl]]
    BY <1>3 DEF CreateLeaveCommit
  <2>2. leaves[l].status = "unused" /\ Finish(self)
    BY <1>3, <2>1 DEF CreateLeaveCommit, First, UnusedLeaveIds
  <2>3. KeepsAbsences /\ ApprovesNone
    BY <1>a, <2>1, <2>2 DEF KeepsAbsences, ApprovesNone
  <2>4. Giving(sess[self])' /\ Deciding(sess[self])'
    BY <1>a, <2>2, IdleOp DEF Finish, Giving, Deciding
  <2> QED BY <1>b, <2>3, <2>4, AwayKeeps
<1> QED BY <1>1, <1>2, <1>3

\* An absence is approved when nobody is giving its employee a shift.
LEMMA ApprovalKeeps ==
  ASSUME AwayInv, RecordInv', RequestInv', ApprovalsApart, NEW self \in Session,
         SetLeaveStatusCommit(self), ~Rollback(self), sess[self].status = "APPROVED"
  PROVE  AwayInv'
<1> PICK a, l : a = sess[self] /\ l = sess[self].item
  OBVIOUS
<1>a. /\ TypeInv /\ sess \in [Session -> SessionState] /\ leaves \in [LeaveId -> LeaveRow]
  BY DEF AwayInv, RecordInv, AnswerInv, OfferInv, TypeInv, TypeOK, StoreTypeOK
<1>1. /\ Approves(a) /\ Finish(self) /\ UNCHANGED shifts /\ l \in LeaveId
      /\ leaves' = [leaves EXCEPT ![l].status = "APPROVED"]
  BY <1>a DEF SetLeaveStatusCommit, At, Approves, TypeInv, SessionOK
<1>2. /\ \A k \in LeaveId \ {l} : leaves'[k] = leaves[k]
      /\ leaves'[l].user = leaves[l].user /\ leaves'[l].cinema = leaves[l].cinema
      /\ leaves'[l].ivl = leaves[l].ivl
  BY <1>a, <1>1 DEF LeaveRow
<1>3. /\ leaves[l].user = a.oldUser /\ leaves[l].cinema = a.cinema
      /\ leaves[l].ivl = a.oldIvl /\ ~ShiftDuring(a.oldUser, a.cinema, a.oldIvl)
  BY <1>1 DEF AwayInv, Deciding, Approves
<1>4. ASSUME NEW u, NEW c, NEW i, ~ApprovedLeave(u, c, i),
             u # a.oldUser \/ c # a.cinema \/ ~Overlap(a.oldIvl, i)
      PROVE  ~ApprovedLeave(u, c, i)'
  BY <1>2, <1>3, <1>4 DEF ApprovedLeave, Overlap
<1>5. NoShiftDuringApprovedLeave'
  <2> SUFFICES ASSUME NEW s \in ShiftId, LiveShift(s)'
               PROVE  ~ApprovedLeave(shifts[s].user, shifts[s].cinema, shifts[s].ivl)'
    BY DEF NoShiftDuringApprovedLeave
  <2> PICK row : row = shifts[s]
    OBVIOUS
  <2>1. ~ApprovedLeave(row.user, row.cinema, row.ivl)
    BY <1>1 DEF AwayInv, NoShiftDuringApprovedLeave, LiveShift
  <2>2. row.user # a.oldUser \/ row.cinema # a.cinema \/ ~Overlap(a.oldIvl, row.ivl)
    BY <1>1, <1>3 DEF ShiftDuring, LiveShift, Overlap
  <2>3. ~ApprovedLeave(row.user, row.cinema, row.ivl)'
    BY <1>4, <2>1, <2>2
  <2>4. shifts'[s] = row
    BY <1>1
  <2> QED BY <2>3, <2>4 DEF ApprovedLeave
<1>6. ASSUME NEW p \in Session PROVE (Giving(sess[p]) /\ Deciding(sess[p]))'
  <2>1. CASE p = self
    BY <1>a, <1>1, <2>1, IdleOp DEF Finish, Giving, Deciding
  <2>2. CASE p # self
    <3> PICK b, row : b = sess[p] /\ row = shifts[sess[p].shift]
      OBVIOUS
    <3>1. sess'[p] = b /\ Giving(b) /\ Deciding(b)
      BY <1>a, <1>1, <2>2 DEF Finish, AwayInv
    <3>2. shifts'[b.shift] = row
      BY <1>1
    <3>3. Giving(sess[p])'
      <4>1. GivesTo(b, b.user) => b.user # a.oldUser
        BY <1>1 DEF ApprovalsApart
      <4>2. b.op \in {"createShift", "updateShift"} /\ b.step \in {"find", "write"}
              => ~ApprovedLeave(b.user, b.cinema, b.ivl)'
        BY <1>4, <3>1, <4>1 DEF Giving, GivesTo
      <4>3. b.op \in {"acceptTrade", "acceptRequest"} /\ b.step \in {"find", "write"}
              => ~ApprovedLeave(b.user, row.cinema, row.ivl)'
        BY <1>4, <3>1, <4>1 DEF Giving, GivesTo
      <4> QED BY <1>1, <3>1, <3>2, <4>2, <4>3 DEF Giving, LiveShift, ApprovedLeave
    <3>4. Deciding(sess[p])'
      <4>1. b.op = "setLeaveStatus" => b.item \in LeaveId
        BY <1>a DEF TypeInv, SessionOK
      <4> QED BY <1>1, <1>2, <3>1, <4>1 DEF Deciding, Approves, ShiftDuring, LiveShift
    <3> QED BY <3>3, <3>4
  <2> QED BY <2>1, <2>2
<1> QED BY <1>5, <1>6 DEF AwayInv

\* A decision reads the absence and, before it approves, looks for shifts.
LEMMA SetLeaveStatusGives ==
  ASSUME AwayInv, RecordInv', RequestInv', ApprovalsApart, NEW self \in Session,
         \/ \E l \in LeaveId, status \in {"APPROVED", "REJECTED", "CANCELLED"} :
              SetLeaveStatusBegin(self, l, status)
         \/ SetLeaveStatusRead(self) \/ SetLeaveStatusLockUser(self)
         \/ SetLeaveStatusCheck(self) \/ SetLeaveStatusCommit(self)
  PROVE  AwayInv'
<1> PICK a : a = sess[self]
  OBVIOUS
<1>a. /\ TypeInv /\ sess \in [Session -> SessionState] /\ leaves \in [LeaveId -> LeaveRow]
  BY DEF AwayInv, RecordInv, AnswerInv, OfferInv, TypeInv, TypeOK, StoreTypeOK
<1>b. Footprint(self, LeavesOps) /\ UNCHANGED shifts
  BY <1>a, LeavesFootprint, LeavesAndClocksSpareShifts DEF LeaveRequest, LeaveStep
<1>c. Deciding(a)
  BY DEF AwayInv
<1>0. CASE Rollback(self)
  BY <1>0, RollbackGives
<1>1. ASSUME NEW l \in LeaveId, NEW status \in {"APPROVED", "REJECTED", "CANCELLED"},
             SetLeaveStatusBegin(self, l, status)
      PROVE  AwayInv'
  <2>1. UNCHANGED leaves /\ sess'[self].op = "setLeaveStatus" /\ sess'[self].step = "read"
    BY <1>a, <1>1 DEF SetLeaveStatusBegin, Begin, Idle, tables
  <2>2. Giving(sess[self])' /\ Deciding(sess[self])'
    BY <2>1 DEF Giving, Deciding, Approves
  <2> QED BY <1>b, <2>1, <2>2, SameAbsences, AwayKeeps
<1>2. CASE SetLeaveStatusRead(self)
  <2>1. /\ UNCHANGED leaves /\ sess'[self].op = "setLeaveStatus" /\ sess'[self].step = "lock"
        /\ sess'[self].item = a.item /\ sess'[self].oldUser = leaves[a.item].user
        /\ sess'[self].cinema = leaves[a.item].cinema
        /\ sess'[self].oldIvl = leaves[a.item].ivl
    BY <1>a, <1>2 DEF SetLeaveStatusRead, At, SessionState, tables
  <2>2. Giving(sess[self])' /\ Deciding(sess[self])'
    BY <2>1 DEF Giving, Deciding, Approves
  <2> QED BY <1>b, <2>1, <2>2, SameAbsences, AwayKeeps
<1>3. CASE (SetLeaveStatusLockUser(self) \/ SetLeaveStatusCheck(self)) /\ ~Rollback(self)
  <2>1. PICK step \in {"check", "write"} : Goto(self, step)
    BY <1>3 DEF SetLeaveStatusLockUser, SetLeaveStatusCheck, Check
  <2>2. /\ a.op = "setLeaveStatus" /\ a.step # "read" /\ UNCHANGED <<shifts, leaves>>
        /\ a.status = "APPROVED" /\ step = "write"
             => ~ShiftDuring(a.oldUser, a.cinema, a.oldIvl)
    <3>1. CASE SetLeaveStatusLockUser(self)
      <4>1. sess'[self].step = "check"
        BY <1>a, <3>1 DEF SetLeaveStatusLockUser, Goto, SessionState
      <4>2. sess'[self].step = step
        BY <1>a, <2>1 DEF Goto, SessionState
      <4> QED BY <3>1, <4>1, <4>2 DEF SetLeaveStatusLockUser, At, tables
    <3>2. CASE SetLeaveStatusCheck(self)
      BY <1>3, <3>2 DEF SetLeaveStatusCheck, Check, At, tables
    <3> QED BY <1>3, <3>1, <3>2
  <2>3. /\ sess'[self].op = a.op /\ sess'[self].step = step /\ sess'[self].item = a.item
        /\ sess'[self].status = a.status /\ sess'[self].oldUser = a.oldUser
        /\ sess'[self].cinema = a.cinema /\ sess'[self].oldIvl = a.oldIvl
    BY <1>a, <2>1 DEF Goto, SessionState
  <2>4. Giving(sess[self])'
    BY <2>2, <2>3 DEF Giving
  <2>5. Deciding(sess[self])'
    BY <1>c, <2>2, <2>3 DEF Deciding, Approves, ShiftDuring, LiveShift
  <2> QED BY <1>b, <2>2, <2>4, <2>5, SameAbsences, AwayKeeps
<1>4. CASE SetLeaveStatusCommit(self) /\ ~Rollback(self)
  <2>1. CASE a.status = "APPROVED"
    BY <1>4, <2>1, ApprovalKeeps
  <2>2. CASE a.status # "APPROVED"
    <3>1. Finish(self) /\ leaves' = [leaves EXCEPT ![a.item].status = a.status]
      BY <1>4 DEF SetLeaveStatusCommit
    <3>2. KeepsAbsences /\ ApprovesNone
      BY <1>a, <2>2, <3>1 DEF KeepsAbsences, ApprovesNone, LeaveRow
    <3>3. Giving(sess[self])' /\ Deciding(sess[self])'
      BY <1>a, <3>1, IdleOp DEF Finish, Giving, Deciding
    <3> QED BY <1>b, <3>2, <3>3, AwayKeeps
  <2> QED BY <2>1, <2>2
<1> QED BY <1>0, <1>1, <1>2, <1>3, <1>4

\* A step that is no request's and approves nothing.
LEMMA UnsentGives ==
  ASSUME AwayInv, RecordInv', RequestInv', UNCHANGED <<shifts, sess>>,
         KeepsAbsences, ApprovesNone
  PROVE  AwayInv'
<1>0. TypeInv
  BY DEF AwayInv, RecordInv, AnswerInv, OfferInv
<1>1. ASSUME NEW u, NEW c, NEW i, ~ApprovedLeave(u, c, i) PROVE ~ApprovedLeave(u, c, i)'
  BY <1>1 DEF ApprovesNone, ApprovedLeave
<1>2. NoShiftDuringApprovedLeave'
  BY DEF AwayInv, NoShiftDuringApprovedLeave, ApprovesNone, ApprovedLeave, LiveShift
<1>3. ASSUME NEW p \in Session PROVE (Giving(sess[p]) /\ Deciding(sess[p]))'
  <2> PICK a : a = sess[p]
    OBVIOUS
  <2>1. Giving(a) /\ Deciding(a) /\ sess'[p] = a
    BY DEF AwayInv
  <2>2. Giving(sess[p])'
    BY <2>1 DEF Giving, ApprovesNone, ApprovedLeave, LiveShift
  <2>3. a.op = "setLeaveStatus" => a.item \in LeaveId /\ leaves[a.item].status # "unused"
    BY <1>0 DEF TypeInv, RowsOK, SessionOK
  <2>4. Deciding(sess[p])'
    BY <2>1, <2>3 DEF Deciding, Approves, KeepsAbsences, ShiftDuring, LiveShift
  <2> QED BY <2>2, <2>4
<1> QED BY <1>2, <1>3 DEF AwayInv

\* The invariant of absences and shifts is inductive where no gift meets an approval.
LEMMA AwayInvInductive == AwayInv /\ ApprovalsApart /\ [Next]_vars => AwayInv'
<1> SUFFICES ASSUME AwayInv, ApprovalsApart, [Next]_vars PROVE AwayInv'
  OBVIOUS
<1>1. RecordInv' /\ RequestInv' /\ TypeInv
  BY RecordInvInductive, RequestInvInductive DEF AwayInv, RecordInv, AnswerInv, OfferInv
<1>2. ASSUME NEW self \in Session, ShiftRequest(self) \/ ShiftStep(self) PROVE AwayInv'
  BY <1>1, <1>2, CreateShiftGives, UpdateShiftGives, DeleteShiftGives
  DEF ShiftRequest, ShiftStep
<1>3. ASSUME NEW self \in Session, TradeRequest(self) \/ TradeStep(self) PROVE AwayInv'
  BY <1>1, <1>3, TradesGive
<1>4. ASSUME NEW self \in Session, StaffingRequest(self) \/ StaffingStep(self) PROVE AwayInv'
  BY <1>1, <1>4, StaffingGives
<1>5. ASSUME NEW self \in Session, ClockRequest(self) \/ ClockStep(self) PROVE AwayInv'
  BY <1>1, <1>5, ClocksFootprint, LeavesAndClocksSpareShifts, NobodyGives DEF ClocksOps
<1>6. ASSUME NEW self \in Session, LeaveRequest(self) \/ LeaveStep(self) PROVE AwayInv'
  BY <1>1, <1>6, CreateLeaveGives, SetLeaveStatusGives DEF LeaveRequest, LeaveStep
<1>7. ASSUME NEW self \in Session, Crash(self) PROVE AwayInv'
  BY <1>1, <1>7, RollbackGives DEF Crash
<1>8. CASE ExpireLeaves
  <2>1. leaves \in [LeaveId -> LeaveRow]
    BY <1>1 DEF TypeInv, TypeOK, StoreTypeOK
  <2>2. KeepsAbsences /\ ApprovesNone
    BY <1>8, <2>1 DEF ExpireLeaves, KeepsAbsences, ApprovesNone, LeaveRow
  <2> QED BY <1>1, <1>8, <2>2, UnsentGives DEF ExpireLeaves
<1>9. CASE UNCHANGED <<shifts, leaves, sess>>
  BY <1>1, <1>9, SameAbsences, UnsentGives
<1> QED BY <1>2, <1>3, <1>4, <1>5, <1>6, <1>7, <1>8, <1>9
        DEF Next, Request, Advance, Tick, tables, vars

\* There is neither a shift nor an absence at the start.
LEMMA InitAwayInv == Init => AwayInv
BY InitRecordInv, InitRequestInv, IdleOp
   DEF Init, StoreInit, AwayInv, NoShiftDuringApprovedLeave, LiveShift, UnusedShift, Giving,
       Deciding

\* As long as nobody is given a shift while an absence of his is being approved,
\* nobody has a shift during an approved absence, whatever else interleaves: edits,
\* acceptances and approvals each look for the other, and the shift and the
\* absence they looked at are the ones they write.
THEOREM AbsencesAreKeptFree == Spec /\ []ApprovalsApart => []NoShiftDuringApprovedLeave
<1>1. AwayInv => NoShiftDuringApprovedLeave
  BY DEF AwayInv
<1> QED BY <1>1, InitAwayInv, AwayInvInductive, PTL DEF Spec
=============================================================================
