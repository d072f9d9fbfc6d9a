------------------------------ MODULE TimeEntries ------------------------------
(***************************************************************************)
(* Registering, editing, approving and voiding time entries against the    *)
(* payroll periods.  Clients confirm the payroll adjustments they are      *)
(* asked to confirm; the acting administrator may touch exported entries.  *)
(* Notes, overlaps between entries and the shift of an entry are left out. *)
(***************************************************************************)
EXTENDS PayrollStore

\* ensureTimeEntryEditable, for an administrator and for anybody else
EditableByEmployee(e) ==
  entries[e].status \notin {"unused", "VOIDED"} /\ ~entries[e].locked
EditableByAdmin(e) ==
  /\ entries[e].status \notin {"unused", "VOIDED"}
  /\ entries[e].locked => Exported(entries[e].link)

\* getCurrentPayrollPeriodEntity: the row of the current period, if any
CurrentRow == IF HasRow(current) THEN current ELSE None

-----------------------------------------------------------------------------
(* Payroll adjustments *)

PendingOf(e) ==
  {a \in AdjustmentId :
     adjustments[a].status = "PENDING" /\ adjustments[a].entry = e}

\* The payment of period p that createOrUpdateTimeEntryPayrollAdjustment
\* corrects: a pending adjustment is updated and keeps its exported minutes.
PaymentBy(p, e, minutes) ==
  LET pending == PendingOf(e) IN
  [original |-> p, settlement |-> CurrentRow,
   pending |-> IF pending = {} THEN None ELSE Newest(pending),
   exported |-> IF pending = {} THEN minutes
                ELSE adjustments[Newest(pending)].exported]

Corrected(a, paid, adjusted) ==
  IF paid.exported = adjusted
  THEN [adjustments[a] EXCEPT !.status = "VOIDED", !.adjusted = adjusted]
  ELSE [adjustments[a] EXCEPT !.settlement = paid.settlement,
                              !.adjusted = adjusted]

NewAdjustment(e, paid, adjusted) ==
  [status |-> "PENDING", entry |-> e, original |-> paid.original,
   settlement |-> paid.settlement, exported |-> paid.exported,
   adjusted |-> adjusted]

\* createOrUpdateTimeEntryPayrollAdjustment, after paid has been read
Settle(e, paid, adjusted) ==
  \/ /\ paid.original # None /\ paid.pending # None
     /\ adjustments' = [adjustments EXCEPT
          ![paid.pending] = Corrected(paid.pending, paid, adjusted)]
  \/ /\ paid.original # None /\ paid.pending = None
     /\ paid.exported # adjusted
     /\ \E a \in AdjustmentId :
          /\ First(a, UnusedAdjustmentIds)
          /\ adjustments' =
               [adjustments EXCEPT ![a] = NewAdjustment(e, paid, adjusted)]
  \/ /\ \/ paid.original = None
        \/ paid.pending = None /\ paid.exported = adjusted
     /\ UNCHANGED adjustments

\* The INSERT of an adjustment fails for want of a row (bound).
NoRoomToSettle(paid, adjusted) ==
  /\ paid.original # None /\ paid.pending = None /\ paid.exported # adjusted
  /\ UnusedAdjustmentIds = {}

\* The commit of a handler that leaves entry e as row.
CommitEntry(self, e, row, adjusted) ==
  LET paid == sess[self].paid IN
  \/ /\ entries' = [entries EXCEPT ![e] = row]
     /\ Settle(e, paid, adjusted)
     /\ Finish(self)
     /\ UNCHANGED <<periods, current>>
  \/ NoRoomToSettle(paid, adjusted) /\ Rollback(self)

-----------------------------------------------------------------------------
(* submitManualTimeEntry, and clockInTimeEntry (today, not clocked out) *)

CreateEntryBegin(self, p, m) ==
  /\ p <= current
  /\ m = 0 => p = current
  /\ Begin(self, [Idle EXCEPT !.op = "createEntry", !.step = "lock",
                              !.period = p, !.minutes = m])

CreateEntryLock(self) ==
  /\ At(self, "createEntry", "lock")
  /\ AcquirePeriod(self, sess[self].period, "write")

\* ensureTimeEntryCreationPeriodWritable refuses a LOCKED period only.
CreateEntryCommit(self) ==
  LET a == sess[self] IN
  /\ At(self, "createEntry", "write")
  /\ \/ /\ ~Locked(a.period)
        /\ \E e \in EntryId :
             /\ First(e, UnusedEntryIds)
             /\ entries' = [entries EXCEPT ![e] =
                  [UnusedEntry EXCEPT !.status = "PENDING", !.ref = a.period,
                                      !.minutes = a.minutes]]
        /\ Finish(self)
        /\ UNCHANGED <<periods, adjustments, current>>
     \/ (Locked(a.period) \/ UnusedEntryIds = {}) /\ Rollback(self)

-----------------------------------------------------------------------------
(* clockOutTimeEntry: no transaction, no lock, and open or not *)

ClockOutBegin(self, e, m) ==
  /\ EditableByEmployee(e)
  /\ m > 0
  /\ Begin(self, [Idle EXCEPT !.op = "clockOut", !.step = "write",
                              !.entry = e, !.minutes = m])

ClockOutCommit(self) ==
  LET a == sess[self] IN
  /\ At(self, "clockOut", "write")
  /\ entries' = [entries EXCEPT ![a.entry].minutes = a.minutes]
  /\ Finish(self)
  /\ UNCHANGED <<periods, adjustments, current>>

-----------------------------------------------------------------------------
(* updateOwnTimeEntry and updateAdminTimeEntry: new minutes, or another     *)
(* reference period (in the instances that have "move" in Ops)              *)

EditOp == {"editOwn", "editAdmin"}

\* ensureOwnTimeEntryCanBeUpdated and ensureTimeEntryEditable
MayEdit(op, e) ==
  IF op = "editOwn"
  THEN entries[e].status # "APPROVED" /\ EditableByEmployee(e)
  ELSE EditableByAdmin(e)

EditBegin(self, op, e, p, m) ==
  /\ MayEdit(op, e)
  /\ p # entries[e].ref => "move" \in Ops
  /\ p # entries[e].ref \/ m # entries[e].minutes
  /\ Begin(self, [Idle EXCEPT !.op = op, !.step = "lock", !.entry = e,
                              !.period = entries[e].ref, !.target = p,
                              !.minutes = m])

Earlier(p, q) == IF p < q THEN p ELSE q
Later(p, q) == IF p < q THEN q ELSE p

\* Both periods are locked, the earlier one first.
EditLock(self) ==
  LET a == sess[self] IN
  /\ a.op \in EditOp /\ a.step = "lock"
  /\ AcquirePeriod(self, Earlier(a.period, a.target),
                   IF a.period = a.target THEN "check" ELSE "lockSecond")

EditLockSecond(self) ==
  LET a == sess[self] IN
  /\ a.op \in EditOp /\ a.step = "lockSecond"
  /\ AcquirePeriod(self, Later(a.period, a.target), "check")

\* getTimeEntryEditPayrollContext: the newest pending or included adjustment
\* of the entry tells where and how much was paid, then its period does.
EditPayment(e) ==
  LET relevant == {a \in AdjustmentId :
        /\ adjustments[a].entry = e
        /\ adjustments[a].status \in {"PENDING", "INCLUDED"}}
      a == adjustments[Newest(relevant)]
      source ==
        IF relevant # {} THEN
          IF a.status = "PENDING" THEN <<a.original, a.exported>>
          ELSE <<a.settlement, a.adjusted>>
        ELSE IF entries[e].link # None
        THEN <<entries[e].link, entries[e].minutes>>
        ELSE IF entries[e].late THEN <<entries[e].original, 0>>
        ELSE <<None, 0>>
  IN IF Exported(source[1]) THEN PaymentBy(source[1], e, source[2])
     ELSE NothingPaid

\* lockTimeEntryUpdatePayrollPeriods looks at the destination, and at the
\* source only for approved entries; the commit follows the re-read row.
EditCheck(self) ==
  LET a == sess[self]
      e == a.entry
      ok == /\ entries[e].ref = a.period
            /\ ~Locked(a.target)
            /\ entries[e].status = "APPROVED" => a.period = a.target
            /\ MayEdit(a.op, e)
            /\ a.period # a.target \/ a.minutes # entries[e].minutes
  IN
  /\ a.op \in EditOp /\ a.step = "check"
  /\ \/ /\ ok
        /\ sess' = [sess EXCEPT ![self].step = "write",
                                ![self].paid = EditPayment(e)]
        /\ UNCHANGED <<tables, current, held>>
     \/ ~ok /\ Rollback(self)

EditCommit(self) ==
  LET a == sess[self] IN
  /\ a.op \in EditOp /\ a.step = "write"
  /\ CommitEntry(self, a.entry,
       [entries[a.entry] EXCEPT !.ref = a.target, !.minutes = a.minutes,
          !.status = IF a.op = "editOwn" THEN "PENDING" ELSE @],
       a.minutes)

-----------------------------------------------------------------------------
(* withLockedTimeEntryStatusMutation: approve, unapprove, send back, void *)

StatusOp == {"approve", "unapprove", "reject", "void"}

\* approveTimeEntryFlow is the one that does not look before it locks.
StatusBegin(self, op, e) ==
  /\ entries[e].status # "unused"
  /\ op # "approve" => EditableByAdmin(e)
  /\ Begin(self, [Idle EXCEPT !.op = op, !.step = "lock", !.entry = e,
                              !.period = entries[e].ref])

StatusLock(self) ==
  /\ sess[self].op \in StatusOp /\ sess[self].step = "lock"
  /\ AcquirePeriod(self, sess[self].period, "check")

\* ensureTimeEntryCanBeApproved..., ensureTimeEntryCanBeUnapproved,
\* ensureTimeEntryCanBeSentBack
MayChangeStatus(op, e) ==
  \/ /\ op = "approve"
     /\ entries[e].status # "APPROVED"
     /\ entries[e].minutes > 0
     /\ ~Locked(entries[e].ref)
  \/ op = "unapprove" /\ entries[e].status = "APPROVED"
  \/ op = "reject" /\ entries[e].status # "APPROVED"
  \/ op = "void"

\* The period an approved entry was paid in: payrollPeriodId, else
\* originalPayrollPeriodId, else the period of its reference date.
PaidPeriod(e) ==
  IF entries[e].link # None THEN entries[e].link
  ELSE IF entries[e].original # None THEN entries[e].original
  ELSE entries[e].ref

\* getApprovalPayrollContext, getUnapprovePayrollContext,
\* getVoidPayrollContext: what is corrected when the period is exported
StatusPayment(op, e) ==
  IF op = "approve" /\ Exported(entries[e].ref)
  THEN PaymentBy(entries[e].ref, e, 0)
  ELSE IF /\ op \in {"unapprove", "void"}
          /\ entries[e].status = "APPROVED"
          /\ Exported(PaidPeriod(e))
  THEN PaymentBy(PaidPeriod(e), e,
                 IF entries[e].late THEN 0 ELSE entries[e].minutes)
  ELSE NothingPaid

StatusCheck(self) ==
  LET a == sess[self]
      ok == /\ entries[a.entry].ref = a.period
            /\ EditableByAdmin(a.entry)
            /\ MayChangeStatus(a.op, a.entry)
  IN
  /\ a.op \in StatusOp /\ a.step = "check"
  /\ \/ /\ ok
        /\ sess' = [sess EXCEPT ![self].step = "write",
                      ![self].paid = StatusPayment(a.op, a.entry)]
        /\ UNCHANGED <<tables, current, held>>
     \/ ~ok /\ Rollback(self)

\* getApprovalPayrollUpdateData: an approval after export is late; one
\* before keeps the link when the period has no row yet.
ApproveCommit(self) ==
  LET a == sess[self]
      late == a.paid.original # None
      row == entries[a.entry]
  IN
  /\ At(self, "approve", "write")
  /\ CommitEntry(self, a.entry,
       [row EXCEPT !.status = "APPROVED", !.late = late,
          !.original = a.paid.original,
          !.link = IF late THEN None
                   ELSE IF HasRow(a.period) THEN a.period ELSE @],
       row.minutes)

\* getUnapproveTimeEntryUpdateData: payrollLocked stays as it is.
UnapproveCommit(self) ==
  LET a == sess[self]
      row == entries[a.entry]
  IN
  /\ At(self, "unapprove", "write")
  /\ CommitEntry(self, a.entry,
       IF a.paid.original = None THEN [row EXCEPT !.status = "PENDING"]
       ELSE [row EXCEPT !.status = "PENDING", !.link = None,
                        !.late = FALSE, !.original = None],
       0)

\* Mutant of RejectCommit: a status the schema does not have.
RejectOutright(self) ==
  LET a == sess[self] IN
  /\ At(self, "reject", "write")
  /\ CommitEntry(self, a.entry,
       [entries[a.entry] EXCEPT !.status = "REJECTED"], 0)

RejectCommit(self) ==
  LET a == sess[self] IN
  /\ At(self, "reject", "write")
  /\ CommitEntry(self, a.entry,
       [entries[a.entry] EXCEPT !.status = "NEEDS_CHANGES"], 0)

VoidCommit(self) ==
  LET a == sess[self] IN
  /\ At(self, "void", "write")
  /\ CommitEntry(self, a.entry,
       [entries[a.entry] EXCEPT !.status = "VOIDED"], 0)

-----------------------------------------------------------------------------
EntryRequest(self) ==
  \/ \E p \in Period, m \in Minutes : CreateEntryBegin(self, p, m)
  \/ \E e \in EntryId :
       \/ \E m \in Minutes : ClockOutBegin(self, e, m)
       \/ \E op \in EditOp, p \in Period, m \in Minutes :
            EditBegin(self, op, e, p, m)
       \/ \E op \in StatusOp : StatusBegin(self, op, e)

EntryStep(self) ==
  \/ CreateEntryLock(self)
  \/ CreateEntryCommit(self)
  \/ ClockOutCommit(self)
  \/ EditLock(self)
  \/ EditLockSecond(self)
  \/ EditCheck(self)
  \/ EditCommit(self)
  \/ StatusLock(self)
  \/ StatusCheck(self)
  \/ ApproveCommit(self)
  \/ UnapproveCommit(self)
  \/ RejectCommit(self)
  \/ VoidCommit(self)
=============================================================================
