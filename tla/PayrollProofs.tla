---------------------------- MODULE PayrollProofs ----------------------------
(***************************************************************************)
(* Theorems about Payroll for every value of its constants: every row,     *)
(* lock and session keeps its type; a locked period is frozen as long as    *)
(* nobody clocks out: clock-out is the one handler that writes an entry     *)
(* without the lock of its period; an exported period stays exported as     *)
(* long as it is not reopened while it is being exported; and what exported *)
(* periods have paid for an entry stays in balance with what it is worth.   *)
(***************************************************************************)
EXTENDS Payroll, SetProofs, TLAPS

-----------------------------------------------------------------------------
(* The type invariant is not inductive.  A handler writes the row and the   *)
(* period it was sent for, so it must have been sent for some; and the      *)
(* count of a period's runs stays within its bound only because two locks   *)
(* of one period exclude each other.                                        *)

HasPeriod == OpName \ {"clockOut"}
HasEntry == {"clockOut"} \cup EditOp \cup StatusOp

SessionOK(a, locks) ==
  /\ a.op \in HasPeriod => a.period \in Period
  /\ a.op \in EditOp => a.target \in Period
  /\ a.op \in HasEntry => a.entry \in EntryId /\ entries[a.entry].ref \in Period
  /\ a.op = "lock" /\ a.step \in {"check", "include", "write"}
       => a.period \in locks
  /\ a.op = "lock" /\ a.step \in {"include", "write"}
       => periods[a.period].run < MaxLocks

RefsOK ==
  \A e \in EntryId : entries[e].status # "unused" => entries[e].ref \in Period

LocksExclude ==
  \A q, r \in Session : q # r => held[q] \cap held[r] = {}

TypeInv ==
  /\ TypeOK
  /\ RefsOK
  /\ LocksExclude
  /\ \A q \in Session : SessionOK(sess[q], held[q])

USE DEF None, TypeOK, PayrollTypeOK

\* NULL is no id, and the bounds are numbers.
LEMMA Bounds ==
  /\ None \notin EntryId /\ None \notin AdjustmentId /\ None \notin Period
  /\ LastPeriod \in Nat /\ MaxMinutes \in Nat /\ MaxLocks \in Nat
  /\ 1 \in Period /\ 0 \in Minutes /\ 0 \in Delta /\ 0 \in 0 .. MaxLocks
  /\ \A m \in Minutes, n \in Minutes : m - n \in Delta
BY PayrollAssumption DEF Period, Minutes, Delta

\* The newest of some adjustments is one of them.
LEMMA NewestIsOne ==
  ASSUME NEW ids \in SUBSET AdjustmentId, ids # {}
  PROVE  Newest(ids) \in ids
<1>1. PICK top \in Nat : \A a \in AdjustmentId : a \in Nat /\ a <= top
  BY PayrollAssumption
<1> DEFINE Age == {top - a : a \in ids}
<1>2. Age \subseteq Nat /\ Age # {}
  BY <1>1
<1>3. PICK x \in Age : \A y \in Age : ~(<<y, x>> \in OpToRel(<, Nat))
  BY <1>2, NatLessThanWellFounded, WFMin
<1>4. \A y \in Age : ~(y < x)
  BY <1>2, <1>3 DEF OpToRel
<1>5. PICK a \in ids : x = top - a
  OBVIOUS
<1>6. ASSUME NEW other \in ids PROVE other <= a
  <2>1. ~(top - other < top - a)
    BY <1>4, <1>5
  <2>2. QED
    BY <1>1, <2>1
<1>7. QED
  BY <1>6 DEF Newest

-----------------------------------------------------------------------------
(* Sessions *)

\* A session at rest and an entry never paid are well typed.
LEMMA IdleTyped ==
  /\ Idle \in SessionState /\ Idle.op = "none"
  /\ NothingPaid \in Payment
BY Bounds DEF Idle, SessionState, NothingPaid, Payment, MaybePeriod

\* A request that ends releases its locks and touches no other request.
LEMMA FinishTyped ==
  ASSUME TypeInv, NEW self \in Session, Finish(self)
  PROVE  /\ sess' \in [Session -> SessionState]
         /\ held' \in [Session -> SUBSET Period]
         /\ LocksExclude'
         /\ sess'[self].op = "none"
         /\ \A q \in Session \ {self} :
              sess'[q] = sess[q] /\ held'[q] = held[q]
BY IdleTyped DEF TypeInv, Finish, LocksExclude

\* A handler ends with a commit of well-typed rows.
LEMMA CommitTyped ==
  ASSUME TypeInv, NEW self \in Session, Finish(self), current' = current,
         periods' \in [Period -> PeriodRow],
         entries' \in [EntryId -> EntryRow],
         adjustments' \in [AdjustmentId -> AdjustmentRow],
         RefsOK',
         \A e \in EntryId :
           entries[e].ref \in Period => entries'[e].ref \in Period,
         \A p \in Period :
           p \notin held[self] => periods'[p].run = periods[p].run
  PROVE  TypeInv'
<1>1. TypeOK'
  BY FinishTyped DEF TypeInv
<1>2. ASSUME NEW q \in Session \ {self}
      PROVE  SessionOK(sess[q], held[q])'
  <2>1. sess'[q] = sess[q] /\ held'[q] = held[q]
    BY FinishTyped
  <2>2. SessionOK(sess[q], held[q])
    BY DEF TypeInv
  <2>3. sess[q].op = "lock" /\ sess[q].step \in {"check", "include", "write"}
          => periods'[sess[q].period].run = periods[sess[q].period].run
    BY <2>2 DEF TypeInv, LocksExclude, SessionOK, HasPeriod, OpName
  <2>4. QED
    BY <2>1, <2>2, <2>3 DEF SessionOK
<1>3. SessionOK(sess[self], held[self])'
  BY FinishTyped DEF SessionOK, HasPeriod, HasEntry, OpName, EditOp, StatusOp
<1>4. QED
  BY <1>1, <1>2, <1>3, FinishTyped DEF TypeInv

\* A refused request leaves the tables alone.
LEMMA RollbackTyped ==
  ASSUME TypeInv, NEW self \in Session, Rollback(self)
  PROVE  TypeInv'
<1>1. Finish(self) /\ UNCHANGED <<periods, entries, adjustments, current>>
  BY DEF Rollback, tables
<1>2. RefsOK'
  BY <1>1 DEF RefsOK, TypeInv
<1>3. QED
  BY <1>1, <1>2, CommitTyped DEF TypeInv

\* A session takes another step, keeping or adding locks.
LEMMA StepTyped ==
  ASSUME TypeInv, NEW self \in Session, NEW a \in SessionState,
         sess' = [sess EXCEPT ![self] = a],
         held' \in [Session -> SUBSET Period], LocksExclude',
         \A q \in Session \ {self} : held'[q] = held[q],
         UNCHANGED <<tables, current>>,
         SessionOK(a, held'[self])
  PROVE  TypeInv'
<1>1. UNCHANGED <<periods, entries, adjustments, current>>
  BY DEF tables
<1>2. sess' \in [Session -> SessionState]
  BY DEF TypeInv
<1>3. \A q \in Session : SessionOK(sess[q], held[q])'
  BY <1>1 DEF TypeInv, SessionOK
<1>4. QED
  BY <1>1, <1>2, <1>3 DEF TypeInv, RefsOK

\* A request starts without locks.
LEMMA BeginTyped ==
  ASSUME TypeInv, NEW self \in Session, NEW a \in SessionState,
         Begin(self, a), SessionOK(a, {})
  PROVE  TypeInv'
<1>1. SessionOK(a, held[self])
  BY DEF SessionOK
<1>2. UNCHANGED <<tables, current, held>> /\ sess' = [sess EXCEPT ![self] = a]
  BY DEF Begin
<1>3. LocksExclude'
  BY <1>2 DEF TypeInv, LocksExclude
<1>4. QED
  BY <1>1, <1>2, <1>3, StepTyped DEF TypeInv

\* A step that takes no lock.
LEMMA QuietTyped ==
  ASSUME TypeInv, NEW self \in Session, NEW a \in SessionState,
         sess' = [sess EXCEPT ![self] = a], UNCHANGED <<tables, current, held>>,
         SessionOK(a, held[self])
  PROVE  TypeInv'
<1>1. LocksExclude'
  BY DEF TypeInv, LocksExclude
<1>2. QED
  BY <1>1, StepTyped DEF TypeInv

\* A step that takes the lock of a period.
LEMMA AcquireTyped ==
  ASSUME TypeInv, NEW self \in Session, NEW p \in Period,
         NEW next \in {"lockSecond", "check", "write"},
         AcquirePeriod(self, p, next),
         sess[self].op = "lock" => next = "check" /\ p = sess[self].period
  PROVE  TypeInv'
<1> DEFINE a == [sess[self] EXCEPT !.step = next]
<1>1. sess[self] \in SessionState /\ SessionOK(sess[self], held[self])
  BY DEF TypeInv
<1>2. a \in SessionState
  BY <1>1 DEF SessionState
<1>3. /\ sess' = [sess EXCEPT ![self] = a]
      /\ held' = [held EXCEPT ![self] = @ \cup {p}]
      /\ UNCHANGED <<tables, current>>
  BY DEF AcquirePeriod, Goto
<1>4. held' \in [Session -> SUBSET Period] /\ LocksExclude'
  BY <1>3 DEF TypeInv, LocksExclude, AcquirePeriod
<1>5. SessionOK(a, held'[self])
  BY <1>1, <1>3 DEF TypeInv, SessionOK, SessionState
<1>6. \A q \in Session \ {self} : held'[q] = held[q]
  BY <1>3 DEF TypeInv
<1> HIDE DEF a
<1>7. QED
  BY <1>2, <1>3, <1>4, <1>5, <1>6, StepTyped

-----------------------------------------------------------------------------
(* Locking, unlocking and exporting *)

\* Giving a period a new status keeps its run.
LEMMA PeriodRowUpdate ==
  ASSUME TypeInv, NEW p \in Period,
         NEW status \in {"LOCKED", "UNLOCKED", "EXPORTED"},
         periods' = [periods EXCEPT ![p].status = status]
  PROVE  /\ periods' \in [Period -> PeriodRow]
         /\ \A q \in Period : periods'[q].run = periods[q].run
BY DEF TypeInv, PeriodRow

\* A run lists minutes and differences of minutes.
LEMMA RunTyped ==
  ASSUME TypeInv, NEW p \in Period, NEW included \in SUBSET AdjustmentId
  PROVE  /\ RunLines(p) \in [EntryId -> Minutes]
         /\ RunDeltas(p, included) \in [AdjustmentId -> Delta]
<1>1. ASSUME NEW e \in EntryId PROVE entries[e].minutes \in Minutes
  BY DEF TypeInv, EntryRow
<1>2. ASSUME NEW a \in AdjustmentId PROVE DeltaOf(a) \in Delta
  BY Bounds DEF TypeInv, AdjustmentRow, DeltaOf
<1>3. QED
  BY <1>1, <1>2, Bounds DEF RunLines, RunDeltas

\* The steps of locking a period keep the types.
LEMMA LockTyped ==
  ASSUME TypeInv, NEW self \in Session
  PROVE  /\ \A p \in Period : LockPeriodBegin(self, p) => TypeInv'
         /\ LockPeriodAcquire(self) => TypeInv'
         /\ LockPeriodCheck(self) => TypeInv'
         /\ LockPeriodInclude(self) => TypeInv'
         /\ LockPeriodCommit(self) => TypeInv'
<1> DEFINE s == sess[self]
<1>0. s \in SessionState /\ SessionOK(s, held[self])
  BY DEF TypeInv
<1>1. ASSUME NEW p \in Period, LockPeriodBegin(self, p) PROVE TypeInv'
  <2> DEFINE a == [Idle EXCEPT !.op = "lock", !.step = "lock", !.period = p]
  <2>1. a \in SessionState
    BY IdleTyped DEF SessionState, OpName, MaybePeriod
  <2>2. SessionOK(a, {})
    BY <2>1 DEF SessionOK, SessionState, Idle, HasEntry, EditOp, StatusOp
  <2>3. Begin(self, a)
    BY <1>1 DEF LockPeriodBegin
  <2> HIDE DEF a
  <2>4. QED
    BY <2>1, <2>2, <2>3, BeginTyped
<1>2. ASSUME LockPeriodAcquire(self) PROVE TypeInv'
  <2>1. s.op = "lock" /\ s.period \in Period
    BY <1>0, <1>2 DEF LockPeriodAcquire, At, SessionOK, HasPeriod, OpName
  <2>2. QED
    BY <1>2, <2>1, AcquireTyped DEF LockPeriodAcquire
<1>3. ASSUME LockPeriodCheck(self) PROVE TypeInv'
  <2> DEFINE closed == {e \in EntryId :
                          entries[e].ref = s.period /\ entries[e].minutes > 0}
             a == [s EXCEPT !.step = "include", !.rows = closed]
  <2>1. s.op = "lock" /\ s.step = "check"
    BY <1>3 DEF LockPeriodCheck, At
  <2>2. CASE Rollback(self)
    BY <2>2, RollbackTyped
  <2>3. CASE /\ periods[s.period].run < MaxLocks
             /\ sess' = [sess EXCEPT ![self].step = "include",
                                     ![self].rows = closed]
             /\ UNCHANGED <<tables, current, held>>
    <3>1. a \in SessionState
      BY <1>0 DEF SessionState
    <3>2. sess' = [sess EXCEPT ![self] = a]
      BY <2>3 DEF TypeInv
    <3>3. SessionOK(a, held[self])
      BY <1>0, <2>1, <2>3
         DEF SessionOK, SessionState, HasEntry, EditOp, StatusOp
    <3> HIDE DEF a
    <3>4. QED
      BY <2>3, <3>1, <3>2, <3>3, QuietTyped
  <2>4. QED
    BY <1>3, <2>2, <2>3 DEF LockPeriodCheck
<1>4. ASSUME LockPeriodInclude(self) PROVE TypeInv'
  <2> DEFINE a == [s EXCEPT !.step = "write",
                            !.pendings = Includable(s.period)]
  <2>1. a \in SessionState
    BY <1>0 DEF SessionState, Includable
  <2>2. /\ sess' = [sess EXCEPT ![self] = a]
        /\ UNCHANGED <<tables, current, held>>
    BY <1>4 DEF TypeInv, LockPeriodInclude
  <2>3. SessionOK(a, held[self])
    BY <1>0, <1>4 DEF LockPeriodInclude, At, SessionOK, SessionState,
                      HasEntry, EditOp, StatusOp
  <2> HIDE DEF a
  <2>4. QED
    BY <2>1, <2>2, <2>3, QuietTyped
<1>5. ASSUME LockPeriodCommit(self) PROVE TypeInv'
  <2> DEFINE p == s.period
             row == [status |-> "LOCKED", run |-> periods[p].run + 1,
                     lines |-> RunLines(p), deltas |-> RunDeltas(p, s.pendings)]
  <2>1. p \in Period /\ p \in held[self] /\ periods[p].run < MaxLocks
    BY <1>0, <1>5 DEF LockPeriodCommit, At, SessionOK, HasPeriod, OpName
  <2>2. row \in PeriodRow
    <3>1. periods[p].run \in 0 .. MaxLocks
      BY <2>1 DEF TypeInv, PeriodRow
    <3>2. periods[p].run + 1 \in 0 .. MaxLocks
      BY <2>1, <3>1, Bounds
    <3>3. s.pendings \in SUBSET AdjustmentId
      BY <1>0 DEF SessionState
    <3>4. QED
      BY <2>1, <3>2, <3>3, RunTyped DEF PeriodRow
  <2>3. /\ periods' = [periods EXCEPT ![p] = row]
        /\ entries' = [e \in EntryId |->
             IF e \in s.rows THEN [entries[e] EXCEPT !.link = p, !.locked = TRUE]
             ELSE entries[e]]
        /\ adjustments' = [a \in AdjustmentId |->
             IF a \in s.pendings
             THEN [adjustments[a] EXCEPT !.status = "INCLUDED", !.settlement = p]
             ELSE adjustments[a]]
        /\ Finish(self) /\ current' = current
    BY <1>5 DEF LockPeriodCommit
  <2>4. /\ periods' \in [Period -> PeriodRow]
        /\ \A q \in Period :
             q \notin held[self] => periods'[q].run = periods[q].run
    <3> HIDE DEF row
    <3> QED BY <2>1, <2>2, <2>3 DEF TypeInv
  <2>5. /\ entries' \in [EntryId -> EntryRow]
        /\ \A e \in EntryId : /\ entries'[e].status = entries[e].status
                              /\ entries'[e].ref = entries[e].ref
    BY <2>1, <2>3 DEF TypeInv, EntryRow, MaybePeriod
  <2>6. adjustments' \in [AdjustmentId -> AdjustmentRow]
    BY <2>1, <2>3 DEF TypeInv, AdjustmentRow, MaybePeriod
  <2>7. RefsOK'
    BY <2>5 DEF TypeInv, RefsOK
  <2>8. QED
    BY <2>3, <2>4, <2>5, <2>6, <2>7, CommitTyped
<1>6. QED
  BY <1>1, <1>2, <1>3, <1>4, <1>5

\* The steps of unlocking a period keep the types.
LEMMA UnlockTyped ==
  ASSUME TypeInv, NEW self \in Session
  PROVE  /\ \A p \in Period : UnlockPeriodBegin(self, p) => TypeInv'
         /\ UnlockPeriodCommit(self) => TypeInv'
<1>1. ASSUME NEW p \in Period, UnlockPeriodBegin(self, p) PROVE TypeInv'
  <2> DEFINE a == [Idle EXCEPT !.op = "unlock", !.step = "write", !.period = p]
  <2>1. a \in SessionState
    BY IdleTyped DEF SessionState, OpName, MaybePeriod
  <2>2. SessionOK(a, {})
    BY <2>1 DEF SessionOK, SessionState, Idle, HasEntry, EditOp, StatusOp
  <2>3. Begin(self, a)
    BY <1>1 DEF UnlockPeriodBegin
  <2> HIDE DEF a
  <2>4. QED
    BY <2>1, <2>2, <2>3, BeginTyped
<1>2. ASSUME UnlockPeriodCommit(self) PROVE TypeInv'
  <2> DEFINE p == sess[self].period
  <2>1. p \in Period
    BY <1>2 DEF UnlockPeriodCommit, At, TypeInv, SessionOK, HasPeriod, OpName
  <2>2. /\ periods' = [periods EXCEPT ![p].status = "UNLOCKED"]
        /\ entries' = [e \in EntryId |->
             IF entries[e].link = p THEN [entries[e] EXCEPT !.locked = FALSE]
             ELSE entries[e]]
        /\ adjustments' = Reopened(p)
        /\ Finish(self) /\ current' = current
    BY <1>2 DEF UnlockPeriodCommit
  <2>3. /\ entries' \in [EntryId -> EntryRow]
        /\ \A e \in EntryId : /\ entries'[e].status = entries[e].status
                              /\ entries'[e].ref = entries[e].ref
    BY <2>2 DEF TypeInv, EntryRow
  <2>4. adjustments' \in [AdjustmentId -> AdjustmentRow]
    BY <2>2 DEF TypeInv, AdjustmentRow, Reopened
  <2>5. RefsOK'
    BY <2>3 DEF TypeInv, RefsOK
  <2>6. /\ periods' \in [Period -> PeriodRow]
        /\ \A q \in Period : periods'[q].run = periods[q].run
    BY <2>1, <2>2, PeriodRowUpdate
  <2>7. QED
    BY <2>2, <2>3, <2>4, <2>5, <2>6, CommitTyped
<1>3. QED
  BY <1>1, <1>2

\* The steps of exporting a period keep the types.
LEMMA ExportTyped ==
  ASSUME TypeInv, NEW self \in Session
  PROVE  /\ \A p \in Period : ExportBegin(self, p) => TypeInv'
         /\ ExportCheck(self) => TypeInv'
         /\ ExportCommit(self) => TypeInv'
<1> DEFINE s == sess[self]
<1>0. s \in SessionState /\ SessionOK(s, held[self])
  BY DEF TypeInv
<1>1. ASSUME NEW p \in Period, ExportBegin(self, p) PROVE TypeInv'
  <2> DEFINE a == [Idle EXCEPT !.op = "export", !.step = "check",
                               !.period = p, !.run = periods[p].run]
  <2>1. periods[p].run \in 0 .. MaxLocks
    BY DEF TypeInv, PeriodRow
  <2>2. a \in SessionState
    BY <2>1, IdleTyped DEF SessionState, OpName, MaybePeriod
  <2>3. SessionOK(a, {})
    BY <2>2 DEF SessionOK, SessionState, Idle, HasEntry, EditOp, StatusOp
  <2>4. Begin(self, a)
    BY <1>1 DEF ExportBegin
  <2> HIDE DEF a
  <2>5. QED
    BY <2>2, <2>3, <2>4, BeginTyped
<1>2. ASSUME ExportCheck(self) PROVE TypeInv'
  <2> DEFINE a == [s EXCEPT !.step = "write"]
  <2>1. s.op = "export"
    BY <1>2 DEF ExportCheck, At
  <2>2. CASE Goto(self, "write") /\ UNCHANGED <<tables, current, held>>
    <3>1. a \in SessionState
      BY <1>0 DEF SessionState
    <3>2. sess' = [sess EXCEPT ![self] = a]
      BY <2>2 DEF Goto, TypeInv
    <3>3. SessionOK(a, held[self])
      BY <1>0, <2>1 DEF SessionOK, SessionState
    <3> HIDE DEF a
    <3>4. QED
      BY <2>2, <3>1, <3>2, <3>3, QuietTyped
  <2>3. QED
    BY <1>2, <2>2, RollbackTyped DEF ExportCheck
<1>3. ASSUME ExportCommit(self) PROVE TypeInv'
  <2>1. s.period \in Period
    BY <1>0, <1>3 DEF ExportCommit, At, SessionOK, HasPeriod, OpName
  <2>2. /\ periods' \in [Period -> PeriodRow]
        /\ \A q \in Period : periods'[q].run = periods[q].run
    BY <1>3, <2>1, PeriodRowUpdate DEF ExportCommit
  <2>3. RefsOK'
    BY <1>3 DEF ExportCommit, TypeInv, RefsOK
  <2>4. QED
    BY <1>3, <2>2, <2>3, CommitTyped DEF ExportCommit, TypeInv
<1>4. QED
  BY <1>1, <1>2, <1>3

-----------------------------------------------------------------------------
(* Payments and their corrections *)

\* What a run has paid for an entry is a payment.
LEMMA PaymentTyped ==
  ASSUME TypeInv, NEW p \in Period, NEW e \in EntryId, NEW m \in Minutes
  PROVE  PaymentBy(p, e, m) \in Payment
<1>1. CurrentRow \in MaybePeriod
  BY DEF TypeInv, CurrentRow, MaybePeriod
<1>2. PendingOf(e) # {} => Newest(PendingOf(e)) \in AdjustmentId
  BY NewestIsOne DEF PendingOf
<1>3. PendingOf(e) # {}
        => adjustments[Newest(PendingOf(e))].exported \in Minutes
  BY <1>2 DEF TypeInv, AdjustmentRow
<1>4. QED
  BY <1>1, <1>2, <1>3 DEF PaymentBy, Payment, MaybePeriod

\* What an edit takes as paid is a payment.
LEMMA EditPaymentTyped ==
  ASSUME TypeInv, NEW e \in EntryId
  PROVE  EditPayment(e) \in Payment
<1> DEFINE relevant == {a \in AdjustmentId :
             /\ adjustments[a].entry = e
             /\ adjustments[a].status \in {"PENDING", "INCLUDED"}}
           a == adjustments[Newest(relevant)]
           source ==
             IF relevant # {} THEN
               IF a.status = "PENDING" THEN <<a.original, a.exported>>
               ELSE <<a.settlement, a.adjusted>>
             ELSE IF entries[e].link # None
             THEN <<entries[e].link, entries[e].minutes>>
             ELSE IF entries[e].late THEN <<entries[e].original, 0>>
             ELSE <<None, 0>>
<1>1. relevant # {} => a \in AdjustmentRow
  BY NewestIsOne DEF TypeInv
<1>2. entries[e] \in EntryRow
  BY DEF TypeInv
<1>3. source[2] \in Minutes
  BY <1>1, <1>2, Bounds DEF AdjustmentRow, EntryRow
<1>4. Exported(source[1]) => source[1] \in Period
  BY DEF Exported
<1>5. EditPayment(e) = IF Exported(source[1])
                       THEN PaymentBy(source[1], e, source[2])
                       ELSE NothingPaid
  BY DEF EditPayment
<1> HIDE DEF source
<1>6. QED
  BY <1>3, <1>4, <1>5, PaymentTyped, IdleTyped

\* What a change of status takes as paid is a payment.
LEMMA StatusPaymentTyped ==
  ASSUME TypeInv, NEW e \in EntryId, NEW op \in StatusOp
  PROVE  StatusPayment(op, e) \in Payment
<1>1. entries[e].minutes \in Minutes
  BY DEF TypeInv, EntryRow
<1>2. \A q : Exported(q) => q \in Period
  BY DEF Exported
<1>3. QED
  BY <1>1, <1>2, PaymentTyped, IdleTyped, Bounds DEF StatusPayment

\* Settling an entry keeps the adjustments well typed.
LEMMA SettleTyped ==
  ASSUME TypeInv, NEW e \in EntryId, NEW paid \in Payment,
         NEW adjusted \in Minutes, Settle(e, paid, adjusted)
  PROVE  adjustments' \in [AdjustmentId -> AdjustmentRow]
<1>1. CASE /\ paid.pending # None
           /\ adjustments' = [adjustments EXCEPT
                ![paid.pending] = Corrected(paid.pending, paid, adjusted)]
  <2>1. paid.pending \in AdjustmentId
    BY <1>1 DEF Payment
  <2>2. Corrected(paid.pending, paid, adjusted) \in AdjustmentRow
    BY <2>1 DEF TypeInv, Corrected, Payment, AdjustmentRow
  <2>3. QED
    BY <1>1, <2>1, <2>2 DEF TypeInv
<1>2. CASE \E a \in AdjustmentId :
             adjustments' = [adjustments EXCEPT
                               ![a] = NewAdjustment(e, paid, adjusted)]
  <2>1. NewAdjustment(e, paid, adjusted) \in AdjustmentRow
    BY DEF NewAdjustment, Payment, AdjustmentRow
  <2>2. QED
    BY <1>2, <2>1 DEF TypeInv
<1>3. CASE UNCHANGED adjustments
  BY <1>3 DEF TypeInv
<1>4. QED
  BY <1>1, <1>2, <1>3 DEF Settle

\* Writing an entry and settling it keeps the types.
LEMMA CommitEntryTyped ==
  ASSUME TypeInv, NEW self \in Session, NEW e \in EntryId,
         NEW row \in EntryRow, row.ref \in Period, NEW adjusted \in Minutes,
         CommitEntry(self, e, row, adjusted)
  PROVE  TypeInv'
<1> DEFINE paid == sess[self].paid
<1>1. paid \in Payment
  BY DEF TypeInv, SessionState
<1>2. CASE Rollback(self)
  BY <1>2, RollbackTyped
<1>3. CASE /\ entries' = [entries EXCEPT ![e] = row]
           /\ Settle(e, paid, adjusted)
           /\ Finish(self)
           /\ UNCHANGED <<periods, current>>
  <2>1. adjustments' \in [AdjustmentId -> AdjustmentRow]
    BY <1>1, <1>3, SettleTyped
  <2>2. entries' \in [EntryId -> EntryRow]
    BY <1>3 DEF TypeInv
  <2>3. /\ RefsOK'
        /\ \A f \in EntryId :
             entries[f].ref \in Period => entries'[f].ref \in Period
    BY <1>3 DEF TypeInv, RefsOK
  <2>4. QED
    BY <1>3, <2>1, <2>2, <2>3, CommitTyped DEF TypeInv
<1>4. QED
  BY <1>2, <1>3 DEF CommitEntry

-----------------------------------------------------------------------------
(* Creating entries and clocking out *)

\* The steps of registering an entry by hand keep the types.
LEMMA CreateTyped ==
  ASSUME TypeInv, NEW self \in Session
  PROVE  /\ \A p \in Period, m \in Minutes :
              CreateEntryBegin(self, p, m) => TypeInv'
         /\ CreateEntryLock(self) => TypeInv'
         /\ CreateEntryCommit(self) => TypeInv'
<1> DEFINE s == sess[self]
<1>0. s \in SessionState /\ SessionOK(s, held[self])
  BY DEF TypeInv
<1>1. ASSUME NEW p \in Period, NEW m \in Minutes, CreateEntryBegin(self, p, m)
      PROVE  TypeInv'
  <2> DEFINE a == [Idle EXCEPT !.op = "createEntry", !.step = "lock",
                               !.period = p, !.minutes = m]
  <2>1. a \in SessionState
    BY IdleTyped DEF SessionState, OpName, MaybePeriod
  <2>2. SessionOK(a, {})
    BY <2>1 DEF SessionOK, SessionState, Idle, HasEntry, EditOp, StatusOp
  <2>3. Begin(self, a)
    BY <1>1 DEF CreateEntryBegin
  <2> HIDE DEF a
  <2>4. QED
    BY <2>1, <2>2, <2>3, BeginTyped
<1>2. ASSUME CreateEntryLock(self) PROVE TypeInv'
  <2>1. s.op = "createEntry" /\ s.period \in Period
    BY <1>0, <1>2 DEF CreateEntryLock, At, SessionOK, HasPeriod, OpName
  <2>2. QED
    BY <1>2, <2>1, AcquireTyped DEF CreateEntryLock
<1>3. ASSUME CreateEntryCommit(self) PROVE TypeInv'
  <2>1. CASE Rollback(self)
    BY <2>1, RollbackTyped
  <2> DEFINE row == [UnusedEntry EXCEPT !.status = "PENDING", !.ref = s.period,
                                        !.minutes = s.minutes]
  <2>2. CASE /\ \E e \in EntryId : entries' = [entries EXCEPT ![e] = row]
             /\ Finish(self)
             /\ UNCHANGED <<periods, adjustments, current>>
    <3>1. s.period \in Period
      BY <1>0, <1>3 DEF CreateEntryCommit, At, SessionOK, HasPeriod, OpName
    <3>2. row \in EntryRow /\ row.ref \in Period
      BY <1>0, <3>1, Bounds
         DEF EntryRow, UnusedEntry, EntryStatus, SessionState, MaybePeriod
    <3> HIDE DEF row
    <3>3. entries' \in [EntryId -> EntryRow]
      BY <2>2, <3>2 DEF TypeInv
    <3>4. /\ RefsOK'
          /\ \A f \in EntryId :
               entries[f].ref \in Period => entries'[f].ref \in Period
      BY <2>2, <3>2 DEF TypeInv, RefsOK
    <3>5. QED
      BY <2>2, <3>3, <3>4, CommitTyped DEF TypeInv
  <2>3. QED
    BY <1>3, <2>1, <2>2 DEF CreateEntryCommit
<1>4. QED
  BY <1>1, <1>2, <1>3

\* The steps of clocking out keep the types.
LEMMA ClockOutTyped ==
  ASSUME TypeInv, NEW self \in Session
  PROVE  /\ \A e \in EntryId, m \in Minutes :
              ClockOutBegin(self, e, m) => TypeInv'
         /\ ClockOutCommit(self) => TypeInv'
<1>1. ASSUME NEW e \in EntryId, NEW m \in Minutes, ClockOutBegin(self, e, m)
      PROVE  TypeInv'
  <2> DEFINE a == [Idle EXCEPT !.op = "clockOut", !.step = "write",
                               !.entry = e, !.minutes = m]
  <2>1. a \in SessionState
    BY IdleTyped DEF SessionState, OpName
  <2>2. entries[e].ref \in Period
    BY <1>1 DEF ClockOutBegin, EditableByEmployee, TypeInv, RefsOK
  <2>3. SessionOK(a, {})
    BY <2>1, <2>2 DEF SessionOK, SessionState, Idle, HasPeriod, EditOp
  <2>4. Begin(self, a)
    BY <1>1 DEF ClockOutBegin
  <2> HIDE DEF a
  <2>5. QED
    BY <2>1, <2>3, <2>4, BeginTyped
<1>2. ASSUME ClockOutCommit(self) PROVE TypeInv'
  <2> DEFINE s == sess[self]
  <2>1. s.entry \in EntryId /\ s.minutes \in Minutes
    BY <1>2 DEF ClockOutCommit, At, TypeInv, SessionOK, SessionState, HasEntry
  <2>2. /\ entries' = [entries EXCEPT ![s.entry].minutes = s.minutes]
        /\ Finish(self) /\ UNCHANGED <<periods, adjustments, current>>
    BY <1>2 DEF ClockOutCommit
  <2>3. /\ entries' \in [EntryId -> EntryRow]
        /\ \A f \in EntryId : /\ entries'[f].status = entries[f].status
                              /\ entries'[f].ref = entries[f].ref
    BY <2>1, <2>2 DEF TypeInv, EntryRow
  <2>4. RefsOK'
    BY <2>3 DEF TypeInv, RefsOK
  <2>5. QED
    BY <2>2, <2>3, <2>4, CommitTyped DEF TypeInv
<1>3. QED
  BY <1>1, <1>2

-----------------------------------------------------------------------------
(* Editing *)

\* The steps of editing and correcting an entry keep the types.
LEMMA EditTyped ==
  ASSUME TypeInv, NEW self \in Session
  PROVE  /\ \A op \in EditOp, e \in EntryId, p \in Period, m \in Minutes :
              EditBegin(self, op, e, p, m) => TypeInv'
         /\ EditLock(self) => TypeInv'
         /\ EditLockSecond(self) => TypeInv'
         /\ EditCheck(self) => TypeInv'
         /\ EditCommit(self) => TypeInv'
<1> DEFINE s == sess[self]
<1>0. s \in SessionState /\ SessionOK(s, held[self])
  BY DEF TypeInv
<1>a. s.op \in EditOp => /\ s.period \in Period /\ s.target \in Period
                         /\ s.entry \in EntryId
                         /\ entries[s.entry].ref \in Period
                         /\ s.op # "lock"
  BY <1>0 DEF SessionOK, HasPeriod, HasEntry, OpName, EditOp
<1>1. ASSUME NEW op \in EditOp, NEW e \in EntryId, NEW p \in Period,
             NEW m \in Minutes, EditBegin(self, op, e, p, m)
      PROVE  TypeInv'
  <2> DEFINE a == [Idle EXCEPT !.op = op, !.step = "lock", !.entry = e,
                               !.period = entries[e].ref, !.target = p,
                               !.minutes = m]
  <2>1. entries[e].ref \in Period
    BY <1>1 DEF EditBegin, MayEdit, EditableByEmployee, EditableByAdmin,
                TypeInv, RefsOK
  <2>2. a \in SessionState
    BY <2>1, IdleTyped DEF SessionState, OpName, EditOp, MaybePeriod
  <2>3. SessionOK(a, {})
    BY <2>1, <2>2 DEF SessionOK, SessionState, Idle, EditOp
  <2>4. Begin(self, a)
    BY <1>1 DEF EditBegin
  <2> HIDE DEF a
  <2>5. QED
    BY <2>2, <2>3, <2>4, BeginTyped
<1>2. ASSUME EditLock(self) PROVE TypeInv'
  <2>1. Earlier(s.period, s.target) \in Period
    BY <1>a, <1>2 DEF EditLock, Earlier
  <2>2. QED
    BY <1>a, <1>2, <2>1, AcquireTyped DEF EditLock
<1>3. ASSUME EditLockSecond(self) PROVE TypeInv'
  <2>1. Later(s.period, s.target) \in Period
    BY <1>a, <1>3 DEF EditLockSecond, Later
  <2>2. QED
    BY <1>a, <1>3, <2>1, AcquireTyped DEF EditLockSecond
<1>4. ASSUME EditCheck(self) PROVE TypeInv'
  <2> DEFINE a == [s EXCEPT !.step = "write", !.paid = EditPayment(s.entry)]
  <2>1. CASE /\ sess' = [sess EXCEPT ![self].step = "write",
                                     ![self].paid = EditPayment(s.entry)]
             /\ UNCHANGED <<tables, current, held>>
    <3>1. s.entry \in EntryId /\ s.op # "lock"
      BY <1>a, <1>4 DEF EditCheck
    <3>2. a \in SessionState
      BY <1>0, <3>1, EditPaymentTyped DEF SessionState
    <3>3. sess' = [sess EXCEPT ![self] = a]
      BY <2>1 DEF TypeInv
    <3>4. SessionOK(a, held[self])
      BY <1>0, <3>1 DEF SessionOK, SessionState
    <3> HIDE DEF a
    <3>5. QED
      BY <2>1, <3>2, <3>3, <3>4, QuietTyped
  <2>2. QED
    BY <1>4, <2>1, RollbackTyped DEF EditCheck
<1>5. ASSUME EditCommit(self) PROVE TypeInv'
  <2> DEFINE status == IF s.op = "editOwn" THEN "PENDING"
                       ELSE entries[s.entry].status
             row == [entries[s.entry] EXCEPT
                       !.ref = s.target, !.minutes = s.minutes,
                       !.status = status]
  <2>1. s.entry \in EntryId /\ s.target \in Period /\ s.minutes \in Minutes
    BY <1>0, <1>a, <1>5 DEF EditCommit, SessionState
  <2>2. entries[s.entry] \in EntryRow /\ status \in EntryStatus
    BY <2>1 DEF TypeInv, EntryRow, EntryStatus
  <2>3. CommitEntry(self, s.entry, row, s.minutes)
    BY <1>5 DEF EditCommit
  <2> HIDE DEF status
  <2>4. row \in EntryRow /\ row.ref \in Period
    BY <2>1, <2>2 DEF EntryRow, MaybePeriod
  <2> HIDE DEF row
  <2>5. QED
    BY <2>1, <2>3, <2>4, CommitEntryTyped
<1>6. QED
  BY <1>1, <1>2, <1>3, <1>4, <1>5

-----------------------------------------------------------------------------
(* Approving, unapproving, sending back and voiding *)

\* The steps of approving, withdrawing, rejecting and voiding keep the types.
LEMMA StatusTyped ==
  ASSUME TypeInv, NEW self \in Session
  PROVE  /\ \A op \in StatusOp, e \in EntryId :
              StatusBegin(self, op, e) => TypeInv'
         /\ StatusLock(self) => TypeInv'
         /\ StatusCheck(self) => TypeInv'
         /\ ApproveCommit(self) => TypeInv'
         /\ UnapproveCommit(self) => TypeInv'
         /\ RejectCommit(self) => TypeInv'
         /\ VoidCommit(self) => TypeInv'
<1> DEFINE s == sess[self]
<1>0. s \in SessionState /\ SessionOK(s, held[self])
  BY DEF TypeInv
<1>a. s.op \in StatusOp => /\ s.period \in Period
                           /\ s.entry \in EntryId
                           /\ entries[s.entry] \in EntryRow
                           /\ entries[s.entry].ref \in Period
                           /\ entries[s.entry].minutes \in Minutes
                           /\ s.op # "lock"
  BY <1>0 DEF SessionOK, HasPeriod, HasEntry, OpName, StatusOp, TypeInv,
              EntryRow
<1>1. ASSUME NEW op \in StatusOp, NEW e \in EntryId, StatusBegin(self, op, e)
      PROVE  TypeInv'
  <2> DEFINE a == [Idle EXCEPT !.op = op, !.step = "lock", !.entry = e,
                               !.period = entries[e].ref]
  <2>1. entries[e].ref \in Period
    BY <1>1 DEF StatusBegin, TypeInv, RefsOK
  <2>2. a \in SessionState
    BY <2>1, IdleTyped DEF SessionState, OpName, StatusOp, MaybePeriod
  <2>3. SessionOK(a, {})
    BY <2>1, <2>2 DEF SessionOK, SessionState, Idle, StatusOp, EditOp
  <2>4. Begin(self, a)
    BY <1>1 DEF StatusBegin
  <2> HIDE DEF a
  <2>5. QED
    BY <2>2, <2>3, <2>4, BeginTyped
<1>2. ASSUME StatusLock(self) PROVE TypeInv'
  BY <1>a, <1>2, AcquireTyped DEF StatusLock
<1>3. ASSUME StatusCheck(self) PROVE TypeInv'
  <2> DEFINE a == [s EXCEPT !.step = "write",
                            !.paid = StatusPayment(s.op, s.entry)]
  <2>1. CASE /\ sess' = [sess EXCEPT ![self].step = "write",
                            ![self].paid = StatusPayment(s.op, s.entry)]
             /\ UNCHANGED <<tables, current, held>>
    <3>1. s.entry \in EntryId /\ s.op \in StatusOp /\ s.op # "lock"
      BY <1>a, <1>3 DEF StatusCheck
    <3>2. a \in SessionState
      BY <1>0, <3>1, StatusPaymentTyped DEF SessionState
    <3>3. sess' = [sess EXCEPT ![self] = a]
      BY <2>1 DEF TypeInv
    <3>4. SessionOK(a, held[self])
      BY <1>0, <3>1 DEF SessionOK, SessionState
    <3> HIDE DEF a
    <3>5. QED
      BY <2>1, <3>2, <3>3, <3>4, QuietTyped
  <2>2. QED
    BY <1>3, <2>1, RollbackTyped DEF StatusCheck
<1>4. ASSUME ApproveCommit(self) PROVE TypeInv'
  <2> DEFINE late == s.paid.original # None
             row == [entries[s.entry] EXCEPT
                       !.status = "APPROVED", !.late = late,
                       !.original = s.paid.original,
                       !.link = IF late THEN None
                                ELSE IF HasRow(s.period) THEN s.period ELSE @]
  <2>1. s.op \in StatusOp
    BY <1>4 DEF ApproveCommit, At, StatusOp
  <2>2. s.paid.original \in MaybePeriod
    BY <1>0 DEF SessionState, Payment
  <2>3. row \in EntryRow /\ row.ref \in Period
    BY <1>a, <2>1, <2>2 DEF EntryRow, EntryStatus, MaybePeriod
  <2>4. CommitEntry(self, s.entry, row, entries[s.entry].minutes)
    BY <1>4 DEF ApproveCommit
  <2> HIDE DEF row
  <2>5. QED
    BY <1>a, <2>1, <2>3, <2>4, CommitEntryTyped
<1>5. ASSUME UnapproveCommit(self) PROVE TypeInv'
  <2> DEFINE row == IF s.paid.original = None
                    THEN [entries[s.entry] EXCEPT !.status = "PENDING"]
                    ELSE [entries[s.entry] EXCEPT
                            !.status = "PENDING", !.link = None,
                            !.late = FALSE, !.original = None]
  <2>1. s.op \in StatusOp
    BY <1>5 DEF UnapproveCommit, At, StatusOp
  <2>2. row \in EntryRow /\ row.ref \in Period
    BY <1>a, <2>1 DEF EntryRow, EntryStatus, MaybePeriod
  <2>3. CommitEntry(self, s.entry, row, 0)
    BY <1>5 DEF UnapproveCommit
  <2> HIDE DEF row
  <2>4. QED
    BY <1>a, <2>1, <2>2, <2>3, CommitEntryTyped, Bounds
<1>6. ASSUME NEW status \in {"NEEDS_CHANGES", "VOIDED"}, s.op \in StatusOp,
             CommitEntry(self, s.entry,
                         [entries[s.entry] EXCEPT !.status = status], 0)
      PROVE  TypeInv'
  <2> DEFINE row == [entries[s.entry] EXCEPT !.status = status]
  <2>1. row \in EntryRow /\ row.ref \in Period
    BY <1>a, <1>6 DEF EntryRow, EntryStatus
  <2>2. CommitEntry(self, s.entry, row, 0)
    BY <1>6
  <2> HIDE DEF row
  <2>3. QED
    BY <1>a, <1>6, <2>1, <2>2, CommitEntryTyped, Bounds
<1>7. RejectCommit(self) => TypeInv'
  BY <1>6 DEF RejectCommit, At, StatusOp
<1>8. VoidCommit(self) => TypeInv'
  BY <1>6 DEF VoidCommit, At, StatusOp
<1>9. QED
  BY <1>1, <1>2, <1>3, <1>4, <1>5, <1>7, <1>8

-----------------------------------------------------------------------------
\* The initial state is well typed.
LEMMA InitTyped == Init => TypeInv
<1> SUFFICES ASSUME Init PROVE TypeInv
  OBVIOUS
<1> USE DEF Init, PayrollInit
<1>1. NoPeriodRow \in PeriodRow
  BY Bounds DEF NoPeriodRow, PeriodRow
<1>2. UnusedEntry \in EntryRow /\ UnusedEntry.status = "unused"
  BY Bounds DEF UnusedEntry, EntryRow, EntryStatus, MaybePeriod
<1>3. UnusedAdjustment \in AdjustmentRow
  BY Bounds DEF UnusedAdjustment, AdjustmentRow, MaybePeriod
<1>4. TypeOK
  BY <1>1, <1>2, <1>3, IdleTyped, Bounds
<1>5. RefsOK
  BY <1>2 DEF RefsOK
<1>6. LocksExclude
  BY DEF LocksExclude
<1>7. \A q \in Session : SessionOK(sess[q], held[q])
  BY IdleTyped DEF SessionOK, HasPeriod, HasEntry, OpName, EditOp, StatusOp
<1>8. QED
  BY <1>4, <1>5, <1>6, <1>7 DEF TypeInv

\* Every step keeps the types.
LEMMA NextTyped == TypeInv /\ [Next]_vars => TypeInv'
<1> SUFFICES ASSUME TypeInv, [Next]_vars PROVE TypeInv'
  OBVIOUS
<1>1. ASSUME NEW self \in Session, EntryRequest(self) \/ EntryStep(self)
      PROVE  TypeInv'
  BY <1>1, CreateTyped, ClockOutTyped, EditTyped, StatusTyped
     DEF EntryRequest, EntryStep
<1>2. ASSUME NEW self \in Session, PeriodRequest(self) \/ PeriodStep(self)
      PROVE  TypeInv'
  BY <1>2, LockTyped, UnlockTyped, ExportTyped DEF PeriodRequest, PeriodStep
<1>3. ASSUME NEW self \in Session, Crash(self)
      PROVE  TypeInv'
  BY <1>3, RollbackTyped DEF Crash
<1>4. CASE NextPeriodBegins
  <2>1. current' \in Period
    BY <1>4, Bounds DEF NextPeriodBegins, TypeInv, Period
  <2>2. UNCHANGED <<periods, entries, adjustments, held, sess>>
    BY <1>4 DEF NextPeriodBegins, tables
  <2>3. QED
    BY <2>1, <2>2 DEF TypeInv, RefsOK, LocksExclude, SessionOK
<1>5. CASE UNCHANGED vars
  <2>1. UNCHANGED <<periods, entries, adjustments, current, held, sess>>
    BY <1>5 DEF vars
  <2>2. QED
    BY <2>1 DEF TypeInv, RefsOK, LocksExclude, SessionOK
<1>6. QED
  BY <1>1, <1>2, <1>3, <1>4, <1>5 DEF Next

HIDE DEF TypeOK, PayrollTypeOK

\* However requests interleave, crash and time out, every payroll column holds
\* a value of its enumeration or an id of its table and a run pays
\* minutes that an entry can have.
THEOREM TypeCorrect == Spec => []TypeOK
<1>1. TypeInv => TypeOK
  BY DEF TypeInv
<1>2. QED
  BY <1>1, InitTyped, NextTyped, PTL DEF Spec

-----------------------------------------------------------------------------
(* FrozenWhileLocked is not inductive.  A commit trusts what its check read *)
(* under the period locks, so CheckHolds says what that was and that it is  *)
(* still true; and withdrawing or voiding an entry is refused because the   *)
(* entry is linked to its locked period, which LockedEntriesLinked says.    *)

\* The columns that decide what an entry is worth, and where.
Same(e) == /\ entries'[e].ref = entries[e].ref
           /\ entries'[e].status = entries[e].status
           /\ entries'[e].minutes = entries[e].minutes

\* What an entry is worth in a locked period cannot be touched: it is linked
\* to the period and locked, and only an exported period lets go of it.
LockedEntriesLinked ==
  \A p \in Period, e \in EntryId :
    Locked(p) /\ entries[e].ref = p /\ Worth(e) > 0
      => entries[e].link = p /\ entries[e].locked

UnusedBlank ==
  \A e \in EntryId : entries[e].status = "unused" => entries[e].ref = None

\* What a handler has found out under its period locks still holds.
CheckHolds(a, locks) ==
  /\ a.op # "clockOut"
  /\ a.op = "createEntry" /\ a.step = "write" => a.period \in locks
  /\ a.op \in EditOp /\ a.step = "lockSecond"
       => Earlier(a.period, a.target) \in locks
  /\ a.op \in EditOp /\ a.step \in {"check", "write"}
       => a.period \in locks /\ a.target \in locks
  /\ a.op \in EditOp /\ a.step = "write" =>
       /\ entries[a.entry].ref = a.period
       /\ ~Locked(a.target)
       /\ a.period # a.target => entries[a.entry].status # "APPROVED"
  /\ a.op \in StatusOp /\ a.step \in {"check", "write"} => a.period \in locks
  /\ a.op \in StatusOp /\ a.step = "write" =>
       /\ entries[a.entry].ref = a.period
       /\ Locked(a.period) => a.op # "approve" /\ Worth(a.entry) = 0
  /\ a.op = "lock" /\ a.step \in {"include", "write"} =>
       \A e \in EntryId :
         /\ entries[e].ref = a.period /\ Worth(e) > 0 => e \in a.rows
         /\ e \in a.rows => entries[e].ref = a.period

FreezeInv ==
  /\ FrozenWhileLocked
  /\ LockedEntriesLinked
  /\ UnusedBlank
  /\ \A q \in Session : CheckHolds(sess[q], held[q])

Inv == TypeInv /\ FreezeInv

\* A step that changes entries only in periods it has locked, moves them only
\* into such, and locks only such a period.
Guarded(self) ==
  /\ \A e \in EntryId :
       \/ Same(e)
       \/ /\ entries[e].ref \in held[self] \cup {None}
          /\ entries'[e].ref \in held[self]
  /\ \A p \in Period : Locked(p)' => Locked(p) \/ p \in held[self]

USE DEF None, TypeOK, PayrollTypeOK

\* What an entry is worth is a number of minutes.
LEMMA WorthTyped ==
  ASSUME TypeInv, NEW e \in EntryId
  PROVE  Worth(e) \in Minutes /\ Worth(e) \in Nat
BY Bounds DEF TypeInv, EntryRow, Worth, Minutes

\* What other handlers have checked is not touched by a guarded step.
LEMMA OthersHold ==
  ASSUME Inv, NEW self \in Session, NEW q \in Session \ {self}, Guarded(self),
         sess'[q] = sess[q], held'[q] = held[q]
  PROVE  CheckHolds(sess[q], held[q])'
<1> DEFINE a == sess[q]
<1>1. CheckHolds(a, held[q]) /\ SessionOK(a, held[q])
  BY DEF Inv, FreezeInv, TypeInv
<1>2. ASSUME NEW p \in held[q]
      PROVE  /\ p \in Period /\ p \notin held[self] /\ p # None
             /\ Locked(p)' => Locked(p)
             /\ \A e \in EntryId :
                  entries[e].ref = p \/ entries'[e].ref = p => Same(e)
  <2>1. p \in Period /\ p \notin held[self] /\ p # None
    BY Bounds DEF Inv, TypeInv, LocksExclude
  <2>2. QED
    BY <2>1 DEF Guarded
<1>3. \A e \in EntryId : Same(e) => Worth(e)' = Worth(e)
  BY DEF Same, Worth
<1>4. a.op \in EditOp /\ a.step = "write" =>
        /\ entries'[a.entry].ref = a.period
        /\ ~Locked(a.target)'
        /\ a.period # a.target => entries'[a.entry].status # "APPROVED"
  <2> SUFFICES ASSUME a.op \in EditOp, a.step = "write"
      PROVE  /\ entries'[a.entry].ref = a.period
             /\ ~Locked(a.target)'
             /\ a.period # a.target => entries'[a.entry].status # "APPROVED"
    OBVIOUS
  <2>1. a.entry \in EntryId /\ a.period \in held[q] /\ a.target \in held[q]
    BY <1>1 DEF CheckHolds, SessionOK, HasEntry
  <2>2. entries[a.entry].ref = a.period /\ ~Locked(a.target)
    BY <1>1 DEF CheckHolds
  <2>3. Same(a.entry)
    BY <1>2, <2>1, <2>2
  <2>4. QED
    BY <1>1, <1>2, <2>1, <2>2, <2>3 DEF CheckHolds, Same
<1>5. a.op \in StatusOp /\ a.step = "write" =>
        /\ entries'[a.entry].ref = a.period
        /\ Locked(a.period)' => a.op # "approve" /\ Worth(a.entry)' = 0
  <2> SUFFICES ASSUME a.op \in StatusOp, a.step = "write"
      PROVE  /\ entries'[a.entry].ref = a.period
             /\ Locked(a.period)' => a.op # "approve" /\ Worth(a.entry)' = 0
    OBVIOUS
  <2>1. a.entry \in EntryId /\ a.period \in held[q]
    BY <1>1 DEF CheckHolds, SessionOK, HasEntry
  <2>2. entries[a.entry].ref = a.period
    BY <1>1 DEF CheckHolds
  <2>3. Same(a.entry)
    BY <1>2, <2>1, <2>2
  <2>4. entries'[a.entry].ref = a.period
    BY <2>2, <2>3 DEF Same
  <2>5. Worth(a.entry)' = Worth(a.entry)
    BY <1>3, <2>1, <2>3
  <2>6. QED
    BY <1>1, <1>2, <2>1, <2>4, <2>5 DEF CheckHolds
<1>6. a.op = "lock" /\ a.step \in {"include", "write"} =>
        \A e \in EntryId :
          /\ entries'[e].ref = a.period /\ Worth(e)' > 0 => e \in a.rows
          /\ e \in a.rows => entries'[e].ref = a.period
  <2> SUFFICES ASSUME a.op = "lock", a.step \in {"include", "write"},
                      NEW e \in EntryId
      PROVE  /\ entries'[e].ref = a.period /\ Worth(e)' > 0 => e \in a.rows
             /\ e \in a.rows => entries'[e].ref = a.period
    OBVIOUS
  <2>1. a.period \in held[q]
    BY <1>1 DEF SessionOK
  <2>2. /\ entries[e].ref = a.period /\ Worth(e) > 0 => e \in a.rows
        /\ e \in a.rows => entries[e].ref = a.period
    BY <1>1 DEF CheckHolds
  <2>3. Same(e) => entries'[e].ref = entries[e].ref /\ Worth(e)' = Worth(e)
    BY <1>3 DEF Same
  <2>4. QED
    BY <1>2, <2>1, <2>2, <2>3
<1>7. QED
  BY <1>1, <1>4, <1>5, <1>6 DEF CheckHolds

\* A step of a handler that writes no table.
LEMMA StepHolds ==
  ASSUME Inv, NEW self \in Session, NEW a \in SessionState,
         sess' = [sess EXCEPT ![self] = a],
         \A q \in Session \ {self} : held'[q] = held[q],
         UNCHANGED tables, CheckHolds(a, held'[self])
  PROVE  FreezeInv'
<1>1. UNCHANGED <<periods, entries, adjustments>>
  BY DEF tables
<1>2. /\ FrozenWhileLocked' /\ LockedEntriesLinked' /\ UnusedBlank'
  BY <1>1 DEF Inv, FreezeInv, FrozenWhileLocked, LockedEntriesLinked,
              UnusedBlank, Locked, Worth
<1>3. \A b, locks : CheckHolds(b, locks) => CheckHolds(b, locks)'
  BY <1>1 DEF CheckHolds, Locked, Worth
<1>4. sess'[self] = a /\ \A q \in Session \ {self} : sess'[q] = sess[q]
  BY DEF Inv, TypeInv
<1>5. QED
  BY <1>2, <1>3, <1>4 DEF Inv, FreezeInv

\* A handler ends with a commit that keeps the locked periods frozen.
LEMMA CommitHolds ==
  ASSUME Inv, NEW self \in Session, Finish(self), Guarded(self),
         FrozenWhileLocked', LockedEntriesLinked', UnusedBlank'
  PROVE  FreezeInv'
<1>1. TypeInv
  BY DEF Inv
<1>2. \A q \in Session \ {self} : CheckHolds(sess[q], held[q])'
  BY <1>1, FinishTyped, OthersHold
<1>3. CheckHolds(sess[self], held[self])'
  BY <1>1, FinishTyped DEF CheckHolds, EditOp, StatusOp
<1>4. QED
  BY <1>2, <1>3 DEF FreezeInv

\* A refused request freezes no less than before.
LEMMA RollbackHolds ==
  ASSUME Inv, NEW self \in Session, Rollback(self)
  PROVE  FreezeInv'
<1>1. Finish(self) /\ UNCHANGED <<periods, entries, adjustments>>
  BY DEF Rollback, tables
<1>2. /\ FrozenWhileLocked' /\ LockedEntriesLinked' /\ UnusedBlank'
  BY <1>1 DEF Inv, FreezeInv, FrozenWhileLocked, LockedEntriesLinked,
              UnusedBlank, Locked, Worth
<1>3. Guarded(self)
  BY <1>1 DEF Guarded, Same, Locked
<1>4. QED
  BY <1>1, <1>2, <1>3, CommitHolds

\* The commit of one entry: its periods are locked by the handler, and what
\* it is worth in a locked period is nothing, before and after.
LEMMA EntryHolds ==
  ASSUME Inv, NEW self \in Session, NEW e \in EntryId, NEW row \in EntryRow,
         Finish(self), entries' = [entries EXCEPT ![e] = row],
         periods' = periods,
         entries[e].ref \in held[self] \cup {None}, row.ref \in held[self],
         row.status # "unused",
         Locked(row.ref) => row.status # "APPROVED",
         Locked(entries[e].ref) => Worth(e) = 0
  PROVE  FreezeInv'
<1>1. /\ entries'[e] = row
      /\ \A f \in EntryId \ {e} : entries'[f] = entries[f]
  BY DEF Inv, TypeInv
<1>2. \A p : Locked(p)' <=> Locked(p)
  BY DEF Locked
<1>3. \A f \in EntryId \ {e} : Worth(f)' = Worth(f)
  BY <1>1 DEF Worth
<1>4. Locked(row.ref) => Worth(e)' = 0
  BY <1>1 DEF Worth
<1>5. FrozenWhileLocked'
  <2> SUFFICES ASSUME NEW p \in Period, Locked(p), NEW f \in EntryId
      PROVE  periods[p].lines[f] = IF entries'[f].ref = p THEN Worth(f)' ELSE 0
    BY <1>2 DEF FrozenWhileLocked
  <2>1. periods[p].lines[f] = IF entries[f].ref = p THEN Worth(f) ELSE 0
    BY DEF Inv, FreezeInv, FrozenWhileLocked
  <2>2. QED
    BY <1>1, <1>3, <1>4, <2>1
<1>6. LockedEntriesLinked'
  <2> SUFFICES ASSUME NEW p \in Period, Locked(p), NEW f \in EntryId,
                      entries'[f].ref = p, Worth(f)' > 0
      PROVE  entries'[f].link = p /\ entries'[f].locked
    BY <1>2 DEF LockedEntriesLinked
  <2>1. f # e
    BY <1>1, <1>4
  <2>2. QED
    BY <1>1, <1>3, <2>1 DEF Inv, FreezeInv, LockedEntriesLinked
<1>7. UnusedBlank'
  BY <1>1 DEF Inv, FreezeInv, UnusedBlank
<1>8. Guarded(self)
  BY <1>1, <1>2 DEF Guarded, Same
<1>9. QED
  BY <1>5, <1>6, <1>7, <1>8, CommitHolds

\* Under the locks of both periods, writing an entry leaves the frozen ones alone.
LEMMA CommitEntryHolds ==
  ASSUME Inv, NEW self \in Session, NEW e \in EntryId, NEW row \in EntryRow,
         NEW adjusted, CommitEntry(self, e, row, adjusted),
         entries[e].ref \in held[self], row.ref \in held[self],
         row.status # "unused",
         Locked(row.ref) => row.status # "APPROVED",
         Locked(entries[e].ref) => Worth(e) = 0
  PROVE  FreezeInv'
<1>1. CASE Rollback(self)
  BY <1>1, RollbackHolds
<1>2. CASE /\ entries' = [entries EXCEPT ![e] = row]
           /\ Finish(self) /\ UNCHANGED <<periods, current>>
  BY <1>2, EntryHolds
<1>3. QED
  BY <1>1, <1>2 DEF CommitEntry

\* A handler starts without a check behind it.
LEMMA BeginHolds ==
  ASSUME Inv, NEW self \in Session, NEW a \in SessionState, Begin(self, a),
         a.op # "clockOut", a.step = "lock" \/ a.op \in {"unlock", "export"}
  PROVE  FreezeInv'
<1>1. CheckHolds(a, held'[self])
  BY DEF CheckHolds, EditOp, StatusOp
<1>2. QED
  BY <1>1, StepHolds DEF Begin

\* Taking the lock of a period keeps what the holder has checked.
LEMMA AcquireHolds ==
  ASSUME Inv, NEW self \in Session, NEW p \in Period,
         NEW next \in {"lockSecond", "check", "write"},
         AcquirePeriod(self, p, next),
         CheckHolds([sess[self] EXCEPT !.step = next], held[self] \cup {p})
  PROVE  FreezeInv'
<1> DEFINE a == [sess[self] EXCEPT !.step = next]
<1>1. a \in SessionState
  BY DEF Inv, TypeInv, SessionState
<1>2. /\ sess' = [sess EXCEPT ![self] = a]
      /\ held'[self] = held[self] \cup {p}
      /\ \A q \in Session \ {self} : held'[q] = held[q]
      /\ UNCHANGED tables
  BY DEF AcquirePeriod, Goto, Inv, TypeInv
<1>3. CheckHolds(a, held'[self])
  BY <1>2
<1> HIDE DEF a
<1>4. QED
  BY <1>1, <1>2, <1>3, StepHolds

\* A step that takes no lock.
LEMMA QuietHolds ==
  ASSUME Inv, NEW self \in Session, NEW a \in SessionState,
         sess' = [sess EXCEPT ![self] = a], UNCHANGED <<tables, current, held>>,
         CheckHolds(a, held[self])
  PROVE  FreezeInv'
BY StepHolds

-----------------------------------------------------------------------------
(* Locking, unlocking and exporting *)

\* Locking a period keeps the frozen entries as the run lists them.
LEMMA LockHolds ==
  ASSUME Inv, NEW self \in Session
  PROVE  /\ \A p \in Period : LockPeriodBegin(self, p) => FreezeInv'
         /\ LockPeriodAcquire(self) => FreezeInv'
         /\ LockPeriodCheck(self) => FreezeInv'
         /\ LockPeriodInclude(self) => FreezeInv'
         /\ LockPeriodCommit(self) => FreezeInv'
<1> DEFINE s == sess[self]
<1>0. /\ s \in SessionState /\ SessionOK(s, held[self])
      /\ CheckHolds(s, held[self])
  BY DEF Inv, TypeInv, FreezeInv
<1>a. s.op = "lock" => s.period \in Period
  BY <1>0 DEF SessionOK, HasPeriod, OpName
<1>1. ASSUME NEW p \in Period, LockPeriodBegin(self, p) PROVE FreezeInv'
  <2> DEFINE a == [Idle EXCEPT !.op = "lock", !.step = "lock", !.period = p]
  <2>1. a \in SessionState /\ a.op = "lock" /\ a.step = "lock"
    BY IdleTyped DEF SessionState, OpName, MaybePeriod
  <2>2. Begin(self, a)
    BY <1>1 DEF LockPeriodBegin
  <2> HIDE DEF a
  <2>3. QED
    BY <2>1, <2>2, BeginHolds
<1>2. ASSUME LockPeriodAcquire(self) PROVE FreezeInv'
  <2>1. s.op = "lock" /\ AcquirePeriod(self, s.period, "check")
    BY <1>2 DEF LockPeriodAcquire, At
  <2>2. CheckHolds([s EXCEPT !.step = "check"], held[self] \cup {s.period})
    BY <1>0, <2>1 DEF CheckHolds, SessionState, EditOp, StatusOp
  <2>3. QED
    BY <1>a, <2>1, <2>2, AcquireHolds
<1>3. ASSUME LockPeriodCheck(self) PROVE FreezeInv'
  <2> DEFINE closed == {e \in EntryId :
                          entries[e].ref = s.period /\ entries[e].minutes > 0}
             a == [s EXCEPT !.step = "include", !.rows = closed]
  <2>1. s.op = "lock"
    BY <1>3 DEF LockPeriodCheck, At
  <2>2. CASE /\ sess' = [sess EXCEPT ![self].step = "include",
                                     ![self].rows = closed]
             /\ UNCHANGED <<tables, current, held>>
    <3>1. /\ a \in SessionState /\ a.op = "lock" /\ a.period = s.period
          /\ a.rows = closed
      BY <1>0, <2>1 DEF SessionState
    <3>2. sess' = [sess EXCEPT ![self] = a]
      BY <2>2 DEF Inv, TypeInv
    <3>3. \A e \in EntryId : Worth(e) > 0 => entries[e].minutes > 0
      BY DEF Worth
    <3> HIDE DEF a
    <3>4. CheckHolds(a, held[self])
      BY <3>1, <3>3 DEF CheckHolds, EditOp, StatusOp
    <3>5. QED
      BY <2>2, <3>1, <3>2, <3>4, QuietHolds
  <2>3. QED
    BY <1>3, <2>2, RollbackHolds DEF LockPeriodCheck
<1>4. ASSUME LockPeriodInclude(self) PROVE FreezeInv'
  <2> DEFINE a == [s EXCEPT !.step = "write",
                            !.pendings = Includable(s.period)]
  <2>1. s.op = "lock" /\ s.step = "include"
    BY <1>4 DEF LockPeriodInclude, At
  <2>2. /\ a \in SessionState /\ a.op = "lock" /\ a.period = s.period
        /\ a.rows = s.rows
    BY <1>0, <2>1 DEF SessionState, Includable
  <2>3. /\ sess' = [sess EXCEPT ![self] = a]
        /\ UNCHANGED <<tables, current, held>>
    BY <1>4 DEF Inv, TypeInv, LockPeriodInclude
  <2> HIDE DEF a
  <2>4. CheckHolds(a, held[self])
    BY <1>0, <2>1, <2>2 DEF CheckHolds, EditOp, StatusOp
  <2>5. QED
    BY <2>2, <2>3, <2>4, QuietHolds
<1>5. ASSUME LockPeriodCommit(self) PROVE FreezeInv'
  <2> DEFINE p == s.period
             row == [status |-> "LOCKED", run |-> periods[p].run + 1,
                     lines |-> RunLines(p), deltas |-> RunDeltas(p, s.pendings)]
  <2>1. /\ p \in Period /\ p \in held[self]
        /\ \A e \in EntryId : /\ entries[e].ref = p /\ Worth(e) > 0 => e \in s.rows
                              /\ e \in s.rows => entries[e].ref = p
    BY <1>0, <1>a, <1>5 DEF LockPeriodCommit, At, SessionOK, CheckHolds
  <2>2. /\ periods' = [periods EXCEPT ![p] = row]
        /\ entries' = [e \in EntryId |->
             IF e \in s.rows THEN [entries[e] EXCEPT !.link = p, !.locked = TRUE]
             ELSE entries[e]]
        /\ Finish(self)
    BY <1>5 DEF LockPeriodCommit
  <2>3. periods'[p] = row /\ \A q \in Period \ {p} : periods'[q] = periods[q]
    BY <2>1, <2>2 DEF Inv, TypeInv
  <2>4. row.lines = RunLines(p)
    OBVIOUS
  <2> HIDE DEF row
  <2>5. /\ \A e \in EntryId : Same(e)
        /\ \A e \in EntryId : e \in s.rows
             => entries'[e].link = p /\ entries'[e].locked
        /\ \A e \in EntryId : e \notin s.rows => entries'[e] = entries[e]
    BY <2>2 DEF Inv, TypeInv, EntryRow, Same
  <2>6. \A e \in EntryId : Worth(e)' = Worth(e)
    BY <2>5 DEF Same, Worth
  <2>7. \A q \in Period \ {p} : Locked(q)' <=> Locked(q)
    BY <2>3 DEF Locked
  <2>8. FrozenWhileLocked'
    <3> SUFFICES ASSUME NEW q \in Period, Locked(q)', NEW e \in EntryId
        PROVE  periods'[q].lines[e] = IF entries[e].ref = q THEN Worth(e) ELSE 0
      BY <2>5, <2>6 DEF FrozenWhileLocked, Same
    <3>1. CASE q = p
      BY <2>3, <2>4, <3>1 DEF RunLines, Worth
    <3>2. CASE q # p
      BY <2>3, <2>7, <3>2 DEF Inv, FreezeInv, FrozenWhileLocked
    <3>3. QED
      BY <3>1, <3>2
  <2>9. LockedEntriesLinked'
    <3> SUFFICES ASSUME NEW q \in Period, Locked(q)', NEW e \in EntryId,
                        entries[e].ref = q, Worth(e) > 0
        PROVE  entries'[e].link = q /\ entries'[e].locked
      BY <2>5, <2>6 DEF LockedEntriesLinked, Same
    <3>1. CASE q = p
      BY <2>1, <2>5, <3>1
    <3>2. CASE q # p
      BY <2>1, <2>5, <2>7, <3>2 DEF Inv, FreezeInv, LockedEntriesLinked
    <3>3. QED
      BY <3>1, <3>2
  <2>10. UnusedBlank'
    BY <2>5 DEF Inv, FreezeInv, UnusedBlank, Same
  <2>11. Guarded(self)
    <3>1. \A q : Locked(q)' => q \in Period
      BY DEF Locked
    <3>2. QED
      BY <2>1, <2>5, <2>7, <3>1 DEF Guarded
  <2>12. QED
    BY <2>2, <2>8, <2>9, <2>10, <2>11, CommitHolds
<1>6. QED
  BY <1>1, <1>2, <1>3, <1>4, <1>5

\* A commit that only ends the lock of period p: it keeps the lines of every
\* run and may let go of the entries linked to p.
LEMMA ReleaseHolds ==
  ASSUME Inv, NEW self \in Session, NEW p \in Period,
         NEW status \in {"UNLOCKED", "EXPORTED"}, Finish(self),
         periods' = [periods EXCEPT ![p].status = status],
         \A e \in EntryId : Same(e),
         \A e \in EntryId : entries[e].link # p => entries'[e] = entries[e]
  PROVE  FreezeInv'
<1>1. /\ \A q \in Period : periods'[q].lines = periods[q].lines
      /\ \A q \in Period : Locked(q)' <=> Locked(q) /\ q # p
  BY DEF Inv, TypeInv, PeriodRow, Locked
<1>2. \A e \in EntryId : Worth(e)' = Worth(e) /\ entries'[e].ref = entries[e].ref
  BY DEF Same, Worth
<1>3. FrozenWhileLocked'
  BY <1>1, <1>2 DEF Inv, FreezeInv, FrozenWhileLocked
<1>4. LockedEntriesLinked'
  BY <1>1, <1>2 DEF Inv, FreezeInv, LockedEntriesLinked
<1>5. UnusedBlank'
  BY DEF Inv, FreezeInv, UnusedBlank, Same
<1>6. Guarded(self)
  BY <1>1 DEF Guarded
<1>7. QED
  BY <1>3, <1>4, <1>5, <1>6, CommitHolds

\* Unlocking a period frees its entries, and no request has checked them.
LEMMA UnlockHolds ==
  ASSUME Inv, NEW self \in Session
  PROVE  /\ \A p \in Period : UnlockPeriodBegin(self, p) => FreezeInv'
         /\ UnlockPeriodCommit(self) => FreezeInv'
<1>1. ASSUME NEW p \in Period, UnlockPeriodBegin(self, p) PROVE FreezeInv'
  <2> DEFINE a == [Idle EXCEPT !.op = "unlock", !.step = "write", !.period = p]
  <2>1. a \in SessionState /\ a.op = "unlock"
    BY IdleTyped DEF SessionState, OpName, MaybePeriod
  <2>2. Begin(self, a)
    BY <1>1 DEF UnlockPeriodBegin
  <2> HIDE DEF a
  <2>3. QED
    BY <2>1, <2>2, BeginHolds
<1>2. ASSUME UnlockPeriodCommit(self) PROVE FreezeInv'
  <2> DEFINE p == sess[self].period
  <2>1. p \in Period
    BY <1>2 DEF UnlockPeriodCommit, At, Inv, TypeInv, SessionOK, HasPeriod,
                OpName
  <2>2. /\ periods' = [periods EXCEPT ![p].status = "UNLOCKED"]
        /\ entries' = [e \in EntryId |->
             IF entries[e].link = p THEN [entries[e] EXCEPT !.locked = FALSE]
             ELSE entries[e]]
        /\ Finish(self)
    BY <1>2 DEF UnlockPeriodCommit
  <2>3. \A e \in EntryId : Same(e) /\ (entries[e].link # p
                                         => entries'[e] = entries[e])
    BY <2>2 DEF Inv, TypeInv, EntryRow, Same
  <2>4. QED
    BY <2>1, <2>2, <2>3, ReleaseHolds
<1>3. QED
  BY <1>1, <1>2

\* Exporting a period writes no entry.
LEMMA ExportHolds ==
  ASSUME Inv, NEW self \in Session
  PROVE  /\ \A p \in Period : ExportBegin(self, p) => FreezeInv'
         /\ ExportCheck(self) => FreezeInv'
         /\ ExportCommit(self) => FreezeInv'
<1> DEFINE s == sess[self]
<1>0. /\ s \in SessionState /\ SessionOK(s, held[self])
      /\ CheckHolds(s, held[self])
  BY DEF Inv, TypeInv, FreezeInv
<1>1. ASSUME NEW p \in Period, ExportBegin(self, p) PROVE FreezeInv'
  <2> DEFINE a == [Idle EXCEPT !.op = "export", !.step = "check",
                               !.period = p, !.run = periods[p].run]
  <2>1. periods[p].run \in 0 .. MaxLocks
    BY DEF Inv, TypeInv, PeriodRow
  <2>2. a \in SessionState /\ a.op = "export"
    BY <2>1, IdleTyped DEF SessionState, OpName, MaybePeriod
  <2>3. Begin(self, a)
    BY <1>1 DEF ExportBegin
  <2> HIDE DEF a
  <2>4. QED
    BY <2>2, <2>3, BeginHolds
<1>2. ASSUME ExportCheck(self) PROVE FreezeInv'
  <2> DEFINE a == [s EXCEPT !.step = "write"]
  <2>1. CASE Goto(self, "write") /\ UNCHANGED <<tables, current, held>>
    <3>1. a \in SessionState /\ a.op = "export"
      BY <1>0, <1>2 DEF SessionState, ExportCheck, At
    <3>2. sess' = [sess EXCEPT ![self] = a]
      BY <2>1 DEF Goto, Inv, TypeInv
    <3> HIDE DEF a
    <3>3. CheckHolds(a, held[self])
      BY <3>1 DEF CheckHolds, EditOp, StatusOp
    <3>4. QED
      BY <2>1, <3>1, <3>2, <3>3, QuietHolds
  <2>2. QED
    BY <1>2, <2>1, RollbackHolds DEF ExportCheck
<1>3. ASSUME ExportCommit(self) PROVE FreezeInv'
  <2>1. s.period \in Period
    BY <1>0, <1>3 DEF ExportCommit, At, SessionOK, HasPeriod, OpName
  <2>2. \A e \in EntryId : Same(e) /\ entries'[e] = entries[e]
    BY <1>3 DEF ExportCommit, Same
  <2>3. QED
    BY <1>3, <2>1, <2>2, ReleaseHolds DEF ExportCommit
<1>4. QED
  BY <1>1, <1>2, <1>3

-----------------------------------------------------------------------------
(* Creating entries *)

\* An entry registered by hand never falls in a locked period.
LEMMA CreateHolds ==
  ASSUME Inv, NEW self \in Session
  PROVE  /\ \A p \in Period, m \in Minutes :
              CreateEntryBegin(self, p, m) => FreezeInv'
         /\ CreateEntryLock(self) => FreezeInv'
         /\ CreateEntryCommit(self) => FreezeInv'
<1> DEFINE s == sess[self]
<1>0. /\ s \in SessionState /\ SessionOK(s, held[self])
      /\ CheckHolds(s, held[self])
  BY DEF Inv, TypeInv, FreezeInv
<1>1. ASSUME NEW p \in Period, NEW m \in Minutes, CreateEntryBegin(self, p, m)
      PROVE  FreezeInv'
  <2> DEFINE a == [Idle EXCEPT !.op = "createEntry", !.step = "lock",
                               !.period = p, !.minutes = m]
  <2>1. a \in SessionState /\ a.op = "createEntry" /\ a.step = "lock"
    BY IdleTyped DEF SessionState, OpName, MaybePeriod
  <2>2. Begin(self, a)
    BY <1>1 DEF CreateEntryBegin
  <2> HIDE DEF a
  <2>3. QED
    BY <2>1, <2>2, BeginHolds
<1>2. ASSUME CreateEntryLock(self) PROVE FreezeInv'
  <2>1. s.op = "createEntry" /\ AcquirePeriod(self, s.period, "write")
    BY <1>2 DEF CreateEntryLock, At
  <2>2. s.period \in Period
    BY <1>0, <2>1 DEF SessionOK, HasPeriod, OpName
  <2>3. CheckHolds([s EXCEPT !.step = "write"], held[self] \cup {s.period})
    BY <1>0, <2>1 DEF CheckHolds, SessionState, EditOp, StatusOp
  <2>4. QED
    BY <2>1, <2>2, <2>3, AcquireHolds
<1>3. ASSUME CreateEntryCommit(self) PROVE FreezeInv'
  <2> DEFINE row == [UnusedEntry EXCEPT !.status = "PENDING", !.ref = s.period,
                                        !.minutes = s.minutes]
  <2>1. CASE Rollback(self)
    BY <2>1, RollbackHolds
  <2>2. ASSUME NEW e \in EntryId, First(e, UnusedEntryIds),
               entries' = [entries EXCEPT ![e] = row],
               Finish(self), periods' = periods
        PROVE  FreezeInv'
    <3>1. s.period \in Period /\ s.period \in held[self]
      BY <1>0, <1>3 DEF CreateEntryCommit, At, SessionOK, CheckHolds, HasPeriod,
                        OpName
    <3>2. row \in EntryRow /\ row.ref = s.period /\ row.status = "PENDING"
      BY <1>0, <3>1, Bounds
         DEF EntryRow, UnusedEntry, EntryStatus, SessionState, MaybePeriod
    <3>3. entries[e].status = "unused"
      BY <2>2 DEF First, UnusedEntryIds
    <3>4. entries[e].ref = None /\ Worth(e) = 0
      BY <3>3 DEF Inv, FreezeInv, UnusedBlank, Worth
    <3> HIDE DEF row
    <3>5. QED
      BY <2>2, <3>1, <3>2, <3>4, EntryHolds
  <2>3. QED
    BY <1>3, <2>1, <2>2 DEF CreateEntryCommit
<1>4. QED
  BY <1>1, <1>2, <1>3

-----------------------------------------------------------------------------
(* Editing *)

\* An edit never changes what a locked period lists.
LEMMA EditHolds ==
  ASSUME Inv, NEW self \in Session
  PROVE  /\ \A op \in EditOp, e \in EntryId, p \in Period, m \in Minutes :
              EditBegin(self, op, e, p, m) => FreezeInv'
         /\ EditLock(self) => FreezeInv'
         /\ EditLockSecond(self) => FreezeInv'
         /\ EditCheck(self) => FreezeInv'
         /\ EditCommit(self) => FreezeInv'
<1> DEFINE s == sess[self]
<1>0. /\ s \in SessionState /\ SessionOK(s, held[self])
      /\ CheckHolds(s, held[self])
  BY DEF Inv, TypeInv, FreezeInv
<1>a. s.op \in EditOp => /\ s.period \in Period /\ s.target \in Period
                         /\ s.entry \in EntryId
  BY <1>0 DEF SessionOK, HasPeriod, HasEntry, OpName, EditOp
<1>1. ASSUME NEW op \in EditOp, NEW e \in EntryId, NEW p \in Period,
             NEW m \in Minutes, EditBegin(self, op, e, p, m)
      PROVE  FreezeInv'
  <2> DEFINE a == [Idle EXCEPT !.op = op, !.step = "lock", !.entry = e,
                               !.period = entries[e].ref, !.target = p,
                               !.minutes = m]
  <2>1. entries[e].ref \in Period
    BY <1>1 DEF EditBegin, MayEdit, EditableByEmployee, EditableByAdmin,
                Inv, TypeInv, RefsOK
  <2>2. a \in SessionState /\ a.op # "clockOut" /\ a.step = "lock"
    BY <2>1, IdleTyped DEF SessionState, OpName, EditOp, MaybePeriod
  <2>3. Begin(self, a)
    BY <1>1 DEF EditBegin
  <2> HIDE DEF a
  <2>4. QED
    BY <2>2, <2>3, BeginHolds
<1>2. ASSUME EditLock(self) PROVE FreezeInv'
  <2> DEFINE p == Earlier(s.period, s.target)
             next == IF s.period = s.target THEN "check" ELSE "lockSecond"
  <2>1. s.op \in EditOp /\ AcquirePeriod(self, p, next)
    BY <1>2 DEF EditLock
  <2>2. p \in Period /\ (s.period = s.target => p = s.period)
    BY <1>a, <2>1 DEF Earlier
  <2>3. next \in {"lockSecond", "check"} /\ (next = "check" => s.period = s.target)
    OBVIOUS
  <2> HIDE DEF p, next
  <2> DEFINE a == [s EXCEPT !.step = next]
  <2>4. /\ a.op = s.op /\ a.step = next /\ a.period = s.period
        /\ a.target = s.target
    BY <1>0 DEF SessionState
  <2> HIDE DEF a
  <2>5. CheckHolds(a, held[self] \cup {p})
    BY <2>1, <2>2, <2>3, <2>4 DEF CheckHolds, EditOp, StatusOp, p
  <2>6. QED
    BY <2>1, <2>2, <2>3, <2>5, AcquireHolds DEF a
<1>3. ASSUME EditLockSecond(self) PROVE FreezeInv'
  <2> DEFINE p == Later(s.period, s.target)
  <2>1. /\ s.op \in EditOp /\ s.step = "lockSecond"
        /\ AcquirePeriod(self, p, "check")
    BY <1>3 DEF EditLockSecond
  <2>2. p \in Period /\ {s.period, s.target} \subseteq held[self] \cup {p}
    BY <1>0, <1>a, <2>1 DEF Earlier, Later, CheckHolds
  <2> HIDE DEF p
  <2> DEFINE a == [s EXCEPT !.step = "check"]
  <2>3. /\ a.op = s.op /\ a.step = "check" /\ a.period = s.period
        /\ a.target = s.target
    BY <1>0 DEF SessionState
  <2> HIDE DEF a
  <2>4. CheckHolds(a, held[self] \cup {p})
    BY <2>1, <2>2, <2>3 DEF CheckHolds, EditOp, StatusOp
  <2>5. QED
    BY <2>1, <2>2, <2>4, AcquireHolds DEF a
<1>4. ASSUME EditCheck(self) PROVE FreezeInv'
  <2> DEFINE a == [s EXCEPT !.step = "write", !.paid = EditPayment(s.entry)]
  <2>1. s.op \in EditOp /\ s.step = "check"
    BY <1>4 DEF EditCheck
  <2>2. CASE /\ entries[s.entry].ref = s.period
             /\ ~Locked(s.target)
             /\ entries[s.entry].status = "APPROVED" => s.period = s.target
             /\ sess' = [sess EXCEPT ![self].step = "write",
                                     ![self].paid = EditPayment(s.entry)]
             /\ UNCHANGED <<tables, current, held>>
    <3>1. /\ a \in SessionState /\ a.op = s.op /\ a.step = "write"
          /\ a.period = s.period /\ a.target = s.target /\ a.entry = s.entry
      BY <1>0, <1>a, <2>1, EditPaymentTyped DEF SessionState, Inv
    <3>2. sess' = [sess EXCEPT ![self] = a]
      BY <2>2 DEF Inv, TypeInv
    <3> HIDE DEF a
    <3>3. CheckHolds(a, held[self])
      BY <1>0, <2>1, <2>2, <3>1 DEF CheckHolds, EditOp, StatusOp
    <3>4. QED
      BY <2>2, <3>1, <3>2, <3>3, QuietHolds
  <2>3. QED
    BY <1>4, <2>2, RollbackHolds DEF EditCheck
<1>5. ASSUME EditCommit(self) PROVE FreezeInv'
  <2> DEFINE status == IF s.op = "editOwn" THEN "PENDING"
                       ELSE entries[s.entry].status
             row == [entries[s.entry] EXCEPT
                       !.ref = s.target, !.minutes = s.minutes,
                       !.status = status]
  <2>1. /\ s.op \in EditOp /\ s.step = "write"
        /\ s.entry \in EntryId /\ s.target \in Period /\ s.minutes \in Minutes
    BY <1>0, <1>a, <1>5 DEF EditCommit, SessionState
  <2>2. /\ entries[s.entry].ref = s.period /\ ~Locked(s.target)
        /\ s.period \in held[self] /\ s.target \in held[self]
        /\ s.period # s.target => entries[s.entry].status # "APPROVED"
    BY <1>0, <2>1 DEF CheckHolds
  <2>3. Locked(entries[s.entry].ref) => Worth(s.entry) = 0
    BY <2>2 DEF Worth
  <2>4. entries[s.entry].status # "unused"
    BY <1>a, <2>1, <2>2, Bounds DEF Inv, FreezeInv, UnusedBlank
  <2>5. /\ entries[s.entry] \in EntryRow
        /\ status \in EntryStatus /\ status # "unused"
    BY <2>1, <2>4 DEF Inv, TypeInv, EntryRow, EntryStatus
  <2>6. CommitEntry(self, s.entry, row, s.minutes)
    BY <1>5 DEF EditCommit
  <2> HIDE DEF status
  <2>7. row \in EntryRow /\ row.ref = s.target /\ row.status = status
    BY <2>1, <2>5 DEF EntryRow, MaybePeriod
  <2> HIDE DEF row
  <2>8. QED
    BY <2>1, <2>2, <2>3, <2>5, <2>6, <2>7, CommitEntryHolds
<1>6. QED
  BY <1>1, <1>2, <1>3, <1>4, <1>5

-----------------------------------------------------------------------------
(* Approving, unapproving, sending back and voiding *)

\* An approved entry of a locked period cannot be touched by an administrator.
LEMMA FrozenRefused ==
  ASSUME Inv, NEW e \in EntryId, Locked(entries[e].ref), EditableByAdmin(e)
  PROVE  Worth(e) = 0
<1>1. Worth(e) > 0 => entries[e].link = entries[e].ref /\ entries[e].locked
  BY DEF Inv, FreezeInv, LockedEntriesLinked, Locked
<1>2. ~Exported(entries[e].ref)
  BY DEF Locked, Exported
<1>3. ~(Worth(e) > 0)
  BY <1>1, <1>2 DEF EditableByAdmin
<1>4. QED
  BY <1>3, WorthTyped DEF Inv

\* A change of status never changes what a locked period lists.
LEMMA StatusHolds ==
  ASSUME Inv, NEW self \in Session
  PROVE  /\ \A op \in StatusOp, e \in EntryId :
              StatusBegin(self, op, e) => FreezeInv'
         /\ StatusLock(self) => FreezeInv'
         /\ StatusCheck(self) => FreezeInv'
         /\ ApproveCommit(self) => FreezeInv'
         /\ UnapproveCommit(self) => FreezeInv'
         /\ RejectCommit(self) => FreezeInv'
         /\ VoidCommit(self) => FreezeInv'
<1> DEFINE s == sess[self]
           e == s.entry
<1>0. /\ s \in SessionState /\ SessionOK(s, held[self])
      /\ CheckHolds(s, held[self])
  BY DEF Inv, TypeInv, FreezeInv
<1>a. s.op \in StatusOp => s.period \in Period /\ e \in EntryId
  BY <1>0 DEF SessionOK, HasPeriod, HasEntry, OpName, StatusOp
<1>b. ASSUME s.op \in StatusOp, s.step = "write"
      PROVE  /\ e \in EntryId /\ entries[e] \in EntryRow
             /\ entries[e].ref = s.period /\ s.period \in Period
             /\ s.period \in held[self]
             /\ Locked(s.period) => s.op # "approve" /\ Worth(e) = 0
  BY <1>0, <1>a, <1>b DEF CheckHolds, Inv, TypeInv
<1>1. ASSUME NEW op \in StatusOp, NEW f \in EntryId, StatusBegin(self, op, f)
      PROVE  FreezeInv'
  <2> DEFINE a == [Idle EXCEPT !.op = op, !.step = "lock", !.entry = f,
                               !.period = entries[f].ref]
  <2>1. entries[f].ref \in Period
    BY <1>1 DEF StatusBegin, Inv, TypeInv, RefsOK
  <2>2. a \in SessionState /\ a.op # "clockOut" /\ a.step = "lock"
    BY <2>1, IdleTyped DEF SessionState, OpName, StatusOp, MaybePeriod
  <2>3. Begin(self, a)
    BY <1>1 DEF StatusBegin
  <2> HIDE DEF a
  <2>4. QED
    BY <2>2, <2>3, BeginHolds
<1>2. ASSUME StatusLock(self) PROVE FreezeInv'
  <2> DEFINE a == [s EXCEPT !.step = "check"]
  <2>1. s.op \in StatusOp /\ AcquirePeriod(self, s.period, "check")
    BY <1>2 DEF StatusLock
  <2>2. a.op = s.op /\ a.step = "check" /\ a.period = s.period
    BY <1>0 DEF SessionState
  <2> HIDE DEF a
  <2>3. CheckHolds(a, held[self] \cup {s.period})
    BY <2>1, <2>2 DEF CheckHolds, EditOp, StatusOp
  <2>4. QED
    BY <1>a, <2>1, <2>3, AcquireHolds DEF a
<1>3. ASSUME StatusCheck(self) PROVE FreezeInv'
  <2> DEFINE a == [s EXCEPT !.step = "write",
                            !.paid = StatusPayment(s.op, e)]
  <2>1. s.op \in StatusOp /\ s.step = "check"
    BY <1>3 DEF StatusCheck
  <2>2. CASE /\ entries[e].ref = s.period
             /\ EditableByAdmin(e)
             /\ MayChangeStatus(s.op, e)
             /\ sess' = [sess EXCEPT ![self].step = "write",
                            ![self].paid = StatusPayment(s.op, e)]
             /\ UNCHANGED <<tables, current, held>>
    <3>1. /\ a \in SessionState /\ a.op = s.op /\ a.step = "write"
          /\ a.period = s.period /\ a.entry = e
      BY <1>0, <1>a, <2>1, StatusPaymentTyped DEF SessionState, Inv
    <3>2. sess' = [sess EXCEPT ![self] = a]
      BY <2>2 DEF Inv, TypeInv
    <3>3. Locked(s.period) => s.op # "approve" /\ Worth(e) = 0
      BY <1>a, <2>1, <2>2, FrozenRefused DEF MayChangeStatus
    <3> HIDE DEF a
    <3>4. CheckHolds(a, held[self])
      BY <1>0, <2>1, <2>2, <3>1, <3>3 DEF CheckHolds, EditOp, StatusOp
    <3>5. QED
      BY <2>2, <3>1, <3>2, <3>4, QuietHolds
  <2>3. QED
    BY <1>3, <2>2, RollbackHolds DEF StatusCheck
<1>4. ASSUME ApproveCommit(self) PROVE FreezeInv'
  <2> DEFINE late == s.paid.original # None
             row == [entries[e] EXCEPT
                       !.status = "APPROVED", !.late = late,
                       !.original = s.paid.original,
                       !.link = IF late THEN None
                                ELSE IF HasRow(s.period) THEN s.period ELSE @]
  <2>1. s.op = "approve" /\ s.op \in StatusOp /\ s.step = "write"
    BY <1>4 DEF ApproveCommit, At, StatusOp
  <2>2. s.paid.original \in MaybePeriod
    BY <1>0 DEF SessionState, Payment
  <2>3. row \in EntryRow /\ row.ref = s.period /\ row.status # "unused"
    BY <1>b, <2>1, <2>2 DEF EntryRow, EntryStatus, MaybePeriod
  <2>4. CommitEntry(self, e, row, entries[e].minutes)
    BY <1>4 DEF ApproveCommit
  <2> HIDE DEF row
  <2>5. QED
    BY <1>b, <2>1, <2>3, <2>4, CommitEntryHolds
<1>5. ASSUME UnapproveCommit(self) PROVE FreezeInv'
  <2> DEFINE row == IF s.paid.original = None
                    THEN [entries[e] EXCEPT !.status = "PENDING"]
                    ELSE [entries[e] EXCEPT
                            !.status = "PENDING", !.link = None,
                            !.late = FALSE, !.original = None]
  <2>1. s.op \in StatusOp /\ s.step = "write"
    BY <1>5 DEF UnapproveCommit, At, StatusOp
  <2>2. row \in EntryRow /\ row.ref = s.period /\ row.status = "PENDING"
    BY <1>b, <2>1 DEF EntryRow, EntryStatus, MaybePeriod
  <2>3. CommitEntry(self, e, row, 0)
    BY <1>5 DEF UnapproveCommit
  <2> HIDE DEF row
  <2>4. QED
    BY <1>b, <2>1, <2>2, <2>3, CommitEntryHolds
<1>6. ASSUME NEW status \in {"NEEDS_CHANGES", "VOIDED"},
             s.op \in StatusOp, s.step = "write",
             CommitEntry(self, e, [entries[e] EXCEPT !.status = status], 0)
      PROVE  FreezeInv'
  <2> DEFINE row == [entries[e] EXCEPT !.status = status]
  <2>1. row \in EntryRow /\ row.ref = s.period /\ row.status = status
    BY <1>b, <1>6 DEF EntryRow, EntryStatus
  <2>2. CommitEntry(self, e, row, 0)
    BY <1>6
  <2> HIDE DEF row
  <2>3. QED
    BY <1>b, <1>6, <2>1, <2>2, CommitEntryHolds
<1>7. RejectCommit(self) => FreezeInv'
  BY <1>6 DEF RejectCommit, At, StatusOp
<1>8. VoidCommit(self) => FreezeInv'
  BY <1>6 DEF VoidCommit, At, StatusOp
<1>9. QED
  BY <1>1, <1>2, <1>3, <1>4, <1>5, <1>7, <1>8

-----------------------------------------------------------------------------
\* The initial state has nothing to freeze.
LEMMA InitHolds == Init => Inv
<1> SUFFICES ASSUME Init PROVE FreezeInv
  BY InitTyped DEF Inv
<1> USE DEF Init, PayrollInit
<1>1. \A p \in Period : ~Locked(p)
  BY DEF Locked, NoPeriodRow
<1>2. FrozenWhileLocked /\ LockedEntriesLinked
  BY <1>1 DEF FrozenWhileLocked, LockedEntriesLinked
<1>3. UnusedBlank
  BY DEF UnusedBlank, UnusedEntry
<1>4. \A q \in Session : CheckHolds(sess[q], held[q])
  BY IdleTyped DEF CheckHolds, EditOp, StatusOp
<1>5. QED
  BY <1>2, <1>3, <1>4 DEF FreezeInv

\* Without clock-outs the invariant is inductive.
LEMMA NextHolds ==
  ASSUME "clockOut" \notin Ops, Inv, [Next]_vars
  PROVE  Inv'
<1> SUFFICES FreezeInv'
  BY NextTyped DEF Inv
<1>1. ASSUME NEW self \in Session PROVE ClockOutCommit(self) => FreezeInv'
  BY DEF ClockOutCommit, At, Inv, FreezeInv, CheckHolds
<1>2. ASSUME NEW self \in Session, NEW e \in EntryId, NEW m \in Minutes
      PROVE  ~ClockOutBegin(self, e, m)
  BY DEF ClockOutBegin, Begin, Idle
<1>3. ASSUME NEW self \in Session, EntryRequest(self) \/ EntryStep(self)
      PROVE  FreezeInv'
  BY <1>1, <1>2, <1>3, CreateHolds, EditHolds, StatusHolds
     DEF EntryRequest, EntryStep
<1>4. ASSUME NEW self \in Session, PeriodRequest(self) \/ PeriodStep(self)
      PROVE  FreezeInv'
  BY <1>4, LockHolds, UnlockHolds, ExportHolds DEF PeriodRequest, PeriodStep
<1>5. ASSUME NEW self \in Session, Crash(self)
      PROVE  FreezeInv'
  BY <1>5, RollbackHolds DEF Crash
<1>6. ASSUME UNCHANGED <<periods, entries, adjustments, held, sess>>
      PROVE  FreezeInv'
  <2>1. FrozenWhileLocked' /\ LockedEntriesLinked' /\ UnusedBlank'
    BY <1>6 DEF Inv, FreezeInv, FrozenWhileLocked, LockedEntriesLinked,
                UnusedBlank, Locked, Worth
  <2>2. \A b, locks : CheckHolds(b, locks) => CheckHolds(b, locks)'
    BY <1>6 DEF CheckHolds, Locked, Worth
  <2>3. QED
    BY <1>6, <2>1, <2>2 DEF Inv, FreezeInv
<1>7. CASE NextPeriodBegins
  BY <1>6, <1>7 DEF NextPeriodBegins, tables
<1>8. CASE UNCHANGED vars
  BY <1>6, <1>8 DEF vars
<1>9. QED
  BY <1>3, <1>4, <1>5, <1>7, <1>8 DEF Next

HIDE DEF TypeOK, PayrollTypeOK

\* While a period is locked its calculation run pays exactly the approved
\* minutes of its entries, however requests interleave and crash, as long as
\* nobody clocks out: the period lock that creating, editing, approving and
\* locking take, with payrollLocked on the linked rows, is enough, although
\* reopening and exporting take no lock.
THEOREM LockedPeriodsAreFrozen ==
  ASSUME "clockOut" \notin Ops
  PROVE  Spec => []FrozenWhileLocked
<1>1. Inv /\ [Next]_vars => Inv'
  BY NextHolds
<1>2. Inv => FrozenWhileLocked
  BY DEF Inv, FreezeInv
<1>3. QED
  BY <1>1, <1>2, InitHolds, PTL DEF Spec

-----------------------------------------------------------------------------
(* ExportedStaysExported is false of Spec: reopening a period checks its      *)
(* status and writes it later, and an export in between is undone.  Beside    *)
(* everything else it holds, although exports take no lock and the lock of a   *)
(* period does not exclude them: what a handler has found out about its       *)
(* period only the other of these two can change.                              *)

\* No period is reopened while it is exported.
ReopensApart ==
  \A q, r \in Session :
    ~(sess[q].op = "unlock" /\ sess[r].op = "export" /\ sess[q].period = sess[r].period)

\* What the write of a period trusts.
StatusKnown(a) ==
  /\ a.op = "lock" /\ a.step \in {"include", "write"} => ~Exportable(a.period)
  /\ a.op = "unlock" => ~Exported(a.period)
  /\ a.op = "export" /\ a.step = "write" => Exportable(a.period)

ExportInv == TypeInv /\ \A q \in Session : StatusKnown(sess[q])

Marks(self, p, op, status) ==
  At(self, op, "write") /\ sess[self].period = p /\ periods'[p].status = status

\* What a step does to a period, and to requests.
PeriodMove(self, p) ==
  \/ periods'[p].status = periods[p].status
  \/ Marks(self, p, "lock", "LOCKED")
  \/ Marks(self, p, "unlock", "UNLOCKED")
  \/ Marks(self, p, "export", "EXPORTED")

Knowing(self) ==
  /\ \A q \in Session \ {self} : sess'[q] = sess[q]
  /\ \A p \in Period : PeriodMove(self, p)
  /\ StatusKnown(sess[self])'

\* A request for an entry knows nothing of a period.
LEMMA EntriesKnowNothing ==
  /\ \A a : a.op \notin {"lock", "unlock", "export"} => StatusKnown(a)
  /\ \A op \in EditOp \cup StatusOp : op \notin {"lock", "unlock", "export"}
BY DEF StatusKnown, EditOp, StatusOp

\* A request starts.
LEMMA BeginKnows ==
  ASSUME ExportInv, NEW self \in Session, NEW a, Begin(self, a), StatusKnown(a)
  PROVE  Knowing(self)
<1>1. sess'[self] = a /\ \A q \in Session \ {self} : sess'[q] = sess[q]
  BY DEF Begin, ExportInv, TypeInv, TypeOK, PayrollTypeOK
<1>2. UNCHANGED periods
  BY DEF Begin, tables
<1>3. StatusKnown(a)'
  BY <1>2 DEF StatusKnown, Exportable, Exported
<1>4. StatusKnown(sess[self])'
  BY <1>1, <1>3
<1> QED BY <1>1, <1>2, <1>4 DEF Knowing, PeriodMove

\* A request ends, having marked its period or none.
LEMMA FinishKnows ==
  ASSUME ExportInv, NEW self \in Session, Finish(self), \A p \in Period : PeriodMove(self, p)
  PROVE  Knowing(self)
<1>1. sess'[self] = Idle /\ \A q \in Session \ {self} : sess'[q] = sess[q]
  BY DEF Finish, ExportInv, TypeInv, TypeOK, PayrollTypeOK
<1>2. StatusKnown(Idle)'
  BY DEF StatusKnown, Idle
<1> QED BY <1>1, <1>2 DEF Knowing

\* A request for an entry, or one that only takes a lock, takes another step.
LEMMA StepKnows ==
  ASSUME ExportInv, NEW self \in Session, UNCHANGED periods,
         \A q \in Session \ {self} : sess'[q] = sess[q],
         sess'[self].op = sess[self].op,
         \/ sess[self].op \notin {"lock", "unlock", "export"}
         \/ sess'[self].op = "lock" /\ sess'[self].step = "check"
  PROVE  Knowing(self)
BY DEF Knowing, StatusKnown, PeriodMove


\* A step that takes the lock of a period.
LEMMA AcquireKnows ==
  ASSUME ExportInv, NEW self \in Session, NEW p, NEW next, AcquirePeriod(self, p, next),
         sess[self].op \notin {"unlock", "export"}, sess[self].op = "lock" => next = "check"
  PROVE  Knowing(self)
<1>1. sess[self] \in SessionState /\ sess' = [sess EXCEPT ![self].step = next]
  BY DEF AcquirePeriod, Goto, ExportInv, TypeInv, TypeOK, PayrollTypeOK
<1>2. /\ sess'[self].op = sess[self].op /\ sess'[self].step = next
      /\ \A q \in Session \ {self} : sess'[q] = sess[q]
  BY <1>1 DEF SessionState, ExportInv, TypeInv, TypeOK, PayrollTypeOK
<1> QED BY <1>2, StepKnows DEF AcquirePeriod, tables

\* Requests for entries leave the periods alone.
LEMMA EntriesKnow ==
  ASSUME ExportInv, NEW self \in Session, EntryRequest(self) \/ EntryStep(self)
  PROVE  Knowing(self)
<1>0. \A op \in {"createEntry", "clockOut"} \cup EditOp \cup StatusOp :
        op \notin {"lock", "unlock", "export"}
  BY EntriesKnowNothing
<1>1. ASSUME NEW a, Begin(self, a), a.op \in {"createEntry", "clockOut"} \cup EditOp \cup StatusOp
      PROVE  Knowing(self)
  BY <1>0, <1>1, BeginKnows, EntriesKnowNothing
<1>2. CASE EntryRequest(self)
  <2>0. Idle \in SessionState
    BY IdleTyped
  <2>1. ASSUME NEW p, NEW m, CreateEntryBegin(self, p, m) PROVE Knowing(self)
    <3> DEFINE a == [Idle EXCEPT !.op = "createEntry", !.step = "lock",
                                 !.period = p, !.minutes = m]
    <3>1. Begin(self, a) /\ a.op = "createEntry"
      BY <2>0, <2>1 DEF CreateEntryBegin, SessionState
    <3> HIDE DEF a
    <3> QED BY <1>1, <3>1
  <2>2. ASSUME NEW e, NEW m, ClockOutBegin(self, e, m) PROVE Knowing(self)
    <3> DEFINE a == [Idle EXCEPT !.op = "clockOut", !.step = "write",
                                 !.entry = e, !.minutes = m]
    <3>1. Begin(self, a) /\ a.op = "clockOut"
      BY <2>0, <2>2 DEF ClockOutBegin, SessionState
    <3> HIDE DEF a
    <3> QED BY <1>1, <3>1
  <2>3. ASSUME NEW op \in EditOp, NEW e, NEW p, NEW m, EditBegin(self, op, e, p, m)
        PROVE  Knowing(self)
    <3> DEFINE a == [Idle EXCEPT !.op = op, !.step = "lock", !.entry = e,
                                 !.period = entries[e].ref, !.target = p, !.minutes = m]
    <3>1. Begin(self, a) /\ a.op = op
      BY <2>0, <2>3 DEF EditBegin, SessionState
    <3> HIDE DEF a
    <3> QED BY <1>1, <3>1
  <2>4. ASSUME NEW op \in StatusOp, NEW e, StatusBegin(self, op, e) PROVE Knowing(self)
    <3> DEFINE a == [Idle EXCEPT !.op = op, !.step = "lock", !.entry = e,
                                 !.period = entries[e].ref]
    <3>1. Begin(self, a) /\ a.op = op
      BY <2>0, <2>4 DEF StatusBegin, SessionState
    <3> HIDE DEF a
    <3> QED BY <1>1, <3>1
  <2> QED BY <1>2, <2>1, <2>2, <2>3, <2>4 DEF EntryRequest
<1>3. CASE Finish(self) /\ UNCHANGED periods
  BY <1>3, FinishKnows DEF PeriodMove
<1>4. CASE Rollback(self)
  BY <1>3, <1>4 DEF Rollback, tables
<1>5. ASSUME NEW e, NEW row, NEW adjusted, CommitEntry(self, e, row, adjusted)
      PROVE  Knowing(self)
  BY <1>3, <1>4, <1>5 DEF CommitEntry
<1>6. CASE CreateEntryCommit(self) \/ ClockOutCommit(self)
  BY <1>3, <1>4, <1>6 DEF CreateEntryCommit, ClockOutCommit
<1>7. CASE EditCommit(self) \/ ApproveCommit(self) \/ UnapproveCommit(self)
           \/ RejectCommit(self) \/ VoidCommit(self)
  BY <1>5, <1>7 DEF EditCommit, ApproveCommit, UnapproveCommit, RejectCommit, VoidCommit
<1>8. CASE CreateEntryLock(self) \/ EditLock(self) \/ EditLockSecond(self) \/ StatusLock(self)
  <2>1. sess[self].op \notin {"lock", "unlock", "export"}
    BY <1>0, <1>8 DEF CreateEntryLock, EditLock, EditLockSecond, StatusLock, At
  <2> QED BY <1>8, <2>1, AcquireKnows DEF CreateEntryLock, EditLock, EditLockSecond, StatusLock
<1>9. CASE EditCheck(self) \/ StatusCheck(self)
  <2>1. CASE ~Rollback(self)
    <3>1. PICK paid :
            sess' = [sess EXCEPT ![self].step = "write", ![self].paid = paid] /\ UNCHANGED periods
      BY <1>9, <2>1 DEF EditCheck, StatusCheck, tables
    <3>2. sess[self] \in SessionState /\ sess[self].op \notin {"lock", "unlock", "export"}
      BY <1>0, <1>9 DEF EditCheck, StatusCheck, ExportInv, TypeInv, TypeOK, PayrollTypeOK
    <3>3. sess'[self].op = sess[self].op /\ \A q \in Session \ {self} : sess'[q] = sess[q]
      BY <3>1, <3>2 DEF SessionState, ExportInv, TypeInv, TypeOK, PayrollTypeOK
    <3> QED BY <3>1, <3>2, <3>3, StepKnows
  <2> QED BY <1>4, <2>1
<1> QED BY <1>2, <1>6, <1>7, <1>8, <1>9 DEF EntryStep

\* Locking, reopening and exporting mark what they have checked.
LEMMA PeriodsKnow ==
  ASSUME ExportInv, NEW self \in Session, PeriodRequest(self) \/ PeriodStep(self)
  PROVE  Knowing(self)
<1> PICK a : a = sess[self]
  OBVIOUS
<1>0. /\ Idle \in SessionState /\ a \in SessionState
      /\ periods \in [Period -> PeriodRow] /\ sess \in [Session -> SessionState]
  BY IdleTyped DEF ExportInv, TypeInv, TypeOK, PayrollTypeOK
<1>1. ASSUME NEW p \in Period, LockPeriodBegin(self, p) PROVE Knowing(self)
  <2> DEFINE b == [Idle EXCEPT !.op = "lock", !.step = "lock", !.period = p]
  <2>1. Begin(self, b) /\ b.op = "lock" /\ b.step = "lock"
    BY <1>0, <1>1 DEF LockPeriodBegin, SessionState
  <2> HIDE DEF b
  <2> QED BY <2>1, BeginKnows DEF StatusKnown
<1>2. ASSUME NEW p \in Period, UnlockPeriodBegin(self, p) PROVE Knowing(self)
  <2> DEFINE b == [Idle EXCEPT !.op = "unlock", !.step = "write", !.period = p]
  <2>1. Begin(self, b) /\ b.op = "unlock" /\ b.period = p /\ Locked(p)
    BY <1>0, <1>2 DEF UnlockPeriodBegin, SessionState
  <2> HIDE DEF b
  <2> QED BY <2>1, BeginKnows DEF StatusKnown, Locked, Exported
<1>3. ASSUME NEW p \in Period, ExportBegin(self, p) PROVE Knowing(self)
  <2> DEFINE b == [Idle EXCEPT !.op = "export", !.step = "check",
                               !.period = p, !.run = periods[p].run]
  <2>1. Begin(self, b) /\ b.op = "export" /\ b.step = "check"
    BY <1>0, <1>3 DEF ExportBegin, SessionState
  <2> HIDE DEF b
  <2> QED BY <2>1, BeginKnows DEF StatusKnown
<1>4. CASE Rollback(self)
  BY <1>4, FinishKnows DEF Rollback, tables, PeriodMove
<1>5. CASE LockPeriodAcquire(self)
  BY <1>5, AcquireKnows DEF LockPeriodAcquire, At
\* Past its check, a request goes on with the status it has seen.
<1>6. ASSUME NEW b, sess' = [sess EXCEPT ![self] = b], UNCHANGED periods,
             b.op = a.op, b.period = a.period, StatusKnown(b)
      PROVE  Knowing(self)
  <2>1. sess'[self] = b /\ \A q \in Session \ {self} : sess'[q] = sess[q]
    BY <1>0, <1>6
  <2>2. StatusKnown(b)'
    BY <1>6 DEF StatusKnown, Exportable, Exported
  <2>3. StatusKnown(sess[self])'
    BY <2>1, <2>2
  <2> QED BY <1>6, <2>1, <2>3 DEF Knowing, PeriodMove
<1>7. CASE LockPeriodCheck(self) /\ ~Rollback(self)
  <2> PICK rows : rows = {e \in EntryId : entries[e].ref = a.period /\ entries[e].minutes > 0}
    OBVIOUS
  <2> DEFINE b == [a EXCEPT !.step = "include", !.rows = rows]
  <2>1. /\ sess' = [sess EXCEPT ![self] = b] /\ UNCHANGED periods
        /\ ~Exportable(a.period) /\ a.op = "lock"
    BY <1>7 DEF LockPeriodCheck, At, Exportable, tables
  <2>2. b.op = a.op /\ b.period = a.period
    BY <1>0 DEF SessionState
  <2> HIDE DEF b
  <2> QED BY <1>6, <2>1, <2>2 DEF StatusKnown
<1>8. CASE LockPeriodInclude(self)
  <2> PICK included : included = Includable(a.period)
    OBVIOUS
  <2> DEFINE b == [a EXCEPT !.step = "write", !.pendings = included]
  <2>1. /\ sess' = [sess EXCEPT ![self] = b] /\ UNCHANGED periods
        /\ a.op = "lock" /\ a.step = "include"
    BY <1>8 DEF LockPeriodInclude, At, tables
  <2>2. b.op = a.op /\ b.period = a.period
    BY <1>0 DEF SessionState
  <2>3. ~Exportable(a.period)
    BY <2>1 DEF ExportInv, StatusKnown
  <2> HIDE DEF b
  <2> QED BY <1>6, <2>1, <2>2, <2>3 DEF StatusKnown
<1>9. CASE ExportCheck(self) /\ ~Rollback(self)
  <2> DEFINE b == [a EXCEPT !.step = "write"]
  <2>1. /\ sess' = [sess EXCEPT ![self] = b] /\ UNCHANGED periods
        /\ Exportable(a.period) /\ a.op = "export"
    BY <1>9 DEF ExportCheck, At, Goto, tables
  <2>2. b.op = a.op /\ b.period = a.period
    BY <1>0 DEF SessionState
  <2> HIDE DEF b
  <2> QED BY <1>6, <2>1, <2>2 DEF StatusKnown
<1>10. CASE LockPeriodCommit(self)
  <2> PICK q : q = a.period
    OBVIOUS
  <2>1. At(self, "lock", "write") /\ Finish(self)
    BY <1>10 DEF LockPeriodCommit
  <2> DEFINE row == [status |-> "LOCKED", run |-> periods[q].run + 1, lines |-> RunLines(q),
                     deltas |-> RunDeltas(q, a.pendings)]
  <2>2. periods' = [periods EXCEPT ![q] = row] /\ row.status = "LOCKED"
    BY <1>10 DEF LockPeriodCommit
  <2> HIDE DEF row
  <2>3. \A p \in Period : PeriodMove(self, p)
    BY <1>0, <2>1, <2>2 DEF PeriodMove, Marks
  <2> QED BY <2>1, <2>3, FinishKnows
<1>11. ASSUME NEW op \in {"unlock", "export"}, NEW status, At(self, op, "write"), Finish(self),
              periods' = [periods EXCEPT ![a.period].status = status],
              Marks(self, a.period, op, status) => PeriodMove(self, a.period)
       PROVE  Knowing(self)
  <2> PICK q : q = a.period
    OBVIOUS
  <2>1. \A p \in Period \ {q} : periods'[p].status = periods[p].status
    BY <1>0, <1>11
  <2>2. q \in Period => periods'[q].status = status
    BY <1>0, <1>11 DEF PeriodRow
  <2>3. \A p \in Period : PeriodMove(self, p)
    BY <1>11, <2>1, <2>2 DEF PeriodMove, Marks
  <2> QED BY <1>11, <2>3, FinishKnows
<1>12. CASE UnlockPeriodCommit(self)
  BY <1>11, <1>12 DEF UnlockPeriodCommit, PeriodMove
<1>13. CASE ExportCommit(self)
  BY <1>11, <1>13 DEF ExportCommit, PeriodMove
<1> QED BY <1>1, <1>2, <1>3, <1>4, <1>5, <1>7, <1>8, <1>9, <1>10, <1>12, <1>13
  DEF PeriodRequest, PeriodStep


\* What others have checked holds until they write.
LEMMA OthersKnow ==
  ASSUME ExportInv, ReopensApart, NEW self \in Session, Knowing(self),
         NEW q \in Session \ {self}
  PROVE  StatusKnown(sess[q])'
<1> PICK a : a = sess[q]
  OBVIOUS
<1> PICK p : p = a.period
  OBVIOUS
<1>1. sess'[q] = a /\ StatusKnown(a) /\ StatusKnown(sess[self])
  BY DEF Knowing, ExportInv
<1>2. a.op \in {"lock", "unlock", "export"} => p \in Period
  BY DEF ExportInv, TypeInv, SessionOK, HasPeriod, OpName
<1>3. p \in Period => PeriodMove(self, p)
  BY DEF Knowing
<1>4. a.op = "lock" /\ a.step \in {"include", "write"} => ~Exportable(p)'
  <2> SUFFICES ASSUME a.op = "lock", a.step \in {"include", "write"}
               PROVE  ~Exportable(p)'
    OBVIOUS
  <2>1. ~Exportable(p) /\ p \in held[q]
    BY <1>1 DEF StatusKnown, ExportInv, TypeInv, SessionOK
  <2>2. ~Marks(self, p, "lock", "LOCKED")
    <3> SUFFICES ASSUME Marks(self, p, "lock", "LOCKED") PROVE FALSE
      OBVIOUS
    <3>1. p \in held[self]
      BY DEF Marks, At, ExportInv, TypeInv, SessionOK
    <3> QED BY <2>1, <3>1 DEF ExportInv, TypeInv, LocksExclude
  <2>3. ~Marks(self, p, "export", "EXPORTED")
    BY <1>1, <2>1 DEF Marks, At, StatusKnown
  <2> QED BY <1>2, <1>3, <2>1, <2>2, <2>3 DEF PeriodMove, Marks, Exportable
<1>5. a.op = "unlock" => ~Exported(p)'
  <2> SUFFICES ASSUME a.op = "unlock" PROVE ~Exported(p)'
    OBVIOUS
  <2>1. ~Exported(p) /\ p \in Period
    BY <1>1, <1>2 DEF StatusKnown
  <2>2. ~Marks(self, p, "export", "EXPORTED")
    BY DEF Marks, At, ReopensApart
  <2> QED BY <1>3, <2>1, <2>2 DEF PeriodMove, Marks, Exported
<1>6. a.op = "export" /\ a.step = "write" => Exportable(p)'
  <2> SUFFICES ASSUME a.op = "export", a.step = "write" PROVE Exportable(p)'
    OBVIOUS
  <2>1. Exportable(p)
    BY <1>1 DEF StatusKnown
  <2>2. ~Marks(self, p, "unlock", "UNLOCKED")
    BY DEF Marks, At, ReopensApart
  <2> QED BY <1>2, <1>3, <2>1, <2>2 DEF PeriodMove, Marks, Exportable
<1>7. StatusKnown(a)'
  BY <1>4, <1>5, <1>6 DEF StatusKnown
<1> QED BY <1>1, <1>7

\* An exported period is neither locked nor reopened.
LEMMA ExportStays ==
  ASSUME ExportInv, NEW self \in Session, NEW p \in Period, PeriodMove(self, p), Exported(p)
  PROVE  Exported(p)'
<1>1. ~Marks(self, p, "lock", "LOCKED") /\ ~Marks(self, p, "unlock", "UNLOCKED")
  BY DEF Marks, At, ExportInv, StatusKnown, Exported, Exportable
<1> QED BY <1>1 DEF PeriodMove, Marks, Exported

\* A step is one request's, or the clock's.
LEMMA SomeoneKnows ==
  ASSUME ExportInv, [Next]_vars
  PROVE  UNCHANGED <<periods, sess>> \/ \E self \in Session : Knowing(self)
<1>1. ASSUME NEW self \in Session, Crash(self) PROVE Knowing(self)
  BY <1>1, FinishKnows DEF Crash, Rollback, tables, PeriodMove
<1>2. CASE NextPeriodBegins \/ UNCHANGED vars
  BY <1>2 DEF NextPeriodBegins, vars, tables
<1> QED BY <1>1, <1>2, EntriesKnow, PeriodsKnow DEF Next

\* Every step leaves all requests knowing what they found out.
LEMMA NextKnows ==
  ASSUME ExportInv, ReopensApart, [Next]_vars PROVE ExportInv'
<1>1. TypeInv'
  BY NextTyped DEF ExportInv
<1>2. CASE UNCHANGED <<periods, sess>>
  BY <1>1, <1>2 DEF ExportInv, StatusKnown, Exportable, Exported
<1>3. CASE \E self \in Session : Knowing(self)
  BY <1>1, <1>3, OthersKnow DEF Knowing, ExportInv
<1> QED BY <1>2, <1>3, SomeoneKnows

\* A period that has been exported stays exported, whoever locks, exports and
\* corrects what and whenever requests crash, as long as nobody reopens a period
\* while it is being exported; two exports at once do no harm.
THEOREM ExportsAreKept ==
  Spec /\ []ReopensApart => ExportedStaysExported
<1> DEFINE Stays == \A p \in Period : Exported(p) => Exported(p)'
<1>1. Init => ExportInv
  BY InitTyped DEF Init, PayrollInit, ExportInv, StatusKnown, Idle
<1>2. ExportInv /\ ReopensApart /\ [Next]_vars => ExportInv'
  BY NextKnows
<1>3. ExportInv /\ [Next]_vars => [Stays]_vars
  <2> SUFFICES ASSUME ExportInv, [Next]_vars PROVE Stays
    OBVIOUS
  <2> QED BY SomeoneKnows, ExportStays DEF Knowing, Exported
<1> QED BY <1>1, <1>2, <1>3, PTL DEF Spec, ExportedStaysExported

-----------------------------------------------------------------------------
(* PaidEntriesBalance holds where no administrator edits what was paid, no    *)
(* entry moves to another period, nobody clocks out, and two periods do not   *)
(* choose what they include at once.  An entry that an exported period  *)
(* has paid for is either as it was paid, or was taken back by one adjustment *)
(* that at most one period pays: no sum has two terms that are not zero.      *)

\* Two periods do not choose what they include at once.
LocksApart ==
  \A q, r \in Session : At(q, "lock", "write") /\ At(r, "lock", "write") => q = r

\* An exported period has paid for the entry.
PaidFor(e) == \E p \in Period : Exported(p) /\ periods[p].lines[e] > 0

AdjustmentsOf(e) == {a \in AdjustmentId : adjustments[a].entry = e}

\* Adjustment a takes m minutes back, once: it waits, or one period has it.
TakesBack(a, m) ==
  /\ adjustments[a].exported = m /\ adjustments[a].adjusted = 0
  /\ \/ /\ adjustments[a].status = "PENDING"
        /\ \A q \in Period : Booked(q) => periods[q].deltas[a] = 0
     \/ /\ adjustments[a].status = "INCLUDED"
        /\ Booked(adjustments[a].settlement)
        /\ \A q \in Period : Booked(q) =>
             periods[q].deltas[a] = IF q = adjustments[a].settlement THEN -m ELSE 0

\* An entry as it was paid for.
AsPaid(e) ==
  /\ entries[e].status = "APPROVED"
  /\ entries[e].minutes = periods[entries[e].ref].lines[e]
  /\ entries[e].link = entries[e].ref /\ ~entries[e].late
  /\ AdjustmentsOf(e) = {}

\* An entry taken back, and out of reach of further handlers.
TakenBack(e) ==
  /\ entries[e].status \notin {"unused", "APPROVED"}
  /\ entries[e].status = "VOIDED" \/ entries[e].link = None
  /\ \E a \in AdjustmentId :
       AdjustmentsOf(e) = {a} /\ TakesBack(a, periods[entries[e].ref].lines[e])

PaidOnce(e) ==
  /\ \A p \in Period : Exported(p) /\ periods[p].lines[e] > 0 => p = entries[e].ref
  /\ entries[e].locked
  /\ AsPaid(e) \/ TakenBack(e)

\* Only an entry of an exported period is late, or has adjustments.
SettledLate(e) ==
  /\ entries[e].link \in {None, entries[e].ref}
  /\ entries[e].late \/ entries[e].original # None \/ AdjustmentsOf(e) # {}
       => Exported(entries[e].ref)

UnusedPaysNothing ==
  \A a \in AdjustmentId : adjustments[a].status = "unused" =>
    adjustments[a].entry = None /\ \A p \in Period : periods[p].deltas[a] = 0

\* What the commit of a request trusts.
PaymentKnown(a) ==
  /\ a.op \in EditOp => a.op = "editOwn" /\ a.target = a.period
  /\ a.op \in EditOp \cup StatusOp /\ a.step = "write" =>
       /\ a.paid.original # None => Exported(entries[a.entry].ref)
       /\ a.paid.pending # None => adjustments[a.paid.pending].entry = a.entry
       /\ PaidFor(a.entry) =>
            /\ a.op \in {"unapprove", "void"}
            /\ entries[a.entry].status = "APPROVED"
            /\ a.paid.original # None /\ a.paid.pending = None
            /\ a.paid.exported = entries[a.entry].minutes
  /\ a.op = "lock" /\ a.step = "write" =>
       \A x \in a.pendings :
         /\ adjustments[x].status # "unused"
         /\ \A e \in EntryId : PaidFor(e) /\ x \in AdjustmentsOf(e)
              => adjustments[x].status = "PENDING"

TablesBalance ==
  /\ \A e \in EntryId : PaidFor(e) => PaidOnce(e)
  /\ \A e \in EntryId : SettledLate(e)
  /\ UnusedPaysNothing

BalanceInv == TablesBalance /\ \A q \in Session : PaymentKnown(sess[q])

\* An adjustment of entry e comes, or changes.
Adjusts(a, e) ==
  /\ adjustments'[a].entry = e /\ adjustments'[a].status # "unused"
  /\ adjustments[a].status = "unused" \/ adjustments[a].entry = e

USE DEF TypeOK, PayrollTypeOK

\* One entry changes, with its adjustments.
LEMMA OneEntryBalances ==
  ASSUME TypeInv, TablesBalance, UNCHANGED periods, NEW e \in EntryId,
         \A d \in EntryId \ {e} : entries'[d] = entries[d],
         \A a \in AdjustmentId : adjustments'[a] = adjustments[a] \/ Adjusts(a, e),
         PaidFor(e) => PaidOnce(e)', SettledLate(e)'
  PROVE  TablesBalance'
<1>0. \A a \in AdjustmentId : adjustments[a].status = "unused" => adjustments[a].entry = None
  BY DEF TablesBalance, UnusedPaysNothing
<1>1. ASSUME NEW d \in EntryId \ {e}
      PROVE  /\ AdjustmentsOf(d)' = AdjustmentsOf(d)
             /\ \A a \in AdjustmentsOf(d) : adjustments'[a] = adjustments[a]
  <2>1. d # None
    BY Bounds
  <2> QED BY <1>0, <2>1 DEF AdjustmentsOf, Adjusts
<1>2. \A d \in EntryId : PaidFor(d)' <=> PaidFor(d)
  BY DEF PaidFor, Exported
<1>3. ASSUME NEW d \in EntryId \ {e}, PaidFor(d) PROVE PaidOnce(d)'
  <2>1. PaidOnce(d) /\ entries'[d] = entries[d]
    BY <1>3 DEF TablesBalance
  <2>2. AsPaid(d) => AsPaid(d)'
    BY <1>1, <2>1 DEF AsPaid
  <2>3. ASSUME TakenBack(d) PROVE TakenBack(d)'
    <3>1. PICK a \in AdjustmentId :
            AdjustmentsOf(d) = {a} /\ TakesBack(a, periods[entries[d].ref].lines[d])
      BY <2>3 DEF TakenBack
    <3>2. AdjustmentsOf(d)' = {a} /\ adjustments'[a] = adjustments[a]
      BY <1>1, <3>1
    <3>3. TakesBack(a, periods[entries[d].ref].lines[d])'
      BY <2>1, <3>1, <3>2 DEF TakesBack, Booked, Locked, Exported
    <3> QED BY <2>1, <2>3, <3>2, <3>3 DEF TakenBack
  <2> QED BY <2>1, <2>2, <2>3 DEF PaidOnce, Exported
<1>4. ASSUME NEW d \in EntryId \ {e} PROVE SettledLate(d)'
  <2>1. SettledLate(d) /\ entries'[d] = entries[d]
    BY DEF TablesBalance
  <2> QED BY <1>1, <2>1 DEF SettledLate, Exported
<1>5. UnusedPaysNothing'
  BY DEF TablesBalance, UnusedPaysNothing, Adjusts
<1> QED BY <1>2, <1>3, <1>4, <1>5 DEF TablesBalance

\* What the others trust stays: their entries are under their locks.
LEMMA OthersTrust ==
  ASSUME TypeInv, NEW q \in Session, PaymentKnown(sess[q]), sess'[q] = sess[q],
         \A p \in Period : Exported(p) => Exported(p)',
         sess[q].op \in EditOp \cup StatusOp /\ sess[q].step = "write" =>
           Same(sess[q].entry) /\ (PaidFor(sess[q].entry)' => PaidFor(sess[q].entry)),
         \A a \in AdjustmentId : adjustments[a].status # "unused" =>
           adjustments'[a].status # "unused" /\ adjustments'[a].entry = adjustments[a].entry,
         \A a \in AdjustmentId : adjustments[a].status = "unused" =>
           adjustments[a].entry = None,
         sess[q].op = "lock" /\ sess[q].step = "write" =>
           \A x \in sess[q].pendings, e \in EntryId :
             PaidFor(e)' /\ x \in AdjustmentsOf(e)
               => adjustments'[x].status = "PENDING"
  PROVE  PaymentKnown(sess[q])'
<1> PICK a : a = sess[q]
  OBVIOUS
<1>1. /\ a \in SessionState /\ a.pendings \subseteq AdjustmentId
      /\ a.paid.pending \in AdjustmentId \cup {None}
  BY DEF TypeInv, SessionState, Payment
<1>2. a.op \in EditOp => a.op = "editOwn" /\ a.target = a.period
  BY DEF PaymentKnown
<1>3. ASSUME a.op \in EditOp \cup StatusOp, a.step = "write"
      PROVE  /\ a.paid.original # None => Exported(entries[a.entry].ref)'
             /\ a.paid.pending # None => adjustments'[a.paid.pending].entry = a.entry
             /\ PaidFor(a.entry)' =>
                  /\ a.op \in {"unapprove", "void"}
                  /\ entries'[a.entry].status = "APPROVED"
                  /\ a.paid.original # None /\ a.paid.pending = None
                  /\ a.paid.exported = entries'[a.entry].minutes
  <2>1. /\ a.paid.original # None => Exported(entries[a.entry].ref)
        /\ a.paid.pending # None => adjustments[a.paid.pending].entry = a.entry
        /\ PaidFor(a.entry) =>
             /\ a.op \in {"unapprove", "void"}
             /\ entries[a.entry].status = "APPROVED"
             /\ a.paid.original # None /\ a.paid.pending = None
             /\ a.paid.exported = entries[a.entry].minutes
    BY <1>3 DEF PaymentKnown
  <2>2. a.entry \in EntryId /\ a.entry # None
    BY <1>3, Bounds DEF TypeInv, SessionOK, HasEntry
  <2>3. Same(a.entry) /\ (PaidFor(a.entry)' => PaidFor(a.entry))
    BY <1>3
  <2>4. a.paid.original # None => Exported(entries[a.entry].ref)'
    BY <2>1, <2>3 DEF Same, Exported
  <2>5. a.paid.pending # None => adjustments'[a.paid.pending].entry = a.entry
    BY <1>1, <2>1, <2>2
  <2> QED BY <2>1, <2>3, <2>4, <2>5 DEF Same
<1>4. ASSUME a.op = "lock", a.step = "write", NEW x \in a.pendings
      PROVE  /\ adjustments'[x].status # "unused"
             /\ \A e \in EntryId : PaidFor(e)' /\ x \in AdjustmentsOf(e)'
                  => adjustments'[x].status = "PENDING"
  <2>1. x \in AdjustmentId /\ adjustments[x].status # "unused"
    BY <1>1, <1>4 DEF PaymentKnown
  <2>2. adjustments'[x].status # "unused" /\ adjustments'[x].entry = adjustments[x].entry
    BY <2>1
  <2>3. \A e \in EntryId : x \in AdjustmentsOf(e)' => x \in AdjustmentsOf(e)
    BY <2>1, <2>2 DEF AdjustmentsOf
  <2> QED BY <1>4, <2>2, <2>3
<1>5. PaymentKnown(a)'
  BY <1>2, <1>3, <1>4 DEF PaymentKnown
<1> QED BY <1>5

-----------------------------------------------------------------------------
(* Handlers of entries *)

\* A correction touches adjustments of its entry only, and none unless the entry
\* was paid for.
LEMMA SettleAdjusts ==
  ASSUME TypeInv, UnusedPaysNothing, NEW e \in EntryId, NEW paid \in Payment,
         NEW adjusted, Settle(e, paid, adjusted),
         paid.pending # None => adjustments[paid.pending].entry = e
  PROVE  /\ \A a \in AdjustmentId : adjustments'[a] = adjustments[a] \/ Adjusts(a, e)
         /\ paid.original = None => UNCHANGED adjustments
<1>0. adjustments \in [AdjustmentId -> AdjustmentRow] /\ e # None
  BY Bounds DEF TypeInv
<1>1. CASE UNCHANGED adjustments
  BY <1>1
<1>2. CASE /\ paid.original # None /\ paid.pending # None
           /\ adjustments' = [adjustments EXCEPT
                ![paid.pending] = Corrected(paid.pending, paid, adjusted)]
  <2>1. paid.pending \in AdjustmentId
    BY <1>2 DEF Payment
  <2>2. adjustments[paid.pending].entry = e /\ adjustments[paid.pending].status # "unused"
    BY <1>0, <1>2, <2>1 DEF UnusedPaysNothing
  <2>3. /\ Corrected(paid.pending, paid, adjusted).entry = e
        /\ Corrected(paid.pending, paid, adjusted).status # "unused"
    BY <1>0, <2>1, <2>2 DEF Corrected, AdjustmentRow
  <2>4. adjustments'[paid.pending] = Corrected(paid.pending, paid, adjusted)
    BY <1>0, <1>2, <2>1
  <2>5. Adjusts(paid.pending, e)
    BY <2>2, <2>3, <2>4 DEF Adjusts
  <2> QED BY <1>0, <1>2, <2>5
<1>3. ASSUME paid.original # None, NEW x \in AdjustmentId, First(x, UnusedAdjustmentIds),
             adjustments' = [adjustments EXCEPT ![x] = NewAdjustment(e, paid, adjusted)]
      PROVE  \A a \in AdjustmentId : adjustments'[a] = adjustments[a] \/ Adjusts(a, e)
  BY <1>0, <1>3 DEF First, UnusedAdjustmentIds, NewAdjustment, Adjusts
<1> QED BY <1>1, <1>2, <1>3 DEF Settle

\* A handler that leaves an entry that no exported period has paid for.
LEMMA UnpaidEntryBalances ==
  ASSUME Inv, BalanceInv, NEW self \in Session, NEW e \in EntryId, ~PaidFor(e),
         e = sess[self].entry, NEW row \in EntryRow,
         sess[self].op \in EditOp \cup StatusOp, sess[self].step = "write",
         row.ref = entries[e].ref, row.link \in {None, row.ref},
         row.late \/ row.original # None => Exported(row.ref),
         UNCHANGED periods, entries' = [entries EXCEPT ![e] = row],
         NEW adjusted, Settle(e, sess[self].paid, adjusted)
  PROVE  TablesBalance' /\ \A a \in AdjustmentId :
           adjustments'[a] = adjustments[a] \/ Adjusts(a, e)
<1> PICK a : a = sess[self]
  OBVIOUS
<1>1. TypeInv /\ TablesBalance /\ PaymentKnown(a) /\ a \in SessionState
  BY DEF Inv, BalanceInv, TypeInv
<1>2. /\ a.paid \in Payment
      /\ a.paid.original # None => Exported(entries[e].ref)
      /\ a.paid.pending # None => adjustments[a.paid.pending].entry = e
  BY <1>1 DEF SessionState, PaymentKnown
<1>3. /\ \A x \in AdjustmentId : adjustments'[x] = adjustments[x] \/ Adjusts(x, e)
      /\ a.paid.original = None => UNCHANGED adjustments
  BY <1>1, <1>2, SettleAdjusts DEF TablesBalance
<1>4. entries'[e] = row /\ \A d \in EntryId \ {e} : entries'[d] = entries[d]
  BY <1>1 DEF TypeInv
<1>5. SettledLate(e)'
  <2>1. SettledLate(e)
    BY <1>1 DEF TablesBalance
  <2>2. \A r : Exported(r)' <=> Exported(r)
    BY DEF Exported
  <2>3. AdjustmentsOf(e)' # {} => Exported(row.ref)
    <3>1. CASE UNCHANGED adjustments
      BY <2>1, <3>1 DEF AdjustmentsOf, SettledLate
    <3>2. CASE a.paid.original # None
      BY <1>2, <3>2
    <3> QED BY <1>3, <3>1, <3>2
  <2> QED BY <1>4, <2>2, <2>3 DEF SettledLate
<1>6. TablesBalance'
  BY <1>1, <1>3, <1>4, <1>5, OneEntryBalances
<1> QED BY <1>3, <1>6

\* An entry that was paid for is taken back.
LEMMA PaidEntryBalances ==
  ASSUME Inv, BalanceInv, NEW self \in Session, NEW e \in EntryId, PaidFor(e),
         e = sess[self].entry, NEW row \in EntryRow,
         sess[self].op \in EditOp \cup StatusOp, sess[self].step = "write",
         \/ sess[self].paid.original # None /\
              row = [entries[e] EXCEPT !.status = "PENDING", !.link = None,
                                       !.late = FALSE, !.original = None]
         \/ row = [entries[e] EXCEPT !.status = "VOIDED"],
         UNCHANGED periods, entries' = [entries EXCEPT ![e] = row],
         Settle(e, sess[self].paid, 0)
  PROVE  TablesBalance' /\ \A a \in AdjustmentId :
           adjustments'[a] = adjustments[a] \/ Adjusts(a, e)
<1> PICK a : a = sess[self]
  OBVIOUS
<1>1. TypeInv /\ TablesBalance /\ PaymentKnown(a) /\ a \in SessionState
  BY DEF Inv, BalanceInv, TypeInv
<1>2. /\ a.paid \in Payment
      /\ entries[e].status = "APPROVED"
      /\ a.paid.original # None /\ a.paid.pending = None
      /\ a.paid.exported = entries[e].minutes
      /\ Exported(entries[e].ref)
  BY <1>1 DEF SessionState, PaymentKnown
<1> PICK p : p = entries[e].ref
  OBVIOUS
<1> PICK m : m = periods[p].lines[e]
  OBVIOUS
<1>3. PaidOnce(e) /\ AsPaid(e) /\ SettledLate(e)
  BY <1>1, <1>2 DEF TablesBalance, PaidOnce, TakenBack
<1>4. m \in Nat \ {0} /\ p \in Period /\ entries[e].minutes = m
  <2>1. m > 0 /\ p \in Period /\ entries[e].minutes = m
    BY <1>1, <1>3 DEF PaidFor, PaidOnce, AsPaid, Exported
  <2>2. entries[e].minutes \in Nat
    BY <1>1, Bounds DEF TypeInv, EntryRow, Minutes
  <2> QED BY <2>1, <2>2
<1>5. PICK x \in AdjustmentId :
        /\ adjustments[x].status = "unused"
        /\ adjustments' = [adjustments EXCEPT ![x] = NewAdjustment(e, a.paid, 0)]
  <2>1. a.paid.exported # 0
    BY <1>2, <1>4
  <2>2. Settle(e, a.paid, 0)
    OBVIOUS
  <2>3. \E x \in AdjustmentId :
          /\ First(x, UnusedAdjustmentIds)
          /\ adjustments' = [adjustments EXCEPT ![x] = NewAdjustment(e, a.paid, 0)]
    BY <1>2, <2>1, <2>2 DEF Settle
  <2> QED BY <2>3 DEF First, UnusedAdjustmentIds
<1>6. /\ adjustments'[x] = NewAdjustment(e, a.paid, 0)
      /\ \A y \in AdjustmentId \ {x} : adjustments'[y] = adjustments[y]
  BY <1>1, <1>5 DEF TypeInv
<1>7. AdjustmentsOf(e)' = {x}
  <2>1. \A y \in AdjustmentId : adjustments[y].entry # e
    BY <1>3 DEF AdjustmentsOf, AsPaid
  <2>2. adjustments'[x].entry = e
    BY <1>6 DEF NewAdjustment
  <2>3. \A y \in AdjustmentId \ {x} : adjustments'[y].entry # e
    BY <1>6, <2>1
  <2> QED BY <2>2, <2>3 DEF AdjustmentsOf
<1>8. TakesBack(x, m)'
  <2>1. /\ adjustments'[x].exported = m /\ adjustments'[x].adjusted = 0
        /\ adjustments'[x].status = "PENDING"
    <3>1. a.paid.exported = m
      BY <1>2, <1>4
    <3> QED BY <1>6, <3>1 DEF NewAdjustment
  <2>2. \A q \in Period : periods'[q].deltas[x] = 0
    BY <1>1, <1>5 DEF TablesBalance, UnusedPaysNothing
  <2> QED BY <2>1, <2>2 DEF TakesBack
<1>9. entries'[e] = row /\ \A d \in EntryId \ {e} : entries'[d] = entries[d]
  BY <1>1 DEF TypeInv
<1>10. /\ row.ref = p /\ row.locked = entries[e].locked
       /\ row.status \notin {"unused", "APPROVED"}
       /\ row.status = "VOIDED" \/ row.link = None
       /\ row.link \in {None, p}
  <2>1. entries[e] \in EntryRow
    BY <1>1 DEF TypeInv
  <2> QED BY <1>3, <2>1 DEF EntryRow, SettledLate
<1>11. PaidOnce(e)'
  <2>1. TakenBack(e)'
    BY <1>7, <1>8, <1>9, <1>10 DEF TakenBack
  <2>2. \A q \in Period : Exported(q)' /\ periods'[q].lines[e] > 0 => q = row.ref
    BY <1>3, <1>10 DEF PaidOnce, Exported
  <2> QED BY <1>3, <1>9, <1>10, <2>1, <2>2 DEF PaidOnce, Exported
<1>12. SettledLate(e)'
  BY <1>2, <1>9, <1>10 DEF SettledLate, Exported
<1>13. \A y \in AdjustmentId : adjustments'[y] = adjustments[y] \/ Adjusts(y, e)
  BY <1>5, <1>6 DEF Adjusts, NewAdjustment
<1>14. TablesBalance'
  BY <1>1, <1>9, <1>11, <1>12, <1>13, OneEntryBalances
<1> QED BY <1>13, <1>14

\* The others have no business with an entry under the locks of one handler, nor
\* with adjustments it makes or changes.
LEMMA EntryTrust ==
  ASSUME Inv, BalanceInv, NEW self \in Session, NEW e \in EntryId, UNCHANGED periods,
         \A d \in EntryId \ {e} : entries'[d] = entries[d],
         entries[e].status = "unused" \/ entries[e].ref \in held[self],
         \A a \in AdjustmentId : adjustments'[a] = adjustments[a] \/ Adjusts(a, e),
         PaidFor(e) => AdjustmentsOf(e) = {},
         NEW q \in Session \ {self}, sess'[q] = sess[q]
  PROVE  PaymentKnown(sess[q])'
<1>1. /\ TypeInv /\ PaymentKnown(sess[q]) /\ CheckHolds(sess[q], held[q])
      /\ SessionOK(sess[q], held[q]) /\ sess[q] \in SessionState
  BY DEF Inv, BalanceInv, FreezeInv, TypeInv
<1>2. \A p \in Period : Exported(p) => Exported(p)'
  BY DEF Exported
<1>3. \A d \in EntryId : PaidFor(d)' => PaidFor(d)
  BY DEF PaidFor, Exported
<1>4. ASSUME sess[q].op \in EditOp \cup StatusOp, sess[q].step = "write"
      PROVE  Same(sess[q].entry) /\ (PaidFor(sess[q].entry)' => PaidFor(sess[q].entry))
  <2>1. /\ sess[q].entry \in EntryId /\ entries[sess[q].entry].ref \in held[q]
        /\ entries[sess[q].entry].ref \in Period
    BY <1>1, <1>4 DEF SessionOK, HasEntry, CheckHolds
  <2>2. sess[q].entry # e
    <3>1. entries[sess[q].entry].ref \notin held[self]
      BY <1>1, <2>1 DEF TypeInv, LocksExclude
    <3>2. entries[sess[q].entry].status # "unused"
      BY <2>1, Bounds DEF Inv, FreezeInv, UnusedBlank
    <3> QED BY <3>1, <3>2
  <2> QED BY <1>3, <2>1, <2>2 DEF Same
<1>5. \A a \in AdjustmentId : adjustments[a].status = "unused" => adjustments[a].entry = None
  BY DEF BalanceInv, TablesBalance, UnusedPaysNothing
<1>6. \A a \in AdjustmentId : adjustments[a].status # "unused" =>
        adjustments'[a].status # "unused" /\ adjustments'[a].entry = adjustments[a].entry
  BY DEF Adjusts
<1>7. ASSUME sess[q].op = "lock", sess[q].step = "write", NEW x \in sess[q].pendings,
             NEW d \in EntryId, PaidFor(d)', x \in AdjustmentsOf(d)
      PROVE  adjustments'[x].status = "PENDING"
  <2>1. PaidFor(d) /\ x \in AdjustmentId /\ adjustments[x].entry = d
    BY <1>3, <1>7 DEF AdjustmentsOf
  <2>2. adjustments[x].status = "PENDING"
    BY <1>1, <1>7, <2>1 DEF PaymentKnown
  <2>3. d # e
    BY <1>7, <2>1
  <2>4. ~Adjusts(x, e)
    BY <2>1, <2>2, <2>3 DEF Adjusts
  <2> QED BY <2>1, <2>2, <2>4
<1> QED BY <1>1, <1>2, <1>4, <1>5, <1>6, <1>7, OthersTrust

\* The commit of a handler: what it writes to its entry balances.
LEMMA CommitBalances ==
  ASSUME Inv, BalanceInv, NEW self \in Session, NEW e, e = sess[self].entry,
         sess[self].op \in EditOp \cup StatusOp, sess[self].step = "write",
         NEW row \in EntryRow, NEW adjusted, CommitEntry(self, e, row, adjusted),
         ~PaidFor(e) => /\ row.ref = entries[e].ref /\ row.link \in {None, row.ref}
                        /\ row.late \/ row.original # None => Exported(row.ref),
         PaidFor(e) => /\ adjusted = 0
                       /\ \/ sess[self].paid.original # None /\
                               row = [entries[e] EXCEPT !.status = "PENDING", !.link = None,
                                                        !.late = FALSE, !.original = None]
                          \/ row = [entries[e] EXCEPT !.status = "VOIDED"]
  PROVE  BalanceInv'
<1>1. TypeInv /\ TablesBalance /\ PaymentKnown(sess[self])
  BY DEF Inv, BalanceInv
<1>2. /\ e \in EntryId /\ entries[e].ref \in held[self]
  BY DEF Inv, FreezeInv, TypeInv, SessionOK, HasEntry, CheckHolds
<1>3. sess'[self] = Idle /\ \A q \in Session \ {self} : sess'[q] = sess[q]
  BY <1>1 DEF CommitEntry, Rollback, Finish, TypeInv
<1>4. PaymentKnown(Idle)'
  BY DEF PaymentKnown, Idle, EditOp, StatusOp
<1>5. CASE Rollback(self)
  <2>1. UNCHANGED <<periods, entries, adjustments>>
    BY <1>5 DEF Rollback, tables
  <2>2. TablesBalance'
    BY <1>1, <2>1 DEF TablesBalance, PaidFor, PaidOnce, AsPaid, TakenBack, TakesBack, Booked,
       Locked, Exported, SettledLate, UnusedPaysNothing, AdjustmentsOf
  <2>3. \A a : PaymentKnown(a) => PaymentKnown(a)'
    BY <2>1 DEF PaymentKnown, PaidFor, Exported, AdjustmentsOf
  <2> QED BY <1>3, <1>4, <2>2, <2>3 DEF BalanceInv
<1>6. CASE /\ entries' = [entries EXCEPT ![e] = row] /\ UNCHANGED periods
           /\ Settle(e, sess[self].paid, adjusted)
  <2>1. /\ TablesBalance'
        /\ \A a \in AdjustmentId : adjustments'[a] = adjustments[a] \/ Adjusts(a, e)
    <3>1. CASE PaidFor(e)
      BY <1>2, <1>6, <3>1, PaidEntryBalances
    <3>2. CASE ~PaidFor(e)
      BY <1>2, <1>6, <3>2, UnpaidEntryBalances
    <3> QED BY <3>1, <3>2
  <2>2. PaidFor(e) => AdjustmentsOf(e) = {}
    BY <1>1, <1>2 DEF PaymentKnown, TablesBalance, PaidOnce, AsPaid, TakenBack
  <2>3. \A d \in EntryId \ {e} : entries'[d] = entries[d]
    BY <1>1, <1>6 DEF TypeInv
  <2>4. \A q \in Session \ {self} : PaymentKnown(sess[q])'
    BY <1>2, <1>3, <1>6, <2>1, <2>2, <2>3, EntryTrust
  <2> QED BY <1>3, <1>4, <2>1, <2>4 DEF BalanceInv
<1> QED BY <1>5, <1>6 DEF CommitEntry

\* A step that writes no table.
LEMMA StepBalances ==
  ASSUME TypeInv, BalanceInv, UNCHANGED tables, NEW self \in Session,
         \A q \in Session \ {self} : sess'[q] = sess[q], PaymentKnown(sess'[self])
  PROVE  BalanceInv'
<1>1. UNCHANGED <<periods, entries, adjustments>>
  BY DEF tables
<1>2. TablesBalance'
  BY <1>1 DEF BalanceInv, TablesBalance, PaidFor, PaidOnce, AsPaid, TakenBack, TakesBack, Booked,
     Locked, Exported, SettledLate, UnusedPaysNothing, AdjustmentsOf
<1>3. \A a : PaymentKnown(a) => PaymentKnown(a)'
  BY <1>1 DEF PaymentKnown, PaidFor, Exported, AdjustmentsOf
<1>4. \A q \in Session : PaymentKnown(sess'[q])
  BY DEF BalanceInv
<1> QED BY <1>2, <1>3, <1>4 DEF BalanceInv

\* Only what is about to be written trusts anything.
LEMMA EarlyTrusts ==
  ASSUME NEW a, a.step # "write", a.op \in EditOp => a.op = "editOwn" /\ a.target = a.period
  PROVE  PaymentKnown(a)
BY DEF PaymentKnown

\* A request that begins.
LEMMA BeginBalances ==
  ASSUME Inv, BalanceInv, NEW self \in Session, NEW a, Begin(self, a), PaymentKnown(a)
  PROVE  BalanceInv'
<1>1. sess'[self] = a /\ \A q \in Session \ {self} : sess'[q] = sess[q]
  BY DEF Begin, Inv, TypeInv
<1> QED BY <1>1, StepBalances DEF Begin, Inv

\* A request that ends with nothing written, or crashes.
LEMMA RollbackBalances ==
  ASSUME Inv, BalanceInv, NEW self \in Session, Rollback(self)
  PROVE  BalanceInv'
<1>1. sess'[self] = Idle /\ \A q \in Session \ {self} : sess'[q] = sess[q]
  BY DEF Rollback, Finish, Inv, TypeInv
<1>2. PaymentKnown(Idle)
  BY DEF PaymentKnown, Idle, EditOp, StatusOp
<1> QED BY <1>1, <1>2, StepBalances DEF Rollback, Inv

\* A request that takes the lock of a period.
LEMMA AcquireBalances ==
  ASSUME Inv, BalanceInv, NEW self \in Session, NEW p, NEW next, AcquirePeriod(self, p, next),
         next = "write" => sess[self].op = "createEntry"
  PROVE  BalanceInv'
<1> PICK a : a = sess[self]
  OBVIOUS
<1> PICK b : b = [a EXCEPT !.step = next]
  OBVIOUS
<1>1. a \in SessionState /\ sess' = [sess EXCEPT ![self] = b]
  BY DEF AcquirePeriod, Goto, Inv, TypeInv
<1>2. sess'[self] = b /\ \A q \in Session \ {self} : sess'[q] = sess[q]
  BY <1>1 DEF Inv, TypeInv
<1>3. b.op = a.op /\ b.step = next /\ b.target = a.target /\ b.period = a.period
  BY <1>1 DEF SessionState
<1>4. a.op \in EditOp => a.op = "editOwn" /\ a.target = a.period
  BY DEF BalanceInv, PaymentKnown
<1>5. PaymentKnown(b)
  <2>1. CASE next = "write"
    <3>1. b.op = "createEntry"
      BY <1>3, <2>1
    <3> QED BY <3>1 DEF PaymentKnown, EditOp, StatusOp
  <2>2. CASE next # "write"
    BY <1>3, <1>4, <2>2, EarlyTrusts
  <2> QED BY <2>1, <2>2
<1> QED BY <1>2, <1>5, StepBalances DEF AcquirePeriod, Inv

\* Requests for entries begin knowing nothing.
LEMMA EntryRequestBalances ==
  ASSUME Inv, BalanceInv, NEW self \in Session, EntryRequest(self),
         "clockOut" \notin Ops, "editAdmin" \notin Ops, "move" \notin Ops
  PROVE  BalanceInv'
<1>0. Idle \in SessionState
  BY IdleTyped
<1>1. ASSUME NEW p, NEW m, CreateEntryBegin(self, p, m) PROVE BalanceInv'
  <2> DEFINE a == [Idle EXCEPT !.op = "createEntry", !.step = "lock",
                               !.period = p, !.minutes = m]
  <2>1. Begin(self, a) /\ a.op = "createEntry"
    BY <1>0, <1>1 DEF CreateEntryBegin, SessionState
  <2> HIDE DEF a
  <2>2. PaymentKnown(a)
    BY <2>1 DEF PaymentKnown, EditOp, StatusOp
  <2> QED BY <2>1, <2>2, BeginBalances
<1>2. ASSUME NEW e, NEW m, ClockOutBegin(self, e, m) PROVE FALSE
  <2> DEFINE a == [Idle EXCEPT !.op = "clockOut", !.step = "write",
                               !.entry = e, !.minutes = m]
  <2>1. Begin(self, a) /\ a.op = "clockOut"
    BY <1>0, <1>2 DEF ClockOutBegin, SessionState
  <2> QED BY <2>1 DEF Begin
<1>3. ASSUME NEW op \in EditOp, NEW e, NEW p, NEW m, EditBegin(self, op, e, p, m)
      PROVE  BalanceInv'
  <2> DEFINE a == [Idle EXCEPT !.op = op, !.step = "lock", !.entry = e,
                               !.period = entries[e].ref, !.target = p, !.minutes = m]
  <2>1. /\ Begin(self, a) /\ a.op = op /\ a.step = "lock"
        /\ a.period = entries[e].ref /\ a.target = p /\ p = entries[e].ref
    BY <1>0, <1>3 DEF EditBegin, SessionState
  <2> HIDE DEF a
  <2>2. op = "editOwn"
    BY <2>1 DEF Begin, EditOp
  <2>3. PaymentKnown(a)
    BY <2>1, <2>2, EarlyTrusts
  <2> QED BY <2>1, <2>3, BeginBalances
<1>4. ASSUME NEW op \in StatusOp, NEW e, StatusBegin(self, op, e) PROVE BalanceInv'
  <2> DEFINE a == [Idle EXCEPT !.op = op, !.step = "lock", !.entry = e,
                               !.period = entries[e].ref]
  <2>1. Begin(self, a) /\ a.op = op /\ a.step = "lock"
    BY <1>0, <1>4 DEF StatusBegin, SessionState
  <2> HIDE DEF a
  <2>2. op \notin EditOp
    BY DEF EditOp, StatusOp
  <2>3. PaymentKnown(a)
    BY <2>1, <2>2, EarlyTrusts
  <2> QED BY <2>1, <2>3, BeginBalances
<1> QED BY <1>1, <1>2, <1>3, <1>4 DEF EntryRequest

\* A new entry was never paid for.
LEMMA CreateBalances ==
  ASSUME Inv, BalanceInv, NEW self \in Session, CreateEntryCommit(self)
  PROVE  BalanceInv'
<1>1. CASE Rollback(self)
  BY <1>1, RollbackBalances
<1>2. CASE ~Rollback(self)
  <2> PICK p : p = sess[self].period
    OBVIOUS
  <2>1. PICK e \in EntryId :
          /\ entries[e].status = "unused"
          /\ entries' = [entries EXCEPT ![e] =
               [UnusedEntry EXCEPT !.status = "PENDING", !.ref = p,
                                   !.minutes = sess[self].minutes]]
          /\ Finish(self) /\ UNCHANGED <<periods, adjustments>>
    BY <1>2 DEF CreateEntryCommit, First, UnusedEntryIds
  <2>2. /\ entries'[e].link = None /\ ~entries'[e].late /\ entries'[e].original = None
        /\ \A d \in EntryId \ {e} : entries'[d] = entries[d]
    BY <2>1 DEF UnusedEntry, Inv, TypeInv
  <2>3. ~Exported(entries[e].ref)
    BY <2>1, Bounds DEF Inv, FreezeInv, UnusedBlank, Exported
  <2>4. AdjustmentsOf(e) = {}
    BY <2>3 DEF BalanceInv, TablesBalance, SettledLate
  <2>5. ~PaidFor(e)
    BY <2>1 DEF BalanceInv, TablesBalance, PaidOnce, AsPaid, TakenBack
  <2>6. SettledLate(e)'
    BY <2>1, <2>2, <2>4 DEF SettledLate, AdjustmentsOf
  <2>7. \A a \in AdjustmentId : adjustments'[a] = adjustments[a] \/ Adjusts(a, e)
    BY <2>1
  <2>8. TablesBalance'
    BY <2>1, <2>2, <2>5, <2>6, <2>7, OneEntryBalances DEF Inv, BalanceInv
  <2>9. sess'[self] = Idle /\ \A q \in Session \ {self} : sess'[q] = sess[q]
    BY <2>1 DEF Finish, Inv, TypeInv
  <2>10. \A q \in Session \ {self} : PaymentKnown(sess[q])'
    BY <2>1, <2>2, <2>4, <2>7, <2>9, EntryTrust
  <2>11. PaymentKnown(Idle)'
    BY DEF PaymentKnown, Idle, EditOp, StatusOp
  <2> QED BY <2>8, <2>9, <2>10, <2>11 DEF BalanceInv
<1> QED BY <1>1, <1>2

\* The payment of an exported period: who has one belongs to it.
LEMMA PaymentByKnown ==
  ASSUME TypeInv, NEW e \in EntryId, NEW p, NEW minutes
  PROVE  /\ PaymentBy(p, e, minutes).original = p
         /\ PaymentBy(p, e, minutes).pending # None =>
              adjustments[PaymentBy(p, e, minutes).pending].entry = e
         /\ AdjustmentsOf(e) = {} => /\ PaymentBy(p, e, minutes).pending = None
                                     /\ PaymentBy(p, e, minutes).exported = minutes
<1>1. /\ PaymentBy(p, e, minutes).original = p
      /\ PaymentBy(p, e, minutes).pending =
           (IF PendingOf(e) = {} THEN None ELSE Newest(PendingOf(e)))
      /\ PendingOf(e) = {} => PaymentBy(p, e, minutes).exported = minutes
  BY DEF PaymentBy
<1>2. PendingOf(e) # {} => Newest(PendingOf(e)) \in PendingOf(e)
  BY NewestIsOne DEF PendingOf
<1>3. PendingOf(e) \subseteq AdjustmentsOf(e)
  BY DEF PendingOf, AdjustmentsOf
<1> QED BY <1>1, <1>2, <1>3 DEF AdjustmentsOf

\* What the check of an edit reads of what was paid for the entry.
LEMMA EditPaymentKnown ==
  ASSUME TypeInv, TablesBalance, NEW e \in EntryId
  PROVE  /\ EditPayment(e).original # None => Exported(entries[e].ref)
         /\ EditPayment(e).pending # None => adjustments[EditPayment(e).pending].entry = e
<1> DEFINE relevant == {a \in AdjustmentId :
             /\ adjustments[a].entry = e
             /\ adjustments[a].status \in {"PENDING", "INCLUDED"}}
           a == adjustments[Newest(relevant)]
           source ==
             IF relevant # {} THEN
               IF a.status = "PENDING" THEN <<a.original, a.exported>>
               ELSE <<a.settlement, a.adjusted>>
             ELSE IF entries[e].link # None
             THEN <<entries[e].link, entries[e].minutes>>
             ELSE IF entries[e].late THEN <<entries[e].original, 0>>
             ELSE <<None, 0>>
<1>1. EditPayment(e) = IF Exported(source[1]) THEN PaymentBy(source[1], e, source[2])
                       ELSE NothingPaid
  BY DEF EditPayment
<1>2. Exported(source[1]) => Exported(entries[e].ref)
  <2>1. SettledLate(e)
    BY DEF TablesBalance
  <2>2. relevant # {} => Exported(entries[e].ref)
    BY <2>1 DEF SettledLate, AdjustmentsOf
  <2>3. ~Exported(None)
    BY Bounds DEF Exported
  <2> HIDE DEF relevant
  <2> QED BY <2>1, <2>2, <2>3 DEF SettledLate
<1> HIDE DEF source
<1>3. NothingPaid.original = None /\ NothingPaid.pending = None
  BY DEF NothingPaid
<1> QED BY <1>1, <1>2, <1>3, PaymentByKnown

\* What keeps a handler from an entry that was taken back.
LEMMA TakenBackRefused ==
  ASSUME TablesBalance, NEW e \in EntryId, PaidFor(e)
  PROVE  /\ ~EditableByEmployee(e)
         /\ EditableByAdmin(e) => AsPaid(e)
<1>1. PaidOnce(e) /\ ~Exported(None)
  BY Bounds DEF TablesBalance, Exported
<1> QED BY <1>1 DEF PaidOnce, TakenBack, EditableByEmployee, EditableByAdmin

\* The handlers of one entry: an edit is checked.
LEMMA EditCheckBalances ==
  ASSUME Inv, BalanceInv, NEW self \in Session, EditCheck(self)
  PROVE  BalanceInv'
<1> PICK a : a = sess[self]
  OBVIOUS
<1> PICK paid : paid = EditPayment(a.entry)
  OBVIOUS
<1> PICK b : b = [a EXCEPT !.step = "write", !.paid = paid]
  OBVIOUS
<1>1. /\ a \in SessionState /\ a.op \in EditOp /\ a.entry \in EntryId
      /\ a.op = "editOwn" /\ a.target = a.period /\ TypeInv /\ TablesBalance
  BY DEF EditCheck, Inv, TypeInv, SessionOK, HasEntry, BalanceInv, PaymentKnown
<1>2. CASE Rollback(self)
  BY <1>2, RollbackBalances
<1>3. CASE ~Rollback(self)
  <2>1. /\ MayEdit(a.op, a.entry) /\ sess' = [sess EXCEPT ![self] = b] /\ UNCHANGED tables
    BY <1>3 DEF EditCheck
  <2>2. sess'[self] = b /\ \A q \in Session \ {self} : sess'[q] = sess[q]
    BY <1>1, <2>1 DEF TypeInv
  <2>3. /\ b.op = "editOwn" /\ b.target = b.period /\ b.paid = paid /\ b.entry = a.entry
    BY <1>1 DEF SessionState
  <2>4. ~PaidFor(a.entry)
    BY <1>1, <2>1, TakenBackRefused DEF MayEdit
  <2>5. /\ paid.original # None => Exported(entries[a.entry].ref)
        /\ paid.pending # None => adjustments[paid.pending].entry = a.entry
    BY <1>1, EditPaymentKnown
  <2>6. PaymentKnown(b)
    BY <2>3, <2>4, <2>5 DEF PaymentKnown
  <2> QED BY <1>1, <2>1, <2>2, <2>6, StepBalances
<1> QED BY <1>2, <1>3

\* An edit is written.
LEMMA EditCommitBalances ==
  ASSUME Inv, BalanceInv, NEW self \in Session, EditCommit(self)
  PROVE  BalanceInv'
<1> PICK a : a = sess[self]
  OBVIOUS
<1> PICK e : e = a.entry
  OBVIOUS
<1> PICK row : row = [entries[e] EXCEPT !.ref = a.target, !.minutes = a.minutes,
                        !.status = IF a.op = "editOwn" THEN "PENDING" ELSE @]
  OBVIOUS
<1>1. /\ a \in SessionState /\ a.op \in EditOp /\ a.step = "write" /\ e \in EntryId
      /\ a.op = "editOwn" /\ a.target = a.period /\ a.period = entries[e].ref
      /\ entries[e] \in EntryRow /\ a.target \in Period
  BY DEF EditCommit, Inv, TypeInv, SessionOK, HasEntry, HasPeriod, OpName, EditOp, BalanceInv,
     PaymentKnown, FreezeInv, CheckHolds
<1>2. /\ row \in EntryRow /\ row.ref = entries[e].ref /\ row.link = entries[e].link
      /\ row.late = entries[e].late /\ row.original = entries[e].original
  <2>1. a.minutes \in Minutes /\ a.target \in MaybePeriod
    BY <1>1 DEF SessionState
  <2> QED BY <1>1, <2>1 DEF EntryRow, EntryStatus
<1>3. ~PaidFor(e)
  BY <1>1 DEF BalanceInv, PaymentKnown
<1>4. SettledLate(e)
  BY <1>1 DEF BalanceInv, TablesBalance
<1>5. CommitEntry(self, e, row, a.minutes)
  BY DEF EditCommit
<1>6. /\ row.link \in {None, row.ref}
      /\ row.late \/ row.original # None => Exported(row.ref)
  BY <1>2, <1>4 DEF SettledLate
<1>7. a.op \in EditOp \cup StatusOp
  BY <1>1
<1> QED BY <1>1, <1>2, <1>3, <1>5, <1>6, <1>7, CommitBalances

\* A change of status is checked.
LEMMA StatusCheckBalances ==
  ASSUME Inv, BalanceInv, NEW self \in Session, StatusCheck(self)
  PROVE  BalanceInv'
<1> PICK a : a = sess[self]
  OBVIOUS
<1> PICK e : e = a.entry
  OBVIOUS
<1> PICK paid : paid = StatusPayment(a.op, e)
  OBVIOUS
<1> PICK b : b = [a EXCEPT !.step = "write", !.paid = paid]
  OBVIOUS
<1>1. /\ a \in SessionState /\ a.op \in StatusOp /\ e \in EntryId
      /\ TypeInv /\ TablesBalance
  BY DEF StatusCheck, Inv, TypeInv, SessionOK, HasEntry, BalanceInv
<1>2. CASE Rollback(self)
  BY <1>2, RollbackBalances
<1>3. CASE ~Rollback(self)
  <2>1. /\ EditableByAdmin(e) /\ MayChangeStatus(a.op, e)
        /\ sess' = [sess EXCEPT ![self] = b] /\ UNCHANGED tables
    BY <1>3 DEF StatusCheck
  <2>2. sess'[self] = b /\ \A q \in Session \ {self} : sess'[q] = sess[q]
    BY <1>1, <2>1 DEF TypeInv
  <2>3. b.op = a.op /\ b.paid = paid /\ b.entry = e /\ b.op \notin EditOp /\ b.op # "lock"
    BY <1>1 DEF SessionState, EditOp, StatusOp
  <2>4. SettledLate(e) /\ ~Exported(None) /\ NothingPaid.original = None
        /\ NothingPaid.pending = None
    BY <1>1, Bounds DEF TablesBalance, Exported, NothingPaid
  <2>5. /\ paid.original # None => Exported(entries[e].ref)
        /\ paid.pending # None => adjustments[paid.pending].entry = e
    <3>1. Exported(PaidPeriod(e)) => Exported(entries[e].ref)
      BY <2>4 DEF PaidPeriod, SettledLate
    <3>2. \/ paid = NothingPaid
          \/ Exported(entries[e].ref) /\ \E p, m : paid = PaymentBy(p, e, m)
      BY <3>1 DEF StatusPayment
    <3> QED BY <1>1, <2>4, <3>2, PaymentByKnown
  <2>6. ASSUME PaidFor(e)
        PROVE  /\ a.op \in {"unapprove", "void"}
               /\ entries[e].status = "APPROVED"
               /\ paid.original # None /\ paid.pending = None
               /\ paid.exported = entries[e].minutes
    <3>1. AsPaid(e) /\ PaidOnce(e)
      BY <1>1, <2>1, <2>6, TakenBackRefused DEF TablesBalance
    <3>2. Exported(entries[e].ref) /\ entries[e].ref # None
      BY <2>4, <2>6, <3>1 DEF PaidFor, PaidOnce
    <3>3. PaidPeriod(e) = entries[e].ref
      BY <3>1, <3>2 DEF AsPaid, PaidPeriod
    <3>4. a.op \in {"unapprove", "void"}
      BY <1>1, <2>1, <3>1 DEF MayChangeStatus, AsPaid, StatusOp
    <3>5. paid = PaymentBy(entries[e].ref, e, entries[e].minutes)
      BY <3>1, <3>2, <3>3, <3>4 DEF StatusPayment, AsPaid
    <3>6. /\ PaymentBy(entries[e].ref, e, entries[e].minutes).original = entries[e].ref
          /\ PaymentBy(entries[e].ref, e, entries[e].minutes).pending = None
          /\ PaymentBy(entries[e].ref, e, entries[e].minutes).exported = entries[e].minutes
      <4>1. AdjustmentsOf(e) = {}
        BY <3>1 DEF AsPaid
      <4> QED BY <1>1, <4>1, PaymentByKnown
    <3> QED BY <3>1, <3>2, <3>4, <3>5, <3>6 DEF AsPaid
  <2>7. PaymentKnown(b)
    BY <2>3, <2>5, <2>6 DEF PaymentKnown
  <2> QED BY <1>1, <2>1, <2>2, <2>7, StepBalances
<1> QED BY <1>2, <1>3

\* A change of status is written: what was paid for is taken back, once.
LEMMA StatusCommitBalances ==
  ASSUME Inv, BalanceInv, NEW self \in Session,
         \/ ApproveCommit(self) \/ UnapproveCommit(self)
         \/ RejectCommit(self) \/ VoidCommit(self)
  PROVE  BalanceInv'
<1> PICK a : a = sess[self]
  OBVIOUS
<1> PICK e : e = a.entry
  OBVIOUS
<1>1. a \in SessionState /\ a.op \in StatusOp /\ a.step = "write"
  BY DEF ApproveCommit, UnapproveCommit, RejectCommit, VoidCommit, At, StatusOp, Inv, TypeInv
<1>2. /\ e \in EntryId /\ entries[e] \in EntryRow /\ a.period = entries[e].ref
      /\ a.period \in Period /\ a.paid \in Payment /\ SettledLate(e)
  BY <1>1 DEF Inv, TypeInv, SessionOK, HasEntry, HasPeriod, OpName, StatusOp, FreezeInv,
     CheckHolds, SessionState, BalanceInv, TablesBalance
<1>3. /\ a.paid.original # None => Exported(entries[e].ref)
      /\ PaidFor(e) => /\ a.op \in {"unapprove", "void"}
                       /\ a.paid.original # None
  BY <1>1 DEF BalanceInv, PaymentKnown
<1>4. /\ a.op \in EditOp \cup StatusOp /\ e = sess[self].entry /\ a.paid.original \in MaybePeriod
      /\ a.period \in MaybePeriod /\ None \in MaybePeriod
  BY <1>1, <1>2 DEF Payment, MaybePeriod
<1>5. CASE ApproveCommit(self)
  <2> PICK row : row = [entries[e] EXCEPT !.status = "APPROVED",
          !.late = (a.paid.original # None), !.original = a.paid.original,
          !.link = IF a.paid.original # None THEN None
                   ELSE IF HasRow(a.period) THEN a.period ELSE @]
    OBVIOUS
  <2>1. /\ row \in EntryRow /\ row.ref = entries[e].ref
        /\ row.late = (a.paid.original # None) /\ row.original = a.paid.original
        /\ row.link \in {None, a.period, entries[e].link}
    BY <1>2, <1>4 DEF EntryRow, EntryStatus
  <2>2. CommitEntry(self, e, row, entries[e].minutes) /\ a.op = "approve"
    BY <1>5 DEF ApproveCommit, At
  <2>3. /\ row.link \in {None, row.ref} /\ ~PaidFor(e)
        /\ row.late \/ row.original # None => Exported(row.ref)
    BY <1>2, <1>3, <2>1, <2>2 DEF SettledLate
  <2> QED BY <1>1, <1>4, <2>1, <2>2, <2>3, CommitBalances
<1>6. CASE UnapproveCommit(self)
  <2> PICK row : row = IF a.paid.original = None THEN [entries[e] EXCEPT !.status = "PENDING"]
                       ELSE [entries[e] EXCEPT !.status = "PENDING", !.link = None,
                                               !.late = FALSE, !.original = None]
    OBVIOUS
  <2>1. /\ row \in EntryRow /\ row.ref = entries[e].ref
        /\ row.link \in {None, entries[e].link}
        /\ row.late \/ row.original # None => entries[e].late \/ entries[e].original # None
    BY <1>2, <1>4 DEF EntryRow, EntryStatus
  <2>2. CommitEntry(self, e, row, 0)
    BY <1>6 DEF UnapproveCommit
  <2>3. /\ row.link \in {None, row.ref}
        /\ row.late \/ row.original # None => Exported(row.ref)
    BY <1>2, <2>1 DEF SettledLate
  <2>4. PaidFor(e) => a.paid.original # None /\
          row = [entries[e] EXCEPT !.status = "PENDING", !.link = None,
                                   !.late = FALSE, !.original = None]
    BY <1>3
  <2> QED BY <1>1, <1>4, <2>1, <2>2, <2>3, <2>4, CommitBalances
<1>7. CASE RejectCommit(self)
  <2> PICK row : row = [entries[e] EXCEPT !.status = "NEEDS_CHANGES"]
    OBVIOUS
  <2>1. /\ row \in EntryRow /\ row.ref = entries[e].ref /\ row.link = entries[e].link
        /\ row.late = entries[e].late /\ row.original = entries[e].original
    BY <1>2 DEF EntryRow, EntryStatus
  <2>2. CommitEntry(self, e, row, 0) /\ a.op = "reject"
    BY <1>7 DEF RejectCommit, At
  <2>3. /\ row.link \in {None, row.ref} /\ ~PaidFor(e)
        /\ row.late \/ row.original # None => Exported(row.ref)
    BY <1>2, <1>3, <2>1, <2>2 DEF SettledLate
  <2> QED BY <1>1, <1>4, <2>1, <2>2, <2>3, CommitBalances
<1>8. CASE VoidCommit(self)
  <2> PICK row : row = [entries[e] EXCEPT !.status = "VOIDED"]
    OBVIOUS
  <2>1. /\ row \in EntryRow /\ row.ref = entries[e].ref /\ row.link = entries[e].link
        /\ row.late = entries[e].late /\ row.original = entries[e].original
    BY <1>2 DEF EntryRow, EntryStatus
  <2>2. CommitEntry(self, e, row, 0)
    BY <1>8 DEF VoidCommit
  <2>3. /\ row.link \in {None, row.ref}
        /\ row.late \/ row.original # None => Exported(row.ref)
    BY <1>2, <2>1 DEF SettledLate
  <2> QED BY <1>1, <1>4, <2>1, <2>2, <2>3, CommitBalances
<1> QED BY <1>5, <1>6, <1>7, <1>8

-----------------------------------------------------------------------------
(* Handlers of periods *)

\* Minutes are natural numbers.
LEMMA MinutesAreNumbers == \A m \in Minutes : m \in Nat /\ 0 - m = -m
BY Bounds DEF Minutes

\* A period that is locked settles what it includes, and no other does.
LEMMA LockTakesBack ==
  ASSUME TypeInv, NEW p \in Period, ~Booked(p), NEW included \in SUBSET AdjustmentId,
         periods' = [periods EXCEPT ![p] =
           [status |-> "LOCKED", run |-> periods[p].run + 1,
            lines |-> RunLines(p), deltas |-> RunDeltas(p, included)]],
         adjustments' = [a \in AdjustmentId |->
           IF a \in included
           THEN [adjustments[a] EXCEPT !.status = "INCLUDED", !.settlement = p]
           ELSE adjustments[a]],
         NEW a \in AdjustmentId, NEW m \in Minutes, TakesBack(a, m),
         a \in included => adjustments[a].status = "PENDING"
  PROVE  TakesBack(a, m)'
<1>1. /\ periods'[p].deltas = RunDeltas(p, included) /\ periods'[p].status = "LOCKED"
      /\ \A q \in Period \ {p} : periods'[q] = periods[q]
  BY DEF TypeInv
<1>2. /\ Booked(p)'
      /\ \A q : q # p => (Booked(q)' <=> Booked(q))
  BY <1>1 DEF Booked, Locked, Exported
<1>3. /\ adjustments[a].exported = m /\ adjustments[a].adjusted = 0
      /\ adjustments[a] \in AdjustmentRow /\ m \in Nat
  <2>1. adjustments[a].exported = m /\ adjustments[a].adjusted = 0
    BY ONLY TakesBack(a, m) DEF TakesBack
  <2>2. m \in Nat
    BY MinutesAreNumbers
  <2> QED BY <2>1, <2>2 DEF TypeInv
<1>4. DeltaOf(a) = -m
  <2>1. DeltaOf(a) = 0 - m
    BY <1>3 DEF DeltaOf
  <2>2. 0 - m = -m
    BY MinutesAreNumbers
  <2> QED BY <2>1, <2>2
<1>5. RunDeltas(p, included)[a] =
        IF a \in included \/ (/\ adjustments[a].status = "INCLUDED"
                              /\ adjustments[a].settlement = p)
        THEN -m ELSE 0
  BY <1>4 DEF RunDeltas
<1>6. CASE a \in included
  <2>1. /\ adjustments'[a].exported = m /\ adjustments'[a].adjusted = 0
        /\ adjustments'[a].status = "INCLUDED" /\ adjustments'[a].settlement = p
    BY <1>3, <1>6 DEF AdjustmentRow
  <2>2. \A q \in Period : Booked(q) => periods[q].deltas[a] = 0
    BY <1>6 DEF TakesBack
  <2>3. \A q \in Period : Booked(q)' => periods'[q].deltas[a] = IF q = p THEN -m ELSE 0
    BY <1>1, <1>2, <1>5, <1>6, <2>2
  <2> QED BY <1>2, <2>1, <2>3 DEF TakesBack
<1>7. CASE a \notin included
  <2>1. adjustments'[a] = adjustments[a]
    BY <1>7
  <2>2. CASE adjustments[a].status = "PENDING"
    <3>1. \A q \in Period : Booked(q) => periods[q].deltas[a] = 0
      BY <2>2 DEF TakesBack
    <3>2. \A q \in Period : Booked(q)' => periods'[q].deltas[a] = 0
      BY <1>1, <1>2, <1>5, <1>7, <2>2, <3>1
    <3> QED BY <1>3, <2>1, <2>2, <3>2 DEF TakesBack
  <2>3. CASE adjustments[a].status = "INCLUDED"
    <3>1. /\ Booked(adjustments[a].settlement) /\ adjustments[a].settlement # p
          /\ \A q \in Period : Booked(q) =>
               periods[q].deltas[a] = IF q = adjustments[a].settlement THEN -m ELSE 0
      BY <2>3 DEF TakesBack
    <3>2. \A q \in Period : Booked(q)' =>
            periods'[q].deltas[a] = IF q = adjustments[a].settlement THEN -m ELSE 0
      BY <1>1, <1>2, <1>5, <1>7, <3>1
    <3>3. Booked(adjustments[a].settlement)'
      BY <1>1, <2>1, <3>1 DEF Booked, Locked, Exported
    <3> QED BY <1>3, <2>1, <2>3, <3>2, <3>3 DEF TakesBack
  <2> QED BY <2>2, <2>3 DEF TakesBack
<1> QED BY <1>6, <1>7

\* A commit of a period that is no exported one, and becomes none: entries paid
\* for are none of its, and keep what they had.
LEMMA PeriodBalances ==
  ASSUME TypeInv, TablesBalance, NEW p \in Period, ~Exported(p), ~Exported(p)',
         \A q \in Period \ {p} : periods'[q] = periods[q],
         \A e \in EntryId :
           \/ entries'[e] = entries[e]
           \/ /\ entries[e].ref = p \/ entries[e].link = p
              /\ entries'[e].ref = entries[e].ref
              /\ entries'[e].link \in {entries[e].link, entries[e].ref}
              /\ entries'[e].late = entries[e].late
              /\ entries'[e].original = entries[e].original,
         \A a \in AdjustmentId :
           /\ adjustments'[a].entry = adjustments[a].entry
           /\ adjustments'[a].status = "unused" <=> adjustments[a].status = "unused",
         \A a \in AdjustmentId : adjustments[a].status = "unused" =>
           periods'[p].deltas[a] = 0,
         \A a \in AdjustmentId, m \in Minutes, e \in EntryId :
           PaidFor(e) /\ a \in AdjustmentsOf(e) /\ TakesBack(a, m) => TakesBack(a, m)'
  PROVE  /\ TablesBalance'
         /\ \A e \in EntryId : PaidFor(e)' => PaidFor(e) /\ entries'[e] = entries[e]
         /\ \A q \in Period : Exported(q) => Exported(q)'
<1>1. \A q : Exported(q)' <=> Exported(q)
  BY DEF Exported
<1>2. \A e : PaidFor(e)' <=> PaidFor(e)
  BY <1>1 DEF PaidFor
<1>3. \A e \in EntryId : AdjustmentsOf(e)' = AdjustmentsOf(e)
  BY DEF AdjustmentsOf
<1>4. ASSUME NEW e \in EntryId, PaidFor(e)
      PROVE  PaidOnce(e)' /\ entries'[e] = entries[e]
  <2> PICK r : r = entries[e].ref
    OBVIOUS
  <2>1. PaidOnce(e) /\ Exported(r) /\ r \in Period \ {p}
    BY <1>4 DEF TablesBalance, PaidOnce, PaidFor, Exported
  <2>2. periods'[r] = periods[r] /\ periods[r].lines[e] \in Minutes
    BY <2>1 DEF TypeInv, PeriodRow
  <2>3. entries[e].link # p
    <3>1. entries[e].link \in {None, r} /\ None # p
      BY Bounds DEF TablesBalance, SettledLate
    <3> QED BY <2>1, <3>1
  <2>4. entries'[e] = entries[e]
    BY <2>1, <2>3
  <2>5. AsPaid(e) => AsPaid(e)'
    BY <1>3, <2>2, <2>4 DEF AsPaid
  <2>6. ASSUME TakenBack(e) PROVE TakenBack(e)'
    <3>1. PICK a \in AdjustmentId :
            AdjustmentsOf(e) = {a} /\ TakesBack(a, periods[r].lines[e])
      BY <2>6 DEF TakenBack
    <3>2. TakesBack(a, periods[r].lines[e])'
      <4> PICK m \in Minutes : m = periods[r].lines[e]
        BY <2>2
      <4>1. TakesBack(a, m)'
        BY <1>4, <3>1
      <4>2. periods'[r].lines[e] = m
        BY <2>2
      <4> QED BY <4>1, <4>2
    <3>3. AdjustmentsOf(e)' = {a}
      BY <1>3, <3>1
    <3>4. entries'[e].ref = r
      BY <2>4
    <3> QED BY <2>4, <2>6, <3>2, <3>3, <3>4 DEF TakenBack
  <2>7. \A q \in Period : Exported(q)' /\ periods'[q].lines[e] > 0 => q = entries'[e].ref
    <3>1. \A q \in Period : Exported(q)' => Exported(q) /\ periods'[q] = periods[q]
      BY <1>1
    <3> QED BY <2>1, <2>4, <3>1 DEF PaidOnce
  <2> QED BY <2>1, <2>4, <2>5, <2>6, <2>7 DEF PaidOnce
<1>5. ASSUME NEW e \in EntryId PROVE SettledLate(e)'
  <2>1. SettledLate(e)
    BY DEF TablesBalance
  <2>2. /\ entries'[e].ref = entries[e].ref
        /\ entries'[e].link \in {entries[e].link, entries[e].ref}
        /\ entries'[e].late = entries[e].late
        /\ entries'[e].original = entries[e].original
    OBVIOUS
  <2> QED BY <1>1, <1>3, <2>1, <2>2 DEF SettledLate
<1>6. UnusedPaysNothing'
  BY DEF TablesBalance, UnusedPaysNothing
<1> QED BY <1>1, <1>2, <1>4, <1>5, <1>6 DEF TablesBalance

\* What the others trust of other periods stays.
LEMMA PeriodTrust ==
  ASSUME Inv, BalanceInv, NEW self \in Session, Finish(self), TablesBalance',
         \A e \in EntryId : PaidFor(e)' => PaidFor(e) /\ entries'[e] = entries[e],
         \A q \in Period : Exported(q) => Exported(q)',
         \A e \in EntryId : Same(e),
         \A a \in AdjustmentId :
           /\ adjustments'[a].entry = adjustments[a].entry
           /\ adjustments'[a].status = "unused" <=> adjustments[a].status = "unused",
         \A q \in Session \ {self} : sess[q].op = "lock" /\ sess[q].step = "write" =>
           \A a \in sess[q].pendings :
             adjustments[a].status = "PENDING" => adjustments'[a].status = "PENDING"
  PROVE  BalanceInv'
<1>1. sess'[self] = Idle /\ \A q \in Session \ {self} : sess'[q] = sess[q]
  BY DEF Finish, Inv, TypeInv
<1>2. PaymentKnown(Idle)'
  BY DEF PaymentKnown, Idle, EditOp, StatusOp
<1>3. ASSUME NEW q \in Session \ {self} PROVE PaymentKnown(sess[q])'
  <2>1. TypeInv /\ PaymentKnown(sess[q]) /\ SessionOK(sess[q], held[q]) /\ sess'[q] = sess[q]
    BY <1>1 DEF Inv, TypeInv, BalanceInv
  <2>2. sess[q].op \in EditOp \cup StatusOp => sess[q].entry \in EntryId
    BY <2>1 DEF SessionOK, HasEntry
  <2>3. sess[q].op \in EditOp \cup StatusOp /\ sess[q].step = "write" =>
          Same(sess[q].entry) /\ (PaidFor(sess[q].entry)' => PaidFor(sess[q].entry))
    <3> PICK e : e = sess[q].entry
      OBVIOUS
    <3>1. PaidFor(sess[q].entry)' <=> PaidFor(e)'
      BY <2>1 DEF PaidFor
    <3> QED BY <2>2, <3>1
  <2>4. \A a \in AdjustmentId : adjustments[a].status = "unused" => adjustments[a].entry = None
    BY DEF BalanceInv, TablesBalance, UnusedPaysNothing
  <2>5. ASSUME sess[q].op = "lock", sess[q].step = "write", NEW x \in sess[q].pendings,
               NEW e \in EntryId, PaidFor(e)', x \in AdjustmentsOf(e)
        PROVE  adjustments'[x].status = "PENDING"
    BY <2>1, <2>5 DEF PaymentKnown
  <2> QED BY <2>1, <2>3, <2>4, <2>5, OthersTrust
<1> QED BY <1>1, <1>2, <1>3 DEF BalanceInv

\* A lock is written: the lines and what the period includes.
LEMMA LockBalances ==
  ASSUME Inv, ExportInv, BalanceInv, LocksApart, NEW self \in Session, LockPeriodCommit(self)
  PROVE  BalanceInv'
<1> PICK p : p = sess[self].period
  OBVIOUS
<1> PICK rows : rows = sess[self].rows
  OBVIOUS
<1> PICK included : included = sess[self].pendings
  OBVIOUS
<1>1. /\ sess[self].op = "lock" /\ sess[self].step = "write" /\ Finish(self)
      /\ periods' = [periods EXCEPT ![p] =
           [status |-> "LOCKED", run |-> periods[p].run + 1,
            lines |-> RunLines(p), deltas |-> RunDeltas(p, included)]]
      /\ entries' = [e \in EntryId |->
           IF e \in rows THEN [entries[e] EXCEPT !.link = p, !.locked = TRUE]
           ELSE entries[e]]
      /\ adjustments' = [a \in AdjustmentId |->
           IF a \in included
           THEN [adjustments[a] EXCEPT !.status = "INCLUDED", !.settlement = p]
           ELSE adjustments[a]]
  BY DEF LockPeriodCommit, At
<1>2. /\ TypeInv /\ TablesBalance /\ p \in Period /\ included \subseteq AdjustmentId
      /\ \A e \in rows : entries[e].ref = p
  BY <1>1 DEF Inv, TypeInv, BalanceInv, SessionOK, HasPeriod, OpName, FreezeInv, CheckHolds,
     SessionState
<1>3. ~Exported(p) /\ ~Booked(p)
  BY <1>1 DEF ExportInv, StatusKnown, Exportable, Exported, Booked, Locked
<1>4. \A a \in included :
        /\ adjustments[a].status # "unused"
        /\ \A e \in EntryId : PaidFor(e) /\ a \in AdjustmentsOf(e)
             => adjustments[a].status = "PENDING"
  BY <1>1 DEF BalanceInv, PaymentKnown
<1>5. /\ periods'[p].status = "LOCKED" /\ periods'[p].deltas = RunDeltas(p, included)
      /\ \A q \in Period \ {p} : periods'[q] = periods[q]
  BY <1>1, <1>2 DEF TypeInv
<1>6. ASSUME NEW e \in EntryId
      PROVE  /\ Same(e)
             /\ \/ entries'[e] = entries[e]
                \/ /\ entries[e].ref = p \/ entries[e].link = p
                   /\ entries'[e].ref = entries[e].ref
                   /\ entries'[e].link \in {entries[e].link, entries[e].ref}
                   /\ entries'[e].late = entries[e].late
                   /\ entries'[e].original = entries[e].original
  <2>1. entries[e] \in EntryRow
    BY <1>2 DEF TypeInv
  <2>2. entries'[e] = IF e \in rows THEN [entries[e] EXCEPT !.link = p, !.locked = TRUE]
                      ELSE entries[e]
    BY <1>1
  <2> QED BY <1>2, <2>1, <2>2 DEF EntryRow, Same
<1>7. ASSUME NEW a \in AdjustmentId
      PROVE  /\ adjustments'[a].entry = adjustments[a].entry
             /\ adjustments'[a].status = "unused" <=> adjustments[a].status = "unused"
  <2>1. adjustments[a] \in AdjustmentRow
    BY <1>2 DEF TypeInv
  <2>2. adjustments'[a] = IF a \in included
                          THEN [adjustments[a] EXCEPT !.status = "INCLUDED", !.settlement = p]
                          ELSE adjustments[a]
    BY <1>1
  <2> QED BY <1>4, <2>1, <2>2 DEF AdjustmentRow
<1>8. ASSUME NEW a \in AdjustmentId, adjustments[a].status = "unused"
      PROVE  periods'[p].deltas[a] = 0
  BY <1>4, <1>5, <1>8 DEF RunDeltas
<1>9. ASSUME NEW a \in AdjustmentId, NEW m \in Minutes, NEW e \in EntryId,
             PaidFor(e), a \in AdjustmentsOf(e), TakesBack(a, m)
      PROVE  TakesBack(a, m)'
  <2>1. a \in included => adjustments[a].status = "PENDING"
    BY <1>4, <1>9
  <2> QED BY <1>1, <1>2, <1>3, <1>9, <2>1, LockTakesBack
<1>10. ~Exported(p)'
  BY <1>5 DEF Exported
<1>11. /\ TablesBalance'
       /\ \A e \in EntryId : PaidFor(e)' => PaidFor(e) /\ entries'[e] = entries[e]
       /\ \A q \in Period : Exported(q) => Exported(q)'
  BY <1>2, <1>3, <1>5, <1>6, <1>7, <1>8, <1>9, <1>10, PeriodBalances
<1>12. \A q \in Session \ {self} : ~(sess[q].op = "lock" /\ sess[q].step = "write")
  BY <1>1 DEF LocksApart, At
<1> QED BY <1>1, <1>6, <1>7, <1>11, <1>12, PeriodTrust

\* A reopened period lets go of what it settled; the adjustments wait again.
LEMMA UnlockBalances ==
  ASSUME Inv, ExportInv, BalanceInv, NEW self \in Session, UnlockPeriodCommit(self)
  PROVE  BalanceInv'
<1> PICK p : p = sess[self].period
  OBVIOUS
<1>1. /\ sess[self].op = "unlock" /\ Finish(self)
      /\ periods' = [periods EXCEPT ![p].status = "UNLOCKED"]
      /\ entries' = [e \in EntryId |->
           IF entries[e].link = p THEN [entries[e] EXCEPT !.locked = FALSE]
           ELSE entries[e]]
      /\ adjustments' = Reopened(p)
  BY DEF UnlockPeriodCommit, At
<1>2. TypeInv /\ TablesBalance /\ p \in Period /\ ~Exported(p)
  BY <1>1 DEF Inv, TypeInv, BalanceInv, SessionOK, HasPeriod, OpName, ExportInv, StatusKnown
<1>3. /\ periods'[p].status = "UNLOCKED" /\ periods'[p].deltas = periods[p].deltas
      /\ \A q \in Period \ {p} : periods'[q] = periods[q]
  BY <1>1, <1>2 DEF TypeInv, PeriodRow
<1>4. ASSUME NEW e \in EntryId
      PROVE  /\ Same(e)
             /\ \/ entries'[e] = entries[e]
                \/ /\ entries[e].ref = p \/ entries[e].link = p
                   /\ entries'[e].ref = entries[e].ref
                   /\ entries'[e].link \in {entries[e].link, entries[e].ref}
                   /\ entries'[e].late = entries[e].late
                   /\ entries'[e].original = entries[e].original
  <2>1. entries[e] \in EntryRow
    BY <1>2 DEF TypeInv
  <2>2. entries'[e] = IF entries[e].link = p THEN [entries[e] EXCEPT !.locked = FALSE]
                      ELSE entries[e]
    BY <1>1
  <2> QED BY <2>1, <2>2 DEF EntryRow, Same
<1>5. ASSUME NEW a \in AdjustmentId
      PROVE  \/ adjustments'[a] = adjustments[a]
             \/ /\ adjustments[a].status = "INCLUDED" /\ adjustments[a].settlement = p
                /\ adjustments'[a].status = "PENDING"
                /\ adjustments'[a].entry = adjustments[a].entry
                /\ adjustments'[a].exported = adjustments[a].exported
                /\ adjustments'[a].adjusted = adjustments[a].adjusted
  <2>1. adjustments[a] \in AdjustmentRow
    BY <1>2 DEF TypeInv
  <2>2. adjustments'[a] =
          IF adjustments[a].status = "INCLUDED" /\ adjustments[a].settlement = p
          THEN [adjustments[a] EXCEPT !.status = "PENDING"]
          ELSE adjustments[a]
    BY <1>1 DEF Reopened
  <2> QED BY <2>1, <2>2 DEF AdjustmentRow
<1>6. \A a \in AdjustmentId :
        /\ adjustments'[a].entry = adjustments[a].entry
        /\ adjustments'[a].status = "unused" <=> adjustments[a].status = "unused"
  BY <1>5
<1>7. \A a \in AdjustmentId : adjustments[a].status = "unused" => periods'[p].deltas[a] = 0
  BY <1>2, <1>3 DEF TablesBalance, UnusedPaysNothing
<1>8. ~Booked(p)' /\ ~Exported(p)'
  BY <1>3 DEF Booked, Locked, Exported
<1>9. \A q : q # p => (Booked(q)' <=> Booked(q))
  BY <1>3 DEF Booked, Locked, Exported
<1>10. ASSUME NEW a \in AdjustmentId, NEW m \in Minutes, TakesBack(a, m)
       PROVE  TakesBack(a, m)'
  <2>0. \A q \in Period : Booked(q)' => q # p /\ Booked(q) /\ periods'[q] = periods[q]
    BY <1>3, <1>8, <1>9
  <2>1. CASE adjustments'[a] = adjustments[a]
    <3>1. CASE adjustments[a].status = "PENDING"
      BY <1>10, <2>0, <2>1, <3>1 DEF TakesBack
    <3>2. CASE adjustments[a].status = "INCLUDED"
      <4> PICK s : s = adjustments[a].settlement
        OBVIOUS
      <4>1. s # p
        <5>1. adjustments'[a].status # "INCLUDED" \/ adjustments'[a].settlement # p
          BY <1>1, <1>2 DEF Reopened, TypeInv, AdjustmentRow
        <5> QED BY <2>1, <3>2, <5>1
      <4>2. Booked(s)'
        BY <1>9, <1>10, <3>2, <4>1 DEF TakesBack
      <4>3. Booked(adjustments[a].settlement)'
        BY <2>1, <4>2 DEF Booked, Locked, Exported
      <4> QED BY <1>10, <2>0, <2>1, <3>2, <4>3 DEF TakesBack
    <3> QED BY <1>10, <3>1, <3>2 DEF TakesBack
  <2>2. CASE /\ adjustments[a].status = "INCLUDED" /\ adjustments[a].settlement = p
             /\ adjustments'[a].status = "PENDING"
             /\ adjustments'[a].exported = adjustments[a].exported
             /\ adjustments'[a].adjusted = adjustments[a].adjusted
    <3>1. \A q \in Period : Booked(q) /\ q # p => periods[q].deltas[a] = 0
      BY <1>10, <2>2 DEF TakesBack
    <3>2. \A q \in Period : Booked(q)' => periods'[q].deltas[a] = 0
      BY <2>0, <3>1
    <3> QED BY <1>10, <2>2, <3>2 DEF TakesBack
  <2> QED BY <1>5, <2>1, <2>2
<1>11. /\ TablesBalance'
       /\ \A e \in EntryId : PaidFor(e)' => PaidFor(e) /\ entries'[e] = entries[e]
       /\ \A q \in Period : Exported(q) => Exported(q)'
  BY <1>2, <1>3, <1>4, <1>6, <1>7, <1>8, <1>10, PeriodBalances
<1>12. \A a \in AdjustmentId :
         adjustments[a].status = "PENDING" => adjustments'[a].status = "PENDING"
  BY <1>5
<1>13. \A q \in Session : sess[q].pendings \subseteq AdjustmentId
  BY <1>2 DEF TypeInv, SessionState
<1> QED BY <1>1, <1>4, <1>6, <1>11, <1>12, <1>13, PeriodTrust

\* An export pays for entries nobody is about to change, and that have no
\* adjustments yet.
LEMMA ExportBalances ==
  ASSUME Inv, ExportInv, BalanceInv, NEW self \in Session, ExportCommit(self)
  PROVE  BalanceInv'
<1> PICK p : p = sess[self].period
  OBVIOUS
<1>1. /\ sess[self].op = "export" /\ sess[self].step = "write" /\ Finish(self)
      /\ periods' = [periods EXCEPT ![p].status = "EXPORTED"]
      /\ UNCHANGED <<entries, adjustments>>
  BY DEF ExportCommit, At
<1>2. TypeInv /\ TablesBalance /\ p \in Period /\ Booked(p)
  BY <1>1 DEF Inv, TypeInv, BalanceInv, SessionOK, HasPeriod, OpName, ExportInv, StatusKnown,
     Exportable, Booked, Locked, Exported
<1>3. /\ periods'[p].status = "EXPORTED"
      /\ \A q \in Period : /\ periods'[q].deltas = periods[q].deltas
                           /\ periods'[q].lines = periods[q].lines
                           /\ q # p => periods'[q] = periods[q]
  BY <1>1, <1>2 DEF TypeInv, PeriodRow
<1>4. \A q : (Booked(q)' <=> Booked(q)) /\ (Exported(q)' <=> Exported(q) \/ q = p)
  BY <1>2, <1>3 DEF Booked, Locked, Exported
<1>5. \A e \in EntryId : AdjustmentsOf(e)' = AdjustmentsOf(e)
  BY <1>1 DEF AdjustmentsOf
<1>6. ASSUME NEW e \in EntryId, ~Exported(p), periods[p].lines[e] > 0
      PROVE  /\ entries[e].ref = p /\ entries[e].status = "APPROVED"
             /\ entries[e].minutes = periods[p].lines[e]
             /\ entries[e].link = p /\ entries[e].locked
             /\ ~entries[e].late /\ AdjustmentsOf(e) = {}
             /\ ~PaidFor(e)
  <2>1. Locked(p)
    BY <1>2, <1>6 DEF Booked
  <2>2. periods[p].lines[e] = IF entries[e].ref = p THEN Worth(e) ELSE 0
    BY <1>2, <2>1 DEF Inv, FreezeInv, FrozenWhileLocked
  <2>3. entries[e].ref = p /\ Worth(e) = periods[p].lines[e]
    BY <1>6, <2>2
  <2>4. entries[e].status = "APPROVED" /\ entries[e].minutes = periods[p].lines[e]
    BY <1>6, <2>3 DEF Worth
  <2>5. entries[e].link = p /\ entries[e].locked
    BY <1>2, <1>6, <2>1, <2>3 DEF Inv, FreezeInv, LockedEntriesLinked
  <2>6. ~entries[e].late /\ AdjustmentsOf(e) = {}
    BY <1>2, <1>6, <2>3 DEF TablesBalance, SettledLate
  <2>7. ~PaidFor(e)
    BY <1>2, <1>6, <2>3 DEF TablesBalance, PaidOnce, PaidFor
  <2> QED BY <2>3, <2>4, <2>5, <2>6, <2>7
<1>7. \A e \in EntryId :
        PaidFor(e)' => PaidFor(e) \/ (~Exported(p) /\ periods[p].lines[e] > 0)
  BY <1>2, <1>3, <1>4 DEF PaidFor
<1>8. ASSUME NEW e \in EntryId, PaidFor(e)' PROVE PaidOnce(e)'
  <2> PICK r : r = entries[e].ref
    OBVIOUS
  <2>0. entries'[e] = entries[e]
    BY <1>1
  <2>1. CASE PaidFor(e)
    <3>1. PaidOnce(e) /\ r \in Period /\ Exported(r)
      BY <1>2, <2>1 DEF TablesBalance, PaidOnce, PaidFor
    <3>2. \A q \in Period : Exported(q)' /\ periods'[q].lines[e] > 0 => q = r
      BY <1>3, <1>4, <1>6, <2>1, <3>1 DEF PaidOnce
    <3>3. periods'[r].lines[e] = periods[r].lines[e]
      BY <1>3, <3>1
    <3>4. AsPaid(e) => AsPaid(e)'
      BY <1>5, <2>0, <3>3 DEF AsPaid
    <3>5. ASSUME TakenBack(e) PROVE TakenBack(e)'
      <4> PICK m : m = periods[r].lines[e]
        OBVIOUS
      <4>1. PICK a \in AdjustmentId : AdjustmentsOf(e) = {a} /\ TakesBack(a, m)
        BY <3>5 DEF TakenBack
      <4>2. adjustments'[a] = adjustments[a]
        BY <1>1
      <4>3. \A q \in Period : Booked(q)' => Booked(q) /\ periods'[q].deltas = periods[q].deltas
        BY <1>3, <1>4
      <4>4. Booked(adjustments[a].settlement) => Booked(adjustments[a].settlement)'
        BY <1>1, <1>3 DEF Booked, Locked, Exported
      <4>5. TakesBack(a, m)'
        BY <4>1, <4>2, <4>3, <4>4 DEF TakesBack
      <4>6. TakesBack(a, periods[entries[e].ref].lines[e])'
        <5>1. periods'[entries'[e].ref].lines[e] = m
          BY <2>0, <3>3
        <5> QED BY <4>5, <5>1
      <4> QED BY <1>5, <2>0, <3>5, <4>1, <4>6 DEF TakenBack
    <3> QED BY <2>0, <3>1, <3>2, <3>4, <3>5 DEF PaidOnce
  <2>2. CASE ~PaidFor(e)
    <3>1. /\ r = p /\ entries[e].status = "APPROVED"
          /\ entries[e].minutes = periods[p].lines[e]
          /\ entries[e].link = p /\ entries[e].locked
          /\ ~entries[e].late /\ AdjustmentsOf(e) = {}
      BY <1>6, <1>7, <1>8, <2>2
    <3>2. \A q \in Period : Exported(q)' /\ periods'[q].lines[e] > 0 => q = p
      BY <1>3, <1>4, <2>2 DEF PaidFor
    <3>3. AsPaid(e)'
      BY <1>2, <1>3, <1>5, <2>0, <3>1 DEF AsPaid
    <3> QED BY <2>0, <3>1, <3>2, <3>3 DEF PaidOnce
  <2> QED BY <2>1, <2>2
<1>9. ASSUME NEW e \in EntryId PROVE SettledLate(e)'
  <2>1. SettledLate(e) /\ entries'[e] = entries[e]
    BY <1>1, <1>2 DEF TablesBalance
  <2> QED BY <1>4, <1>5, <2>1 DEF SettledLate
<1>10. UnusedPaysNothing'
  BY <1>1, <1>2, <1>3 DEF TablesBalance, UnusedPaysNothing
<1>11. TablesBalance'
  BY <1>8, <1>9, <1>10 DEF TablesBalance
<1>12. sess'[self] = Idle /\ \A q \in Session \ {self} : sess'[q] = sess[q]
  BY <1>1, <1>2 DEF Finish, TypeInv
<1>13. PaymentKnown(Idle)'
  BY DEF PaymentKnown, Idle, EditOp, StatusOp
<1>14. ASSUME NEW q \in Session \ {self} PROVE PaymentKnown(sess[q])'
  <2> PICK a : a = sess[q]
    OBVIOUS
  <2>1. /\ PaymentKnown(a) /\ SessionOK(a, held[q]) /\ CheckHolds(a, held[q])
        /\ sess'[q] = a /\ a.pendings \subseteq AdjustmentId
    BY <1>2, <1>12 DEF Inv, TypeInv, BalanceInv, FreezeInv, SessionState
  <2>2. ASSUME a.op \in EditOp \cup StatusOp, a.step = "write"
        PROVE  a.entry \in EntryId /\ (PaidFor(a.entry)' => PaidFor(a.entry))
    <3>1. a.entry \in EntryId
      BY <2>1, <2>2 DEF SessionOK, HasEntry
    <3>2. ASSUME PaidFor(a.entry)', ~PaidFor(a.entry) PROVE FALSE
      <4>1. /\ ~Exported(p) /\ periods[p].lines[a.entry] > 0
        BY <1>7, <3>1, <3>2
      <4>2. /\ entries[a.entry].ref = p /\ Locked(p)
            /\ Worth(a.entry) = periods[p].lines[a.entry]
        BY <1>2, <1>6, <3>1, <4>1 DEF Booked, Worth
      <4>3. CASE a.op \in EditOp
        BY <2>1, <2>2, <4>2, <4>3 DEF CheckHolds, PaymentKnown
      <4>4. CASE a.op \in StatusOp
        BY <2>1, <2>2, <4>1, <4>2, <4>4 DEF CheckHolds
      <4> QED BY <2>2, <4>3, <4>4
    <3> QED BY <3>1, <3>2
  <2>3. ASSUME a.op = "lock", a.step = "write", NEW x \in a.pendings,
               NEW e \in EntryId, PaidFor(e)', x \in AdjustmentsOf(e)
        PROVE  adjustments'[x].status = "PENDING"
    <3>1. PaidFor(e)
      BY <1>6, <1>7, <2>3
    <3> QED BY <1>1, <2>1, <2>3, <3>1 DEF PaymentKnown
  <2>4. /\ a.op \in EditOp \cup StatusOp /\ a.step = "write" =>
             Same(a.entry) /\ (PaidFor(a.entry)' => PaidFor(a.entry))
        /\ \A x \in AdjustmentId : adjustments[x].status # "unused" =>
             adjustments'[x].status # "unused" /\ adjustments'[x].entry = adjustments[x].entry
    BY <1>1, <2>2 DEF Same
  <2>5. \A x \in AdjustmentId : adjustments[x].status = "unused" => adjustments[x].entry = None
    BY <1>2 DEF TablesBalance, UnusedPaysNothing
  <2>6. \A r \in Period : Exported(r) => Exported(r)'
    BY <1>4
  <2>7. PaidFor(sess[q].entry)' <=> PaidFor(a.entry)'
    BY <2>1 DEF PaidFor
  <2> QED BY <1>2, <2>1, <2>3, <2>4, <2>5, <2>6, <2>7, OthersTrust
<1> QED BY <1>11, <1>12, <1>13, <1>14 DEF BalanceInv

\* Requests for periods begin and look knowing nothing of payments, and what a
\* lock includes was waiting.
LEMMA PeriodReadsBalance ==
  ASSUME Inv, BalanceInv, NEW self \in Session,
         \/ PeriodRequest(self) \/ LockPeriodAcquire(self) \/ LockPeriodCheck(self)
         \/ LockPeriodInclude(self) \/ ExportCheck(self)
  PROVE  BalanceInv'
<1> PICK a : a = sess[self]
  OBVIOUS
<1>0. /\ Idle \in SessionState /\ a \in SessionState /\ TypeInv
      /\ EditOp \cap {"lock", "unlock", "export"} = {}
      /\ StatusOp \cap {"lock", "unlock", "export"} = {}
  BY IdleTyped DEF Inv, TypeInv, EditOp, StatusOp
<1>1. ASSUME NEW b, sess' = [sess EXCEPT ![self] = b], UNCHANGED tables, PaymentKnown(b)
      PROVE  BalanceInv'
  <2>1. sess'[self] = b /\ \A q \in Session \ {self} : sess'[q] = sess[q]
    BY <1>0, <1>1 DEF TypeInv
  <2> QED BY <1>0, <1>1, <2>1, StepBalances
<1>2. ASSUME NEW p \in Period, LockPeriodBegin(self, p) PROVE BalanceInv'
  <2> PICK b : b = [Idle EXCEPT !.op = "lock", !.step = "lock", !.period = p]
    OBVIOUS
  <2>1. Begin(self, b) /\ b.op = "lock" /\ b.step = "lock"
    BY <1>0, <1>2 DEF LockPeriodBegin, SessionState
  <2>2. PaymentKnown(b)
    BY <1>0, <2>1, EarlyTrusts
  <2> QED BY <2>1, <2>2, BeginBalances
<1>3. ASSUME NEW p \in Period, UnlockPeriodBegin(self, p) PROVE BalanceInv'
  <2> PICK b : b = [Idle EXCEPT !.op = "unlock", !.step = "write", !.period = p]
    OBVIOUS
  <2>1. Begin(self, b) /\ b.op = "unlock"
    BY <1>0, <1>3 DEF UnlockPeriodBegin, SessionState
  <2>2. PaymentKnown(b)
    BY <1>0, <2>1 DEF PaymentKnown
  <2> QED BY <2>1, <2>2, BeginBalances
<1>4. ASSUME NEW p \in Period, ExportBegin(self, p) PROVE BalanceInv'
  <2> PICK b : b = [Idle EXCEPT !.op = "export", !.step = "check",
                                !.period = p, !.run = periods[p].run]
    OBVIOUS
  <2>1. Begin(self, b) /\ b.op = "export"
    BY <1>0, <1>4 DEF ExportBegin, SessionState
  <2>2. PaymentKnown(b)
    BY <1>0, <2>1 DEF PaymentKnown
  <2> QED BY <2>1, <2>2, BeginBalances
<1>5. CASE LockPeriodAcquire(self)
  <2>1. AcquirePeriod(self, a.period, "check")
    BY <1>5 DEF LockPeriodAcquire
  <2> QED BY <2>1, AcquireBalances
<1>6. CASE Rollback(self)
  BY <1>6, RollbackBalances
<1>7. CASE LockPeriodCheck(self) /\ ~Rollback(self)
  <2>1. PICK rows : /\ sess' = [sess EXCEPT ![self].step = "include", ![self].rows = rows]
                    /\ UNCHANGED tables /\ a.op = "lock"
    BY <1>7 DEF LockPeriodCheck, At
  <2> PICK b : b = [a EXCEPT !.step = "include", !.rows = rows]
    OBVIOUS
  <2>2. b.op = "lock" /\ b.step = "include" /\ sess' = [sess EXCEPT ![self] = b]
    BY <1>0, <2>1 DEF SessionState
  <2>3. PaymentKnown(b)
    BY <1>0, <2>2, EarlyTrusts
  <2> QED BY <1>1, <2>1, <2>2, <2>3
<1>8. CASE LockPeriodInclude(self)
  <2>1. PICK included : /\ included = Includable(a.period)
                        /\ sess' = [sess EXCEPT ![self].step = "write",
                                                ![self].pendings = included]
                        /\ UNCHANGED tables /\ a.op = "lock"
    BY <1>8 DEF LockPeriodInclude, At
  <2> PICK b : b = [a EXCEPT !.step = "write", !.pendings = included]
    OBVIOUS
  <2>2. b.op = "lock" /\ b.pendings = included /\ sess' = [sess EXCEPT ![self] = b]
    BY <1>0, <2>1 DEF SessionState
  <2>3. \A x \in included : adjustments[x].status = "PENDING"
    BY <2>1 DEF Includable
  <2>4. PaymentKnown(b)
    BY <1>0, <2>2, <2>3 DEF PaymentKnown
  <2> QED BY <1>1, <2>1, <2>2, <2>4
<1>9. CASE ExportCheck(self) /\ ~Rollback(self)
  <2>1. sess' = [sess EXCEPT ![self].step = "write"] /\ UNCHANGED tables /\ a.op = "export"
    BY <1>9 DEF ExportCheck, At, Goto
  <2> PICK b : b = [a EXCEPT !.step = "write"]
    OBVIOUS
  <2>2. b.op = "export" /\ sess' = [sess EXCEPT ![self] = b]
    BY <1>0, <2>1 DEF SessionState
  <2>3. PaymentKnown(b)
    BY <1>0, <2>2 DEF PaymentKnown
  <2> QED BY <1>1, <2>1, <2>2, <2>3
<1> QED BY <1>2, <1>3, <1>4, <1>5, <1>6, <1>7, <1>8, <1>9 DEF PeriodRequest

\* Every step keeps what was paid in balance.
LEMMA NextBalances ==
  ASSUME Inv, ExportInv, BalanceInv, LocksApart, [Next]_vars,
         "clockOut" \notin Ops, "editAdmin" \notin Ops, "move" \notin Ops
  PROVE  BalanceInv'
<1>1. CASE UNCHANGED <<periods, entries, adjustments, sess>>
  BY <1>1 DEF BalanceInv, TablesBalance, PaidFor, PaidOnce, AsPaid, TakenBack, TakesBack, Booked,
     Locked, Exported, SettledLate, UnusedPaysNothing, AdjustmentsOf, PaymentKnown
<1>2. ASSUME NEW self \in Session, EntryRequest(self) PROVE BalanceInv'
  BY <1>2, EntryRequestBalances
<1>3. ASSUME NEW self \in Session, EntryStep(self) PROVE BalanceInv'
  <2>1. CASE CreateEntryLock(self)
    <3>1. AcquirePeriod(self, sess[self].period, "write") /\ sess[self].op = "createEntry"
      BY <2>1 DEF CreateEntryLock, At
    <3> QED BY <3>1, AcquireBalances
  <2>2. CASE EditLock(self) \/ EditLockSecond(self) \/ StatusLock(self)
    <3> PICK a : a = sess[self]
      OBVIOUS
    <3>1. ASSUME NEW p, NEW next \in {"check", "lockSecond"}, AcquirePeriod(self, p, next)
          PROVE  BalanceInv'
      <4>1. next # "write"
        BY <3>1
      <4> QED BY <3>1, <4>1, AcquireBalances
    <3>2. CASE EditLock(self)
      <4>1. CASE a.period = a.target
        <5>1. AcquirePeriod(self, Earlier(a.period, a.target), "check")
          BY <3>2, <4>1 DEF EditLock
        <5> QED BY <3>1, <5>1
      <4>2. CASE a.period # a.target
        <5>1. AcquirePeriod(self, Earlier(a.period, a.target), "lockSecond")
          BY <3>2, <4>2 DEF EditLock
        <5> QED BY <3>1, <5>1
      <4> QED BY <4>1, <4>2
    <3>3. CASE EditLockSecond(self)
      <4>1. AcquirePeriod(self, Later(a.period, a.target), "check")
        BY <3>3 DEF EditLockSecond
      <4> QED BY <3>1, <4>1
    <3>4. CASE StatusLock(self)
      <4>1. AcquirePeriod(self, a.period, "check")
        BY <3>4 DEF StatusLock
      <4> QED BY <3>1, <4>1
    <3> QED BY <2>2, <3>2, <3>3, <3>4
  <2>3. ~ClockOutCommit(self)
    BY DEF ClockOutCommit, At, Inv, FreezeInv, CheckHolds
  <2> QED BY <1>3, <2>1, <2>2, <2>3, CreateBalances, EditCheckBalances, EditCommitBalances,
             StatusCheckBalances, StatusCommitBalances DEF EntryStep
<1>4. ASSUME NEW self \in Session, PeriodRequest(self) \/ PeriodStep(self) PROVE BalanceInv'
  BY <1>4, PeriodReadsBalance, LockBalances, UnlockBalances, ExportBalances DEF PeriodStep
<1>5. ASSUME NEW self \in Session, Crash(self) PROVE BalanceInv'
  BY <1>5, RollbackBalances DEF Crash
<1>6. NextPeriodBegins \/ UNCHANGED vars => UNCHANGED <<periods, entries, adjustments, sess>>
  BY DEF NextPeriodBegins, vars, tables
<1> QED BY <1>1, <1>2, <1>3, <1>4, <1>5, <1>6 DEF Next

-----------------------------------------------------------------------------
(* The sums *)

\* There are finitely many periods and adjustments.
LEMMA RowsAreFinite == IsFiniteSet(Period) /\ IsFiniteSet(AdjustmentId)
<1>1. IsFiniteSet(Period)
  BY Bounds, FS_Interval DEF Period
<1>2. PICK top \in Nat : AdjustmentId \subseteq 0 .. top
  BY PayrollAssumption
<1>3. IsFiniteSet(0 .. top)
  BY FS_Interval
<1> QED BY <1>1, <1>2, <1>3, FS_Subset

\* What a period pays for an adjustment is an integer.
LEMMA DeltasAreNumbers ==
  ASSUME TypeInv, NEW p \in Period, NEW a \in AdjustmentId
  PROVE  periods[p].deltas[a] \in Int
<1>1. periods[p].deltas[a] \in Delta
  BY DEF TypeInv, PeriodRow
<1>2. Delta \subseteq Int
  BY DEF Delta
<1> QED BY <1>1, <1>2

\* What was paid for an entry and taken back is what it is worth.
LEMMA PaidIsWorth ==
  ASSUME Inv, BalanceInv, NEW e \in EntryId, PaidFor(e)
  PROVE  Paid(e) = Worth(e)
<1> PICK p : p = entries[e].ref
  OBVIOUS
<1> PICK m : m = periods[p].lines[e]
  OBVIOUS
<1>1. /\ TypeInv /\ PaidOnce(e) /\ p \in Period /\ Exported(p) /\ m > 0
      /\ \A q \in Period : Exported(q) /\ periods[q].lines[e] > 0 => q = p
  BY DEF Inv, BalanceInv, TablesBalance, PaidOnce, PaidFor
<1>2. m \in Minutes /\ m \in Nat /\ 0 - m = -m
  BY <1>1, MinutesAreNumbers DEF TypeInv, PeriodRow
<1> DEFINE Closed == {q \in Period : Booked(q)}
           Pairs == {pa \in Period \X AdjustmentId :
                       Booked(pa[1]) /\ adjustments[pa[2]].entry = e}
           Waiting == {a \in AdjustmentId :
                         adjustments[a].status = "PENDING" /\ adjustments[a].entry = e}
           lines == [q \in Closed |-> periods[q].lines[e]]
           deltas == [pa \in Pairs |-> periods[pa[1]].deltas[pa[2]]]
           waiting == [a \in Waiting |-> DeltaOf(a)]
<1>3. Paid(e) = SumFunction(lines) + SumFunction(deltas) + SumFunction(waiting)
  BY DEF Paid
<1>4. IsFiniteSet(Closed) /\ IsFiniteSet(Pairs) /\ IsFiniteSet(Waiting)
  <2>1. IsFiniteSet(Period \X AdjustmentId)
    BY RowsAreFinite, FS_Product
  <2> QED BY <2>1, RowsAreFinite, FS_Subset
<1>5. SumFunction(lines) = m
  <2>1. \A q \in Period : periods[q].lines[e] \in Nat
    BY <1>1, MinutesAreNumbers DEF TypeInv, PeriodRow
  <2>2. lines \in [Closed -> Int] /\ p \in Closed /\ lines[p] = m
    BY <1>1, <2>1 DEF Booked
  <2>3. ASSUME NEW q \in Closed \ {p} PROVE lines[q] = 0
    <3>1. CASE Locked(q)
      BY <3>1 DEF Inv, FreezeInv, FrozenWhileLocked
    <3>2. CASE Exported(q)
      BY <1>1, <2>1, <3>2
    <3> QED BY <3>1, <3>2 DEF Booked
  <2> HIDE DEF Closed, lines
  <2> QED BY <1>4, <2>2, <2>3, TotalOfOne
<1>d. deltas \in [Pairs -> Int]
  <2>1. \A x \in Pairs : periods[x[1]].deltas[x[2]] \in Int
    BY <1>1, DeltasAreNumbers
  <2> QED BY <2>1
<1>6. CASE AsPaid(e)
  <2>1. Pairs = {} /\ Waiting = {}
    BY <1>6 DEF AsPaid, AdjustmentsOf
  <2>2. deltas \in [Pairs -> Int] /\ waiting \in [Waiting -> Int]
    BY <2>1
  <2>3. SumFunction(deltas) = 0 /\ SumFunction(waiting) = 0
    <3>1. (\A x \in Pairs : deltas[x] = 0) /\ (\A x \in Waiting : waiting[x] = 0)
      BY <2>1
    <3> HIDE DEF Pairs, Waiting, deltas, waiting
    <3> QED BY <1>4, <2>2, <3>1, TotalOfZeros
  <2>4. Worth(e) = m
    BY <1>6 DEF AsPaid, Worth
  <2> HIDE DEF Pairs, Waiting, Closed, lines, deltas, waiting
  <2> QED BY <1>2, <1>3, <1>5, <2>3, <2>4
<1>7. CASE TakenBack(e)
  <2>1. PICK a \in AdjustmentId : AdjustmentsOf(e) = {a} /\ TakesBack(a, m)
    BY <1>7 DEF TakenBack
  <2>2. /\ DeltaOf(a) = -m /\ -m \in Int
        /\ adjustments[a].status \in {"PENDING", "INCLUDED"}
    BY <1>2, <2>1 DEF TakesBack, DeltaOf
  <2>3. /\ \A x \in AdjustmentId : adjustments[x].entry = e <=> x = a
        /\ Pairs = {pa \in Closed \X {a} : TRUE}
    BY <2>1 DEF AdjustmentsOf
  <2>4. CASE adjustments[a].status = "PENDING"
    <3>1. Waiting = {a} /\ waiting[a] = -m /\ waiting \in [Waiting -> Int]
      BY <2>2, <2>3, <2>4
    <3>2. \A x \in Pairs : deltas[x] = 0
      BY <2>1, <2>3, <2>4 DEF TakesBack
    <3>4. SumFunction(waiting) = -m /\ SumFunction(deltas) = 0
      <4>1. a \in Waiting /\ \A x \in Waiting \ {a} : waiting[x] = 0
        BY <3>1
      <4> HIDE DEF Pairs, Waiting, deltas, waiting
      <4> QED BY <1>4, <1>d, <3>1, <3>2, <4>1, TotalOfOne, TotalOfZeros
    <3> HIDE DEF Pairs, Waiting, Closed, lines, deltas, waiting
    <3>5. Paid(e) = 0
      BY <1>2, <1>3, <1>5, <3>4
    <3> QED BY <1>7, <3>5 DEF TakenBack, Worth
  <2>5. CASE adjustments[a].status = "INCLUDED"
    <3> PICK s : s = adjustments[a].settlement
      OBVIOUS
    <3>1. /\ Booked(s) /\ s \in Period
          /\ \A q \in Period : Booked(q) => periods[q].deltas[a] = IF q = s THEN -m ELSE 0
      BY <2>1, <2>5 DEF TakesBack, Booked, Locked, Exported
    <3>2. Waiting = {} /\ waiting \in [Waiting -> Int]
      BY <2>3, <2>5
    <3>3. /\ <<s, a>> \in Pairs /\ deltas[<<s, a>>] = -m
          /\ \A x \in Pairs \ {<<s, a>>} : deltas[x] = 0
      BY <2>3, <3>1
    <3>5. SumFunction(deltas) = -m /\ SumFunction(waiting) = 0
      <4>1. \A x \in Waiting : waiting[x] = 0
        BY <3>2
      <4> PICK x1 : x1 = <<s, a>>
        OBVIOUS
      <4>2. x1 \in Pairs /\ deltas[x1] = -m /\ \A x \in Pairs \ {x1} : deltas[x] = 0
        BY <3>3
      <4> HIDE DEF Pairs, Waiting, deltas, waiting
      <4>3. SumFunction(deltas) = deltas[x1]
        BY <1>4, <1>d, <4>2, TotalOfOne
      <4>4. SumFunction(waiting) = 0
        BY <1>4, <3>2, <4>1, TotalOfZeros
      <4> QED BY <4>2, <4>3, <4>4
    <3> HIDE DEF Pairs, Waiting, Closed, lines, deltas, waiting
    <3>6. Paid(e) = 0
      BY <1>2, <1>3, <1>5, <3>5
    <3> QED BY <1>7, <3>6 DEF TakenBack, Worth
  <2> QED BY <2>2, <2>4, <2>5
<1> QED BY <1>1, <1>6, <1>7 DEF PaidOnce

\* The minutes an exported period has paid for an entry stay in balance with what
\* the entry is worth, however withdrawals, voidings, locks, exports and crashes
\* interleave, as long as nobody clocks out, edits what was exported or moves an
\* entry, no period is reopened while it is exported, and no two periods choose
\* their adjustments at once.
THEOREM PaidEntriesStayBalanced ==
  ASSUME "clockOut" \notin Ops, "editAdmin" \notin Ops, "move" \notin Ops
  PROVE  Spec /\ [](ReopensApart /\ LocksApart) => []PaidEntriesBalance
<1>1. Init => Inv /\ ExportInv /\ BalanceInv
  <2> SUFFICES ASSUME Init PROVE Inv /\ ExportInv /\ BalanceInv
    OBVIOUS
  <2>1. Inv
    BY InitHolds
  <2>2. ExportInv
    BY <2>1 DEF Inv, Init, PayrollInit, ExportInv, StatusKnown, Idle
  <2>3. \A p \in Period : ~Exported(p) /\ \A a \in AdjustmentId : periods[p].deltas[a] = 0
    BY DEF Init, PayrollInit, Exported, NoPeriodRow
  <2>4. \A e \in EntryId : ~PaidFor(e)
    BY <2>3 DEF PaidFor
  <2>5. \A a \in AdjustmentId : adjustments[a].entry = None
    BY DEF Init, PayrollInit, UnusedAdjustment
  <2>6. \A e \in EntryId : SettledLate(e)
    <3>1. \A e \in EntryId : AdjustmentsOf(e) = {}
      BY <2>5, Bounds DEF AdjustmentsOf
    <3> QED BY <3>1 DEF Init, PayrollInit, UnusedEntry, SettledLate
  <2>7. UnusedPaysNothing
    BY <2>3, <2>5 DEF UnusedPaysNothing
  <2>8. \A q \in Session : PaymentKnown(sess[q])
    BY DEF Init, PayrollInit, PaymentKnown, Idle, EditOp, StatusOp
  <2> QED BY <2>1, <2>2, <2>4, <2>6, <2>7, <2>8 DEF BalanceInv, TablesBalance
<1>2. Inv /\ [Next]_vars => Inv'
  BY NextHolds
<1>3. ExportInv /\ ReopensApart /\ [Next]_vars => ExportInv'
  BY NextKnows
<1>4. Inv /\ ExportInv /\ BalanceInv /\ LocksApart /\ [Next]_vars => BalanceInv'
  BY NextBalances
<1>5. Inv /\ BalanceInv => PaidEntriesBalance
  BY PaidIsWorth DEF PaidEntriesBalance, PaidFor
<1> QED BY <1>1, <1>2, <1>3, <1>4, <1>5, PTL DEF Spec
=============================================================================
