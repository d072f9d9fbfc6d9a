---------------------------- MODULE PayrollPeriods ----------------------------
(***************************************************************************)
(* Locking, unlocking and exporting a payroll period.                      *)
(***************************************************************************)
EXTENDS PayrollStore

\* ensurePayrollEntriesApproved
Resolved(p) ==
  \A e \in EntryId :
    entries[e].ref = p => entries[e].status \notin {"PENDING", "NEEDS_CHANGES"}

-----------------------------------------------------------------------------
(* lockPayrollPeriod *)

\* Mutant of LockPeriodBegin: no period lock is taken.
LockPeriodWithoutLock(self, p) ==
  Begin(self, [Idle EXCEPT !.op = "lock", !.step = "check", !.period = p])

LockPeriodBegin(self, p) ==
  Begin(self, [Idle EXCEPT !.op = "lock", !.step = "lock", !.period = p])

LockPeriodAcquire(self) ==
  /\ At(self, "lock", "lock")
  /\ AcquirePeriod(self, sess[self].period, "check")

\* MaxLocks (bound) refuses a lock too.
LockPeriodCheck(self) ==
  LET p == sess[self].period
      ok == /\ Resolved(p)
            /\ periods[p].status \notin {"LOCKED", "EXPORTED"}
            /\ periods[p].run < MaxLocks
      closed == {e \in EntryId : entries[e].ref = p /\ entries[e].minutes > 0}
  IN
  /\ At(self, "lock", "check")
  /\ \/ /\ ok
        /\ sess' = [sess EXCEPT ![self].step = "include",
                                ![self].rows = closed]
        /\ UNCHANGED <<tables, current, held>>
     \/ ~ok /\ Rollback(self)

\* The adjustments to settle now: those addressed to this period, and those
\* of earlier periods addressed to none.
Includable(p) ==
  {a \in AdjustmentId :
     /\ adjustments[a].status = "PENDING"
     /\ \/ adjustments[a].settlement = p
        \/ adjustments[a].settlement = None /\ adjustments[a].original < p}

LockPeriodInclude(self) ==
  /\ At(self, "lock", "include")
  /\ sess' = [sess EXCEPT ![self].step = "write",
                          ![self].pendings = Includable(sess[self].period)]
  /\ UNCHANGED <<tables, current, held>>

\* createPayrollCalculationRun: approved, closed entries of the period and
\* every adjustment the period includes
RunLines(p) ==
  [e \in EntryId |->
     IF entries[e].status = "APPROVED" /\ entries[e].ref = p
     THEN entries[e].minutes ELSE 0]

RunDeltas(p, included) ==
  [a \in AdjustmentId |->
     IF a \in included \/ (/\ adjustments[a].status = "INCLUDED"
                           /\ adjustments[a].settlement = p)
     THEN DeltaOf(a) ELSE 0]

LockPeriodCommit(self) ==
  LET p == sess[self].period
      rows == sess[self].rows
      included == sess[self].pendings
  IN
  /\ At(self, "lock", "write")
  /\ periods' = [periods EXCEPT ![p] =
       [status |-> "LOCKED", run |-> periods[p].run + 1,
        lines |-> RunLines(p), deltas |-> RunDeltas(p, included)]]
  /\ entries' = [e \in EntryId |->
       IF e \in rows THEN [entries[e] EXCEPT !.link = p, !.locked = TRUE]
       ELSE entries[e]]
  /\ adjustments' = [a \in AdjustmentId |->
       IF a \in included
       THEN [adjustments[a] EXCEPT !.status = "INCLUDED", !.settlement = p]
       ELSE adjustments[a]]
  /\ Finish(self)
  /\ UNCHANGED current

-----------------------------------------------------------------------------
(* unlockPayrollPeriod: a transaction that takes no lock *)

\* Mutant of UnlockPeriodBegin: a period that was ever locked can be reopened.
UnlockPeriodOnceLocked(self, p) ==
  /\ periods[p].run > 0
  /\ Begin(self, [Idle EXCEPT !.op = "unlock", !.step = "write", !.period = p])

UnlockPeriodBegin(self, p) ==
  /\ Locked(p)
  /\ Begin(self, [Idle EXCEPT !.op = "unlock", !.step = "write", !.period = p])

\* Mutant of Reopened: reopening a period forgets the adjustments it included.
ReopenedForgotten(p) == adjustments

\* reopenIncludedPayrollAdjustmentsForPeriod: they stay addressed to p.
Reopened(p) ==
  [a \in AdjustmentId |->
     IF adjustments[a].status = "INCLUDED" /\ adjustments[a].settlement = p
     THEN [adjustments[a] EXCEPT !.status = "PENDING"]
     ELSE adjustments[a]]

UnlockPeriodCommit(self) ==
  LET p == sess[self].period IN
  /\ At(self, "unlock", "write")
  /\ periods' = [periods EXCEPT ![p].status = "UNLOCKED"]
  /\ entries' = [e \in EntryId |->
       IF entries[e].link = p THEN [entries[e] EXCEPT !.locked = FALSE]
       ELSE entries[e]]
  /\ adjustments' = Reopened(p)
  /\ Finish(self)
  /\ UNCHANGED current

-----------------------------------------------------------------------------
(* The four exports (CSV, Uniconta, XLSX, PDF): a snapshot of the period,  *)
(* the file built from its run, then a transaction that checks the         *)
(* snapshot again and marks the period; it takes no lock either            *)

Exportable(p) == periods[p].status \in {"LOCKED", "EXPORTED"}

ExportBegin(self, p) ==
  /\ Exportable(p)
  /\ Resolved(p)
  /\ Begin(self, [Idle EXCEPT !.op = "export", !.step = "check",
                              !.period = p, !.run = periods[p].run])

\* ensurePayrollExportLockUnchanged
ExportCheck(self) ==
  LET p == sess[self].period
      unchanged == Exportable(p) /\ periods[p].run = sess[self].run
  IN
  /\ At(self, "export", "check")
  /\ \/ /\ unchanged /\ ~Exported(p)
        /\ Goto(self, "write")
        /\ UNCHANGED <<tables, current, held>>
     \/ (~unchanged \/ Exported(p)) /\ Rollback(self)

ExportCommit(self) ==
  /\ At(self, "export", "write")
  /\ periods' = [periods EXCEPT ![sess[self].period].status = "EXPORTED"]
  /\ Finish(self)
  /\ UNCHANGED <<entries, adjustments, current>>

-----------------------------------------------------------------------------
PeriodRequest(self) ==
  \E p \in Period :
    \/ LockPeriodBegin(self, p)
    \/ UnlockPeriodBegin(self, p)
    \/ ExportBegin(self, p)

PeriodStep(self) ==
  \/ LockPeriodAcquire(self)
  \/ LockPeriodCheck(self)
  \/ LockPeriodInclude(self)
  \/ LockPeriodCommit(self)
  \/ UnlockPeriodCommit(self)
  \/ ExportCheck(self)
  \/ ExportCommit(self)
=============================================================================
