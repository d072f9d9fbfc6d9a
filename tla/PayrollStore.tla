----------------------------- MODULE PayrollStore -----------------------------
(***************************************************************************)
(* The committed tables behind payroll in one cinema: payroll periods with *)
(* the calculation run each was last locked with, time entries, and        *)
(* payroll adjustments; the period locks and the requests in flight.       *)
(*                                                                         *)
(* Handlers are cut into actions as in ShiftStore: reads of what is         *)
(* committed, lock acquisitions, and one commit of all the writes.  An     *)
(* UPDATE touches the columns its handler names and no other, so a commit  *)
(* is an EXCEPT on the row as it is then.                                  *)
(***************************************************************************)
EXTENDS Integers, FiniteSets

CONSTANTS
  EntryId, AdjustmentId,  \* row ids (bounds)
  LastPeriod,             \* periods are 1 .. LastPeriod, in time (bound)
  MaxMinutes,             \* the longest entry (bound)
  MaxLocks,               \* how often one period is locked (bound)
  Session,                \* concurrent requests to the backend
  Ops                     \* the operations clients send here (bound)

None == 0

ASSUME PayrollAssumption ==
  /\ EntryId \subseteq Nat \ {None}
  /\ AdjustmentId \subseteq Nat \ {None}
  /\ \E top \in AdjustmentId \cup {None} : \A a \in AdjustmentId : a <= top
  /\ LastPeriod \in Nat \ {0}
  /\ MaxMinutes \in Nat \ {0}
  /\ MaxLocks \in Nat

VARIABLES
  periods,      \* table PayrollPeriod, with its PayrollCalculationRun
  entries,      \* table TimeEntry
  adjustments,  \* table PayrollAdjustment
  current,      \* the period today falls in
  held,         \* the period locks each session's transaction holds
  sess          \* the handler each session runs

tables == <<periods, entries, adjustments>>
vars == <<periods, entries, adjustments, current, held, sess>>

-----------------------------------------------------------------------------
(* Rows *)

Period == 1 .. LastPeriod
MaybePeriod == Period \cup {None}
Minutes == 0 .. MaxMinutes    \* 0: not clocked out, or nothing to pay
Delta == -MaxMinutes .. MaxMinutes

\* run: lockedAt and lockedCalculationRunId, which a lock sets together;
\* lines and deltas: what the run pays for each entry and each adjustment.
PeriodRow == [status : {"none", "LOCKED", "UNLOCKED", "EXPORTED"},
              run : 0 .. MaxLocks, lines : [EntryId -> Minutes],
              deltas : [AdjustmentId -> Delta]]

\* ref: the period of the reference date (the start of the shift, or the
\* clock-in); link: payrollPeriodId; late: isPayrollAdjustment; original:
\* originalPayrollPeriodId.
EntryStatus == {"unused", "PENDING", "NEEDS_CHANGES", "APPROVED", "VOIDED"}
EntryRow == [status : EntryStatus, minutes : Minutes, ref : MaybePeriod,
             link : MaybePeriod, locked : BOOLEAN, late : BOOLEAN,
             original : MaybePeriod]

AdjustmentRow == [status : {"unused", "PENDING", "INCLUDED", "VOIDED"},
                  entry : EntryId \cup {None}, original : MaybePeriod,
                  settlement : MaybePeriod, exported : Minutes,
                  adjusted : Minutes]

NoPeriodRow == [status |-> "none", run |-> 0,
                lines |-> [e \in EntryId |-> 0],
                deltas |-> [a \in AdjustmentId |-> 0]]
UnusedEntry == [status |-> "unused", minutes |-> 0, ref |-> None,
                link |-> None, locked |-> FALSE, late |-> FALSE,
                original |-> None]
UnusedAdjustment == [status |-> "unused", entry |-> None, original |-> None,
                     settlement |-> None, exported |-> 0, adjusted |-> 0]

First(id, unused) == id \in unused /\ \A other \in unused : id <= other
Newest(ids) == CHOOSE id \in ids : \A other \in ids : other <= id
UnusedEntryIds == {e \in EntryId : entries[e].status = "unused"}
UnusedAdjustmentIds ==
  {a \in AdjustmentId : adjustments[a].status = "unused"}

Exported(p) == p \in Period /\ periods[p].status = "EXPORTED"
Locked(p) == p \in Period /\ periods[p].status = "LOCKED"
HasRow(p) == periods[p].status # "none"

\* minutesDelta
DeltaOf(a) == adjustments[a].adjusted - adjustments[a].exported

-----------------------------------------------------------------------------
(* Sessions *)

OpName == {"createEntry", "clockOut", "editOwn", "editAdmin",
           "approve", "unapprove", "reject", "void",
           "lock", "unlock", "export"}

\* What a handler has found out about an entry that was already paid for:
\* the paid period (None: nothing was paid), the minutes paid, the period to
\* settle in, and the pending adjustment it will update.
Payment == [original : MaybePeriod, exported : Minutes,
            settlement : MaybePeriod, pending : AdjustmentId \cup {None}]
NothingPaid == [original |-> None, exported |-> 0, settlement |-> None,
                pending |-> None]

SessionState ==
  [op : OpName \cup {"none"},
   step : {"idle", "lock", "lockSecond", "check", "include", "write"},
   entry : EntryId \cup {None}, period : MaybePeriod, target : MaybePeriod,
   minutes : Minutes, run : 0 .. MaxLocks, paid : Payment,
   rows : SUBSET EntryId, pendings : SUBSET AdjustmentId]

Idle == [op |-> "none", step |-> "idle", entry |-> None, period |-> None,
         target |-> None, minutes |-> 0, run |-> 0, paid |-> NothingPaid,
         rows |-> {}, pendings |-> {}]

At(self, op, step) == sess[self].op = op /\ sess[self].step = step

Begin(self, state) ==
  /\ state.op \in Ops
  /\ sess[self] = Idle
  /\ sess' = [sess EXCEPT ![self] = state]
  /\ UNCHANGED <<tables, current, held>>

Goto(self, step) == sess' = [sess EXCEPT ![self].step = step]

Finish(self) ==
  /\ sess' = [sess EXCEPT ![self] = Idle]
  /\ held' = [held EXCEPT ![self] = {}]

Rollback(self) == Finish(self) /\ UNCHANGED <<tables, current>>

\* acquirePayrollPeriodMutationLock...: one key per cinema and period start
AcquirePeriod(self, p, next) ==
  /\ \A other \in Session \ {self} : p \notin held[other]
  /\ held' = [held EXCEPT ![self] = @ \cup {p}]
  /\ Goto(self, next)
  /\ UNCHANGED <<tables, current>>

-----------------------------------------------------------------------------
PayrollInit ==
  /\ periods = [p \in Period |-> NoPeriodRow]
  /\ entries = [e \in EntryId |-> UnusedEntry]
  /\ adjustments = [a \in AdjustmentId |-> UnusedAdjustment]
  /\ current = 1
  /\ held = [s \in Session |-> {}]
  /\ sess = [s \in Session |-> Idle]

\* The process dies or the transaction times out before its commit.
Crash(self) == sess[self] # Idle /\ Rollback(self)

NextPeriodBegins ==
  /\ current < LastPeriod
  /\ current' = current + 1
  /\ UNCHANGED <<tables, held, sess>>

PayrollTypeOK ==
  /\ periods \in [Period -> PeriodRow]
  /\ entries \in [EntryId -> EntryRow]
  /\ adjustments \in [AdjustmentId -> AdjustmentRow]
  /\ current \in Period
  /\ held \in [Session -> SUBSET Period]
  /\ sess \in [Session -> SessionState]
=============================================================================
