-------------------------------- MODULE Payroll --------------------------------
(***************************************************************************)
(* The payroll of one cinema: time entries, payroll periods and payroll     *)
(* adjustments under concurrent requests, and what they promise.            *)
(***************************************************************************)
EXTENDS PayrollPeriods, TimeEntries, FiniteSetsExt

Init == PayrollInit

Next ==
  \/ NextPeriodBegins
  \/ \E self \in Session :
       \/ EntryRequest(self)
       \/ PeriodRequest(self)
       \/ EntryStep(self)
       \/ PeriodStep(self)
       \/ Crash(self)

Spec == Init /\ [][Next]_vars

-----------------------------------------------------------------------------
\* Every row, lock and session of the payroll store keeps its type.
TypeOK == PayrollTypeOK

\* What an entry is worth to the employee.
Worth(e) == IF entries[e].status = "APPROVED" THEN entries[e].minutes ELSE 0

\* While a period is locked, its calculation run pays exactly the approved
\* minutes of its entries: nobody approves, withdraws, edits or moves an
\* entry under a lock (the period lock and payrollLocked together).
FrozenWhileLocked ==
  \A p \in Period :
    Locked(p) =>
      \A e \in EntryId :
        periods[p].lines[e] = IF entries[e].ref = p THEN Worth(e) ELSE 0

\* An exported period stays exported: it is never reopened, corrections are
\* adjustments.
ExportedStaysExported ==
  [][\A p \in Period : Exported(p) => Exported(p)']_vars

-----------------------------------------------------------------------------
(* What has been paid, or will be *)

Booked(p) == Locked(p) \/ Exported(p)

\* The minutes of entry e in the runs of locked and exported periods, and in
\* the adjustments that wait for one.
Paid(e) ==
  SumFunction([p \in {q \in Period : Booked(q)} |-> periods[p].lines[e]])
  + SumFunction(
      [pa \in {pa \in Period \X AdjustmentId :
                 Booked(pa[1]) /\ adjustments[pa[2]].entry = e} |->
         periods[pa[1]].deltas[pa[2]]])
  + SumFunction(
      [a \in {a \in AdjustmentId :
                adjustments[a].status = "PENDING" /\ adjustments[a].entry = e} |->
         DeltaOf(a)])

\* An entry that an exported period paid for stays balanced: what is paid and
\* what is still to be settled always amount to what the entry is worth,
\* through withdrawal and voiding, and through locking, reopening and
\* exporting the period that settles it.
PaidEntriesBalance ==
  \A e \in EntryId :
    (\E p \in Period : Exported(p) /\ periods[p].lines[e] > 0)
      => Paid(e) = Worth(e)

\* The same for every entry of an exported period, those approved after the
\* export included.
ExportedEntriesBalance ==
  \A e \in EntryId : Exported(entries[e].ref) => Paid(e) = Worth(e)
=============================================================================
