------------------------------- MODULE ClockIns -------------------------------
(***************************************************************************)
(* Clocking in and out on a shift: clockInTimeEntry and clockOutTimeEntry. *)
(* The payroll period of the day is taken to be open, so that              *)
(* ensureTimeEntryCreationPeriodWritable only acquires the lock of the     *)
(* period, and entries are not yet locked for payroll.                      *)
(***************************************************************************)
EXTENDS ShiftStore

\* findOpenTimeEntry
OpenEntry(u) == \E e \in EntryId : entries[e].user = u /\ entries[e].status = "open"

\* resolveClockInShift and ensureClockInShiftOnCopenhagenToday, read before
\* any lock; an employee with an open entry gets that one back.
ClockInBegin(self, u, s) ==
  /\ ~OpenEntry(u)
  /\ LiveShift(s)
  /\ shifts[s].user = u
  /\ Day(shifts[s].ivl.from) = Day(now)
  /\ Begin(self, [Idle EXCEPT !.op = "clockIn", !.step = "lock", !.user = u,
                              !.cinema = shifts[s].cinema, !.shift = s])
  /\ UNCHANGED <<tables, now, held>>

ClockInLock(self) ==
  /\ At(self, "clockIn", "lock")
  /\ Acquire(self, PeriodLock(sess[self].cinema))
  /\ Goto(self, "check")
  /\ UNCHANGED <<tables, now>>

\* ensureNoExistingEntryForShift: an entry of this user on this shift
ClockInCheck(self) ==
  LET a == sess[self] IN
  /\ At(self, "clockIn", "check")
  /\ Check(self, ~\E e \in EntryId : /\ entries[e].status # "unused"
                                     /\ entries[e].user = a.user
                                     /\ entries[e].shift = a.shift,
           "write")

\* The foreign key makes the INSERT fail when the shift is gone.
ClockInCommit(self) ==
  LET a == sess[self] IN
  /\ At(self, "clockIn", "write")
  /\ \/ /\ LiveShift(a.shift)
        /\ \E e \in EntryId :
             /\ First(e, UnusedEntryIds)
             /\ entries' = [entries EXCEPT ![e] =
                  [status |-> "open", user |-> a.user, shift |-> a.shift]]
        /\ Finish(self)
        /\ UNCHANGED <<shifts, trades, requests, leaves, now>>
     \/ (~LiveShift(a.shift) \/ UnusedEntryIds = {}) /\ Rollback(self)

-----------------------------------------------------------------------------
\* clockOutTimeEntry has no transaction and no lock; it does not ask whether
\* the entry is still open.
ClockOutBegin(self, e) ==
  /\ entries[e].status # "unused"
  /\ Begin(self, [Idle EXCEPT !.op = "clockOut", !.step = "write", !.item = e])
  /\ UNCHANGED <<tables, now, held>>

ClockOutCommit(self) ==
  /\ At(self, "clockOut", "write")
  /\ entries' = [entries EXCEPT ![sess[self].item].status = "done"]
  /\ Finish(self)
  /\ UNCHANGED <<shifts, trades, requests, leaves, now>>

-----------------------------------------------------------------------------
ClockRequest(self) ==
  \/ \E u \in User, s \in ShiftId : ClockInBegin(self, u, s)
  \/ \E e \in EntryId : ClockOutBegin(self, e)

ClockStep(self) ==
  \/ ClockInLock(self)
  \/ ClockInCheck(self)
  \/ ClockInCommit(self)
  \/ ClockOutCommit(self)
=============================================================================
