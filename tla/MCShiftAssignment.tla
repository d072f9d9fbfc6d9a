-------------------------- MODULE MCShiftAssignment --------------------------
(***************************************************************************)
(* Small instances of ShiftAssignment: periods, operations and symmetry.    *)
(* Days have two hours; the clock starts at hour 0 of day 0.                *)
(***************************************************************************)
EXTENDS ShiftAssignment, TLC

AllDay == [from |-> 0, to |-> 2]
Today == [from |-> 1, to |-> 2]
Tomorrow == [from |-> 2, to |-> 4]

OnePeriod == {Tomorrow}
OverlappingToday == {AllDay, Today}
TwoDays == {Today, Tomorrow}

ShiftOps == {"createShift", "updateShift", "deleteShift"}
TradeOps == {"createTrade", "acceptTrade", "rejectTrade", "cancelTrade"}
StaffingOps ==
  {"createRequest", "acceptRequest", "rejectRequest", "cancelRequest"}
LeaveOps == {"createLeave", "setLeaveStatus", "expireLeaves"}

AdminRun == ShiftOps

AcceptRun == {"createShift", "createTrade", "acceptTrade"}

\* Administrators alone, in an hour: nobody trades, asks or clocks in (a bound).
AdminNext ==
  \E self \in Session : ShiftRequest(self) \/ ShiftStep(self) \/ Crash(self)

AdminSpec == Init /\ [][AdminNext]_vars /\ Fairness

\* Sessions are interchangeable: no action or property compares them.
SessionSymmetry == Permutations(Session)
=============================================================================
