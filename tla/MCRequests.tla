------------------------------ MODULE MCRequests ------------------------------
(***************************************************************************)
(* The requests employees make, in scenarios.  A behaviour follows one, and *)
(* the row of an absence turned down before it starts tells which.          *)
(***************************************************************************)
EXTENDS MCShiftAssignment

CONSTANTS Scenario  \* the scenarios of the instance (bound)

\* Today and tomorrow, overlapping; one period is enough to compete for a shift.
AcrossDays == {[from |-> 1, to |-> 3], Tomorrow}
OnePeriodOnly(self) == sess'[self].ivl \in {NoInterval, Tomorrow}

TradesAndLeaves == {"trades", "leaves"}
OffersStaffingAndAll == {"offers", "staffing", "all"}

TurnedDown ==
  [status |-> "REJECTED", user |-> 1, cinema |-> 1, ivl |-> Tomorrow]

\* Absences are never deleted, and the scenarios without one ask for none.
Follows(scenario) ==
  /\ scenario \in Scenario
  /\ leaves[1] = TurnedDown <=> scenario \in {"leaves", "all"}

\* Two administrators at once are the matter of another run.
OneAdministrator == Cardinality({p \in Session : sess[p].op \in ShiftOps}) <= 1

\* A behaviour that trades makes no staffing requests, and the other way round.
OnlyTrades ==
  /\ requests = [r \in RequestId |-> UnusedRequest]
  /\ \A p \in Session : sess[p].op \notin StaffingOps
OnlyRequests ==
  /\ trades = [t \in TradeId |-> UnusedTrade]
  /\ \A p \in Session : sess[p].op \notin TradeOps

SendRequest(self) ==
  \* Administrators edit shifts while employees trade them.
  \/ /\ Follows("trades")
     /\ ShiftRequest(self) \/ TradeRequest(self)
     /\ OnePeriodOnly(self)
     /\ OneAdministrator'
  \* The same, but a shift is offered only while none is edited.
  \/ /\ Follows("offers")
     /\ OnlyTrades
     /\ ShiftRequest(self) \/ TradeRequest(self)
     /\ OnePeriodOnly(self)
     /\ OneAdministrator' /\ OffersApart'
  \* Employees answer staffing requests while administrators edit the shift;
  \* new requests are made while no request is in flight or accepted.
  \/ /\ Follows("staffing")
     /\ OnlyRequests
     /\ ShiftRequest(self) \/ StaffingRequest(self)
     /\ OnePeriodOnly(self)
     /\ sess'[self].op = "createRequest" => \A p \in Session : sess[p] = Idle
     /\ OneAdministrator' /\ RequestsApart'
  \* One employee asks for overlapping absences, and is given shifts.
  \/ /\ Follows("leaves")
     /\ ShiftRequest(self) \/ LeaveRequest(self)
     /\ sess'[self].user \in {None, 1}
     /\ sess'[self].item # 1
     /\ sess'[self].op \in {"createShift"} \cup LeaveOps
  \* Everything clients can ask for, one request at a time.
  \/ /\ Follows("all")
     /\ \A p \in Session : sess[p] = Idle
     /\ Request(self)
     /\ sess'[self].op \notin {"rejectTrade", "rejectRequest"}
     /\ sess'[self].op = "createRequest" => \A r \in RequestId : requests[r] = UnusedRequest
     /\ sess'[self].op = "createLeave" => \A e \in EntryId : entries[e] = UnusedEntry
     /\ sess'[self].op = "clockIn" => \A l \in LeaveId \ {1} : leaves[l] = UnusedLeave

MCInit ==
  /\ \E scenario \in Scenario :
       leaves = [l \in LeaveId |->
                   IF l = 1 /\ scenario \in {"leaves", "all"}
                   THEN TurnedDown ELSE UnusedLeave]
  /\ shifts = [s \in ShiftId |-> UnusedShift]
  /\ trades = [t \in TradeId |-> UnusedTrade]
  /\ requests = [r \in RequestId |-> UnusedRequest]
  /\ entries = [e \in EntryId |-> UnusedEntry]
  /\ now = 0
  /\ held = [p \in Session |-> {}]
  /\ sess = [p \in Session |-> Idle]

MCNext ==
  \/ \E self \in Session : SendRequest(self) \/ Advance(self) \/ Crash(self)
  \/ ExpireLeaves
  \/ Follows("leaves") /\ Tick

MCSpec == MCInit /\ [][MCNext]_vars
=============================================================================
