--------------------------- MODULE ShiftAssignment ---------------------------
(***************************************************************************)
(* The handlers that decide who works which shift, running concurrently    *)
(* over one store: the administrator's edits, shift trades, staffing       *)
(* requests, absence and clocking in.                                       *)
(***************************************************************************)
EXTENDS Shifts, ShiftTrades, StaffingRequests, LeaveRequests, ClockIns

Init == StoreInit

\* A client sends a request, at any time and with any argument.
Request(self) ==
  \/ ShiftRequest(self)
  \/ TradeRequest(self)
  \/ StaffingRequest(self)
  \/ LeaveRequest(self)
  \/ ClockRequest(self)

\* The server goes on with a request in flight.
Advance(self) ==
  \/ ShiftStep(self)
  \/ TradeStep(self)
  \/ StaffingStep(self)
  \/ LeaveStep(self)
  \/ ClockStep(self)

Next ==
  \/ \E self \in Session : Request(self) \/ Advance(self) \/ Crash(self)
  \/ ExpireLeaves
  \/ Tick

Spec == Init /\ [][Next]_vars

\* PostgreSQL grants an advisory lock to its waiters in turn and the event
\* loop runs every request, so a session whose next step is possible again
\* and again takes it.  Clients owe nothing.
Fairness == \A self \in Session : SF_vars(Advance(self))

-----------------------------------------------------------------------------
(* Requests that the handlers do not keep apart, although something is      *)
(* promised only where they are: an edit of a shift looks for its offers    *)
(* before it commits, an acceptance for the other requests, and neither     *)
(* createShiftTrade nor createStaffingRequest takes a lock they hold.        *)

\* Nobody offers a shift while one is being edited or deleted.
OffersApart ==
  \A p, q \in Session :
    sess[p].op = "createTrade" => sess[q].op \notin {"updateShift", "deleteShift"}

\* No staffing request is made while one is being accepted.
RequestsApart ==
  \A p, q \in Session :
    sess[p].op = "createRequest" => sess[q].op # "acceptRequest"

-----------------------------------------------------------------------------
(* Properties *)

\* Every table and every session holds values of its type: the columns the
\* handlers write are the columns' enumerations and foreign keys.
TypeOK == StoreTypeOK

\* A shift has at most one open trade, however the requests that offer it
\* interleave: createShiftTrade looks and inserts under one advisory lock
\* (53001), as there is no unique index on open trades.
OneOpenTrade ==
  \A t1, t2 \in TradeId :
    OpenTrade(t1) /\ OpenTrade(t2) /\ trades[t1].shift = trades[t2].shift =>
      t1 = t2 \/ trades[t1].shift = None

\* An employee never works two shifts at the same time, in any cinema.
NoDoubleBooking ==
  \A s1, s2 \in ShiftId :
    s1 # s2 /\ LiveShift(s1) /\ LiveShift(s2) /\ shifts[s1].user # None =>
      ~(/\ shifts[s1].user = shifts[s2].user
        /\ Overlap(shifts[s1].ivl, shifts[s2].ivl))

\* Whoever declined a pool trade has not taken it: the decline and the
\* acceptance both look for each other's row under the record lock (56002).
TradeDeclinerNeverAccepts ==
  \A t \in TradeId : trades[t].acceptedBy \notin trades[t].declines

\* A staffing request is only ever won from an unassigned shift: the step
\* that accepts it gives the shift to the one who answered, and leaves no
\* other request for that shift waiting (where RequestsApart).
StaffingWinnerTakesShift ==
  [][\A r \in RequestId :
       PendingRequest(r) /\ requests'[r].status = "ACCEPTED" =>
         LET s == requests[r].shift IN
         /\ LiveShift(s)
         /\ shifts[s].user = None
         /\ shifts'[s].user = requests'[r].acceptedBy
         /\ requests'[r].acceptedBy \notin {None}
         /\ \A q \in RequestId :
              requests[q].shift = s => requests'[q].status # "PENDING"
    ]_vars

\* A closed request is never reopened or closed differently, although
\* reject, cancel and the acceptance of another request write it without a
\* common lock.
ClosedRequestStaysClosed ==
  [][\A r \in RequestId :
       requests[r].status \in {"ACCEPTED", "REJECTED", "CANCELLED"} =>
         requests'[r].status = requests[r].status
    ]_vars

\* A leave that was rejected, cancelled or expired stays so, and an approved
\* one can only be cancelled, although the expiry job writes it without the
\* locks of the status change.
SettledLeaveStaysSettled ==
  [][\A l \in LeaveId :
       /\ leaves[l].status \in {"REJECTED", "CANCELLED", "EXPIRED"} =>
            leaves'[l].status = leaves[l].status
       /\ leaves[l].status = "APPROVED" =>
            leaves'[l].status \in {"APPROVED", "CANCELLED"}
    ]_vars

\* No employee has two overlapping absences in a cinema that are both
\* waiting or approved.
LeaveExclusive ==
  \A l1, l2 \in LeaveId :
    l1 # l2 /\ {leaves[l1].status, leaves[l2].status} \subseteq {"PENDING", "APPROVED"} =>
      ~(/\ leaves[l1].user = leaves[l2].user
        /\ leaves[l1].cinema = leaves[l2].cinema
        /\ Overlap(leaves[l1].ivl, leaves[l2].ivl))

\* An open trade offers a shift that exists and that the offerer still has:
\* whatever takes the shift from him or deletes it closes his offer (where
\* OffersApart).
OpenTradeFollowsShift ==
  \A t \in TradeId :
    OpenTrade(t) =>
      /\ LiveShift(trades[t].shift)
      /\ shifts[trades[t].shift].user = trades[t].offeredBy

\* Nobody has a shift in a cinema during an absence approved there.
NoShiftDuringApprovedLeave ==
  \A s \in ShiftId :
    LiveShift(s) => ~ApprovedLeave(shifts[s].user, shifts[s].cinema, shifts[s].ivl)

\* A time entry on a shift belongs to the employee who has the shift: a shift
\* with an entry is frozen.
EntryOnOwnShift ==
  \A e \in EntryId :
    entries[e].status # "unused" /\ entries[e].shift # None =>
      /\ LiveShift(entries[e].shift)
      /\ shifts[entries[e].shift].user = entries[e].user

\* Every request ends: no set of handlers waits for each other's advisory
\* locks, because acquireShiftUserLocks takes the user locks smallest id
\* first and the record lock before them.
RequestsFinish == \A self \in Session : sess[self] # Idle ~> sess[self] = Idle

-----------------------------------------------------------------------------
(* Trading as the ledger promises it *)

holderOf == [s \in ShiftId |-> shifts[s].user]

LedgerStatus(status) ==
  IF status \in {"unused", "OPEN"} THEN status
  ELSE IF status = "ACCEPTED" THEN "TAKEN" ELSE "CLOSED"

offerOf ==
  [t \in TradeId |->
     [status |-> LedgerStatus(trades[t].status), shift |-> trades[t].shift,
      maker |-> trades[t].offeredBy, taker |-> trades[t].acceptedBy,
      refused |-> trades[t].declines]]

Ledger == INSTANCE TradeLedger
            WITH Shift <- ShiftId, Offer <- TradeId,
                 holder <- holderOf, offer <- offerOf

\* Whatever the interleaving of admin edits, offers, acceptances, declines,
\* withdrawals and crashes, trading behaves as the ledger does.
ImplementsLedger == Ledger!LedgerSpec
=============================================================================
