SPECIFICATION MCSpec
CONSTANTS
  User = {1, 2}
  Qualified = {1, 2}
  Cinema = {1}
  ShiftId = {1}
  TradeId = {1}
  RequestId = {1, 2}
  LeaveId = {1, 2}
  EntryId = {1}
  Interval <- AcrossDays
  DayLength = 2
  MinNotice = 0
  MaxTime = 2
  Session = {p1, p2}
  Ops <- OpName
  Scenario <- OffersStaffingAndAll
SYMMETRY SessionSymmetry
INVARIANTS OpenTradeFollowsShift EntryOnOwnShift NoShiftDuringApprovedLeave
PROPERTIES StaffingWinnerTakesShift ClosedRequestStaysClosed
