SPECIFICATION Spec
CONSTANTS
  User = {1, 2}
  Qualified = {1, 2}
  Cinema = {1}
  ShiftId = {1, 2}
  TradeId = {1}
  RequestId = {}
  LeaveId = {}
  EntryId = {}
  Interval <- OnePeriod
  DayLength = 2
  MinNotice = 0
  MaxTime = 0
  Session = {p1, p2}
  Ops <- AcceptRun
SYMMETRY SessionSymmetry
INVARIANTS NoDoubleBooking
