SPECIFICATION AdminSpec
CONSTANTS
  User = {1, 2}
  Qualified = {1, 2}
  Cinema = {1}
  ShiftId = {1, 2}
  TradeId = {}
  RequestId = {}
  LeaveId = {}
  EntryId = {}
  Interval <- TwoDays
  DayLength = 2
  MinNotice = 0
  MaxTime = 0
  Session = {p1, p2}
  Ops <- AdminRun
INVARIANTS NoDoubleBooking
PROPERTIES RequestsFinish
