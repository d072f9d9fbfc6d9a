SPECIFICATION MCSpec
CONSTANTS
  User = {1, 2}
  Qualified = {1, 2}
  Cinema = {1}
  ShiftId = {1}
  TradeId = {1, 2}
  RequestId = {}
  LeaveId = {1, 2, 3}
  EntryId = {}
  Interval <- AcrossDays
  DayLength = 2
  MinNotice = 0
  MaxTime = 2
  Session = {p1, p2}
  Ops <- OpName
  Scenario <- TradesAndLeaves
SYMMETRY SessionSymmetry
INVARIANTS TypeOK OneOpenTrade TradeDeclinerNeverAccepts LeaveExclusive
PROPERTIES ImplementsLedger SettledLeaveStaysSettled
