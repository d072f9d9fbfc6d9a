SPECIFICATION MCSpec
CONSTANTS
  User = {1, 2}
  Qualified = {1, 2}
  Slot <- ThreeSlots
  DefaultUser <- OneEmployee
  DayLength = 2
  MaxTime = 2
  DraftId = {1, 2}
  ShiftId = {1, 2, 3, 4}
  MaxGen = 1
  Range <- Windows
  Session = {p1}
  Ops <- AllOps
  Scenario <- OnlyLeave
  Race <- KnownRaces
CHECK_DEADLOCK FALSE
INVARIANTS PlanRespectsLeave
