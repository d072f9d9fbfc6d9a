SPECIFICATION MCSpec
CONSTANTS
  User = {1, 2}
  Qualified = {1, 2}
  Slot <- ThreeSlots
  DefaultUser <- LateIsOpen
  DayLength = 2
  MaxTime = 2
  DraftId = {1, 2}
  ShiftId = {1, 2, 3, 4}
  MaxGen = 1
  Range <- Windows
  Session = {p1, p2, p3}
  Ops <- AllOps
  Scenario <- AllScenarios
  Race <- KnownRaces
SYMMETRY SessionSymmetry
CHECK_DEADLOCK FALSE
INVARIANTS PlanningTypeOK OneShiftPerDemand PlanBooksOnce OpenOfferHasShift DaysMatchItems
PROPERTIES WorkedShiftsStay PublishedItemsFrozen RoundFreezesItems AssignsAWisher
