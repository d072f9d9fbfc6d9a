SPECIFICATION MCSpec
CONSTANTS
  EntryId = {1, 2}
  AdjustmentId = {1, 2}
  LastPeriod = 2
  MaxMinutes = 2
  MaxLocks = 2
  Session = {p1, p2}
  Ops <- AllOps
SYMMETRY SessionSymmetry
INVARIANTS TypeOK FrozenWhileLocked PaidEntriesBalance
PROPERTIES ExportedStaysExported
