SPECIFICATION Spec
CONSTANTS
  EntryId = {1}
  AdjustmentId = {1, 2}
  LastPeriod = 2
  MaxMinutes = 1
  MaxLocks = 1
  Session = {p1}
  Ops <- LateRun
INVARIANTS ExportedEntriesBalance
