SPECIFICATION Spec
CONSTANTS
  EntryId = {1}
  AdjustmentId = {}
  LastPeriod = 1
  MaxMinutes = 1
  MaxLocks = 1
  Session = {p1, p2}
  Ops <- ReopenRun
PROPERTIES ExportedStaysExported
