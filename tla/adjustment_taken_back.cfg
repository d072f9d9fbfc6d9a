SPECIFICATION MCSpec
CONSTANTS
  Rule = {}
  Percent = {}
  LastDate = 4
  MaxValue = 2
  MaxVersions = 12
  Session = {p1}
  Ops <- RateRun
INVARIANTS EntriesPaidOnce
