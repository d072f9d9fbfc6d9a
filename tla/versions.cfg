SPECIFICATION MCSpec
CONSTANTS
  Rule = {r1, r2}
  Percent = {r1, r2}
  LastDate = 3
  MaxValue = 2
  MaxVersions = 4
  Session = {p1, p2}
  Ops <- OpName
SYMMETRY Symmetry
INVARIANTS TypeOK VersionsChain ClosedPeriodsFollow
PROPERTIES PastChangesByInsertionOnly
