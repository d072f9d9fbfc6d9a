SPECIFICATION SupportSpec
CONSTANTS
  User = {u1}
  Cinema = {1, 2}
  Session = {s1, s2, s3}
  Module <- ModuleKeys
  Requires <- Dependencies
  Caller = {c1, c2}
  Person = {p1, p2, p3}
  Broadcaster = {p1}
  Handler = {h1, h2}
  MaxMail = 3
  LastDay = 1
  Retention = 1
  PageSize = 1
  Reader = p1
SYMMETRY Symmetry
INVARIANTS DefaultFollowsMemberships MasterHasNoMembership AllowedWasEnabled AnswersStayInside ReceiptsOfMembers InboxComplete
PROPERTIES BlockedKeepsDefault ImplementsSwitches OwnDeletionsOnly GoneForGood
