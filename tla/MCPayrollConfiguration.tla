------------------------ MODULE MCPayrollConfiguration ------------------------
(***************************************************************************)
(* Small instances of PayrollConfiguration.                                 *)
(***************************************************************************)
EXTENDS PayrollConfiguration, TLC

CONSTANTS MaxVersions  \* how many versions there ever are (bound)

RateRun == {"createVersion", "cancelRate"}

\* Requests for different parts of the configuration do not overlap, and a
\* period does not change under one (see KnownRaces in the README).
SameScope(self) ==
  \A other \in Session : sess[other] # Idle => sess[other].scope = sess'[self].scope

\* A rule that applies on a day that has come is not copied: no adjustment
\* is made for a copy.
CopiesFutureOnly(self) ==
  \A d \in Date : d <= today => sess'[self].rows[d] = UnusedVersion

\* A rule is archived while no request gives it a version: the count of its
\* versions is in no transaction.
ArchivesAlone(self) ==
  \A other \in Session \ {self} :
    "archiveRule" \in {sess[other].op, sess'[self].op} => sess[other] = Idle

\* Small values, one of each kind where it matters little (a bound).
SmallValues(self) ==
  sess'[self].op \in {"createVersion", "createRule"} =>
  /\ sess'[self].scope = "mode" => sess'[self].value \in {HoursOnly, Advanced}
  /\ sess'[self].scope = "rate" => sess'[self].value \in {1, 2}
  /\ sess'[self].scope \in Rule => sess'[self].value = 1

\* Versions there are and will be.
Versions == {cd \in Scope \X Date : versions[cd[1]][cd[2]] # UnusedVersion}
Coming == {s \in Session : sess[s].op \in ChangeOp \cup {"copyRule"}}

SendRequest(self) ==
  /\ sess[self] = Idle
  /\ Request(self)
  /\ sess'[self].op \in ChangeOp \cup {"copyRule"} =>
       Cardinality(Versions) + Cardinality(Coming) < MaxVersions
  /\ SmallValues(self)
  /\ SameScope(self)
  /\ ArchivesAlone(self)
  /\ CopiesFutureOnly(self)

\* What was adjusted is not reopened.
Untouched(p) == \A o, e \in Date : due[o][e][p] = 0 /\ Adjusted(p, e) = 0

\* Periods are first locked in the order of their dates, or an adjustment is
\* taken back in a later period and not made in its own.
LockInOrder(p) == LockPeriod(p) /\ ClosedInOrder'

MCNext ==
  \/ \E self \in Session : SendRequest(self) \/ Advance(self)
  \/ \E self \in Session : sess[self].step = "write" /\ Crash(self)
  \/ Quiet /\ \E p \in Date : LockInOrder(p) \/ ExportPeriod(p)
  \/ Quiet /\ \E p \in Date : Untouched(p) /\ UnlockPeriod(p)
  \/ NextDay

\* The member has a rate from the first day (a bound).
MCInit == Init /\ versions["rate"][1].value = 1

MCSpec == MCInit /\ [][MCNext]_vars

Symmetry == Permutations(Session) \cup Permutations(Rule)
=============================================================================
