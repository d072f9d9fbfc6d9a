---------------------------- MODULE PayrollVersions ----------------------------
(***************************************************************************)
(* The payroll configuration of one cinema as versions with half-open       *)
(* validity: its payroll mode, the hourly rate of one member and the pay    *)
(* rules; what a period costs under it; the runs of closed periods and the  *)
(* money adjustments for them.                                              *)
(*                                                                          *)
(* A period is one date here and holds one approved entry, worked on it, so *)
(* a date names the period and the entry too.                               *)
(***************************************************************************)
EXTENDS Integers, FiniteSets, FiniteSetsExt

CONSTANTS
  Rule,      \* names of pay rules (bound)
  Percent,   \* the rules with PERCENT_OF_BASE; the others are FIXED_PER_HOUR
  LastDate,  \* dates are 1 .. LastDate (bound)
  MaxValue,  \* the highest rate and supplement (bound)
  Session,   \* concurrent requests to the backend
  Ops        \* the operations clients send here (bound)

None == 0

ASSUME VersionsAssumption ==
  /\ Percent \subseteq Rule
  /\ IsFiniteSet(Rule)
  /\ {"mode", "rate", "rules"} \cap Rule = {}
  /\ LastDate \in Nat \ {0}
  /\ MaxValue \in Nat \ {0}

VARIABLES
  versions,  \* tables CinemaPayrollConfigurationVersion,
             \* MembershipPayRateVersion and PayRuleVersion
  rules,     \* table PayRule: isActive
  periods,   \* table PayrollPeriod and the lines of its locked run
  due,       \* table PayrollAdjustment: the sums of the money adjustments
  today,     \* the date of now
  held,      \* the version locks each transaction holds
  sess       \* the handler each session runs

tables == <<versions, rules, periods, due>>
vars == <<versions, rules, periods, due, today, held, sess>>

-----------------------------------------------------------------------------
(* Rows *)

Date == 1 .. LastDate
MaybeDate == Date \cup {None}
Open == LastDate + 1   \* validTo is null
Scope == {"mode", "rate"} \cup Rule
Value == 0 .. MaxValue

\* The values of the scope "mode".
HoursOnly == 0
Simple == 1
Advanced == 2
Mode == {HoursOnly, Simple, Advanced}
AnyValue == Value \cup Mode
Values(c) == IF c = "mode" THEN Mode ELSE Value

\* (scope, validFrom) is unique, cancelled rows included, so it is the key.
\* ACTIVE, SCHEDULED and SUPERSEDED are only shown: here they are all "live".
End == Date \cup {Open}
VersionRow == [state : {"unused", "live", "CANCELLED"}, to : End,
               value : AnyValue, enabled : BOOLEAN]

UnusedVersion ==
  [state |-> "unused", to |-> Open, value |-> 0, enabled |-> FALSE]

\* The row is made, and its id given, when the period is first locked.
PeriodRow == [id : Nat, status : {"OPEN", "LOCKED", "EXPORTED"},
              lines : [Date -> Int]]

Closed(p) == periods[p].status \in {"LOCKED", "EXPORTED"}

-----------------------------------------------------------------------------
(* helpers/payroll-version-intervals.ts *)

Live(rows) == {d \in Date : rows[d].state = "live"}
Before(rows, d) == {f \in Live(rows) : f < d}
After(rows, d) == {f \in Live(rows) : f > d}

\* Of planVersionInsertion: the version to cut off, and where the new one ends.
PreviousOf(rows, d) == Max(Before(rows, d) \cup {None})
NextOf(rows, d) == Min(After(rows, d) \cup {Open})

\* findVersionAt, of versions in the order of validFrom
InForce(rows, d) ==
  LET covering == {f \in Live(rows) : f <= d /\ d < rows[f].to} IN
  IF covering = {} THEN None ELSE Min(covering)

\* The row starts to end where another begins.
CutOff(rows, d, to) == IF d = None THEN rows ELSE [rows EXCEPT ![d].to = to]

-----------------------------------------------------------------------------
(* calculatePayrollPeriod *)

\* Of chooseRuleVersions: rules that stack, each worth something all day.
\* Whether the version is enabled is not looked at.
Matching(vs, active, d) ==
  {r \in Rule : active[r] /\ InForce(vs[r], d) # None}

ValueAt(vs, c, d) == vs[c][InForce(vs[c], d)].value

Supplement(vs, r, d) ==
  IF r \in Percent THEN ValueAt(vs, "rate", d) * ValueAt(vs, r, d)
  ELSE ValueAt(vs, r, d)

PaysMoney(vs, d) == ValueAt(vs, "mode", d) # HoursOnly

\* Otherwise it throws: there is no mode, or no rate where one is needed.
Calculable(vs, d) ==
  /\ InForce(vs["mode"], d) # None
  /\ PaysMoney(vs, d) => InForce(vs["rate"], d) # None

Amount(vs, active, d) ==
  IF ~PaysMoney(vs, d) THEN 0
  ELSE ValueAt(vs, "rate", d)
       + IF ValueAt(vs, "mode", d) = Advanced
         THEN SumFunction([r \in Matching(vs, active, d) |-> Supplement(vs, r, d)])
         ELSE 0

-----------------------------------------------------------------------------
(* Money adjustments: due[o][e][s] is the sum of those for entry e with      *)
(* original period o and settlement period s.  They are included while s is *)
(* closed, and pending while it is not or there is none.                    *)

Adjusted(o, e) == SumFunction(due[o][e])

NoLines == [e \in Date |-> 0]
NothingDue == [o \in Date |-> [e \in Date |-> [s \in MaybeDate |-> 0]]]

\* Mutant of DeltaFor: earlier adjustments are not taken off.
DeltaOfRun(vs, active, o, e) ==
  (IF e = o THEN Amount(vs, active, o) ELSE 0) - periods[o].lines[e]

\* groupCalculationLines of the locked run against those of a calculation
\* made now, less what was adjusted before.  Entries of earlier periods are in
\* the run through the adjustments it includes; the calculation has none.
DeltaFor(vs, active, o, e) ==
  (IF e = o THEN Amount(vs, active, o) ELSE 0) - periods[o].lines[e] - Adjusted(o, e)

\* createForConfigurationChange: periods in the order of their ids, and one
\* adjustment of an entry for one change.
Deltas(vs, active, closed) ==
  [o \in Date |-> [e \in Date |->
     IF /\ o \in closed /\ Closed(o)
        /\ \A earlier \in {q \in closed : periods[q].id < periods[o].id /\ Closed(q)} :
             DeltaFor(vs, active, earlier, e) = 0
     THEN DeltaFor(vs, active, o, e) ELSE 0]]
=============================================================================
