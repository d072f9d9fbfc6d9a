------------------------- MODULE PayrollConfiguration -------------------------
(***************************************************************************)
(* Changing the payroll configuration: new versions of the mode, the rate   *)
(* and the rules, cancelled and deactivated ones, new, copied and archived  *)
(* rules, against periods that are locked, reopened and exported.           *)
(***************************************************************************)
EXTENDS PayrollVersions

OpName == {"createVersion", "deactivate", "createRule", "cancelRate",
           "deleteRuleVersion", "copyRule", "archiveRule"}

\* scope: what is changed; from: validFrom; closed: closedPeriodIds of the
\* impact; previous, to: the plan; deltas: the adjustments to write; source
\* and rows: the rule to copy and its versions.
SessionState ==
  [op : OpName \cup {"none"}, step : {"idle", "lock", "plan", "write"},
   scope : Scope \cup {"none"}, from : MaybeDate, value : AnyValue,
   enabled : BOOLEAN, closed : SUBSET Date, previous : MaybeDate, to : End,
   deltas : [Date -> [Date -> Int]],
   source : Rule \cup {"none"}, rows : [Date -> VersionRow]]

NoRows == [d \in Date |-> UnusedVersion]

Idle == [op |-> "none", step |-> "idle", scope |-> "none", from |-> None,
         value |-> 0, enabled |-> TRUE, closed |-> {}, previous |-> None,
         to |-> Open, deltas |-> [o \in Date |-> NoLines],
         source |-> "none", rows |-> NoRows]

At(self, ops, step) == sess[self].op \in ops /\ sess[self].step = step

Begin(self, state) ==
  /\ state.op \in Ops
  /\ sess[self] = Idle
  /\ sess' = [sess EXCEPT ![self] = state]
  /\ UNCHANGED <<tables, today, held>>

Finish(self) ==
  /\ sess' = [sess EXCEPT ![self] = Idle]
  /\ held' = [held EXCEPT ![self] = {}]

Rollback(self) == Finish(self) /\ UNCHANGED <<tables, today>>

-----------------------------------------------------------------------------
(* acquireVersionLock *)

\* New rules share a lock of the cinema; a copy locks the rule it copies.
LockOf(a) ==
  CASE a.op = "createRule" -> "rules"
    [] a.op = "copyRule" -> a.source
    [] OTHER -> a.scope

\* Mutant of Acquire: versions are changed without the lock.
GoOn(self) ==
  /\ sess[self].step = "lock"
  /\ sess' = [sess EXCEPT ![self].step = "plan"]
  /\ UNCHANGED <<tables, today, held>>

Acquire(self) ==
  LET key == LockOf(sess[self]) IN
  /\ sess[self].step = "lock"
  /\ \A other \in Session : key \notin held[other]
  /\ held' = [held EXCEPT ![self] = {key}]
  /\ sess' = [sess EXCEPT ![self].step = "plan"]
  /\ UNCHANGED <<tables, today>>

-----------------------------------------------------------------------------
(* createPayrollModeVersion, createPayRateVersion, createPayRuleVersion,   *)
(* deactivatePayRule and createPayRule.  verifyImpact runs before the       *)
(* transaction; a client that has just asked for the impact and gives a     *)
(* reason passes it.                                                        *)

ChangeOp == {"createVersion", "deactivate", "createRule"}

\* closedPeriodIds of buildImpactPreview
ClosedSince(d) == {p \in Date : d <= p /\ p < today /\ Closed(p)}

CreateVersionBegin(self, c, d, v) ==
  /\ v \in Values(c)
  /\ c \in Rule => rules[c] # "none"
  /\ Begin(self, [Idle EXCEPT !.op = "createVersion", !.step = "lock",
                     !.scope = c, !.from = d, !.value = v,
                     !.closed = ClosedSince(d)])

DeactivateBegin(self, r, d) ==
  /\ rules[r] # "none"
  /\ Begin(self, [Idle EXCEPT !.op = "deactivate", !.step = "lock",
                     !.scope = r, !.from = d, !.enabled = FALSE,
                     !.closed = ClosedSince(d)])

CreateRuleBegin(self, r, d, v) ==
  Begin(self, [Idle EXCEPT !.op = "createRule", !.step = "lock",
                  !.scope = r, !.from = d, !.value = v,
                  !.closed = ClosedSince(d)])

\* resolveVersionForDeactivation
Deactivatable(rows, d) ==
  /\ After(rows, d) = {}
  /\ InForce(rows, d) # None
  /\ rows[InForce(rows, d)].enabled

\* No live version starts then; a cancelled one breaks the unique index.
Insertable(rows, d) == rows[d].state = "unused"

Accepted(a) ==
  /\ Insertable(versions[a.scope], a.from)
  /\ a.op = "deactivate" => Deactivatable(versions[a.scope], a.from)
  /\ a.op = "createRule" => rules[a.scope] = "none"

\* Mutant of EndOf: validTo is the last day the version applies.
EndsWithNext(rows, d) == NextOf(rows, d) + 1

\* newValidTo
EndOf(rows, d) == NextOf(rows, d)

\* A deactivation is a disabled copy of the version in force.
Planned(a) ==
  LET rows == versions[a.scope] IN
  [a EXCEPT !.previous = PreviousOf(rows, a.from),
            !.to = EndOf(rows, a.from),
            !.value = IF a.op = "deactivate" THEN rows[InForce(rows, a.from)].value
                      ELSE a.value]

Inserted(a) ==
  [versions EXCEPT ![a.scope] =
     [CutOff(@, a.previous, a.from) EXCEPT ![a.from] =
        [state |-> "live", to |-> a.to, value |-> a.value, enabled |-> a.enabled]]]

RulesWith(a) ==
  IF a.op = "createRule" THEN [rules EXCEPT ![a.scope] = "active"] ELSE rules

\* The transaction sees its own writes and whatever else is committed.  A
\* period that cannot be calculated makes it fail.
ChangePlan(self) ==
  LET a == Planned(sess[self])
      vs == Inserted(a)
      active == [r \in Rule |-> RulesWith(a)[r] = "active"]
      toAdjust == {p \in a.closed : Closed(p)}
      ok == /\ Accepted(sess[self])
            /\ \A p \in toAdjust : Calculable(vs, p)
  IN
  /\ At(self, ChangeOp, "plan")
  /\ \/ /\ ok
        /\ sess' = [sess EXCEPT ![self] =
             [a EXCEPT !.step = "write", !.deltas = Deltas(vs, active, toAdjust)]]
        /\ UNCHANGED <<tables, today, held>>
     \/ ~ok /\ Rollback(self)

\* The name of a rule is unique too: copyPayRule may have taken it.
ChangeCommit(self) ==
  LET a == sess[self]
      ok == a.op = "createRule" => rules[a.scope] = "none"
  IN
  /\ At(self, ChangeOp, "write")
  /\ \/ /\ ok
        /\ versions' = Inserted(a)
        /\ rules' = RulesWith(a)
        /\ due' = [o \in Date |-> [e \in Date |->
                     [due[o][e] EXCEPT ![None] = @ + a.deltas[o][e]]]]
        /\ Finish(self)
        /\ UNCHANGED <<periods, today>>
     \/ ~ok /\ Rollback(self)

-----------------------------------------------------------------------------
(* cancelFuturePayRate and deleteScheduledPayRuleVersion *)

CancelOp == {"cancelRate", "deleteRuleVersion"}

CancelBegin(self, op, c, d) ==
  /\ IF op = "cancelRate" THEN c = "rate" ELSE c \in Rule /\ rules[c] # "none"
  /\ Begin(self, [Idle EXCEPT !.op = op, !.step = "lock", !.scope = c,
                              !.from = d])

\* Mutant of Cancellable: versions in force can be cancelled too.
CancellableAnytime(a) == versions[a.scope][a.from].state = "live"

\* A rate can be cancelled again, a rule version cannot.  A version that has
\* not begun has no calculation lines or adjustments, which forbid deletion.
Cancellable(a) ==
  /\ versions[a.scope][a.from].state # "unused"
  /\ today < a.from
  /\ a.op = "deleteRuleVersion" => versions[a.scope][a.from].state = "live"

\* The clock is read once the lock is held; the commit follows on the same day.
CancelCommit(self) ==
  LET a == sess[self]
      rows == versions[a.scope]
      cancelled == [rows EXCEPT ![a.from].state = "CANCELLED"]
  IN
  /\ At(self, CancelOp, "plan")
  /\ \/ /\ Cancellable(a)
        /\ versions' = [versions EXCEPT ![a.scope] =
             CutOff(cancelled, PreviousOf(rows, a.from), NextOf(rows, a.from))]
        /\ rules' = IF a.op = "deleteRuleVersion" /\ Live(cancelled) = {}
                    THEN [rules EXCEPT ![a.scope] = "archived"] ELSE rules
        /\ Finish(self)
        /\ UNCHANGED <<periods, due, today>>
     \/ ~Cancellable(a) /\ Rollback(self)

-----------------------------------------------------------------------------
(* copyPayRule: the versions are read before the transaction *)

CopyRuleBegin(self, r, name) ==
  /\ rules[r] # "none"
  /\ Begin(self, [Idle EXCEPT !.op = "copyRule", !.step = "lock",
                     !.scope = name, !.source = r,
                     !.rows = [d \in Date |->
                                 IF d \in Live(versions[r]) THEN versions[r][d]
                                 ELSE UnusedVersion]])

CopyRuleCommit(self) ==
  LET a == sess[self] IN
  /\ At(self, {"copyRule"}, "plan")
  /\ \/ /\ rules[a.scope] = "none"
        /\ versions' = [versions EXCEPT ![a.scope] = a.rows]
        /\ rules' = [rules EXCEPT ![a.scope] = "active"]
        /\ Finish(self)
        /\ UNCHANGED <<periods, due, today>>
     \/ rules[a.scope] # "none" /\ Rollback(self)

-----------------------------------------------------------------------------
(* archivePayRule: a count and an update, in no transaction *)

ArchiveRuleBegin(self, r) ==
  /\ rules[r] # "none"
  /\ Live(versions[r]) = {}
  /\ Begin(self, [Idle EXCEPT !.op = "archiveRule", !.step = "write",
                              !.scope = r])

ArchiveRuleCommit(self) ==
  /\ At(self, {"archiveRule"}, "write")
  /\ rules' = [rules EXCEPT ![sess[self].scope] = "archived"]
  /\ Finish(self)
  /\ UNCHANGED <<versions, periods, due, today>>

-----------------------------------------------------------------------------
(* Periods, as configuration changes see them: PayrollPeriods has their     *)
(* steps.  A period is locked once its entry is worked and approved.        *)

\* includePendingPayrollAdjustmentsInPeriod
Included(p) ==
  [o \in Date |-> [e \in Date |-> [s \in MaybeDate |->
     IF o < p /\ s = p THEN due[o][e][p] + due[o][e][None]
     ELSE IF o < p /\ s = None THEN 0
     ELSE due[o][e][s]]]]

RunLines(p) ==
  [e \in Date |->
     (IF e = p THEN Amount(versions, [r \in Rule |-> rules[r] = "active"], p) ELSE 0)
     + SumFunction([o \in Date |-> Included(p)[o][e][p]])]

\* The id of the row, which is made at the first lock.
IdOf(p) ==
  IF periods[p].id # 0 THEN periods[p].id
  ELSE 1 + Cardinality({q \in Date : periods[q].id # 0})

LockPeriod(p) ==
  /\ p < today
  /\ ~Closed(p)
  /\ Calculable(versions, p)
  /\ periods' = [periods EXCEPT ![p] =
       [id |-> IdOf(p), status |-> "LOCKED", lines |-> RunLines(p)]]
  /\ due' = Included(p)
  /\ UNCHANGED <<versions, rules, today, held, sess>>

\* The adjustments it included are pending again, addressed to it.
UnlockPeriod(p) ==
  /\ periods[p].status = "LOCKED"
  /\ periods' = [periods EXCEPT ![p].status = "OPEN"]
  /\ UNCHANGED <<versions, rules, due, today, held, sess>>

ExportPeriod(p) ==
  /\ periods[p].status = "LOCKED"
  /\ periods' = [periods EXCEPT ![p].status = "EXPORTED"]
  /\ UNCHANGED <<versions, rules, due, today, held, sess>>

-----------------------------------------------------------------------------
\* The cinema has a mode from its first day; the member has a rate from then
\* on, or none yet.
FirstVersion(v) == [state |-> "live", to |-> Open, value |-> v, enabled |-> TRUE]

Init ==
  /\ \E rate \in {UnusedVersion} \cup {FirstVersion(v) : v \in Value} :
       versions = [c \in Scope |->
         CASE c = "mode" -> [NoRows EXCEPT ![1] = FirstVersion(Advanced)]
           [] c = "rate" -> [NoRows EXCEPT ![1] = rate]
           [] OTHER -> NoRows]
  /\ rules = [r \in Rule |-> "none"]
  /\ periods = [p \in Date |-> [id |-> 0, status |-> "OPEN", lines |-> NoLines]]
  /\ due = NothingDue
  /\ today = 1
  /\ held = [s \in Session |-> {}]
  /\ sess = [s \in Session |-> Idle]

Request(self) ==
  \/ \E c \in Scope, d \in Date, v \in AnyValue : CreateVersionBegin(self, c, d, v)
  \/ \E r \in Rule, d \in Date : DeactivateBegin(self, r, d)
  \/ \E r \in Rule, d \in Date, v \in Value : CreateRuleBegin(self, r, d, v)
  \/ \E op \in CancelOp, c \in Scope, d \in Date : CancelBegin(self, op, c, d)
  \/ \E r, name \in Rule : CopyRuleBegin(self, r, name)
  \/ \E r \in Rule : ArchiveRuleBegin(self, r)

Advance(self) ==
  \/ Acquire(self)
  \/ ChangePlan(self)
  \/ ChangeCommit(self)
  \/ CancelCommit(self)
  \/ CopyRuleCommit(self)
  \/ ArchiveRuleCommit(self)

\* The process dies or the transaction times out before its commit.
Crash(self) == sess[self] # Idle /\ Rollback(self)

PeriodStep == \E p \in Date : LockPeriod(p) \/ UnlockPeriod(p) \/ ExportPeriod(p)

NextDay ==
  /\ today < LastDate
  /\ today' = today + 1
  /\ UNCHANGED <<tables, held, sess>>

Next ==
  \/ \E self \in Session : Request(self) \/ Advance(self) \/ Crash(self)
  \/ PeriodStep
  \/ NextDay

Spec == Init /\ [][Next]_vars

-----------------------------------------------------------------------------
(* Properties *)

\* Every row, lock and session keeps its type.
TypeOK ==
  /\ versions \in [Scope -> [Date -> VersionRow]]
  /\ rules \in [Rule -> {"none", "active", "archived"}]
  /\ periods \in [Date -> PeriodRow]
  /\ due \in [Date -> [Date -> [MaybeDate -> Int]]]
  /\ today \in Date
  /\ held \in [Session -> SUBSET (Scope \cup {"rules"})]
  /\ sess \in [Session -> SessionState]

\* The live versions of a scope form a chain without gap or overlap: each
\* ends where the next begins and the last never does, through insertions
\* between others, cancellations and deactivations of concurrent requests,
\* which serialise on the version lock alone.
VersionsChain ==
  \A c \in Scope : \A d \in Live(versions[c]) :
    versions[c][d].to = NextOf(versions[c], d)

\* What applied on a day that has come is only ever replaced by a version
\* inserted from that day or an earlier one: a cancellation leaves it alone,
\* also when the day comes while it waits for the lock, and what it cuts off
\* or joins together lies in the future.
PastChangesByInsertionOnly ==
  [][\A c \in Scope, d \in Date :
       d <= today /\ InForce(versions'[c], d) # InForce(versions[c], d)
         => InForce(versions'[c], d) \in Live(versions'[c]) \ Live(versions[c])]_vars

-----------------------------------------------------------------------------
(* Closed periods follow the configuration *)

Quiet == \A self \in Session : sess[self] = Idle

\* Closed periods were first locked in the order of their dates.
ClosedInOrder ==
  \A p, q \in Date :
    p < q /\ Closed(p) /\ Closed(q) => periods[p].id < periods[q].id

Cost(p) == Amount(versions, [r \in Rule |-> rules[r] = "active"], p)

\* Once no request is in flight, the run of a closed period and the
\* adjustments made for it amount to what the configuration says today.
ClosedPeriodsFollow ==
  Quiet =>
    \A p \in Date :
      Closed(p) => periods[p].lines[p] + Adjusted(p, p) = Cost(p)

\* What is paid for the entry of p in the runs of closed periods, and in the
\* adjustments that wait for one.
Paid(e) ==
  SumFunction([p \in {q \in Date : Closed(q)} |-> periods[p].lines[e]])
  + SumFunction(
      [os \in {os \in Date \X MaybeDate : os[2] = None \/ ~Closed(os[2])} |->
         due[os[1]][e][os[2]]])

\* Once no request is in flight, an entry of a closed period is paid what the
\* configuration says today, once.
EntriesPaidOnce == Quiet => \A e \in Date : Closed(e) => Paid(e) = Cost(e)
=============================================================================
