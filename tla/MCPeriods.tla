------------------------------- MODULE MCPeriods -------------------------------
(***************************************************************************)
(* Periods are locked, reopened and exported around the entries of one      *)
(* employee, in two scenarios.  A behaviour follows one, and the row of an  *)
(* entry voided before it starts tells which.                               *)
(***************************************************************************)
EXTENDS MCPayroll

AllOps == FreezeRun \cup SettleRun

Voided == [UnusedEntry EXCEPT !.status = "VOIDED", !.minutes = 1, !.ref = 1]

\* One entry is followed; the other is the voided one.
Settling == entries[2].status = "VOIDED"
Registers(self) == sess[self].op = "createEntry"

SendRequest(self) ==
  \* Requests race with the lock of a period; entries last at most a minute.
  \/ /\ ~Settling
     /\ EntryRequest(self) \/ PeriodRequest(self)
     /\ sess'[self].op \in FreezeRun
     /\ sess'[self].minutes <= 1
     /\ Registers(self)' =>
          1 \in UnusedEntryIds /\ \A p \in Session : ~Registers(p)
  \* One request at a time, but exports and adjustments as well; entries stay
  \* in their period.
  \/ /\ Settling
     /\ \A p \in Session : sess[p] = Idle
     /\ EntryRequest(self) \/ PeriodRequest(self)
     /\ sess'[self].op \in SettleRun
     /\ sess'[self].entry # 2
     /\ Registers(self)' => 1 \in UnusedEntryIds
     /\ sess'[self].op \in EditOp => sess'[self].target = sess'[self].period

MCInit ==
  /\ entries \in {[e \in EntryId |-> UnusedEntry],
                  [e \in EntryId |-> IF e = 2 THEN Voided ELSE UnusedEntry]}
  /\ periods = [p \in Period |-> NoPeriodRow]
  /\ adjustments = [a \in AdjustmentId |-> UnusedAdjustment]
  /\ current = 1
  /\ held = [s \in Session |-> {}]
  /\ sess = [s \in Session |-> Idle]

MCNext ==
  \/ \E self \in Session :
       SendRequest(self) \/ EntryStep(self) \/ PeriodStep(self) \/ Crash(self)
  \/ NextPeriodBegins

MCSpec == MCInit /\ [][MCNext]_vars
=============================================================================
