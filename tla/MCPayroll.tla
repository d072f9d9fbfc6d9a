------------------------------- MODULE MCPayroll -------------------------------
(***************************************************************************)
(* Small instances of Payroll: operations and symmetry.                     *)
(***************************************************************************)
EXTENDS Payroll, TLC

StatusOps == {"approve", "unapprove", "reject", "void"}
PeriodOps == {"lock", "unlock", "export"}

FreezeRun ==
  {"createEntry", "approve", "unapprove", "void", "editAdmin", "move",
   "lock", "unlock"}
LateRun == {"createEntry", "approve", "unapprove", "void", "lock", "export"}
SettleRun ==
  {"createEntry", "clockOut", "editOwn"} \cup StatusOps \cup PeriodOps
ReopenRun == {"createEntry", "approve"} \cup PeriodOps

SessionSymmetry == Permutations(Session)
=============================================================================
