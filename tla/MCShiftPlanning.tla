---------------------------- MODULE MCShiftPlanning ----------------------------
(***************************************************************************)
(* Small instances of ShiftPlanning.  A behaviour follows one scenario: the *)
(* operations its clients send, how many drafts there are and how far the   *)
(* clock runs.  Days have two hours.                                         *)
(***************************************************************************)
EXTENDS ShiftPlanning, TLC

CONSTANTS
  Scenario,  \* the scenarios of the instance (bound)
  Race       \* pairs of requests that never overlap in it (bound)

VARIABLE scenario

\* Evening is today, the others tomorrow.  Evening and Night ask for the same
\* employee at the same time, Late is nobody's yet.
Evening == [from |-> 1, to |-> 3]
Night == [from |-> 2, to |-> 3]
Late == [from |-> 3, to |-> 4]
ThreeSlots == {Evening, Night, Late}
LateIsOpen == [s \in Slot |-> IF s = Late THEN None ELSE 1]
OneEmployee == [s \in Slot |-> 1]

Windows == {[from |-> 0, to |-> 4], [from |-> 2, to |-> 4]}

AllOps == OpName \cup {"upsertMonthPlanDay", "createNamedDraft",
                       "openNamedDraftWorkspace", "closeOffer", "createShift",
                       "approveLeave"}

\* Drafts of different plans are published, replaced and removed over each
\* other, while employees clock in and offer their shifts.
ShiftsScenario ==
  [ops |-> {"publishDraft", "replacePlanningShifts", "removePlanningShifts",
            "clockIn", "offer"},
   edits |-> {}, slots |-> {},
   drafts |-> <<{Evening, Late}, {Night, Late}>>, until |-> 2, busy |-> 3]
\* Shifts are created and leave is approved meanwhile.
EditsScenario ==
  [ops |-> {"publishDraft", "replacePlanningShifts"},
   edits |-> {"shift", "leave"}, slots |-> {},
   drafts |-> <<{Evening}, {Night}>>, until |-> 1, busy |-> 3]
\* Planners share the month plan and edit two named drafts of it.
DraftsScenario ==
  [ops |-> {"saveNamedDraft", "updateNamedDraft", "copyNamedDraft", "deleteDraft"},
   edits |-> {"drafts"}, slots |-> {Night, Late},
   drafts |-> <<>>, until |-> 0, busy |-> 3]
\* Employees wish for the items of one draft, which may be deleted.
WishesScenario ==
  [ops |-> {"openRound", "closeRound", "setItemWishEnabled",
            "createWish", "withdrawWish", "assignWish", "deleteDraft"},
   edits |-> {}, slots |-> {}, drafts |-> <<{Night, Late}>>, until |-> 1, busy |-> 2]
\* A wish round meets recalculation, publication and deletion.
RoundScenario ==
  [ops |-> {"prepareMonth", "updateNamedDraft", "deleteDraft", "openRound",
            "publishDraft"},
   edits |-> {}, slots |-> {Late}, drafts |-> <<{Evening, Late}>>, until |-> 1, busy |-> 2]

\* One request at a time, and leave approved in between.
LeaveScenario ==
  [ops |-> {"publishDraft", "replacePlanningShifts"},
   edits |-> {"leave"}, slots |-> {},
   drafts |-> <<{Night}, {Late}>>, until |-> 0, busy |-> 1]

AllScenarios == {ShiftsScenario, EditsScenario, DraftsScenario, WishesScenario,
                 RoundScenario}
OnlyLeave == {LeaveScenario}

\* The handlers do not serialise these requests and what the properties say
\* does not survive it.
KnownRaces ==
  {{"removePlanningShifts", "clockIn"}, {"removePlanningShifts", "offer"},
   {"publishDraft", "assignWish"}, {"publishDraft", "deleteDraft"},
   {"openRound", "updateNamedDraft"}, {"withdrawWish", "assignWish"},
   {"copyNamedDraft", "updateNamedDraft"}, {"copyNamedDraft", "deleteDraft"}}

BusyWith(ops) == \E p, q \in Session : p # q /\ {sess[p].op, sess[q].op} = ops

SavingPlan ==
  \E p \in Session : sess[p].op \in {"saveNamedDraft", "updateNamedDraft"}

Busy == Cardinality({p \in Session : sess[p] # Idle})

SendRequest(self) ==
  /\ Busy < scenario.busy
  /\ Request(self)
  /\ sess'[self].op \in scenario.ops
  /\ \A r \in Race : ~BusyWith(r)'

\* The plan is not edited while a draft of it is saved.
PlanEdit ==
  /\ "drafts" \in scenario.edits
  /\ ~SavingPlan
  /\ WorkspaceEdit
  /\ workspace' \subseteq scenario.slots

\* An edit of shifts or leave counts as a request in flight.
OtherEdit ==
  /\ Busy < scenario.busy
  /\ ShiftEdit
  /\ LiveShifts' # LiveShifts => "shift" \in scenario.edits
  /\ onLeave' # onLeave => "leave" \in scenario.edits

\* The drafts a scenario starts with were saved by saveNamedDraft.
MCInit ==
  /\ scenario \in Scenario
  /\ workspace = scenario.slots
  /\ drafts = [d \in DraftId |->
       IF d \in DOMAIN scenario.drafts
       THEN NamedDraft(scenario.drafts[d], Generate(scenario.drafts[d]))
       ELSE UnusedDraft]
  /\ shifts = [k \in ShiftId |-> UnusedShift]
  /\ onLeave = {}
  /\ now = 0
  /\ sess = [p \in Session |-> Idle]
MCNext ==
  /\ UNCHANGED scenario
  /\ \/ \E self \in Session : \/ SendRequest(self) \/ DraftStep(self)
                               \/ Commit(self) \/ Crash(self)
     \/ PlanEdit
     \/ OtherEdit
     \/ now < scenario.until /\ Tick
MCSpec == MCInit /\ [][MCNext]_<<vars, scenario>>

SessionSymmetry == Permutations(Session)
=============================================================================
