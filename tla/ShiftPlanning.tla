----------------------------- MODULE ShiftPlanning -----------------------------
(***************************************************************************)
(* The planning of a month: drafts, wish rounds, publication, replacement   *)
(* and removal, run by concurrent requests.                                 *)
(***************************************************************************)
EXTENDS PlanningDrafts, PlanningWishes, PlannedShifts

Request(self) == DraftRequest(self) \/ WishRequest(self) \/ ShiftRequest(self)
Commit(self) == DraftCommit(self) \/ WishCommit(self) \/ ShiftCommit(self)
Edit == WorkspaceEdit \/ ShiftEdit

Next ==
  \/ \E self \in Session : Request(self) \/ DraftStep(self) \/ Commit(self) \/ Crash(self)
  \/ Edit
  \/ Tick

Spec == PlanningInit /\ [][Next]_vars

-----------------------------------------------------------------------------
(* Safety *)

PlannedShift(k) == Live(k) /\ shifts[k].planned

\* However publications and replacements overlap, no item of the plan becomes
\* two shifts: no two planned shifts are for the same slot.
OneShiftPerDemand ==
  \A k, l \in ShiftId :
    PlannedShift(k) /\ PlannedShift(l) /\ shifts[k].slot = shifts[l].slot => k = l

\* Nor does the plan book an employee for two overlapping shifts, whether one
\* transaction creates them or several do.
PlanBooksOnce ==
  \A k, l \in ShiftId :
    /\ PlannedShift(k) /\ PlannedShift(l) /\ k # l
    /\ shifts[k].user # None /\ shifts[k].user = shifts[l].user
    => ~Overlap(shifts[k].slot, shifts[l].slot)

\* An open trade or staffing request is about a shift that exists, also after
\* a bulk replacement or removal.
OpenOfferHasShift ==
  \A k \in ShiftId : shifts[k].link = "open" => Live(k)

\* A named draft's day snapshot and its items agree: opening the draft and
\* recalculating it asks for the same shifts.
DaysMatchItems ==
  \A d \in DraftId : drafts[d].named => ItemSlots(d) = drafts[d].days

\* The plan gives nobody a shift during approved leave, which
\* checkShiftConflicts refuses.  Replacement does not call it.
PlanRespectsLeave ==
  \A k \in ShiftId :
    PlannedShift(k) =>
      ~\E l \in onLeave : l[1] = shifts[k].user /\ Overlap(l[2], shifts[k].slot)

-----------------------------------------------------------------------------
(* What no step may do *)

\* A shift somebody clocked in on is never removed or replaced.
WorkedShiftsStay ==
  [][\A k \in ShiftId : Live(k) /\ shifts[k].worked => Live(k)']_vars

\* Once an item has become a shift, the item stays as it was published.
PublishedItemsFrozen ==
  [][\A d \in DraftId, s \in Slot :
       drafts[d].items[s].status = "PUBLISHED" =>
         /\ drafts'[d].items[s].status = "PUBLISHED"
         /\ drafts'[d].items[s].user = drafts[d].items[s].user]_vars

\* A draft with a wish round is not recalculated: the items employees wish for
\* are not exchanged, and their wishes lost with them.
RoundFreezesItems ==
  [][\A d \in DraftId :
       drafts[d].round # "none" /\ drafts'[d].status # "deleted"
         => drafts'[d].gen = drafts[d].gen]_vars

\* While a draft keeps its items, an item gets an assignee only from the
\* employees who wish for it at that moment.
AssignsAWisher ==
  [][\A d \in DraftId, s \in Slot :
       LET old == drafts[d].items[s]
           new == drafts'[d].items[s]
       IN /\ old.status # "absent" /\ new.status # "absent"
          /\ drafts'[d].gen = drafts[d].gen
          /\ new.user # old.user
          => new.user \in Qualified /\ old.wishes[new.user] = "active"]_vars
=============================================================================
