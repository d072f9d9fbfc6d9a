----------------------------- MODULE PlannedShifts -----------------------------
(***************************************************************************)
(* From drafts to shifts: publishDraft, replacePlanningShifts and           *)
(* removePlanningShifts, and the single-shift handlers they meet (modelled  *)
(* in full by ShiftAssignment, here only as far as planning can tell).      *)
(***************************************************************************)
EXTENDS PlanningStore

Assigned(d, s) == drafts[d].items[s].user

\* The assignees a transaction reads in its snapshot, and gives the shifts to.
Assignees(d, slots) == [s \in Slot |-> IF s \in slots THEN Assigned(d, s) ELSE None]

\* The shifts of these slots are inserted by start time, under new ids;
\* when the table is full (bound) an INSERT fails.
Before(s, t) == s.from < t.from \/ (s.from = t.from /\ s.to < t.to)
InsertOrders(slots) ==
  {id \in [slots -> UnusedShiftIds] :
     /\ \A s, t \in slots : Before(s, t) => id[s] < id[t]
     /\ \A s \in slots, k \in UnusedShiftIds :
          k < id[s] => \E t \in slots : id[t] = k}
TableFull(slots) == Cardinality(slots) > Cardinality(UnusedShiftIds)

\* Mutant of Replaced: the links of the old shifts stay as they are.
ReplacedKeepingLinks(old, id, users) ==
  [k \in ShiftId |->
     IF k \in old THEN [shifts[k] EXCEPT !.state = "deleted"]
     ELSE IF \E s \in DOMAIN id : id[s] = k
     THEN LET s == CHOOSE s \in DOMAIN id : id[s] = k
          IN NewShift(s, users[s], TRUE)
     ELSE shifts[k]]

\* The table without the shifts in old and with a planned one per slot.
Replaced(old, id, users) ==
  [k \in ShiftId |->
     IF k \in old
     THEN [shifts[k] EXCEPT !.state = "deleted",
                            !.link = IF @ = "open" THEN "closed" ELSE @]
     ELSE IF \E s \in DOMAIN id : id[s] = k
     THEN LET s == CHOOSE s \in DOMAIN id : id[s] = k
          IN NewShift(s, users[s], TRUE)
     ELSE shifts[k]]

\* The items' assignees: qualified, and not asked for twice at the same time.
AssigneesQualified(d, slots) ==
  \A s \in slots : Assigned(d, s) \in Qualified \cup {None}
AssigneesFree(d, slots) ==
  \A s, t \in slots :
    Assigned(d, s) # None /\ Assigned(d, s) = Assigned(d, t) /\ Overlap(s, t) => s = t

OtherTransactions(self) == {p \in Session \ {self} : InTransaction(p)}

-----------------------------------------------------------------------------
(* publishDraft *)

\* isPastPublicationDraftItem goes by the calendar day.
PublishableSlots(d) == {s \in ItemSlots(d) : Day(s.from) >= Day(now)}

\* The shifts the safety check locks (FOR SHARE): all that overlap the span
\* of the items.
ShiftsInSpan(slots) ==
  {k \in LiveShifts :
     /\ \E s \in slots : shifts[k].slot.from < s.to
     /\ \E s \in slots : s.from < shifts[k].slot.to}

\* One existing shift of the same period blocks the whole draft.
PublishRead(self, d) ==
  LET publishable == PublishableSlots(d) IN
  /\ Editable(d)
  /\ ~Locked(d)
  /\ publishable # {}
  /\ \A k \in LiveShifts : shifts[k].slot \notin publishable
  /\ AssigneesQualified(d, publishable)
  /\ AssigneesFree(d, publishable)
  /\ \A s \in publishable : Assigned(d, s) # None => ~Conflicts(Assigned(d, s), s)
  /\ Begin(self, [Idle EXCEPT !.op = "publishDraft", !.draft = d,
                              !.slots = publishable,
                              !.users = Assignees(d, publishable),
                              !.rows = ShiftsInSpan(ItemSlots(d))])
  /\ UNCHANGED <<tables, now>>

\* The draft with the items of these slots published.
Published(d, slots) ==
  [drafts[d] EXCEPT !.status = "PUBLISHED",
     !.items = [s \in Slot |-> IF s \in slots
                              THEN [drafts[d].items[s] EXCEPT !.status = "PUBLISHED"]
                              ELSE drafts[d].items[s]]]

\* Mutant of PublishCommit: a READ COMMITTED transaction.
PublishReadCommitted(self) ==
  LET a == sess[self] IN
  /\ At(self, "publishDraft")
  /\ \/ /\ \E id \in InsertOrders(a.slots) : shifts' = Replaced({}, id, a.users)
        /\ drafts' = [drafts EXCEPT ![a.draft] = Published(a.draft, a.slots)]
        /\ Finish(self)
        /\ UNCHANGED <<workspace, onLeave, now>>
     \/ TableFull(a.slots) /\ Refuse(self)

PublishCommit(self) ==
  LET a == sess[self] IN
  /\ At(self, "publishDraft")
  /\ \/ /\ ~a.doomed
        /\ \E id \in InsertOrders(a.slots) : shifts' = Replaced({}, id, a.users)
        /\ drafts' = [drafts EXCEPT ![a.draft] = Published(a.draft, a.slots)]
        /\ FinishDooming(self, OtherTransactions(self))
        /\ UNCHANGED <<workspace, onLeave, now>>
     \/ (a.doomed \/ TableFull(a.slots)) /\ Refuse(self)

-----------------------------------------------------------------------------
(* replacePlanningShifts *)

PlannedIn(r) == {k \in LiveShifts : shifts[k].planned /\ Within(shifts[k].slot, r)}

\* markProposedItemsSatisfiedByRemainingShifts: a shift that stays already
\* is what the item asks for.
Satisfied(d, s, remaining) ==
  \E k \in remaining : shifts[k].slot = s /\ shifts[k].user = Assigned(d, s)

\* Mutant of SafeBeside: only the same period is a conflict.
OtherPeriods(d, s, remaining) ==
  /\ Assigned(d, s) \in Qualified \cup {None}
  /\ \A k \in remaining : shifts[k].slot # s

\* Unlike publication it asks neither for approved absences nor for shifts
\* outside this plan's cinema.
SafeBeside(d, s, remaining) ==
  /\ Assigned(d, s) \in Qualified \cup {None}
  /\ \A k \in remaining :
       /\ shifts[k].slot # s
       /\ Assigned(d, s) # None /\ shifts[k].user = Assigned(d, s)
            => ~Overlap(shifts[k].slot, s)

ReplaceRead(self, d, r) ==
  LET old == {k \in PlannedIn(r) : shifts[k].slot.from > now}
      remaining == LiveShifts \ old
      proposed == {s \in ItemSlots(d) : Within(s, r) /\ s.from > now}
      created == {s \in proposed : ~Satisfied(d, s, remaining)}
  IN
  /\ Editable(d)
  /\ ~Locked(d)
  /\ old # {}
  /\ \A k \in old : ~shifts[k].worked
  /\ \A s \in created : SafeBeside(d, s, remaining)
  /\ AssigneesFree(d, proposed)
  /\ Begin(self, [Idle EXCEPT !.op = "replacePlanningShifts", !.draft = d,
                              !.slots = created,
                              !.users = Assignees(d, created), !.rows = old])
  /\ UNCHANGED <<tables, now>>

\* Mutant of ReplaceCommit: a READ COMMITTED transaction.
ReplaceReadCommitted(self) ==
  LET a == sess[self] IN
  /\ At(self, "replacePlanningShifts")
  /\ \/ /\ \E id \in InsertOrders(a.slots) :
             shifts' = Replaced(a.rows, id, a.users)
        /\ Finish(self)
        /\ UNCHANGED <<workspace, drafts, onLeave, now>>
     \/ TableFull(a.slots) /\ Refuse(self)

\* The old shifts go with their open trades and staffing requests closed
\* (resolveOpenShiftLinkedActions); the draft stays open.
ReplaceCommit(self) ==
  LET a == sess[self] IN
  /\ At(self, "replacePlanningShifts")
  /\ \/ /\ ~a.doomed
        /\ \E id \in InsertOrders(a.slots) :
             shifts' = Replaced(a.rows, id, a.users)
        /\ FinishDooming(self, OtherTransactions(self))
        /\ UNCHANGED <<workspace, drafts, onLeave, now>>
     \/ (a.doomed \/ TableFull(a.slots)) /\ Refuse(self)

-----------------------------------------------------------------------------
(* removePlanningShifts: read committed.  The counts that decide come from   *)
(* the snapshot of the statement, which then waits for the rows' locks.      *)

RemoveRead(self, r) ==
  LET rows == PlannedIn(r) IN
  /\ rows # {}
  /\ \A k \in rows : /\ shifts[k].slot.from > now
                     /\ ~shifts[k].worked
                     /\ shifts[k].link = "none"
  /\ Begin(self, [Idle EXCEPT !.op = "removePlanningShifts", !.rows = rows])
  /\ UNCHANGED <<tables, now>>

RemoveCommit(self) ==
  LET rows == {k \in sess[self].rows : Live(k)} IN
  /\ At(self, "removePlanningShifts")
  /\ shifts' = [k \in ShiftId |->
       IF k \in rows THEN [shifts[k] EXCEPT !.state = "deleted"] ELSE shifts[k]]
  /\ FinishDooming(self, Touching(rows))
  /\ UNCHANGED <<workspace, drafts, onLeave, now>>

-----------------------------------------------------------------------------
(* Single shifts *)

\* A row that refers to the shift is inserted; without the shift the foreign
\* key makes the INSERT fail.  A serializable deletion does not see the new
\* row in its snapshot, and is doomed.
ReferToShift(self, row) ==
  LET k == CHOOSE k \in sess[self].rows : TRUE IN
  \/ /\ Live(k)
     /\ shifts' = [shifts EXCEPT ![k] = row[k]]
     /\ FinishDooming(self, {p \in Session : At(p, "replacePlanningShifts")
                                             /\ k \in sess[p].rows})
     /\ UNCHANGED <<workspace, drafts, onLeave, now>>
  \/ ~Live(k) /\ Refuse(self)

ClockInRead(self, k) ==
  /\ Live(k)
  /\ shifts[k].user # None
  /\ Day(shifts[k].slot.from) = Day(now)
  /\ ~shifts[k].worked
  /\ Begin(self, [Idle EXCEPT !.op = "clockIn", !.rows = {k}])
  /\ UNCHANGED <<tables, now>>

ClockInCommit(self) ==
  /\ At(self, "clockIn")
  /\ ReferToShift(self, [k \in ShiftId |-> [shifts[k] EXCEPT !.worked = TRUE]])

OfferRead(self, k) ==
  /\ Live(k)
  /\ shifts[k].user # None
  /\ shifts[k].slot.from > now
  /\ ~shifts[k].worked
  /\ shifts[k].link # "open"
  /\ Begin(self, [Idle EXCEPT !.op = "offer", !.rows = {k}])
  /\ UNCHANGED <<tables, now>>

OfferCommit(self) ==
  /\ At(self, "offer")
  /\ ReferToShift(self, [k \in ShiftId |-> [shifts[k] EXCEPT !.link = "open"]])

\* The trade or request is withdrawn.
CloseOffer(k) ==
  /\ "closeOffer" \in Ops
  /\ shifts[k].link = "open"
  /\ shifts' = [shifts EXCEPT ![k].link = "closed"]
  /\ UNCHANGED <<workspace, drafts, onLeave, now, sess>>

\* createShiftFlow
AddShift(u, s) ==
  /\ "createShift" \in Ops
  /\ u \in Qualified
  /\ ~Conflicts(u, s)
  /\ \E k \in ShiftId : /\ First(k, UnusedShiftIds)
                        /\ shifts' = [shifts EXCEPT ![k] = NewShift(s, u, FALSE)]
  /\ UNCHANGED <<workspace, drafts, onLeave, now, sess>>

\* approveLeaveRequest
ApproveLeave(u, s) ==
  /\ "approveLeave" \in Ops
  /\ ~ShiftConflict(u, s)
  /\ onLeave' = onLeave \cup {<<u, s>>}
  /\ UNCHANGED <<workspace, drafts, shifts, now, sess>>

-----------------------------------------------------------------------------
ShiftRequest(self) ==
  \/ \E d \in DraftId :
       \/ PublishRead(self, d)
       \/ \E r \in Range : ReplaceRead(self, d, r)
  \/ \E r \in Range : RemoveRead(self, r)
  \/ \E k \in ShiftId : ClockInRead(self, k) \/ OfferRead(self, k)

ShiftCommit(self) ==
  \/ PublishCommit(self)
  \/ ReplaceCommit(self)
  \/ RemoveCommit(self)
  \/ ClockInCommit(self)
  \/ OfferCommit(self)

ShiftEdit ==
  \/ \E k \in ShiftId : CloseOffer(k)
  \/ \E u \in User, s \in Slot : AddShift(u, s) \/ ApproveLeave(u, s)
=============================================================================
