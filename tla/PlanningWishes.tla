---------------------------- MODULE PlanningWishes ----------------------------
(***************************************************************************)
(* Wish rounds: ShiftPlanningWishesService.  A planner opens a round on a   *)
(* draft, employees wish for its unassigned future items, the planner       *)
(* closes the round and assigns.  Every handler reads, then writes by row   *)
(* id, READ COMMITTED and without a lock: what it read may have changed.    *)
(***************************************************************************)
EXTENDS PlanningStore

Item(d, s) == drafts[d].items[s]
IsFuture(s) == s.from > now

\* The draft item a session read: a recalculation gives its slot another row.
SessionItemExists(self) ==
  LET a == sess[self] IN
  drafts[a.draft].gen = a.gen /\ Item(a.draft, a.slot).status # "absent"

BeginOnItem(self, op, d, s, u, flag) ==
  /\ Item(d, s).status # "absent"
  /\ Begin(self, [Idle EXCEPT !.op = op, !.draft = d, !.gen = drafts[d].gen,
                              !.slot = s, !.user = u, !.flag = flag])
  /\ UNCHANGED <<tables, now>>

\* Writing an item dooms a publication that is about to publish it.
Publishing(d, slots) ==
  {p \in Session : At(p, "publishDraft") /\ sess[p].draft = d
                                         /\ sess[p].slots \cap slots # {}}

\* Writing by row id: without the row the request fails.
CommitOnItem(self, row, hit) ==
  LET a == sess[self] IN
  \/ /\ SessionItemExists(self)
     /\ drafts' = [drafts EXCEPT ![a.draft].items[a.slot] = row]
     /\ FinishDooming(self, hit)
     /\ UNCHANGED <<workspace, shifts, onLeave, now>>
  \/ ~SessionItemExists(self) /\ Refuse(self)

\* ensureActiveQualifiedUser; every user is an active member.
ActiveQualifiedUser(u) == u \in Qualified

\* assertRoundIsOpen; a deadline after MaxTime stands for none.
RoundIsOpen(d) == drafts[d].round = "OPEN" /\ now < drafts[d].closesAt

-----------------------------------------------------------------------------
(* The planner *)

\* openRound, also to reopen one: enable is enableAllUnassigned.
OpenRoundRead(self, d, enable, closesAt) ==
  /\ Editable(d)
  /\ closesAt > now
  /\ Begin(self, [Idle EXCEPT !.op = "openRound", !.draft = d, !.flag = enable,
                              !.closesAt = closesAt,
                              !.slots = {s \in Slot : IsFuture(s)}])
  /\ UNCHANGED <<tables, now>>

\* Every unassigned future item can be wished for, and no other.
Enabled(d, s, future) ==
  IF Item(d, s).status = "absent" THEN Item(d, s)
  ELSE [Item(d, s) EXCEPT !.wish = Item(d, s).user = None /\ s \in future]

OpenRoundCommit(self) ==
  LET a == sess[self] d == a.draft IN
  /\ At(self, "openRound")
  /\ \/ /\ drafts[d].status # "deleted"
        /\ drafts' = [drafts EXCEPT ![d] =
             [drafts[d] EXCEPT !.round = "OPEN", !.closesAt = a.closesAt,
                       !.items = IF a.flag THEN [s \in Slot |-> Enabled(d, s, a.slots)]
                                 ELSE drafts[d].items]]
        /\ FinishDooming(self, IF a.flag THEN Publishing(d, Slot) ELSE {})
        /\ UNCHANGED <<workspace, shifts, onLeave, now>>
     \/ drafts[d].status = "deleted" /\ Refuse(self)

CloseRoundRead(self, d) ==
  /\ Editable(d)
  /\ drafts[d].round # "none"
  /\ Begin(self, [Idle EXCEPT !.op = "closeRound", !.draft = d])
  /\ UNCHANGED <<tables, now>>

CloseRoundCommit(self) ==
  LET d == sess[self].draft IN
  /\ At(self, "closeRound")
  /\ \/ /\ drafts[d].round # "none"
        /\ drafts' = [drafts EXCEPT ![d].round = "CLOSED"]
        /\ Finish(self)
        /\ UNCHANGED <<workspace, shifts, onLeave, now>>
     \/ drafts[d].round = "none" /\ Refuse(self)

SetItemWishEnabledRead(self, d, s, enabled) ==
  /\ Editable(d)
  /\ enabled => Item(d, s).user = None /\ IsFuture(s)
  /\ BeginOnItem(self, "setItemWishEnabled", d, s, None, enabled)

SetItemWishEnabledCommit(self) ==
  LET a == sess[self] IN
  /\ At(self, "setItemWishEnabled")
  /\ CommitOnItem(self, [Item(a.draft, a.slot) EXCEPT !.wish = a.flag],
                  Publishing(a.draft, {a.slot}))

\* Mutant of AssignWishRead: an open round is no obstacle, and a withdrawn
\* wish counts as one.
AssignAnyWishRead(self, d, s, u) ==
  /\ Editable(d)
  /\ IsFuture(s)
  /\ drafts[d].round = "CLOSED"
  /\ Item(d, s).wishes[u] # "none"
  /\ ActiveQualifiedUser(u)
  /\ BeginOnItem(self, "assignWish", d, s, u, FALSE)

\* assignWish does not ask whether the item already has an assignee.
AssignWishRead(self, d, s, u) ==
  /\ Editable(d)
  /\ IsFuture(s)
  /\ drafts[d].round = "CLOSED"
  /\ Item(d, s).wishes[u] = "active"
  /\ ActiveQualifiedUser(u)
  /\ BeginOnItem(self, "assignWish", d, s, u, FALSE)

AssignWishCommit(self) ==
  LET a == sess[self] IN
  /\ At(self, "assignWish")
  /\ CommitOnItem(self,
       [Item(a.draft, a.slot) EXCEPT !.user = a.user, !.wish = FALSE],
       Publishing(a.draft, {a.slot}))

-----------------------------------------------------------------------------
(* The employee.  A wish is a row of its own: it dooms no publication. *)

CreateWishRead(self, d, s, u) ==
  /\ Editable(d)
  /\ Item(d, s).wish
  /\ Item(d, s).user = None
  /\ IsFuture(s)
  /\ RoundIsOpen(d)
  /\ ActiveQualifiedUser(u)
  /\ BeginOnItem(self, "createWish", d, s, u, FALSE)

CreateWishCommit(self) ==
  LET a == sess[self] IN
  /\ At(self, "createWish")
  /\ CommitOnItem(self,
       [Item(a.draft, a.slot) EXCEPT !.wishes[a.user] = "active"], {})

WithdrawWishRead(self, d, s, u) ==
  /\ Editable(d)
  /\ Item(d, s).wish
  /\ RoundIsOpen(d)
  /\ BeginOnItem(self, "withdrawWish", d, s, u, FALSE)

\* Mutant of WithdrawWishCommit: a status the schema does not have.
WithdrawForGood(self) ==
  LET a == sess[self] IN
  /\ At(self, "withdrawWish")
  /\ IF SessionItemExists(self) /\ Item(a.draft, a.slot).wishes[a.user] = "active"
     THEN CommitOnItem(self,
            [Item(a.draft, a.slot) EXCEPT !.wishes[a.user] = "deleted"], {})
     ELSE Refuse(self)

\* updateMany touches an active wish only, and finding none is refused.
WithdrawWishCommit(self) ==
  LET a == sess[self] IN
  /\ At(self, "withdrawWish")
  /\ IF SessionItemExists(self) /\ Item(a.draft, a.slot).wishes[a.user] = "active"
     THEN CommitOnItem(self,
            [Item(a.draft, a.slot) EXCEPT !.wishes[a.user] = "withdrawn"], {})
     ELSE Refuse(self)

-----------------------------------------------------------------------------
WishRequest(self) ==
  \/ \E d \in DraftId, enable \in BOOLEAN, t \in 1 .. MaxTime + 1 :
       OpenRoundRead(self, d, enable, t)
  \/ \E d \in DraftId : CloseRoundRead(self, d)
  \/ \E d \in DraftId, s \in Slot, enabled \in BOOLEAN :
       SetItemWishEnabledRead(self, d, s, enabled)
  \/ \E d \in DraftId, s \in Slot, u \in User :
       \/ AssignWishRead(self, d, s, u)
       \/ CreateWishRead(self, d, s, u)
       \/ WithdrawWishRead(self, d, s, u)

WishCommit(self) ==
  \/ OpenRoundCommit(self)
  \/ CloseRoundCommit(self)
  \/ SetItemWishEnabledCommit(self)
  \/ AssignWishCommit(self)
  \/ CreateWishCommit(self)
  \/ WithdrawWishCommit(self)
=============================================================================
