---------------------------- MODULE PlanningProofs ----------------------------
(***************************************************************************)
(* The plan of a month has one shift for each demand and books nobody twice, *)
(* for any number of employees, periods, drafts, shifts and concurrent       *)
(* requests, whatever operations they are and whatever edits of the month    *)
(* plan, of shifts and of leave come in between.                              *)
(* What else the planning run checks holds as long as the pairs of requests   *)
(* that are known to race do not overlap.                                      *)
(***************************************************************************)
EXTENDS ShiftPlanning, TLAPS

-----------------------------------------------------------------------------
(* Neither is inductive.  A publication or a replacement looks at the shifts  *)
(* in its snapshot and inserts later.  As long as it is not doomed, what it   *)
(* has found holds: nothing but another transaction of its kind adds to the   *)
(* plan, and that one dooms it.                                                *)

\* The shifts a transaction deletes before it inserts.
Gone(a) == IF a.op = "replacePlanningShifts" THEN a.rows ELSE {}

\* Two shifts the plan may have at the same time.
Compatible(s, u, t, v) == s # t /\ (u # None /\ u = v => ~Overlap(s, t))

Deciding(a) ==
  a.op \in Serializable /\ ~a.doomed =>
    /\ \A k \in ShiftId \ Gone(a), s \in a.slots :
         PlannedShift(k) => Compatible(shifts[k].slot, shifts[k].user, s, a.users[s])
    /\ \A s, t \in a.slots :
         a.users[s] # None /\ a.users[s] = a.users[t] /\ Overlap(s, t) => s = t

PlanInv ==
  /\ PlanningTypeOK
  /\ OneShiftPerDemand
  /\ PlanBooksOnce
  /\ \A p \in Session : Deciding(sess[p])

-----------------------------------------------------------------------------
(* Sessions *)

\* A request that has not begun has nothing.
LEMMA IdleTyped == Idle \in SessionState /\ Idle.op \notin Serializable
<1>1. 0 \in 0 .. MaxGen /\ 0 \in 0 .. MaxTime + 1
  BY PlanningAssumption
<1>2. [s \in Slot |-> None] \in [Slot -> MaybeUser]
  BY DEF MaybeUser
<1> QED BY <1>1, <1>2 DEF Idle, SessionState, MaybeUser, Serializable

\* What a request starts with is its own.
LEMMA BeginWork ==
  ASSUME PlanInv, NEW self \in Session, NEW a \in SessionState, Begin(self, a), Deciding(a)
  PROVE  sess' \in [Session -> SessionState] /\ \A p \in Session : Deciding(sess'[p])
BY DEF PlanInv, PlanningTypeOK, Begin

\* A request that goes on, except that it may be doomed now.
GoesOn(p) ==
  /\ sess'[p].op = sess[p].op /\ sess'[p].draft = sess[p].draft /\ sess'[p].gen = sess[p].gen
  /\ sess'[p].slot = sess[p].slot /\ sess'[p].user = sess[p].user
  /\ sess'[p].slots = sess[p].slots /\ sess'[p].users = sess[p].users
  /\ sess'[p].rows = sess[p].rows /\ sess'[p].flag = sess[p].flag
  /\ sess'[p].copied = sess[p].copied
  /\ sess[p].doomed => sess'[p].doomed

\* Ending a request dooms others and changes nothing else of them.
LEMMA FinishWork ==
  ASSUME PlanInv, NEW self \in Session, NEW hit, FinishDooming(self, hit)
  PROVE  /\ sess' \in [Session -> SessionState]
         /\ sess'[self] = Idle
         /\ \A p \in Session \ {self} : GoesOn(p) /\ (p \in hit => sess'[p].doomed)
         /\ \A p \in Session : Deciding(sess'[p])
<1>1. ASSUME NEW p \in Session \ {self}
      PROVE  /\ sess'[p] \in SessionState
             /\ GoesOn(p)
             /\ p \in hit => sess'[p].doomed
  <2> PICK a : a = sess[p]
    OBVIOUS
  <2> PICK doomed \in BOOLEAN : doomed = (a.doomed \/ p \in hit)
    OBVIOUS
  <2>1. a \in SessionState
    BY DEF PlanInv, PlanningTypeOK
  <2>2. sess'[p] = [a EXCEPT !.doomed = a.doomed \/ p \in hit]
    BY DEF FinishDooming
  <2>3. sess'[p] = [a EXCEPT !.doomed = doomed]
    BY <2>2, Zenon
  <2>4. /\ sess'[p] \in SessionState
        /\ sess'[p].op = a.op /\ sess'[p].draft = a.draft /\ sess'[p].gen = a.gen
        /\ sess'[p].slot = a.slot /\ sess'[p].user = a.user
        /\ sess'[p].slots = a.slots /\ sess'[p].users = a.users
        /\ sess'[p].rows = a.rows /\ sess'[p].flag = a.flag
        /\ sess'[p].copied = a.copied /\ sess'[p].doomed = doomed
    BY <2>1, <2>3 DEF SessionState
  <2> QED BY <2>4, Zenon DEF GoesOn
<1>2. sess'[self] = Idle
  BY DEF FinishDooming
<1>3. sess' \in [Session -> SessionState]
  <2>1. sess' = [p \in Session |-> sess'[p]]
    BY DEF FinishDooming
  <2> QED BY <1>1, <1>2, <2>1, IdleTyped
<1>4. ASSUME NEW p \in Session PROVE Deciding(sess'[p])
  <2>1. CASE p = self
    BY <1>2, <2>1, IdleTyped DEF Deciding
  <2>2. CASE p # self
    BY <1>1, <2>2 DEF PlanInv, Deciding, Gone, GoesOn
  <2> QED BY <2>1, <2>2
<1> QED BY <1>1, <1>2, <1>3, <1>4

-----------------------------------------------------------------------------
(* Shifts *)

\* A step that plans no shift and moves none of the plan.
PlansNothing ==
  \A k \in ShiftId :
    PlannedShift(k)' =>
      /\ PlannedShift(k)
      /\ shifts'[k].slot = shifts[k].slot /\ shifts'[k].user = shifts[k].user

\* Such a step keeps the plan as it is.
LEMMA PlanStays ==
  ASSUME PlanInv, PlanningTypeOK', PlansNothing, \A p \in Session : Deciding(sess'[p])
  PROVE  PlanInv'
<1>1. OneShiftPerDemand' /\ PlanBooksOnce'
  BY DEF PlanInv, OneShiftPerDemand, PlanBooksOnce, PlansNothing
<1>2. \A p \in Session : Deciding(sess[p])'
  BY DEF Deciding, PlansNothing
<1> QED BY <1>1, <1>2 DEF PlanInv

\* What becomes of a row: it is deleted, it is inserted, or it stays.
Deleted(k, old) ==
  k \in old /\ shifts'[k] =
    [shifts[k] EXCEPT !.state = "deleted", !.link = IF @ = "open" THEN "closed" ELSE @]
Inserted(k, old, slots, id, users) ==
  k \notin old /\ \E s \in slots : id[s] = k /\ shifts'[k] = NewShift(s, users[s], TRUE)
Kept(k, old) == k \notin old /\ shifts'[k] = shifts[k]

\* The rows after a publication or replacement.
LEMMA ReplacedRows ==
  ASSUME NEW slots, NEW old, NEW users, NEW id \in [slots -> UnusedShiftIds],
         shifts' = Replaced(old, id, users), NEW k \in ShiftId
  PROVE  Deleted(k, old) \/ Kept(k, old) \/ Inserted(k, old, slots, id, users)
<1>1. DOMAIN id = slots
  OBVIOUS
<1>2. CASE k \in old
  BY <1>2 DEF Replaced, Deleted
<1>3. CASE k \notin old /\ \E s \in slots : id[s] = k
  <2> PICK t : t = CHOOSE s \in DOMAIN id : id[s] = k
    OBVIOUS
  <2>1. t \in slots /\ id[t] = k
    BY <1>1, <1>3
  <2>2. shifts'[k] = NewShift(t, users[t], TRUE)
    BY <1>1, <1>3 DEF Replaced
  <2> QED BY <1>3, <2>1, <2>2 DEF Inserted
<1>4. CASE k \notin old /\ ~ \E s \in slots : id[s] = k
  BY <1>1, <1>4 DEF Replaced, Kept
<1> QED BY <1>2, <1>3, <1>4

\* A transaction inserts what it has found to be missing.
LEMMA PlanGrows ==
  ASSUME PlanInv, NEW self \in Session, sess[self].op \in Serializable, ~sess[self].doomed,
         NEW id \in InsertOrders(sess[self].slots),
         shifts' = Replaced(Gone(sess[self]), id, sess[self].users)
  PROVE  shifts' \in [ShiftId -> ShiftRow] /\ OneShiftPerDemand' /\ PlanBooksOnce'
<1> PICK slots : slots = sess[self].slots
  OBVIOUS
<1> PICK users : users = sess[self].users
  OBVIOUS
<1> PICK old : old = Gone(sess[self])
  OBVIOUS
<1>a. /\ slots \in SUBSET Slot /\ users \in [Slot -> MaybeUser]
      /\ shifts \in [ShiftId -> ShiftRow]
  <2>1. sess[self] \in SessionState
    BY DEF PlanInv, PlanningTypeOK
  <2> QED BY <2>1 DEF SessionState, PlanInv, PlanningTypeOK
<1>b. /\ \A k \in ShiftId \ old, s \in slots :
           PlannedShift(k) => Compatible(shifts[k].slot, shifts[k].user, s, users[s])
      /\ \A s, t \in slots :
           users[s] # None /\ users[s] = users[t] /\ Overlap(s, t) => s = t
  BY DEF PlanInv, Deciding
<1>c. id \in [slots -> UnusedShiftIds] /\ shifts' = Replaced(old, id, users)
  BY DEF InsertOrders
<1>1. ASSUME NEW k \in ShiftId
      PROVE  /\ shifts'[k] \in ShiftRow
             /\ PlannedShift(k)' =>
                  \/ k \notin old /\ shifts'[k] = shifts[k] /\ PlannedShift(k)
                  \/ \E s \in slots :
                       id[s] = k /\ shifts'[k].slot = s /\ shifts'[k].user = users[s]
  <2>a. shifts[k] \in ShiftRow
    BY <1>a
  <2>1. CASE Deleted(k, old)
    <3>1. shifts'[k] \in ShiftRow /\ shifts'[k].state = "deleted"
      BY <2>1, <2>a DEF ShiftRow, Deleted
    <3> QED BY <3>1 DEF PlannedShift, Live
  <2>2. CASE Kept(k, old)
    BY <2>2, <2>a DEF PlannedShift, Live, Kept
  <2>3. CASE Inserted(k, old, slots, id, users)
    <3>1. PICK s \in slots : id[s] = k /\ shifts'[k] = NewShift(s, users[s], TRUE)
      BY <2>3 DEF Inserted
    <3>2. s \in Slot /\ users[s] \in MaybeUser
      BY <1>a
    <3>3. shifts'[k] \in ShiftRow /\ shifts'[k].slot = s /\ shifts'[k].user = users[s]
      BY <3>1, <3>2 DEF NewShift, ShiftRow
    <3> QED BY <3>1, <3>3
  <2>4. Deleted(k, old) \/ Kept(k, old) \/ Inserted(k, old, slots, id, users)
    BY <1>c, ReplacedRows
  <2> QED BY <2>1, <2>2, <2>3, <2>4
<1>2. shifts' \in [ShiftId -> ShiftRow]
  <2>1. shifts' = [k \in ShiftId |-> shifts'[k]]
    BY <1>c DEF Replaced
  <2> QED BY <1>1, <2>1
<1>3. ASSUME NEW k \in ShiftId, NEW l \in ShiftId, k # l, PlannedShift(k)', PlannedShift(l)'
      PROVE  Compatible(shifts'[k].slot, shifts'[k].user, shifts'[l].slot, shifts'[l].user)
  <2>1. CASE /\ k \notin old /\ shifts'[k] = shifts[k] /\ PlannedShift(k)
             /\ l \notin old /\ shifts'[l] = shifts[l] /\ PlannedShift(l)
    BY <1>3, <2>1 DEF PlanInv, OneShiftPerDemand, PlanBooksOnce, Compatible
  <2>2. CASE /\ k \notin old /\ shifts'[k] = shifts[k] /\ PlannedShift(k)
             /\ \E s \in slots : shifts'[l].slot = s /\ shifts'[l].user = users[s]
    BY <1>b, <2>2
  <2>3. CASE /\ l \notin old /\ shifts'[l] = shifts[l] /\ PlannedShift(l)
             /\ \E s \in slots : shifts'[k].slot = s /\ shifts'[k].user = users[s]
    BY <1>b, <2>3 DEF Compatible, Overlap
  <2>4. CASE /\ \E s \in slots : id[s] = k /\ shifts'[k].slot = s /\ shifts'[k].user = users[s]
             /\ \E t \in slots : id[t] = l /\ shifts'[l].slot = t /\ shifts'[l].user = users[t]
    BY <1>3, <1>b, <2>4 DEF Compatible
  <2> QED BY <1>1, <1>3, <2>1, <2>2, <2>3, <2>4
<1>4. OneShiftPerDemand' /\ PlanBooksOnce'
  BY <1>3 DEF OneShiftPerDemand, PlanBooksOnce, Compatible
<1> QED BY <1>2, <1>4

-----------------------------------------------------------------------------
(* Steps that plan nothing *)

\* The end of a request that writes rows of their types.
LEMMA CommitStays ==
  ASSUME PlanInv, NEW self \in Session, NEW hit, FinishDooming(self, hit),
         workspace' \in SUBSET Slot, drafts' \in [DraftId -> DraftRow],
         shifts' \in [ShiftId -> ShiftRow], PlansNothing, UNCHANGED <<onLeave, now>>
  PROVE  PlanInv'
<1>1. sess' \in [Session -> SessionState] /\ \A p \in Session : Deciding(sess'[p])
  BY FinishWork
<1>2. PlanningTypeOK'
  BY <1>1 DEF PlanInv, PlanningTypeOK
<1> QED BY <1>1, <1>2, PlanStays

\* An edit no request is in flight for.
LEMMA EditStays ==
  ASSUME PlanInv, UNCHANGED sess, workspace' \in SUBSET Slot,
         drafts' \in [DraftId -> DraftRow], shifts' \in [ShiftId -> ShiftRow], PlansNothing,
         onLeave' \in SUBSET (User \X Slot), now' \in 0 .. MaxTime
  PROVE  PlanInv'
<1>1. \A p \in Session : Deciding(sess'[p])
  BY DEF PlanInv
<1>2. PlanningTypeOK'
  BY DEF PlanInv, PlanningTypeOK
<1> QED BY <1>1, <1>2, PlanStays

\* The shifts are left alone.
LEMMA SameShifts == UNCHANGED shifts => PlansNothing
BY DEF PlansNothing, PlannedShift, Live

\* A request that ends without writing.
LEMMA RefuseStays == ASSUME PlanInv, NEW self \in Session, Refuse(self) PROVE PlanInv'
BY CommitStays, SameShifts DEF Refuse, Finish, tables, PlanInv, PlanningTypeOK

\* A request that starts without deciding for the plan.
LEMMA BeginStays ==
  ASSUME PlanInv, NEW self \in Session, NEW a \in SessionState, Begin(self, a), Deciding(a),
         UNCHANGED <<tables, now>>
  PROVE  PlanInv'
<1>1. sess' \in [Session -> SessionState] /\ \A p \in Session : Deciding(sess'[p])
  BY BeginWork
<1>2. PlanningTypeOK'
  BY <1>1 DEF PlanInv, PlanningTypeOK, tables
<1> QED BY <1>1, <1>2, PlanStays, SameShifts DEF tables

-----------------------------------------------------------------------------
(* Drafts and wishes: nothing of theirs is part of the plan *)

\* The rows a draft is made from.
LEMMA NewRows ==
  /\ NoItem \in ItemRow
  /\ \A slots : Generate(slots) \in [Slot -> ItemRow]
  /\ UnusedDraft \in DraftRow
  /\ \A items \in [Slot -> ItemRow] : MonthDraft(items) \in DraftRow
  /\ \A days \in SUBSET Slot, items \in [Slot -> ItemRow] : NamedDraft(days, items) \in DraftRow
<1>1. NoItem \in ItemRow
  BY DEF NoItem, ItemRow, MaybeUser
<1>2. ASSUME NEW slots PROVE Generate(slots) \in [Slot -> ItemRow]
  <2>1. ASSUME NEW s \in Slot
        PROVE  [NoItem EXCEPT !.status = "DRAFT", !.user = DefaultUser[s]] \in ItemRow
    <3>1. DefaultUser[s] \in MaybeUser
      BY PlanningAssumption DEF MaybeUser
    <3> QED BY <1>1, <3>1 DEF ItemRow
  <2> QED BY <1>1, <2>1 DEF Generate
<1>3. 0 \in 0 .. MaxGen /\ 0 \in 0 .. MaxTime + 1 /\ NoItems \in [Slot -> ItemRow]
  BY <1>1, PlanningAssumption DEF NoItems
<1>4. UnusedDraft \in DraftRow
  BY <1>3 DEF UnusedDraft, DraftRow, DraftStatus
<1>5. ASSUME NEW items \in [Slot -> ItemRow] PROVE MonthDraft(items) \in DraftRow
  BY <1>4 DEF MonthDraft, DraftRow, DraftStatus
<1>6. ASSUME NEW days \in SUBSET Slot, NEW items \in [Slot -> ItemRow]
      PROVE  NamedDraft(days, items) \in DraftRow
  <2> PICK row : row = MonthDraft(items)
    OBVIOUS
  <2>1. row \in DraftRow /\ NamedDraft(days, items) = [row EXCEPT !.named = TRUE, !.days = days]
    BY <1>5 DEF NamedDraft
  <2> QED BY <2>1 DEF DraftRow
<1> QED BY <1>1, <1>2, <1>4, <1>5, <1>6

\* A draft is rewritten, if there is one.
LEMMA RowWritten ==
  ASSUME PlanInv, NEW d, NEW row, drafts' = [drafts EXCEPT ![d] = row],
         d \in DraftId => row \in DraftRow
  PROVE  drafts' \in [DraftId -> DraftRow]
BY DEF PlanInv, PlanningTypeOK

\* The requests of planners for drafts read the month plan or a draft.
LEMMA DraftRequestKeeps ==
  ASSUME PlanInv, NEW self \in Session, DraftRequest(self)
  PROVE  PlanInv'
<1>a. workspace \in SUBSET Slot /\ Idle \in SessionState
  BY IdleTyped DEF PlanInv, PlanningTypeOK
<1>1. CASE PrepareMonthRead(self)
  <2> DEFINE a == [Idle EXCEPT !.op = "prepareMonth", !.slots = workspace]
  <2>1. a \in SessionState /\ a.op = "prepareMonth"
    BY <1>a DEF SessionState, OpName
  <2>2. Begin(self, a) /\ UNCHANGED <<tables, now>>
    BY <1>1 DEF PrepareMonthRead
  <2> HIDE DEF a
  <2> QED BY <2>1, <2>2, BeginStays DEF Deciding, Serializable
<1>2. CASE SaveNamedDraftRead(self)
  <2> DEFINE a == [Idle EXCEPT !.op = "saveNamedDraft", !.slots = workspace]
  <2>1. a \in SessionState /\ a.op = "saveNamedDraft"
    BY <1>a DEF SessionState, OpName
  <2>2. Begin(self, a) /\ UNCHANGED <<tables, now>>
    BY <1>2 DEF SaveNamedDraftRead
  <2> HIDE DEF a
  <2> QED BY <2>1, <2>2, BeginStays DEF Deciding, Serializable
<1>3. ASSUME NEW d \in DraftId, UpdateNamedDraftRead(self, d) PROVE PlanInv'
  <2> DEFINE a == [Idle EXCEPT !.op = "updateNamedDraft", !.draft = d, !.slots = workspace]
  <2>1. a \in SessionState /\ a.op = "updateNamedDraft"
    BY <1>a DEF SessionState, OpName
  <2>2. Begin(self, a) /\ UNCHANGED <<tables, now>>
    BY <1>3 DEF UpdateNamedDraftRead
  <2> HIDE DEF a
  <2> QED BY <2>1, <2>2, BeginStays DEF Deciding, Serializable
<1>4. ASSUME NEW d \in DraftId, DeleteDraftRead(self, d) PROVE PlanInv'
  <2> DEFINE a == [Idle EXCEPT !.op = "deleteDraft", !.draft = d]
  <2>1. a \in SessionState /\ a.op = "deleteDraft"
    BY <1>a DEF SessionState, OpName
  <2>2. Begin(self, a) /\ UNCHANGED <<tables, now>>
    BY <1>4 DEF DeleteDraftRead
  <2> HIDE DEF a
  <2> QED BY <2>1, <2>2, BeginStays DEF Deciding, Serializable
<1>5. ASSUME NEW d \in DraftId, CopyDraftRead(self, d) PROVE PlanInv'
  <2> DEFINE a == [Idle EXCEPT !.op = "copyNamedDraft", !.draft = d, !.flag = drafts[d].named]
  <2>1. a \in SessionState /\ a.op = "copyNamedDraft"
    <3>1. drafts[d].named \in BOOLEAN
      BY DEF PlanInv, PlanningTypeOK, DraftRow
    <3> QED BY <1>a, <3>1 DEF SessionState, OpName
  <2>2. Begin(self, a) /\ UNCHANGED <<tables, now>>
    BY <1>5 DEF CopyDraftRead
  <2> HIDE DEF a
  <2> QED BY <2>1, <2>2, BeginStays DEF Deciding, Serializable
<1> QED BY <1>1, <1>2, <1>3, <1>4, <1>5 DEF DraftRequest

\* What a copy takes from the items of a draft.
LEMMA CopyTyped ==
  ASSUME NEW slots \in SUBSET Slot, NEW users \in [Slot -> MaybeUser]
  PROVE  /\ CopyOf(slots, users) \in [Slot -> ItemRow]
         /\ \A s \in Slot : CopyOf(slots, users)[s].status =
                           IF s \in slots THEN "DRAFT" ELSE "absent"
<1>1. NoItem \in ItemRow /\ NoItem.status = "absent"
  BY NewRows DEF NoItem
<1>2. ASSUME NEW s \in Slot
      PROVE  /\ [NoItem EXCEPT !.status = "DRAFT", !.user = users[s]] \in ItemRow
             /\ [NoItem EXCEPT !.status = "DRAFT", !.user = users[s]].status = "DRAFT"
  BY <1>1 DEF ItemRow
<1> QED BY <1>1, <1>2 DEF CopyOf

\* A copy that has its items goes on with the session it had.
LEMMA CopyGoesOn ==
  ASSUME PlanInv, NEW self \in Session, DraftStep(self)
  PROVE  /\ sess' \in [Session -> SessionState]
         /\ sess[self].op = "copyNamedDraft" /\ sess'[self].op = "copyNamedDraft"
         /\ sess'[self].draft = sess[self].draft /\ sess'[self].flag = sess[self].flag
         /\ sess'[self].slots = ItemSlots(sess[self].draft)
         /\ \A p \in Session \ {self} : sess'[p] = sess[p]
         /\ UNCHANGED <<tables, now>>
<1> PICK a : a = sess[self]
  OBVIOUS
<1> PICK source \in DraftId : CopyItems(self, source)
  BY DEF DraftStep
<1> PICK slots : slots = ItemSlots(source)
  OBVIOUS
<1> PICK users : users = [s \in Slot |-> drafts[source].items[s].user]
  OBVIOUS
<1>1. a \in SessionState /\ sess \in [Session -> SessionState]
  BY DEF PlanInv, PlanningTypeOK
<1>2. /\ At(self, "copyNamedDraft") /\ a.draft = source /\ UNCHANGED <<tables, now>>
      /\ sess' = [sess EXCEPT ![self].copied = TRUE, ![self].slots = slots,
                              ![self].users = users]
  BY DEF CopyItems
<1>3. slots \in SUBSET Slot /\ users \in [Slot -> MaybeUser]
  <2>1. \A s \in Slot : drafts[source].items[s].user \in MaybeUser
    BY DEF PlanInv, PlanningTypeOK, DraftRow, ItemRow
  <2> QED BY <2>1 DEF ItemSlots
<1>4. [a EXCEPT !.copied = TRUE, !.slots = slots, !.users = users] \in SessionState
  BY <1>1, <1>3, ZenonT(30) DEF SessionState
<1>5. sess'[self] = [a EXCEPT !.copied = TRUE, !.slots = slots, !.users = users]
  BY <1>1, <1>2
<1>6. \A p \in Session \ {self} : sess'[p] = sess[p]
  BY <1>1, <1>2
<1>7. sess' \in [Session -> SessionState]
  BY <1>1, <1>2, <1>4, <1>5, <1>6
<1>8. /\ sess'[self].op = a.op /\ sess'[self].draft = a.draft
      /\ sess'[self].flag = a.flag /\ sess'[self].slots = slots
  BY <1>1, <1>5, ZenonT(30) DEF SessionState
<1> QED BY <1>2, <1>6, <1>7, <1>8 DEF At


\* A draft that is committed.
LEMMA DraftCommitKeeps ==
  ASSUME PlanInv, NEW self \in Session, DraftCommit(self)
  PROVE  PlanInv'
<1> PICK d : d = sess[self].draft
  OBVIOUS
<1>a. /\ workspace \in SUBSET Slot /\ drafts \in [DraftId -> DraftRow]
      /\ shifts \in [ShiftId -> ShiftRow]
  BY DEF PlanInv, PlanningTypeOK
<1>b. ASSUME drafts' \in [DraftId -> DraftRow], Finish(self),
             UNCHANGED <<workspace, shifts, onLeave, now>>
      PROVE  PlanInv'
  BY <1>a, <1>b, CommitStays, SameShifts DEF Finish
<1>1. CASE PrepareMonthCommit(self)
  <2>1. PICK new \in DraftId :
          drafts' = [e \in DraftId |->
            IF e = new THEN MonthDraft(Generate(sess[self].slots))
            ELSE IF Editable(e) THEN [drafts[e] EXCEPT !.status = "SUPERSEDED"]
            ELSE drafts[e]]
    BY <1>1 DEF PrepareMonthCommit
  <2>2. MonthDraft(Generate(sess[self].slots)) \in DraftRow
    BY NewRows
  <2>3. \A e \in DraftId : [drafts[e] EXCEPT !.status = "SUPERSEDED"] \in DraftRow
    BY <1>a DEF DraftRow, DraftStatus
  <2>4. drafts' \in [DraftId -> DraftRow]
    BY <1>a, <2>1, <2>2, <2>3
  <2> QED BY <1>1, <1>b, <2>4 DEF PrepareMonthCommit
<1>2. CASE SaveNamedDraftCommit(self)
  <2>1. PICK e \in DraftId :
          drafts' = [drafts EXCEPT ![e] = NamedDraft(workspace, Generate(sess[self].slots))]
    BY <1>2 DEF SaveNamedDraftCommit, InsertDraft
  <2>2. drafts' \in [DraftId -> DraftRow]
    BY <1>a, <2>1, NewRows, RowWritten
  <2> QED BY <1>2, <1>b, <2>2 DEF SaveNamedDraftCommit
<1>3. CASE UpdateNamedDraftCommit(self)
  <2>1. CASE Refuse(self)
    BY <2>1, RefuseStays
  <2>2. CASE ~ Refuse(self)
    <3> DEFINE row == [drafts[d] EXCEPT !.gen = @ + 1, !.days = workspace,
                                        !.items = Generate(sess[self].slots)]
    <3>1. /\ drafts' = [drafts EXCEPT ![d] =
                [drafts[d] EXCEPT !.gen = @ + 1, !.days = workspace,
                                  !.items = Generate(sess[self].slots)]]
          /\ drafts[d].gen < MaxGen
          /\ Finish(self) /\ UNCHANGED <<workspace, shifts, onLeave, now>>
      <4>1. sess[self].draft = d
        OBVIOUS
      <4> QED BY <1>3, <2>2, <4>1, Zenon DEF UpdateNamedDraftCommit
    <3>2. drafts' = [drafts EXCEPT ![d] = row]
      BY <3>1, Zenon
    <3>3. d \in DraftId => row \in DraftRow
      <4> SUFFICES ASSUME d \in DraftId PROVE row \in DraftRow
        OBVIOUS
      <4>1. drafts[d] \in DraftRow /\ drafts[d].gen + 1 \in 0 .. MaxGen
        BY <1>a, <3>1, PlanningAssumption DEF DraftRow
      <4>2. Generate(sess[self].slots) \in [Slot -> ItemRow]
        BY NewRows
      <4> QED BY <1>a, <4>1, <4>2 DEF DraftRow
    <3> HIDE DEF row
    <3>4. drafts' \in [DraftId -> DraftRow]
      BY <3>2, <3>3, RowWritten
    <3> QED BY <1>b, <3>1, <3>4
  <2> QED BY <2>1, <2>2
<1>4. CASE DeleteDraftCommit(self)
  <2> DEFINE row == IF drafts[d].status = "PUBLISHED" THEN [drafts[d] EXCEPT !.items = NoItems]
                    ELSE [UnusedDraft EXCEPT !.status = "deleted"]
  <2>1. drafts' = [drafts EXCEPT ![d] = row]
    BY <1>4 DEF DeleteDraftCommit
  <2>2. d \in DraftId => row \in DraftRow
    BY <1>a, NewRows, SMTT(30) DEF DraftRow, DraftStatus, NoItems
  <2> HIDE DEF row
  <2>3. drafts' \in [DraftId -> DraftRow]
    BY <2>1, <2>2, RowWritten
  <2> QED BY <1>4, <1>b, <2>3 DEF DeleteDraftCommit
<1>5. ASSUME NEW source \in DraftId, CopyDaysCommit(self, source) PROVE PlanInv'
  <2> PICK a : a = sess[self]
    OBVIOUS
  <2> DEFINE row == [MonthDraft(CopyOf(a.slots, a.users)) EXCEPT
                       !.named = a.flag, !.days = drafts[source].days]
  <2>1. PICK e \in DraftId : drafts' = [drafts EXCEPT ![e] = row]
    BY <1>5 DEF CopyDaysCommit, InsertDraft
  <2>2. a.slots \in SUBSET Slot /\ a.users \in [Slot -> MaybeUser] /\ a.flag \in BOOLEAN
    BY DEF PlanInv, PlanningTypeOK, SessionState
  <2>3. MonthDraft(CopyOf(a.slots, a.users)) \in DraftRow
    BY <2>2, CopyTyped, NewRows
  <2>4. row \in DraftRow
    BY <1>a, <2>2, <2>3 DEF DraftRow
  <2> HIDE DEF row
  <2>5. drafts' \in [DraftId -> DraftRow]
    BY <2>1, <2>4, RowWritten
  <2> QED BY <1>5, <1>b, <2>5 DEF CopyDaysCommit
<1> QED BY <1>1, <1>2, <1>3, <1>4, <1>5 DEF DraftCommit

\* A copy that has its items has written nothing.
LEMMA DraftStepKeeps ==
  ASSUME PlanInv, NEW self \in Session, DraftStep(self)
  PROVE  PlanInv'
<1>1. \A p \in Session : Deciding(sess'[p])
  <2>1. sess'[self].op \notin Serializable
    BY CopyGoesOn DEF Serializable
  <2>2. \A p \in Session \ {self} : sess'[p] = sess[p]
    BY CopyGoesOn
  <2> QED BY <2>1, <2>2 DEF PlanInv, Deciding
<1>2. PlanningTypeOK'
  BY CopyGoesOn DEF PlanInv, PlanningTypeOK, tables
<1>3. UNCHANGED shifts
  BY CopyGoesOn DEF tables
<1> QED BY <1>1, <1>2, <1>3, PlanStays, SameShifts


\* The month plan and the drafts are edited.
LEMMA WorkspaceEditKeeps ==
  ASSUME PlanInv, WorkspaceEdit
  PROVE  PlanInv'
<1>a. /\ workspace \in SUBSET Slot /\ drafts \in [DraftId -> DraftRow]
      /\ shifts \in [ShiftId -> ShiftRow] /\ onLeave \in SUBSET (User \X Slot)
      /\ now \in 0 .. MaxTime
  BY DEF PlanInv, PlanningTypeOK
<1>b. ASSUME workspace' \in SUBSET Slot, drafts' \in [DraftId -> DraftRow],
             UNCHANGED <<shifts, onLeave, now, sess>>
      PROVE  PlanInv'
  BY <1>a, <1>b, EditStays, SameShifts
<1>1. ASSUME NEW s \in Slot, UpsertMonthPlanDay(s) PROVE PlanInv'
  BY <1>1, <1>a, <1>b DEF UpsertMonthPlanDay
<1>2. CASE CreateNamedDraft
  <2>1. NoItems \in [Slot -> ItemRow]
    BY NewRows DEF NoItems
  <2>2. NamedDraft({}, NoItems) \in DraftRow
    BY <2>1, NewRows
  <2>3. drafts' \in [DraftId -> DraftRow]
    BY <1>2, <2>2, RowWritten DEF CreateNamedDraft, InsertDraft
  <2> QED BY <1>2, <1>a, <1>b, <2>3 DEF CreateNamedDraft
<1>3. ASSUME NEW d \in DraftId, OpenNamedDraftWorkspace(d) PROVE PlanInv'
  <2>1. drafts[d].days \in SUBSET Slot
    BY <1>a DEF DraftRow
  <2> QED BY <1>3, <1>a, <1>b, <2>1 DEF OpenNamedDraftWorkspace, RestoreWorkspace
<1> QED BY <1>1, <1>2, <1>3 DEF WorkspaceEdit

\* What a request about an item knows of it.
LEMMA ItemRequest ==
  ASSUME PlanInv, NEW self \in Session, NEW op \in OpName, op \notin Serializable,
         NEW d \in DraftId, NEW s \in Slot, NEW u \in MaybeUser, NEW flag \in BOOLEAN,
         BeginOnItem(self, op, d, s, u, flag)
  PROVE  PlanInv'
<1> DEFINE a == [Idle EXCEPT !.op = op, !.draft = d, !.gen = drafts[d].gen,
                             !.slot = s, !.user = u, !.flag = flag]
<1>1. drafts[d].gen \in 0 .. MaxGen
  BY DEF PlanInv, PlanningTypeOK, DraftRow
<1>2. a \in SessionState /\ a.op = op
  BY <1>1, IdleTyped DEF SessionState
<1>3. Begin(self, a) /\ UNCHANGED <<tables, now>>
  BY DEF BeginOnItem
<1> HIDE DEF a
<1> QED BY <1>2, <1>3, BeginStays DEF Deciding

\* The requests of a wish round.
LEMMA WishRequestKeeps ==
  ASSUME PlanInv, NEW self \in Session, WishRequest(self)
  PROVE  PlanInv'
<1>a. {"setItemWishEnabled", "assignWish", "createWish", "withdrawWish"} \cap Serializable = {}
  BY DEF Serializable
<1>b. None \in MaybeUser /\ User \subseteq MaybeUser
  BY DEF MaybeUser
<1>1. ASSUME NEW d \in DraftId, NEW enable \in BOOLEAN, NEW t \in 1 .. MaxTime + 1,
             OpenRoundRead(self, d, enable, t)
      PROVE  PlanInv'
  <2> DEFINE a == [Idle EXCEPT !.op = "openRound", !.draft = d, !.flag = enable,
                               !.closesAt = t, !.slots = {s \in Slot : IsFuture(s)}]
  <2>1. {s \in Slot : IsFuture(s)} \in SUBSET Slot /\ t \in 0 .. MaxTime + 1
    BY PlanningAssumption
  <2>2. a \in SessionState /\ a.op = "openRound"
    BY <2>1, IdleTyped DEF SessionState, OpName
  <2>3. Begin(self, a) /\ UNCHANGED <<tables, now>>
    BY <1>1 DEF OpenRoundRead
  <2> HIDE DEF a
  <2> QED BY <2>2, <2>3, BeginStays DEF Deciding, Serializable
<1>2. ASSUME NEW d \in DraftId, CloseRoundRead(self, d) PROVE PlanInv'
  <2> DEFINE a == [Idle EXCEPT !.op = "closeRound", !.draft = d]
  <2>1. a \in SessionState /\ a.op = "closeRound"
    BY IdleTyped DEF SessionState, OpName
  <2>2. Begin(self, a) /\ UNCHANGED <<tables, now>>
    BY <1>2 DEF CloseRoundRead
  <2> HIDE DEF a
  <2> QED BY <2>1, <2>2, BeginStays DEF Deciding, Serializable
<1>3. ASSUME NEW d \in DraftId, NEW s \in Slot, NEW enabled \in BOOLEAN,
             SetItemWishEnabledRead(self, d, s, enabled)
      PROVE  PlanInv'
  BY <1>3, <1>a, <1>b, ItemRequest DEF SetItemWishEnabledRead, OpName
<1>4. ASSUME NEW d \in DraftId, NEW s \in Slot, NEW u \in User,
             \/ AssignWishRead(self, d, s, u)
             \/ CreateWishRead(self, d, s, u)
             \/ WithdrawWishRead(self, d, s, u)
      PROVE  PlanInv'
  <2>1. PICK op \in {"assignWish", "createWish", "withdrawWish"} :
          BeginOnItem(self, op, d, s, u, FALSE)
    BY <1>4 DEF AssignWishRead, CreateWishRead, WithdrawWishRead
  <2> QED BY <1>a, <1>b, <2>1, ItemRequest DEF OpName
<1> QED BY <1>1, <1>2, <1>3, <1>4 DEF WishRequest

\* An item is written by its id, or there is none.
LEMMA ItemWritten ==
  ASSUME PlanInv, NEW self \in Session, NEW hit, NEW row, CommitOnItem(self, row, hit),
         sess[self].draft \in DraftId /\ sess[self].slot \in Slot => row \in ItemRow
  PROVE  PlanInv'
<1> PICK d : d = sess[self].draft
  OBVIOUS
<1> PICK s : s = sess[self].slot
  OBVIOUS
<1>a. /\ workspace \in SUBSET Slot /\ drafts \in [DraftId -> DraftRow]
      /\ shifts \in [ShiftId -> ShiftRow]
  BY DEF PlanInv, PlanningTypeOK
<1>1. CASE Refuse(self)
  BY <1>1, RefuseStays
<1>2. CASE /\ drafts' = [drafts EXCEPT ![d].items[s] = row]
           /\ FinishDooming(self, hit) /\ UNCHANGED <<workspace, shifts, onLeave, now>>
  <2>1. ASSUME d \in DraftId
        PROVE  [drafts[d] EXCEPT !.items[s] = row] \in DraftRow
    <3> PICK items : items = [drafts[d].items EXCEPT ![s] = row]
      OBVIOUS
    <3>1. drafts[d] \in DraftRow /\ drafts[d].items \in [Slot -> ItemRow]
      BY <1>a, <2>1 DEF DraftRow
    <3>2. items \in [Slot -> ItemRow]
      BY <2>1, <3>1
    <3>3. [drafts[d] EXCEPT !.items = items] \in DraftRow
      BY <3>1, <3>2 DEF DraftRow
    <3> QED BY <3>3
  <2>2. drafts' = [drafts EXCEPT ![d] = [drafts[d] EXCEPT !.items[s] = row]]
    BY <1>2
  <2>3. drafts' \in [DraftId -> DraftRow]
    BY <2>1, <2>2, RowWritten
  <2> QED BY <1>2, <1>a, <2>3, CommitStays, SameShifts
<1> QED BY <1>1, <1>2 DEF CommitOnItem

\* What a wish round writes.
LEMMA WishCommitKeeps ==
  ASSUME PlanInv, NEW self \in Session, WishCommit(self)
  PROVE  PlanInv'
<1> PICK a : a = sess[self]
  OBVIOUS
<1> PICK d : d = a.draft
  OBVIOUS
<1>a. /\ workspace \in SUBSET Slot /\ drafts \in [DraftId -> DraftRow]
      /\ shifts \in [ShiftId -> ShiftRow] /\ a \in SessionState
      /\ \A e \in DraftId : drafts[e].items \in [Slot -> ItemRow]
  BY DEF PlanInv, PlanningTypeOK, DraftRow
<1>b. a.closesAt \in 0 .. MaxTime + 1 /\ a.flag \in BOOLEAN /\ a.user \in MaybeUser
  BY <1>a DEF SessionState
<1>c. ASSUME d \in DraftId, a.slot \in Slot PROVE Item(d, a.slot) \in ItemRow
  BY <1>a, <1>c DEF Item
<1>1. CASE OpenRoundCommit(self)
  <2>1. CASE Refuse(self)
    BY <2>1, RefuseStays
  <2>2. CASE ~ Refuse(self)
    <3> PICK items : items = IF a.flag THEN [s \in Slot |-> Enabled(d, s, a.slots)]
                             ELSE drafts[d].items
      OBVIOUS
    <3>1. drafts' = [drafts EXCEPT ![d] =
            [drafts[d] EXCEPT !.round = "OPEN", !.closesAt = a.closesAt, !.items = items]]
      BY <1>1, <2>2, Zenon DEF OpenRoundCommit
    <3>2. PICK hit : FinishDooming(self, hit) /\ UNCHANGED <<workspace, shifts, onLeave, now>>
      BY <1>1, <2>2 DEF OpenRoundCommit
    <3>3. ASSUME d \in DraftId PROVE items \in [Slot -> ItemRow]
      <4>1. ASSUME NEW s \in Slot PROVE Enabled(d, s, a.slots) \in ItemRow
        <5> PICK old : old = Item(d, s)
          OBVIOUS
        <5> PICK wish \in BOOLEAN : wish = (old.user = None /\ s \in a.slots)
          OBVIOUS
        <5>1. old \in ItemRow
          BY <1>a, <3>3 DEF Item
        <5>2. [old EXCEPT !.wish = wish] \in ItemRow
          BY <5>1 DEF ItemRow
        <5>3. Enabled(d, s, a.slots) = old \/ Enabled(d, s, a.slots) = [old EXCEPT !.wish = wish]
          BY Zenon DEF Enabled
        <5> QED BY <5>1, <5>2, <5>3
      <4> QED BY <1>a, <3>3, <4>1
    <3>4. ASSUME d \in DraftId
          PROVE  [drafts[d] EXCEPT !.round = "OPEN", !.closesAt = a.closesAt, !.items = items]
                   \in DraftRow
      <4> PICK row : row = drafts[d]
        OBVIOUS
      <4> PICK closesAt : closesAt = a.closesAt
        OBVIOUS
      <4>1. row \in DraftRow /\ closesAt \in 0 .. MaxTime + 1 /\ items \in [Slot -> ItemRow]
        BY <1>a, <1>b, <3>3, <3>4
      <4>2. [row EXCEPT !.round = "OPEN", !.closesAt = closesAt, !.items = items] \in DraftRow
        BY <4>1 DEF DraftRow
      <4> QED BY <4>2
    <3>5. drafts' \in [DraftId -> DraftRow]
      BY <3>1, <3>4, RowWritten
    <3> QED BY <1>a, <3>2, <3>5, CommitStays, SameShifts
  <2> QED BY <2>1, <2>2
<1>2. CASE CloseRoundCommit(self)
  <2>1. CASE Refuse(self)
    BY <2>1, RefuseStays
  <2>2. CASE ~ Refuse(self)
    <3>1. /\ drafts' = [drafts EXCEPT ![d].round = "CLOSED"]
          /\ FinishDooming(self, {}) /\ UNCHANGED <<workspace, shifts, onLeave, now>>
      <4>1. d = sess[self].draft
        OBVIOUS
      <4> QED BY <1>2, <2>2, <4>1, Zenon DEF CloseRoundCommit, Finish
    <3>2. d \in DraftId => [drafts[d] EXCEPT !.round = "CLOSED"] \in DraftRow
      BY <1>a DEF DraftRow
    <3>3. drafts' = [drafts EXCEPT ![d] = [drafts[d] EXCEPT !.round = "CLOSED"]]
      BY <3>1
    <3>4. drafts' \in [DraftId -> DraftRow]
      BY <3>2, <3>3, RowWritten
    <3> QED BY <1>a, <3>1, <3>4, CommitStays, SameShifts
  <2> QED BY <2>1, <2>2
<1>3. CASE SetItemWishEnabledCommit(self)
  <2>1. CommitOnItem(self, [Item(d, a.slot) EXCEPT !.wish = a.flag], Publishing(d, {a.slot}))
    BY <1>3 DEF SetItemWishEnabledCommit
  <2>2. d \in DraftId /\ a.slot \in Slot => [Item(d, a.slot) EXCEPT !.wish = a.flag] \in ItemRow
    BY <1>b, <1>c DEF ItemRow
  <2> QED BY <2>1, <2>2, ItemWritten
<1>4. CASE AssignWishCommit(self)
  <2>1. CommitOnItem(self, [Item(d, a.slot) EXCEPT !.user = a.user, !.wish = FALSE],
                     Publishing(d, {a.slot}))
    BY <1>4 DEF AssignWishCommit
  <2>2. d \in DraftId /\ a.slot \in Slot =>
          [Item(d, a.slot) EXCEPT !.user = a.user, !.wish = FALSE] \in ItemRow
    BY <1>b, <1>c DEF ItemRow
  <2> QED BY <2>1, <2>2, ItemWritten
<1>5. CASE CreateWishCommit(self) \/ WithdrawWishCommit(self)
  <2>1. CASE Refuse(self)
    BY <2>1, RefuseStays
  <2>2. CASE ~ Refuse(self)
    <3>1. PICK w \in {"active", "withdrawn"} :
            CommitOnItem(self, [Item(d, a.slot) EXCEPT !.wishes[a.user] = w], {})
      BY <1>5, <2>2 DEF CreateWishCommit, WithdrawWishCommit
    <3>2. ASSUME d \in DraftId, a.slot \in Slot
          PROVE  [Item(d, a.slot) EXCEPT !.wishes[a.user] = w] \in ItemRow
      <4> PICK old : old = Item(d, a.slot)
        OBVIOUS
      <4> PICK wishes : wishes = [old.wishes EXCEPT ![a.user] = w]
        OBVIOUS
      <4>1. old \in ItemRow
        BY <1>c, <3>2
      <4>2. wishes \in [User -> {"none", "active", "withdrawn"}]
        BY <4>1 DEF ItemRow
      <4>3. [old EXCEPT !.wishes = wishes] \in ItemRow
        BY <4>1, <4>2 DEF ItemRow
      <4> QED BY <4>3
    <3> QED BY <3>1, <3>2, ItemWritten
  <2> QED BY <2>1, <2>2
<1> QED BY <1>1, <1>2, <1>3, <1>4, <1>5 DEF WishCommit

-----------------------------------------------------------------------------
(* From drafts to shifts *)

\* The assignees a transaction reads are users.
LEMMA AssigneesTyped ==
  ASSUME PlanInv, NEW d \in DraftId, NEW slots
  PROVE  /\ Assignees(d, slots) \in [Slot -> MaybeUser]
         /\ \A s \in slots \cap Slot : Assignees(d, slots)[s] = Assigned(d, s)
<1>1. ASSUME NEW s \in Slot PROVE Assigned(d, s) \in MaybeUser
  <2>1. drafts[d].items[s] \in ItemRow
    BY DEF PlanInv, PlanningTypeOK, DraftRow
  <2> QED BY <2>1 DEF Assigned, ItemRow
<1> QED BY <1>1 DEF Assignees, MaybeUser

\* Publication finds a month in which its items fit.
LEMMA PublishKeeps ==
  ASSUME PlanInv, NEW self \in Session, NEW d \in DraftId, PublishRead(self, d)
  PROVE  PlanInv'
<1> PICK slots : slots = PublishableSlots(d)
  OBVIOUS
<1> PICK users : users = Assignees(d, slots)
  OBVIOUS
<1> PICK rows : rows = ShiftsInSpan(ItemSlots(d))
  OBVIOUS
<1> DEFINE a == [Idle EXCEPT !.op = "publishDraft", !.draft = d, !.slots = slots,
                             !.users = users, !.rows = rows]
<1>1. slots \in SUBSET Slot /\ rows \in SUBSET ShiftId
  BY DEF PublishableSlots, ItemSlots, ShiftsInSpan, LiveShifts
<1>2. users \in [Slot -> MaybeUser] /\ \A s \in slots : users[s] = Assigned(d, s)
  BY <1>1, AssigneesTyped
<1>3. /\ a \in SessionState /\ a.op = "publishDraft" /\ a.slots = slots
      /\ a.users = users /\ a.rows = rows
  BY <1>1, <1>2, IdleTyped DEF SessionState, OpName
<1>4. Begin(self, a) /\ UNCHANGED <<tables, now>>
  BY DEF PublishRead
<1>5. /\ \A k \in LiveShifts : shifts[k].slot \notin slots
      /\ \A s, t \in slots :
           Assigned(d, s) # None /\ Assigned(d, s) = Assigned(d, t) /\ Overlap(s, t) => s = t
      /\ \A s \in slots : Assigned(d, s) # None => ~Conflicts(Assigned(d, s), s)
  BY DEF PublishRead, AssigneesFree
<1> HIDE DEF a
<1>6. Deciding(a)
  <2>1. ASSUME NEW k \in ShiftId, NEW s \in slots, PlannedShift(k)
        PROVE  Compatible(shifts[k].slot, shifts[k].user, s, users[s])
    <3>1. k \in LiveShifts
      BY <2>1 DEF PlannedShift, LiveShifts
    <3>2. shifts[k].slot # s
      BY <1>5, <3>1
    <3>3. shifts[k].user # None /\ shifts[k].user = users[s] => ~Overlap(shifts[k].slot, s)
      BY <1>2, <1>5, <3>1 DEF Conflicts, ShiftConflict
    <3> QED BY <3>2, <3>3 DEF Compatible
  <2> QED BY <1>2, <1>3, <1>5, <2>1 DEF Deciding, Gone
<1> QED BY <1>3, <1>4, <1>6, BeginStays

\* So does replacement, without the shifts it is to delete.
LEMMA ReplaceKeeps ==
  ASSUME PlanInv, NEW self \in Session, NEW d \in DraftId, NEW r, ReplaceRead(self, d, r)
  PROVE  PlanInv'
<1> PICK old : old = {k \in PlannedIn(r) : shifts[k].slot.from > now}
  OBVIOUS
<1> PICK remaining : remaining = LiveShifts \ old
  OBVIOUS
<1> PICK proposed : proposed = {s \in ItemSlots(d) : Within(s, r) /\ s.from > now}
  OBVIOUS
<1> PICK slots : slots = {s \in proposed : ~Satisfied(d, s, remaining)}
  OBVIOUS
<1> PICK users : users = Assignees(d, slots)
  OBVIOUS
<1> DEFINE a == [Idle EXCEPT !.op = "replacePlanningShifts", !.draft = d, !.slots = slots,
                             !.users = users, !.rows = old]
<1>1. slots \in SUBSET Slot /\ slots \subseteq proposed /\ old \in SUBSET ShiftId
  BY DEF ItemSlots, PlannedIn, LiveShifts
<1>2. users \in [Slot -> MaybeUser] /\ \A s \in slots : users[s] = Assigned(d, s)
  BY <1>1, AssigneesTyped
<1>3. /\ a \in SessionState /\ a.op = "replacePlanningShifts" /\ a.slots = slots
      /\ a.users = users /\ a.rows = old
  BY <1>1, <1>2, IdleTyped DEF SessionState, OpName
<1>4. Begin(self, a) /\ UNCHANGED <<tables, now>>
  BY DEF ReplaceRead
<1>5. /\ \A s \in slots : SafeBeside(d, s, remaining)
      /\ AssigneesFree(d, proposed)
  BY DEF ReplaceRead
<1> HIDE DEF a
<1>6. Deciding(a)
  <2>1. ASSUME NEW k \in ShiftId \ old, NEW s \in slots, PlannedShift(k)
        PROVE  Compatible(shifts[k].slot, shifts[k].user, s, users[s])
    <3>1. k \in remaining
      BY <2>1 DEF PlannedShift, LiveShifts
    <3> QED BY <1>2, <1>5, <3>1 DEF SafeBeside, Compatible
  <2>2. ASSUME NEW s \in slots, NEW t \in slots,
               users[s] # None, users[s] = users[t], Overlap(s, t)
        PROVE  s = t
    BY <1>1, <1>2, <1>5, <2>2 DEF AssigneesFree
  <2> QED BY <1>3, <2>1, <2>2 DEF Deciding, Gone
<1> QED BY <1>3, <1>4, <1>6, BeginStays

\* The other requests for shifts decide nothing for the plan.
LEMMA ShiftRequestKeeps ==
  ASSUME PlanInv, NEW self \in Session, ShiftRequest(self)
  PROVE  PlanInv'
<1>1. ASSUME NEW op \in {"removePlanningShifts", "clockIn", "offer"},
             NEW rows \in SUBSET ShiftId,
             Begin(self, [Idle EXCEPT !.op = op, !.rows = rows]), UNCHANGED <<tables, now>>
      PROVE  PlanInv'
  <2> DEFINE a == [Idle EXCEPT !.op = op, !.rows = rows]
  <2>1. a \in SessionState /\ a.op = op
    BY IdleTyped DEF SessionState, OpName
  <2>2. Begin(self, a)
    BY <1>1
  <2> HIDE DEF a
  <2> QED BY <1>1, <2>1, <2>2, BeginStays DEF Deciding, Serializable
<1>2. ASSUME NEW r, RemoveRead(self, r) PROVE PlanInv'
  <2>1. PlannedIn(r) \in SUBSET ShiftId
    BY DEF PlannedIn, LiveShifts
  <2> QED BY <1>1, <1>2, <2>1 DEF RemoveRead
<1>3. ASSUME NEW k \in ShiftId, ClockInRead(self, k) \/ OfferRead(self, k) PROVE PlanInv'
  BY <1>1, <1>3 DEF ClockInRead, OfferRead
<1> QED BY <1>2, <1>3, PublishKeeps, ReplaceKeeps DEF ShiftRequest

\* A row that refers to a shift is inserted.
LEMMA ReferKeeps ==
  ASSUME PlanInv, NEW self \in Session, ClockInCommit(self) \/ OfferCommit(self)
  PROVE  PlanInv'
<1> PICK k : k = CHOOSE j \in sess[self].rows : TRUE
  OBVIOUS
<1>a. /\ workspace \in SUBSET Slot /\ drafts \in [DraftId -> DraftRow]
      /\ shifts \in [ShiftId -> ShiftRow]
  BY DEF PlanInv, PlanningTypeOK
<1>1. CASE Refuse(self)
  BY <1>1, RefuseStays
<1>2. CASE ~ Refuse(self)
  <2>1. PICK row \in {[j \in ShiftId |-> [shifts[j] EXCEPT !.worked = TRUE]],
                      [j \in ShiftId |-> [shifts[j] EXCEPT !.link = "open"]]} :
          ReferToShift(self, row)
    BY DEF ClockInCommit, OfferCommit
  <2>2. PICK hit : /\ shifts' = [shifts EXCEPT ![k] = row[k]] /\ FinishDooming(self, hit)
                   /\ UNCHANGED <<workspace, drafts, onLeave, now>>
    BY <1>2, <2>1 DEF ReferToShift
  <2>3. ASSUME NEW j \in ShiftId
        PROVE  /\ row[j] \in ShiftRow /\ row[j].slot = shifts[j].slot
               /\ row[j].user = shifts[j].user /\ row[j].state = shifts[j].state
               /\ row[j].planned = shifts[j].planned
    <3>1. \/ row[j] = [shifts[j] EXCEPT !.worked = TRUE]
          \/ row[j] = [shifts[j] EXCEPT !.link = "open"]
      BY <2>1
    <3>2. shifts[j] \in ShiftRow
      BY <1>a
    <3>3. CASE row[j] = [shifts[j] EXCEPT !.worked = TRUE]
      BY <3>2, <3>3 DEF ShiftRow
    <3>4. CASE row[j] = [shifts[j] EXCEPT !.link = "open"]
      BY <3>2, <3>4 DEF ShiftRow
    <3> QED BY <3>1, <3>3, <3>4
  <2>4. shifts' \in [ShiftId -> ShiftRow] /\ PlansNothing
    BY <1>a, <2>2, <2>3 DEF PlansNothing, PlannedShift, Live
  <2> QED BY <1>a, <2>2, <2>4, CommitStays
<1> QED BY <1>1, <1>2

\* Transactions of the plan, and removal.
LEMMA ShiftCommitKeeps ==
  ASSUME PlanInv, NEW self \in Session, ShiftCommit(self)
  PROVE  PlanInv'
<1> PICK a : a = sess[self]
  OBVIOUS
<1>a. /\ workspace \in SUBSET Slot /\ drafts \in [DraftId -> DraftRow]
      /\ shifts \in [ShiftId -> ShiftRow] /\ onLeave \in SUBSET (User \X Slot)
      /\ now \in 0 .. MaxTime
  BY DEF PlanInv, PlanningTypeOK
<1>1. ASSUME a.op \in Serializable, ~a.doomed, NEW id \in InsertOrders(a.slots),
             shifts' = Replaced(Gone(a), id, a.users), drafts' \in [DraftId -> DraftRow],
             FinishDooming(self, OtherTransactions(self)), UNCHANGED <<workspace, onLeave, now>>
      PROVE  PlanInv'
  <2>1. shifts' \in [ShiftId -> ShiftRow] /\ OneShiftPerDemand' /\ PlanBooksOnce'
    BY <1>1, PlanGrows
  <2>2. /\ sess' \in [Session -> SessionState] /\ sess'[self] = Idle
        /\ \A p \in Session \ {self} :
             /\ sess'[p].op = sess[p].op
             /\ p \in OtherTransactions(self) => sess'[p].doomed
    BY <1>1, FinishWork DEF GoesOn
  <2>3. \A p \in Session : Deciding(sess[p])'
    BY <2>2, IdleTyped DEF OtherTransactions, InTransaction, Deciding
  <2> QED BY <1>1, <1>a, <2>1, <2>2, <2>3 DEF PlanInv, PlanningTypeOK
<1>2. CASE PublishCommit(self)
  <2>1. CASE Refuse(self)
    BY <2>1, RefuseStays
  <2>2. CASE ~ Refuse(self)
    <3>1. a.op = "publishDraft" /\ Gone(a) = {}
      BY <1>2 DEF PublishCommit, At, Gone
    <3>2. PICK id \in InsertOrders(a.slots) : shifts' = Replaced({}, id, a.users)
      BY <1>2, <2>2 DEF PublishCommit
    <3>3. /\ ~a.doomed /\ drafts' = [drafts EXCEPT ![a.draft] = Published(a.draft, a.slots)]
          /\ FinishDooming(self, OtherTransactions(self)) /\ UNCHANGED <<workspace, onLeave, now>>
      BY <1>2, <2>2 DEF PublishCommit
    <3>4. ASSUME a.draft \in DraftId PROVE Published(a.draft, a.slots) \in DraftRow
      <4> PICK d \in DraftId : d = a.draft
        BY <3>4
      <4> PICK items : items =
            [s \in Slot |-> IF s \in a.slots
                            THEN [drafts[d].items[s] EXCEPT !.status = "PUBLISHED"]
                            ELSE drafts[d].items[s]]
        OBVIOUS
      <4>1. drafts[d] \in DraftRow /\ drafts[d].items \in [Slot -> ItemRow]
        BY <1>a DEF DraftRow
      <4>2. items \in [Slot -> ItemRow]
        BY <4>1, SMTT(30) DEF ItemRow
      <4>3. Published(d, a.slots) = [drafts[d] EXCEPT !.status = "PUBLISHED", !.items = items]
        BY Zenon DEF Published
      <4> QED BY <4>1, <4>2, <4>3 DEF DraftRow, DraftStatus
    <3>5. drafts' \in [DraftId -> DraftRow]
      BY <3>3, <3>4, RowWritten
    <3> QED BY <1>1, <3>1, <3>2, <3>3, <3>5 DEF Serializable
  <2> QED BY <2>1, <2>2
<1>3. CASE ReplaceCommit(self)
  <2>1. CASE Refuse(self)
    BY <2>1, RefuseStays
  <2>2. CASE ~ Refuse(self)
    <3>1. a.op = "replacePlanningShifts" /\ Gone(a) = a.rows
      BY <1>3 DEF ReplaceCommit, At, Gone
    <3>2. PICK id \in InsertOrders(a.slots) : shifts' = Replaced(a.rows, id, a.users)
      BY <1>3, <2>2 DEF ReplaceCommit
    <3>3. /\ ~a.doomed /\ FinishDooming(self, OtherTransactions(self))
          /\ UNCHANGED <<workspace, drafts, onLeave, now>>
      BY <1>3, <2>2 DEF ReplaceCommit
    <3> QED BY <1>1, <1>a, <3>1, <3>2, <3>3 DEF Serializable
  <2> QED BY <2>1, <2>2
<1>4. CASE RemoveCommit(self)
  <2>1. PICK rows : /\ shifts' = [k \in ShiftId |->
                         IF k \in rows THEN [shifts[k] EXCEPT !.state = "deleted"] ELSE shifts[k]]
                    /\ FinishDooming(self, Touching(rows))
                    /\ UNCHANGED <<workspace, drafts, onLeave, now>>
    BY <1>4 DEF RemoveCommit
  <2>2. ASSUME NEW k \in ShiftId
        PROVE  /\ shifts'[k] \in ShiftRow
               /\ shifts'[k].state = "deleted" \/ shifts'[k] = shifts[k]
    <3>1. shifts'[k] = IF k \in rows THEN [shifts[k] EXCEPT !.state = "deleted"] ELSE shifts[k]
      BY <2>1
    <3> QED BY <1>a, <3>1 DEF ShiftRow
  <2>3. shifts' = [k \in ShiftId |-> shifts'[k]]
    BY <2>1
  <2>4. shifts' \in [ShiftId -> ShiftRow] /\ PlansNothing
    BY <2>2, <2>3 DEF PlansNothing, PlannedShift, Live
  <2> QED BY <1>a, <2>1, <2>4, CommitStays
<1>5. CASE ClockInCommit(self) \/ OfferCommit(self)
  BY <1>5, ReferKeeps
<1> QED BY <1>2, <1>3, <1>4, <1>5 DEF ShiftCommit

\* An offer is closed, a single shift is created, leave is approved.
LEMMA ShiftEditKeeps ==
  ASSUME PlanInv, ShiftEdit
  PROVE  PlanInv'
<1>a. /\ workspace \in SUBSET Slot /\ drafts \in [DraftId -> DraftRow]
      /\ shifts \in [ShiftId -> ShiftRow] /\ onLeave \in SUBSET (User \X Slot)
      /\ now \in 0 .. MaxTime
  BY DEF PlanInv, PlanningTypeOK
<1>1. ASSUME NEW k \in ShiftId, CloseOffer(k) PROVE PlanInv'
  <2>1. /\ shifts' = [shifts EXCEPT ![k].link = "closed"]
        /\ UNCHANGED <<workspace, drafts, onLeave, now, sess>>
    BY <1>1 DEF CloseOffer
  <2>2. shifts' \in [ShiftId -> ShiftRow] /\ PlansNothing
    BY <1>a, <2>1 DEF PlansNothing, PlannedShift, Live, ShiftRow
  <2> QED BY <1>a, <2>1, <2>2, EditStays
<1>2. ASSUME NEW u \in User, NEW s \in Slot, AddShift(u, s) PROVE PlanInv'
  <2>1. PICK k \in ShiftId : shifts' = [shifts EXCEPT ![k] = NewShift(s, u, FALSE)]
    BY <1>2 DEF AddShift
  <2>2. NewShift(s, u, FALSE) \in ShiftRow /\ ~NewShift(s, u, FALSE).planned
    BY DEF NewShift, ShiftRow, MaybeUser
  <2>3. shifts' \in [ShiftId -> ShiftRow] /\ PlansNothing
    BY <1>a, <2>1, <2>2 DEF PlansNothing, PlannedShift, Live
  <2> QED BY <1>2, <1>a, <2>3, EditStays DEF AddShift
<1>3. ASSUME NEW u \in User, NEW s \in Slot, ApproveLeave(u, s) PROVE PlanInv'
  BY <1>3, <1>a, EditStays, SameShifts DEF ApproveLeave
<1> QED BY <1>1, <1>2, <1>3 DEF ShiftEdit

-----------------------------------------------------------------------------

\* Nothing is planned yet.
LEMMA InitPlanInv == PlanningInit => PlanInv
<1> SUFFICES ASSUME PlanningInit PROVE PlanInv
  OBVIOUS
<1>1. UnusedShift \in ShiftRow /\ UnusedShift.state = "unused"
  BY DEF UnusedShift, ShiftRow, MaybeUser
<1>2. 0 \in 0 .. MaxTime
  BY PlanningAssumption
<1>3. PlanningTypeOK
  BY <1>1, <1>2, IdleTyped, NewRows DEF PlanningInit, PlanningTypeOK
<1>4. \A k \in ShiftId : ~PlannedShift(k)
  BY <1>1 DEF PlanningInit, PlannedShift, Live
<1>5. \A p \in Session : Deciding(sess[p])
  BY IdleTyped DEF PlanningInit, Deciding
<1> QED BY <1>3, <1>4, <1>5 DEF PlanInv, OneShiftPerDemand, PlanBooksOnce

\* PlanInv is inductive.
LEMMA PlanInvInductive == PlanInv /\ [Next]_vars => PlanInv'
<1> SUFFICES ASSUME PlanInv, [Next]_vars PROVE PlanInv'
  OBVIOUS
<1>1. ASSUME NEW self \in Session, Request(self) PROVE PlanInv'
  BY <1>1, DraftRequestKeeps, WishRequestKeeps, ShiftRequestKeeps DEF Request
<1>2. ASSUME NEW self \in Session, Commit(self) PROVE PlanInv'
  BY <1>2, DraftCommitKeeps, WishCommitKeeps, ShiftCommitKeeps DEF Commit
<1>3. ASSUME NEW self \in Session, Crash(self) PROVE PlanInv'
  BY <1>3, RefuseStays DEF Crash
<1>4. CASE Edit
  BY <1>4, WorkspaceEditKeeps, ShiftEditKeeps DEF Edit
<1>5. CASE Tick \/ UNCHANGED vars
  <2>1. UNCHANGED <<tables, sess>> /\ now' \in 0 .. MaxTime
    BY <1>5, PlanningAssumption DEF Tick, vars, tables, PlanInv, PlanningTypeOK
  <2> QED BY <2>1, EditStays, SameShifts DEF tables, PlanInv, PlanningTypeOK
<1>6. ASSUME NEW self \in Session, DraftStep(self) PROVE PlanInv'
  BY <1>6, DraftStepKeeps
<1> QED BY <1>1, <1>2, <1>3, <1>4, <1>5, <1>6 DEF Next

\* The invariant of the drafts holds throughout.
LEMMA PlanInvAlways == Spec => []PlanInv
BY InitPlanInv, PlanInvInductive, PTL DEF Spec

\* Every table and every request in flight keeps its type, for every number of
\* employees, periods, drafts and shifts.
THEOREM PlanningTypeCorrect == Spec => []PlanningTypeOK
<1>1. PlanInv => PlanningTypeOK
  BY DEF PlanInv
<1> QED BY PlanInvAlways, <1>1, PTL

\* No demand becomes two shifts: publishDraft and replacePlanningShifts insert
\* what their snapshot lacked, and only one of two that overlap commits.
THEOREM DemandsAreMetOnce == Spec => []OneShiftPerDemand
<1>1. PlanInv => OneShiftPerDemand
  BY DEF PlanInv
<1> QED BY PlanInvAlways, <1>1, PTL

\* Nobody is planned twice at the same time, although items are assigned while
\* publications and replacements that read them are in flight.
THEOREM PlansBookOnce == Spec => []PlanBooksOnce
<1>1. PlanInv => PlanBooksOnce
  BY DEF PlanInv
<1> QED BY PlanInvAlways, <1>1, PTL

-----------------------------------------------------------------------------
(* Six more properties are false of Spec: some requests decide from what      *)
(* others of a certain kind change under them.  They hold as long as those    *)
(* two kinds do not overlap (and, for one, the month plan is not edited while *)
(* it is saved), which is all the planning run asks of the requests, too.      *)

Apart(op, other) ==
  \A p, q \in Session : ~(sess[p].op = op /\ sess[q].op = other)

\* What needs no such condition.  A transaction holds an editable draft, alone,
\* with the items it is about; a draft that is not there is empty; a request for an
\* item, or for a round, is about a draft there was, and no older generation
\* comes back while the draft is there.
Vacant(row) ==
  /\ row.round = "none" /\ ~row.named
  /\ \A s \in Slot : row.items[s].status = "absent"

ItemOps == {"setItemWishEnabled", "assignWish", "createWish", "withdrawWish"}
OnDraft == Serializable \cup ItemOps
             \cup {"copyNamedDraft", "updateNamedDraft", "deleteDraft",
                   "openRound", "closeRound"}

HoldsDraft(a) ==
  /\ a.op \in OnDraft => a.draft \in DraftId /\ drafts[a.draft].status # "unused"
  /\ a.op \in Serializable => Editable(a.draft)
  /\ a.op = "publishDraft" => a.slots \subseteq ItemSlots(a.draft)
  /\ a.op \in ItemOps =>
       a.slot \in Slot /\ (drafts[a.draft].status # "deleted" => a.gen <= drafts[a.draft].gen)

DraftInv ==
  /\ PlanInv
  /\ \A d \in DraftId : drafts[d].status \in {"unused", "deleted"} => Vacant(drafts[d])
  /\ \A p \in Session : HoldsDraft(sess[p])
  /\ \A p, q \in Session :
       InTransaction(p) /\ InTransaction(q) /\ sess[p].draft = sess[q].draft => p = q

\* A draft being deleted is not published, ...
Deletable(a) == a.op = "deleteDraft" => drafts[a.draft].status # "PUBLISHED"
DeleteInv == DraftInv /\ \A p \in Session : Deletable(sess[p])

\* ... nor is one an employee is being assigned in, ...
Assignable(a) == a.op = "assignWish" => drafts[a.draft].status # "PUBLISHED"
PublishedInv ==
  /\ DeleteInv
  /\ \A d \in DraftId, s \in Slot :
       drafts[d].items[s].status = "PUBLISHED" => drafts[d].status = "PUBLISHED"
  /\ \A p \in Session : Assignable(sess[p])

\* ... one being recalculated has no round, ...
Recalculable(a) == a.op = "updateNamedDraft" => drafts[a.draft].round = "none"
RoundInv == DraftInv /\ \A p \in Session : Recalculable(sess[p])

\* ... the employee being assigned wishes for the item, ...
Wishing(a) ==
  a.op = "assignWish" =>
    /\ a.user \in Qualified
    /\ drafts[a.draft].gen = a.gen /\ drafts[a.draft].items[a.slot].status # "absent"
         => drafts[a.draft].items[a.slot].wishes[a.user] = "active"
WishInv == DraftInv /\ \A p \in Session : Wishing(sess[p])

\* ... the month plan is as the draft being saved has read it, ...
SavesPlan(a) == a.op \in {"saveNamedDraft", "updateNamedDraft"}
Saving(a) == SavesPlan(a) => a.slots = workspace
\* ... the copy of a named draft has the days the source still has, ...
Copying(a) ==
  a.op = "copyNamedDraft" /\ a.flag =>
    /\ drafts[a.draft].named
    /\ a.copied => a.slots = drafts[a.draft].days
DaysInv ==
  /\ DeleteInv /\ DaysMatchItems
  /\ \A p \in Session : Saving(sess[p]) /\ Copying(sess[p])
PlanLeftAlone == (\E p \in Session : SavesPlan(sess[p])) => UNCHANGED workspace

\* ... and nobody works in a shift being replaced or removed, or offers one
\* being removed.
Unworked(a) ==
  \/ a.op = "removePlanningShifts"
  \/ a.op = "replacePlanningShifts" /\ ~a.doomed
  => \A k \in a.rows : ~shifts[k].worked
WorkInv == PlanInv /\ \A p \in Session : Unworked(sess[p])

Unoffered(a) ==
  a.op = "removePlanningShifts" => \A k \in a.rows : shifts[k].link # "open"
OfferInv == PlanInv /\ OpenOfferHasShift /\ \A p \in Session : Unoffered(sess[p])

-----------------------------------------------------------------------------
(* Sessions again *)

\* What a request has seen when it starts.
Begun(a) ==
  /\ a.op \in OnDraft => a.draft \in DraftId /\ drafts[a.draft].status # "unused"
  /\ a.op \in Serializable => Editable(a.draft) /\ ~Locked(a.draft)
  /\ a.op = "publishDraft" => a.slots \subseteq ItemSlots(a.draft)
  /\ a.op = "replacePlanningShifts" => \A k \in a.rows : ~shifts[k].worked
  /\ a.op = "removePlanningShifts" =>
       \A k \in a.rows : ~shifts[k].worked /\ shifts[k].link = "none"
  /\ a.op \in ItemOps =>
       a.slot \in Slot /\ Editable(a.draft) /\ a.gen = drafts[a.draft].gen
  /\ a.op = "assignWish" =>
       a.user \in Qualified /\ drafts[a.draft].items[a.slot].wishes[a.user] = "active"
  /\ a.op = "updateNamedDraft" => drafts[a.draft].round = "none"
  /\ a.op = "deleteDraft" => drafts[a.draft].status # "PUBLISHED"
  /\ a.op = "copyNamedDraft" => a.flag = drafts[a.draft].named /\ ~a.copied
  /\ SavesPlan(a) => a.slots = workspace

Begins(self) == \E a : Begin(self, a) /\ Begun(a) /\ UNCHANGED <<tables, now>>

\* Requests for drafts.
LEMMA DraftRequestBegins ==
  ASSUME PlanInv, NEW self \in Session, DraftRequest(self)
  PROVE  Begins(self)
<1> USE IdleTyped DEF SessionState
<1>1. CASE PrepareMonthRead(self)
  <2> DEFINE a == [Idle EXCEPT !.op = "prepareMonth", !.slots = workspace]
  <2>1. Begin(self, a) /\ UNCHANGED <<tables, now>>
    BY <1>1 DEF PrepareMonthRead
  <2>2. a.op = "prepareMonth"
    OBVIOUS
  <2> HIDE DEF a
  <2> QED BY <2>1, <2>2 DEF Begins, Begun, OnDraft, Serializable, ItemOps, SavesPlan
<1>2. CASE SaveNamedDraftRead(self)
  <2> DEFINE a == [Idle EXCEPT !.op = "saveNamedDraft", !.slots = workspace]
  <2>1. Begin(self, a) /\ UNCHANGED <<tables, now>>
    BY <1>2 DEF SaveNamedDraftRead
  <2>2. a.op = "saveNamedDraft" /\ a.slots = workspace
    OBVIOUS
  <2> HIDE DEF a
  <2> QED BY <2>1, <2>2 DEF Begins, Begun, OnDraft, Serializable, ItemOps, SavesPlan
<1>3. ASSUME NEW d \in DraftId, UpdateNamedDraftRead(self, d) PROVE Begins(self)
  <2> DEFINE a == [Idle EXCEPT !.op = "updateNamedDraft", !.draft = d, !.slots = workspace]
  <2>1. /\ Begin(self, a) /\ UNCHANGED <<tables, now>>
        /\ drafts[d].round = "none" /\ drafts[d].status # "unused"
    BY <1>3 DEF UpdateNamedDraftRead, Editable
  <2>2. a.op = "updateNamedDraft" /\ a.slots = workspace /\ a.draft = d
    OBVIOUS
  <2> HIDE DEF a
  <2> QED BY <2>1, <2>2 DEF Begins, Begun, OnDraft, Serializable, ItemOps, SavesPlan
<1>4. ASSUME NEW d \in DraftId, DeleteDraftRead(self, d) PROVE Begins(self)
  <2> DEFINE a == [Idle EXCEPT !.op = "deleteDraft", !.draft = d]
  <2>1. /\ Begin(self, a) /\ UNCHANGED <<tables, now>>
        /\ drafts[d].status \notin {"unused", "PUBLISHED"}
    BY <1>4 DEF DeleteDraftRead
  <2>2. a.op = "deleteDraft" /\ a.draft = d
    OBVIOUS
  <2> HIDE DEF a
  <2> QED BY <2>1, <2>2 DEF Begins, Begun, OnDraft, Serializable, ItemOps, SavesPlan
<1>5. ASSUME NEW d \in DraftId, CopyDraftRead(self, d) PROVE Begins(self)
  <2> DEFINE a == [Idle EXCEPT !.op = "copyNamedDraft", !.draft = d, !.flag = drafts[d].named]
  <2>1. /\ Begin(self, a) /\ UNCHANGED <<tables, now>> /\ drafts[d].status # "unused"
    BY <1>5 DEF CopyDraftRead
  <2>2. a.op = "copyNamedDraft" /\ a.draft = d /\ a.flag = drafts[d].named /\ ~a.copied
    BY DEF Idle
  <2> HIDE DEF a
  <2> QED BY <2>1, <2>2 DEF Begins, Begun, OnDraft, Serializable, ItemOps, SavesPlan
<1> QED BY <1>1, <1>2, <1>3, <1>4, <1>5 DEF DraftRequest

\* A request for an item of a draft that can be edited.
LEMMA ItemRequestBegins ==
  ASSUME PlanInv, NEW self \in Session, NEW op \in ItemOps, NEW d \in DraftId, NEW s \in Slot,
         NEW u, NEW flag, Editable(d), BeginOnItem(self, op, d, s, u, flag),
         op = "assignWish" => u \in Qualified /\ drafts[d].items[s].wishes[u] = "active"
  PROVE  Begins(self)
<1> DEFINE a == [Idle EXCEPT !.op = op, !.draft = d, !.gen = drafts[d].gen,
                             !.slot = s, !.user = u, !.flag = flag]
<1>1. Begin(self, a) /\ UNCHANGED <<tables, now>>
  BY DEF BeginOnItem
<1>2. a.op = op /\ a.draft = d /\ a.slot = s /\ a.user = u /\ a.gen = drafts[d].gen
  BY IdleTyped DEF SessionState
<1>3. drafts[d].status # "unused"
  BY DEF Editable
<1> HIDE DEF a
<1>4. Begun(a)
  BY <1>2, <1>3 DEF Begun, OnDraft, Serializable, ItemOps, SavesPlan
<1> QED BY <1>1, <1>4 DEF Begins

\* Requests of a wish round.
LEMMA WishRequestBegins ==
  ASSUME PlanInv, NEW self \in Session, WishRequest(self)
  PROVE  Begins(self)
<1>1. ASSUME NEW d \in DraftId, NEW enable, NEW t, OpenRoundRead(self, d, enable, t)
      PROVE  Begins(self)
  <2> DEFINE a == [Idle EXCEPT !.op = "openRound", !.draft = d, !.flag = enable,
                               !.closesAt = t, !.slots = {s \in Slot : IsFuture(s)}]
  <2>1. Begin(self, a) /\ UNCHANGED <<tables, now>> /\ drafts[d].status # "unused"
    BY <1>1 DEF OpenRoundRead, Editable
  <2>2. a.op = "openRound" /\ a.draft = d
    BY IdleTyped DEF SessionState
  <2> HIDE DEF a
  <2> QED BY <2>1, <2>2 DEF Begins, Begun, OnDraft, Serializable, ItemOps, SavesPlan
<1>2. ASSUME NEW d \in DraftId, CloseRoundRead(self, d) PROVE Begins(self)
  <2> DEFINE a == [Idle EXCEPT !.op = "closeRound", !.draft = d]
  <2>1. Begin(self, a) /\ UNCHANGED <<tables, now>> /\ drafts[d].status # "unused"
    BY <1>2 DEF CloseRoundRead, Editable
  <2>2. a.op = "closeRound" /\ a.draft = d
    BY IdleTyped DEF SessionState
  <2> HIDE DEF a
  <2> QED BY <2>1, <2>2 DEF Begins, Begun, OnDraft, Serializable, ItemOps, SavesPlan
<1>3. ASSUME NEW d \in DraftId, NEW s \in Slot, NEW enabled \in BOOLEAN,
             SetItemWishEnabledRead(self, d, s, enabled)
      PROVE  Begins(self)
  BY <1>3, ItemRequestBegins DEF SetItemWishEnabledRead, ItemOps
<1>4. ASSUME NEW d \in DraftId, NEW s \in Slot, NEW u \in User,
             \/ AssignWishRead(self, d, s, u)
             \/ CreateWishRead(self, d, s, u)
             \/ WithdrawWishRead(self, d, s, u)
      PROVE  Begins(self)
  <2>1. CASE AssignWishRead(self, d, s, u)
    BY <2>1, ItemRequestBegins DEF AssignWishRead, ItemOps, Item, ActiveQualifiedUser
  <2>2. CASE CreateWishRead(self, d, s, u)
    BY <2>2, ItemRequestBegins DEF CreateWishRead, ItemOps
  <2>3. CASE WithdrawWishRead(self, d, s, u)
    BY <2>3, ItemRequestBegins DEF WithdrawWishRead, ItemOps
  <2> QED BY <1>4, <2>1, <2>2, <2>3
<1> QED BY <1>1, <1>2, <1>3, <1>4 DEF WishRequest

\* Requests for shifts.
LEMMA ShiftRequestBegins ==
  ASSUME PlanInv, NEW self \in Session, ShiftRequest(self)
  PROVE  Begins(self)
<1>1. ASSUME NEW d \in DraftId, PublishRead(self, d) PROVE Begins(self)
  <2> DEFINE a == [Idle EXCEPT !.op = "publishDraft", !.draft = d,
                               !.slots = PublishableSlots(d),
                               !.users = Assignees(d, PublishableSlots(d)),
                               !.rows = ShiftsInSpan(ItemSlots(d))]
  <2>1. /\ Begin(self, a) /\ UNCHANGED <<tables, now>> /\ Editable(d) /\ ~Locked(d)
        /\ drafts[d].status # "unused"
    BY <1>1 DEF PublishRead, Editable
  <2>2. a.op = "publishDraft" /\ a.draft = d /\ a.slots = PublishableSlots(d)
    BY IdleTyped DEF SessionState
  <2>3. PublishableSlots(d) \subseteq ItemSlots(d)
    BY DEF PublishableSlots
  <2> HIDE DEF a
  <2>4. Begun(a)
    BY <2>1, <2>2, <2>3 DEF Begun, OnDraft, Serializable, ItemOps, SavesPlan
  <2> QED BY <2>1, <2>4 DEF Begins
<1>2. ASSUME NEW d \in DraftId, NEW r, ReplaceRead(self, d, r) PROVE Begins(self)
  <2> PICK old : old = {k \in PlannedIn(r) : shifts[k].slot.from > now}
    OBVIOUS
  <2> PICK created : created =
        {s \in {s \in ItemSlots(d) : Within(s, r) /\ s.from > now} :
           ~Satisfied(d, s, LiveShifts \ old)}
    OBVIOUS
  <2> DEFINE a == [Idle EXCEPT !.op = "replacePlanningShifts", !.draft = d,
                               !.slots = created, !.users = Assignees(d, created),
                               !.rows = old]
  <2>1. /\ Begin(self, a) /\ UNCHANGED <<tables, now>> /\ Editable(d) /\ ~Locked(d)
        /\ drafts[d].status # "unused" /\ \A k \in old : ~shifts[k].worked
    BY <1>2 DEF ReplaceRead, Editable
  <2>2. a.op = "replacePlanningShifts" /\ a.draft = d /\ a.rows = old
    BY IdleTyped DEF SessionState
  <2> HIDE DEF a
  <2>4. Begun(a)
    BY <2>1, <2>2 DEF Begun, OnDraft, Serializable, ItemOps, SavesPlan
  <2> QED BY <2>1, <2>4 DEF Begins
<1>3. ASSUME NEW r, RemoveRead(self, r) PROVE Begins(self)
  <2> DEFINE a == [Idle EXCEPT !.op = "removePlanningShifts", !.rows = PlannedIn(r)]
  <2>1. /\ Begin(self, a) /\ UNCHANGED <<tables, now>>
        /\ \A k \in PlannedIn(r) : ~shifts[k].worked /\ shifts[k].link = "none"
    BY <1>3 DEF RemoveRead
  <2>2. a.op = "removePlanningShifts" /\ a.rows = PlannedIn(r)
    BY IdleTyped DEF SessionState
  <2> HIDE DEF a
  <2>4. Begun(a)
    BY <2>1, <2>2 DEF Begun, OnDraft, Serializable, ItemOps, SavesPlan
  <2> QED BY <2>1, <2>4 DEF Begins
<1>4. ASSUME NEW k \in ShiftId, ClockInRead(self, k) \/ OfferRead(self, k) PROVE Begins(self)
  <2>1. PICK op \in {"clockIn", "offer"} :
          /\ Begin(self, [Idle EXCEPT !.op = op, !.rows = {k}])
          /\ UNCHANGED <<tables, now>>
    BY <1>4 DEF ClockInRead, OfferRead
  <2> DEFINE a == [Idle EXCEPT !.op = op, !.rows = {k}]
  <2>2. a.op = op
    BY IdleTyped DEF SessionState
  <2>3. Begin(self, a)
    BY <2>1
  <2> HIDE DEF a
  <2>4. Begun(a)
    BY <2>2 DEF Begun, OnDraft, Serializable, ItemOps, SavesPlan
  <2> QED BY <2>1, <2>3, <2>4 DEF Begins
<1> QED BY <1>1, <1>2, <1>3, <1>4 DEF ShiftRequest

\* A step begins one request, or ends one and lets the others go on, or
\* leaves them all alone.
Ends(self) == sess'[self] = Idle /\ \A p \in Session \ {self} : GoesOn(p)

LEMMA CommitEnds ==
  ASSUME PlanInv, NEW self \in Session, Commit(self) \/ Crash(self)
  PROVE  Ends(self)
<1>1. ASSUME NEW hit, FinishDooming(self, hit) PROVE Ends(self)
  BY <1>1, FinishWork DEF Ends
<1>2. Refuse(self) \/ Finish(self) => Ends(self)
  BY <1>1 DEF Refuse, Finish
<1>3. CASE Crash(self)
  BY <1>2, <1>3 DEF Crash
<1>4. CASE DraftCommit(self)
  BY <1>2, <1>4 DEF DraftCommit, PrepareMonthCommit, SaveNamedDraftCommit, CopyDaysCommit,
    UpdateNamedDraftCommit, DeleteDraftCommit
<1>5. CASE WishCommit(self)
  <2>1. ASSUME NEW row, NEW hit, CommitOnItem(self, row, hit) PROVE Ends(self)
    BY <1>1, <1>2, <2>1 DEF CommitOnItem
  <2>2. CASE OpenRoundCommit(self)
    BY <1>1, <1>2, <2>2 DEF OpenRoundCommit
  <2>3. CASE CloseRoundCommit(self)
    BY <1>2, <2>3 DEF CloseRoundCommit
  <2>4. CASE SetItemWishEnabledCommit(self)
    BY <2>1, <2>4 DEF SetItemWishEnabledCommit
  <2>5. CASE AssignWishCommit(self)
    BY <2>1, <2>5 DEF AssignWishCommit
  <2>6. CASE CreateWishCommit(self)
    BY <2>1, <2>6 DEF CreateWishCommit
  <2>7. CASE WithdrawWishCommit(self)
    BY <1>2, <2>1, <2>7 DEF WithdrawWishCommit
  <2> QED BY <1>5, <2>2, <2>3, <2>4, <2>5, <2>6, <2>7 DEF WishCommit
<1>6. CASE ShiftCommit(self)
  <2>1. ASSUME NEW row, ReferToShift(self, row) PROVE Ends(self)
    BY <1>1, <1>2, <2>1 DEF ReferToShift
  <2>2. CASE PublishCommit(self)
    BY <1>1, <1>2, <2>2 DEF PublishCommit
  <2>3. CASE ReplaceCommit(self)
    BY <1>1, <1>2, <2>3 DEF ReplaceCommit
  <2>4. CASE RemoveCommit(self)
    BY <1>1, <2>4 DEF RemoveCommit
  <2>5. CASE ClockInCommit(self) \/ OfferCommit(self)
    BY <2>1, <2>5 DEF ClockInCommit, OfferCommit
  <2> QED BY <1>6, <2>2, <2>3, <2>4, <2>5 DEF ShiftCommit
<1> QED BY <1>3, <1>4, <1>5, <1>6 DEF Commit

\* What becomes of one request.
LEMMA SessionMoves ==
  ASSUME PlanInv, [Next]_vars, NEW p \in Session
  PROVE  \/ Begins(p)
         \/ sess'[p] = Idle
         \/ GoesOn(p)
         \/ DraftStep(p)
<1>0. sess'[p] = sess[p] => GoesOn(p)
  BY DEF GoesOn
<1>1. ASSUME NEW self \in Session, Request(self)
      PROVE  Begins(p) \/ GoesOn(p)
  <2>1. Begins(self)
    BY <1>1, DraftRequestBegins, WishRequestBegins, ShiftRequestBegins DEF Request
  <2>2. p # self => sess'[p] = sess[p]
    BY <2>1 DEF Begins, Begin, PlanInv, PlanningTypeOK
  <2> QED BY <1>0, <2>1, <2>2
<1>2. ASSUME NEW self \in Session, Commit(self) \/ Crash(self)
      PROVE  sess'[p] = Idle \/ GoesOn(p)
  BY <1>2, CommitEnds DEF Ends
<1>3. CASE Edit \/ Tick \/ UNCHANGED vars
  BY <1>0, <1>3 DEF Edit, WorkspaceEdit, ShiftEdit, UpsertMonthPlanDay, CreateNamedDraft,
    OpenNamedDraftWorkspace, CloseOffer, AddShift, ApproveLeave, Tick, vars
<1>4. ASSUME NEW self \in Session, DraftStep(self), p # self PROVE GoesOn(p)
  BY <1>0, <1>4, CopyGoesOn
<1> QED BY <1>1, <1>2, <1>3, <1>4 DEF Next

-----------------------------------------------------------------------------
(* What a step does to a draft *)

\* The row but for its items, status and round.
SameFrame(d) ==
  /\ drafts'[d].named = drafts[d].named
  /\ drafts'[d].days = drafts[d].days
  /\ drafts'[d].gen = drafts[d].gen
SameStatus(d) == SameFrame(d) /\ drafts'[d].status = drafts[d].status
SameItem(d, s) ==
  /\ drafts'[d].items[s].status = drafts[d].items[s].status
  /\ drafts'[d].items[s].user = drafts[d].items[s].user
  /\ \A u \in User :
       drafts[d].items[s].wishes[u] = "active" => drafts'[d].items[s].wishes[u] = "active"
SameItems(d) == \A s \in Slot : SameItem(d, s)
NewItems(d) == \A s \in Slot : drafts'[d].items[s].status \in {"absent", "DRAFT"}

Running(p, op, d) == At(p, op) /\ sess[p].draft = d /\ sess'[p] = Idle

Stays(d) == SameStatus(d) /\ SameItems(d) /\ drafts'[d].round = drafts[d].round
Supersedes(d) ==
  /\ Editable(d) /\ ~Locked(d)
  /\ SameFrame(d) /\ SameItems(d) /\ drafts'[d].round = drafts[d].round
  /\ drafts'[d].status = "SUPERSEDED"
\* The items of a new draft are those of its days, unless the month plan or the
\* draft it is copied from was changed between the two reads.
FollowsDays(d) ==
  \/ ~drafts'[d].named
  \/ \E p \in Session :
       /\ At(p, "saveNamedDraft") /\ drafts'[d].days = workspace
       /\ \A s \in Slot : drafts'[d].items[s].status # "absent" <=> s \in sess[p].slots
  \/ /\ drafts'[d].days = {}
     /\ \A s \in Slot : drafts'[d].items[s].status = "absent"
  \/ \E p \in Session :
       /\ At(p, "copyNamedDraft") /\ sess[p].copied
       /\ drafts'[d].named = sess[p].flag /\ drafts'[d].days = drafts[sess[p].draft].days
       /\ \A s \in Slot : drafts'[d].items[s].status # "absent" <=> s \in sess[p].slots
Inserts(d) ==
  /\ drafts[d].status = "unused" /\ drafts'[d].status = "DRAFT"
  /\ drafts'[d].round = "none" /\ NewItems(d) /\ FollowsDays(d)
Updates(d) ==
  \E p \in Session :
    /\ Running(p, "updateNamedDraft", d) /\ Editable(d) /\ ~Locked(d)
    /\ drafts'[d].status = drafts[d].status /\ drafts'[d].round = drafts[d].round
    /\ drafts'[d].named = drafts[d].named /\ drafts'[d].gen = drafts[d].gen + 1
    /\ drafts'[d].days = workspace /\ NewItems(d)
    /\ \A s \in Slot : drafts'[d].items[s].status # "absent" <=> s \in sess[p].slots
Deletes(d) ==
  \E p \in Session :
    /\ Running(p, "deleteDraft", d) /\ ~Locked(d)
    /\ \A s \in Slot : drafts'[d].items[s].status = "absent"
    /\ \/ /\ drafts[d].status = "PUBLISHED" /\ SameStatus(d)
          /\ drafts'[d].round = drafts[d].round
       \/ /\ drafts[d].status # "PUBLISHED" /\ drafts'[d].status = "deleted"
          /\ ~drafts'[d].named /\ drafts'[d].round = "none"
Publishes(d) ==
  \E p \in Session :
    /\ Running(p, "publishDraft", d)
    /\ SameFrame(d) /\ drafts'[d].round = drafts[d].round
    /\ drafts'[d].status = "PUBLISHED"
    /\ \A s \in Slot :
         \/ SameItem(d, s)
         \/ /\ s \in sess[p].slots /\ drafts'[d].items[s].status = "PUBLISHED"
            /\ drafts'[d].items[s].user = drafts[d].items[s].user
            /\ drafts'[d].items[s].wishes = drafts[d].items[s].wishes
Opens(d) ==
  /\ \E p \in Session : Running(p, "openRound", d)
  /\ drafts[d].status # "deleted"
  /\ SameStatus(d) /\ SameItems(d) /\ drafts'[d].round = "OPEN"
Closes(d) ==
  /\ drafts[d].round # "none"
  /\ SameStatus(d) /\ SameItems(d) /\ drafts'[d].round = "CLOSED"
\* A row of the item a request is about is written.
Writes(d) ==
  \E p \in Session, op \in ItemOps :
    /\ Running(p, op, d) /\ SessionItemExists(p)
    /\ SameStatus(d) /\ drafts'[d].round = drafts[d].round
    /\ \A s \in Slot : s # sess[p].slot => SameItem(d, s)
    /\ sess[p].slot \in Slot =>
         /\ drafts'[d].items[sess[p].slot].status = drafts[d].items[sess[p].slot].status
         /\ \/ drafts'[d].items[sess[p].slot].user = drafts[d].items[sess[p].slot].user
            \/ op = "assignWish" /\ drafts'[d].items[sess[p].slot].user = sess[p].user
         /\ \/ op = "withdrawWish"
            \/ \A u \in User :
                 drafts[d].items[sess[p].slot].wishes[u] = "active"
                   => drafts'[d].items[sess[p].slot].wishes[u] = "active"

DraftMove(d) ==
  \/ Stays(d) \/ Supersedes(d) \/ Inserts(d) \/ Updates(d) \/ Deletes(d)
  \/ Publishes(d) \/ Opens(d) \/ Closes(d) \/ Writes(d)

LEMMA SameRow ==
  ASSUME NEW d \in DraftId, drafts'[d] = drafts[d]
  PROVE  DraftMove(d)
BY DEF DraftMove, Stays, SameStatus, SameFrame, SameItems, SameItem

\* A row is written, ...
LEMMA ThatRow ==
  ASSUME PlanInv, NEW d \in DraftId, NEW row, drafts' = [drafts EXCEPT ![d] = row]
  PROVE  drafts'[d] = row
BY DEF PlanInv, PlanningTypeOK

\* ... and the others stay.
LEMMA OneRow ==
  ASSUME PlanInv, NEW e, NEW row, drafts' = [drafts EXCEPT ![e] = row],
         NEW d \in DraftId, d # e
  PROVE  DraftMove(d)
BY SameRow DEF PlanInv, PlanningTypeOK

\* The fields of the rows drafts are made from.
LEMMA NewFields ==
  /\ \A slots \in SUBSET Slot, s \in Slot :
       /\ Generate(slots)[s].status = IF s \in slots THEN "DRAFT" ELSE "absent"
  /\ \A s \in Slot : NoItems[s].status = "absent"
  /\ UnusedDraft.round = "none" /\ ~UnusedDraft.named /\ UnusedDraft.items = NoItems
  /\ \A items : /\ MonthDraft(items).status = "DRAFT" /\ MonthDraft(items).round = "none"
                /\ MonthDraft(items).items = items /\ ~MonthDraft(items).named
  /\ \A days, items :
       /\ NamedDraft(days, items).status = "DRAFT" /\ NamedDraft(days, items).round = "none"
       /\ NamedDraft(days, items).items = items /\ NamedDraft(days, items).days = days
<1>1. NoItem.status = "absent" /\ NoItem \in ItemRow
  BY NewRows DEF NoItem
<1>2. ASSUME NEW slots \in SUBSET Slot, NEW s \in Slot
      PROVE  Generate(slots)[s].status = IF s \in slots THEN "DRAFT" ELSE "absent"
  <2>1. [NoItem EXCEPT !.status = "DRAFT", !.user = DefaultUser[s]].status = "DRAFT"
    BY <1>1 DEF ItemRow
  <2> QED BY <1>1, <2>1 DEF Generate
<1>3. \A s \in Slot : NoItems[s].status = "absent"
  BY <1>1 DEF NoItems
<1>4. UnusedDraft.round = "none" /\ ~UnusedDraft.named /\ UnusedDraft.items = NoItems
  BY DEF UnusedDraft
<1>5. ASSUME NEW items
      PROVE  /\ MonthDraft(items).status = "DRAFT" /\ MonthDraft(items).round = "none"
             /\ MonthDraft(items).items = items /\ ~MonthDraft(items).named
             /\ \A days :
                  /\ NamedDraft(days, items).status = "DRAFT"
                  /\ NamedDraft(days, items).round = "none"
                  /\ NamedDraft(days, items).items = items
                  /\ NamedDraft(days, items).days = days
  BY DEF UnusedDraft, MonthDraft, NamedDraft
<1> QED BY <1>2, <1>3, <1>4, <1>5

\* Edits of the month plan make new drafts.
LEMMA WorkspaceEditMoves ==
  ASSUME PlanInv, WorkspaceEdit, NEW d \in DraftId
  PROVE  DraftMove(d)
<1>0. drafts' = drafts => DraftMove(d)
  BY SameRow
<1>1. ASSUME NEW s, UpsertMonthPlanDay(s) PROVE DraftMove(d)
  BY <1>0, <1>1 DEF UpsertMonthPlanDay
<1>2. CASE CreateNamedDraft
  <2>1. PICK e \in DraftId : /\ First(e, UnusedDraftIds)
                             /\ drafts' = [drafts EXCEPT ![e] = NamedDraft({}, NoItems)]
    BY <1>2 DEF CreateNamedDraft, InsertDraft
  <2>2. CASE d # e
    BY <2>1, <2>2, OneRow
  <2>3. CASE d = e
    <3>1. drafts'[d] = NamedDraft({}, NoItems) /\ drafts[d].status = "unused"
      BY <2>1, <2>3, ThatRow DEF First, UnusedDraftIds
    <3>2. Inserts(d)
      BY <3>1, NewFields DEF Inserts, NewItems, FollowsDays
    <3> QED BY <3>2 DEF DraftMove
  <2> QED BY <2>2, <2>3
<1>3. ASSUME NEW e \in DraftId, OpenNamedDraftWorkspace(e) PROVE DraftMove(d)
  BY <1>0, <1>3 DEF OpenNamedDraftWorkspace
<1> QED BY <1>1, <1>2, <1>3 DEF WorkspaceEdit

\* Drafts are generated, recalculated, superseded and deleted.
LEMMA DraftCommitMoves ==
  ASSUME PlanInv, NEW self \in Session, DraftCommit(self), NEW d \in DraftId
  PROVE  DraftMove(d)
<1> PICK slots : slots = sess[self].slots
  OBVIOUS
<1>a. /\ workspace \in SUBSET Slot /\ slots \in SUBSET Slot /\ drafts[d] \in DraftRow
      /\ sess'[self] = Idle
  <2>1. sess'[self] = Idle
    BY CommitEnds DEF Commit, Ends
  <2>2. sess[self] \in SessionState
    BY DEF PlanInv, PlanningTypeOK
  <2>3. slots \in SUBSET Slot
    BY <2>2 DEF SessionState
  <2> QED BY <2>1, <2>3 DEF PlanInv, PlanningTypeOK
<1>0. drafts' = drafts => DraftMove(d)
  BY SameRow
<1>1. CASE PrepareMonthCommit(self)
  <2>1. PICK new \in DraftId :
          /\ First(new, UnusedDraftIds)
          /\ drafts' = [e \in DraftId |->
               IF e = new THEN MonthDraft(Generate(slots))
               ELSE IF Editable(e) THEN [drafts[e] EXCEPT !.status = "SUPERSEDED"]
               ELSE drafts[e]]
    BY <1>1 DEF PrepareMonthCommit
  <2>2. CASE d = new
    <3>1. drafts'[d] = MonthDraft(Generate(slots)) /\ drafts[d].status = "unused"
      BY <2>1, <2>2 DEF First, UnusedDraftIds
    <3>2. Inserts(d)
      BY <1>a, <3>1, NewFields DEF Inserts, NewItems, FollowsDays
    <3> QED BY <3>2 DEF DraftMove
  <2>3. CASE d # new /\ Editable(d)
    <3>1. drafts'[d] = [drafts[d] EXCEPT !.status = "SUPERSEDED"] /\ ~Locked(d)
      BY <1>1, <2>1, <2>3 DEF PrepareMonthCommit
    <3>2. /\ drafts'[d].status = "SUPERSEDED" /\ drafts'[d].items = drafts[d].items
          /\ drafts'[d].named = drafts[d].named /\ drafts'[d].days = drafts[d].days
          /\ drafts'[d].gen = drafts[d].gen /\ drafts'[d].round = drafts[d].round
      BY <1>a, <3>1 DEF DraftRow
    <3>3. Supersedes(d)
      BY <2>3, <3>1, <3>2 DEF Supersedes, SameFrame, SameItems, SameItem
    <3> QED BY <3>3 DEF DraftMove
  <2>4. CASE d # new /\ ~Editable(d)
    BY <2>1, <2>4, SameRow
  <2> QED BY <2>2, <2>3, <2>4
<1>2. CASE SaveNamedDraftCommit(self)
  <2>1. PICK e \in DraftId :
          /\ First(e, UnusedDraftIds)
          /\ drafts' = [drafts EXCEPT ![e] = NamedDraft(workspace, Generate(slots))]
    BY <1>2 DEF SaveNamedDraftCommit, InsertDraft
  <2>2. CASE d # e
    BY <2>1, <2>2, OneRow
  <2>3. CASE d = e
    <3>1. drafts'[d] = NamedDraft(workspace, Generate(slots)) /\ drafts[d].status = "unused"
      BY <2>1, <2>3, ThatRow DEF First, UnusedDraftIds
    <3>2. At(self, "saveNamedDraft")
      BY <1>2 DEF SaveNamedDraftCommit
    <3>3. \A s \in Slot : drafts'[d].items[s].status = IF s \in slots THEN "DRAFT" ELSE "absent"
      BY <1>a, <3>1, NewFields
    <3>4. Inserts(d)
      BY <3>1, <3>2, <3>3, NewFields DEF Inserts, NewItems, FollowsDays
    <3> QED BY <3>4 DEF DraftMove
  <2> QED BY <2>2, <2>3
<1>3. CASE UpdateNamedDraftCommit(self)
  <2>1. CASE Refuse(self)
    BY <1>0, <2>1 DEF Refuse, tables
  <2>2. CASE ~ Refuse(self)
    <3> PICK e : e = sess[self].draft
      OBVIOUS
    <3> DEFINE row == [drafts[e] EXCEPT !.gen = @ + 1, !.days = workspace,
                                        !.items = Generate(slots)]
    <3>1. /\ drafts' = [drafts EXCEPT ![e] =
                [drafts[e] EXCEPT !.gen = @ + 1, !.days = workspace, !.items = Generate(slots)]]
          /\ Editable(e) /\ ~Locked(e) /\ At(self, "updateNamedDraft")
      <4>1. sess[self].draft = e /\ sess[self].slots = slots
        OBVIOUS
      <4> QED BY <1>3, <2>2, <4>1, Zenon DEF UpdateNamedDraftCommit
    <3>2. drafts' = [drafts EXCEPT ![e] = row]
      BY <3>1, Zenon
    <3>3. CASE d # e
      <4> HIDE DEF row
      <4> QED BY <3>2, <3>3, OneRow
    <3>4. CASE d = e
      <4>1. drafts[e] \in DraftRow
        BY <1>a, <3>4
      <4>2. /\ row.gen = drafts[e].gen + 1 /\ row.days = workspace
            /\ row.items = Generate(slots) /\ row.status = drafts[e].status
            /\ row.round = drafts[e].round /\ row.named = drafts[e].named
        BY <4>1 DEF DraftRow
      <4> HIDE DEF row
      <4>3. drafts'[d] = row
        BY <3>2, <3>4, ThatRow
      <4>4. \A s \in Slot : drafts'[d].items[s].status = IF s \in slots THEN "DRAFT" ELSE "absent"
        BY <1>a, <4>2, <4>3, NewFields
      <4>5. Updates(d)
        BY <1>a, <3>1, <3>4, <4>2, <4>3, <4>4 DEF Updates, Running, NewItems
      <4> QED BY <4>5 DEF DraftMove
    <3> QED BY <3>3, <3>4
  <2> QED BY <2>1, <2>2
<1>4. CASE DeleteDraftCommit(self)
  <2> PICK e : e = sess[self].draft
    OBVIOUS
  <2> DEFINE row == IF drafts[e].status = "PUBLISHED" THEN [drafts[e] EXCEPT !.items = NoItems]
                    ELSE [UnusedDraft EXCEPT !.status = "deleted"]
  <2>1. drafts' = [drafts EXCEPT ![e] = row] /\ ~Locked(e) /\ At(self, "deleteDraft")
    BY <1>4 DEF DeleteDraftCommit
  <2>2. CASE d # e
    <3> HIDE DEF row
    <3> QED BY <2>1, <2>2, OneRow
  <2>3. CASE d = e
    <3>1. drafts'[d] = row
      <4> HIDE DEF row
      <4> QED BY <2>1, <2>3, ThatRow
    <3>2. UnusedDraft \in DraftRow
      BY NewRows
    <3>3. CASE drafts[d].status = "PUBLISHED"
      <4>1. drafts'[d] = [drafts[d] EXCEPT !.items = NoItems]
        BY <2>3, <3>1, <3>3
      <4>2. /\ drafts'[d].items = NoItems /\ drafts'[d].status = drafts[d].status
            /\ drafts'[d].named = drafts[d].named /\ drafts'[d].days = drafts[d].days
            /\ drafts'[d].gen = drafts[d].gen /\ drafts'[d].round = drafts[d].round
        BY <1>a, <4>1 DEF DraftRow
      <4>3. Deletes(d)
        BY <1>a, <2>1, <2>3, <3>3, <4>2, NewFields
          DEF Deletes, Running, SameStatus, SameFrame
      <4> QED BY <4>3 DEF DraftMove
    <3>4. CASE drafts[d].status # "PUBLISHED"
      <4>1. drafts'[d] = [UnusedDraft EXCEPT !.status = "deleted"]
        BY <2>3, <3>1, <3>4
      <4>2. /\ drafts'[d].items = NoItems /\ drafts'[d].status = "deleted"
            /\ ~drafts'[d].named /\ drafts'[d].round = "none"
        BY <3>2, <4>1, NewFields DEF DraftRow
      <4>3. Deletes(d)
        BY <1>a, <2>1, <2>3, <3>4, <4>2, NewFields DEF Deletes, Running
      <4> QED BY <4>3 DEF DraftMove
    <3> QED BY <3>3, <3>4
  <2> QED BY <2>2, <2>3
<1>5. ASSUME NEW source \in DraftId, CopyDaysCommit(self, source) PROVE DraftMove(d)
  <2> PICK a : a = sess[self]
    OBVIOUS
  <2> DEFINE items == CopyOf(a.slots, a.users)
             row == [MonthDraft(items) EXCEPT !.named = a.flag, !.days = drafts[source].days]
  <2>1. PICK e \in DraftId : First(e, UnusedDraftIds) /\ drafts' = [drafts EXCEPT ![e] = row]
    BY <1>5 DEF CopyDaysCommit, InsertDraft
  <2>2. \A s \in Slot : items[s].status = IF s \in a.slots THEN "DRAFT" ELSE "absent"
    <3>1. a.slots \in SUBSET Slot /\ a.users \in [Slot -> MaybeUser]
      BY DEF PlanInv, PlanningTypeOK, SessionState
    <3> QED BY <3>1, CopyTyped
  <2> HIDE DEF items
  <2>3. /\ row.status = "DRAFT" /\ row.round = "none" /\ row.items = items
        /\ row.named = a.flag /\ row.days = drafts[source].days
    BY DEF MonthDraft, UnusedDraft
  <2> HIDE DEF row
  <2>4. CASE d # e
    BY <2>1, <2>4, OneRow
  <2>5. CASE d = e
    <3>1. drafts'[d] = row /\ drafts[d].status = "unused"
      BY <2>1, <2>5, ThatRow DEF First, UnusedDraftIds
    <3>2. At(self, "copyNamedDraft") /\ a.copied /\ a.draft = source
      BY <1>5 DEF CopyDaysCommit
    <3>3. FollowsDays(d)
      BY <2>2, <2>3, <3>1, <3>2 DEF FollowsDays
    <3>4. Inserts(d)
      BY <2>2, <2>3, <3>1, <3>3 DEF Inserts, NewItems
    <3> QED BY <3>4 DEF DraftMove
  <2> QED BY <2>4, <2>5
<1> QED BY <1>1, <1>2, <1>3, <1>4, <1>5 DEF DraftCommit

\* An item is written.
LEMMA ItemMoves ==
  ASSUME PlanInv, NEW self \in Session, Commit(self), NEW op \in ItemOps, At(self, op),
         NEW row, NEW hit, CommitOnItem(self, row, hit), NEW d \in DraftId,
         NEW s, s = sess[self].slot,
         sess[self].draft = d /\ s \in Slot =>
           /\ row.status = drafts[d].items[s].status
           /\ \/ row.user = drafts[d].items[s].user
              \/ op = "assignWish" /\ row.user = sess[self].user
           /\ \/ op = "withdrawWish"
              \/ \A u \in User :
                   drafts[d].items[s].wishes[u] = "active" => row.wishes[u] = "active"
  PROVE  DraftMove(d)
<1> PICK e : e = sess[self].draft
  OBVIOUS
<1>a. drafts[d] \in DraftRow /\ drafts[d].items \in [Slot -> ItemRow] /\ sess'[self] = Idle
  BY CommitEnds DEF PlanInv, PlanningTypeOK, DraftRow, Ends
<1>1. CASE Refuse(self)
  BY <1>1, SameRow DEF Refuse, tables
<1>2. CASE ~ Refuse(self)
  <2>1. drafts' = [drafts EXCEPT ![e].items[s] = row] /\ SessionItemExists(self)
    BY <1>2 DEF CommitOnItem
  <2> PICK new : new = [drafts[e] EXCEPT !.items[s] = row]
    OBVIOUS
  <2>2. drafts' = [drafts EXCEPT ![e] = new]
    BY <2>1
  <2>3. CASE d # e
    BY <2>2, <2>3, OneRow
  <2>4. CASE d = e
    <3>a. drafts' = [drafts EXCEPT ![d] = new]
      BY <2>2, <2>4
    <3>b. drafts'[d] = new
      BY <3>a, ThatRow
    <3>1. drafts'[d] = [drafts[d] EXCEPT !.items[s] = row]
      BY <2>4, <3>b
    <3> PICK items : items = [drafts[d].items EXCEPT ![s] = row]
      OBVIOUS
    <3>2. drafts'[d] = [drafts[d] EXCEPT !.items = items]
      BY <3>1
    <3>3. /\ drafts'[d].items = items /\ drafts'[d].status = drafts[d].status
          /\ drafts'[d].named = drafts[d].named /\ drafts'[d].days = drafts[d].days
          /\ drafts'[d].gen = drafts[d].gen /\ drafts'[d].round = drafts[d].round
      BY <1>a, <3>2 DEF DraftRow
    <3>4. /\ \A t \in Slot : t # s => items[t] = drafts[d].items[t]
          /\ s \in Slot => items[s] = row
      BY <1>a
    <3>5. \A t \in Slot : t # s => SameItem(d, t)
      BY <3>3, <3>4 DEF SameItem
    <3>6. Writes(d)
      <4>1. Running(self, op, d) /\ SameStatus(d)
        BY <1>a, <2>4, <3>3 DEF Running, SameStatus, SameFrame
      <4>2. s \in Slot => drafts'[d].items[s] = row
        BY <3>3, <3>4
      <4>3. s \in Slot =>
              /\ drafts'[d].items[s].status = drafts[d].items[s].status
              /\ \/ drafts'[d].items[s].user = drafts[d].items[s].user
                 \/ op = "assignWish" /\ drafts'[d].items[s].user = sess[self].user
              /\ \/ op = "withdrawWish"
                 \/ \A u \in User : drafts[d].items[s].wishes[u] = "active"
                                     => drafts'[d].items[s].wishes[u] = "active"
        BY <2>4, <4>2
      <4>4. /\ Running(self, op, d) /\ SessionItemExists(self) /\ SameStatus(d)
            /\ drafts'[d].round = drafts[d].round
            /\ \A t \in Slot : t # sess[self].slot => SameItem(d, t)
        BY <2>1, <3>3, <3>5, <4>1
      <4> QED BY <4>3, <4>4 DEF Writes
    <3> QED BY <3>6 DEF DraftMove
  <2> QED BY <2>3, <2>4
<1> QED BY <1>1, <1>2

\* Rounds are opened and closed, items offered, wished for and assigned.
LEMMA WishCommitMoves ==
  ASSUME PlanInv, NEW self \in Session, WishCommit(self), NEW d \in DraftId
  PROVE  DraftMove(d)
<1> PICK a : a = sess[self]
  OBVIOUS
<1> PICK e : e = a.draft
  OBVIOUS
<1>a. /\ drafts[d] \in DraftRow /\ drafts[d].items \in [Slot -> ItemRow]
      /\ Commit(self) /\ sess'[self] = Idle
  BY CommitEnds DEF PlanInv, PlanningTypeOK, DraftRow, Ends, Commit
<1>0. Refuse(self) => DraftMove(d)
  BY SameRow DEF Refuse, tables
<1>1. CASE OpenRoundCommit(self) /\ ~ Refuse(self)
  <2> PICK items : items = IF a.flag THEN [s \in Slot |-> Enabled(e, s, a.slots)]
                           ELSE drafts[e].items
    OBVIOUS
  <2> PICK t : t = a.closesAt
    OBVIOUS
  <2> PICK new : new = [drafts[e] EXCEPT !.round = "OPEN", !.closesAt = t, !.items = items]
    OBVIOUS
  <2>1. /\ drafts' = [drafts EXCEPT ![e] = new]
        /\ drafts[e].status # "deleted" /\ At(self, "openRound")
    BY <1>1, Zenon DEF OpenRoundCommit
  <2>2. CASE d # e
    BY <2>1, <2>2, OneRow
  <2>3. CASE d = e
    <3>a. drafts' = [drafts EXCEPT ![d] = new]
      BY <2>1, <2>3
    <3>b. drafts'[d] = new
      BY <3>a, ThatRow
    <3>1. drafts'[d] = [drafts[d] EXCEPT !.round = "OPEN", !.closesAt = t, !.items = items]
      BY <2>3, <3>b
    <3>2. /\ drafts'[d].items = items /\ drafts'[d].status = drafts[d].status
          /\ drafts'[d].named = drafts[d].named /\ drafts'[d].days = drafts[d].days
          /\ drafts'[d].gen = drafts[d].gen /\ drafts'[d].round = "OPEN"
      BY <1>a, <3>1 DEF DraftRow
    <3>3. ASSUME NEW s \in Slot PROVE SameItem(d, s)
      <4> PICK old : old = drafts[d].items[s]
        OBVIOUS
      <4> PICK wish : wish = (old.user = None /\ s \in a.slots)
        OBVIOUS
      <4>1. old \in ItemRow
        BY <1>a
      <4>2. items[s] = old \/ items[s] = [old EXCEPT !.wish = wish]
        <5>1. Item(d, s) = old
          BY DEF Item
        <5>2. items[s] = old \/ items[s] = Enabled(d, s, a.slots)
          BY <2>3, Zenon
        <5>3. Enabled(d, s, a.slots) = old \/ Enabled(d, s, a.slots) = [old EXCEPT !.wish = wish]
          BY <5>1, Zenon DEF Enabled
        <5> QED BY <5>2, <5>3
      <4>3. items[s].status = old.status /\ items[s].user = old.user /\ items[s].wishes = old.wishes
        BY <4>1, <4>2 DEF ItemRow
      <4> QED BY <3>2, <4>3 DEF SameItem
    <3>4. Running(self, "openRound", d)
      BY <1>a, <2>1, <2>3 DEF Running
    <3>5. Opens(d)
      BY <2>1, <2>3, <3>2, <3>3, <3>4 DEF Opens, SameStatus, SameFrame, SameItems
    <3> QED BY <3>5 DEF DraftMove
  <2> QED BY <2>2, <2>3
<1>2. CASE CloseRoundCommit(self) /\ ~ Refuse(self)
  <2>1. drafts' = [drafts EXCEPT ![e].round = "CLOSED"] /\ drafts[e].round # "none"
    <3>1. e = sess[self].draft
      OBVIOUS
    <3> QED BY <1>2, <3>1, Zenon DEF CloseRoundCommit
  <2>2. drafts' = [drafts EXCEPT ![e] = [drafts[e] EXCEPT !.round = "CLOSED"]]
    BY <2>1
  <2>3. CASE d # e
    BY <2>2, <2>3, OneRow
  <2>4. CASE d = e
    <3>1. drafts'[d] = [drafts[d] EXCEPT !.round = "CLOSED"]
      BY <2>2, <2>4, ThatRow
    <3>2. /\ drafts'[d].items = drafts[d].items /\ drafts'[d].status = drafts[d].status
          /\ drafts'[d].named = drafts[d].named /\ drafts'[d].days = drafts[d].days
          /\ drafts'[d].gen = drafts[d].gen /\ drafts'[d].round = "CLOSED"
      BY <1>a, <3>1 DEF DraftRow
    <3>3. Closes(d)
      BY <2>1, <2>4, <3>2 DEF Closes, SameStatus, SameFrame, SameItems, SameItem
    <3> QED BY <3>3 DEF DraftMove
  <2> QED BY <2>3, <2>4
<1>b. e = d /\ a.slot \in Slot =>
        Item(e, a.slot) \in ItemRow /\ Item(e, a.slot) = drafts[d].items[a.slot]
  BY <1>a DEF Item
<1>3. CASE SetItemWishEnabledCommit(self)
  <2> DEFINE row == [Item(e, a.slot) EXCEPT !.wish = a.flag]
  <2>1. CommitOnItem(self, row, Publishing(e, {a.slot})) /\ At(self, "setItemWishEnabled")
    BY <1>3 DEF SetItemWishEnabledCommit
  <2>2. e = d /\ a.slot \in Slot =>
          /\ row.status = drafts[d].items[a.slot].status
          /\ row.user = drafts[d].items[a.slot].user
          /\ row.wishes = drafts[d].items[a.slot].wishes
    BY <1>b DEF ItemRow
  <2> HIDE DEF row
  <2> QED BY <1>a, <2>1, <2>2, ItemMoves DEF ItemOps
<1>4. CASE AssignWishCommit(self)
  <2> DEFINE row == [Item(e, a.slot) EXCEPT !.user = a.user, !.wish = FALSE]
  <2>1. CommitOnItem(self, row, Publishing(e, {a.slot})) /\ At(self, "assignWish")
    BY <1>4 DEF AssignWishCommit
  <2>2. e = d /\ a.slot \in Slot =>
          /\ row.status = drafts[d].items[a.slot].status
          /\ row.user = a.user
          /\ row.wishes = drafts[d].items[a.slot].wishes
    BY <1>b DEF ItemRow
  <2> HIDE DEF row
  <2> QED BY <1>a, <2>1, <2>2, ItemMoves DEF ItemOps
<1>5. ASSUME NEW op \in {"createWish", "withdrawWish"}, NEW w, At(self, op),
             CommitOnItem(self, [Item(e, a.slot) EXCEPT !.wishes[a.user] = w], {}),
             op = "createWish" => w = "active"
      PROVE  DraftMove(d)
  <2> PICK old : old = Item(e, a.slot)
    OBVIOUS
  <2> PICK u : u = a.user
    OBVIOUS
  <2> PICK wishes : wishes = [old.wishes EXCEPT ![u] = w]
    OBVIOUS
  <2> DEFINE row == [old EXCEPT !.wishes = wishes]
  <2>1. CommitOnItem(self, row, {})
    BY <1>5
  <2>2. e = d /\ a.slot \in Slot =>
          /\ row.status = drafts[d].items[a.slot].status
          /\ row.user = drafts[d].items[a.slot].user
          /\ row.wishes = wishes
    BY <1>b DEF ItemRow
  <2>3. e = d /\ a.slot \in Slot /\ op = "createWish" =>
          \A v \in User : drafts[d].items[a.slot].wishes[v] = "active" => wishes[v] = "active"
    <3>1. e = d /\ a.slot \in Slot => old.wishes \in [User -> {"none", "active", "withdrawn"}]
      BY <1>b DEF ItemRow
    <3> QED BY <1>5, <1>b, <3>1
  <2> HIDE DEF row
  <2>4. sess[self].draft = d /\ a.slot \in Slot =>
          /\ row.status = drafts[d].items[a.slot].status
          /\ row.user = drafts[d].items[a.slot].user
          /\ \/ op = "withdrawWish"
             \/ \A v \in User : drafts[d].items[a.slot].wishes[v] = "active"
                                 => row.wishes[v] = "active"
    BY <1>5, <2>2, <2>3
  <2>5. op \in ItemOps /\ a.slot = sess[self].slot
    BY DEF ItemOps
  <2> QED BY <1>5, <1>a, <2>1, <2>4, <2>5, ItemMoves
<1>6. CASE CreateWishCommit(self)
  BY <1>5, <1>6 DEF CreateWishCommit
<1>7. CASE WithdrawWishCommit(self)
  BY <1>0, <1>5, <1>7 DEF WithdrawWishCommit
<1> QED BY <1>0, <1>1, <1>2, <1>3, <1>4, <1>6, <1>7 DEF WishCommit

\* A draft is published.
LEMMA PublishMoves ==
  ASSUME PlanInv, NEW self \in Session, PublishCommit(self), NEW d \in DraftId
  PROVE  DraftMove(d)
<1> PICK a : a = sess[self]
  OBVIOUS
<1> PICK e : e = a.draft
  OBVIOUS
<1>a. /\ drafts[d] \in DraftRow /\ drafts[d].items \in [Slot -> ItemRow]
      /\ sess'[self] = Idle
  BY CommitEnds DEF PlanInv, PlanningTypeOK, DraftRow, Ends, Commit, ShiftCommit
<1>1. CASE Refuse(self)
  BY <1>1, SameRow DEF Refuse, tables
<1>2. CASE ~ Refuse(self)
  <2> PICK new : new = Published(e, a.slots)
    OBVIOUS
  <2>1. drafts' = [drafts EXCEPT ![e] = new] /\ At(self, "publishDraft")
    BY <1>2 DEF PublishCommit
  <2>2. CASE d # e
    BY <2>1, <2>2, OneRow
  <2>3. CASE d = e
    <3> PICK items : items =
          [s \in Slot |-> IF s \in a.slots THEN [drafts[d].items[s] EXCEPT !.status = "PUBLISHED"]
                          ELSE drafts[d].items[s]]
      OBVIOUS
    <3>a. drafts' = [drafts EXCEPT ![d] = new]
      BY <2>1, <2>3
    <3>b. drafts'[d] = new
      BY <3>a, ThatRow
    <3>1. drafts'[d] = [drafts[d] EXCEPT !.status = "PUBLISHED", !.items = items]
      BY <2>3, <3>b, Zenon DEF Published
    <3>2. /\ drafts'[d].items = items /\ drafts'[d].status = "PUBLISHED"
          /\ drafts'[d].named = drafts[d].named /\ drafts'[d].days = drafts[d].days
          /\ drafts'[d].gen = drafts[d].gen /\ drafts'[d].round = drafts[d].round
      BY <1>a, <3>1 DEF DraftRow
    <3>3. ASSUME NEW s \in Slot
          PROVE  \/ SameItem(d, s)
                 \/ /\ s \in a.slots /\ drafts'[d].items[s].status = "PUBLISHED"
                    /\ drafts'[d].items[s].user = drafts[d].items[s].user
                    /\ drafts'[d].items[s].wishes = drafts[d].items[s].wishes
      <4>1. drafts[d].items[s] \in ItemRow
        BY <1>a
      <4>2. CASE s \in a.slots
        <5>1. drafts'[d].items[s] = [drafts[d].items[s] EXCEPT !.status = "PUBLISHED"]
          BY <3>2, <4>2
        <5> QED BY <4>1, <4>2, <5>1 DEF ItemRow
      <4>3. CASE s \notin a.slots
        BY <3>2, <4>3 DEF SameItem
      <4> QED BY <4>2, <4>3
    <3>4. Running(self, "publishDraft", d)
      BY <1>a, <2>1, <2>3 DEF Running
    <3>5. Publishes(d)
      BY <3>2, <3>3, <3>4 DEF Publishes, SameFrame
    <3> QED BY <3>5 DEF DraftMove
  <2> QED BY <2>2, <2>3
<1> QED BY <1>1, <1>2

\* What becomes of one draft.
LEMMA DraftMoves ==
  ASSUME PlanInv, [Next]_vars, NEW d \in DraftId
  PROVE  DraftMove(d)
<1>0. drafts' = drafts => DraftMove(d)
  BY SameRow
<1>1. ASSUME NEW self \in Session, Request(self) PROVE DraftMove(d)
  <2>1. Begins(self)
    BY <1>1, DraftRequestBegins, WishRequestBegins, ShiftRequestBegins DEF Request
  <2> QED BY <1>0, <2>1 DEF Begins, tables
<1>2. ASSUME NEW self \in Session, ShiftCommit(self) PROVE DraftMove(d)
  <2>1. PublishCommit(self) \/ UNCHANGED drafts
    BY <1>2 DEF ShiftCommit, ReplaceCommit, RemoveCommit, ClockInCommit, OfferCommit,
      ReferToShift, Refuse, tables
  <2> QED BY <1>0, <2>1, PublishMoves
<1>3. ASSUME NEW self \in Session, Commit(self) PROVE DraftMove(d)
  BY <1>2, <1>3, DraftCommitMoves, WishCommitMoves DEF Commit
<1>4. ASSUME NEW self \in Session, Crash(self) PROVE DraftMove(d)
  BY <1>0, <1>4 DEF Crash, Refuse, tables
<1>5. CASE ShiftEdit \/ Tick \/ UNCHANGED vars
  BY <1>0, <1>5 DEF ShiftEdit, CloseOffer, AddShift, ApproveLeave, Tick, vars, tables
<1>6. ASSUME NEW self \in Session, DraftStep(self) PROVE DraftMove(d)
  BY <1>0, <1>6, CopyGoesOn DEF tables
<1> QED BY <1>1, <1>3, <1>4, <1>5, <1>6, WorkspaceEditMoves DEF Next, Edit

-----------------------------------------------------------------------------
(* What every draft and request keeps *)

\* A request that has not begun is about no draft.
LEMMA IdleOps ==
  Idle.op \notin OnDraft \cup ItemOps \cup Serializable
    \cup {"saveNamedDraft", "removePlanningShifts", "assignWish"}
BY DEF Idle, OnDraft, ItemOps, Serializable

\* The request a step ends does not go on.
LEMMA RunningEnds ==
  ASSUME NEW p \in Session, NEW q \in Session, NEW op \in OnDraft, NEW d, Running(q, op, d),
         GoesOn(p)
  PROVE  p # q
BY IdleOps DEF Running, GoesOn, At

\* A draft that is there stays there.
LEMMA DraftStaysUsed ==
  ASSUME NEW d \in DraftId, DraftMove(d), drafts[d].status # "unused"
  PROVE  drafts'[d].status # "unused"
BY DEF DraftMove, Stays, SameStatus, Supersedes, Inserts, Updates, Deletes, Publishes, Opens,
  Closes, Writes

\* A draft a transaction holds is only written to.
LEMMA HeldDraft ==
  ASSUME DraftInv, NEW p \in Session, InTransaction(p), GoesOn(p), NEW d \in DraftId,
         sess[p].draft = d, DraftMove(d)
  PROVE  /\ SameStatus(d)
         /\ \A s \in Slot : drafts'[d].items[s].status = drafts[d].items[s].status
<1>1. Editable(d) /\ Locked(d) /\ drafts[d].status # "unused"
  BY DEF DraftInv, HoldsDraft, InTransaction, Locked, Editable
<1>2. ~ Publishes(d)
  <2> SUFFICES ASSUME NEW q \in Session, Running(q, "publishDraft", d) PROVE FALSE
    BY DEF Publishes
  <2>1. p # q
    BY RunningEnds DEF OnDraft, Serializable
  <2>2. InTransaction(q) /\ sess[q].draft = d
    BY DEF Running, At, InTransaction, Serializable
  <2> QED BY <2>1, <2>2 DEF DraftInv
<1>3. ~Supersedes(d) /\ ~Inserts(d) /\ ~Updates(d) /\ ~Deletes(d)
  BY <1>1 DEF Supersedes, Inserts, Updates, Deletes
<1>4. CASE Stays(d) \/ Opens(d) \/ Closes(d)
  BY <1>4 DEF Stays, Opens, Closes, SameItems, SameItem
<1>5. CASE Writes(d)
  BY <1>5 DEF Writes, SameItem
<1> QED BY <1>2, <1>3, <1>4, <1>5 DEF DraftMove

\* An item a request is about does not get its generation back.
LEMMA GenerationGrows ==
  ASSUME DraftInv, NEW d \in DraftId, DraftMove(d), drafts[d].status # "unused",
         drafts'[d].status # "deleted"
  PROVE  /\ drafts[d].status # "deleted"
         /\ drafts'[d].gen \in {drafts[d].gen, drafts[d].gen + 1}
<1>1. CASE Publishes(d)
  <2>1. PICK q \in Session : Running(q, "publishDraft", d)
    BY <1>1 DEF Publishes
  <2>2. Editable(d)
    BY <2>1 DEF Running, At, DraftInv, HoldsDraft, Serializable
  <2> QED BY <1>1, <2>2 DEF Publishes, SameFrame, Editable
<1>2. CASE Stays(d) \/ Opens(d) \/ Closes(d) \/ Writes(d)
  BY <1>2 DEF Stays, Opens, Closes, Writes, SameStatus, SameFrame
<1>3. CASE Supersedes(d)
  BY <1>3 DEF Supersedes, SameFrame, Editable
<1>4. CASE Updates(d)
  BY <1>4 DEF Updates, Editable
<1>5. CASE Deletes(d)
  BY <1>5 DEF Deletes, SameStatus, SameFrame
<1> QED BY <1>1, <1>2, <1>3, <1>4, <1>5 DEF DraftMove, Inserts

\* What a request knows of its draft it goes on knowing.
LEMMA HoldsOn ==
  ASSUME DraftInv, [Next]_vars, NEW p \in Session
  PROVE  HoldsDraft(sess[p])'
<1> PICK a : a = sess[p]
  OBVIOUS
<1> PICK d : d = a.draft
  OBVIOUS
<1>1. CASE Begins(p)
  <2>1. PICK b : Begin(p, b) /\ Begun(b) /\ UNCHANGED <<tables, now>>
    BY <1>1 DEF Begins
  <2>2. sess'[p] = b
    BY <2>1 DEF Begin, DraftInv, PlanInv, PlanningTypeOK
  <2>3. b.op \in ItemOps => drafts[b.draft].gen \in Int
    <3>1. b.op \in ItemOps => b.draft \in DraftId
      BY <2>1 DEF Begun, OnDraft
    <3>2. \A e \in DraftId : drafts[e].gen \in 0 .. MaxGen
      BY DEF DraftInv, PlanInv, PlanningTypeOK, DraftRow
    <3> QED BY <3>1, <3>2
  <2> QED BY <2>1, <2>2, <2>3 DEF HoldsDraft, Begun, tables, Editable, ItemSlots
<1>2. CASE sess'[p] = Idle
  BY <1>2, IdleOps DEF HoldsDraft, Serializable
<1>3. CASE GoesOn(p) /\ a.op \in OnDraft
  <2>1. d \in DraftId /\ drafts[d].status # "unused" /\ HoldsDraft(a)
    BY <1>3 DEF DraftInv, HoldsDraft
  <2>2. DraftMove(d)
    BY <2>1, DraftMoves DEF DraftInv
  <2>3. drafts'[d].status # "unused"
    BY <2>1, <2>2, DraftStaysUsed
  <2>4. a.op \in Serializable =>
          /\ drafts'[d].status = "DRAFT"
          /\ a.op = "publishDraft" => \A s \in a.slots : drafts'[d].items[s].status # "absent"
    <3> SUFFICES ASSUME a.op \in Serializable
                 PROVE  /\ drafts'[d].status = "DRAFT"
                        /\ a.op = "publishDraft" =>
                             \A s \in a.slots : drafts'[d].items[s].status # "absent"
      OBVIOUS
    <3>1. /\ SameStatus(d)
          /\ \A s \in Slot : drafts'[d].items[s].status = drafts[d].items[s].status
      BY <1>3, <2>1, <2>2, HeldDraft DEF InTransaction
    <3> QED BY <2>1, <3>1 DEF HoldsDraft, Editable, SameStatus, ItemSlots
  <2>5. a.op \in ItemOps /\ drafts'[d].status # "deleted" => a.gen <= drafts'[d].gen
    <3> SUFFICES ASSUME a.op \in ItemOps, drafts'[d].status # "deleted"
                 PROVE  a.gen <= drafts'[d].gen
      OBVIOUS
    <3>1. /\ drafts[d].status # "deleted"
          /\ drafts'[d].gen \in {drafts[d].gen, drafts[d].gen + 1}
      BY <2>1, <2>2, GenerationGrows
    <3>2. a.gen <= drafts[d].gen
      BY <2>1, <3>1 DEF HoldsDraft
    <3>3. a.gen \in Int /\ drafts[d].gen \in Int
      BY <2>1 DEF DraftInv, PlanInv, PlanningTypeOK, DraftRow, SessionState
    <3> QED BY <3>1, <3>2, <3>3
  <2>6. a.op \in ItemOps => a.slot \in Slot
    BY <2>1 DEF HoldsDraft
  <2>7. a.op = "publishDraft" => a.slots \subseteq Slot /\ a.op \in Serializable
    BY DEF DraftInv, PlanInv, PlanningTypeOK, SessionState, Serializable
  <2> PICK b : b = sess'[p]
    OBVIOUS
  <2>8. b.op = a.op /\ b.draft = d /\ b.gen = a.gen /\ b.slot = a.slot /\ b.slots = a.slots
    BY <1>3 DEF GoesOn
  <2>9. HoldsDraft(b)'
    BY <2>1, <2>3, <2>4, <2>5, <2>6, <2>7, <2>8 DEF HoldsDraft, Editable, ItemSlots
  <2> QED BY <2>9
<1>4. CASE GoesOn(p) /\ a.op \notin OnDraft
  BY <1>4 DEF HoldsDraft, GoesOn, OnDraft, Serializable
<1>5. CASE DraftStep(p)
  <2>1. /\ a.op = "copyNamedDraft" /\ sess'[p].op = "copyNamedDraft"
        /\ sess'[p].draft = d /\ UNCHANGED drafts
    BY <1>5, CopyGoesOn DEF DraftInv, tables
  <2> QED BY <2>1 DEF DraftInv, HoldsDraft, OnDraft, Serializable, ItemOps
<1> QED BY <1>1, <1>2, <1>3, <1>4, <1>5, SessionMoves DEF DraftInv

\* A draft that is not there stays empty.
LEMMA VacantStays ==
  ASSUME DraftInv, NEW d \in DraftId, DraftMove(d),
         drafts'[d].status \in {"unused", "deleted"}
  PROVE  Vacant(drafts'[d])
<1>0. drafts[d].status \in {"unused", "deleted"} => Vacant(drafts[d])
  BY DEF DraftInv
<1>1. CASE Stays(d)
  BY <1>0, <1>1 DEF Stays, SameStatus, SameFrame, SameItems, SameItem, Vacant
<1>2. ~Supersedes(d) /\ ~Inserts(d) /\ ~Updates(d) /\ ~Publishes(d)
  BY DEF Supersedes, Inserts, Updates, Publishes, Editable
<1>3. CASE Deletes(d)
  BY <1>3 DEF Deletes, SameStatus, Vacant
<1>4. ~Opens(d)
  BY DEF Opens, Running, At, DraftInv, HoldsDraft, OnDraft, SameStatus
<1>5. ~Closes(d)
  BY <1>0 DEF Closes, SameStatus, Vacant
<1>6. ~Writes(d)
  BY <1>0 DEF Writes, Running, At, DraftInv, HoldsDraft, SameStatus, Vacant, SessionItemExists, Item
<1> QED BY <1>1, <1>2, <1>3, <1>4, <1>5, <1>6 DEF DraftMove

\* DraftInv is inductive.
LEMMA DraftInvInductive == DraftInv /\ [Next]_vars => DraftInv'
<1> SUFFICES ASSUME DraftInv, [Next]_vars PROVE DraftInv'
  OBVIOUS
<1>0. PlanInv
  BY DEF DraftInv
<1>1. PlanInv'
  BY <1>0, PlanInvInductive
<1>2. \A d \in DraftId : drafts'[d].status \in {"unused", "deleted"} => Vacant(drafts'[d])
  BY <1>0, DraftMoves, VacantStays
<1>3. \A p \in Session : HoldsDraft(sess[p])'
  BY HoldsOn
<1>4. ASSUME NEW p \in Session, NEW q \in Session, InTransaction(p)', InTransaction(q)',
             sess'[p].draft = sess'[q].draft, p # q
      PROVE  FALSE
  <2>1. ASSUME NEW r \in Session, NEW t \in Session, r # t, Begins(r),
               InTransaction(r)', InTransaction(t)', sess'[r].draft = sess'[t].draft
        PROVE  FALSE
    <3>1. PICK b : Begin(r, b) /\ Begun(b)
      BY <2>1 DEF Begins
    <3>2. sess'[r] = b /\ sess'[t] = sess[t]
      BY <1>0, <2>1, <3>1 DEF Begin, PlanInv, PlanningTypeOK
    <3>3. ~Locked(b.draft)
      BY <2>1, <3>1, <3>2 DEF Begun, InTransaction
    <3> QED BY <2>1, <3>2, <3>3 DEF Locked, InTransaction
  <2>2. sess'[p] # Idle /\ sess'[q] # Idle
    BY <1>4, IdleOps DEF InTransaction
  <2>3. (Begins(p) \/ GoesOn(p)) /\ (Begins(q) \/ GoesOn(q))
    <3>1. ~DraftStep(p) /\ ~DraftStep(q)
      BY <1>0, <1>4, CopyGoesOn DEF InTransaction, Serializable
    <3> QED BY <1>0, <2>2, <3>1, SessionMoves
  <2>4. CASE GoesOn(p) /\ GoesOn(q)
    BY <1>4, <2>4 DEF DraftInv, GoesOn, InTransaction
  <2> QED BY <1>4, <2>1, <2>3, <2>4
<1> QED BY <1>1, <1>2, <1>3, <1>4 DEF DraftInv

\* There are no drafts yet.
LEMMA InitDraftInv == PlanningInit => DraftInv
<1> SUFFICES ASSUME PlanningInit PROVE DraftInv
  OBVIOUS
<1>1. PlanInv
  BY InitPlanInv
<1>2. ASSUME NEW d \in DraftId PROVE Vacant(drafts[d])
  BY NewFields DEF PlanningInit, Vacant
<1>3. \A p \in Session : sess[p] = Idle
  BY DEF PlanningInit
<1>4. \A p \in Session : HoldsDraft(sess[p]) /\ ~InTransaction(p)
  BY <1>3, IdleOps DEF HoldsDraft, InTransaction, Serializable
<1> QED BY <1>1, <1>2, <1>4 DEF DraftInv

-----------------------------------------------------------------------------
(* Published items *)

\* Only publication publishes a draft.
LEMMA BecomesPublished ==
  ASSUME NEW d \in DraftId, DraftMove(d), drafts'[d].status = "PUBLISHED",
         drafts[d].status # "PUBLISHED"
  PROVE  \E q \in Session : At(q, "publishDraft") /\ sess[q].draft = d
BY DEF DraftMove, Stays, SameStatus, Supersedes, Inserts, Updates, Deletes, Publishes, Opens,
  Closes, Writes, Editable, Running

\* A request that overlaps no publication goes on with a draft that is not
\* published.
LEMMA UnpublishedStays ==
  ASSUME DraftInv, [Next]_vars, NEW op \in OnDraft, Apart("publishDraft", op),
         NEW p \in Session, GoesOn(p), sess[p].op = op, drafts[sess[p].draft].status # "PUBLISHED"
  PROVE  drafts'[sess[p].draft].status # "PUBLISHED"
<1>1. sess[p].draft \in DraftId
  BY DEF DraftInv, HoldsDraft
<1>2. DraftMove(sess[p].draft)
  BY <1>1, DraftMoves DEF DraftInv
<1> QED BY <1>1, <1>2, BecomesPublished DEF Apart, At

\* Deletions know that their draft is not published, if they overlap no
\* publication.
LEMMA DeletableStays ==
  ASSUME DraftInv, [Next]_vars, Apart("publishDraft", "deleteDraft"),
         NEW p \in Session, Deletable(sess[p])
  PROVE  Deletable(sess[p])'
<1>1. CASE Begins(p)
  <2>1. PICK b : Begin(p, b) /\ Begun(b) /\ UNCHANGED <<tables, now>>
    BY <1>1 DEF Begins
  <2>2. sess'[p] = b
    BY <2>1 DEF Begin, DraftInv, PlanInv, PlanningTypeOK
  <2> QED BY <2>1, <2>2 DEF Deletable, Begun, tables
<1>2. CASE sess'[p] = Idle
  BY <1>2, IdleOps DEF Deletable, OnDraft
<1>3. CASE GoesOn(p)
  BY <1>3, UnpublishedStays DEF Deletable, GoesOn, OnDraft
<1>4. CASE DraftStep(p)
  BY <1>4, CopyGoesOn DEF DraftInv, Deletable
<1> QED BY <1>1, <1>2, <1>3, <1>4, SessionMoves DEF DraftInv

\* So do assignments.
LEMMA AssignableStays ==
  ASSUME DraftInv, [Next]_vars, Apart("publishDraft", "assignWish"),
         NEW p \in Session, Assignable(sess[p])
  PROVE  Assignable(sess[p])'
<1>1. CASE Begins(p)
  <2>1. PICK b : Begin(p, b) /\ Begun(b) /\ UNCHANGED <<tables, now>>
    BY <1>1 DEF Begins
  <2>2. sess'[p] = b
    BY <2>1 DEF Begin, DraftInv, PlanInv, PlanningTypeOK
  <2> QED BY <2>1, <2>2 DEF Assignable, Begun, tables, ItemOps, Editable
<1>2. CASE sess'[p] = Idle
  BY <1>2, IdleOps DEF Assignable
<1>3. CASE GoesOn(p)
  BY <1>3, UnpublishedStays DEF Assignable, GoesOn, OnDraft, ItemOps
<1>4. CASE DraftStep(p)
  BY <1>4, CopyGoesOn DEF DraftInv, Assignable
<1> QED BY <1>1, <1>2, <1>3, <1>4, SessionMoves DEF DraftInv

\* DeleteInv is inductive when publications and deletions do not overlap.
LEMMA DeleteInvInductive ==
  DeleteInv /\ Apart("publishDraft", "deleteDraft") /\ [Next]_vars => DeleteInv'
BY DraftInvInductive, DeletableStays DEF DeleteInv

\* Published items are in published drafts.
LEMMA PublishedInPublished ==
  ASSUME PublishedInv, NEW d \in DraftId, NEW s \in Slot, DraftMove(d),
         drafts'[d].items[s].status = "PUBLISHED"
  PROVE  drafts'[d].status = "PUBLISHED"
<1>1. drafts[d].items[s].status = "PUBLISHED" => drafts[d].status = "PUBLISHED"
  BY DEF PublishedInv
<1>2. CASE Stays(d)
  BY <1>1, <1>2 DEF Stays, SameStatus, SameItems, SameItem
<1>3. CASE Supersedes(d)
  BY <1>1, <1>3 DEF Supersedes, Editable, SameItems, SameItem
<1>4. CASE Inserts(d)
  BY <1>4 DEF Inserts, NewItems
<1>5. CASE Updates(d)
  BY <1>1, <1>5 DEF Updates, Editable, NewItems
<1>6. CASE Deletes(d)
  BY <1>6 DEF Deletes
<1>7. CASE Publishes(d)
  BY <1>7 DEF Publishes
<1>8. CASE Opens(d) \/ Closes(d)
  BY <1>1, <1>8 DEF Opens, Closes, SameStatus, SameItems, SameItem
<1>9. CASE Writes(d)
  BY <1>1, <1>9 DEF Writes, SameStatus, SameItem
<1> QED BY <1>2, <1>3, <1>4, <1>5, <1>6, <1>7, <1>8, <1>9 DEF DraftMove

\* An item that is published is left alone.
LEMMA PublishedItemStays ==
  ASSUME PublishedInv, NEW d \in DraftId, NEW s \in Slot, DraftMove(d),
         drafts[d].items[s].status = "PUBLISHED"
  PROVE  /\ drafts'[d].items[s].status = "PUBLISHED"
         /\ drafts'[d].items[s].user = drafts[d].items[s].user
<1>1. drafts[d].status = "PUBLISHED"
  BY DEF PublishedInv
<1>2. ~Supersedes(d) /\ ~Inserts(d) /\ ~Updates(d)
  BY <1>1 DEF Supersedes, Inserts, Updates, Editable
<1>3. ~Deletes(d)
  BY <1>1 DEF Deletes, Running, At, PublishedInv, DeleteInv, Deletable
<1>4. CASE Stays(d) \/ Opens(d) \/ Closes(d)
  BY <1>4 DEF Stays, Opens, Closes, SameItems, SameItem
<1>5. CASE Publishes(d)
  BY <1>5 DEF Publishes, SameItem
<1>6. CASE Writes(d)
  BY <1>1, <1>6 DEF Writes, SameItem, Running, At, PublishedInv, Assignable
<1> QED BY <1>2, <1>3, <1>4, <1>5, <1>6 DEF DraftMove

\* PublishedInv is inductive when publications overlap neither deletions nor
\* assignments.
LEMMA PublishedInvInductive ==
  /\ PublishedInv /\ [Next]_vars
  /\ Apart("publishDraft", "deleteDraft") /\ Apart("publishDraft", "assignWish")
  => PublishedInv'
<1> SUFFICES ASSUME PublishedInv, [Next]_vars, Apart("publishDraft", "deleteDraft"),
                    Apart("publishDraft", "assignWish")
             PROVE  PublishedInv'
  OBVIOUS
<1>0. DraftInv /\ PlanInv /\ DeleteInv
  BY DEF PublishedInv, DeleteInv, DraftInv
<1>1. DeleteInv'
  BY <1>0, DeleteInvInductive
<1>2. \A d \in DraftId, s \in Slot :
        drafts'[d].items[s].status = "PUBLISHED" => drafts'[d].status = "PUBLISHED"
  BY <1>0, DraftMoves, PublishedInPublished
<1>3. \A p \in Session : Assignable(sess[p])'
  BY <1>0, AssignableStays DEF PublishedInv
<1> QED BY <1>1, <1>2, <1>3 DEF PublishedInv

\* Nothing is published yet.
LEMMA InitPublishedInv == PlanningInit => PublishedInv
<1> SUFFICES ASSUME PlanningInit PROVE PublishedInv
  OBVIOUS
<1>1. DraftInv
  BY InitDraftInv
<1>2. \A d \in DraftId, s \in Slot : drafts[d].items[s].status = "absent"
  BY NewFields DEF PlanningInit
<1>3. \A p \in Session : sess[p] = Idle
  BY DEF PlanningInit
<1>4. \A p \in Session : Deletable(sess[p]) /\ Assignable(sess[p])
  BY <1>3, IdleOps DEF Deletable, Assignable, OnDraft
<1> QED BY <1>1, <1>2, <1>4 DEF PublishedInv, DeleteInv

\* An item keeps what it was published with, as long as publications overlap
\* neither deletions of drafts nor assignments of wishes: neither of the two
\* looks at the status of the draft again when it writes.
THEOREM PublishedItemsStay ==
  /\ Spec
  /\ []Apart("publishDraft", "deleteDraft")
  /\ []Apart("publishDraft", "assignWish")
  => PublishedItemsFrozen
<1> DEFINE Frozen ==
      \A d \in DraftId, s \in Slot :
        drafts[d].items[s].status = "PUBLISHED" =>
          /\ drafts'[d].items[s].status = "PUBLISHED"
          /\ drafts'[d].items[s].user = drafts[d].items[s].user
<1>1. PublishedInv /\ [Next]_vars => [Frozen]_vars
  <2> SUFFICES ASSUME PublishedInv, [Next]_vars PROVE Frozen
    OBVIOUS
  <2>1. PlanInv
    BY DEF PublishedInv, DeleteInv, DraftInv
  <2> QED BY <2>1, DraftMoves, PublishedItemStays
<1> QED BY <1>1, InitPublishedInv, PublishedInvInductive, PTL DEF Spec, PublishedItemsFrozen

-----------------------------------------------------------------------------
(* Wish rounds *)

\* A recalculation knows that its draft has no round, if no round is opened.
LEMMA RecalculableStays ==
  ASSUME DraftInv, [Next]_vars, Apart("openRound", "updateNamedDraft"),
         NEW p \in Session, Recalculable(sess[p])
  PROVE  Recalculable(sess[p])'
<1>1. CASE Begins(p)
  <2>1. PICK b : Begin(p, b) /\ Begun(b) /\ UNCHANGED <<tables, now>>
    BY <1>1 DEF Begins
  <2>2. sess'[p] = b
    BY <2>1 DEF Begin, DraftInv, PlanInv, PlanningTypeOK
  <2> QED BY <2>1, <2>2 DEF Recalculable, Begun, tables
<1>2. CASE sess'[p] = Idle
  BY <1>2, IdleOps DEF Recalculable, OnDraft
<1>3. CASE GoesOn(p) /\ sess[p].op = "updateNamedDraft"
  <2> PICK d : d = sess[p].draft
    OBVIOUS
  <2>1. d \in DraftId /\ drafts[d].round = "none"
    BY <1>3 DEF DraftInv, HoldsDraft, OnDraft, Recalculable
  <2>2. DraftMove(d)
    BY <2>1, DraftMoves DEF DraftInv
  <2>3. ~Opens(d) /\ ~Closes(d)
    BY <1>3, <2>1 DEF Opens, Closes, Running, At, Apart
  <2>4. drafts'[d].round = "none"
    BY <2>1, <2>2, <2>3 DEF DraftMove, Stays, Supersedes, Inserts, Updates, Deletes,
      Publishes, Writes
  <2> QED BY <1>3, <2>4 DEF Recalculable, GoesOn
<1>4. CASE GoesOn(p) /\ sess[p].op # "updateNamedDraft"
  BY <1>4 DEF Recalculable, GoesOn
<1>5. CASE DraftStep(p)
  BY <1>5, CopyGoesOn DEF DraftInv, Recalculable
<1> QED BY <1>1, <1>2, <1>3, <1>4, <1>5, SessionMoves DEF DraftInv

\* A draft with a round keeps its generation.
LEMMA RoundKeepsItems ==
  ASSUME RoundInv, NEW d \in DraftId, DraftMove(d), drafts[d].round # "none",
         drafts'[d].status # "deleted"
  PROVE  drafts'[d].gen = drafts[d].gen
<1>1. ~Inserts(d)
  BY DEF Inserts, RoundInv, DraftInv, Vacant
<1>2. ~Updates(d)
  BY DEF Updates, Running, At, RoundInv, Recalculable
<1> QED BY <1>1, <1>2 DEF DraftMove, Stays, SameStatus, SameFrame, Supersedes, Deletes,
  Publishes, Opens, Closes, Writes

\* A draft with a wish round keeps its items until it is deleted, as long as no
\* round is opened during a recalculation, which checks that there is none
\* before its transaction only.
THEOREM RoundsKeepItems ==
  Spec /\ []Apart("openRound", "updateNamedDraft") => RoundFreezesItems
<1> DEFINE Frozen ==
      \A d \in DraftId :
        drafts[d].round # "none" /\ drafts'[d].status # "deleted"
          => drafts'[d].gen = drafts[d].gen
<1>1. RoundInv /\ [Next]_vars => [Frozen]_vars
  <2> SUFFICES ASSUME RoundInv, [Next]_vars PROVE Frozen
    OBVIOUS
  <2>1. PlanInv
    BY DEF RoundInv, DraftInv
  <2> QED BY <2>1, DraftMoves, RoundKeepsItems
<1>2. RoundInv /\ Apart("openRound", "updateNamedDraft") /\ [Next]_vars => RoundInv'
  BY DraftInvInductive, RecalculableStays DEF RoundInv
<1>3. PlanningInit => RoundInv
  <2> SUFFICES ASSUME PlanningInit PROVE RoundInv
    OBVIOUS
  <2>1. \A p \in Session : Recalculable(sess[p])
    BY IdleOps DEF PlanningInit, Recalculable, OnDraft
  <2> QED BY <2>1, InitDraftInv DEF RoundInv
<1> QED BY <1>1, <1>2, <1>3, PTL DEF Spec, RoundFreezesItems

-----------------------------------------------------------------------------
(* Wishes *)

\* An item that keeps its generation keeps its wishes, if none is withdrawn.
LEMMA WishesStay ==
  ASSUME DraftInv, NEW d \in DraftId, DraftMove(d), drafts[d].status # "unused",
         NEW g \in Int, drafts[d].status # "deleted" => g <= drafts[d].gen,
         drafts'[d].gen = g, NEW s \in Slot, drafts'[d].items[s].status # "absent",
         NEW u \in User, \A q \in Session : ~At(q, "withdrawWish"),
         drafts[d].gen = g /\ drafts[d].items[s].status # "absent"
           => drafts[d].items[s].wishes[u] = "active"
  PROVE  drafts'[d].items[s].wishes[u] = "active"
<1>1. ~Inserts(d) /\ ~Deletes(d)
  BY DEF Inserts, Deletes
<1>2. ~Updates(d)
  <2>1. drafts[d].gen \in Int
    BY DEF DraftInv, PlanInv, PlanningTypeOK, DraftRow
  <2> QED BY <2>1 DEF Updates, Editable
<1>3. CASE Stays(d) \/ Supersedes(d) \/ Opens(d) \/ Closes(d)
  BY <1>3 DEF Stays, Supersedes, Opens, Closes, SameStatus, SameFrame, SameItems, SameItem
<1>4. CASE Publishes(d)
  <2>1. PICK q \in Session :
          /\ Running(q, "publishDraft", d) /\ SameFrame(d)
          /\ SameItem(d, s) \/ ( /\ s \in sess[q].slots
                                 /\ drafts'[d].items[s].wishes = drafts[d].items[s].wishes )
    BY <1>4 DEF Publishes
  <2>2. sess[q].slots \subseteq ItemSlots(d)
    BY <2>1 DEF Running, At, DraftInv, HoldsDraft
  <2> QED BY <2>1, <2>2 DEF SameFrame, SameItem, ItemSlots
<1>5. CASE Writes(d)
  BY <1>5 DEF Writes, SameStatus, SameFrame, SameItem, Running
<1> QED BY <1>1, <1>2, <1>3, <1>4, <1>5 DEF DraftMove

\* An assignment goes on with an employee who wishes for the item.
LEMMA WishingStays ==
  ASSUME DraftInv, [Next]_vars, Apart("withdrawWish", "assignWish"),
         NEW p \in Session, Wishing(sess[p])
  PROVE  Wishing(sess[p])'
<1>1. CASE Begins(p)
  <2>1. PICK b : Begin(p, b) /\ Begun(b) /\ UNCHANGED <<tables, now>>
    BY <1>1 DEF Begins
  <2>2. sess'[p] = b
    BY <2>1 DEF Begin, DraftInv, PlanInv, PlanningTypeOK
  <2> QED BY <2>1, <2>2 DEF Wishing, Begun, tables
<1>2. CASE sess'[p] = Idle
  BY <1>2, IdleOps DEF Wishing
<1>3. CASE GoesOn(p) /\ sess[p].op = "assignWish"
  <2> PICK a : a = sess[p]
    OBVIOUS
  <2> PICK d : d = a.draft
    OBVIOUS
  <2>1. a.op \in ItemOps /\ a.op \in OnDraft
    BY <1>3 DEF ItemOps, OnDraft
  <2>2. /\ d \in DraftId /\ drafts[d].status # "unused" /\ a.slot \in Slot
        /\ drafts[d].status # "deleted" => a.gen <= drafts[d].gen
    BY <2>1 DEF DraftInv, HoldsDraft
  <2>3. a.user \in Qualified /\ a.user \in User /\ a.gen \in Int
    <3>1. a \in SessionState
      BY DEF DraftInv, PlanInv, PlanningTypeOK
    <3>2. a.user \in Qualified
      BY <1>3 DEF Wishing
    <3>3. a.gen \in Int
      BY <3>1 DEF SessionState
    <3> QED BY <3>2, <3>3, PlanningAssumption
  <2>4. DraftMove(d)
    BY <2>2, DraftMoves DEF DraftInv
  <2>5. \A q \in Session : ~At(q, "withdrawWish")
    BY <1>3 DEF Apart, At
  <2>6. drafts[d].gen = a.gen /\ drafts[d].items[a.slot].status # "absent"
          => drafts[d].items[a.slot].wishes[a.user] = "active"
    BY <1>3 DEF Wishing
  <2>7. ASSUME drafts'[d].gen = a.gen, drafts'[d].items[a.slot].status # "absent"
        PROVE  drafts'[d].items[a.slot].wishes[a.user] = "active"
    <3> PICK g \in Int, s \in Slot, u \in User : g = a.gen /\ s = a.slot /\ u = a.user
      BY <2>2, <2>3
    <3>1. drafts[d].gen = g /\ drafts[d].items[s].status # "absent"
            => drafts[d].items[s].wishes[u] = "active"
      BY <2>6
    <3>2. drafts'[d].gen = g /\ drafts'[d].items[s].status # "absent"
      BY <2>7
    <3>3. d \in DraftId /\ drafts[d].status # "unused"
          /\ (drafts[d].status # "deleted" => g <= drafts[d].gen)
      BY <2>2
    <3>4. drafts'[d].items[s].wishes[u] = "active"
      BY <2>4, <2>5, <3>1, <3>2, <3>3, WishesStay, ZenonT(30)
    <3> QED BY <3>4
  <2> PICK b : b = sess'[p]
    OBVIOUS
  <2>8. b.draft = d /\ b.gen = a.gen /\ b.slot = a.slot /\ b.user = a.user
    BY <1>3 DEF GoesOn
  <2>9. Wishing(b)'
    BY <2>3, <2>7, <2>8 DEF Wishing
  <2> QED BY <2>9
<1>4. CASE GoesOn(p) /\ sess[p].op # "assignWish"
  BY <1>4 DEF Wishing, GoesOn
<1>5. CASE DraftStep(p)
  BY <1>5, CopyGoesOn DEF DraftInv, Wishing
<1> QED BY <1>1, <1>2, <1>3, <1>4, <1>5, SessionMoves DEF DraftInv

\* An item that gets another assignee gets one who wishes for it.
LEMMA AssigneeWishes ==
  ASSUME WishInv, NEW d \in DraftId, NEW s \in Slot, DraftMove(d),
         drafts[d].items[s].status # "absent", drafts'[d].items[s].status # "absent",
         drafts'[d].gen = drafts[d].gen,
         drafts'[d].items[s].user # drafts[d].items[s].user
  PROVE  /\ drafts'[d].items[s].user \in Qualified
         /\ drafts[d].items[s].wishes[drafts'[d].items[s].user] = "active"
<1>1. ~Inserts(d)
  BY DEF Inserts, WishInv, DraftInv, Vacant
<1>2. ~Updates(d)
  <2>1. drafts[d].gen \in Int
    BY DEF WishInv, DraftInv, PlanInv, PlanningTypeOK, DraftRow
  <2> QED BY <2>1 DEF Updates
<1>3. ~Deletes(d) /\ ~Stays(d) /\ ~Supersedes(d) /\ ~Opens(d) /\ ~Closes(d) /\ ~Publishes(d)
  BY DEF Deletes, Stays, Supersedes, Opens, Closes, Publishes, SameItems, SameItem
<1>4. PICK q \in Session :
        /\ Running(q, "assignWish", d) /\ SessionItemExists(q) /\ s = sess[q].slot
        /\ drafts'[d].items[s].user = sess[q].user
  BY <1>1, <1>2, <1>3 DEF DraftMove, Writes, SameItem
<1> QED BY <1>4 DEF Running, At, WishInv, Wishing, SessionItemExists, Item

\* An item is given to nobody who does not wish for it, as long as no wish is
\* withdrawn during an assignment, which does not look at the wish again.
THEOREM AssigneesWish ==
  Spec /\ []Apart("withdrawWish", "assignWish") => AssignsAWisher
<1> DEFINE Wished ==
      \A d \in DraftId, s \in Slot :
        LET old == drafts[d].items[s]
            new == drafts'[d].items[s]
        IN /\ old.status # "absent" /\ new.status # "absent"
           /\ drafts'[d].gen = drafts[d].gen
           /\ new.user # old.user
           => new.user \in Qualified /\ old.wishes[new.user] = "active"
<1>1. WishInv /\ [Next]_vars => [Wished]_vars
  <2> SUFFICES ASSUME WishInv, [Next]_vars PROVE Wished
    OBVIOUS
  <2>1. PlanInv
    BY DEF WishInv, DraftInv
  <2> QED BY <2>1, DraftMoves, AssigneeWishes
<1>2. WishInv /\ Apart("withdrawWish", "assignWish") /\ [Next]_vars => WishInv'
  BY DraftInvInductive, WishingStays DEF WishInv
<1>3. PlanningInit => WishInv
  <2> SUFFICES ASSUME PlanningInit PROVE WishInv
    OBVIOUS
  <2>1. \A p \in Session : Wishing(sess[p])
    BY IdleOps DEF PlanningInit, Wishing
  <2> QED BY <2>1, InitDraftInv DEF WishInv
<1> QED BY <1>1, <1>2, <1>3, PTL DEF Spec, AssignsAWisher

-----------------------------------------------------------------------------
(* Days and items *)

\* A save knows the month plan, if nobody edits it.
LEMMA SavingStays ==
  ASSUME PlanInv, [Next]_vars, [PlanLeftAlone]_vars, NEW p \in Session, Saving(sess[p])
  PROVE  Saving(sess[p])'
<1>1. CASE Begins(p)
  <2>1. PICK b : Begin(p, b) /\ Begun(b) /\ UNCHANGED <<tables, now>>
    BY <1>1 DEF Begins
  <2>2. sess'[p] = b
    BY <2>1 DEF Begin, PlanInv, PlanningTypeOK
  <2> QED BY <2>1, <2>2 DEF Saving, SavesPlan, Begun, tables
<1>2. CASE sess'[p] = Idle
  BY <1>2 DEF Saving, SavesPlan, Idle
<1>3. CASE GoesOn(p)
  <2>1. SavesPlan(sess[p]) => workspace' = workspace
    BY DEF PlanLeftAlone, vars, tables
  <2> QED BY <1>3, <2>1 DEF GoesOn, Saving, SavesPlan
<1>4. CASE DraftStep(p)
  BY <1>4, CopyGoesOn DEF Saving, SavesPlan
<1> QED BY <1>1, <1>2, <1>3, <1>4, SessionMoves

\* A copy goes on with the days of its source, if nobody updates or deletes
\* drafts.
LEMMA CopyingStays ==
  ASSUME DaysInv, [Next]_vars, NEW p \in Session,
         Apart("copyNamedDraft", "updateNamedDraft"), Apart("copyNamedDraft", "deleteDraft")
  PROVE  Copying(sess[p])'
<1> PICK a : a = sess[p]
  OBVIOUS
<1>0. DraftInv /\ PlanInv /\ Copying(a)
  BY DEF DaysInv, DeleteInv, DraftInv
<1>1. CASE Begins(p)
  <2>1. PICK b : Begin(p, b) /\ Begun(b) /\ UNCHANGED <<tables, now>>
    BY <1>1 DEF Begins
  <2>2. sess'[p] = b
    BY <1>0, <2>1 DEF Begin, PlanInv, PlanningTypeOK
  <2> QED BY <2>1, <2>2 DEF Copying, Begun, tables
<1>2. CASE sess'[p] = Idle
  BY <1>2 DEF Copying, Idle
<1>3. CASE GoesOn(p)
  <2> SUFFICES ASSUME a.op = "copyNamedDraft", a.flag PROVE Copying(sess[p])'
    BY <1>3 DEF GoesOn, Copying
  <2> PICK d : d = a.draft
    OBVIOUS
  <2>1. d \in DraftId /\ drafts[d].status # "unused"
    BY <1>0 DEF DraftInv, HoldsDraft, OnDraft
  <2>2. ~Updates(d) /\ ~Deletes(d)
    BY DEF Updates, Deletes, Running, At, Apart
  <2>3. drafts'[d].named = drafts[d].named /\ drafts'[d].days = drafts[d].days
    BY <1>0, <2>1, <2>2, DraftMoves
    DEF DraftMove, Stays, SameStatus, SameFrame, Supersedes, Inserts, Publishes, Opens,
        Closes, Writes
  <2> QED BY <1>0, <1>3, <2>3 DEF GoesOn, Copying
<1>4. CASE DraftStep(p)
  <2> PICK d : d = a.draft
    OBVIOUS
  <2>1. /\ a.op = "copyNamedDraft" /\ sess'[p].flag = a.flag /\ sess'[p].draft = d
        /\ sess'[p].slots = ItemSlots(d) /\ UNCHANGED drafts
    BY <1>0, <1>4, CopyGoesOn DEF tables
  <2>2. d \in DraftId
    BY <1>0, <2>1 DEF DraftInv, HoldsDraft, OnDraft
  <2>3. a.flag => drafts[d].named /\ ItemSlots(d) = drafts[d].days
    BY <1>0, <2>1, <2>2 DEF Copying, DaysInv, DaysMatchItems
  <2> QED BY <2>1, <2>3 DEF Copying
<1> QED BY <1>0, <1>1, <1>2, <1>3, <1>4, SessionMoves

\* A draft whose items are those of its days goes on so.
LEMMA DaysGoOn ==
  ASSUME DaysInv, NEW d \in DraftId, DraftMove(d), drafts'[d].named
  PROVE  ItemSlots(d)' = drafts'[d].days
<1>0. /\ workspace \subseteq Slot
      /\ \A e \in DraftId : /\ drafts[e].days \subseteq Slot
                            /\ drafts[e].named => ItemSlots(e) = drafts[e].days
      /\ \A p \in Session : SavesPlan(sess[p]) => sess[p].slots = workspace
  <2>1. \A e \in DraftId : drafts[e] \in DraftRow
    BY DEF DaysInv, DeleteInv, DraftInv, PlanInv, PlanningTypeOK
  <2>2. \A e \in DraftId : drafts[e].days \subseteq Slot
    BY <2>1 DEF DraftRow
  <2>3. workspace \subseteq Slot
    BY DEF DaysInv, DeleteInv, DraftInv, PlanInv, PlanningTypeOK
  <2> QED BY <2>2, <2>3 DEF DaysInv, DaysMatchItems, Saving
\* It keeps both, ...
<1>1. ASSUME drafts'[d].named = drafts[d].named, drafts'[d].days = drafts[d].days,
             \A s \in Slot :
               drafts'[d].items[s].status = "absent" <=> drafts[d].items[s].status = "absent"
      PROVE  ItemSlots(d)' = drafts'[d].days
  BY <1>0, <1>1 DEF ItemSlots
<1>2. CASE Stays(d) \/ Supersedes(d) \/ Opens(d) \/ Closes(d)
  <2>1. SameFrame(d) /\ SameItems(d)
    BY <1>2 DEF Stays, Supersedes, Opens, Closes, SameStatus
  <2> QED BY <1>1, <2>1 DEF SameFrame, SameItems, SameItem
<1>3. CASE Writes(d)
  <2>1. SameFrame(d) /\ \A s \in Slot : drafts'[d].items[s].status = drafts[d].items[s].status
    BY <1>3 DEF Writes, SameStatus, SameItem
  <2> QED BY <1>1, <2>1 DEF SameFrame
<1>4. CASE Publishes(d)
  <2>1. PICK p \in Session :
          /\ Running(p, "publishDraft", d) /\ SameFrame(d)
          /\ \A s \in Slot :
               \/ SameItem(d, s)
               \/ s \in sess[p].slots /\ drafts'[d].items[s].status = "PUBLISHED"
    BY <1>4 DEF Publishes
  <2>2. sess[p].slots \subseteq ItemSlots(d)
    BY <2>1 DEF Running, At, DaysInv, DeleteInv, DraftInv, HoldsDraft
  <2>3. \A s \in Slot :
          drafts'[d].items[s].status = "absent" <=> drafts[d].items[s].status = "absent"
    BY <2>1, <2>2 DEF SameItem, ItemSlots
  <2> QED BY <1>1, <2>1, <2>3 DEF SameFrame
\* ... or gets both from the same plan.
<1>5. ASSUME NEW p \in Session, SavesPlan(sess[p]), drafts'[d].days = workspace,
             \A s \in Slot : drafts'[d].items[s].status # "absent" <=> s \in sess[p].slots
      PROVE  ItemSlots(d)' = drafts'[d].days
  BY <1>0, <1>5 DEF ItemSlots
<1>6. CASE Updates(d)
  BY <1>5, <1>6 DEF Updates, Running, At, SavesPlan
<1>7. CASE Inserts(d)
  <2>1. ASSUME NEW p \in Session, At(p, "copyNamedDraft"), sess[p].copied, sess[p].flag,
               drafts'[d].days = drafts[sess[p].draft].days,
               \A s \in Slot : drafts'[d].items[s].status # "absent" <=> s \in sess[p].slots
        PROVE  ItemSlots(d)' = drafts'[d].days
    <3>1. sess[p].slots = drafts[sess[p].draft].days
      BY <2>1 DEF At, DaysInv, Copying
    <3>2. sess[p].slots \subseteq Slot
      BY DEF DaysInv, DeleteInv, DraftInv, PlanInv, PlanningTypeOK, SessionState
    <3> QED BY <2>1, <3>1, <3>2 DEF ItemSlots
  <2>2. ASSUME drafts'[d].days = {}, \A s \in Slot : drafts'[d].items[s].status = "absent"
        PROVE  ItemSlots(d)' = drafts'[d].days
    BY <2>2 DEF ItemSlots
  <2> QED BY <1>5, <1>7, <2>1, <2>2 DEF Inserts, FollowsDays, At, SavesPlan
<1>8. ~Deletes(d)
  BY DEF Deletes, Running, At, DaysInv, DeleteInv, Deletable
<1> QED BY <1>2, <1>3, <1>4, <1>6, <1>7, <1>8 DEF DraftMove

\* A named draft asks for the days it was saved with, as long as the month plan
\* is not edited between the two reads of a save, no draft is updated or deleted
\* between the reads of a copy, and publications and deletions of drafts do not
\* overlap: deleting a draft that has just been published takes its items and
\* leaves its days.
THEOREM DaysFollowItems ==
  /\ Spec
  /\ []Apart("publishDraft", "deleteDraft")
  /\ []Apart("copyNamedDraft", "updateNamedDraft") /\ []Apart("copyNamedDraft", "deleteDraft")
  /\ [][PlanLeftAlone]_vars
  => []DaysMatchItems
<1>1. PlanningInit => DaysInv
  <2> SUFFICES ASSUME PlanningInit PROVE DaysInv
    OBVIOUS
  <2>1. \A d \in DraftId : ~drafts[d].named
    BY NewFields DEF PlanningInit
  <2>2. \A p \in Session : Deletable(sess[p]) /\ Saving(sess[p]) /\ Copying(sess[p])
    BY DEF PlanningInit, Deletable, Saving, SavesPlan, Copying, Idle
  <2> QED BY <2>1, <2>2, InitDraftInv DEF DaysInv, DeleteInv, DaysMatchItems
<1>2. /\ DaysInv /\ Apart("publishDraft", "deleteDraft")
      /\ Apart("copyNamedDraft", "updateNamedDraft") /\ Apart("copyNamedDraft", "deleteDraft")
      /\ [Next]_vars /\ [PlanLeftAlone]_vars
      => DaysInv'
  <2> SUFFICES ASSUME DaysInv, Apart("publishDraft", "deleteDraft"),
                      Apart("copyNamedDraft", "updateNamedDraft"),
                      Apart("copyNamedDraft", "deleteDraft"),
                      [Next]_vars, [PlanLeftAlone]_vars
               PROVE  DaysInv'
    OBVIOUS
  <2>1. DeleteInv /\ PlanInv
    BY DEF DaysInv, DeleteInv, DraftInv
  <2>2. DeleteInv'
    BY <2>1, DeleteInvInductive
  <2>3. \A d \in DraftId : drafts'[d].named => ItemSlots(d)' = drafts'[d].days
    BY <2>1, DraftMoves, DaysGoOn
  <2>4. \A p \in Session : Saving(sess[p])' /\ Copying(sess[p])'
    BY <2>1, SavingStays, CopyingStays DEF DaysInv
  <2> QED BY <2>2, <2>3, <2>4 DEF DaysInv, DaysMatchItems
<1>3. DaysInv => DaysMatchItems
  BY DEF DaysInv
<1> QED BY <1>1, <1>2, <1>3, PTL DEF Spec

-----------------------------------------------------------------------------
(* What a step does to a shift *)

ReplacedBy(k) ==
  /\ \E p \in Session :
       At(p, "replacePlanningShifts") /\ ~sess[p].doomed /\ k \in sess[p].rows
  /\ shifts'[k].state = "deleted" /\ shifts'[k].link # "open"
RemovedBy(k) ==
  /\ \E p \in Session : At(p, "removePlanningShifts") /\ k \in sess[p].rows
  /\ shifts'[k].state = "deleted" /\ shifts'[k].link = shifts[k].link
InsertedAs(k) ==
  /\ shifts[k].state = "unused"
  /\ shifts'[k].state = "live" /\ shifts'[k].link = "none" /\ ~shifts'[k].worked
WorkedBy(k) ==
  /\ \E p \in Session : At(p, "clockIn")
  /\ \A p \in Session :
       At(p, "replacePlanningShifts") /\ k \in sess[p].rows => sess'[p].doomed
  /\ shifts'[k].state = shifts[k].state /\ shifts'[k].link = shifts[k].link
OfferedBy(k) ==
  /\ \E p \in Session : At(p, "offer")
  /\ Live(k) /\ shifts'[k].state = "live" /\ shifts'[k].worked = shifts[k].worked
Withdrawn(k) ==
  /\ shifts'[k].state = shifts[k].state /\ shifts'[k].worked = shifts[k].worked
  /\ shifts'[k].link = "closed"

ShiftMove(k) ==
  \/ shifts'[k] = shifts[k]
  \/ ReplacedBy(k) /\ shifts'[k].worked = shifts[k].worked
  \/ RemovedBy(k) /\ shifts'[k].worked = shifts[k].worked
  \/ InsertedAs(k) \/ WorkedBy(k) \/ OfferedBy(k) \/ Withdrawn(k)

\* A publication or replacement inserts, and deletes what it replaces.
LEMMA PlanMoves ==
  ASSUME PlanInv, NEW self \in Session, ~sess[self].doomed,
         At(self, "publishDraft") \/ At(self, "replacePlanningShifts"),
         NEW id \in InsertOrders(sess[self].slots),
         shifts' = Replaced(Gone(sess[self]), id, sess[self].users), NEW k \in ShiftId
  PROVE  ShiftMove(k)
<1> PICK a : a = sess[self]
  OBVIOUS
<1>0. id \in [a.slots -> UnusedShiftIds] /\ shifts[k] \in ShiftRow
  BY DEF InsertOrders, PlanInv, PlanningTypeOK
<1>1. CASE Deleted(k, Gone(a))
  <2>1. shifts'[k] = [shifts[k] EXCEPT !.state = "deleted",
                                       !.link = IF @ = "open" THEN "closed" ELSE @]
    BY <1>1 DEF Deleted
  <2>2. /\ shifts'[k].state = "deleted" /\ shifts'[k].link # "open"
        /\ shifts'[k].worked = shifts[k].worked
    BY <1>0, <2>1 DEF ShiftRow
  <2>3. At(self, "replacePlanningShifts") /\ k \in a.rows
    BY <1>1 DEF Deleted, Gone, At
  <2> QED BY <2>2, <2>3 DEF ShiftMove, ReplacedBy
<1>2. CASE Kept(k, Gone(a))
  BY <1>2 DEF Kept, ShiftMove
<1>3. CASE Inserted(k, Gone(a), a.slots, id, a.users)
  <2>1. PICK s \in a.slots : id[s] = k /\ shifts'[k] = NewShift(s, a.users[s], TRUE)
    BY <1>3 DEF Inserted
  <2>2. shifts[k].state = "unused"
    BY <1>0, <2>1 DEF UnusedShiftIds
  <2> QED BY <2>1, <2>2 DEF ShiftMove, InsertedAs, NewShift
<1> QED BY <1>0, <1>1, <1>2, <1>3, ReplacedRows

\* A shift is referred to, and its replacement doomed.
LEMMA ReferMoves ==
  ASSUME PlanInv, NEW self \in Session, ClockInCommit(self) \/ OfferCommit(self),
         NEW k \in ShiftId
  PROVE  ShiftMove(k)
<1> PICK j : j = CHOOSE i \in sess[self].rows : TRUE
  OBVIOUS
<1>0. shifts \in [ShiftId -> ShiftRow] /\ shifts[k] \in ShiftRow
  BY DEF PlanInv, PlanningTypeOK
<1>1. ASSUME NEW row, ReferToShift(self, row), ~Refuse(self)
      PROVE  /\ Live(j) /\ shifts' = [shifts EXCEPT ![j] = row[j]]
             /\ FinishDooming(self, {p \in Session : At(p, "replacePlanningShifts")
                                                     /\ j \in sess[p].rows})
  BY <1>1 DEF ReferToShift
<1>2. CASE Refuse(self) \/ k # j
  BY <1>0, <1>1, <1>2 DEF ClockInCommit, OfferCommit, Refuse, tables, ShiftMove
<1>3. CASE ~Refuse(self) /\ k = j /\ ClockInCommit(self)
  <2> DEFINE row == [i \in ShiftId |-> [shifts[i] EXCEPT !.worked = TRUE]]
  <2>1. row[j] = [shifts[k] EXCEPT !.worked = TRUE]
    BY <1>3
  <2>2. ReferToShift(self, row) /\ At(self, "clockIn")
    BY <1>3 DEF ClockInCommit
  <2> HIDE DEF row
  <2>3. /\ shifts' = [shifts EXCEPT ![j] = row[j]]
        /\ FinishDooming(self, {p \in Session : At(p, "replacePlanningShifts")
                                                /\ j \in sess[p].rows})
    BY <1>1, <1>3, <2>2
  <2>4. shifts'[k] = [shifts[k] EXCEPT !.worked = TRUE]
    BY <1>0, <1>3, <2>1, <2>3
  <2>5. shifts'[k].state = shifts[k].state /\ shifts'[k].link = shifts[k].link
    BY <1>0, <2>4 DEF ShiftRow
  <2>6. ASSUME NEW p \in Session, At(p, "replacePlanningShifts"), k \in sess[p].rows
        PROVE  sess'[p].doomed
    <3>1. p # self
      BY <2>2, <2>6 DEF At
    <3> QED BY <1>3, <2>3, <2>6, <3>1, FinishWork
  <2> QED BY <2>2, <2>5, <2>6 DEF ShiftMove, WorkedBy
<1>4. CASE ~Refuse(self) /\ k = j /\ OfferCommit(self)
  <2> DEFINE row == [i \in ShiftId |-> [shifts[i] EXCEPT !.link = "open"]]
  <2>1. row[j] = [shifts[k] EXCEPT !.link = "open"]
    BY <1>4
  <2>2. ReferToShift(self, row) /\ At(self, "offer")
    BY <1>4 DEF OfferCommit
  <2> HIDE DEF row
  <2>3. Live(k) /\ shifts' = [shifts EXCEPT ![j] = row[j]]
    BY <1>1, <1>4, <2>2
  <2>4. shifts'[k] = [shifts[k] EXCEPT !.link = "open"]
    BY <1>0, <1>4, <2>1, <2>3
  <2>5. shifts'[k].state = shifts[k].state /\ shifts'[k].worked = shifts[k].worked
    BY <1>0, <2>4 DEF ShiftRow
  <2> QED BY <2>2, <2>3, <2>5 DEF ShiftMove, OfferedBy, Live
<1> QED BY <1>2, <1>3, <1>4

\* Shifts are published, replaced, removed, worked in and offered.
LEMMA ShiftCommitMoves ==
  ASSUME PlanInv, NEW self \in Session, ShiftCommit(self), NEW k \in ShiftId
  PROVE  ShiftMove(k)
<1>0. CASE Refuse(self)
  BY <1>0 DEF Refuse, tables, ShiftMove
<1>1. CASE ~Refuse(self) /\ (PublishCommit(self) \/ ReplaceCommit(self))
  <2>1. /\ ~sess[self].doomed
        /\ At(self, "publishDraft") \/ At(self, "replacePlanningShifts")
    BY <1>1 DEF PublishCommit, ReplaceCommit
  <2>2. PICK id \in InsertOrders(sess[self].slots) :
          shifts' = Replaced(Gone(sess[self]), id, sess[self].users)
    BY <1>1 DEF PublishCommit, ReplaceCommit, Gone, At
  <2> QED BY <2>1, <2>2, PlanMoves
<1>2. CASE RemoveCommit(self)
  <2>0. shifts[k] \in ShiftRow
    BY DEF PlanInv, PlanningTypeOK
  <2>1. CASE k \in sess[self].rows /\ Live(k)
    <3>1. shifts'[k] = [shifts[k] EXCEPT !.state = "deleted"]
      BY <1>2, <2>1 DEF RemoveCommit
    <3>2. /\ shifts'[k].state = "deleted" /\ shifts'[k].link = shifts[k].link
          /\ shifts'[k].worked = shifts[k].worked
      BY <2>0, <3>1 DEF ShiftRow
    <3> QED BY <1>2, <2>1, <3>2 DEF RemoveCommit, ShiftMove, RemovedBy
  <2>2. CASE ~(k \in sess[self].rows /\ Live(k))
    BY <1>2, <2>2 DEF RemoveCommit, ShiftMove
  <2> QED BY <2>1, <2>2
<1>3. CASE ClockInCommit(self) \/ OfferCommit(self)
  BY <1>3, ReferMoves
<1> QED BY <1>0, <1>1, <1>2, <1>3 DEF ShiftCommit

\* Offers are withdrawn and shifts added while no request is in flight for them.
LEMMA ShiftEditMoves ==
  ASSUME PlanInv, ShiftEdit, NEW k \in ShiftId
  PROVE  ShiftMove(k)
<1>0. shifts \in [ShiftId -> ShiftRow] /\ shifts[k] \in ShiftRow
  BY DEF PlanInv, PlanningTypeOK
<1>1. ASSUME NEW j \in ShiftId, CloseOffer(j) PROVE ShiftMove(k)
  <2>1. shifts' = [shifts EXCEPT ![j].link = "closed"]
    BY <1>1 DEF CloseOffer
  <2>2. CASE k # j
    BY <1>0, <2>1, <2>2 DEF ShiftMove
  <2>3. CASE k = j
    <3>1. shifts'[k] = [shifts[k] EXCEPT !.link = "closed"]
      BY <1>0, <2>1, <2>3
    <3>2. /\ shifts'[k].state = shifts[k].state /\ shifts'[k].worked = shifts[k].worked
          /\ shifts'[k].link = "closed"
      BY <1>0, <3>1 DEF ShiftRow
    <3> QED BY <3>2 DEF ShiftMove, Withdrawn
  <2> QED BY <2>2, <2>3
<1>2. ASSUME NEW u, NEW s, AddShift(u, s) PROVE ShiftMove(k)
  <2>1. PICK j \in ShiftId : /\ First(j, UnusedShiftIds)
                             /\ shifts' = [shifts EXCEPT ![j] = NewShift(s, u, FALSE)]
    BY <1>2 DEF AddShift
  <2>2. CASE k # j
    BY <1>0, <2>1, <2>2 DEF ShiftMove
  <2>3. CASE k = j
    <3>1. shifts'[k] = NewShift(s, u, FALSE) /\ shifts[k].state = "unused"
      BY <1>0, <2>1, <2>3 DEF First, UnusedShiftIds
    <3> QED BY <3>1 DEF NewShift, ShiftMove, InsertedAs
  <2> QED BY <2>2, <2>3
<1>3. ASSUME NEW u, NEW s, ApproveLeave(u, s) PROVE ShiftMove(k)
  BY <1>3 DEF ApproveLeave, ShiftMove
<1> QED BY <1>1, <1>2, <1>3 DEF ShiftEdit

\* Nothing else touches a shift.
LEMMA ShiftMoves ==
  ASSUME PlanInv, [Next]_vars, NEW k \in ShiftId
  PROVE  ShiftMove(k)
<1>0. UNCHANGED shifts => ShiftMove(k)
  BY DEF ShiftMove
<1>1. ASSUME NEW self \in Session, Request(self) PROVE ShiftMove(k)
  <2>1. Begins(self)
    BY <1>1, DraftRequestBegins, WishRequestBegins, ShiftRequestBegins DEF Request
  <2> QED BY <1>0, <2>1 DEF Begins, tables
<1>2. ASSUME NEW self \in Session, Commit(self) PROVE ShiftMove(k)
  <2>0. CASE Refuse(self)
    BY <1>0, <2>0 DEF Refuse, tables
  <2>1. CASE DraftCommit(self)
    BY <1>0, <2>0, <2>1 DEF DraftCommit, PrepareMonthCommit, SaveNamedDraftCommit,
      CopyDaysCommit, UpdateNamedDraftCommit, DeleteDraftCommit
  <2>2. CASE WishCommit(self)
    BY <1>0, <2>0, <2>2 DEF WishCommit, OpenRoundCommit, CloseRoundCommit,
      SetItemWishEnabledCommit, AssignWishCommit, CreateWishCommit, WithdrawWishCommit,
      CommitOnItem
  <2>3. CASE ShiftCommit(self)
    BY <2>3, ShiftCommitMoves
  <2> QED BY <1>2, <2>1, <2>2, <2>3 DEF Commit
<1>3. ASSUME NEW self \in Session, Crash(self) PROVE ShiftMove(k)
  BY <1>0, <1>3 DEF Crash, Refuse, tables
<1>4. CASE Edit
  BY <1>0, <1>4, ShiftEditMoves DEF Edit, WorkspaceEdit, UpsertMonthPlanDay, CreateNamedDraft,
    OpenNamedDraftWorkspace
<1>5. CASE Tick \/ UNCHANGED vars
  BY <1>0, <1>5 DEF Tick, tables, vars
<1>6. ASSUME NEW self \in Session, DraftStep(self) PROVE ShiftMove(k)
  BY <1>0, <1>6, CopyGoesOn DEF tables
<1> QED BY <1>1, <1>2, <1>3, <1>4, <1>5, <1>6 DEF Next

-----------------------------------------------------------------------------
(* Shifts that are worked in, and offers *)

\* A removal or replacement goes on with shifts nobody works in.
LEMMA UnworkedStays ==
  ASSUME PlanInv, [Next]_vars, Apart("removePlanningShifts", "clockIn"),
         NEW p \in Session, Unworked(sess[p])
  PROVE  Unworked(sess[p])'
<1>1. CASE Begins(p)
  <2>1. PICK b : Begin(p, b) /\ Begun(b) /\ UNCHANGED <<tables, now>>
    BY <1>1 DEF Begins
  <2>2. sess'[p] = b
    BY <2>1 DEF Begin, PlanInv, PlanningTypeOK
  <2> QED BY <2>1, <2>2 DEF Unworked, Begun, tables
<1>2. CASE sess'[p] = Idle
  BY <1>2 DEF Unworked, Idle
<1>3. CASE GoesOn(p)
  <2> PICK a : a = sess[p]
    OBVIOUS
  <2> PICK b : b = sess'[p]
    OBVIOUS
  <2>1. b.op = a.op /\ b.rows = a.rows /\ (a.doomed => b.doomed) /\ a.rows \subseteq ShiftId
    <3>1. a \in SessionState
      BY DEF PlanInv, PlanningTypeOK
    <3> QED BY <1>3, <3>1 DEF GoesOn, SessionState
  <2>2. ASSUME NEW k \in a.rows, ~shifts[k].worked,
               \/ a.op = "removePlanningShifts"
               \/ a.op = "replacePlanningShifts" /\ ~b.doomed
        PROVE  ~shifts'[k].worked
    <3>1. ~WorkedBy(k)
      BY <2>2 DEF WorkedBy, Apart, At
    <3>2. ShiftMove(k)
      BY <2>1, ShiftMoves
    <3> QED BY <2>2, <3>1, <3>2 DEF ShiftMove, InsertedAs, OfferedBy, Withdrawn
  <2>3. Unworked(b)'
    BY <2>1, <2>2 DEF Unworked
  <2> QED BY <2>3
<1>4. CASE DraftStep(p)
  BY <1>4, CopyGoesOn DEF Unworked
<1> QED BY <1>1, <1>2, <1>3, <1>4, SessionMoves

\* A shift somebody has clocked in to is not taken away by the plan, as long as
\* nobody clocks in during a removal, whose counts are those of its snapshot;
\* a replacement is serializable and needs no such condition.
THEOREM WorkedShiftsAreKept ==
  Spec /\ []Apart("removePlanningShifts", "clockIn") => WorkedShiftsStay
<1> DEFINE Stay == \A k \in ShiftId : Live(k) /\ shifts[k].worked => Live(k)'
<1>1. WorkInv /\ [Next]_vars => [Stay]_vars
  <2> SUFFICES ASSUME WorkInv, [Next]_vars, NEW k \in ShiftId, Live(k), shifts[k].worked
               PROVE  Live(k)'
    OBVIOUS
  <2>1. ShiftMove(k)
    BY ShiftMoves DEF WorkInv
  <2>2. ~ReplacedBy(k) /\ ~RemovedBy(k)
    BY DEF WorkInv, Unworked, ReplacedBy, RemovedBy, At
  <2> QED BY <2>1, <2>2 DEF ShiftMove, InsertedAs, WorkedBy, OfferedBy, Withdrawn, Live
<1>2. WorkInv /\ Apart("removePlanningShifts", "clockIn") /\ [Next]_vars => WorkInv'
  BY PlanInvInductive, UnworkedStays DEF WorkInv
<1>3. PlanningInit => WorkInv
  BY InitPlanInv DEF PlanningInit, WorkInv, Unworked, Idle
<1> QED BY <1>1, <1>2, <1>3, PTL DEF Spec, WorkedShiftsStay

\* A removal goes on with shifts nobody offers.
LEMMA UnofferedStays ==
  ASSUME PlanInv, [Next]_vars, Apart("removePlanningShifts", "offer"),
         NEW p \in Session, Unoffered(sess[p])
  PROVE  Unoffered(sess[p])'
<1>1. CASE Begins(p)
  <2>1. PICK b : Begin(p, b) /\ Begun(b) /\ UNCHANGED <<tables, now>>
    BY <1>1 DEF Begins
  <2>2. sess'[p] = b
    BY <2>1 DEF Begin, PlanInv, PlanningTypeOK
  <2> QED BY <2>1, <2>2 DEF Unoffered, Begun, tables
<1>2. CASE sess'[p] = Idle
  BY <1>2 DEF Unoffered, Idle
<1>3. CASE GoesOn(p)
  <2> PICK a : a = sess[p]
    OBVIOUS
  <2> PICK b : b = sess'[p]
    OBVIOUS
  <2>1. b.op = a.op /\ b.rows = a.rows /\ a.rows \subseteq ShiftId
    <3>1. a \in SessionState
      BY DEF PlanInv, PlanningTypeOK
    <3> QED BY <1>3, <3>1 DEF GoesOn, SessionState
  <2>2. ASSUME a.op = "removePlanningShifts", NEW k \in a.rows, shifts[k].link # "open"
        PROVE  shifts'[k].link # "open"
    <3>1. ~OfferedBy(k)
      BY <2>2 DEF OfferedBy, Apart, At
    <3>2. ShiftMove(k)
      BY <2>1, ShiftMoves
    <3> QED BY <2>2, <3>1, <3>2
      DEF ShiftMove, ReplacedBy, RemovedBy, InsertedAs, WorkedBy, Withdrawn
  <2>3. Unoffered(b)'
    BY <2>1, <2>2 DEF Unoffered
  <2> QED BY <2>3
<1>4. CASE DraftStep(p)
  BY <1>4, CopyGoesOn DEF Unoffered
<1> QED BY <1>1, <1>2, <1>3, <1>4, SessionMoves

\* An open trade or staffing request is about a shift that is there, as long as
\* nothing is offered during a removal; a replacement closes what it finds.
THEOREM OpenOffersHaveShifts ==
  Spec /\ []Apart("removePlanningShifts", "offer") => []OpenOfferHasShift
<1>1. OfferInv /\ Apart("removePlanningShifts", "offer") /\ [Next]_vars => OfferInv'
  <2> SUFFICES ASSUME OfferInv, Apart("removePlanningShifts", "offer"), [Next]_vars
               PROVE  OfferInv'
    OBVIOUS
  <2>1. PlanInv /\ PlanInv'
    BY PlanInvInductive DEF OfferInv
  <2>2. ASSUME NEW k \in ShiftId, shifts'[k].link = "open" PROVE Live(k)'
    <3>1. ShiftMove(k)
      BY <2>1, ShiftMoves
    <3>2. shifts[k].link = "open" => Live(k)
      BY DEF OfferInv, OpenOfferHasShift
    <3>3. ~RemovedBy(k)
      BY <2>2 DEF OfferInv, Unoffered, RemovedBy, At
    <3> QED BY <2>2, <3>1, <3>2, <3>3
      DEF ShiftMove, ReplacedBy, InsertedAs, WorkedBy, OfferedBy, Withdrawn, Live
  <2>3. \A p \in Session : Unoffered(sess[p])'
    BY <2>1, UnofferedStays DEF OfferInv
  <2> QED BY <2>1, <2>2, <2>3 DEF OfferInv, OpenOfferHasShift
<1>2. PlanningInit => OfferInv
  <2> SUFFICES ASSUME PlanningInit PROVE OfferInv
    OBVIOUS
  <2>1. \A k \in ShiftId : shifts[k].link = "none"
    BY DEF PlanningInit, UnusedShift
  <2> QED BY <2>1, InitPlanInv DEF PlanningInit, OfferInv, OpenOfferHasShift, Unoffered, Idle
<1>3. OfferInv => OpenOfferHasShift
  BY DEF OfferInv
<1> QED BY <1>1, <1>2, <1>3, PTL DEF Spec
=============================================================================
