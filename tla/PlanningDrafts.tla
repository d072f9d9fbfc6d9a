---------------------------- MODULE PlanningDrafts ----------------------------
(***************************************************************************)
(* Planning drafts: ShiftPlanningDraftsService and the named-draft          *)
(* workspace.  A draft is generated from the month plan, recalculated,      *)
(* copied, opened (which restores its days to the month plan), superseded   *)
(* and deleted.  Renaming changes a name only and is left out.              *)
(***************************************************************************)
EXTENDS PlanningStore

\* buildShiftPlanningMonthData: an item for every slot of the active days,
\* for the template's standard employee.
Generate(slots) ==
  [s \in Slot |->
     IF s \in slots
     THEN [NoItem EXCEPT !.status = "DRAFT", !.user = DefaultUser[s]]
     ELSE NoItem]

\* A draft made by prepareMonth keeps no days, a named draft does.
MonthDraft(items) ==
  [UnusedDraft EXCEPT !.status = "DRAFT", !.items = items]
NamedDraft(days, items) ==
  [MonthDraft(items) EXCEPT !.named = TRUE, !.days = days]

InsertDraft(d, row) ==
  /\ First(d, UnusedDraftIds)
  /\ drafts' = [drafts EXCEPT ![d] = row]

\* upsertMonthPlanDay, and the edits of templates: the workspace changes.
UpsertMonthPlanDay(s) ==
  /\ "upsertMonthPlanDay" \in Ops
  /\ workspace' = IF s \in workspace THEN workspace \ {s} ELSE workspace \cup {s}
  /\ UNCHANGED <<drafts, shifts, onLeave, now, sess>>

\* prepareMonth: read the month plan, ...
PrepareMonthRead(self) ==
  /\ Begin(self, [Idle EXCEPT !.op = "prepareMonth", !.slots = workspace])
  /\ UNCHANGED <<tables, now>>

\* ... then supersede every open draft, whatever its wish round, and insert
\* the new one.  The UPDATE waits for the drafts that are locked.
PrepareMonthCommit(self) ==
  /\ At(self, "prepareMonth")
  /\ \A d \in DraftId : Editable(d) => ~Locked(d)
  /\ \E new \in DraftId :
       /\ First(new, UnusedDraftIds)
       /\ drafts' = [d \in DraftId |->
            IF d = new THEN MonthDraft(Generate(sess[self].slots))
            ELSE IF Editable(d) THEN [drafts[d] EXCEPT !.status = "SUPERSEDED"]
            ELSE drafts[d]]
  /\ Finish(self)
  /\ UNCHANGED <<workspace, shifts, onLeave, now>>

\* saveNamedDraft: the items come from the first read of the month plan, the
\* day snapshot from a second one inside the transaction.
SaveNamedDraftRead(self) ==
  /\ workspace # {}
  /\ Begin(self, [Idle EXCEPT !.op = "saveNamedDraft", !.slots = workspace])
  /\ UNCHANGED <<tables, now>>

SaveNamedDraftCommit(self) ==
  /\ At(self, "saveNamedDraft")
  /\ \E d \in DraftId :
       InsertDraft(d, NamedDraft(workspace, Generate(sess[self].slots)))
  /\ Finish(self)
  /\ UNCHANGED <<workspace, shifts, onLeave, now>>

\* createNamedDraft: no items and blank days.
CreateNamedDraft ==
  /\ "createNamedDraft" \in Ops
  /\ \E d \in DraftId : InsertDraft(d, NamedDraft({}, NoItems))
  /\ UNCHANGED <<workspace, shifts, onLeave, now, sess>>

\* copyNamedDraft: from a draft of any status; neither the round nor the
\* wishes are copied.  One READ COMMITTED transaction reads the source three
\* times, and no lock keeps it as it is: first its row, ...
CopyDraftRead(self, source) ==
  /\ drafts[source].status \notin {"unused", "deleted"}
  /\ Begin(self, [Idle EXCEPT !.op = "copyNamedDraft", !.draft = source,
                              !.flag = drafts[source].named])
  /\ UNCHANGED <<tables, now>>

\* ... then its items, ...
CopyItems(self, source) ==
  /\ At(self, "copyNamedDraft")
  /\ sess[self].draft = source
  /\ ~sess[self].copied
  /\ sess' = [sess EXCEPT ![self].copied = TRUE,
                          ![self].slots = ItemSlots(source),
                          ![self].users = [s \in Slot |-> drafts[source].items[s].user]]
  /\ UNCHANGED <<tables, now>>

CopyOf(slots, users) ==
  [s \in Slot |->
     IF s \in slots THEN [NoItem EXCEPT !.status = "DRAFT", !.user = users[s]]
     ELSE NoItem]

\* ... and at last its days, if it still has them.
CopyDaysCommit(self, source) ==
  /\ At(self, "copyNamedDraft")
  /\ sess[self].draft = source
  /\ sess[self].copied
  /\ LET a == sess[self] IN
     \E d \in DraftId :
       InsertDraft(d, [MonthDraft(CopyOf(a.slots, a.users)) EXCEPT
                         !.named = a.flag, !.days = drafts[source].days])
  /\ Finish(self)
  /\ UNCHANGED <<workspace, shifts, onLeave, now>>

\* restoreDraftDaySnapshotToWorkspace
RestoreWorkspace(d) == workspace' = drafts[d].days

\* openNamedDraftWorkspace: the draft's days overwrite the shared month plan.
OpenNamedDraftWorkspace(d) ==
  /\ "openNamedDraftWorkspace" \in Ops
  /\ Editable(d)
  /\ ~Locked(d)
  /\ drafts[d].named
  /\ RestoreWorkspace(d)
  /\ UNCHANGED <<drafts, shifts, onLeave, now, sess>>

\* Mutant of UpdateNamedDraftRead: whatever the wish round.
UpdateDuringRound(self, d) ==
  /\ Editable(d)
  /\ Begin(self, [Idle EXCEPT !.op = "updateNamedDraft", !.draft = d,
                              !.slots = workspace])
  /\ UNCHANGED <<tables, now>>

\* updateNamedDraft: refused when there is a wish round; that check and the
\* generation precede the transaction, which checks the status again.
UpdateNamedDraftRead(self, d) ==
  /\ drafts[d].round = "none"
  /\ Editable(d)
  /\ Begin(self, [Idle EXCEPT !.op = "updateNamedDraft", !.draft = d,
                              !.slots = workspace])
  /\ UNCHANGED <<tables, now>>

\* Mutant of UpdateNamedDraftCommit: the status is not read again.
UpdateNamedDraftBlindly(self) ==
  /\ At(self, "updateNamedDraft")
  /\ LET d == sess[self].draft IN
     /\ ~Locked(d)
     /\ drafts[d].gen < MaxGen
     /\ drafts' = [drafts EXCEPT
          ![d] = [drafts[d] EXCEPT !.gen = @ + 1, !.days = workspace,
                           !.items = Generate(sess[self].slots)]]
     /\ Finish(self)
     /\ UNCHANGED <<workspace, shifts, onLeave, now>>

\* Mutant of UpdateNamedDraftCommit: the days stay those of the last save.
UpdateItemsOnly(self) ==
  /\ At(self, "updateNamedDraft")
  /\ LET d == sess[self].draft IN
     \/ /\ Editable(d)
        /\ ~Locked(d)
        /\ drafts[d].gen < MaxGen
        /\ drafts' = [drafts EXCEPT
             ![d] = [drafts[d] EXCEPT !.gen = @ + 1,
                              !.items = Generate(sess[self].slots)]]
        /\ Finish(self)
        /\ UNCHANGED <<workspace, shifts, onLeave, now>>
     \/ ~Editable(d) /\ Refuse(self)

UpdateNamedDraftCommit(self) ==
  /\ At(self, "updateNamedDraft")
  /\ LET d == sess[self].draft IN
     \/ /\ Editable(d)
        /\ ~Locked(d)
        /\ drafts[d].gen < MaxGen
        /\ drafts' = [drafts EXCEPT
             ![d] = [drafts[d] EXCEPT !.gen = @ + 1, !.days = workspace,
                              !.items = Generate(sess[self].slots)]]
        /\ Finish(self)
        /\ UNCHANGED <<workspace, shifts, onLeave, now>>
     \/ ~Editable(d) /\ Refuse(self)

\* deleteDraft: the status is read before the transaction, which deletes the
\* items unconditionally and the draft only if it is not published.
DeleteDraftRead(self, d) ==
  /\ drafts[d].status \notin {"unused", "deleted", "PUBLISHED"}
  /\ Begin(self, [Idle EXCEPT !.op = "deleteDraft", !.draft = d])
  /\ UNCHANGED <<tables, now>>

DeleteDraftCommit(self) ==
  /\ At(self, "deleteDraft")
  /\ LET d == sess[self].draft IN
     /\ ~Locked(d)
     /\ drafts' = [drafts EXCEPT ![d] =
          IF @.status = "PUBLISHED" THEN [@ EXCEPT !.items = NoItems]
          ELSE [UnusedDraft EXCEPT !.status = "deleted"]]
  /\ Finish(self)
  /\ UNCHANGED <<workspace, shifts, onLeave, now>>

DraftRequest(self) ==
  \/ PrepareMonthRead(self)
  \/ SaveNamedDraftRead(self)
  \/ \E d \in DraftId : \/ CopyDraftRead(self, d)
                       \/ UpdateNamedDraftRead(self, d)
                       \/ DeleteDraftRead(self, d)

DraftStep(self) == \E d \in DraftId : CopyItems(self, d)

DraftCommit(self) ==
  \/ PrepareMonthCommit(self)
  \/ SaveNamedDraftCommit(self)
  \/ \E d \in DraftId : CopyDaysCommit(self, d)
  \/ UpdateNamedDraftCommit(self)
  \/ DeleteDraftCommit(self)

WorkspaceEdit ==
  \/ \E s \in Slot : UpsertMonthPlanDay(s)
  \/ CreateNamedDraft
  \/ \E d \in DraftId : OpenNamedDraftWorkspace(d)
=============================================================================
