----------------------------- MODULE PlanningStore -----------------------------
(***************************************************************************)
(* The tables behind the planning of one month in one cinema: the month     *)
(* plan the planners edit together (the workspace), planning drafts with    *)
(* their items, wish rounds and wishes, the shifts, and the requests        *)
(* ("sessions") in flight.                                                  *)
(*                                                                          *)
(* A request that writes what it decided from earlier reads is two steps:   *)
(* it reads, then it commits (a copy of a draft reads it in three).  Most   *)
(* transactions are READ COMMITTED.                                         *)
(* Publication and replacement are SERIALIZABLE: all they read is the       *)
(* snapshot of their first step, and they abort when a row they lock or     *)
(* write was changed since, or when another serializable transaction        *)
(* committed meanwhile (both read and write the same month).                *)
(***************************************************************************)
EXTENDS Integers, FiniteSets

CONSTANTS
  User,         \* employees of the cinema
  Qualified,    \* those qualified for the job function
  Slot,         \* periods a template asks a shift for, one item each
  DefaultUser,  \* the template's standard employee of a slot, or None
  DayLength,    \* hours of a calendar day
  MaxTime,      \* the clock stops here (bound)
  DraftId, ShiftId,   \* row ids (bounds)
  MaxGen,       \* recalculations of a draft (bound)
  Range,        \* the periods a removal or replacement may be asked for
  Session,      \* concurrent requests
  Ops           \* the operations clients send in this instance (bound)

None == 0

ASSUME PlanningAssumption ==
  /\ User \subseteq Nat \ {None}
  /\ Qualified \subseteq User
  /\ Slot \subseteq {i \in [from : Nat, to : Nat] : i.from < i.to}
  /\ DefaultUser \in [Slot -> User \cup {None}]
  /\ DayLength \in Nat \ {0}
  /\ MaxTime \in Nat
  /\ DraftId \subseteq Nat \ {None}
  /\ ShiftId \subseteq Nat \ {None}
  /\ MaxGen \in Nat
  /\ Range \subseteq [from : Nat, to : Nat]

VARIABLES
  workspace,  \* slots of the active MonthPlanDay rows and their templates
  drafts,     \* ShiftPlanningDraft with its items, days, round and wishes
  shifts,     \* table Shift, with what refers to it
  onLeave,    \* approved LeaveRequest rows: <<user, slot>>
  now,        \* wall clock
  sess        \* the request each session runs

tables == <<workspace, drafts, shifts, onLeave>>
vars == <<workspace, drafts, shifts, onLeave, now, sess>>

-----------------------------------------------------------------------------
(* Rows *)

NoSlot == [from |-> 0, to |-> 0]
MaybeUser == User \cup {None}

\* A draft item; it lives in the row of its draft, under its slot.  Its
\* wishes go when it goes (ON DELETE CASCADE).
ItemRow == [status : {"absent", "DRAFT", "PUBLISHED"}, user : MaybeUser,
            wish : BOOLEAN, wishes : [User -> {"none", "active", "withdrawn"}]]
NoItem == [status |-> "absent", user |-> None, wish |-> FALSE,
           wishes |-> [u \in User |-> "none"]]

\* days is the snapshot of the workspace a named draft keeps; gen numbers the
\* recalculations, which replace all items by rows with new ids.
DraftStatus == {"unused", "DRAFT", "PUBLISHED", "SUPERSEDED", "deleted"}
DraftRow == [status : DraftStatus, named : BOOLEAN, days : SUBSET Slot,
             gen : 0 .. MaxGen, items : [Slot -> ItemRow],
             round : {"none", "OPEN", "CLOSED"}, closesAt : 0 .. MaxTime + 1]
NoItems == [s \in Slot |-> NoItem]
UnusedDraft == [status |-> "unused", named |-> FALSE, days |-> {}, gen |-> 0,
                items |-> NoItems, round |-> "none", closesAt |-> 0]

\* link stands for the ShiftTrade and StaffingRequest rows of the shift,
\* worked for a TimeEntry that is not voided.  Both survive its deletion
\* (ON DELETE SET NULL): a deleted row keeps them.
ShiftRow == [state : {"unused", "live", "deleted"}, slot : Slot \cup {NoSlot},
             user : MaybeUser, planned : BOOLEAN,
             link : {"none", "open", "closed"}, worked : BOOLEAN]
UnusedShift == [state |-> "unused", slot |-> NoSlot, user |-> None,
                planned |-> FALSE, link |-> "none", worked |-> FALSE]

NewShift(s, u, planned) ==
  [state |-> "live", slot |-> s, user |-> u, planned |-> planned,
   link |-> "none", worked |-> FALSE]

Live(k) == shifts[k].state = "live"
LiveShifts == {k \in ShiftId : Live(k)}
UnusedShiftIds == {k \in ShiftId : shifts[k].state = "unused"}
UnusedDraftIds == {d \in DraftId : drafts[d].status = "unused"}

\* Ids are handed out in order.  When a table is full (bound) an INSERT fails.
First(id, unused) == id \in unused /\ \A other \in unused : id <= other

ItemSlots(d) == {s \in Slot : drafts[d].items[s].status # "absent"}
Editable(d) == drafts[d].status = "DRAFT"

-----------------------------------------------------------------------------
(* Time *)

Day(t) == t \div DayLength
Overlap(i, j) == i.from < j.to /\ j.from < i.to
Within(s, r) == r.from <= s.from /\ s.from < r.to

\* checkShiftConflicts: a shift or an approved absence of the user.
ShiftConflict(u, s) ==
  \E k \in LiveShifts : shifts[k].user = u /\ Overlap(shifts[k].slot, s)
Conflicts(u, s) ==
  ShiftConflict(u, s) \/ \E l \in onLeave : l[1] = u /\ Overlap(l[2], s)

-----------------------------------------------------------------------------
(* Sessions: what a request read in its first step and is about to commit. *)
(* slots: the slots it generated, or whose shifts it creates; users: their   *)
(* assignees; rows: the shifts it locks or deletes; item: the draft item, by  *)
(* slot and gen; copied: it has the items of the draft it copies; doomed: its *)
(* commit will fail with a serialization conflict.                            *)

OpName == {"prepareMonth", "saveNamedDraft", "updateNamedDraft", "copyNamedDraft",
           "deleteDraft", "publishDraft", "replacePlanningShifts",
           "removePlanningShifts", "openRound", "closeRound",
           "setItemWishEnabled", "createWish", "withdrawWish", "assignWish",
           "clockIn", "offer"}

SessionState ==
  [op : OpName \cup {"none"}, draft : DraftId \cup {None},
   gen : 0 .. MaxGen, slot : Slot \cup {NoSlot}, user : MaybeUser,
   slots : SUBSET Slot, users : [Slot -> MaybeUser],
   rows : SUBSET ShiftId, flag : BOOLEAN,
   closesAt : 0 .. MaxTime + 1, copied : BOOLEAN, doomed : BOOLEAN]
Idle == [op |-> "none", draft |-> None, gen |-> 0, slot |-> NoSlot,
         user |-> None, slots |-> {}, users |-> [s \in Slot |-> None],
         rows |-> {}, flag |-> FALSE, closesAt |-> 0, copied |-> FALSE,
         doomed |-> FALSE]

At(self, op) == sess[self].op = op

Serializable == {"publishDraft", "replacePlanningShifts"}
InTransaction(p) == sess[p].op \in Serializable

\* Publication and replacement hold the row of their draft (FOR UPDATE).
Locked(d) == \E p \in Session : InTransaction(p) /\ sess[p].draft = d

Begin(self, state) ==
  /\ state.op \in Ops
  /\ sess[self] = Idle
  /\ sess' = [sess EXCEPT ![self] = state]

\* The session ends; the serializable transactions in hit can no longer
\* commit.
FinishDooming(self, hit) ==
  sess' = [p \in Session |->
             IF p = self THEN Idle
             ELSE [sess[p] EXCEPT !.doomed = @ \/ p \in hit]]
Finish(self) == FinishDooming(self, {})

Refuse(self) == Finish(self) /\ UNCHANGED <<tables, now>>

\* Serializable transactions that locked or delete one of these shifts.
Touching(rows) ==
  {p \in Session : InTransaction(p) /\ sess[p].rows \cap rows # {}}

-----------------------------------------------------------------------------
PlanningInit ==
  /\ workspace \in SUBSET Slot
  /\ drafts = [d \in DraftId |-> UnusedDraft]
  /\ shifts = [k \in ShiftId |-> UnusedShift]
  /\ onLeave = {}
  /\ now = 0
  /\ sess = [p \in Session |-> Idle]

\* The process dies, a deadlock is broken or the transaction times out.
Crash(self) == sess[self] # Idle /\ Refuse(self)

Tick ==
  /\ now < MaxTime
  /\ now' = now + 1
  /\ UNCHANGED <<tables, sess>>

PlanningTypeOK ==
  /\ workspace \in SUBSET Slot
  /\ drafts \in [DraftId -> DraftRow]
  /\ shifts \in [ShiftId -> ShiftRow]
  /\ onLeave \in SUBSET (User \X Slot)
  /\ now \in 0 .. MaxTime
  /\ sess \in [Session -> SessionState]
=============================================================================
