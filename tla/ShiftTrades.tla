------------------------------ MODULE ShiftTrades ------------------------------
(***************************************************************************)
(* An employee offers a shift to everyone (POOL) or to one colleague       *)
(* (DIRECT: target # None); a colleague accepts or declines; the offerer   *)
(* withdraws: createShiftTrade, acceptShiftTrade, rejectShiftTrade and     *)
(* cancelShiftTrade.                                                        *)
(***************************************************************************)
EXTENDS ShiftStore

Pool(t) == trades[t].target = None

-----------------------------------------------------------------------------
(* createShiftTrade serialises on namespace 53001, which no other handler  *)
(* takes.                                                                   *)

\* Mutant of CreateTradeBegin: no advisory lock.
CreateTradeUnlocked(self, u, s, target) ==
  /\ shifts[s].state # "unused"
  /\ target # u
  /\ Begin(self, [Idle EXCEPT !.op = "createTrade", !.step = "check",
                              !.user = u, !.other = target, !.shift = s])
  /\ UNCHANGED <<tables, now, held>>

CreateTradeBegin(self, u, s, target) ==
  /\ shifts[s].state # "unused"
  /\ target # u
  /\ Begin(self, [Idle EXCEPT !.op = "createTrade", !.step = "check",
                              !.user = u, !.other = target, !.shift = s])
  /\ Acquire(self, OfferLock(s))
  /\ UNCHANGED <<tables, now>>

CreateTradeCheck(self) ==
  LET a == sess[self] IN
  /\ At(self, "createTrade", "check")
  /\ Check(self, /\ LiveShift(a.shift)
                 /\ ~ActiveTimeEntry(a.shift)
                 /\ shifts[a.shift].user = a.user
                 /\ a.other = None \/ a.other \in Qualified
                 /\ ~Started(shifts[a.shift].ivl)
                 /\ ~\E t \in TradeId : OpenTrade(t) /\ trades[t].shift = a.shift,
           "write")

\* The foreign key makes the INSERT fail when the shift is gone.
CreateTradeCommit(self) ==
  LET a == sess[self] IN
  /\ At(self, "createTrade", "write")
  /\ \/ /\ LiveShift(a.shift)
        /\ \E t \in TradeId :
             /\ First(t, UnusedTradeIds)
             /\ trades' = [trades EXCEPT ![t] =
                  [status |-> "OPEN", shift |-> a.shift, offeredBy |-> a.user,
                   target |-> a.other, acceptedBy |-> None, declines |-> {}]]
        /\ Finish(self)
        /\ UNCHANGED <<shifts, requests, leaves, entries, now>>
     \/ (~LiveShift(a.shift) \/ UnusedTradeIds = {}) /\ Rollback(self)

-----------------------------------------------------------------------------
(* acceptShiftTrade *)

\* ensureShiftTradeCanBeAccepted and ensureShiftTradeCanBeRejected
Actionable(t, u) ==
  /\ OpenTrade(t)
  /\ trades[t].offeredBy # u
  /\ trades[t].target \in {None, u}

\* The trade is read before the lock of its shift can be taken.
AcceptTradeBegin(self, u, t) ==
  /\ Actionable(t, u)
  /\ trades[t].shift # None
  /\ Begin(self, [Idle EXCEPT !.op = "acceptTrade", !.step = "lock",
                    !.user = u, !.item = t, !.shift = trades[t].shift])
  /\ UNCHANGED <<tables, now, held>>

AcceptTradeLock(self) ==
  /\ At(self, "acceptTrade", "lock")
  /\ Acquire(self, RecordLock(sess[self].shift))
  /\ Goto(self, "check")
  /\ UNCHANGED <<tables, now>>

\* Unlike checkShiftConflicts, only shifts of the same cinema count.
ConflictInCinema(u, s) ==
  \E r \in ShiftId \ {s} :
    /\ LiveShift(r)
    /\ shifts[r].user = u
    /\ shifts[r].cinema = shifts[s].cinema
    /\ Overlap(shifts[r].ivl, shifts[s].ivl)

\* Mutant of AcceptTradeCheck: the time entries of the shift are not read.
AcceptWorkedShift(self) ==
  LET a == sess[self] s == trades[a.item].shift IN
  /\ At(self, "acceptTrade", "check")
  /\ Check(self, /\ Actionable(a.item, a.user)
                 /\ LiveShift(s)
                 /\ shifts[s].user = trades[a.item].offeredBy
                 /\ a.user \in Qualified
                 /\ ~Started(shifts[s].ivl),
           "write")

AcceptTradeCheck(self) ==
  LET a == sess[self] s == trades[a.item].shift IN
  /\ At(self, "acceptTrade", "check")
  /\ Check(self, /\ Actionable(a.item, a.user)
                 /\ Pool(a.item) => a.user \notin trades[a.item].declines
                 /\ LiveShift(s)
                 /\ shifts[s].user = trades[a.item].offeredBy
                 /\ ~ActiveTimeEntry(s)
                 /\ a.user \in Qualified
                 /\ ~Started(shifts[s].ivl)
                 /\ ~ConflictInCinema(a.user, s)
                 /\ ~ApprovedLeave(a.user, shifts[s].cinema, shifts[s].ivl),
           "write")

\* Mutant of AcceptTradeCommit: the updates do not repeat their conditions.
AcceptUnconditionally(self) ==
  LET a == sess[self] IN
  /\ At(self, "acceptTrade", "write")
  /\ trades' = [trades EXCEPT ![a.item].status = "ACCEPTED",
                              ![a.item].acceptedBy = a.user]
  /\ shifts' = [shifts EXCEPT ![a.shift].user = a.user]
  /\ Finish(self)
  /\ UNCHANGED <<requests, leaves, entries, now>>

\* The two conditional updates, the trade's and the shift's, re-read their
\* rows; either of them matching no row aborts both.
AcceptTradeCommit(self) ==
  LET a == sess[self]
      claims == /\ OpenTrade(a.item)
                /\ trades[a.item].shift = a.shift
                /\ LiveShift(a.shift)
                /\ shifts[a.shift].user = trades[a.item].offeredBy
  IN
  /\ At(self, "acceptTrade", "write")
  /\ \/ /\ claims
        /\ trades' = [trades EXCEPT ![a.item].status = "ACCEPTED",
                                    ![a.item].acceptedBy = a.user]
        /\ shifts' = [shifts EXCEPT ![a.shift].user = a.user]
        /\ Finish(self)
        /\ UNCHANGED <<requests, leaves, entries, now>>
     \/ ~claims /\ Rollback(self)

-----------------------------------------------------------------------------
(* rejectShiftTrade: a DIRECT offer is closed, without a lock; declining a *)
(* POOL offer only records the decline, under the lock of the shift.       *)

RejectTradeBegin(self, u, t) ==
  /\ Actionable(t, u)
  /\ Pool(t) => trades[t].shift # None
  /\ Begin(self, [Idle EXCEPT !.op = "rejectTrade",
                    !.step = IF Pool(t) THEN "lock" ELSE "write",
                    !.user = u, !.item = t, !.shift = trades[t].shift])
  /\ UNCHANGED <<tables, now, held>>

\* Mutant of RejectPoolTradeLock: declining does not wait for acceptances.
RejectPoolTradeUnlocked(self) ==
  /\ At(self, "rejectTrade", "lock")
  /\ Goto(self, "check")
  /\ UNCHANGED <<tables, now, held>>

RejectPoolTradeLock(self) ==
  /\ At(self, "rejectTrade", "lock")
  /\ Acquire(self, RecordLock(sess[self].shift))
  /\ Goto(self, "check")
  /\ UNCHANGED <<tables, now>>

RejectPoolTradeCheck(self) ==
  LET a == sess[self] s == trades[a.item].shift IN
  /\ At(self, "rejectTrade", "check")
  /\ Check(self, /\ Actionable(a.item, a.user)
                 /\ LiveShift(s)
                 /\ shifts[s].user = trades[a.item].offeredBy
                 /\ ~Started(shifts[s].ivl)
                 /\ a.user \in Qualified
                 /\ a.user \notin trades[a.item].declines,
           "write")

\* INSERT of a ShiftTradeDecline row, unique per trade and user.
RejectPoolTradeCommit(self) ==
  LET a == sess[self] IN
  /\ At(self, "rejectTrade", "write")
  /\ Pool(a.item)
  /\ \/ /\ a.user \notin trades[a.item].declines
        /\ trades' = [trades EXCEPT ![a.item].declines = @ \cup {a.user}]
        /\ Finish(self)
        /\ UNCHANGED <<shifts, requests, leaves, entries, now>>
     \/ a.user \in trades[a.item].declines /\ Rollback(self)

CloseTrade(self, t, status) ==
  \/ /\ OpenTrade(t)
     /\ trades' = [trades EXCEPT ![t].status = status]
     /\ Finish(self)
     /\ UNCHANGED <<shifts, requests, leaves, entries, now>>
  \/ ~OpenTrade(t) /\ Rollback(self)

\* Mutant of RejectDirectTradeCommit: a status ShiftTradeStatus lacks.
DeclineDirectTrade(self) ==
  /\ At(self, "rejectTrade", "write")
  /\ ~Pool(sess[self].item)
  /\ CloseTrade(self, sess[self].item, "DECLINED")

RejectDirectTradeCommit(self) ==
  /\ At(self, "rejectTrade", "write")
  /\ ~Pool(sess[self].item)
  /\ CloseTrade(self, sess[self].item, "REJECTED")

-----------------------------------------------------------------------------
(* cancelShiftTrade: no lock *)

CancelTradeBegin(self, t) ==
  /\ OpenTrade(t)
  /\ Begin(self, [Idle EXCEPT !.op = "cancelTrade", !.step = "write",
                    !.user = trades[t].offeredBy, !.item = t])
  /\ UNCHANGED <<tables, now, held>>

CancelTradeCommit(self) ==
  /\ At(self, "cancelTrade", "write")
  /\ CloseTrade(self, sess[self].item, "CANCELLED")

-----------------------------------------------------------------------------
TradeRequest(self) ==
  \/ \E u \in User, s \in ShiftId, target \in MaybeUser : CreateTradeBegin(self, u, s, target)
  \/ \E u \in User, t \in TradeId : AcceptTradeBegin(self, u, t)
  \/ \E u \in User, t \in TradeId : RejectTradeBegin(self, u, t)
  \/ \E t \in TradeId : CancelTradeBegin(self, t)

TradeStep(self) ==
  \/ CreateTradeCheck(self)
  \/ CreateTradeCommit(self)
  \/ AcceptTradeLock(self)
  \/ AcceptTradeCheck(self)
  \/ AcceptTradeCommit(self)
  \/ RejectPoolTradeLock(self)
  \/ RejectPoolTradeCheck(self)
  \/ RejectPoolTradeCommit(self)
  \/ RejectDirectTradeCommit(self)
  \/ CancelTradeCommit(self)
=============================================================================
