----------------------------- MODULE TradeLedger -----------------------------
(***************************************************************************)
(* What shift trading promises, without sessions, locks or time: who holds *)
(* each shift, and which offers have been made on it.                       *)
(***************************************************************************)
EXTENDS Naturals

CONSTANTS Shift, Offer, User

Nobody == 0   \* the shift exists and is unassigned, or no shift / user

VARIABLES
  holder,  \* the user who has each shift, Nobody when nobody has it
  offer    \* each offer: its status, shift, maker, taker and refusals

Open(o) == offer[o].status = "OPEN"
NoOffer == [status |-> "unused", shift |-> Nobody, maker |-> Nobody,
            taker |-> Nobody, refused |-> {}]

\* Offers fs are withdrawn, refused, or void because the shift changed.  A
\* shift that is deleted leaves its offers without a shift.
Closed(fs, gone) ==
  [o \in Offer |->
     [offer[o] EXCEPT
        !.status = IF o \in fs THEN "CLOSED" ELSE @,
        !.shift = IF @ \in gone THEN Nobody ELSE @]]

OpenOn(s) == {o \in Offer : Open(o) /\ offer[o].shift = s}

-----------------------------------------------------------------------------
LedgerInit ==
  /\ holder = [s \in Shift |-> Nobody]
  /\ offer = [o \in Offer |-> NoOffer]

\* A shift has at most one open offer.
Make(o, s, u) ==
  /\ offer[o] = NoOffer
  /\ OpenOn(s) = {}
  /\ offer' = [offer EXCEPT ![o] = [status |-> "OPEN", shift |-> s, maker |-> u,
                                     taker |-> Nobody, refused |-> {}]]
  /\ UNCHANGED holder

\* A taker gets the shift from the maker, who must still hold it, in the
\* step that settles the offer; nobody takes what he has refused, nor a shift
\* that is gone.
Take(o, u) ==
  /\ Open(o)
  /\ offer[o].shift \in Shift
  /\ u \notin offer[o].refused \cup {offer[o].maker}
  /\ holder[offer[o].shift] = offer[o].maker
  /\ offer' = [offer EXCEPT ![o].status = "TAKEN", ![o].taker = u]
  /\ holder' = [holder EXCEPT ![offer[o].shift] = u]

\* A refusal may arrive late, but never from the one who took the shift.
Refuse(o, u) ==
  /\ offer[o].status # "unused"
  /\ offer[o].taker # u
  /\ offer' = [offer EXCEPT ![o].refused = @ \cup {u}]
  /\ UNCHANGED holder

Close(o) ==
  /\ Open(o)
  /\ offer' = Closed({o}, {})
  /\ UNCHANGED holder

\* The administration gives shift s to u, or moves it to another day: the
\* offers fs it has found are void.  One made since stays open; it can be taken
\* (Take) only if its maker still holds the shift.
Reassign(s, u, fs) ==
  /\ fs \subseteq OpenOn(s)
  /\ holder' = [holder EXCEPT ![s] = u]
  /\ offer' = Closed(fs, {})

\* A shift that is gone takes its offers' shift with it, and nobody can take
\* one that was not found.
Remove(s, fs) ==
  /\ fs \subseteq OpenOn(s)
  /\ holder' = [holder EXCEPT ![s] = Nobody]
  /\ offer' = Closed(fs, {s})

\* A shift nobody has is created or filled; what is offered stays offered.
Fill(s, u) ==
  /\ holder[s] = Nobody
  /\ holder' = [holder EXCEPT ![s] = u]
  /\ UNCHANGED offer

LedgerNext ==
  \/ \E o \in Offer, s \in Shift, u \in User : Make(o, s, u)
  \/ \E o \in Offer, u \in User : Take(o, u) \/ Refuse(o, u)
  \/ \E o \in Offer : Close(o)
  \/ \E s \in Shift, u \in User \cup {Nobody} :
       \E fs \in SUBSET OpenOn(s) : Reassign(s, u, fs)
  \/ \E s \in Shift : \E fs \in SUBSET OpenOn(s) : Remove(s, fs)
  \/ \E s \in Shift, u \in User : Fill(s, u)

LedgerSpec == LedgerInit /\ [][LedgerNext]_<<holder, offer>>
=============================================================================
