------------------------------ MODULE MCSupport ------------------------------
(***************************************************************************)
(* Small instances of what surrounds planning and pay.  The parts share no  *)
(* state, so each behaviour is about one of them.                           *)
(***************************************************************************)
EXTENDS Accounts, CinemaModules, Messages, TLC

VARIABLE part

ModuleKeys == {"SCHEDULE", "SHIFT_PLANNING", "MESSAGES"}
Dependencies == [m \in ModuleKeys |-> IF m = "SHIFT_PLANNING" THEN {"SCHEDULE"} ELSE {}]

Fixed == [m \in ModuleKeys |-> "on"]

\* Who corresponds with the reader, and a request that runs alone.
Partner == CHOOSE u \in Person : u # Reader
Alone == CHOOSE h \in Handler : TRUE

Written(n, persons) ==
  /\ Len(mail') <= n
  /\ \A h \in Handler : handling'[h].op = "create" =>
       handling'[h].to \cup {handling'[h].from} \subseteq persons

\* Everybody writes; the partner reads, leaves the cinema and returns.
Memberships ==
  /\ Write(Alone) \/ Read(Alone, Partner) \/ Go(Alone) \/ GiveUp(Alone) \/ Move(Partner)
  /\ Written(2, Person)

\* Two correspond, and one of them deletes and restores.
Mailboxes ==
  /\ \/ \E h \in Handler :
          Write(h) \/ Delete(h, Reader) \/ Restore(h, Reader) \/ Go(h) \/ GiveUp(h)
     \/ (\E u \in Person : Recall(u)) \/ NextDay
  /\ Written(2, {Reader, Partner})

\* The reader scrolls while messages arrive and are recalled.
Scrolling ==
  /\ \/ \E h \in Handler : Write(h) \/ Go(h)
     \/ (\E u \in Person : Recall(u)) \/ Scroll
  /\ Written(3, {Reader, Partner})

SupportInit ==
  /\ Init /\ ModulesInit /\ MessagesInit
  /\ \/ part \in {"accounts", "memberships", "mailboxes", "scrolling"} /\ setting = Fixed
     \/ part = "modules"

SupportNext ==
  /\ \/ part = "accounts" /\ Next /\ UNCHANGED <<moduleVars, mailVars>>
     \/ part = "modules" /\ ModulesNext /\ UNCHANGED <<vars, mailVars>>
     \/ /\ \/ part = "memberships" /\ Memberships
           \/ part = "mailboxes" /\ Mailboxes
           \/ part = "scrolling" /\ Scrolling
        /\ UNCHANGED <<vars, moduleVars>>
  /\ UNCHANGED part

SupportSpec == SupportInit /\ [][SupportNext]_<<vars, moduleVars, mailVars, part>>

Symmetry == Permutations(Session) \cup Permutations(Caller)
=============================================================================
