---------------------------- MODULE CinemaModules ----------------------------
(***************************************************************************)
(* The modules of one cinema: administrators switch them on and off, lists  *)
(* of them create rows that are missing, and every request of a user asks   *)
(* whether its module is enabled.  Updates hold the lock of the cinema's    *)
(* modules; lists and questions hold none.                                  *)
(***************************************************************************)
CONSTANTS
  Module,    \* CINEMA_MODULE_KEYS
  Requires,  \* CINEMA_MODULE_DEPENDENCIES, for every module
  Caller     \* concurrent requests to the backend

NoCaller == "nobody"

ASSUME ModulesAssumption ==
  /\ Requires \in [Module -> SUBSET Module]
  /\ NoCaller \notin Caller

VARIABLES
  setting,     \* table CinemaModuleSetting: "none" where the row is missing
  moduleLock,  \* who holds pg_advisory_xact_lock of the cinema's modules
  call,        \* the handler each caller runs
  seen         \* auxiliary: modules that were enabled at some moment since the
               \* question of each caller, all if the rows were inconsistent then

moduleVars == <<setting, moduleLock, call, seen>>

-----------------------------------------------------------------------------

\* buildStoredState: a missing row stands for an enabled module.
Stored == {m \in Module : setting[m] # "off"}

\* applyDisabledDependencies switches modules off until none lacks another.
Closed(modules) == \A m \in modules : Requires[m] \subseteq modules
Usable(modules) == UNION {T \in SUBSET modules : Closed(T)}

NoCall == [op |-> "none"]

Update ==
  [op : {"update"}, step : {"read", "write"}, on : SUBSET Module, off : SUBSET Module,
   keys : SUBSET Module,     \* keysToPersist
   result : SUBSET Module]   \* resolvedState
List == [op : {"list"}, missing : SUBSET Module]
Question == [op : {"question"}, module : Module, todo : SUBSET Module,
             visited : SUBSET Module]

ModulesTypeOK ==
  /\ setting \in [Module -> {"none", "on", "off"}]
  /\ moduleLock \in Caller \cup {NoCaller}
  /\ call \in [Caller -> Update \cup List \cup Question \cup {NoCall}]
  /\ seen \in [Caller -> SUBSET Module]

\* Rows that older versions left may enable a module without what it requires.
ModulesInit ==
  /\ setting \in [Module -> {"none", "on", "off"}]
  /\ moduleLock = NoCaller
  /\ call = [c \in Caller |-> NoCall]
  /\ seen = [c \in Caller |-> {}]

Reply(c) == call' = [call EXCEPT ![c] = NoCall]
Unlock(c) == moduleLock' = IF moduleLock = c THEN NoCaller ELSE moduleLock

-----------------------------------------------------------------------------
(* updateForCinema *)

UpdateLock(c, on, off) ==
  /\ call[c] = NoCall
  /\ on \cup off # {} /\ on \cap off = {}
  /\ moduleLock = NoCaller
  /\ moduleLock' = c
  /\ call' = [call EXCEPT ![c] = [op |-> "update", step |-> "read", on |-> on, off |-> off,
                                  keys |-> {}, result |-> {}]]
  /\ UNCHANGED <<setting, seen>>

\* Mutant of Wanted: what old rows enable without effect counts as enabled.
WantedOfStored(on, off) == (Stored \cup on) \ off

Wanted(on, off) == (Usable(Stored) \cup on) \ off

\* resolveUpdates; it throws when a module is to be enabled without another.
UpdateRead(c) ==
  LET u == call[c]
      wanted == Wanted(u.on, u.off)
      result == Usable(wanted)
  IN
  /\ call[c].op = "update" /\ call[c].step = "read"
  /\ \A m \in u.on : Requires[m] \subseteq wanted \cup u.off
  /\ call' = [call EXCEPT ![c] =
       [u EXCEPT !.step = "write", !.result = result,
                 !.keys = u.on \cup u.off \cup (result \ Stored) \cup (Stored \ result)]]
  /\ UNCHANGED <<setting, moduleLock, seen>>

\* The upserts, and the rows of ensureCatalogRows, at the commit.
UpdateWrite(c) ==
  LET u == call[c] IN
  /\ call[c].op = "update" /\ call[c].step = "write"
  /\ setting' = [m \in Module |->
       IF m \in u.keys THEN IF m \in u.result THEN "on" ELSE "off"
       ELSE IF setting[m] = "none" THEN "on" ELSE setting[m]]
  /\ seen' = [d \in Caller |->
       IF call[d].op = "question" THEN seen[d] \cup Usable(Stored') ELSE {}]
  /\ Reply(c)
  /\ Unlock(c)

-----------------------------------------------------------------------------
(* findForCinema: ensureCatalogRows in a transaction without the lock *)

ListRead(c) ==
  /\ call[c] = NoCall
  /\ call' = [call EXCEPT ![c] =
       [op |-> "list", missing |-> {m \in Module : setting[m] = "none"}]]
  /\ UNCHANGED <<setting, moduleLock, seen>>

\* skipDuplicates keeps the rows that came meanwhile.
ListInsert(c) ==
  /\ call[c].op = "list"
  /\ setting' = [m \in Module |->
       IF m \in call[c].missing /\ setting[m] = "none" THEN "on" ELSE setting[m]]
  /\ Reply(c)
  /\ UNCHANGED <<moduleLock, seen>>

-----------------------------------------------------------------------------
(* isEnabled, of the guard that stands before every handler of a module *)

\* Mutant of Ask: the module counts as visited before its setting is read.
AskVisited(c, m) ==
  /\ call[c] = NoCall
  /\ call' = [call EXCEPT ![c] =
       [op |-> "question", module |-> m, todo |-> {}, visited |-> {m}]]
  /\ seen' = [seen EXCEPT ![c] = IF Closed(Stored) THEN Stored ELSE Module]
  /\ UNCHANGED <<setting, moduleLock>>

Ask(c, m) ==
  /\ call[c] = NoCall
  /\ call' = [call EXCEPT ![c] =
       [op |-> "question", module |-> m, todo |-> {m}, visited |-> {}]]
  /\ seen' = [seen EXCEPT ![c] = IF Closed(Stored) THEN Stored ELSE Module]
  /\ UNCHANGED <<setting, moduleLock>>

\* One row at a time; those a module requires are read in any order.
ReadSetting(c, m) ==
  LET q == call[c] IN
  /\ call[c].op = "question"
  /\ m \in q.todo
  /\ setting[m] # "off"
  /\ call' = [call EXCEPT ![c].visited = q.visited \cup {m},
                          ![c].todo = (q.todo \cup Requires[m]) \ (q.visited \cup {m})]
  /\ UNCHANGED <<setting, moduleLock, seen>>

Allowed(c) == call[c].op = "question" /\ call[c].todo = {}

-----------------------------------------------------------------------------

\* A refusal, an answer, or a failed transaction: without effect.
End(c) ==
  /\ call[c] # NoCall
  /\ Reply(c)
  /\ Unlock(c)
  /\ seen' = [seen EXCEPT ![c] = {}]
  /\ UNCHANGED setting

ModulesNext ==
  \E c \in Caller :
    \/ \E on \in SUBSET Module, off \in SUBSET Module : UpdateLock(c, on, off)
    \/ UpdateRead(c)
    \/ UpdateWrite(c)
    \/ ListRead(c)
    \/ ListInsert(c)
    \/ \E m \in Module : Ask(c, m) \/ ReadSetting(c, m)
    \/ End(c)

ModulesSpec == ModulesInit /\ [][ModulesNext]_moduleVars

-----------------------------------------------------------------------------
(* Properties *)

\* Updates take effect one after the other and all at once, however they overlap
\* with each other and with lists; a dependent module goes with what it requires,
\* and none comes back that the update did not ask for, although old rows enable
\* it (the comment in resolveUpdates).
AskedOf == IF moduleLock = NoCaller THEN [on |-> {}, off |-> {}]
           ELSE [on |-> call[moduleLock].on, off |-> call[moduleLock].off]

Switches == INSTANCE ModuleSwitches WITH enabled <- Usable(Stored), asked <- AskedOf
ImplementsSwitches == Switches!SwitchesSpec

\* Who is let in by the guard, which reads one row after the other while updates
\* commit in between, asked for a module that was enabled at some moment since;
\* only rows that older versions left inconsistent can mislead it.
AllowedWasEnabled ==
  \A c \in Caller : Allowed(c) => call[c].module \in seen[c]
=============================================================================
