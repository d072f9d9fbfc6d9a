---------------------------- MODULE ModuleSwitches ----------------------------
(***************************************************************************)
(* What the modules of a cinema promise: one request after the other is     *)
(* granted or turned down; never is a module enabled without those it       *)
(* requires, and never one that the request granted does not ask for.       *)
(***************************************************************************)
CONSTANTS Module, Requires

VARIABLES
  enabled,  \* the modules in effect
  asked     \* the request being considered: modules to enable and to disable

NotAsked == [on |-> {}, off |-> {}]

Consistent(modules) == \A m \in modules : Requires[m] \subseteq modules

SwitchesInit ==
  /\ enabled \in SUBSET Module /\ Consistent(enabled)
  /\ asked = NotAsked

Consider ==
  /\ asked = NotAsked
  /\ asked' \in [on : SUBSET Module, off : SUBSET Module]
  /\ UNCHANGED enabled

\* As much is enabled as the request leaves possible.
Grant ==
  LET wanted == (enabled \cup asked.on) \ asked.off IN
  /\ \A m \in asked.on : Requires[m] \subseteq wanted \cup asked.off
  /\ enabled' \in SUBSET wanted
  /\ Consistent(enabled')
  /\ \A other \in SUBSET wanted : Consistent(other) => other \subseteq enabled'
  /\ asked' = NotAsked

TurnDown == asked' = NotAsked /\ UNCHANGED enabled

SwitchesNext == Consider \/ Grant \/ TurnDown

SwitchesSpec == SwitchesInit /\ [][SwitchesNext]_<<enabled, asked>>
=============================================================================
