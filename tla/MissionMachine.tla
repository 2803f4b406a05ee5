--------------------------- MODULE MissionMachine ---------------------------
(***************************************************************************)
(* obc/mission_machine.py: the mission state and the only legal ways to    *)
(* move it.  A trigger that does not apply in a state is refused, never an *)
(* error: callers ask `May` first, as `fire` asks `may_trigger`.           *)
(***************************************************************************)
EXTENDS CubesatTypes

AllBut(excluded) == MissionState \ excluded

\* Mutant: a table whose stand_down also leaves CRITICAL.
StandDownAnywhere ==
  [ boot_complete   |-> [source |-> {"BOOT"},    dest |-> "STANDBY"],
    begin_deploy    |-> [source |-> {"STANDBY"}, dest |-> "DEPLOY"],
    stand_down      |-> [source |-> AllBut({"STANDBY"}), dest |-> "STANDBY"],
    deploy_complete |-> [source |-> {"DEPLOY"},  dest |-> "NOMINAL"],
    enter_low_power |-> [source |-> {"DEPLOY", "NOMINAL"}, dest |-> "LOW_POWER"],
    enter_safe      |-> [source |-> AllBut({"SAFE", "CRITICAL"}), dest |-> "SAFE"],
    enter_critical  |-> [source |-> AllBut({"CRITICAL"}), dest |-> "CRITICAL"],
    recover         |-> [source |-> {"LOW_POWER", "SAFE"}, dest |-> "NOMINAL"] ]

\* TRANSITIONS: trigger -> the states it applies in, and where it leads.
Transitions ==
  [ boot_complete   |-> [source |-> {"BOOT"},    dest |-> "STANDBY"],
    begin_deploy    |-> [source |-> {"STANDBY"}, dest |-> "DEPLOY"],
    deploy_complete |-> [source |-> {"DEPLOY"},  dest |-> "NOMINAL"],
    stand_down      |-> [source |-> AllBut({"STANDBY", "CRITICAL"}),
                         dest |-> "STANDBY"],
    enter_low_power |-> [source |-> {"DEPLOY", "NOMINAL"},
                         dest |-> "LOW_POWER"],
    enter_safe      |-> [source |-> AllBut({"SAFE", "CRITICAL"}),
                         dest |-> "SAFE"],
    enter_critical  |-> [source |-> AllBut({"CRITICAL"}),
                         dest |-> "CRITICAL"],
    recover         |-> [source |-> {"LOW_POWER", "SAFE"},
                         dest |-> "NOMINAL"] ]

May(state, trigger) == state \in Transitions[trigger].source
=============================================================================
