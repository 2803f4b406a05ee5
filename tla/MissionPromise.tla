---------------------------- MODULE MissionPromise ----------------------------
(***************************************************************************)
(* What OBC promises the rest of the satellite of its two axes: the        *)
(* profile that HOSTD has achieved and the mission state.  It says nothing *)
(* of readings, heartbeats, self-tests or clocks, only of the moves that   *)
(* they may lead to; Obc implements it.                                    *)
(*   grounded   a fault holds the satellite down                           *)
(***************************************************************************)
EXTENDS Naturals

CONSTANTS
  None,
  Profiles,
  ActiveProfiles

VARIABLES mission, profile, grounded

promised == <<mission, profile, grounded>>

MissionStates ==
  {"BOOT", "STANDBY", "DEPLOY", "NOMINAL", "LOW_POWER", "SAFE", "CRITICAL"}
Flying == {"DEPLOY", "NOMINAL", "LOW_POWER"}
Down == {"SAFE", "CRITICAL"}

\* Before HOSTD has said anything, no profile forbids to fly.
Flies(p) == p = None \/ p \in ActiveProfiles

\* Where a battery that sinks or a fault may take the satellite.
Lower(state) ==
  CASE state \in {"DEPLOY", "NOMINAL"} -> {"LOW_POWER", "SAFE", "CRITICAL"}
    [] state \in {"BOOT", "STANDBY", "LOW_POWER"} -> {"SAFE", "CRITICAL"}
    [] state = "SAFE" -> {"CRITICAL"}
    [] state = "CRITICAL" -> {}

\* Where a recovery ends.
Recovered(p) == IF Flies(p) THEN "NOMINAL" ELSE "STANDBY"

PromiseInit == mission = "BOOT" /\ profile = None /\ grounded = FALSE

Starts ==
  /\ mission = "BOOT" /\ mission' = "STANDBY"
  /\ UNCHANGED <<profile, grounded>>

\* Down, or grounded where it is; a fault is never forgotten on the way.
Sinks ==
  /\ mission' # mission => mission' \in Lower(mission)
  /\ \/ grounded' = grounded
     \/ grounded' = TRUE /\ mission' \in Down
  /\ UNCHANGED profile

\* A bring-up that passed.
Concludes ==
  /\ mission = "DEPLOY" /\ mission' = "NOMINAL"
  /\ UNCHANGED <<profile, grounded>>

\* A pack that has recovered brings the satellite back, not from a fault.
Recovers ==
  /\ mission \in {"LOW_POWER", "SAFE"} /\ ~grounded
  /\ mission' = Recovered(profile)
  /\ UNCHANGED <<profile, grounded>>

\* The ground's recover forgives a fault, in CRITICAL too; it stands down
\* whatever a profile that does not fly has come to.
Pardons ==
  /\ \/ mission \in {"LOW_POWER", "SAFE"} /\ mission' = Recovered(profile)
     \/ mission # "CRITICAL" /\ ~Flies(profile) /\ mission' = "STANDBY"
     \/ mission' = mission /\ mission # "SAFE"
  /\ grounded' = FALSE
  /\ UNCHANGED profile

\* HOSTD achieves a profile: whatever was flying ends, with the fault that held
\* it down.  The new profile flies if it may, from its bring-up on, or comes to
\* a fault of its own; CRITICAL is the end of every profile.
Switches ==
  /\ profile' \in Profiles \ {profile}
  /\ IF mission = "CRITICAL" THEN mission' = "CRITICAL" /\ grounded' = FALSE
     ELSE \/ mission' = "STANDBY" /\ grounded' = FALSE
          \/ mission' \in {"DEPLOY", "NOMINAL"} /\ profile' \in ActiveProfiles
             /\ grounded' = FALSE
          \/ mission' = "SAFE" /\ grounded' = TRUE

\* A restart of OBC.
Forgets == mission' = "BOOT" /\ profile' = None /\ grounded' = FALSE

PromiseNext ==
  \/ Sinks \/ Starts \/ Concludes \/ Recovers \/ Pardons \/ Switches \/ Forgets

PromiseSpec == PromiseInit /\ [][PromiseNext]_promised

\* Under a profile that asks for no mission the satellite is never brought up,
\* flying or throttled (_recover, _apply_profile_update); a fault holds it down.
PromiseKept ==
  /\ mission \in MissionStates
  /\ profile \in Profiles \cup {None}
  /\ grounded \in BOOLEAN
  /\ mission \in Flying => Flies(profile)
  /\ grounded => mission \in Down
===============================================================================
