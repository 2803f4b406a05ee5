---------------------------- MODULE CubesatTypes ----------------------------
(***************************************************************************)
(* The vocabulary shared by every service: the two axes of the satellite   *)
(* (the platform profile a human chooses, the mission state the satellite  *)
(* chooses) and the profile table of config/profiles.yaml.  The table is a *)
(* parameter: the code validates whatever the file says and takes no       *)
(* decision on a profile's name except through these columns.              *)
(***************************************************************************)
EXTENDS Integers, Sequences, FiniteSets

CONSTANTS
  None,             \* Python's None: absent, unknown, not armed
  Profiles,         \* the profiles of profiles.yaml
  DefaultProfile,   \* default_profile: where a boot and an expiry land
  ActiveProfiles,   \* the profiles whose `mission` is `active`
  Services,         \* the mission services a profile may start
  ServicesOf,       \* profile -> the services it starts
  TtlOf,            \* profile -> its ttl_minutes, or None
  GovernorOf,       \* profile -> its CPU governor
  Governors,        \* the governors a profile may name
  Resumable         \* RESUMABLE: the profiles a reset may restore

\* EPS runs in every profile, outside profile control.
Eps == "eps"
Watchable == Services \cup {Eps}

MissionState ==
  {"BOOT", "STANDBY", "DEPLOY", "NOMINAL", "LOW_POWER", "SAFE", "CRITICAL"}

\* What profiles.py validates when it loads the file, and the shape of the
\* columns; None is no profile, no state, no number and no boolean.
ASSUME ProfileTable ==
  /\ DefaultProfile \in Profiles
  /\ None \notin Profiles
  /\ ActiveProfiles \subseteq Profiles
  /\ Eps \notin Services
  /\ ServicesOf \in [Profiles -> SUBSET Services]
  /\ TtlOf \in [Profiles -> (Nat \ {0}) \cup {None}]
  /\ GovernorOf \in [Profiles -> Governors]
  /\ Resumable \subseteq Profiles
  /\ None \notin Int
  /\ None \notin MissionState
  /\ None \notin BOOLEAN
  /\ None \notin [profile: Profiles, ttl: Nat \cup {None}, count: Nat]

\* common/last_profile.py: what the file says of the run before this boot: its
\* profile, the time left of its TTL (0 once it has run out, None without one)
\* and how many resumes in a row led to it.
PreviousRun == [profile: Profiles, ttl: Nat \cup {None}, count: Nat]

\* What OBC reads of a host_status.
HostStatus ==
  [profile: Profiles \cup {None}, ttl: Nat \cup {None}, boot: BOOLEAN,
   previous: PreviousRun \cup {None}]

\* A countdown that stays at zero, and an age that stops mattering at `top`.
Down(n) == IF n > 0 THEN n - 1 ELSE 0
Up(n, top) == IF n < top THEN n + 1 ELSE top
=============================================================================
