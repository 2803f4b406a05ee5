--------------------------- MODULE ProfileMachine ---------------------------
(***************************************************************************)
(* obc/profile_machine.py: what OBC asked of HOSTD and what HOSTD says it  *)
(* achieved, two separate facts.  The machine is a record:                 *)
(*   achieved   the profile HOSTD last reported, None before any report    *)
(*   requested  the request HOSTD has not answered yet, or None            *)
(*   resuming   whether that request is a resume (_requested_resume)       *)
(*   settle     time left of the window in which the request explains the  *)
(*              goodbyes it causes (`settling`)                            *)
(*   resumed    start_reason = "resume"; the mission label moves with it   *)
(*   deadline   time left of the TTL HOSTD published, None when unarmed    *)
(***************************************************************************)
EXTENDS CubesatTypes

CONSTANTS
  SettleGrace,   \* SETTLE_GRACE_SEC
  Minutes        \* the TTLs a command or a resumed trip may carry

ASSUME ProfileMachineAssumption ==
  /\ SettleGrace \in Nat \ {0}
  /\ Minutes \subseteq Nat

Ttls == Nat \cup {None}

ProfileMachineState ==
  [ achieved: Profiles \cup {None}, requested: Profiles \cup {None},
    resuming: BOOLEAN, settle: 0 .. SettleGrace, resumed: BOOLEAN,
    deadline: Ttls ]

InitProfileMachine ==
  [ achieved |-> None, requested |-> None, resuming |-> FALSE, settle |-> 0,
    resumed |-> FALSE, deadline |-> None ]

Settling(p) == p.requested # None /\ p.settle > 0

\* request: remembers what was asked.  Its caller validates the name first.
Request(p, profile, resume) ==
  [p EXCEPT !.requested = profile, !.resuming = resume, !.settle = SettleGrace]

\* The TTL that travels with the request: the command's, or the profile's own.
RequestTtl(profile, ttl) == IF ttl # None THEN ttl ELSE TtlOf[profile]

\* The part of a host_status the profile machine reads.
Matches(p, profile) == p.requested \in {None, profile}
Changed(p, profile) == profile # p.achieved

\* _arm_ttl: HOSTD's deadline, and none on the profile an expiry lands in.
ArmTtl(profile, ttl) == IF profile = DefaultProfile THEN None ELSE ttl

\* Mutant: only the answer to a request of one's own arms the TTL.
ObserveArmsAnswersOnly(p, profile, ttl) ==
  LET answers == p.requested # None
  IN  IF ~Matches(p, profile) THEN [p EXCEPT !.achieved = profile]
      ELSE [ achieved  |-> profile, requested |-> None, resuming  |-> FALSE,
             settle    |-> 0,
             resumed   |-> IF answers THEN p.resuming ELSE p.resumed,
             deadline  |-> IF answers THEN ArmTtl(profile, ttl) ELSE p.deadline ]

\* observe, for a status that names a profile.  A report of another profile
\* than the one requested is adopted as the truth about the host but answers
\* nothing: the request stays open, the label and the deadline stay put.
Observe(p, profile, ttl) ==
  LET answers == Changed(p, profile) \/ p.requested # None
  IN  IF ~Matches(p, profile) THEN [p EXCEPT !.achieved = profile]
      ELSE [ achieved  |-> profile,
             requested |-> None,
             resuming  |-> FALSE,
             settle    |-> 0,
             resumed   |-> IF answers THEN p.resuming ELSE p.resumed,
             deadline  |-> IF answers THEN ArmTtl(profile, ttl) ELSE p.deadline ]

Expired(p) == p.deadline = 0

ProfileElapse(p) ==
  [p EXCEPT !.settle = Down(@),
            !.deadline = IF @ = None THEN None ELSE Down(@)]
=============================================================================
