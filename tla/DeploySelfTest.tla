--------------------------- MODULE DeploySelfTest ---------------------------
(***************************************************************************)
(* obc/deploy.py: one bring-up attempt, for one profile.  The test is a    *)
(* record:                                                                 *)
(*   missing  some expected I2C address has not answered yet               *)
(*   silent   the awaited services whose own status has not arrived        *)
(*   left     time left before the window closes                           *)
(* A probe of the bus is an input: `absent` says that an expected address  *)
(* stays silent in this step, or that no re-probe is due (they are at      *)
(* least RESWEEP_INTERVAL_SEC apart).                                      *)
(***************************************************************************)
EXTENDS CubesatTypes

CONSTANTS
  DeployTimeout,   \* DEPLOY_TIMEOUT_SEC
  Reporters        \* REPORT_TOPICS: the services whose status is awaited

SelfTest ==
  [missing: BOOLEAN, silent: SUBSET Services, left: 0 .. DeployTimeout]

ASSUME DeployAssumption ==
  /\ DeployTimeout \in Nat \ {0}
  /\ Reporters \subseteq Services
  /\ None \notin SelfTest

\* __init__ and begin: a first sweep, and the clock starts.
Begin(profile, absent) ==
  [missing |-> absent, silent |-> ServicesOf[profile] \cap Reporters,
   left |-> DeployTimeout]

NoteReport(d, s) == [d EXCEPT !.silent = @ \ {s}]

\* The part of evaluate that changes the test: re-probe while there is time.
Resweep(d, absent) ==
  [d EXCEPT !.missing = @ /\ (d.left = 0 \/ absent)]

\* evaluate, on a test that has been re-probed.
Passed(d) == ~d.missing /\ d.silent = {}
\* Mutant: the window is compared with the wrong bound and never closes.
FailedNever(d) == ~Passed(d) /\ d.left < 0

Failed(d) == ~Passed(d) /\ d.left = 0

TestElapse(d) == [d EXCEPT !.left = Down(@)]
=============================================================================
