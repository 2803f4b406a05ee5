--------------------------------- MODULE Obc ---------------------------------
(***************************************************************************)
(* obc/service.py: the head of the satellite.  Every handler runs to its   *)
(* end under one lock, so each is one step, built by composing the methods *)
(* it calls: an operator takes the service's state and returns the state   *)
(* after the method, with what it published appended to `out`.             *)
(*                                                                         *)
(* The state is one record:                                                *)
(*   started    on_start has run; messages may arrive before it            *)
(*   mission    MissionMachine.state                                       *)
(*   profile    the profile machine                                        *)
(*   health     the heartbeat monitor                                      *)
(*   deploy     _deploy, the bring-up in progress, or None                 *)
(*   latched    _fault_latched                                             *)
(*   recording  _dhs_recording, None until DHS says anything               *)
(*   lowered    _governor_lowered                                          *)
(*   resume     the resume question                                        *)
(*   flushed    the event _flushed                                         *)
(*   flush      the thread _flush_then_poweroff: none, started, waiting,   *)
(*              done; and the time left of its wait                        *)
(*   out        what the last step published, in order                     *)
(* Time is counted in ticks; every clock of the code is an age or the time *)
(* left, so the model has no absolute time.                                *)
(***************************************************************************)
EXTENDS MissionMachine, PowerPolicy, HealthMonitor, ProfileMachine,
        DeploySelfTest, Resume

CONSTANTS
  FlushGrace,   \* CRITICAL_FLUSH_GRACE_SEC
  Readings,     \* the eps_status messages EPS may send
  Beating,      \* the services whose heartbeats and goodbyes may arrive
  Commands,     \* the OBC commands the ground may send
  HostReports   \* the host_status messages HOSTD may send

Dhs == "dhs"

ASSUME ObcAssumption ==
  /\ FlushGrace \in Nat
  /\ Readings \subseteq EpsStatus
  /\ Beating \subseteq Watchable
  /\ HostReports \subseteq HostStatus
  /\ Commands \subseteq {"set_profile", "safe_mode", "restart_service", "recover"}

VARIABLE obc

InitObc ==
  [ started |-> FALSE, mission |-> "BOOT", profile |-> InitProfileMachine,
    health |-> InitMonitor, deploy |-> None, latched |-> FALSE,
    recording |-> None, lowered |-> FALSE, resume |-> InitResume,
    flushed |-> FALSE, flush |-> "none", grace |-> 0, out |-> <<>> ]

(***************************************************************************)
(* What OBC publishes: obc_status, retained, and actions for HOSTD.        *)
(***************************************************************************)
Publish(o, message) == [o EXCEPT !.out = Append(@, message)]

\* _publish_status: one snapshot of everything a subsystem needs.
StatusOf(o) ==
  [ kind |-> "status", mission |-> o.mission, profile |-> o.profile.achieved,
    resumed |-> o.profile.resumed, report |-> o.resume.report ]
PublishStatus(o) == Publish(o, StatusOf(o))

RequestGovernor(o, governor) ==
  Publish(o, [kind |-> "set_governor", governor |-> governor])

\* profile_machine.request with _request_apply: a name that profiles.yaml
\* does not define is refused before anything is remembered.
RequestProfile(o, profile, ttl, resume) ==
  IF profile \notin Profiles THEN o
  ELSE Publish([o EXCEPT !.profile = Request(@, profile, resume)],
               [kind |-> "apply_profile", profile |-> profile,
                ttl |-> RequestTtl(profile, ttl), resume |-> resume])

(***************************************************************************)
(* The mission state.                                                      *)
(***************************************************************************)

\* Mutants: the governor that is asked for is the profile's name, and the
\* lowered governor is never restored.
GovernorByProfileName(o) ==
  IF o.mission = "NOMINAL" /\ o.lowered /\ o.profile.achieved # None
  THEN RequestGovernor([o EXCEPT !.lowered = FALSE], o.profile.achieved)
  ELSE [o EXCEPT !.lowered = o.mission = "LOW_POWER" \/ @]
GovernorStaysLow(o) ==
  IF o.mission = "LOW_POWER" /\ ~o.lowered
  THEN RequestGovernor([o EXCEPT !.lowered = TRUE], "powersave") ELSE o

\* _reconcile_governor: lower it once in LOW_POWER, restore it in NOMINAL.
ReconcileGovernor(o) ==
  CASE o.mission = "LOW_POWER" /\ ~o.lowered ->
         RequestGovernor([o EXCEPT !.lowered = TRUE], "powersave")
    [] o.mission = "NOMINAL" /\ o.lowered /\ o.profile.achieved # None ->
         RequestGovernor([o EXCEPT !.lowered = FALSE],
                         GovernorOf[o.profile.achieved])
    [] o.mission = "NOMINAL" /\ o.lowered /\ o.profile.achieved = None ->
         [o EXCEPT !.lowered = FALSE]
    [] OTHER -> o

\* fire with _on_state_change: a refused trigger changes and publishes nothing.
Fire(o, trigger) ==
  IF ~May(o.mission, trigger) THEN o
  ELSE ReconcileGovernor(PublishStatus(
         [o EXCEPT !.mission = Transitions[trigger].dest]))

\* _enter_safe: the fault is latched even when the transition is refused.
EnterSafe(o, latch) ==
  [Fire(o, "enter_safe") EXCEPT !.latched = @ \/ latch]

\* Mutants: a recovery that keeps the latch, one that flies under any profile,
\* and one that lets the battery take the satellite out of a latched fault.
RecoverKeepsLatch(o, automatic) ==
  IF automatic /\ o.latched THEN o ELSE Fire(o, "recover")
RecoverAlwaysFlies(o, automatic) ==
  IF automatic /\ o.latched THEN o
  ELSE Fire([o EXCEPT !.latched = FALSE], "recover")
RecoverForgivesFaults(o, automatic) ==
  Fire([o EXCEPT !.latched = FALSE],
       IF o.profile.achieved \in ActiveProfiles THEN "recover" ELSE "stand_down")

\* _recover: withheld from the battery while a fault is latched; inside a
\* profile that asks for no mission it ends in STANDBY.
Recover(o, automatic) ==
  LET unlatched == [o EXCEPT !.latched = FALSE]
      achieved  == o.profile.achieved
  IN  IF automatic /\ o.latched THEN o
      ELSE IF achieved # None /\ achieved \notin ActiveProfiles
           THEN Fire(unlatched, "stand_down")
           ELSE Fire(unlatched, "recover")

\* _enter_critical: the flush runs in a thread of its own.
EnterCritical(o) ==
  IF ~May(o.mission, "enter_critical") THEN o
  ELSE [Fire(o, "enter_critical") EXCEPT !.flushed = FALSE,
                                         !.flush = "started"]

(***************************************************************************)
(* Reconciliation, at the end of every handler.                            *)
(***************************************************************************)

\* Mutant: the attempt is dropped when there is no verdict yet.
CheckDeployForgets(o, absent) ==
  IF o.deploy = None \/ o.mission # "DEPLOY" THEN o
  ELSE [o EXCEPT !.deploy = None]

\* _check_deploy: the verdict of the bring-up, once there is one.
CheckDeploy(o, absent) ==
  IF o.deploy = None \/ o.mission # "DEPLOY" THEN o
  ELSE LET test   == Resweep(o.deploy, absent)
           closed == [o EXCEPT !.deploy = None]
       IN  CASE Passed(test) -> Fire(closed, "deploy_complete")
             [] Failed(test) -> EnterSafe(closed, TRUE)
             [] OTHER        -> [o EXCEPT !.deploy = test]

\* _check_health: a lost subsystem is a fault, unless a switch explains it.
CheckHealth(o) ==
  IF \/ o.mission \in {"BOOT", "SAFE", "CRITICAL"}
     \/ Settling(o.profile)
     \/ Lost(o.health) = {}
  THEN o
  ELSE EnterSafe(o, TRUE)

Reconcile(o, absent) == CheckHealth(CheckDeploy(o, absent))

(***************************************************************************)
(* The profile.                                                            *)
(***************************************************************************)

\* _begin_deploy: no bring-up starts where begin_deploy is refused.
BeginDeploy(o, profile, absent) ==
  IF ~May(o.mission, "begin_deploy") THEN o
  ELSE Reconcile([Fire(o, "begin_deploy") EXCEPT
                    !.deploy = Begin(profile, absent)], absent)

\* Mutant: the new profile is announced in the old mission state.
UpdateInFlight(o, status, absent) ==
  PublishStatus([o EXCEPT !.profile = Observe(@, status.profile, status.ttl),
                          !.health = Watch(@, ServicesOf[status.profile])])

\* Mutant: a profile nobody here asked for is not adopted.
UpdateAnswersOnly(o, status, absent) ==
  IF o.profile.requested # status.profile THEN o
  ELSE PublishStatus([o EXCEPT
         !.profile = Observe(@, status.profile, status.ttl)])

\* observe and _apply_profile_update, for a status that names a profile.
\* Every change of profile starts from STANDBY with nothing latched.
ApplyProfileUpdate(o, status, absent) ==
  LET profile  == status.profile
      observed == [o EXCEPT !.profile = Observe(@, profile, status.ttl)]
      stood    == PublishStatus(Fire(
                    [observed EXCEPT
                       !.health = Watch(@, ServicesOf[profile]),
                       !.deploy = None, !.latched = FALSE, !.lowered = FALSE],
                    "stand_down"))
  IN  CASE ~Changed(o.profile, profile) -> PublishStatus(observed)
        [] Changed(o.profile, profile) /\ profile \in ActiveProfiles
           /\ Matches(o.profile, profile) ->
             BeginDeploy(stood, profile, absent)
        [] OTHER -> stood

(***************************************************************************)
(* Resuming an interrupted trip.                                           *)
(***************************************************************************)

\* _report_boot
ReportBoot(o, report) ==
  PublishStatus([o EXCEPT !.resume = Answer(@, report)])

\* _weigh_resume: once per boot, everything but the mains reading.
WeighResume(o, status) ==
  IF ~Unasked(o.resume) \/ ~status.boot THEN o
  ELSE IF Refusal(status.previous) # None
       THEN ReportBoot(o, Refusal(status.previous))
       ELSE [o EXCEPT !.resume = Await(@, status.previous)]

\* _take_resume: ask for the trip back, on the remainder of its own TTL.
TakeResume(o) ==
  LET trip  == o.resume.candidate
      asked == RequestProfile([o EXCEPT !.resume.candidate = None],
                              trip.profile, trip.ttl, TRUE)
  IN  ReportBoot([asked EXCEPT !.resume.settle = ResumeSettle], "resumed")

\* _resume_on_evidence: only a boolean pin is evidence.
ResumeOnEvidence(o, eps) ==
  CASE o.resume.candidate = None \/ eps.external = None -> o
    [] o.resume.candidate # None /\ eps.external = TRUE -> ReportBoot(o, "mains")
    [] o.resume.candidate # None /\ eps.external = FALSE -> TakeResume(o)

\* Mutant: the wait is compared with the wrong bound and never ends.
ExpireResumeNever(o) ==
  IF o.resume.candidate = None \/ o.resume.wait >= 0 THEN o
  ELSE ReportBoot(o, "noeps")

\* _expire_resume_wait: a missing measurement is no measurement of no mains.
ExpireResumeWait(o) ==
  IF o.resume.candidate = None \/ o.resume.wait > 0 THEN o
  ELSE ReportBoot(o, "noeps")

\* _settle_resume: tell HOSTD, once, that this session is not a boot loop.
SettleResume(o) ==
  IF o.resume.settle # 0 THEN o
  ELSE Publish([o EXCEPT !.resume.settle = None], [kind |-> "clear_resume"])

\* request_default_on_expiry: disarmed before the request goes out.
RequestDefaultOnExpiry(o) ==
  IF ~Expired(o.profile) THEN o
  ELSE RequestProfile([o EXCEPT !.profile.deadline = None],
                      DefaultProfile, None, FALSE)

(***************************************************************************)
(* The handlers.                                                           *)
(***************************************************************************)

Quiet == [obc EXCEPT !.out = <<>>]

\* _note_report: a subsystem's own status counts towards the bring-up.
NoteReportFrom(o, s) ==
  IF o.deploy = None THEN o ELSE [o EXCEPT !.deploy = NoteReport(@, s)]

OnEpsStatus(o, eps) ==
  LET weighed == ResumeOnEvidence(o, eps)
      reading == ReadingFrom(eps)
      target  == IF reading = None THEN None
                 ELSE Evaluate(reading, weighed.mission)
  IN  CASE target = "CRITICAL"  -> EnterCritical(weighed)
        [] target = "SAFE"      -> EnterSafe(weighed, FALSE)
        [] target = "LOW_POWER" -> Fire(weighed, "enter_low_power")
        [] target = "NOMINAL"   -> Recover(weighed, TRUE)
        [] OTHER                -> weighed

OnHostStatus(o, status, absent) ==
  LET weighed == WeighResume(o, status)
  IN  IF status.profile = None THEN weighed
      ELSE ApplyProfileUpdate(weighed, status, absent)

OnDhsStatus(o, recording) ==
  IF recording = None THEN o
  ELSE [o EXCEPT !.recording = recording, !.flushed = @ \/ ~recording]

\* on_start, after the broker has answered; messages may have come first.
OnStart ==
  /\ ~obc.started
  /\ obc' = Fire([Quiet EXCEPT !.started = TRUE, !.health = Watch(@, {})],
                 "boot_complete")

Ticked(absent) ==
  Reconcile(SettleResume(ExpireResumeWait(
    RequestDefaultOnExpiry(PublishStatus(Quiet)))), absent)

Tick ==
  /\ obc.started
  /\ \E absent \in BOOLEAN : obc' = Ticked(absent)

\* The ground's commands.  None stands for a name profiles.yaml does not have.
SetProfile ==
  /\ "set_profile" \in Commands
  /\ \E profile \in Profiles \cup {None}, ttl \in Minutes \cup {None},
        absent \in BOOLEAN :
       obc' = Reconcile(RequestProfile(Quiet, profile, ttl, FALSE), absent)

SafeMode ==
  /\ "safe_mode" \in Commands
  /\ \E absent \in BOOLEAN : obc' = Reconcile(EnterSafe(Quiet, TRUE), absent)

\* The departure is expected before HOSTD is asked to cause it.
RestartService ==
  /\ "restart_service" \in Commands
  /\ \E s \in Watchable, absent \in BOOLEAN :
       obc' = Reconcile(Publish([Quiet EXCEPT !.health = ExpectRestart(@, s)],
                                [kind |-> "restart_service", service |-> s]),
                        absent)

GroundRecover ==
  /\ "recover" \in Commands
  /\ \E absent \in BOOLEAN : obc' = Reconcile(Recover(Quiet, FALSE), absent)

EpsReports ==
  \E eps \in Readings, absent \in BOOLEAN :
    obc' = Reconcile(OnEpsStatus(Quiet, eps), absent)

HostdReports ==
  \E status \in HostReports, absent \in BOOLEAN :
    obc' = Reconcile(OnHostStatus(Quiet, status, absent), absent)

Heartbeat ==
  \E s \in Beating, alive \in BOOLEAN, absent \in BOOLEAN :
    obc' = Reconcile([Quiet EXCEPT !.health =
                        IF alive THEN NoteAlive(@, s) ELSE NoteGone(@, s)],
                     absent)

\* adcs_status, payload_status and comms_status: evidence for DEPLOY.
SubsystemReports ==
  \E s \in Reporters \ {Dhs}, absent \in BOOLEAN :
    obc' = Reconcile(NoteReportFrom(Quiet, s), absent)

DhsReports ==
  \E recording \in BOOLEAN \cup {None}, absent \in BOOLEAN :
    obc' = Reconcile(NoteReportFrom(OnDhsStatus(Quiet, recording), Dhs), absent)

\* _flush_then_poweroff, in its own thread and without the lock: look at what
\* is known of the recorder, wait for it, then ask for the poweroff.
AwaitingFlush ==
  /\ obc.profile.achieved # None
  /\ Dhs \in ServicesOf[obc.profile.achieved]
  /\ obc.recording # FALSE

FlushBegins ==
  /\ obc.flush = "started"
  /\ obc' = [Quiet EXCEPT !.flush = "waiting",
                          !.grace = IF AwaitingFlush THEN FlushGrace ELSE 0]

\* Mutant: only DHS's word ends the wait.
FlushEndsOnDhsOnly ==
  /\ obc.flush = "waiting"
  /\ obc.flushed
  /\ obc' = Publish([Quiet EXCEPT !.flush = "done"], [kind |-> "poweroff"])

FlushEnds ==
  /\ obc.flush = "waiting"
  /\ obc.flushed \/ obc.grace = 0
  /\ obc' = Publish([Quiet EXCEPT !.flush = "done"], [kind |-> "poweroff"])

\* systemctl restart cubesat@obc, or Restart=always after a crash.
Restart ==
  obc' = InitObc

Elapsed ==
  [Quiet EXCEPT !.profile = ProfileElapse(@), !.health = MonitorElapse(@),
                !.deploy = IF @ = None THEN None ELSE TestElapse(@),
                !.resume = ResumeElapse(@), !.grace = Down(@)]

Elapse == obc' = Elapsed

Next ==
  \/ OnStart \/ Tick \/ SetProfile \/ SafeMode \/ RestartService
  \/ GroundRecover \/ EpsReports \/ HostdReports \/ Heartbeat
  \/ SubsystemReports \/ DhsReports \/ FlushBegins \/ FlushEnds \/ Restart
  \/ Elapse

Init == obc = InitObc

Spec == Init /\ [][Next]_obc

(***************************************************************************)
(* Fairness: the process reaches its main loop and keeps ticking, time     *)
(* passes, and the flush thread is scheduled.  Nothing is assumed of EPS,  *)
(* HOSTD, the subsystems or the ground.                                    *)
(***************************************************************************)

\* Weak fairness of OnStart, Tick and Elapse, with what enables a step of each
\* that changes something written out: TLC's ENABLED of so many composed
\* methods is slow.
TickMatters   == obc.started /\ \E absent \in BOOLEAN : Ticked(absent) # obc
ReachesStart  == []<>obc.started \/ []<><<OnStart>>_obc
KeepsTicking  == []<>(~TickMatters) \/ []<><<Tick>>_obc
KeepsElapsing == []<>(Elapsed = obc) \/ []<><<Elapse>>_obc

Fairness ==
  /\ ReachesStart /\ KeepsTicking /\ KeepsElapsing
  /\ WF_obc(FlushBegins) /\ WF_obc(FlushEnds)

FairSpec == Spec /\ Fairness

(***************************************************************************)
(* Properties.                                                             *)
(***************************************************************************)
Mission  == obc.mission
Achieved == obc.profile.achieved

Message ==
  [ kind: {"status"}, mission: MissionState, profile: Profiles \cup {None},
    resumed: BOOLEAN, report: Report ]
  \cup [kind: {"set_governor"}, governor: Governors \cup {"powersave"}]
  \cup [kind: {"apply_profile"}, profile: Profiles, ttl: Nat \cup {None},
        resume: BOOLEAN]
  \cup [kind: {"restart_service"}, service: Watchable]
  \cup [kind: {"clear_resume", "poweroff"}]

ObcState ==
  [ started: BOOLEAN, mission: MissionState, profile: ProfileMachineState,
    health: Monitor, deploy: SelfTest \cup {None}, latched: BOOLEAN,
    recording: BOOLEAN \cup {None}, lowered: BOOLEAN, resume: ResumeState,
    flushed: BOOLEAN, flush: {"none", "started", "waiting", "done"},
    grace: 0 .. FlushGrace, out: Seq(Message) ]

TypeOK == obc \in ObcState

\* A fault stays latched only where it holds the satellite down: no path out
\* of SAFE forgets the latch, and no latch survives into a flying state.
LatchedIsDescended == obc.latched => Mission \in {"SAFE", "CRITICAL"}

\* Under a profile that asks for no mission the satellite is never brought
\* up, flying or throttled, whatever it recovers from.
FlyingIsActive ==
  /\ Mission \in {"DEPLOY", "NOMINAL", "LOW_POWER"}
  /\ Achieved # None
  => Achieved \in ActiveProfiles

\* DEPLOY always has a self-test, of the profile HOSTD achieved, to end it.
DeployIsTested ==
  Mission = "DEPLOY" =>
    /\ obc.deploy # None
    /\ Achieved \in ActiveProfiles
    /\ obc.deploy.silent \subseteq ServicesOf[Achieved]

\* A lowered governor is never carried into STANDBY, DEPLOY or NOMINAL, nor
\* under a profile that does not fly: OBC has asked for the profile's own
\* governor by then, or a new apply_profile has brought it.
LoweredIsDescended ==
  obc.lowered =>
    /\ Mission \in {"LOW_POWER", "SAFE", "CRITICAL"}
    /\ Achieved \in ActiveProfiles \cup {None}

\* OBC never watches a service that the active profile did not start.
WatchesNoStranger ==
  obc.health.watched \subseteq
    {Eps} \cup (IF Achieved = None THEN {} ELSE ServicesOf[Achieved])

\* Only CRITICAL powers the host off, and nothing leaves CRITICAL once the
\* flush thread runs.
PoweroffIsCritical == obc.flush # "none" => Mission = "CRITICAL"

\* No reading makes the satellite chatter: taken twice, it calls for nothing
\* more, unless it calls for a recovery that a latched fault withholds.
ReadingSettles ==
  \A eps \in Readings :
    LET after == OnEpsStatus(obc, eps)
    IN  ReadingFrom(eps) # None /\ Evaluate(ReadingFrom(eps), after.mission) # None
        => after.latched

\* Everything that is neither the ground's recover, nor HOSTD achieving another
\* profile, nor a restart of OBC.
Unforgiving ==
  /\ Achieved' = Achieved
  /\ \/ OnStart \/ Tick \/ SetProfile \/ SafeMode \/ RestartService
     \/ EpsReports \/ HostdReports \/ Heartbeat \/ SubsystemReports
     \/ DhsReports \/ FlushBegins \/ FlushEnds \/ Elapse

\* A latched fault ends by a ground recover, a change of profile or a restart
\* of OBC: no reading of a full pack, no return of the lost service, no report,
\* other command or clock lets go of it or brings the satellite back.
LatchHolds ==
  [][ obc.latched /\ ~(obc'.latched /\ obc'.mission \in {"SAFE", "CRITICAL"})
      => ~Unforgiving ]_obc

ResumesIn(out) ==
  {i \in DOMAIN out : out[i].kind = "apply_profile" /\ out[i].resume}

\* The resume question is answered once in the life of the process, and a
\* trip is asked back only as that answer.
ResumeAskedOnce ==
  [][ ResumesIn(obc'.out) # {}
      => /\ obc.resume.report = None /\ obc'.resume.report = "resumed"
         /\ obc.resume.candidate # None ]_obc

StatusesOf(profile, out) ==
  {i \in DOMAIN out : out[i].kind = "status" /\ out[i].profile = profile}

\* Every change of profile is announced from STANDBY first, so that DHS sees
\* its mission end before the new profile flies; CRITICAL alone stays put.
SwitchStartsFromStandby ==
  [][ Achieved' \notin {Achieved, None} /\ Mission # "CRITICAL"
      => LET news == StatusesOf(Achieved', obc'.out)
         IN  \E first \in news : /\ \A i \in news : first <= i
                                 /\ obc'.out[first].mission = "STANDBY" ]_obc

\* Every handler is a move that the rest of the satellite has been promised: the
\* state goes where MissionPromise lets it, a fault is let go of only there, and
\* a profile starts with nothing of the one before.
Promise ==
  INSTANCE MissionPromise WITH
    mission <- obc.mission, profile <- obc.profile.achieved, grounded <- obc.latched
ImplementsPromise == Promise!PromiseSpec

\* A bring-up ends, in NOMINAL, in SAFE or in the profile being left.
DeployConcludes == Mission = "DEPLOY" ~> Mission # "DEPLOY"

\* Once CRITICAL is entered the poweroff is asked for, whether or not DHS
\* answers; only a restart of OBC takes the thread away.
CriticalPowersOff == obc.flush = "started" ~> obc.flush \in {"done", "none"}

\* A trip that waits for a mains reading is answered even if EPS is dead.
ResumeIsAnswered ==
  obc.resume.candidate # None ~> obc.resume.candidate = None

=============================================================================
