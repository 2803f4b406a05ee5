----------------------------- MODULE Obc_proofs -----------------------------
(***************************************************************************)
(* Proofs about Obc, for every profile table, every timeout and every      *)
(* environment.  The layout follows the module: a lemma on the type of     *)
(* what each operator returns, then one step per action.                   *)
(***************************************************************************)
EXTENDS Obc, TLAPS

(***************************************************************************)
(* The records OBC is made of.                                             *)
(***************************************************************************)

\* The health monitor's operators return monitors.
LEMMA MonitorTypes ==
  ASSUME NEW h \in Monitor, NEW s \in Watchable, NEW services \in SUBSET Services
  PROVE  /\ InitMonitor \in Monitor
         /\ Watch(h, services) \in Monitor
         /\ ExpectRestart(h, s) \in Monitor
         /\ NoteAlive(h, s) \in Monitor
         /\ NoteGone(h, s) \in Monitor
         /\ MonitorElapse(h) \in Monitor
<1> USE LossGraceAssumption DEF Monitor, Watchable
<1>1. InitMonitor \in Monitor
  BY DEF InitMonitor
<1>2. Watch(h, services) \in Monitor
  BY DEF Watch
<1> DEFINE Heard(w) == [h EXCEPT !.departed = @ \ {s}, !.age[s] = 0,
                                 !.waiver[s] = w]
<1>3. \A w \in 0 .. LossGrace : Heard(w) \in Monitor
  <2> TAKE w \in 0 .. LossGrace
  <2>1. [h.age EXCEPT ![s] = 0] \in [Watchable -> 0 .. (LossGrace + 1)]
    OBVIOUS
  <2>2. [h.waiver EXCEPT ![s] = w] \in [Watchable -> 0 .. LossGrace]
    OBVIOUS
  <2> QED BY <2>1, <2>2
<1>4. ExpectRestart(h, s) \in Monitor /\ NoteAlive(h, s) \in Monitor
  <2>1. LossGrace \in 0 .. LossGrace /\ 0 \in 0 .. LossGrace
    OBVIOUS
  <2>2. Heard(LossGrace) \in Monitor /\ Heard(0) \in Monitor
    BY <1>3, <2>1
  <2> QED BY <2>2 DEF ExpectRestart, NoteAlive
<1>5. NoteGone(h, s) \in Monitor
  BY DEF NoteGone
<1>6. MonitorElapse(h) \in Monitor
  <2>1. \A w \in Watchable :
          /\ (IF w \in h.watched THEN Up(h.age[w], LossGrace + 1) ELSE 0)
                \in 0 .. (LossGrace + 1)
          /\ Down(h.waiver[w]) \in 0 .. LossGrace
    BY DEF Up, Down
  <2> QED BY <2>1 DEF MonitorElapse
<1> QED BY <1>1, <1>2, <1>4, <1>5, <1>6

\* The profile machine's operators return profile machines.
LEMMA ProfileMachineTypes ==
  ASSUME NEW p \in ProfileMachineState, NEW profile \in Profiles,
         NEW ttl \in Ttls, NEW resume \in BOOLEAN
  PROVE  /\ InitProfileMachine \in ProfileMachineState
         /\ Request(p, profile, resume) \in ProfileMachineState
         /\ Observe(p, profile, ttl) \in ProfileMachineState
         /\ ProfileElapse(p) \in ProfileMachineState
         /\ Observe(p, profile, ttl).achieved = profile
<1> USE ProfileMachineAssumption DEF ProfileMachineState
<1>1. InitProfileMachine \in ProfileMachineState
  BY DEF InitProfileMachine, Ttls
<1>2. Request(p, profile, resume) \in ProfileMachineState
  <2>1. SettleGrace \in 0 .. SettleGrace
    OBVIOUS
  <2> QED BY <2>1 DEF Request
<1>3. /\ Observe(p, profile, ttl) \in ProfileMachineState
      /\ Observe(p, profile, ttl).achieved = profile
  BY DEF Observe, ArmTtl, Ttls
<1>4. ProfileElapse(p) \in ProfileMachineState
  <2>1. Down(p.settle) \in 0 .. SettleGrace
    BY DEF Down
  <2>2. (IF p.deadline = None THEN None ELSE Down(p.deadline)) \in Ttls
    BY DEF Down, Ttls
  <2> QED BY <2>1, <2>2 DEF ProfileElapse
<1> QED BY <1>1, <1>2, <1>3, <1>4

\* The self-test's operators return self-tests.
LEMMA SelfTestTypes ==
  ASSUME NEW d \in SelfTest, NEW absent \in BOOLEAN, NEW s
  PROVE  /\ NoteReport(d, s) \in SelfTest
         /\ Resweep(d, absent) \in SelfTest
         /\ TestElapse(d) \in SelfTest
BY DeployAssumption DEF SelfTest, NoteReport, Resweep, TestElapse, Down

\* A bring-up starts as a self-test of its profile's services.
LEMMA BeginType ==
  ASSUME NEW profile \in Profiles, NEW absent \in BOOLEAN
  PROVE  /\ Begin(profile, absent) \in SelfTest
         /\ Begin(profile, absent).silent \subseteq ServicesOf[profile]
<1>1. DeployTimeout \in 0 .. DeployTimeout
  BY DeployAssumption
<1>2. ServicesOf[profile] \cap Reporters \in SUBSET Services
  BY ProfileTable
<1> QED BY <1>1, <1>2 DEF SelfTest, Begin

\* The resume question's operators return resume questions.
LEMMA ResumeTypes ==
  ASSUME NEW r \in ResumeState, NEW trip \in PreviousRun, NEW report \in Report
  PROVE  /\ InitResume \in ResumeState
         /\ Await(r, trip) \in ResumeState
         /\ Answer(r, report) \in ResumeState
         /\ ResumeElapse(r) \in ResumeState
         /\ Refusal(trip) \in Report
         /\ Refusal(None) \in Report
<1> USE ResumeAssumption DEF ResumeState
<1>1. InitResume \in ResumeState
  BY DEF InitResume, Report
<1>2. Await(r, trip) \in ResumeState /\ Answer(r, report) \in ResumeState
  <2>1. EvidenceTimeout \in 0 .. EvidenceTimeout /\ 0 \in 0 .. EvidenceTimeout
    OBVIOUS
  <2> QED BY <2>1 DEF Await, Answer
<1>3. ResumeElapse(r) \in ResumeState
  <2>1. Down(r.wait) \in 0 .. EvidenceTimeout
    BY DEF Down
  <2>2. (IF r.settle = None THEN None ELSE Down(r.settle))
          \in (0 .. ResumeSettle) \cup {None}
    BY DEF Down
  <2> QED BY <2>1, <2>2 DEF ResumeElapse
<1>4. Refusal(trip) \in Report /\ Refusal(None) \in Report
  BY DEF Refusal, Report, Refusals
<1> QED BY <1>1, <1>2, <1>3, <1>4

(***************************************************************************)
(* What OBC publishes, and the mission state.                              *)
(***************************************************************************)
Triggers == DOMAIN Transitions

\* Every trigger leads to a mission state.
LEMMA TransitionsType ==
  ASSUME NEW t \in Triggers
  PROVE  Transitions[t].dest \in MissionState
BY DEF Triggers, Transitions, MissionState

\* Publishing keeps the type.
LEMMA PublishType ==
  ASSUME NEW o \in ObcState, NEW m \in Message
  PROVE  Publish(o, m) \in ObcState
<1>1. o.out \in Seq(Message)
  BY DEF ObcState
<1>2. Append(o.out, m) \in Seq(Message)
  BY <1>1
<1> QED BY <1>2 DEF Publish, ObcState

\* So does the status snapshot.
LEMMA PublishStatusType ==
  ASSUME NEW o \in ObcState
  PROVE  PublishStatus(o) \in ObcState
<1>1. StatusOf(o) \in Message
  BY DEF StatusOf, Message, ObcState, ProfileMachineState, ResumeState
<1> QED BY <1>1, PublishType DEF PublishStatus

\* The governor requests name a governor of the table, or powersave.
LEMMA ReconcileGovernorType ==
  ASSUME NEW o \in ObcState
  PROVE  ReconcileGovernor(o) \in ObcState
<1>1. \A g \in Governors \cup {"powersave"} : \A q \in ObcState :
         RequestGovernor(q, g) \in ObcState
  BY PublishType DEF RequestGovernor, Message
<1>2. /\ [o EXCEPT !.lowered = TRUE] \in ObcState
      /\ [o EXCEPT !.lowered = FALSE] \in ObcState
  BY DEF ObcState
<1>3. o.profile.achieved # None => GovernorOf[o.profile.achieved] \in Governors
  BY ProfileTable DEF ObcState, ProfileMachineState
<1> QED BY <1>1, <1>2, <1>3 DEF ReconcileGovernor

\* A fired trigger keeps the type.
LEMMA FireType ==
  ASSUME NEW o \in ObcState, NEW t \in Triggers
  PROVE  Fire(o, t) \in ObcState
<1>1. [o EXCEPT !.mission = Transitions[t].dest] \in ObcState
  BY TransitionsType DEF ObcState
<1> QED BY <1>1, PublishStatusType, ReconcileGovernorType DEF Fire

\* What a trigger changes: the mission state and the governor flag.
LEMMA FireEffect ==
  ASSUME NEW o \in ObcState, NEW t \in Triggers
  PROVE  /\ Fire(o, t).mission =
              IF May(o.mission, t) THEN Transitions[t].dest ELSE o.mission
         /\ Fire(o, t).lowered =
              IF ~May(o.mission, t) THEN o.lowered
              ELSE IF Transitions[t].dest = "LOW_POWER" THEN TRUE
              ELSE IF Transitions[t].dest = "NOMINAL" THEN FALSE
              ELSE o.lowered
         /\ Fire(o, t).profile = o.profile
         /\ Fire(o, t).health = o.health
         /\ Fire(o, t).deploy = o.deploy
         /\ Fire(o, t).latched = o.latched
         /\ Fire(o, t).flush = o.flush
         /\ Fire(o, t).resume = o.resume
BY DEF Fire, ReconcileGovernor, RequestGovernor, PublishStatus, Publish, ObcState

\* The methods that fire a trigger keep the type.
LEMMA DescentTypes ==
  ASSUME NEW o \in ObcState, NEW b \in BOOLEAN
  PROVE  /\ EnterSafe(o, b) \in ObcState
         /\ Recover(o, b) \in ObcState
         /\ EnterCritical(o) \in ObcState
<1>1. EnterSafe(o, b) \in ObcState
  <2>1. Fire(o, "enter_safe") \in ObcState
    BY FireType DEF Triggers, Transitions
  <2> QED BY <2>1 DEF EnterSafe, ObcState
<1>2. Recover(o, b) \in ObcState
  <2>1. [o EXCEPT !.latched = FALSE] \in ObcState
    BY DEF ObcState
  <2>2. "recover" \in Triggers /\ "stand_down" \in Triggers
    BY DEF Triggers, Transitions
  <2> QED BY <2>1, <2>2, FireType DEF Recover
<1>3. EnterCritical(o) \in ObcState
  <2>1. Fire(o, "enter_critical") \in ObcState
    BY FireType DEF Triggers, Transitions
  <2> QED BY ZenonT(60), <2>1 DEF EnterCritical, ObcState
<1> QED BY <1>1, <1>2, <1>3

\* Reconciliation keeps the type.
LEMMA ReconcileType ==
  ASSUME NEW o \in ObcState, NEW absent \in BOOLEAN
  PROVE  /\ CheckDeploy(o, absent) \in ObcState
         /\ Reconcile(o, absent) \in ObcState
<1>1. CheckDeploy(o, absent) \in ObcState
  <2> DEFINE test   == Resweep(o.deploy, absent)
             closed == [o EXCEPT !.deploy = None]
  <2>1. closed \in ObcState
    BY DEF ObcState
  <2>2. o.deploy # None => [o EXCEPT !.deploy = test] \in ObcState
    <3>1. o.deploy # None => test \in SelfTest
      BY SelfTestTypes DEF ObcState
    <3> QED BY <3>1 DEF ObcState
  <2>3. Fire(closed, "deploy_complete") \in ObcState
    BY <2>1, FireType DEF Triggers, Transitions
  <2>4. EnterSafe(closed, TRUE) \in ObcState
    BY <2>1, DescentTypes
  <2> QED BY <2>2, <2>3, <2>4 DEF CheckDeploy
<1>2. \A q \in ObcState : CheckHealth(q) \in ObcState
  BY DescentTypes DEF CheckHealth
<1> QED BY <1>1, <1>2 DEF Reconcile

(***************************************************************************)
(* The profile and the resume question.                                    *)
(***************************************************************************)

\* A request keeps the type, whatever name it carries.
LEMMA RequestProfileType ==
  ASSUME NEW o \in ObcState, NEW profile, NEW ttl \in Ttls, NEW b \in BOOLEAN
  PROVE  RequestProfile(o, profile, ttl, b) \in ObcState
<1> SUFFICES ASSUME profile \in Profiles
             PROVE  RequestProfile(o, profile, ttl, b) \in ObcState
  BY DEF RequestProfile
<1>1. [o EXCEPT !.profile = Request(@, profile, b)] \in ObcState
  BY ProfileMachineTypes DEF ObcState
<1>2. RequestTtl(profile, ttl) \in Nat \cup {None}
  BY ProfileTable DEF RequestTtl, Ttls
<1>3. [kind |-> "apply_profile", profile |-> profile,
       ttl |-> RequestTtl(profile, ttl), resume |-> b] \in Message
  BY <1>2 DEF Message
<1> QED BY <1>1, <1>3, PublishType DEF RequestProfile

\* Adopting a host report keeps the type.
LEMMA ApplyProfileUpdateType ==
  ASSUME NEW o \in ObcState, NEW status \in HostStatus, NEW absent \in BOOLEAN,
         status.profile # None
  PROVE  ApplyProfileUpdate(o, status, absent) \in ObcState
<1> DEFINE profile  == status.profile
           observed == [o EXCEPT !.profile = Observe(@, profile, status.ttl)]
           cleared  == [observed EXCEPT
                          !.health = Watch(@, ServicesOf[profile]),
                          !.deploy = None, !.latched = FALSE, !.lowered = FALSE]
           stood    == PublishStatus(Fire(cleared, "stand_down"))
<1>1. profile \in Profiles /\ status.ttl \in Ttls
  BY DEF HostStatus, Ttls
<1>2. observed \in ObcState
  BY <1>1, ProfileMachineTypes DEF ObcState
<1>3. cleared \in ObcState
  <2>1. ServicesOf[profile] \in SUBSET Services
    BY <1>1, ProfileTable
  <2>2. Eps \in Watchable /\ o.health \in Monitor
    BY DEF Watchable, ObcState
  <2>3. Watch(o.health, ServicesOf[profile]) \in Monitor
    BY <2>1, <2>2, MonitorTypes
  <2> QED BY <1>2, <2>3 DEF ObcState
<1>4. stood \in ObcState
  BY <1>3, FireType, PublishStatusType DEF Triggers, Transitions
<1>5. BeginDeploy(stood, profile, absent) \in ObcState
  <2>1. Fire(stood, "begin_deploy") \in ObcState
    BY <1>4, FireType DEF Triggers, Transitions
  <2>2. \A d \in SelfTest :
          [Fire(stood, "begin_deploy") EXCEPT !.deploy = d] \in ObcState
    BY <2>1 DEF ObcState
  <2>3. Begin(profile, absent) \in SelfTest
    BY <1>1, BeginType
  <2> QED BY <1>4, <2>2, <2>3, ReconcileType DEF BeginDeploy
<1>6. PublishStatus(observed) \in ObcState
  BY <1>2, PublishStatusType
<1> HIDE DEF stood, observed
<1> QED BY <1>4, <1>5, <1>6 DEF ApplyProfileUpdate, stood, observed

\* The answers to the resume question keep the type.
LEMMA ResumeStepTypes ==
  ASSUME NEW o \in ObcState
  PROVE  /\ \A r \in Report : ReportBoot(o, r) \in ObcState
         /\ \A status \in HostStatus : WeighResume(o, status) \in ObcState
         /\ \A eps \in EpsStatus : ResumeOnEvidence(o, eps) \in ObcState
         /\ ExpireResumeWait(o) \in ObcState
         /\ SettleResume(o) \in ObcState
         /\ RequestDefaultOnExpiry(o) \in ObcState
<1>1. \A q \in ObcState, r \in Report : ReportBoot(q, r) \in ObcState
  <2> TAKE q \in ObcState, r \in Report
  <2>1. Answer(q.resume, r) \in ResumeState
    <3>1. 0 \in 0 .. EvidenceTimeout
      BY ResumeAssumption
    <3> QED BY <3>1 DEF ObcState, Answer, ResumeState
  <2>2. [q EXCEPT !.resume = Answer(@, r)] \in ObcState
    BY <2>1 DEF ObcState
  <2> QED BY <2>2, PublishStatusType DEF ReportBoot
<1>2. \A status \in HostStatus : WeighResume(o, status) \in ObcState
  <2> TAKE status \in HostStatus
  <2>1. CASE status.previous = None
    <3>1. Refusal(None) = "profile" /\ "profile" \in Report
      BY DEF Refusal, Report, Refusals
    <3>2. Refusal(None) # None
      BY <3>1, ResumeAssumption DEF Refusals
    <3> QED BY <1>1, <2>1, <3>1, <3>2 DEF WeighResume
  <2>2. CASE status.previous \in PreviousRun
    <3>1. Refusal(status.previous) \in Report
      BY <2>2 DEF Refusal, Report, Refusals
    <3>2. Await(o.resume, status.previous) \in ResumeState
      BY <2>2, ResumeTypes DEF ObcState, Report
    <3>3. [o EXCEPT !.resume = Await(@, status.previous)] \in ObcState
      BY <3>2 DEF ObcState
    <3> QED BY <1>1, <3>1, <3>3 DEF WeighResume
  <2> QED BY <2>1, <2>2 DEF HostStatus
<1>3. o.resume.candidate # None => TakeResume(o) \in ObcState
  <2> SUFFICES ASSUME o.resume.candidate # None
               PROVE  TakeResume(o) \in ObcState
    OBVIOUS
  <2> DEFINE trip   == o.resume.candidate
             dropped == [o EXCEPT !.resume.candidate = None]
             asked  == RequestProfile(dropped, trip.profile, trip.ttl, TRUE)
  <2>1. trip.ttl \in Ttls
    BY DEF ObcState, ResumeState, PreviousRun, Ttls
  <2>2. dropped \in ObcState
    <3>1. [o.resume EXCEPT !.candidate = None] \in ResumeState
      BY DEF ObcState, ResumeState
    <3> QED BY <3>1 DEF ObcState
  <2>3. asked \in ObcState
    BY <2>1, <2>2, RequestProfileType
  <2>4. [asked EXCEPT !.resume.settle = ResumeSettle] \in ObcState
    <3> HIDE DEF asked
    <3>1. ResumeSettle \in 0 .. ResumeSettle
      BY ResumeAssumption
    <3>2. \A r \in ResumeState : [r EXCEPT !.settle = ResumeSettle] \in ResumeState
      BY <3>1 DEF ResumeState
    <3>3. asked.resume \in ResumeState
      BY <2>3 DEF ObcState
    <3>4. [asked.resume EXCEPT !.settle = ResumeSettle] \in ResumeState
      BY <3>2, <3>3
    <3> QED BY <2>3, <3>4 DEF ObcState
  <2>5. "resumed" \in Report
    BY DEF Report
  <2> QED BY <1>1, <2>4, <2>5 DEF TakeResume
<1>4. \A eps \in EpsStatus : ResumeOnEvidence(o, eps) \in ObcState
  BY <1>1, <1>3 DEF ResumeOnEvidence, EpsStatus, Report, Refusals
<1>5. ExpireResumeWait(o) \in ObcState
  BY <1>1 DEF ExpireResumeWait, Report, Refusals
<1>6. SettleResume(o) \in ObcState
  <2>1. [o.resume EXCEPT !.settle = None] \in ResumeState
    BY DEF ObcState, ResumeState
  <2>2. [o EXCEPT !.resume.settle = None] \in ObcState
    BY <2>1 DEF ObcState
  <2>3. [kind |-> "clear_resume"] \in Message
    BY DEF Message
  <2> QED BY <2>2, <2>3, PublishType DEF SettleResume
<1>7. RequestDefaultOnExpiry(o) \in ObcState
  <2>1. [o.profile EXCEPT !.deadline = None] \in ProfileMachineState
    BY DEF ObcState, ProfileMachineState, Ttls
  <2>2. [o EXCEPT !.profile.deadline = None] \in ObcState
    BY <2>1 DEF ObcState
  <2> QED BY <2>2, RequestProfileType DEF RequestDefaultOnExpiry, Ttls
<1> QED BY <1>1, <1>2, <1>4, <1>5, <1>6, <1>7

(***************************************************************************)
(* The handlers.                                                           *)
(***************************************************************************)

\* The message handlers keep the type.
LEMMA HandlerTypes ==
  ASSUME NEW o \in ObcState, NEW absent \in BOOLEAN
  PROVE  /\ \A s : NoteReportFrom(o, s) \in ObcState
         /\ \A eps \in EpsStatus : OnEpsStatus(o, eps) \in ObcState
         /\ \A status \in HostStatus : OnHostStatus(o, status, absent) \in ObcState
         /\ \A b \in BOOLEAN \cup {None} : OnDhsStatus(o, b) \in ObcState
<1>1. \A s : NoteReportFrom(o, s) \in ObcState
  <2> TAKE s
  <2>1. o.deploy # None => NoteReport(o.deploy, s) \in SelfTest
    BY SelfTestTypes DEF ObcState
  <2> QED BY <2>1 DEF NoteReportFrom, ObcState
<1>2. \A eps \in EpsStatus : OnEpsStatus(o, eps) \in ObcState
  <2> TAKE eps \in EpsStatus
  <2>1. ResumeOnEvidence(o, eps) \in ObcState
    BY ResumeStepTypes
  <2>2. "enter_low_power" \in Triggers
    BY DEF Triggers, Transitions
  <2> QED BY <2>1, <2>2, DescentTypes, FireType DEF OnEpsStatus
<1>3. \A status \in HostStatus : OnHostStatus(o, status, absent) \in ObcState
  BY ResumeStepTypes, ApplyProfileUpdateType DEF OnHostStatus
<1>4. \A b \in BOOLEAN \cup {None} : OnDhsStatus(o, b) \in ObcState
  <2> TAKE b \in BOOLEAN \cup {None}
  <2>1. CASE b = None
    BY <2>1 DEF OnDhsStatus
  <2>2. CASE b \in BOOLEAN
    BY ZenonT(60), <2>2 DEF OnDhsStatus, ObcState
  <2> QED BY <2>1, <2>2
<1> QED BY <1>1, <1>2, <1>3, <1>4

\* The state a process starts with is well typed.
LEMMA InitType == InitObc \in ObcState
<1>1. InitMonitor \in Monitor
  BY LossGraceAssumption DEF InitMonitor, Monitor
<1>2. InitProfileMachine \in ProfileMachineState
  BY ProfileMachineAssumption DEF InitProfileMachine, ProfileMachineState, Ttls
<1>3. InitResume \in ResumeState
  BY ResumeAssumption DEF InitResume, ResumeState, Report
<1>4. 0 \in 0 .. FlushGrace
  BY ObcAssumption
<1> QED BY <1>1, <1>2, <1>3, <1>4 DEF InitObc, ObcState, MissionState

\* Every action keeps the type.
LEMMA NextType ==
  ASSUME TypeOK, [Next]_obc
  PROVE  TypeOK'
<1> USE DEF TypeOK
<1>q. Quiet \in ObcState
  <2>1. obc \in ObcState /\ <<>> \in Seq(Message)
    OBVIOUS
  <2> QED BY <2>1 DEF Quiet, ObcState
<1>0. ASSUME UNCHANGED obc PROVE TypeOK'
  BY <1>0
<1>1. ASSUME OnStart PROVE TypeOK'
  <2>1. Watch(obc.health, {}) \in Monitor
    BY MonitorTypes DEF ObcState, Watchable
  <2>2. [Quiet EXCEPT !.started = TRUE, !.health = Watch(@, {})] \in ObcState
    BY <1>q, <2>1 DEF Quiet, ObcState
  <2>3. "boot_complete" \in Triggers
    BY DEF Triggers, Transitions
  <2> QED BY <1>1, <2>2, <2>3, FireType DEF OnStart
<1>2. ASSUME Tick PROVE TypeOK'
  BY <1>2, <1>q, PublishStatusType, ResumeStepTypes, ReconcileType DEF Tick, Ticked
<1>3. ASSUME SetProfile PROVE TypeOK'
  <2>1. \A ttl \in Minutes \cup {None} : ttl \in Ttls
    BY ProfileMachineAssumption DEF Ttls
  <2> QED BY <1>3, <1>q, <2>1, RequestProfileType, ReconcileType DEF SetProfile
<1>4. ASSUME SafeMode PROVE TypeOK'
  BY <1>4, <1>q, DescentTypes, ReconcileType DEF SafeMode
<1>5. ASSUME RestartService PROVE TypeOK'
  <2> SUFFICES ASSUME NEW s \in Watchable
               PROVE  Publish([Quiet EXCEPT !.health = ExpectRestart(@, s)],
                              [kind |-> "restart_service", service |-> s])
                        \in ObcState
    BY <1>5, ReconcileType DEF RestartService
  <2>1. ExpectRestart(Quiet.health, s) \in Monitor
    BY <1>q, MonitorTypes DEF ObcState
  <2>2. [Quiet EXCEPT !.health = ExpectRestart(@, s)] \in ObcState
    BY <1>q, <2>1 DEF ObcState
  <2>3. [kind |-> "restart_service", service |-> s] \in Message
    BY DEF Message
  <2> QED BY <2>2, <2>3, PublishType
<1>6. ASSUME GroundRecover PROVE TypeOK'
  BY <1>6, <1>q, DescentTypes, ReconcileType DEF GroundRecover
<1>7. ASSUME EpsReports PROVE TypeOK'
  BY <1>7, <1>q, HandlerTypes, ReconcileType, ObcAssumption DEF EpsReports
<1>8. ASSUME HostdReports PROVE TypeOK'
  BY <1>8, <1>q, HandlerTypes, ReconcileType, ObcAssumption DEF HostdReports
<1>9. ASSUME Heartbeat PROVE TypeOK'
  <2> SUFFICES ASSUME NEW s \in Beating, NEW alive \in BOOLEAN
               PROVE  [Quiet EXCEPT !.health =
                         IF alive THEN NoteAlive(@, s) ELSE NoteGone(@, s)]
                        \in ObcState
    BY <1>9, ReconcileType DEF Heartbeat
  <2>1. s \in Watchable
    BY ObcAssumption
  <2>2. /\ NoteAlive(Quiet.health, s) \in Monitor
        /\ NoteGone(Quiet.health, s) \in Monitor
    BY <1>q, <2>1, MonitorTypes DEF ObcState
  <2> QED BY <1>q, <2>2 DEF ObcState
<1>10. ASSUME SubsystemReports PROVE TypeOK'
  BY <1>10, <1>q, HandlerTypes, ReconcileType DEF SubsystemReports
<1>11. ASSUME DhsReports PROVE TypeOK'
  BY <1>11, <1>q, HandlerTypes, ReconcileType DEF DhsReports
<1>12. ASSUME FlushBegins PROVE TypeOK'
  <2>1. FlushGrace \in 0 .. FlushGrace /\ 0 \in 0 .. FlushGrace
    BY ObcAssumption
  <2> QED BY <1>12, <1>q, <2>1 DEF FlushBegins, ObcState
<1>13. ASSUME FlushEnds PROVE TypeOK'
  <2>1. [Quiet EXCEPT !.flush = "done"] \in ObcState
    BY <1>q DEF ObcState
  <2>2. [kind |-> "poweroff"] \in Message
    BY DEF Message
  <2> QED BY <1>13, <2>1, <2>2, PublishType DEF FlushEnds
<1>14. ASSUME Restart PROVE TypeOK'
  BY <1>14, InitType DEF Restart
<1>15. ASSUME Elapse PROVE TypeOK'
  <2>1. ProfileElapse(Quiet.profile) \in ProfileMachineState
    <3>1. DefaultProfile \in Profiles /\ None \in Ttls /\ TRUE \in BOOLEAN
      BY ProfileTable DEF Ttls
    <3>2. Quiet.profile \in ProfileMachineState
      BY <1>q DEF ObcState
    <3> QED BY <3>1, <3>2, ProfileMachineTypes
  <2>2. MonitorElapse(Quiet.health) \in Monitor
    BY <1>q, MonitorTypes DEF ObcState, Watchable
  <2>3. (IF Quiet.deploy = None THEN None ELSE TestElapse(Quiet.deploy))
          \in SelfTest \cup {None}
    BY <1>q, SelfTestTypes DEF ObcState
  <2>4. ResumeElapse(Quiet.resume) \in ResumeState
    <3>1. Quiet.resume \in ResumeState
      BY <1>q DEF ObcState
    <3>2. \A n \in Nat : \A k \in 0 .. n : Down(k) \in 0 .. n
      BY DEF Down
    <3>3. Down(Quiet.resume.wait) \in 0 .. EvidenceTimeout
      BY <3>1, <3>2, ResumeAssumption DEF ResumeState
    <3>4. (IF Quiet.resume.settle = None THEN None ELSE Down(Quiet.resume.settle))
            \in (0 .. ResumeSettle) \cup {None}
      BY <3>1, <3>2, ResumeAssumption DEF ResumeState
    <3> QED BY <3>1, <3>3, <3>4 DEF ResumeElapse, ResumeState
  <2>5. Down(Quiet.grace) \in 0 .. FlushGrace
    BY <1>q, ObcAssumption DEF ObcState, Down
  <2> QED BY <1>15, <1>q, <2>1, <2>2, <2>3, <2>4, <2>5 DEF Elapse, Elapsed, ObcState
<1> QED BY <1>0, <1>1, <1>2, <1>3, <1>4, <1>5, <1>6, <1>7, <1>8, <1>9, <1>10,
           <1>11, <1>12, <1>13, <1>14, <1>15 DEF Next

\* Type correctness: whatever the bus delivers and in whatever order, every
\* field of the service keeps its type and every message it publishes is one
\* of its vocabulary.
THEOREM TypeCorrect == Spec => []TypeOK
<1>1. Init => TypeOK
  BY InitType DEF Init, TypeOK
<1>2. TypeOK /\ [Next]_obc => TypeOK'
  BY NextType
<1> QED BY <1>1, <1>2, PTL DEF Spec

(***************************************************************************)
(* Safety.  The invariant is a predicate on the service's record, so that  *)
(* a method can be shown to keep it wherever in a handler it is called.    *)
(* Some states between two methods break it (DEPLOY is entered before its  *)
(* self-test is attached); Standing is the part that never breaks.         *)
(***************************************************************************)
Descended == {"SAFE", "CRITICAL"}

Standing(o) ==
  /\ o.lowered => o.profile.achieved \in ActiveProfiles \cup {None}
  /\ o.flush # "none" => o.mission = "CRITICAL"
  /\ o.health.watched \subseteq
       {Eps} \cup (IF o.profile.achieved = None THEN {}
                   ELSE ServicesOf[o.profile.achieved])

Tested(o) ==
  o.mission = "DEPLOY" =>
    /\ o.deploy # None
    /\ o.profile.achieved \in ActiveProfiles
    /\ o.deploy.silent \subseteq ServicesOf[o.profile.achieved]

Safe(o) ==
  /\ Standing(o)
  /\ Tested(o)
  /\ o.latched => o.mission \in Descended
  /\ o.lowered => o.mission \in {"LOW_POWER", "SAFE", "CRITICAL"}
  /\ /\ o.mission \in {"DEPLOY", "NOMINAL", "LOW_POWER"}
     /\ o.profile.achieved # None
     => o.profile.achieved \in ActiveProfiles

\* What Safe looks at.
Agree(q, o) ==
  /\ q.mission = o.mission /\ q.latched = o.latched /\ q.lowered = o.lowered
  /\ q.profile.achieved = o.profile.achieved /\ q.deploy = o.deploy
  /\ q.flush = o.flush /\ q.health.watched = o.health.watched

\* Safety only looks at what Agree compares.
LEMMA AgreeSafe ==
  ASSUME NEW o, NEW q, Agree(q, o), Safe(o)
  PROVE  Safe(q)
BY DEF Agree, Safe, Standing, Tested

\* Publishing, requesting and answering the resume question change nothing
\* that safety depends on.
LEMMA RequestAgrees ==
  ASSUME NEW o \in ObcState, NEW profile, NEW ttl, NEW b
  PROVE  /\ Agree(PublishStatus(o), o)
         /\ Agree(RequestProfile(o, profile, ttl, b), o)
BY DEF Agree, PublishStatus, Publish, RequestProfile, Request, ObcState,
       ProfileMachineState

\* Nor does any answer to the resume question.
LEMMA ResumeAgrees ==
  ASSUME NEW o \in ObcState
  PROVE  /\ \A status \in HostStatus : Agree(WeighResume(o, status), o)
         /\ \A eps \in EpsStatus : Agree(ResumeOnEvidence(o, eps), o)
         /\ Agree(ExpireResumeWait(o), o)
         /\ Agree(SettleResume(o), o)
         /\ Agree(RequestDefaultOnExpiry(o), o)
<1> USE DEF Agree, ObcState, ReportBoot, PublishStatus, Publish
<1>1. \A r : Agree(ReportBoot(o, r), o)
  OBVIOUS
<1>2. Agree(TakeResume(o), o)
  BY DEF TakeResume, RequestProfile, Request, ProfileMachineState
<1>3. \A status \in HostStatus : Agree(WeighResume(o, status), o)
  BY <1>1 DEF WeighResume
<1>4. \A eps \in EpsStatus : Agree(ResumeOnEvidence(o, eps), o)
  BY <1>1, <1>2 DEF ResumeOnEvidence, EpsStatus
<1>5. Agree(ExpireResumeWait(o), o)
  BY <1>1 DEF ExpireResumeWait
<1>6. Agree(SettleResume(o), o)
  BY DEF SettleResume
<1>7. Agree(RequestDefaultOnExpiry(o), o)
  BY DEF RequestDefaultOnExpiry, RequestProfile, Request, ProfileMachineState
<1> QED BY <1>3, <1>4, <1>5, <1>6, <1>7

\* SAFE is entered from every state but CRITICAL, with or without a latch.
LEMMA EnterSafeKeeps ==
  ASSUME NEW o \in ObcState, NEW b \in BOOLEAN, Standing(o)
  PROVE  /\ Safe(EnterSafe(o, b))
         /\ EnterSafe(o, b).profile = o.profile
         /\ o.mission \in Descended => EnterSafe(o, b).mission = o.mission
         /\ o.latched => EnterSafe(o, b).latched
<1> DEFINE f == Fire(o, "enter_safe")
<1>1. "enter_safe" \in Triggers /\ f \in ObcState
  BY FireType DEF Triggers, Transitions
<1>2. /\ f.mission = IF o.mission = "CRITICAL" THEN "CRITICAL" ELSE "SAFE"
      /\ f.lowered = o.lowered /\ f.profile = o.profile /\ f.latched = o.latched
      /\ f.health = o.health /\ f.deploy = o.deploy /\ f.flush = o.flush
  BY ZenonT(60), <1>1, FireEffect DEF May, Transitions, AllBut, MissionState, ObcState
<1> HIDE DEF f
<1>3. EnterSafe(o, b) = [f EXCEPT !.latched = @ \/ b]
  BY DEF EnterSafe, f
<1> QED BY <1>1, <1>2, <1>3 DEF Safe, Standing, Tested, Descended, ObcState

\* A trigger that leads from a flying state to LOW_POWER is safe.
LEMMA LowPowerKeeps ==
  ASSUME NEW o \in ObcState, Safe(o)
  PROVE  /\ Safe(Fire(o, "enter_low_power"))
         /\ Fire(o, "enter_low_power").profile = o.profile
         /\ Fire(o, "enter_low_power").latched = o.latched
         /\ o.mission \in Descended =>
              Fire(o, "enter_low_power").mission = o.mission
<1> DEFINE f == Fire(o, "enter_low_power")
<1>1. "enter_low_power" \in Triggers
  BY DEF Triggers, Transitions
<1>2. /\ f.mission = IF o.mission \in {"DEPLOY", "NOMINAL"}
                     THEN "LOW_POWER" ELSE o.mission
      /\ f.lowered = IF o.mission \in {"DEPLOY", "NOMINAL"}
                     THEN TRUE ELSE o.lowered
      /\ f.profile = o.profile /\ f.latched = o.latched
      /\ f.health = o.health /\ f.deploy = o.deploy /\ f.flush = o.flush
  BY <1>1, FireEffect DEF May, Transitions
<1> HIDE DEF f
<1>3. Safe(f) /\ f.profile = o.profile /\ f.latched = o.latched
      /\ (o.mission \in Descended => f.mission = o.mission)
  BY <1>2 DEF Safe, Standing, Tested, Descended, ObcState, ProfileMachineState
<1> QED BY <1>3 DEF f

\* Standing down leads to STANDBY from everywhere but CRITICAL.
LEMMA StandDownEffect ==
  ASSUME NEW o \in ObcState
  PROVE  LET s == Fire(o, "stand_down")
         IN  /\ s.mission = IF o.mission = "CRITICAL" THEN "CRITICAL"
                            ELSE "STANDBY"
             /\ s.lowered = o.lowered /\ s.profile = o.profile
             /\ s.latched = o.latched /\ s.health = o.health
             /\ s.deploy = o.deploy /\ s.flush = o.flush
<1>1. "stand_down" \in Triggers /\ Transitions["stand_down"].dest = "STANDBY"
  BY DEF Triggers, Transitions
<1>2. May(o.mission, "stand_down") <=> o.mission \notin {"STANDBY", "CRITICAL"}
  BY DEF May, Transitions, AllBut, ObcState
<1> QED BY <1>1, <1>2, FireEffect

\* A recovery ends in STANDBY under a platform-only profile, and in NOMINAL
\* otherwise; it is withheld from the battery while a fault is latched.
LEMMA RecoverKeeps ==
  ASSUME NEW o \in ObcState, NEW b \in BOOLEAN, Safe(o)
  PROVE  /\ Safe(Recover(o, b))
         /\ Recover(o, b).profile = o.profile
         /\ b /\ o.latched => Recover(o, b) = o
<1> DEFINE u == [o EXCEPT !.latched = FALSE]
           s == Fire(u, "stand_down")
           r == Fire(u, "recover")
           idle == o.profile.achieved # None
                   /\ o.profile.achieved \notin ActiveProfiles
<1>1. /\ u \in ObcState /\ Safe(u)
      /\ u.mission = o.mission /\ u.lowered = o.lowered
      /\ u.profile = o.profile /\ u.latched = FALSE /\ u.health = o.health
      /\ u.deploy = o.deploy /\ u.flush = o.flush
  BY DEF ObcState, Safe, Standing, Tested
<1>2. "stand_down" \in Triggers /\ "recover" \in Triggers
  BY DEF Triggers, Transitions
<1> HIDE DEF u
<1>3. ASSUME idle PROVE Safe(s) /\ s.profile = o.profile
  <2>1. /\ s.mission = IF o.mission = "CRITICAL" THEN "CRITICAL" ELSE "STANDBY"
        /\ s.lowered = o.lowered
        /\ s.profile = o.profile /\ s.latched = FALSE
        /\ s.health = o.health /\ s.deploy = o.deploy /\ s.flush = o.flush
    BY <1>1, StandDownEffect
  <2>2. ~o.lowered
    BY <1>3 DEF Safe, Standing
  <2> HIDE DEF s
  <2> QED BY <2>1, <2>2, <1>3 DEF Safe, Standing, Tested, Descended
<1>4. ASSUME ~idle PROVE Safe(r) /\ r.profile = o.profile
  <2>1. /\ r.mission = IF o.mission \in {"LOW_POWER", "SAFE"}
                       THEN "NOMINAL" ELSE o.mission
        /\ r.lowered = IF o.mission \in {"LOW_POWER", "SAFE"}
                       THEN FALSE ELSE o.lowered
        /\ r.profile = o.profile /\ r.latched = FALSE
        /\ r.health = o.health /\ r.deploy = o.deploy /\ r.flush = o.flush
    BY <1>1, <1>2, FireEffect DEF May, Transitions
  <2> HIDE DEF r
  <2> QED BY <2>1, <1>4 DEF Safe, Standing, Tested, Descended
<1>5. Recover(o, b) = IF b /\ o.latched THEN o ELSE IF idle THEN s ELSE r
  BY DEF Recover, u
<1> QED BY <1>3, <1>4, <1>5

\* CRITICAL starts the flush thread, and only where CRITICAL is reached.
LEMMA EnterCriticalKeeps ==
  ASSUME NEW o \in ObcState, Safe(o)
  PROVE  /\ Safe(EnterCritical(o))
         /\ EnterCritical(o).profile = o.profile
         /\ EnterCritical(o).mission = "CRITICAL"
         /\ EnterCritical(o).latched = o.latched
<1> DEFINE f == Fire(o, "enter_critical")
<1>1. "enter_critical" \in Triggers /\ f \in ObcState
  BY FireType DEF Triggers, Transitions
<1>2. o.mission # "CRITICAL" =>
        /\ f.mission = "CRITICAL" /\ f.lowered = o.lowered
        /\ f.profile = o.profile /\ f.latched = o.latched
        /\ f.health = o.health /\ f.deploy = o.deploy
  BY <1>1, FireEffect DEF May, Transitions, AllBut, MissionState, ObcState
<1> HIDE DEF f
<1>3. EnterCritical(o) = IF o.mission = "CRITICAL" THEN o
                         ELSE [f EXCEPT !.flushed = FALSE, !.flush = "started"]
  BY DEF EnterCritical, f, May, Transitions, AllBut, ObcState
<1> QED BY <1>1, <1>2, <1>3 DEF Safe, Standing, Tested, Descended, ObcState

\* Reconciliation keeps safety, and does nothing at all once descended.
LEMMA ReconcileKeeps ==
  ASSUME NEW o \in ObcState, NEW absent \in BOOLEAN, Safe(o)
  PROVE  /\ Safe(Reconcile(o, absent))
         /\ Reconcile(o, absent).profile = o.profile
         /\ o.mission \in Descended => Reconcile(o, absent) = o
<1> DEFINE test   == Resweep(o.deploy, absent)
           closed == [o EXCEPT !.deploy = None]
           c      == CheckDeploy(o, absent)
<1>1. o.mission # "DEPLOY" => c = o
  BY DEF CheckDeploy
<1>2. o.mission = "DEPLOY" => Safe(c) /\ c.profile = o.profile
  <2> SUFFICES ASSUME o.mission = "DEPLOY"
               PROVE  Safe(c) /\ c.profile = o.profile
    OBVIOUS
  <2>1. /\ closed \in ObcState /\ closed.mission = "DEPLOY"
        /\ closed.lowered = o.lowered /\ closed.profile = o.profile
        /\ closed.latched = o.latched /\ closed.health = o.health
        /\ closed.deploy = None /\ closed.flush = o.flush
    BY DEF ObcState
  <2> HIDE DEF closed
  <2>2. /\ Safe(Fire(closed, "deploy_complete"))
        /\ Fire(closed, "deploy_complete").profile = o.profile
    <3> DEFINE f == Fire(closed, "deploy_complete")
    <3>1. "deploy_complete" \in Triggers
      BY DEF Triggers, Transitions
    <3>2. /\ f.mission = "NOMINAL" /\ f.lowered = FALSE
          /\ f.profile = o.profile /\ f.latched = o.latched
          /\ f.health = o.health /\ f.deploy = None /\ f.flush = o.flush
      BY <2>1, <3>1, FireEffect DEF May, Transitions
    <3> HIDE DEF f
    <3>3. Safe(f) /\ f.profile = o.profile
      BY <3>2 DEF Safe, Standing, Tested, Descended
    <3> QED BY <3>3 DEF f
  <2>3. Safe(EnterSafe(closed, TRUE)) /\ EnterSafe(closed, TRUE).profile = o.profile
    <3>1. Standing(closed)
      BY <2>1 DEF Safe, Standing
    <3> QED BY <2>1, <3>1, EnterSafeKeeps
  <2>4. /\ Safe([o EXCEPT !.deploy = test])
        /\ [o EXCEPT !.deploy = test].profile = o.profile
    <3>1. o.deploy # None /\ test.silent = o.deploy.silent
      BY DEF Safe, Tested, Resweep, ObcState, SelfTest
    <3>2. o.deploy \in SelfTest
      BY <3>1 DEF ObcState
    <3>3. test \in SelfTest
      BY <3>2, SelfTestTypes
    <3>4. test # None
      BY <3>3, DeployAssumption
    <3> QED BY <3>1, <3>4 DEF Safe, Standing, Tested, ObcState
  <2> QED BY <2>2, <2>3, <2>4 DEF CheckDeploy, closed
<1>3. Safe(c) /\ c \in ObcState /\ c.profile = o.profile
  BY <1>1, <1>2, ReconcileType
<1> HIDE DEF c
<1>4. Safe(CheckHealth(c)) /\ CheckHealth(c).profile = c.profile
  <2>1. Standing(c)
    BY <1>3 DEF Safe
  <2> QED BY <1>3, <2>1, EnterSafeKeeps DEF CheckHealth
<1>5. c.mission \in Descended => CheckHealth(c) = c
  BY DEF CheckHealth, Descended
<1>6. o.mission \in Descended => c = o
  BY <1>1 DEF Descended
<1> QED BY <1>3, <1>4, <1>5, <1>6 DEF Reconcile, c

(***************************************************************************)
(* Adopting a host report: the one handler that changes the profile.       *)
(***************************************************************************)

\* What observe leaves of the old profile is not even a moment old when the
\* satellite stands down; a bring-up starts only from there.
LEMMA ApplyProfileUpdateKeeps ==
  ASSUME NEW o \in ObcState, NEW status \in HostStatus, NEW absent \in BOOLEAN,
         status.profile # None, Safe(o)
  PROVE  LET q == ApplyProfileUpdate(o, status, absent)
         IN  /\ Safe(q)
             /\ q.profile.achieved = status.profile
             /\ status.profile = o.profile.achieved =>
                  q.mission = o.mission /\ q.latched = o.latched
<1> DEFINE profile  == status.profile
           p        == Observe(o.profile, profile, status.ttl)
           observed == [o EXCEPT !.profile = p]
           watch    == Watch(o.health, ServicesOf[profile])
           cleared  == [observed EXCEPT !.health = watch, !.deploy = None,
                                        !.latched = FALSE, !.lowered = FALSE]
           stood    == PublishStatus(Fire(cleared, "stand_down"))
<1>1. profile \in Profiles /\ status.ttl \in Ttls
  BY DEF HostStatus, Ttls
<1>2. p \in ProfileMachineState /\ p.achieved = profile
  <2>1. TRUE \in BOOLEAN /\ o.profile \in ProfileMachineState
    BY DEF ObcState
  <2> QED BY <1>1, <2>1, ProfileMachineTypes
<1>3. watch \in Monitor /\ watch.watched = ServicesOf[profile] \cup {Eps}
  <2>1. ServicesOf[profile] \in SUBSET Services
    BY <1>1, ProfileTable
  <2>2. Eps \in Watchable /\ o.health \in Monitor
    BY DEF Watchable, ObcState
  <2> QED BY <2>1, <2>2, MonitorTypes DEF Watch
<1> HIDE DEF p, watch
<1>4. /\ observed \in ObcState /\ observed.mission = o.mission
      /\ observed.latched = o.latched /\ observed.profile = p
      /\ profile = o.profile.achieved => Safe(observed)
  BY <1>2 DEF ObcState, Safe, Standing, Tested
<1>5. /\ cleared \in ObcState /\ cleared.mission = o.mission
      /\ cleared.health = watch /\ cleared.deploy = None
      /\ cleared.latched = FALSE /\ cleared.lowered = FALSE
      /\ cleared.profile = p /\ cleared.flush = o.flush
  BY <1>2, <1>3 DEF ObcState
<1> HIDE DEF observed, cleared
<1>6. /\ stood \in ObcState
      /\ stood.mission = IF o.mission = "CRITICAL" THEN "CRITICAL" ELSE "STANDBY"
      /\ stood.health = watch /\ stood.deploy = None
      /\ stood.latched = FALSE /\ stood.lowered = FALSE
      /\ stood.profile = p /\ stood.flush = o.flush
  <2> DEFINE s == Fire(cleared, "stand_down")
  <2>1. s \in ObcState
    BY <1>5, FireType DEF Triggers, Transitions
  <2>2. /\ s.mission = IF o.mission = "CRITICAL" THEN "CRITICAL" ELSE "STANDBY"
        /\ s.health = watch /\ s.deploy = None
        /\ s.latched = FALSE /\ s.lowered = FALSE
        /\ s.profile = p /\ s.flush = o.flush
    BY <1>5, StandDownEffect
  <2> HIDE DEF s
  <2>3. PublishStatus(s) \in ObcState
    BY <2>1, PublishStatusType
  <2>4. stood = PublishStatus(s)
    BY DEF s
  <2> QED BY <2>1, <2>2, <2>3, <2>4 DEF PublishStatus, Publish, ObcState
<1> HIDE DEF stood
<1>7. Safe(stood)
  BY <1>2, <1>3, <1>6 DEF Safe, Standing, Tested
<1>8. ASSUME profile \in ActiveProfiles
      PROVE  /\ Safe(BeginDeploy(stood, profile, absent))
             /\ BeginDeploy(stood, profile, absent).profile = p
  <2>1. CASE o.mission = "CRITICAL"
    BY <1>6, <1>7, <2>1 DEF BeginDeploy, May, Transitions
  <2>2. CASE o.mission # "CRITICAL"
    <3> DEFINE test    == Begin(profile, absent)
               f       == Fire(stood, "begin_deploy")
               brought == [f EXCEPT !.deploy = test]
    <3>1. "begin_deploy" \in Triggers /\ f \in ObcState
      BY <1>6, FireType DEF Triggers, Transitions
    <3>2. /\ f.mission = "DEPLOY" /\ f.lowered = FALSE /\ f.profile = p
          /\ f.latched = FALSE /\ f.health = watch /\ f.flush = o.flush
      BY <1>6, <2>2, <3>1, FireEffect DEF May, Transitions
    <3>3. /\ test \in SelfTest /\ test # None
          /\ test.silent \subseteq ServicesOf[profile]
      BY <1>1, BeginType, DeployAssumption
    <3> HIDE DEF test, f
    <3>4. /\ brought \in ObcState /\ brought.mission = "DEPLOY"
          /\ brought.deploy = test /\ brought.lowered = FALSE
          /\ brought.profile = p /\ brought.latched = FALSE
          /\ brought.health = watch /\ brought.flush = o.flush
      BY <3>1, <3>2, <3>3 DEF ObcState
    <3> HIDE DEF brought
    <3>5. Safe(brought)
      BY <1>2, <1>3, <1>7, <1>6, <1>8, <2>2, <3>3, <3>4
         DEF Safe, Standing, Tested, Descended
    <3>6. BeginDeploy(stood, profile, absent) = Reconcile(brought, absent)
      <4>1. May(stood.mission, "begin_deploy")
        BY <1>6, <2>2 DEF May, Transitions
      <4> QED BY <4>1 DEF BeginDeploy, brought, f, test
    <3> QED BY <3>4, <3>5, <3>6, ReconcileKeeps
  <2> QED BY <2>1, <2>2
<1>9. ASSUME profile = o.profile.achieved
      PROVE  /\ Safe(PublishStatus(observed))
             /\ PublishStatus(observed).profile = p
             /\ PublishStatus(observed).mission = o.mission
             /\ PublishStatus(observed).latched = o.latched
  <2>1. Agree(PublishStatus(observed), observed)
    BY <1>4, RequestAgrees
  <2> QED BY <1>4, <1>9, <2>1, AgreeSafe
          DEF Agree, PublishStatus, Publish, ObcState
<1>10. ApplyProfileUpdate(o, status, absent) =
         IF profile = o.profile.achieved THEN PublishStatus(observed)
         ELSE IF profile \in ActiveProfiles /\ Matches(o.profile, profile)
              THEN BeginDeploy(stood, profile, absent)
              ELSE stood
  BY DEF ApplyProfileUpdate, Changed, stood, cleared, observed, p, watch, ObcState
<1> QED BY <1>2, <1>6, <1>7, <1>8, <1>9, <1>10

(***************************************************************************)
(* Every handler is safe, and none of them lets go of a latch by itself.   *)
(***************************************************************************)

\* A latch that is set stays set, and keeps the satellite down, while the
\* profile stands.
Holds(o, q) ==
  o.latched /\ o.mission \in Descended /\ q.profile.achieved = o.profile.achieved
    => q.latched /\ q.mission \in Descended

\* The handlers keep safety, and hold a latch while the profile stands.
LEMMA HandlerKeeps ==
  ASSUME NEW o \in ObcState, Safe(o)
  PROVE  /\ \A s : Safe(NoteReportFrom(o, s)) /\ Holds(o, NoteReportFrom(o, s))
         /\ \A eps \in EpsStatus :
              Safe(OnEpsStatus(o, eps)) /\ Holds(o, OnEpsStatus(o, eps))
         /\ \A status \in HostStatus, absent \in BOOLEAN :
              /\ Safe(OnHostStatus(o, status, absent))
              /\ Holds(o, OnHostStatus(o, status, absent))
         /\ \A b \in BOOLEAN \cup {None} :
              Safe(OnDhsStatus(o, b)) /\ Holds(o, OnDhsStatus(o, b))
<1>1. ASSUME NEW s
      PROVE  Safe(NoteReportFrom(o, s)) /\ Holds(o, NoteReportFrom(o, s))
  <2>1. CASE o.deploy = None
    BY <2>1 DEF NoteReportFrom, Holds
  <2>2. CASE o.deploy # None
    <3> DEFINE d == NoteReport(o.deploy, s)
    <3>1. o.deploy \in SelfTest
      BY <2>2 DEF ObcState
    <3>2. d \in SelfTest /\ d # None
      BY <3>1, SelfTestTypes, DeployAssumption
    <3>3. d.silent \subseteq o.deploy.silent
      BY <3>1 DEF NoteReport, SelfTest
    <3>4. NoteReportFrom(o, s) = [o EXCEPT !.deploy = d]
      BY <2>2 DEF NoteReportFrom, ObcState
    <3> HIDE DEF d
    <3> QED BY <3>2, <3>3, <3>4 DEF Safe, Standing, Tested, Holds, ObcState
  <2> QED BY <2>1, <2>2
<1>2. ASSUME NEW eps \in EpsStatus
      PROVE  Safe(OnEpsStatus(o, eps)) /\ Holds(o, OnEpsStatus(o, eps))
  <2> DEFINE w == ResumeOnEvidence(o, eps)
  <2>1. w \in ObcState /\ Agree(w, o)
    BY ResumeStepTypes, ResumeAgrees
  <2>2. Safe(w) /\ Standing(w)
    BY <2>1, AgreeSafe DEF Safe
  <2>3. w.mission = o.mission /\ w.latched = o.latched
    BY <2>1 DEF Agree
  <2> HIDE DEF w
  <2>4. /\ Safe(EnterCritical(w)) /\ Holds(o, EnterCritical(w))
        /\ Safe(EnterSafe(w, FALSE)) /\ Holds(o, EnterSafe(w, FALSE))
        /\ Safe(Fire(w, "enter_low_power")) /\ Holds(o, Fire(w, "enter_low_power"))
        /\ Safe(Recover(w, TRUE)) /\ Holds(o, Recover(w, TRUE))
        /\ Holds(o, w)
    BY <2>1, <2>2, <2>3, EnterCriticalKeeps, EnterSafeKeeps, LowPowerKeeps,
       RecoverKeeps DEF Holds, Descended
  <2> QED BY <2>2, <2>4 DEF OnEpsStatus, w
<1>3. ASSUME NEW status \in HostStatus, NEW absent \in BOOLEAN
      PROVE  /\ Safe(OnHostStatus(o, status, absent))
             /\ Holds(o, OnHostStatus(o, status, absent))
  <2> DEFINE w == WeighResume(o, status)
             q == ApplyProfileUpdate(w, status, absent)
  <2>1. w \in ObcState /\ Agree(w, o)
    BY ResumeStepTypes, ResumeAgrees
  <2>2. Safe(w)
    BY <2>1, AgreeSafe
  <2>3. /\ w.mission = o.mission /\ w.latched = o.latched
        /\ w.profile.achieved = o.profile.achieved
    BY <2>1 DEF Agree
  <2> HIDE DEF w
  <2>4. CASE status.profile = None
    BY <2>2, <2>3, <2>4 DEF OnHostStatus, Holds, w
  <2>5. CASE status.profile # None
    <3>1. /\ Safe(q)
          /\ q.profile.achieved = status.profile
          /\ status.profile = w.profile.achieved =>
               q.mission = w.mission /\ q.latched = w.latched
      BY <2>1, <2>2, <2>5, ApplyProfileUpdateKeeps
    <3>2. OnHostStatus(o, status, absent) = q
      BY <2>5 DEF OnHostStatus, w
    <3> HIDE DEF q
    <3> QED BY <2>3, <3>1, <3>2 DEF Holds
  <2> QED BY <2>4, <2>5
<1>4. ASSUME NEW b \in BOOLEAN \cup {None}
      PROVE  Safe(OnDhsStatus(o, b)) /\ Holds(o, OnDhsStatus(o, b))
  <2>1. Agree(OnDhsStatus(o, b), o)
    BY DEF Agree, OnDhsStatus, ObcState
  <2> QED BY <2>1, AgreeSafe DEF Agree, Holds
<1> QED BY <1>1, <1>2, <1>3, <1>4

\* One step per action: the invariant is kept and a latch is held.
LEMMA StepKeeps ==
  ASSUME TypeOK, Safe(obc), Next
  PROVE  /\ Safe(obc')
         /\ Unforgiving => Holds(obc, obc')
<1>q. /\ Quiet \in ObcState /\ Agree(Quiet, obc) /\ Safe(Quiet)
      /\ obc \in ObcState
  <2>1. obc \in ObcState /\ <<>> \in Seq(Message)
    BY DEF TypeOK
  <2>2. Quiet \in ObcState /\ Agree(Quiet, obc)
    BY <2>1 DEF Quiet, ObcState, Agree
  <2> QED BY <2>1, <2>2, AgreeSafe
<1>h. \A q : Holds(Quiet, q) => Holds(obc, q)
  BY <1>q DEF Agree, Holds
<1> HIDE DEF Quiet
\* What follows a handler is the reconciliation, which holds what it held.
<1>r. ASSUME NEW q \in ObcState, NEW absent \in BOOLEAN, Safe(q)
      PROVE  /\ Safe(Reconcile(q, absent))
             /\ Holds(obc, q) => Holds(obc, Reconcile(q, absent))
  BY <1>r, ReconcileKeeps DEF Holds
<1>1. ASSUME OnStart PROVE Safe(obc') /\ Holds(obc, obc')
  <2> DEFINE q == [Quiet EXCEPT !.started = TRUE, !.health = Watch(@, {})]
  <2>1. Watch(Quiet.health, {}) \in Monitor
    BY <1>q, MonitorTypes DEF ObcState, Watchable
  <2>2. q.health.watched = {Eps}
    BY <1>q DEF Watch, ObcState
  <2>3. /\ q \in ObcState /\ Safe(q) /\ q.mission = Quiet.mission
        /\ q.profile = Quiet.profile /\ q.latched = Quiet.latched
    BY <1>q, <2>1, <2>2 DEF ObcState, Safe, Standing, Tested
  <2>4. "boot_complete" \in Triggers
    BY DEF Triggers, Transitions
  <2>5. obc' = Fire(q, "boot_complete")
    BY <1>1 DEF OnStart
  <2> HIDE DEF q
  <2>6. /\ obc'.mission = IF q.mission = "BOOT" THEN "STANDBY" ELSE q.mission
        /\ obc'.lowered = q.lowered /\ obc'.profile = q.profile
        /\ obc'.latched = q.latched /\ obc'.health = q.health
        /\ obc'.deploy = q.deploy /\ obc'.flush = q.flush
    BY <2>3, <2>4, <2>5, FireEffect DEF May, Transitions
  <2>7. Safe(obc') /\ Holds(q, obc')
    BY <2>3, <2>6 DEF Safe, Standing, Tested, Holds, Descended
  <2> QED BY <1>q, <2>3, <2>6, <2>7 DEF Holds, Agree, Descended
<1>2. ASSUME Tick PROVE Safe(obc') /\ Holds(obc, obc')
  <2> DEFINE a == PublishStatus(Quiet)
             b == RequestDefaultOnExpiry(a)
             c == ExpireResumeWait(b)
             d == SettleResume(c)
  <2>1. a \in ObcState /\ Agree(a, Quiet) /\ Safe(a)
    BY <1>q, PublishStatusType, RequestAgrees, AgreeSafe
  <2> HIDE DEF a
  <2>2. b \in ObcState /\ Agree(b, a) /\ Safe(b)
    BY <2>1, ResumeStepTypes, ResumeAgrees, AgreeSafe
  <2> HIDE DEF b
  <2>3. c \in ObcState /\ Agree(c, b) /\ Safe(c)
    BY <2>2, ResumeStepTypes, ResumeAgrees, AgreeSafe
  <2> HIDE DEF c
  <2>4. d \in ObcState /\ Agree(d, c) /\ Safe(d)
    BY <2>3, ResumeStepTypes, ResumeAgrees, AgreeSafe
  <2> HIDE DEF d
  <2>5. Holds(obc, d)
    BY <1>h, <2>1, <2>2, <2>3, <2>4 DEF Agree, Holds
  <2>6. \E absent \in BOOLEAN : obc' = Reconcile(d, absent)
    BY <1>2 DEF Tick, Ticked, a, b, c, d
  <2> QED BY <1>r, <2>4, <2>5, <2>6
<1>3. ASSUME SetProfile PROVE Safe(obc') /\ Holds(obc, obc')
  <2> SUFFICES ASSUME NEW profile \in Profiles \cup {None},
                      NEW ttl \in Minutes \cup {None}, NEW absent \in BOOLEAN,
                      obc' = Reconcile(RequestProfile(Quiet, profile, ttl, FALSE),
                                       absent)
               PROVE  Safe(obc') /\ Holds(obc, obc')
    BY <1>3 DEF SetProfile
  <2> DEFINE q == RequestProfile(Quiet, profile, ttl, FALSE)
  <2>1. ttl \in Ttls
    BY ProfileMachineAssumption DEF Ttls
  <2>2. q \in ObcState /\ Agree(q, Quiet)
    BY <1>q, <2>1, RequestProfileType, RequestAgrees
  <2>3. Safe(q) /\ Holds(obc, q)
    BY <1>q, <1>h, <2>2, AgreeSafe DEF Agree, Holds
  <2> QED BY <1>r, <2>2, <2>3
<1>4. ASSUME SafeMode PROVE Safe(obc') /\ Holds(obc, obc')
  <2> DEFINE q == EnterSafe(Quiet, TRUE)
  <2>1. q \in ObcState
    BY <1>q, DescentTypes
  <2>2. Standing(Quiet)
    BY <1>q DEF Safe
  <2>3. Safe(q) /\ Holds(obc, q)
    BY <1>q, <1>h, <2>2, EnterSafeKeeps DEF Holds
  <2> QED BY <1>4, <1>r, <2>1, <2>3 DEF SafeMode
<1>5. ASSUME RestartService PROVE Safe(obc') /\ Holds(obc, obc')
  <2> SUFFICES ASSUME NEW s \in Watchable, NEW absent \in BOOLEAN,
                      obc' = Reconcile(
                        Publish([Quiet EXCEPT !.health = ExpectRestart(@, s)],
                                [kind |-> "restart_service", service |-> s]),
                        absent)
               PROVE  Safe(obc') /\ Holds(obc, obc')
    BY <1>5 DEF RestartService
  <2> DEFINE e == [Quiet EXCEPT !.health = ExpectRestart(@, s)]
             q == Publish(e, [kind |-> "restart_service", service |-> s])
  <2>1. ExpectRestart(Quiet.health, s) \in Monitor
    BY <1>q, MonitorTypes DEF ObcState
  <2>2. ExpectRestart(Quiet.health, s).watched = Quiet.health.watched
    BY <1>q DEF ExpectRestart, ObcState, Monitor
  <2>3. e \in ObcState /\ Agree(e, Quiet)
    BY <1>q, <2>1, <2>2 DEF Agree, ObcState
  <2> HIDE DEF e
  <2>4. q \in ObcState /\ Agree(q, e)
    <3>1. [kind |-> "restart_service", service |-> s] \in Message
      BY DEF Message
    <3> QED BY <2>3, <3>1, PublishType DEF Agree, Publish, ObcState
  <2> HIDE DEF q
  <2>5. Safe(q) /\ Holds(obc, q)
    BY <1>q, <1>h, <2>3, <2>4, AgreeSafe DEF Agree, Holds
  <2>6. obc' = Reconcile(q, absent)
    BY DEF q, e
  <2> QED BY <1>r, <2>4, <2>5, <2>6
<1>6. ASSUME GroundRecover PROVE Safe(obc')
  <2>1. Recover(Quiet, FALSE) \in ObcState /\ Safe(Recover(Quiet, FALSE))
    BY <1>q, DescentTypes, RecoverKeeps
  <2> QED BY <1>6, <1>r, <2>1 DEF GroundRecover
<1>7. ASSUME EpsReports PROVE Safe(obc') /\ Holds(obc, obc')
  BY <1>7, <1>q, <1>h, <1>r, HandlerTypes, HandlerKeeps, ObcAssumption
     DEF EpsReports
<1>8. ASSUME HostdReports PROVE Safe(obc') /\ Holds(obc, obc')
  BY <1>8, <1>q, <1>h, <1>r, HandlerTypes, HandlerKeeps, ObcAssumption
     DEF HostdReports
<1>9. ASSUME Heartbeat PROVE Safe(obc') /\ Holds(obc, obc')
  <2> SUFFICES ASSUME NEW s \in Beating, NEW alive \in BOOLEAN,
                      NEW absent \in BOOLEAN,
                      obc' = Reconcile(
                        [Quiet EXCEPT !.health = IF alive THEN NoteAlive(@, s)
                                                 ELSE NoteGone(@, s)], absent)
               PROVE  Safe(obc') /\ Holds(obc, obc')
    BY <1>9 DEF Heartbeat
  <2> DEFINE h == IF alive THEN NoteAlive(Quiet.health, s)
                  ELSE NoteGone(Quiet.health, s)
             q == [Quiet EXCEPT !.health = h]
  <2>1. s \in Watchable
    BY ObcAssumption
  <2>2. h \in Monitor /\ h.watched = Quiet.health.watched
    <3>1. NoteAlive(Quiet.health, s) \in Monitor /\ NoteGone(Quiet.health, s) \in Monitor
      BY <1>q, <2>1, MonitorTypes DEF ObcState
    <3>2. /\ NoteAlive(Quiet.health, s).watched = Quiet.health.watched
          /\ NoteGone(Quiet.health, s).watched = Quiet.health.watched
      BY <1>q DEF NoteAlive, NoteGone, ObcState, Monitor
    <3> QED BY <3>1, <3>2
  <2>3. obc' = Reconcile(q, absent)
    BY <1>q DEF ObcState
  <2> HIDE DEF h
  <2>4. q \in ObcState /\ Agree(q, Quiet)
    BY <1>q, <2>2 DEF Agree, ObcState
  <2> HIDE DEF q
  <2>5. Safe(q) /\ Holds(obc, q)
    BY <1>q, <1>h, <2>4, AgreeSafe DEF Agree, Holds
  <2> QED BY <1>r, <2>3, <2>4, <2>5
<1>10. ASSUME SubsystemReports PROVE Safe(obc') /\ Holds(obc, obc')
  BY <1>10, <1>q, <1>h, <1>r, HandlerTypes, HandlerKeeps DEF SubsystemReports
<1>11. ASSUME DhsReports PROVE Safe(obc') /\ Holds(obc, obc')
  <2> SUFFICES ASSUME NEW b \in BOOLEAN \cup {None}, NEW absent \in BOOLEAN,
                      obc' = Reconcile(NoteReportFrom(OnDhsStatus(Quiet, b), Dhs),
                                       absent)
               PROVE  Safe(obc') /\ Holds(obc, obc')
    BY <1>11 DEF DhsReports
  <2> DEFINE w == OnDhsStatus(Quiet, b)
             q == NoteReportFrom(w, Dhs)
  <2>1. w \in ObcState /\ Safe(w) /\ Agree(w, Quiet)
    <3>1. Agree(w, Quiet)
      BY <1>q DEF Agree, OnDhsStatus, ObcState
    <3> QED BY <1>q, <3>1, HandlerTypes, AgreeSafe
  <2> HIDE DEF w
  <2>2. q \in ObcState /\ Safe(q) /\ Holds(w, q)
    BY <2>1, HandlerTypes, HandlerKeeps
  <2> HIDE DEF q
  <2>3. Holds(obc, q)
    BY <1>h, <2>1, <2>2 DEF Agree, Holds
  <2>4. obc' = Reconcile(q, absent)
    BY DEF q, w
  <2> QED BY <1>r, <2>2, <2>3, <2>4
<1>12. ASSUME FlushBegins \/ FlushEnds PROVE Safe(obc') /\ Holds(obc, obc')
  <2>1. Quiet.flush # "none" /\ obc.flush # "none"
    BY <1>12, <1>q DEF FlushBegins, FlushEnds, Agree
  <2>2. /\ obc'.mission = Quiet.mission /\ obc'.latched = Quiet.latched
        /\ obc'.lowered = Quiet.lowered /\ obc'.profile = Quiet.profile
        /\ obc'.deploy = Quiet.deploy /\ obc'.health = Quiet.health
    BY <1>12, <1>q DEF FlushBegins, FlushEnds, Publish, ObcState
  <2> QED BY <1>q, <1>h, <2>1, <2>2 DEF Safe, Standing, Tested, Holds
<1>13. ASSUME Restart PROVE Safe(obc')
  BY <1>13 DEF Restart, InitObc, InitMonitor, InitProfileMachine, Safe,
     Standing, Tested, Descended
<1>14. ASSUME Elapse PROVE Safe(obc') /\ Holds(obc, obc')
  <2> DEFINE d == IF Quiet.deploy = None THEN None ELSE TestElapse(Quiet.deploy)
  <2>1. /\ obc'.mission = Quiet.mission /\ obc'.latched = Quiet.latched
        /\ obc'.lowered = Quiet.lowered /\ obc'.flush = Quiet.flush
        /\ obc'.profile = ProfileElapse(Quiet.profile)
        /\ obc'.health = MonitorElapse(Quiet.health)
        /\ obc'.deploy = d
    BY <1>14, <1>q DEF Elapse, Elapsed, ObcState
  <2>2. ProfileElapse(Quiet.profile).achieved = Quiet.profile.achieved
    BY <1>q DEF ProfileElapse, ObcState, ProfileMachineState
  <2>3. MonitorElapse(Quiet.health).watched = Quiet.health.watched
    BY <1>q DEF MonitorElapse, ObcState, Monitor
  <2>4. Quiet.deploy # None => d # None /\ d.silent = Quiet.deploy.silent
    <3>1. ASSUME Quiet.deploy # None
          PROVE  TestElapse(Quiet.deploy) # None
                 /\ TestElapse(Quiet.deploy).silent = Quiet.deploy.silent
      <4>1. Quiet.deploy \in SelfTest
        BY <1>q, <3>1 DEF ObcState
      <4>2. TestElapse(Quiet.deploy) \in SelfTest
        BY <4>1, SelfTestTypes
      <4> QED BY <4>1, <4>2, DeployAssumption DEF TestElapse, SelfTest
    <3> QED BY <3>1
  <2> HIDE DEF d
  <2>5. Safe(obc') /\ Holds(Quiet, obc')
    BY <1>q, <2>1, <2>2, <2>3, <2>4 DEF Safe, Standing, Tested, Holds
  <2> QED BY <1>h, <2>5
<1> QED BY <1>1, <1>2, <1>3, <1>4, <1>5, <1>6, <1>7, <1>8, <1>9, <1>10,
           <1>11, <1>12, <1>13, <1>14 DEF Next, Unforgiving

Inv == TypeOK /\ Safe(obc)

\* The inductive invariant: the type, and the parts of Safe, which are what
\* the properties say plus what the next step needs of them.
LEMMA InvInductive == Spec => []Inv
<1>1. Init => Inv
  BY InitType DEF Init, Inv, TypeOK, InitObc, InitMonitor, InitProfileMachine,
                  Safe, Standing, Tested, Descended
<1>2. Inv /\ [Next]_obc => Inv'
  <2> SUFFICES ASSUME Inv, [Next]_obc PROVE Inv'
    OBVIOUS
  <2>1. CASE Next
    <3>1. TypeOK'
      BY <2>1, NextType DEF Inv
    <3>2. Safe(obc')
      BY <2>1, StepKeeps DEF Inv
    <3> QED BY <3>1, <3>2 DEF Inv
  <2>2. CASE UNCHANGED obc
    BY <2>2 DEF Inv, TypeOK
  <2> QED BY <2>1, <2>2
<1> QED BY <1>1, <1>2, PTL DEF Spec

\* What follows from the invariant in one state: the mission state, the
\* profile, the self-test, the latch, the governor and the watch set agree.
LEMMA Coherence ==
  Inv => /\ LatchedIsDescended /\ FlyingIsActive /\ DeployIsTested
         /\ LoweredIsDescended /\ WatchesNoStranger /\ PoweroffIsCritical
BY DEF Inv, Safe, Standing, Tested, Descended, Mission, Achieved,
       LatchedIsDescended, FlyingIsActive, DeployIsTested,
       LoweredIsDescended, WatchesNoStranger, PoweroffIsCritical

\* A fault is latched only where it holds the satellite down, in SAFE or in
\* CRITICAL (_enter_safe, _recover and the change of profile).
THEOREM LatchDescends == Spec => []LatchedIsDescended
BY Coherence, InvInductive, PTL

\* Under a profile that asks for no mission the satellite neither flies nor is
\* throttled, however it recovers (_recover and _apply_profile_update).
THEOREM FlightIsActive == Spec => []FlyingIsActive
BY Coherence, InvInductive, PTL

\* Every bring-up has the self-test that will end it, and that test expects
\* only services the achieved profile starts (_begin_deploy, _check_deploy).
THEOREM BringUpIsTested == Spec => []DeployIsTested
BY Coherence, InvInductive, PTL

\* The governor OBC lowered is given back before the satellite flies again and
\* is never carried into a platform-only profile (_reconcile_governor).
THEOREM GovernorIsGivenBack == Spec => []LoweredIsDescended
BY Coherence, InvInductive, PTL

\* Health watches EPS and services of the achieved profile, and no other: one that
\* was stopped on purpose is never mistaken for a lost one (health.watch).  That it
\* watches all of them is not so: on_start leaves EPS alone.
THEOREM NoStrangerIsWatched == Spec => []WatchesNoStranger
BY Coherence, InvInductive, PTL

\* The thread that powers the host off exists in CRITICAL only, and nothing but
\* a restart leaves CRITICAL once it runs (_enter_critical).
THEOREM PoweroffOnlyInCritical == Spec => []PoweroffIsCritical
BY Coherence, InvInductive, PTL

\* A latched fault is let go by the ground, by a change of profile or by a
\* restart of OBC, and by nothing the battery, the bus or the clock does.
THEOREM LatchIsHeld == Spec => LatchHolds
<1>1. Inv /\ [Next]_obc =>
        [ obc.latched /\ ~(obc'.latched /\ obc'.mission \in {"SAFE", "CRITICAL"})
          => ~Unforgiving ]_obc
  <2> SUFFICES ASSUME Inv, Next, Unforgiving, obc.latched
               PROVE  obc'.latched /\ obc'.mission \in {"SAFE", "CRITICAL"}
    OBVIOUS
  <2>1. obc.mission \in Descended
    BY DEF Inv, Safe
  <2>2. Holds(obc, obc')
    BY StepKeeps DEF Inv
  <2>3. obc'.profile.achieved = obc.profile.achieved
    BY DEF Unforgiving, Achieved
  <2> QED BY <2>1, <2>2, <2>3 DEF Holds, Descended
<1> QED BY <1>1, InvInductive, PTL DEF Spec, LatchHolds

=============================================================================
