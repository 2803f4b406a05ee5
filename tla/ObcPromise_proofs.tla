--------------------------- MODULE ObcPromise_proofs ---------------------------
(***************************************************************************)
(* What OBC owes to the others, proved of Obc: that every handler is one   *)
(* move of MissionPromise, that a battery reading settles, and that the    *)
(* resume question is asked and a change of profile announced as promised. *)
(* The lemmas before the theorems say exactly what a method does to the    *)
(* mission state and to the latch, where Obc_proofs only says what it      *)
(* keeps.                                                                  *)
(***************************************************************************)
EXTENDS Obc_proofs

(***************************************************************************)
(* What the methods do to the mission state and to the latch.              *)
(***************************************************************************)

\* _enter_safe moves to SAFE from everywhere but CRITICAL.
LEMMA EnterSafeEffect ==
  ASSUME NEW o \in ObcState, NEW b \in BOOLEAN
  PROVE  /\ EnterSafe(o, b).mission =
              IF o.mission = "CRITICAL" THEN "CRITICAL" ELSE "SAFE"
         /\ EnterSafe(o, b).latched = (o.latched \/ b)
         /\ EnterSafe(o, b).profile = o.profile
<1> DEFINE f == Fire(o, "enter_safe")
<1>1. "enter_safe" \in Triggers /\ f \in ObcState
  BY FireType DEF Triggers, Transitions
<1>2. /\ f.mission = IF o.mission = "CRITICAL" THEN "CRITICAL" ELSE "SAFE"
      /\ f.profile = o.profile /\ f.latched = o.latched
  BY <1>1, FireEffect DEF May, Transitions, AllBut, MissionState, ObcState
<1> HIDE DEF f
<1>3. EnterSafe(o, b) = [f EXCEPT !.latched = @ \/ b]
  BY DEF EnterSafe, f
<1> QED BY <1>1, <1>2, <1>3 DEF ObcState

\* A profile that asks for no mission has been achieved.
Idle(o) == o.profile.achieved # None /\ o.profile.achieved \notin ActiveProfiles

\* Where _recover leads, unless the latch withholds it.
RecoveredFrom(o) ==
  IF Idle(o) THEN IF o.mission = "CRITICAL" THEN "CRITICAL" ELSE "STANDBY"
  ELSE IF o.mission \in Recoverable THEN "NOMINAL" ELSE o.mission

\* _recover forgives the fault, and moves as RecoveredFrom says.
LEMMA RecoverEffect ==
  ASSUME NEW o \in ObcState, NEW b \in BOOLEAN
  PROVE  /\ b /\ o.latched => Recover(o, b) = o
         /\ ~(b /\ o.latched) =>
              /\ Recover(o, b).mission = RecoveredFrom(o)
              /\ Recover(o, b).latched = FALSE
         /\ Recover(o, b).profile = o.profile
<1> DEFINE u == [o EXCEPT !.latched = FALSE]
           s == Fire(u, "stand_down")
           r == Fire(u, "recover")
<1>1. /\ u \in ObcState /\ u.mission = o.mission
      /\ u.profile = o.profile /\ u.latched = FALSE
  BY DEF ObcState
<1> HIDE DEF u
<1>2. /\ s.mission = IF o.mission = "CRITICAL" THEN "CRITICAL" ELSE "STANDBY"
      /\ s.profile = o.profile /\ s.latched = FALSE
  BY <1>1, StandDownEffect
<1>3. "recover" \in Triggers
  BY DEF Triggers, Transitions
<1>4. /\ r.mission = IF o.mission \in Recoverable THEN "NOMINAL" ELSE o.mission
      /\ r.profile = o.profile /\ r.latched = FALSE
  BY <1>1, <1>3, FireEffect DEF May, Transitions, Recoverable
<1>5. Recover(o, b) = IF b /\ o.latched THEN o ELSE IF Idle(o) THEN s ELSE r
  BY DEF Recover, u, Idle
<1> HIDE DEF s, r
<1> QED BY <1>2, <1>4, <1>5 DEF RecoveredFrom

\* _enter_critical ends in CRITICAL and lets no fault go.
LEMMA EnterCriticalEffect ==
  ASSUME NEW o \in ObcState
  PROVE  /\ EnterCritical(o).mission = "CRITICAL"
         /\ EnterCritical(o).latched = o.latched
         /\ EnterCritical(o).profile = o.profile
<1> DEFINE f == Fire(o, "enter_critical")
<1>1. "enter_critical" \in Triggers /\ f \in ObcState
  BY FireType DEF Triggers, Transitions
<1>2. o.mission # "CRITICAL" =>
        /\ f.mission = "CRITICAL" /\ f.profile = o.profile
        /\ f.latched = o.latched
  BY <1>1, FireEffect DEF May, Transitions, AllBut, MissionState, ObcState
<1> HIDE DEF f
<1>3. EnterCritical(o) = IF o.mission = "CRITICAL" THEN o
                         ELSE [f EXCEPT !.flushed = FALSE, !.flush = "started"]
  BY DEF EnterCritical, f, May, Transitions, AllBut, ObcState
<1> QED BY <1>1, <1>2, <1>3 DEF ObcState

\* A low battery throttles what flies, and nothing else.
LEMMA LowPowerEffect ==
  ASSUME NEW o \in ObcState
  PROVE  LET q == Fire(o, "enter_low_power")
         IN  /\ q.mission = IF o.mission \in {"DEPLOY", "NOMINAL"}
                            THEN "LOW_POWER" ELSE o.mission
             /\ q.latched = o.latched /\ q.profile = o.profile
<1>1. "enter_low_power" \in Triggers
  BY DEF Triggers, Transitions
<1> QED BY <1>1, FireEffect DEF May, Transitions

\* What the reconciliation at the end of a handler may still do: let a
\* bring-up conclude, or enter SAFE with a fault from where that is a descent.
Settles(q, r) ==
  /\ r.profile = q.profile
  /\ \/ r.mission = q.mission /\ r.latched = q.latched
     \/ q.mission = "DEPLOY" /\ r.mission = "NOMINAL" /\ r.latched = q.latched
     \/ /\ q.mission \in {"STANDBY", "DEPLOY", "NOMINAL", "LOW_POWER"}
        /\ r.mission = "SAFE" /\ r.latched = TRUE

\* _reconcile settles.
LEMMA ReconcileEffect ==
  ASSUME NEW o \in ObcState, NEW absent \in BOOLEAN
  PROVE  Settles(o, Reconcile(o, absent))
<1> DEFINE test   == Resweep(o.deploy, absent)
           closed == [o EXCEPT !.deploy = None]
           c      == CheckDeploy(o, absent)
<1>1. Settles(o, c)
  <2>1. /\ closed \in ObcState /\ closed.mission = o.mission
        /\ closed.profile = o.profile /\ closed.latched = o.latched
    BY DEF ObcState
  <2>2. ASSUME o.mission = "DEPLOY"
        PROVE  Settles(o, Fire(closed, "deploy_complete"))
    <3>1. "deploy_complete" \in Triggers
      BY DEF Triggers, Transitions
    <3> HIDE DEF closed
    <3> QED BY <2>1, <2>2, <3>1, FireEffect DEF May, Transitions, Settles
  <2>3. ASSUME o.mission = "DEPLOY" PROVE Settles(o, EnterSafe(closed, TRUE))
    <3> HIDE DEF closed
    <3> QED BY <2>1, <2>3, EnterSafeEffect DEF Settles
  <2>4. Settles(o, o) /\ Settles(o, [o EXCEPT !.deploy = test])
    BY DEF Settles, ObcState
  <2> QED BY <2>2, <2>3, <2>4 DEF CheckDeploy
<1>2. c \in ObcState
  BY ReconcileType
<1> HIDE DEF c
<1>3. Settles(c, CheckHealth(c))
  <2>1. Settles(c, c)
    BY DEF Settles
  <2>2. c.mission \notin {"BOOT", "SAFE", "CRITICAL"} =>
          c.mission \in {"STANDBY", "DEPLOY", "NOMINAL", "LOW_POWER"}
    BY <1>2 DEF ObcState, MissionState
  <2>3. c.mission \notin {"BOOT", "SAFE", "CRITICAL"} =>
          Settles(c, EnterSafe(c, TRUE))
    BY <1>2, <2>2, EnterSafeEffect DEF Settles
  <2> QED BY <2>1, <2>3 DEF CheckHealth
<1>4. Reconcile(o, absent) = CheckHealth(c)
  BY DEF Reconcile, c
<1> QED BY <1>1, <1>3, <1>4 DEF Settles

(***************************************************************************)
(* A change of profile.                                                    *)
(***************************************************************************)

\* Where the handler of a new profile leaves the satellite.
Switched(o, q, profile) ==
  /\ q.profile.achieved = profile
  /\ IF o.mission = "CRITICAL" THEN q.mission = "CRITICAL" /\ q.latched = FALSE
     ELSE \/ q.mission = "STANDBY" /\ q.latched = FALSE
          \/ /\ q.mission \in {"DEPLOY", "NOMINAL"} /\ q.latched = FALSE
             /\ profile \in ActiveProfiles
          \/ q.mission = "SAFE" /\ q.latched = TRUE

\* _apply_profile_update switches when the profile is new, and moves nothing
\* when it is not.
LEMMA UpdateEffect ==
  ASSUME NEW o \in ObcState, NEW status \in HostStatus, NEW absent \in BOOLEAN,
         status.profile # None
  PROVE  LET q == ApplyProfileUpdate(o, status, absent)
         IN  IF status.profile = o.profile.achieved
             THEN /\ q.mission = o.mission /\ q.latched = o.latched
                  /\ q.profile.achieved = o.profile.achieved
             ELSE Switched(o, q, status.profile)
<1> DEFINE profile  == status.profile
           p        == Observe(o.profile, profile, status.ttl)
           observed == [o EXCEPT !.profile = p]
           watch    == Watch(o.health, ServicesOf[profile])
           cleared  == [observed EXCEPT !.health = watch, !.deploy = None,
                                        !.latched = FALSE, !.lowered = FALSE]
           stood    == PublishStatus(Fire(cleared, "stand_down"))
           brought  == [Fire(stood, "begin_deploy") EXCEPT
                          !.deploy = Begin(profile, absent)]
<1>1. profile \in Profiles /\ status.ttl \in Ttls
  BY DEF HostStatus, Ttls
<1>2. p \in ProfileMachineState /\ p.achieved = profile
  <2>1. TRUE \in BOOLEAN /\ o.profile \in ProfileMachineState
    BY DEF ObcState
  <2> QED BY <1>1, <2>1, ProfileMachineTypes
<1>3. watch \in Monitor
  <2>1. ServicesOf[profile] \in SUBSET Services
    BY <1>1, ProfileTable
  <2>2. Eps \in Watchable /\ o.health \in Monitor
    BY DEF Watchable, ObcState
  <2> QED BY <2>1, <2>2, MonitorTypes
<1> HIDE DEF p, watch
<1>4. /\ observed \in ObcState /\ observed.mission = o.mission
      /\ observed.latched = o.latched /\ observed.profile = p
  BY <1>2 DEF ObcState
<1>5. /\ cleared \in ObcState /\ cleared.mission = o.mission
      /\ cleared.latched = FALSE /\ cleared.profile = p
  BY <1>2, <1>3 DEF ObcState
<1> HIDE DEF observed, cleared
<1>6. /\ stood \in ObcState /\ stood.latched = FALSE /\ stood.profile = p
      /\ stood.mission = IF o.mission = "CRITICAL" THEN "CRITICAL" ELSE "STANDBY"
  <2> DEFINE s == Fire(cleared, "stand_down")
  <2>1. s \in ObcState
    BY <1>5, FireType DEF Triggers, Transitions
  <2>2. /\ s.mission = IF o.mission = "CRITICAL" THEN "CRITICAL" ELSE "STANDBY"
        /\ s.latched = FALSE /\ s.profile = p
    BY <1>5, StandDownEffect
  <2> HIDE DEF s
  <2>3. PublishStatus(s) \in ObcState
    BY <2>1, PublishStatusType
  <2>4. stood = PublishStatus(s)
    BY DEF s
  <2> QED BY <2>1, <2>2, <2>3, <2>4 DEF PublishStatus, Publish, ObcState
<1> HIDE DEF stood
<1>7. Switched(o, stood, profile)
  BY <1>2, <1>6 DEF Switched
<1>8. ASSUME profile \in ActiveProfiles
      PROVE  Switched(o, BeginDeploy(stood, profile, absent), profile)
  <2>1. CASE o.mission = "CRITICAL"
    BY <1>6, <1>7, <2>1 DEF BeginDeploy, May, Transitions
  <2>2. CASE o.mission # "CRITICAL"
    <3> DEFINE f == Fire(stood, "begin_deploy")
    <3>1. "begin_deploy" \in Triggers /\ f \in ObcState
      BY <1>6, FireType DEF Triggers, Transitions
    <3>2. f.mission = "DEPLOY" /\ f.profile = p /\ f.latched = FALSE
      BY <1>6, <2>2, <3>1, FireEffect DEF May, Transitions
    <3>3. Begin(profile, absent) \in SelfTest
      BY <1>1, BeginType
    <3> HIDE DEF f
    <3>4. /\ brought \in ObcState /\ brought.mission = "DEPLOY"
          /\ brought.profile = p /\ brought.latched = FALSE
      BY <3>1, <3>2, <3>3 DEF ObcState, f
    <3> HIDE DEF brought
    <3>5. Settles(brought, Reconcile(brought, absent))
      BY <3>4, ReconcileEffect
    <3>6. BeginDeploy(stood, profile, absent) = Reconcile(brought, absent)
      <4>1. May(stood.mission, "begin_deploy")
        BY <1>6, <2>2 DEF May, Transitions
      <4> QED BY <4>1 DEF BeginDeploy, brought
    <3> QED BY <1>2, <1>8, <2>2, <3>4, <3>5, <3>6 DEF Switched, Settles
  <2> QED BY <2>1, <2>2
<1>9. /\ PublishStatus(observed).mission = o.mission
      /\ PublishStatus(observed).latched = o.latched
      /\ PublishStatus(observed).profile = p
  BY <1>4 DEF PublishStatus, Publish, ObcState
<1>10. ApplyProfileUpdate(o, status, absent) =
         IF profile = o.profile.achieved THEN PublishStatus(observed)
         ELSE IF profile \in ActiveProfiles /\ Matches(o.profile, profile)
              THEN BeginDeploy(stood, profile, absent)
              ELSE stood
  BY DEF ApplyProfileUpdate, Changed, stood, cleared, observed, p, watch, ObcState
<1> QED BY <1>2, <1>7, <1>8, <1>9, <1>10

(***************************************************************************)
(* The battery.                                                            *)
(***************************************************************************)

\* What evaluate may call for, and from where.
LEMMA EvaluateRange ==
  ASSUME NEW r, NEW state \in MissionState
  PROVE  /\ Evaluate(r, state) \in {"CRITICAL", "SAFE", "LOW_POWER", "NOMINAL", None}
         /\ Evaluate(r, state) = "NOMINAL" => state \in Recoverable
         /\ Evaluate(r, state) = "SAFE" => state \notin {"SAFE", "CRITICAL"}
         /\ Evaluate(r, state) = "LOW_POWER" => state \in LowPowerSources
<1>1. None \notin {"CRITICAL", "SAFE", "LOW_POWER", "NOMINAL"}
  BY ProfileTable DEF MissionState
<1> QED BY <1>1, Zenon DEF Evaluate

\* A reading that has been followed calls for nothing where it led.
LEMMA ReadingIsSpent ==
  ASSUME NEW r, r.voltage \in Nat, NEW state \in MissionState
  PROVE  /\ Evaluate(r, state) \in {"CRITICAL", "SAFE", "LOW_POWER"} =>
              Evaluate(r, Evaluate(r, state)) = None
         /\ Evaluate(r, state) = "NOMINAL" =>
              Evaluate(r, "NOMINAL") = None /\ Evaluate(r, "STANDBY") = None
<1> USE DEF CriticalVolts, SafeVolts, LowPowerVolts, RecoveryVolts
<1> DEFINE v == r.voltage
<1>0. None \notin {"CRITICAL", "SAFE", "LOW_POWER", "NOMINAL"}
  BY ProfileTable DEF MissionState
<1>1. /\ Evaluate(r, state) = "CRITICAL" => ~OnMains(r) /\ v < CriticalVolts
      /\ Evaluate(r, state) = "SAFE" =>
           ~OnMains(r) /\ v \in CriticalVolts .. (SafeVolts - 1)
      /\ Evaluate(r, state) = "LOW_POWER" =>
           ~OnMains(r) /\ v \in SafeVolts .. (LowPowerVolts - 1)
      /\ Evaluate(r, state) = "NOMINAL" => OnMains(r) \/ v >= RecoveryVolts
  BY <1>0 DEF Evaluate
<1>2. ~OnMains(r) /\ v < CriticalVolts => Evaluate(r, "CRITICAL") = None
  BY DEF Evaluate, Recoverable, LowPowerSources
<1>3. ~OnMains(r) /\ v \in CriticalVolts .. (SafeVolts - 1) =>
        Evaluate(r, "SAFE") = None
  BY DEF Evaluate, Recoverable, LowPowerSources
<1>4. ~OnMains(r) /\ v \in SafeVolts .. (LowPowerVolts - 1) =>
        Evaluate(r, "LOW_POWER") = None
  BY DEF Evaluate, Recoverable, LowPowerSources
<1>5. OnMains(r) \/ v >= RecoveryVolts =>
        Evaluate(r, "NOMINAL") = None /\ Evaluate(r, "STANDBY") = None
  BY DEF Evaluate, Recoverable, LowPowerSources
<1> QED BY <1>1, <1>2, <1>3, <1>4, <1>5

\* Where a reading takes the satellite, if anywhere.
Drawn(o, q) ==
  /\ q.profile.achieved = o.profile.achieved /\ q.latched = o.latched
  /\ \/ q.mission = o.mission
     \/ q.mission = "CRITICAL"
     \/ o.mission \notin {"SAFE", "CRITICAL"} /\ q.mission = "SAFE"
     \/ o.mission \in LowPowerSources /\ q.mission = "LOW_POWER"
     \/ /\ o.mission \in Recoverable /\ ~o.latched
        /\ q.mission = RecoveredFrom(o)

\* eps_status: the resume question aside, the handler does what evaluate says.
LEMMA ReadingEffect ==
  ASSUME NEW o \in ObcState, NEW eps \in EpsStatus
  PROVE  /\ Drawn(o, OnEpsStatus(o, eps))
         /\ ReadingFrom(eps) # None =>
              LET target == Evaluate(ReadingFrom(eps), o.mission)
                  q      == OnEpsStatus(o, eps)
              IN  q.mission =
                    CASE target \in {"CRITICAL", "SAFE", "LOW_POWER"} -> target
                      [] target = "NOMINAL" /\ ~o.latched -> RecoveredFrom(o)
                      [] OTHER -> o.mission
<1> DEFINE w       == ResumeOnEvidence(o, eps)
           reading == ReadingFrom(eps)
           target  == IF reading = None THEN None
                      ELSE Evaluate(reading, o.mission)
           q       == OnEpsStatus(o, eps)
<1>1. /\ w \in ObcState /\ w.mission = o.mission /\ w.latched = o.latched
      /\ w.profile.achieved = o.profile.achieved
  BY ResumeStepTypes, ResumeAgrees DEF Agree
<1> HIDE DEF w
<1>2. /\ target \in {"CRITICAL", "SAFE", "LOW_POWER", "NOMINAL", None}
      /\ target = "NOMINAL" => o.mission \in Recoverable
      /\ target = "SAFE" => o.mission \notin {"SAFE", "CRITICAL"}
      /\ target = "LOW_POWER" => o.mission \in LowPowerSources
  <2>1. o.mission \in MissionState
    BY DEF ObcState
  <2>2. None \notin {"CRITICAL", "SAFE", "LOW_POWER", "NOMINAL"}
    BY ProfileTable DEF MissionState
  <2> QED BY <2>1, <2>2, EvaluateRange
<1>3. q = CASE target = "CRITICAL"  -> EnterCritical(w)
            [] target = "SAFE"      -> EnterSafe(w, FALSE)
            [] target = "LOW_POWER" -> Fire(w, "enter_low_power")
            [] target = "NOMINAL"   -> Recover(w, TRUE)
            [] OTHER                -> w
  BY <1>1 DEF OnEpsStatus, w
<1>4. None \notin {"CRITICAL", "SAFE", "LOW_POWER", "NOMINAL"}
  BY ProfileTable DEF MissionState
<1>5. RecoveredFrom(w) = RecoveredFrom(o)
  BY <1>1 DEF RecoveredFrom, Idle
<1> DEFINE Goal(m) == /\ q.profile.achieved = o.profile.achieved
                      /\ q.latched = o.latched
                      /\ q.mission = m
<1> HIDE DEF q, target
<1>6. CASE target = "CRITICAL"
  <2>1. Goal("CRITICAL")
    BY <1>1, <1>3, <1>6, EnterCriticalEffect
  <2> QED BY <1>6, <2>1 DEF Drawn, q, target
<1>7. CASE target = "SAFE"
  <2>1. Goal("SAFE")
    BY <1>1, <1>2, <1>3, <1>7, EnterSafeEffect DEF ObcState
  <2> QED BY <1>2, <1>7, <2>1 DEF Drawn, q, target
<1>8. CASE target = "LOW_POWER"
  <2>1. Goal("LOW_POWER")
    BY <1>1, <1>2, <1>3, <1>8, LowPowerEffect DEF LowPowerSources
  <2> QED BY <1>2, <1>8, <2>1 DEF Drawn, q, target
<1>9. CASE target = "NOMINAL" /\ ~o.latched
  <2>1. Goal(RecoveredFrom(o))
    <3>1. q = Recover(w, TRUE)
      BY <1>3, <1>9
    <3> QED BY <1>1, <1>5, <1>9, <3>1, RecoverEffect DEF ObcState
  <2> QED BY <1>2, <1>9, <2>1 DEF Drawn, q, target
<1>10. CASE target = "NOMINAL" /\ o.latched
  <2>1. Goal(o.mission)
    BY <1>1, <1>3, <1>10, RecoverEffect
  <2> QED BY <1>10, <2>1 DEF Drawn, q, target
<1>11. CASE target = None
  <2>1. Goal(o.mission)
    BY <1>1, <1>3, <1>4, <1>11
  <2> QED BY <1>4, <1>11, <2>1 DEF Drawn, q, target
<1> QED BY <1>2, <1>6, <1>7, <1>8, <1>9, <1>10, <1>11

\* Taken twice, a reading calls for nothing more than it did the first time,
\* unless a latched fault withholds the recovery: the thresholds of
\* power_policy.evaluate leave no reading between two states that each call
\* for the other.
THEOREM NoChatter == Spec => []ReadingSettles
<1>1. TypeOK => ReadingSettles
  <2> SUFFICES ASSUME TypeOK, NEW eps \in Readings,
                      ReadingFrom(eps) # None,
                      ~OnEpsStatus(obc, eps).latched
               PROVE  Evaluate(ReadingFrom(eps), OnEpsStatus(obc, eps).mission)
                        = None
    BY DEF ReadingSettles
  <2> DEFINE r     == ReadingFrom(eps)
             after == OnEpsStatus(obc, eps).mission
             first == Evaluate(r, obc.mission)
  <2>1. eps \in EpsStatus /\ obc \in ObcState /\ obc.mission \in MissionState
    BY ObcAssumption DEF TypeOK, ObcState
  <2>2. r.voltage \in Nat
    BY <2>1 DEF ReadingFrom, EpsStatus
  <2>3. ~obc.latched
    BY <2>1, ReadingEffect DEF Drawn
  <2>4. after = CASE first \in {"CRITICAL", "SAFE", "LOW_POWER"} -> first
                  [] first = "NOMINAL" /\ ~obc.latched -> RecoveredFrom(obc)
                  [] OTHER -> obc.mission
    BY <2>1, ReadingEffect
  <2>5. first = "NOMINAL" => after \in {"NOMINAL", "STANDBY"}
    <3>1. first = "NOMINAL" => obc.mission \in Recoverable
      BY <2>1, EvaluateRange
    <3> QED BY <2>3, <2>4, <3>1 DEF RecoveredFrom, Recoverable
  <2>6. None \notin {"CRITICAL", "SAFE", "LOW_POWER", "NOMINAL"}
    BY ProfileTable DEF MissionState
  <2>7. first = None => after = obc.mission
    BY <2>4, <2>6
  <2>8. first \in {"CRITICAL", "SAFE", "LOW_POWER"} => after = first
    BY <2>4
  <2>9. Evaluate(r, after) = None
    <3> HIDE DEF r, after
    <3>1. CASE first \in {"CRITICAL", "SAFE", "LOW_POWER"}
      BY <2>1, <2>2, <2>8, <3>1, ReadingIsSpent
    <3>2. CASE first = "NOMINAL"
      BY <2>1, <2>2, <2>5, <3>2, ReadingIsSpent
    <3>3. CASE first = None
      BY <2>7, <3>3
    <3> QED BY <2>1, <3>1, <3>2, <3>3, EvaluateRange
  <2> QED BY <2>9
<1> QED BY <1>1, TypeCorrect, PTL

(***************************************************************************)
(* The refinement: each handler is one move of MissionPromise, or none.  A *)
(* handler is its own move followed by the reconciliation; together they   *)
(* are one move of the promise again, which is what each lemma shows.      *)
(***************************************************************************)
PromiseStep == [Promise!PromiseNext]_(Promise!promised)

\* The state below another.
Below(state, lower) ==
  \/ state \in {"DEPLOY", "NOMINAL"} /\ lower \in {"LOW_POWER", "SAFE", "CRITICAL"}
  \/ state \in {"BOOT", "STANDBY", "LOW_POWER"} /\ lower \in {"SAFE", "CRITICAL"}
  \/ state = "SAFE" /\ lower = "CRITICAL"

\* A descent, a fault, or both, is a move the promise calls Sinks.
LEMMA SinkMoves ==
  ASSUME obc'.mission = obc.mission \/ Below(obc.mission, obc'.mission),
         \/ obc'.latched = obc.latched
         \/ obc'.latched = TRUE /\ obc'.mission \in Descended,
         obc'.profile.achieved = obc.profile.achieved
  PROVE  PromiseStep
<1>1. Below(obc.mission, obc'.mission) => obc'.mission \in Promise!Lower(obc.mission)
  BY DEF Below, Promise!Lower
<1>2. Promise!Sinks
  BY <1>1 DEF Promise!Sinks, Promise!Down, Descended
<1> QED BY <1>2 DEF PromiseStep, Promise!PromiseNext

\* A handler that moves nothing itself: the reconciliation may end a bring-up
\* or find a fault.
LEMMA StillMoves ==
  ASSUME obc \in ObcState, Safe(obc), NEW q, Settles(q, obc'),
         q.mission = obc.mission, q.latched = obc.latched,
         q.profile.achieved = obc.profile.achieved
  PROVE  PromiseStep
<1>1. obc'.profile.achieved = obc.profile.achieved
  BY DEF Settles
<1>2. CASE obc'.mission = q.mission /\ obc'.latched = q.latched
  BY <1>1, <1>2, SinkMoves
<1>3. CASE q.mission = "DEPLOY" /\ obc'.mission = "NOMINAL" /\ obc'.latched = q.latched
  <2>1. Promise!Concludes
    BY <1>1, <1>3 DEF Promise!Concludes
  <2> QED BY <2>1 DEF PromiseStep, Promise!PromiseNext
<1>4. CASE /\ q.mission \in {"STANDBY", "DEPLOY", "NOMINAL", "LOW_POWER"}
           /\ obc'.mission = "SAFE" /\ obc'.latched = TRUE
  BY <1>1, <1>4, SinkMoves DEF Below, Descended
<1> QED BY <1>2, <1>3, <1>4 DEF Settles

\* A reading: what it starts, a fault found afterwards may finish.
LEMMA DrawnMoves ==
  ASSUME obc \in ObcState, Safe(obc), NEW q, Settles(q, obc'), Drawn(obc, q)
  PROVE  PromiseStep
<1>1. obc'.profile.achieved = obc.profile.achieved /\ q.latched = obc.latched
  BY DEF Settles, Drawn
<1>2. obc.mission \in MissionState
  BY DEF ObcState
<1>3. CASE q.mission = obc.mission
  BY <1>1, <1>3, StillMoves DEF Drawn
<1>4. CASE q.mission \in Descended
  <2>1. obc'.mission = q.mission /\ obc'.latched = obc.latched
    BY <1>1, <1>4 DEF Settles, Descended
  <2>2. obc'.mission = obc.mission \/ Below(obc.mission, obc'.mission)
    <3>1. \/ q.mission = obc.mission
          \/ q.mission = "CRITICAL"
          \/ obc.mission \notin {"SAFE", "CRITICAL"} /\ q.mission = "SAFE"
      BY <1>4 DEF Drawn, RecoveredFrom, Recoverable, Descended
    <3> QED BY <1>2, <2>1, <3>1 DEF Below, MissionState
  <2> QED BY <1>1, <2>1, <2>2, SinkMoves
<1>5. CASE obc.mission \in LowPowerSources /\ q.mission = "LOW_POWER"
  <2>1. \/ obc'.mission = "LOW_POWER" /\ obc'.latched = obc.latched
        \/ obc'.mission = "SAFE" /\ obc'.latched = TRUE
    BY <1>1, <1>5 DEF Settles
  <2> QED BY <1>1, <1>5, <2>1, SinkMoves DEF Below, Descended, LowPowerSources
<1>6. CASE /\ obc.mission \in Recoverable /\ ~obc.latched
           /\ q.mission = RecoveredFrom(obc)
  <2>1. q.mission = IF Idle(obc) THEN "STANDBY" ELSE "NOMINAL"
    BY <1>6 DEF RecoveredFrom, Recoverable
  <2>2. \/ obc'.mission = q.mission /\ obc'.latched = obc.latched
        \/ obc'.mission = "SAFE" /\ obc'.latched = TRUE
    BY <1>1, <2>1 DEF Settles
  <2>3. CASE obc'.mission = q.mission /\ obc'.latched = obc.latched
    <3>1. obc'.mission = Promise!Recovered(obc.profile.achieved)
      BY <2>1, <2>3 DEF Promise!Recovered, Promise!Flies, Idle
    <3>2. Promise!Recovers
      BY <1>1, <1>6, <2>3, <3>1 DEF Promise!Recovers, Recoverable
    <3> QED BY <3>2 DEF PromiseStep, Promise!PromiseNext
  <2>4. CASE obc'.mission = "SAFE" /\ obc'.latched = TRUE
    BY <1>1, <1>6, <2>4, SinkMoves DEF Below, Descended, Recoverable
  <2> QED BY <2>2, <2>3, <2>4
<1> QED BY <1>3, <1>4, <1>5, <1>6 DEF Drawn, Descended

\* The ground's safe_mode, which reconciliation adds nothing to.
LEMMA SafeModeMoves ==
  ASSUME obc \in ObcState, NEW q, Settles(q, obc'),
         q.mission = IF obc.mission = "CRITICAL" THEN "CRITICAL" ELSE "SAFE",
         q.latched = TRUE, q.profile.achieved = obc.profile.achieved
  PROVE  PromiseStep
<1>1. /\ obc'.mission = q.mission /\ obc'.latched = TRUE
      /\ obc'.profile.achieved = obc.profile.achieved
  BY DEF Settles
<1>2. obc'.mission = obc.mission \/ Below(obc.mission, obc'.mission)
  BY <1>1 DEF ObcState, MissionState, Below
<1> QED BY <1>1, <1>2, SinkMoves DEF Descended

\* The ground's recover: it pardons, and a fault found at once grounds again.
LEMMA PardonMoves ==
  ASSUME obc \in ObcState, Safe(obc), NEW q, Settles(q, obc'),
         q.mission = RecoveredFrom(obc), q.latched = FALSE,
         q.profile.achieved = obc.profile.achieved
  PROVE  PromiseStep
<1>1. obc'.profile.achieved = obc.profile.achieved
  BY DEF Settles
<1>2. obc.mission \in MissionState
  BY DEF ObcState
<1>3. CASE obc'.mission = q.mission /\ obc'.latched = q.latched
  <2>1. Promise!Pardons
    BY <1>1, <1>2, <1>3 DEF Promise!Pardons, Promise!Recovered, Promise!Flies,
       RecoveredFrom, Idle, Recoverable, MissionState
  <2> QED BY <2>1 DEF PromiseStep, Promise!PromiseNext
<1>4. CASE q.mission = "DEPLOY" /\ obc'.mission = "NOMINAL" /\ obc'.latched = q.latched
  <2>1. obc.mission = "DEPLOY"
    BY <1>4 DEF RecoveredFrom
  <2>2. obc.latched = FALSE
    BY <2>1 DEF Safe, Descended, ObcState
  <2>3. Promise!Concludes
    BY <1>1, <1>4, <2>1, <2>2 DEF Promise!Concludes
  <2> QED BY <2>3 DEF PromiseStep, Promise!PromiseNext
<1>5. CASE /\ q.mission \in {"STANDBY", "DEPLOY", "NOMINAL", "LOW_POWER"}
           /\ obc'.mission = "SAFE" /\ obc'.latched = TRUE
  <2>1. obc.mission # "CRITICAL"
    BY <1>5 DEF RecoveredFrom, Recoverable
  <2>2. obc'.mission = obc.mission \/ Below(obc.mission, obc'.mission)
    BY <1>2, <1>5, <2>1 DEF MissionState, Below
  <2> QED BY <1>1, <1>5, <2>2, SinkMoves DEF Descended
<1> QED BY <1>3, <1>4, <1>5 DEF Settles

\* A change of profile: what the new one comes to at once is still the switch.
LEMMA SwitchMoves ==
  ASSUME obc \in ObcState, NEW q, NEW profile \in Profiles, Settles(q, obc'),
         Switched(obc, q, profile), profile # obc.profile.achieved
  PROVE  PromiseStep
<1>1. obc'.profile.achieved = profile
  BY DEF Settles, Switched
<1>2. IF obc.mission = "CRITICAL"
      THEN obc'.mission = "CRITICAL" /\ obc'.latched = FALSE
      ELSE \/ obc'.mission = "STANDBY" /\ obc'.latched = FALSE
           \/ /\ obc'.mission \in {"DEPLOY", "NOMINAL"} /\ obc'.latched = FALSE
              /\ profile \in ActiveProfiles
           \/ obc'.mission = "SAFE" /\ obc'.latched = TRUE
  BY DEF Settles, Switched
<1>3. Promise!Switches
  BY <1>1, <1>2 DEF Promise!Switches
<1> QED BY <1>3 DEF PromiseStep, Promise!PromiseNext

\* One step per action.
LEMMA EveryStepIsPromised ==
  ASSUME Inv, Next
  PROVE  PromiseStep
<1>q. /\ Quiet \in ObcState /\ Safe(Quiet) /\ obc \in ObcState /\ Safe(obc)
      /\ Quiet.mission = obc.mission /\ Quiet.latched = obc.latched
      /\ Quiet.profile = obc.profile
  <2>1. obc \in ObcState /\ Safe(obc) /\ <<>> \in Seq(Message)
    BY DEF Inv, TypeOK
  <2>2. /\ Quiet \in ObcState /\ Agree(Quiet, obc)
        /\ Quiet.profile = obc.profile
    BY <2>1 DEF Quiet, ObcState, Agree
  <2> QED BY <2>1, <2>2, AgreeSafe DEF Agree
<1> HIDE DEF Quiet
\* A body that agrees with the state before it, reconciled.
<1>s. ASSUME NEW q \in ObcState, NEW absent \in BOOLEAN, Agree(q, Quiet),
             obc' = Reconcile(q, absent)
      PROVE  PromiseStep
  <2>1. Settles(q, obc')
    BY <1>s, ReconcileEffect
  <2> QED BY <1>q, <1>s, <2>1, StillMoves DEF Agree
<1>1. ASSUME OnStart PROVE PromiseStep
  <2> DEFINE q == [Quiet EXCEPT !.started = TRUE, !.health = Watch(@, {})]
  <2>1. Watch(Quiet.health, {}) \in Monitor
    BY <1>q, MonitorTypes DEF ObcState, Watchable
  <2>2. /\ q \in ObcState /\ q.mission = obc.mission
        /\ q.profile = obc.profile /\ q.latched = obc.latched
    BY <1>q, <2>1 DEF ObcState
  <2>3. "boot_complete" \in Triggers
    BY DEF Triggers, Transitions
  <2>4. obc' = Fire(q, "boot_complete")
    BY <1>1 DEF OnStart
  <2> HIDE DEF q
  <2>5. /\ obc'.mission = IF obc.mission = "BOOT" THEN "STANDBY" ELSE obc.mission
        /\ obc'.profile = obc.profile /\ obc'.latched = obc.latched
    BY <2>2, <2>3, <2>4, FireEffect DEF May, Transitions
  <2>6. CASE obc.mission = "BOOT"
    <3>1. Promise!Starts
      BY <2>5, <2>6 DEF Promise!Starts
    <3> QED BY <3>1 DEF PromiseStep, Promise!PromiseNext
  <2>7. CASE obc.mission # "BOOT"
    BY <2>5, <2>7, SinkMoves
  <2> QED BY <2>6, <2>7
<1>2. ASSUME Tick PROVE PromiseStep
  <2> DEFINE a == PublishStatus(Quiet)
             b == RequestDefaultOnExpiry(a)
             c == ExpireResumeWait(b)
             d == SettleResume(c)
  <2>1. a \in ObcState /\ Agree(a, Quiet)
    BY <1>q, PublishStatusType, RequestAgrees
  <2> HIDE DEF a
  <2>2. b \in ObcState /\ Agree(b, a)
    BY <2>1, ResumeStepTypes, ResumeAgrees
  <2> HIDE DEF b
  <2>3. c \in ObcState /\ Agree(c, b)
    BY <2>2, ResumeStepTypes, ResumeAgrees
  <2> HIDE DEF c
  <2>4. d \in ObcState /\ Agree(d, c)
    BY <2>3, ResumeStepTypes, ResumeAgrees
  <2> HIDE DEF d
  <2>5. Agree(d, Quiet)
    BY <2>1, <2>2, <2>3, <2>4 DEF Agree
  <2>6. \E absent \in BOOLEAN : obc' = Reconcile(d, absent)
    BY <1>2 DEF Tick, Ticked, a, b, c, d
  <2> QED BY <1>s, <2>4, <2>5, <2>6
<1>3. ASSUME SetProfile PROVE PromiseStep
  <2> SUFFICES ASSUME NEW profile \in Profiles \cup {None},
                      NEW ttl \in Minutes \cup {None}, NEW absent \in BOOLEAN,
                      obc' = Reconcile(RequestProfile(Quiet, profile, ttl, FALSE),
                                       absent)
               PROVE  PromiseStep
    BY <1>3 DEF SetProfile
  <2>1. ttl \in Ttls
    BY ProfileMachineAssumption DEF Ttls
  <2>2. /\ RequestProfile(Quiet, profile, ttl, FALSE) \in ObcState
        /\ Agree(RequestProfile(Quiet, profile, ttl, FALSE), Quiet)
    BY <1>q, <2>1, RequestProfileType, RequestAgrees
  <2> QED BY <1>s, <2>2
<1>4. ASSUME SafeMode PROVE PromiseStep
  <2> DEFINE q == EnterSafe(Quiet, TRUE)
  <2>1. /\ q \in ObcState /\ q.latched = TRUE
        /\ q.mission = IF obc.mission = "CRITICAL" THEN "CRITICAL" ELSE "SAFE"
        /\ q.profile.achieved = obc.profile.achieved
    <3>1. TRUE \in BOOLEAN /\ q \in ObcState
      BY <1>q, DescentTypes
    <3> HIDE DEF q
    <3>2. /\ q.mission = IF Quiet.mission = "CRITICAL" THEN "CRITICAL" ELSE "SAFE"
          /\ q.latched = (Quiet.latched \/ TRUE) /\ q.profile = Quiet.profile
      BY <1>q, <3>1, EnterSafeEffect DEF q
    <3> QED BY <1>q, <3>1, <3>2
  <2>2. \E absent \in BOOLEAN : obc' = Reconcile(q, absent)
    BY <1>4 DEF SafeMode
  <2> HIDE DEF q
  <2>3. Settles(q, obc')
    BY <2>1, <2>2, ReconcileEffect
  <2> QED BY <1>q, <2>1, <2>3, SafeModeMoves
<1>5. ASSUME RestartService PROVE PromiseStep
  <2> SUFFICES ASSUME NEW s \in Watchable, NEW absent \in BOOLEAN,
                      obc' = Reconcile(
                        Publish([Quiet EXCEPT !.health = ExpectRestart(@, s)],
                                [kind |-> "restart_service", service |-> s]),
                        absent)
               PROVE  PromiseStep
    BY <1>5 DEF RestartService
  <2> DEFINE e == [Quiet EXCEPT !.health = ExpectRestart(@, s)]
             q == Publish(e, [kind |-> "restart_service", service |-> s])
  <2>1. ExpectRestart(Quiet.health, s) \in Monitor
    BY <1>q, MonitorTypes DEF ObcState
  <2>2. ExpectRestart(Quiet.health, s).watched = Quiet.health.watched
    BY <1>q DEF ExpectRestart, ObcState, Monitor
  <2>3. e \in ObcState /\ Agree(e, Quiet)
    BY <1>q, <2>1, <2>2 DEF Agree, ObcState
  <2> HIDE DEF e
  <2>4. q \in ObcState /\ Agree(q, e)
    <3>1. [kind |-> "restart_service", service |-> s] \in Message
      BY DEF Message
    <3> QED BY <2>3, <3>1, PublishType DEF Agree, Publish, ObcState
  <2>5. obc' = Reconcile(q, absent)
    BY DEF q, e
  <2> HIDE DEF q
  <2>6. Agree(q, Quiet)
    BY <2>3, <2>4 DEF Agree
  <2> QED BY <1>s, <2>4, <2>5, <2>6
<1>6. ASSUME GroundRecover PROVE PromiseStep
  <2> DEFINE q == Recover(Quiet, FALSE)
  <2>1. RecoveredFrom(Quiet) = RecoveredFrom(obc)
    BY <1>q DEF RecoveredFrom, Idle
  <2>2. /\ q \in ObcState /\ q.latched = FALSE /\ q.mission = RecoveredFrom(obc)
        /\ q.profile.achieved = obc.profile.achieved
    BY <1>q, <2>1, DescentTypes, RecoverEffect
  <2>3. \E absent \in BOOLEAN : obc' = Reconcile(q, absent)
    BY <1>6 DEF GroundRecover
  <2> HIDE DEF q
  <2>4. Settles(q, obc')
    BY <2>2, <2>3, ReconcileEffect
  <2> QED BY <1>q, <2>2, <2>4, PardonMoves
<1>7. ASSUME EpsReports PROVE PromiseStep
  <2> SUFFICES ASSUME NEW eps \in EpsStatus, NEW absent \in BOOLEAN,
                      obc' = Reconcile(OnEpsStatus(Quiet, eps), absent)
               PROVE  PromiseStep
    BY <1>7, ObcAssumption DEF EpsReports
  <2> DEFINE q == OnEpsStatus(Quiet, eps)
  <2>1. q \in ObcState /\ Drawn(Quiet, q)
    BY <1>q, HandlerTypes, ReadingEffect
  <2>2. RecoveredFrom(Quiet) = RecoveredFrom(obc)
    BY <1>q DEF RecoveredFrom, Idle
  <2> HIDE DEF q
  <2>3. Drawn(obc, q)
    BY <1>q, <2>1, <2>2 DEF Drawn
  <2>4. Settles(q, obc')
    BY <2>1, ReconcileEffect DEF q
  <2> QED BY <1>q, <2>3, <2>4, DrawnMoves
<1>8. ASSUME HostdReports PROVE PromiseStep
  <2> SUFFICES ASSUME NEW status \in HostStatus, NEW absent \in BOOLEAN,
                      obc' = Reconcile(OnHostStatus(Quiet, status, absent), absent)
               PROVE  PromiseStep
    BY <1>8, ObcAssumption DEF HostdReports
  <2> DEFINE w == WeighResume(Quiet, status)
             q == ApplyProfileUpdate(w, status, absent)
  <2>1. w \in ObcState /\ Agree(w, Quiet)
    BY <1>q, ResumeStepTypes, ResumeAgrees
  <2>2. obc' = Reconcile(IF status.profile = None THEN w ELSE q, absent)
    BY DEF OnHostStatus
  <2> HIDE DEF w
  <2>3. CASE status.profile = None
    BY <1>s, <2>1, <2>2, <2>3
  <2>4. CASE status.profile # None
    <3>1. q \in ObcState
      BY <2>1, <2>4, ApplyProfileUpdateType
    <3>2. IF status.profile = w.profile.achieved
          THEN /\ q.mission = w.mission /\ q.latched = w.latched
               /\ q.profile.achieved = w.profile.achieved
          ELSE Switched(w, q, status.profile)
      BY <2>1, <2>4, UpdateEffect
    <3> HIDE DEF q
    <3>3. Settles(q, obc')
      BY <2>2, <2>4, <3>1, ReconcileEffect
    <3>4. /\ w.mission = obc.mission /\ w.latched = obc.latched
          /\ w.profile.achieved = obc.profile.achieved
      BY <1>q, <2>1 DEF Agree
    <3>5. CASE status.profile = obc.profile.achieved
      BY <1>q, <3>2, <3>3, <3>4, <3>5, StillMoves
    <3>6. CASE status.profile # obc.profile.achieved
      <4>1. Switched(obc, q, status.profile)
        BY <3>2, <3>4, <3>6 DEF Switched
      <4>2. status.profile \in Profiles
        BY <2>4 DEF HostStatus
      <4> QED BY <1>q, <3>3, <3>6, <4>1, <4>2, SwitchMoves
    <3> QED BY <3>5, <3>6
  <2> QED BY <2>3, <2>4
<1>9. ASSUME Heartbeat PROVE PromiseStep
  <2> SUFFICES ASSUME NEW s \in Beating, NEW alive \in BOOLEAN,
                      NEW absent \in BOOLEAN,
                      obc' = Reconcile(
                        [Quiet EXCEPT !.health = IF alive THEN NoteAlive(@, s)
                                                 ELSE NoteGone(@, s)], absent)
               PROVE  PromiseStep
    BY <1>9 DEF Heartbeat
  <2> DEFINE h == IF alive THEN NoteAlive(Quiet.health, s)
                  ELSE NoteGone(Quiet.health, s)
             q == [Quiet EXCEPT !.health = h]
  <2>1. s \in Watchable
    BY ObcAssumption
  <2>2. h \in Monitor /\ h.watched = Quiet.health.watched
    <3>1. NoteAlive(Quiet.health, s) \in Monitor /\ NoteGone(Quiet.health, s) \in Monitor
      BY <1>q, <2>1, MonitorTypes DEF ObcState
    <3>2. /\ NoteAlive(Quiet.health, s).watched = Quiet.health.watched
          /\ NoteGone(Quiet.health, s).watched = Quiet.health.watched
      BY <1>q DEF NoteAlive, NoteGone, ObcState, Monitor
    <3> QED BY <3>1, <3>2
  <2>3. obc' = Reconcile(q, absent)
    BY <1>q DEF ObcState
  <2> HIDE DEF h
  <2>4. q \in ObcState /\ Agree(q, Quiet)
    BY <1>q, <2>2 DEF Agree, ObcState
  <2> HIDE DEF q
  <2> QED BY <1>s, <2>3, <2>4
\* A report that counts towards the bring-up moves nothing.
<1>n. ASSUME NEW q \in ObcState, NEW s, NEW absent \in BOOLEAN,
             q.mission = obc.mission, q.latched = obc.latched,
             q.profile = obc.profile,
             obc' = Reconcile(NoteReportFrom(q, s), absent)
      PROVE  PromiseStep
  <2> DEFINE n == NoteReportFrom(q, s)
  <2>1. n \in ObcState
    BY HandlerTypes
  <2>2. /\ n.mission = obc.mission /\ n.latched = obc.latched
        /\ n.profile = obc.profile
    BY <1>n DEF NoteReportFrom, ObcState
  <2> HIDE DEF n
  <2>3. Settles(n, obc')
    BY <1>n, <2>1, ReconcileEffect DEF n
  <2> QED BY <1>q, <2>2, <2>3, StillMoves
<1>10. ASSUME SubsystemReports PROVE PromiseStep
  BY <1>10, <1>q, <1>n DEF SubsystemReports
<1>11. ASSUME DhsReports PROVE PromiseStep
  <2> SUFFICES ASSUME NEW b \in BOOLEAN \cup {None}, NEW absent \in BOOLEAN,
                      obc' = Reconcile(NoteReportFrom(OnDhsStatus(Quiet, b), Dhs),
                                       absent)
               PROVE  PromiseStep
    BY <1>11 DEF DhsReports
  <2> DEFINE w == OnDhsStatus(Quiet, b)
  <2>1. w \in ObcState
    BY <1>q, HandlerTypes
  <2>2. /\ w.mission = obc.mission /\ w.latched = obc.latched
        /\ w.profile = obc.profile
    BY <1>q DEF OnDhsStatus, ObcState
  <2> HIDE DEF w
  <2> QED BY <1>n, <2>1, <2>2 DEF w
<1>12. ASSUME FlushBegins \/ FlushEnds \/ Elapse PROVE PromiseStep
  <2>1. /\ obc'.mission = obc.mission /\ obc'.latched = obc.latched
        /\ obc'.profile.achieved = obc.profile.achieved
    <3>1. CASE FlushBegins \/ FlushEnds
      BY <3>1, <1>q DEF FlushBegins, FlushEnds, Publish, ObcState
    <3>2. CASE Elapse
      <4>1. /\ obc'.mission = Quiet.mission /\ obc'.latched = Quiet.latched
            /\ obc'.profile = ProfileElapse(Quiet.profile)
        BY <3>2, <1>q DEF Elapse, Elapsed, ObcState
      <4>2. ProfileElapse(Quiet.profile).achieved = Quiet.profile.achieved
        BY <1>q DEF ProfileElapse, ObcState, ProfileMachineState
      <4> QED BY <1>q, <4>1, <4>2
    <3> QED BY <1>12, <3>1, <3>2
  <2> QED BY <2>1, SinkMoves
<1>13. ASSUME Restart PROVE PromiseStep
  <2>1. Promise!Forgets
    BY <1>13 DEF Restart, InitObc, InitProfileMachine, Promise!Forgets
  <2> QED BY <2>1 DEF PromiseStep, Promise!PromiseNext
<1> QED BY <1>1, <1>2, <1>3, <1>4, <1>5, <1>6, <1>7, <1>8, <1>9, <1>10,
           <1>11, <1>12, <1>13 DEF Next

\* Obc implements the promise: whatever the battery, the bus, the ground and
\* the clock do, the mission state, the profile and the latch move only as
\* MissionPromise lets them (every handler of obc/service.py).
THEOREM PromiseIsImplemented == Spec => ImplementsPromise
<1>1. Init => Promise!PromiseInit
  BY DEF Init, InitObc, InitProfileMachine, Promise!PromiseInit
<1>2. Inv /\ [Next]_obc => [Promise!PromiseNext]_(Promise!promised)
  <2>1. ASSUME UNCHANGED obc PROVE UNCHANGED Promise!promised
    BY <2>1 DEF Promise!promised
  <2> QED BY <2>1, EveryStepIsPromised DEF PromiseStep
<1> QED BY <1>1, <1>2, InvInductive, PTL DEF Spec, ImplementsPromise, Promise!PromiseSpec

(***************************************************************************)
(* What a handler says.  Messages are only ever appended, and only the     *)
(* answer to the resume question asks a trip back.                         *)
(***************************************************************************)
Asks(m) == m.kind = "apply_profile" /\ m.resume

\* From o to q, messages that ask for no resume were appended.
Grows(o, q) ==
  /\ Len(o.out) <= Len(q.out)
  /\ \A i \in 1 .. Len(o.out) : q.out[i] = o.out[i]
  /\ \A i \in (Len(o.out) + 1) .. Len(q.out) : ~Asks(q.out[i])

\* And the resume question is where it was.
Speaks(o, q) == Grows(o, q) /\ q.resume = o.resume

\* Appending is transitive.
LEMMA GrowsTransitive ==
  ASSUME NEW a \in ObcState, NEW b \in ObcState, NEW c \in ObcState,
         Grows(a, b), Grows(b, c)
  PROVE  Grows(a, c)
<1>1. Len(a.out) \in Nat /\ Len(b.out) \in Nat /\ Len(c.out) \in Nat
  BY DEF ObcState
<1>2. \A i \in 1 .. Len(a.out) : c.out[i] = a.out[i]
  BY <1>1 DEF Grows
<1>3. \A i \in (Len(a.out) + 1) .. Len(c.out) : ~Asks(c.out[i])
  <2> TAKE i \in (Len(a.out) + 1) .. Len(c.out)
  <2>1. CASE i <= Len(b.out)
    BY <1>1, <2>1 DEF Grows
  <2>2. CASE i > Len(b.out)
    BY <1>1, <2>2 DEF Grows
  <2> QED BY <1>1, <2>1, <2>2
<1> QED BY <1>1, <1>2, <1>3 DEF Grows

\* So is speaking without touching the question.
LEMMA SpeaksTransitive ==
  ASSUME NEW a \in ObcState, NEW b \in ObcState, NEW c \in ObcState,
         Speaks(a, b), Speaks(b, c)
  PROVE  Speaks(a, c)
BY GrowsTransitive DEF Speaks

\* A method that publishes nothing grows nothing.
LEMMA SilentGrows ==
  ASSUME NEW o \in ObcState, NEW q, q.out = o.out
  PROVE  Grows(o, q)
<1>1. Len(o.out) \in Nat
  BY DEF ObcState
<1> QED BY <1>1 DEF Grows

\* Publishing a message that asks for nothing.
LEMMA PublishGrows ==
  ASSUME NEW o \in ObcState, NEW m, ~Asks(m)
  PROVE  Speaks(o, Publish(o, m))
<1> DEFINE q == Publish(o, m)
<1>1. q.out = Append(o.out, m) /\ q.resume = o.resume
  BY DEF Publish, ObcState
<1>2. o.out \in Seq(Message)
  BY DEF ObcState
<1> HIDE DEF q
<1>3. /\ Len(o.out) \in Nat /\ Len(q.out) = Len(o.out) + 1
      /\ q.out[Len(o.out) + 1] = m
      /\ \A i \in 1 .. Len(o.out) : q.out[i] = o.out[i]
  BY <1>1, <1>2
<1>4. Speaks(o, q)
  BY <1>1, <1>3 DEF Speaks, Grows
<1> QED BY <1>4 DEF q

\* The status snapshot and a governor request.
LEMMA StatusGrows ==
  ASSUME NEW o \in ObcState
  PROVE  /\ Speaks(o, PublishStatus(o))
         /\ Speaks(o, ReconcileGovernor(o))
<1>1. Speaks(o, PublishStatus(o))
  <2>1. ~Asks(StatusOf(o))
    BY DEF Asks, StatusOf
  <2> QED BY <2>1, PublishGrows DEF PublishStatus
<1>2. Speaks(o, ReconcileGovernor(o))
  <2>1. \A b \in BOOLEAN : /\ [o EXCEPT !.lowered = b] \in ObcState
                           /\ Speaks(o, [o EXCEPT !.lowered = b])
    <3> TAKE b \in BOOLEAN
    <3> DEFINE q == [o EXCEPT !.lowered = b]
    <3>1. q \in ObcState /\ q.out = o.out /\ q.resume = o.resume
      BY DEF ObcState
    <3> HIDE DEF q
    <3>2. Speaks(o, q)
      BY <3>1, SilentGrows DEF Speaks
    <3> QED BY <3>1, <3>2 DEF q
  <2>2. \A g \in Governors \cup {"powersave"} : \A q \in ObcState :
          /\ RequestGovernor(q, g) \in ObcState
          /\ Speaks(q, RequestGovernor(q, g))
    <3> TAKE g \in Governors \cup {"powersave"}
    <3> TAKE q \in ObcState
    <3> DEFINE m == [kind |-> "set_governor", governor |-> g]
    <3>1. m \in Message /\ ~Asks(m)
      BY DEF Message, Asks
    <3> QED BY <3>1, PublishType, PublishGrows DEF RequestGovernor
  <2>3. o.profile.achieved # None => GovernorOf[o.profile.achieved] \in Governors
    BY ProfileTable DEF ObcState, ProfileMachineState
  <2>4. Speaks(o, o)
    BY SilentGrows DEF Speaks
  <2>5. \A b \in BOOLEAN, g \in Governors \cup {"powersave"} :
          Speaks(o, RequestGovernor([o EXCEPT !.lowered = b], g))
    BY <2>1, <2>2, SpeaksTransitive
  <2> QED BY <2>1, <2>3, <2>4, <2>5 DEF ReconcileGovernor
<1> QED BY <1>1, <1>2

\* Firing a trigger.
LEMMA FireGrows ==
  ASSUME NEW o \in ObcState, NEW t \in Triggers
  PROVE  Speaks(o, Fire(o, t))
<1> DEFINE m == [o EXCEPT !.mission = Transitions[t].dest]
           p == PublishStatus(m)
<1>1. m \in ObcState /\ m.out = o.out /\ m.resume = o.resume
  BY TransitionsType DEF ObcState
<1> HIDE DEF m
<1>2. p \in ObcState /\ Speaks(m, p)
  BY <1>1, PublishStatusType, StatusGrows
<1> HIDE DEF p
<1>3. ReconcileGovernor(p) \in ObcState /\ Speaks(p, ReconcileGovernor(p))
  BY <1>2, ReconcileGovernorType, StatusGrows
<1>4. Speaks(o, m) /\ Speaks(o, o)
  BY <1>1, SilentGrows DEF Speaks
<1>5. Speaks(o, ReconcileGovernor(p))
  BY <1>1, <1>2, <1>3, <1>4, SpeaksTransitive
<1> QED BY <1>4, <1>5 DEF Fire, m, p

\* The methods that fire a trigger.
LEMMA DescentGrows ==
  ASSUME NEW o \in ObcState, NEW b \in BOOLEAN
  PROVE  /\ Speaks(o, EnterSafe(o, b))
         /\ Speaks(o, Recover(o, b))
         /\ Speaks(o, EnterCritical(o))
<1>0. /\ "enter_safe" \in Triggers /\ "recover" \in Triggers
      /\ "stand_down" \in Triggers /\ "enter_critical" \in Triggers
  BY DEF Triggers, Transitions
<1>1. Speaks(o, EnterSafe(o, b))
  <2> DEFINE f == Fire(o, "enter_safe")
  <2>1. f \in ObcState /\ Speaks(o, f)
    BY <1>0, FireType, FireGrows
  <2> HIDE DEF f
  <2>2. EnterSafe(o, b).out = f.out /\ EnterSafe(o, b).resume = f.resume
    BY <2>1 DEF EnterSafe, f, ObcState
  <2> QED BY <2>1, <2>2 DEF Speaks, Grows
<1>2. Speaks(o, Recover(o, b))
  <2> DEFINE u == [o EXCEPT !.latched = FALSE]
  <2>1. u \in ObcState /\ u.out = o.out /\ u.resume = o.resume
    BY DEF ObcState
  <2> HIDE DEF u
  <2>2. Speaks(u, Fire(u, "recover")) /\ Speaks(u, Fire(u, "stand_down"))
    BY <1>0, <2>1, FireGrows
  <2>3. Speaks(o, Fire(u, "recover")) /\ Speaks(o, Fire(u, "stand_down"))
    BY <2>1, <2>2 DEF Speaks, Grows
  <2>4. Speaks(o, o)
    BY SilentGrows DEF Speaks
  <2> QED BY <2>3, <2>4 DEF Recover, u
<1>3. Speaks(o, EnterCritical(o))
  <2> DEFINE f == Fire(o, "enter_critical")
             q == [f EXCEPT !.flushed = FALSE, !.flush = "started"]
  <2>1. f \in ObcState /\ Speaks(o, f)
    BY <1>0, FireType, FireGrows
  <2> HIDE DEF f
  <2>2. q.out = f.out /\ q.resume = f.resume
    BY <2>1 DEF ObcState
  <2>3. EnterCritical(o) = IF May(o.mission, "enter_critical") THEN q ELSE o
    BY DEF EnterCritical, f
  <2> HIDE DEF q
  <2>4. Speaks(o, q) /\ Speaks(o, o)
    BY <2>1, <2>2, SilentGrows DEF Speaks, Grows
  <2> QED BY <2>3, <2>4
<1> QED BY <1>1, <1>2, <1>3

\* The reconciliation.
LEMMA ReconcileGrows ==
  ASSUME NEW o \in ObcState, NEW absent \in BOOLEAN
  PROVE  Speaks(o, Reconcile(o, absent))
<1> DEFINE test   == Resweep(o.deploy, absent)
           closed == [o EXCEPT !.deploy = None]
           c      == CheckDeploy(o, absent)
<1>0. \A q \in ObcState : Speaks(q, q)
  BY SilentGrows DEF Speaks
<1>1. Speaks(o, c)
  <2>1. closed \in ObcState /\ closed.out = o.out /\ closed.resume = o.resume
    BY DEF ObcState
  <2>2. [o EXCEPT !.deploy = test].out = o.out
        /\ [o EXCEPT !.deploy = test].resume = o.resume
    BY DEF ObcState
  <2>3. Speaks(o, [o EXCEPT !.deploy = test])
    BY <2>2, SilentGrows DEF Speaks
  <2> HIDE DEF closed, test
  <2>4. "deploy_complete" \in Triggers
    BY DEF Triggers, Transitions
  <2>5. Speaks(closed, Fire(closed, "deploy_complete"))
        /\ Speaks(closed, EnterSafe(closed, TRUE))
    BY <2>1, <2>4, FireGrows, DescentGrows
  <2>6. Speaks(o, Fire(closed, "deploy_complete"))
        /\ Speaks(o, EnterSafe(closed, TRUE))
    BY <2>1, <2>5 DEF Speaks, Grows
  <2> QED BY <1>0, <2>3, <2>6 DEF CheckDeploy, closed, test
<1>2. c \in ObcState
  BY ReconcileType
<1> HIDE DEF c
<1>3. Speaks(c, CheckHealth(c)) /\ CheckHealth(c) \in ObcState
  BY <1>0, <1>2, DescentGrows, DescentTypes DEF CheckHealth
<1>4. Reconcile(o, absent) = CheckHealth(c)
  BY DEF Reconcile, c
<1> QED BY <1>1, <1>2, <1>3, <1>4, SpeaksTransitive

\* The next thing that is said is a status of `profile` in STANDBY.
Announces(o, q, profile) ==
  /\ Len(o.out) < Len(q.out)
  /\ LET m == q.out[Len(o.out) + 1]
     IN  m.kind = "status" /\ m.mission = "STANDBY" /\ m.profile = profile

\* What has been announced stays the first word.
LEMMA AnnouncedStays ==
  ASSUME NEW a \in ObcState, NEW b \in ObcState, NEW c \in ObcState, NEW profile,
         Announces(a, b, profile), Grows(b, c)
  PROVE  Announces(a, c, profile)
<1>1. Len(a.out) \in Nat /\ Len(b.out) \in Nat /\ Len(c.out) \in Nat
  BY DEF ObcState
<1>2. Len(a.out) + 1 \in 1 .. Len(b.out)
  BY <1>1 DEF Announces
<1>3. c.out[Len(a.out) + 1] = b.out[Len(a.out) + 1]
  BY <1>2 DEF Grows
<1> QED BY <1>1, <1>3 DEF Announces, Grows

\* A status published in STANDBY is such an announcement.
LEMMA StatusAnnounces ==
  ASSUME NEW o \in ObcState, o.mission = "STANDBY"
  PROVE  Announces(o, PublishStatus(o), o.profile.achieved)
<1>1. PublishStatus(o).out = Append(o.out, StatusOf(o)) /\ o.out \in Seq(Message)
  BY DEF PublishStatus, Publish, ObcState
<1>2. /\ Len(PublishStatus(o).out) = Len(o.out) + 1 /\ Len(o.out) \in Nat
      /\ PublishStatus(o).out[Len(o.out) + 1] = StatusOf(o)
  BY <1>1
<1> QED BY <1>2 DEF Announces, StatusOf

\* Standing down is announced before anything else is said.
LEMMA StandDownAnnounces ==
  ASSUME NEW o \in ObcState, o.mission # "CRITICAL"
  PROVE  /\ Speaks(o, PublishStatus(Fire(o, "stand_down")))
         /\ Announces(o, PublishStatus(Fire(o, "stand_down")), o.profile.achieved)
<1> DEFINE f == Fire(o, "stand_down")
           q == PublishStatus(f)
<1>0. "stand_down" \in Triggers /\ Transitions["stand_down"].dest = "STANDBY"
  BY DEF Triggers, Transitions
<1>1. f \in ObcState /\ Speaks(o, f)
  BY <1>0, FireType, FireGrows
<1>2. q \in ObcState /\ Speaks(f, q)
  BY <1>1, PublishStatusType, StatusGrows
<1>3. Speaks(o, q)
  BY <1>1, <1>2, SpeaksTransitive
<1>4. CASE ~May(o.mission, "stand_down")
  <2>1. o.mission = "STANDBY" /\ f = o
    BY <1>4 DEF May, Transitions, AllBut, ObcState, Fire
  <2>2. Announces(o, q, o.profile.achieved)
    BY <2>1, StatusAnnounces
  <2> QED BY <1>3, <2>2
<1>5. CASE May(o.mission, "stand_down")
  <2> DEFINE m == [o EXCEPT !.mission = "STANDBY"]
             p == PublishStatus(m)
  <2>1. /\ m \in ObcState /\ m.mission = "STANDBY" /\ m.out = o.out
        /\ m.profile = o.profile
    BY DEF ObcState, MissionState
  <2>2. f = ReconcileGovernor(p)
    BY <1>0, <1>5 DEF Fire
  <2> HIDE DEF m
  <2>3. p \in ObcState /\ Announces(m, p, o.profile.achieved)
    BY <2>1, PublishStatusType, StatusAnnounces
  <2>4. Announces(o, p, o.profile.achieved)
    BY <2>1, <2>3 DEF Announces
  <2> HIDE DEF p, f, q
  <2>5. Grows(p, f) /\ Grows(f, q)
    BY <1>2, <2>2, <2>3, StatusGrows DEF Speaks
  <2>6. Announces(o, f, o.profile.achieved)
    BY <1>1, <2>3, <2>4, <2>5, AnnouncedStays
  <2>7. Announces(o, q, o.profile.achieved)
    BY <1>1, <1>2, <2>5, <2>6, AnnouncedStays
  <2> QED BY <1>3, <2>7 DEF f, q
<1> QED BY <1>4, <1>5

\* _apply_profile_update leaves the resume question alone, and announces a new
\* profile from STANDBY first, unless the satellite is in CRITICAL.
LEMMA UpdateSpeaks ==
  ASSUME NEW o \in ObcState, NEW status \in HostStatus, NEW absent \in BOOLEAN,
         status.profile # None
  PROVE  LET q == ApplyProfileUpdate(o, status, absent)
         IN  /\ Speaks(o, q)
             /\ status.profile # o.profile.achieved /\ o.mission # "CRITICAL"
                  => Announces(o, q, status.profile)
<1> DEFINE profile  == status.profile
           p        == Observe(o.profile, profile, status.ttl)
           observed == [o EXCEPT !.profile = p]
           watch    == Watch(o.health, ServicesOf[profile])
           cleared  == [observed EXCEPT !.health = watch, !.deploy = None,
                                        !.latched = FALSE, !.lowered = FALSE]
           stood    == PublishStatus(Fire(cleared, "stand_down"))
           brought  == [Fire(stood, "begin_deploy") EXCEPT
                          !.deploy = Begin(profile, absent)]
<1>1. profile \in Profiles /\ status.ttl \in Ttls
  BY DEF HostStatus, Ttls
<1>2. p \in ProfileMachineState /\ p.achieved = profile
  <2>1. TRUE \in BOOLEAN /\ o.profile \in ProfileMachineState
    BY DEF ObcState
  <2> QED BY <1>1, <2>1, ProfileMachineTypes
<1>3. watch \in Monitor
  <2>1. ServicesOf[profile] \in SUBSET Services
    BY <1>1, ProfileTable
  <2>2. Eps \in Watchable /\ o.health \in Monitor
    BY DEF Watchable, ObcState
  <2> QED BY <2>1, <2>2, MonitorTypes
<1> HIDE DEF p, watch
<1>4. /\ observed \in ObcState /\ observed.out = o.out
      /\ observed.resume = o.resume
  BY <1>2 DEF ObcState
<1>5. /\ cleared \in ObcState /\ cleared.mission = o.mission
      /\ cleared.profile = p /\ cleared.out = o.out /\ cleared.resume = o.resume
  BY <1>2, <1>3 DEF ObcState
<1> HIDE DEF observed, cleared
<1>6. /\ stood \in ObcState /\ Speaks(o, stood)
      /\ o.mission # "CRITICAL" => Announces(o, stood, profile)
  <2> DEFINE f == Fire(cleared, "stand_down")
  <2>1. f \in ObcState /\ Speaks(cleared, f)
    BY <1>5, FireType, FireGrows DEF Triggers, Transitions
  <2>2. stood \in ObcState /\ Speaks(f, stood)
    BY <2>1, PublishStatusType, StatusGrows
  <2> HIDE DEF f, stood
  <2>3. Speaks(cleared, stood)
    BY <1>5, <2>1, <2>2, SpeaksTransitive
  <2>4. Speaks(o, stood)
    BY <1>5, <2>3 DEF Speaks, Grows
  <2>5. o.mission # "CRITICAL" => Announces(cleared, stood, profile)
    BY <1>2, <1>5, StandDownAnnounces DEF stood
  <2>6. o.mission # "CRITICAL" => Announces(o, stood, profile)
    BY <1>5, <2>5 DEF Announces
  <2> QED BY <2>2, <2>4, <2>6
<1> HIDE DEF stood
<1>7. LET b == BeginDeploy(stood, profile, absent)
      IN  b \in ObcState /\ Speaks(stood, b)
  <2> DEFINE f == Fire(stood, "begin_deploy")
  <2>1. f \in ObcState /\ Speaks(stood, f)
    BY <1>6, FireType, FireGrows DEF Triggers, Transitions
  <2>2. Begin(profile, absent) \in SelfTest
    BY <1>1, BeginType
  <2>3. /\ brought \in ObcState /\ brought.out = f.out
        /\ brought.resume = f.resume
    BY <2>1, <2>2 DEF ObcState
  <2> HIDE DEF brought, f
  <2>4. Speaks(stood, brought)
    BY <2>1, <2>3 DEF Speaks, Grows
  <2>5. /\ Reconcile(brought, absent) \in ObcState
        /\ Speaks(stood, Reconcile(brought, absent))
    BY <1>6, <2>3, <2>4, ReconcileType, ReconcileGrows, SpeaksTransitive
  <2>6. Speaks(stood, stood)
    BY <1>6, SilentGrows DEF Speaks
  <2> QED BY <1>6, <2>5, <2>6 DEF BeginDeploy, brought
<1>8. Speaks(o, PublishStatus(observed))
  <2>1. Speaks(observed, PublishStatus(observed))
    BY <1>4, StatusGrows
  <2> QED BY <1>4, <2>1 DEF Speaks, Grows
<1>9. ApplyProfileUpdate(o, status, absent) =
        IF profile = o.profile.achieved THEN PublishStatus(observed)
        ELSE IF profile \in ActiveProfiles /\ Matches(o.profile, profile)
             THEN BeginDeploy(stood, profile, absent)
             ELSE stood
  BY DEF ApplyProfileUpdate, Changed, stood, cleared, observed, p, watch, ObcState
<1> DEFINE b == BeginDeploy(stood, profile, absent)
<1> HIDE DEF b
<1>10. /\ Speaks(o, b)
       /\ o.mission # "CRITICAL" => Announces(o, b, profile)
  <2>1. b \in ObcState /\ Speaks(stood, b)
    BY <1>7 DEF b
  <2> QED BY <1>6, <2>1, SpeaksTransitive, AnnouncedStays DEF Speaks
<1> QED BY <1>6, <1>8, <1>9, <1>10 DEF b

(***************************************************************************)
(* The resume question.                                                    *)
(***************************************************************************)

\* A trip waits for its answer only while no answer has been given.
Question(o) == o.resume.candidate # None => o.resume.report = None

\* Any answer to the question closes it, in one status.
LEMMA ReportBootCloses ==
  ASSUME NEW o \in ObcState, NEW r \in Report
  PROVE  /\ Grows(o, ReportBoot(o, r))
         /\ ReportBoot(o, r).resume.candidate = None
         /\ ReportBoot(o, r).resume.report = r
         /\ \A i \in (Len(o.out) + 1) .. Len(ReportBoot(o, r).out) :
              /\ ReportBoot(o, r).out[i].kind = "status"
              /\ ReportBoot(o, r).out[i].profile = o.profile.achieved
<1> DEFINE m == [o EXCEPT !.resume = Answer(@, r)]
           q == PublishStatus(m)
<1>1. Answer(o.resume, r) \in ResumeState
  <2>1. 0 \in 0 .. EvidenceTimeout
    BY ResumeAssumption
  <2> QED BY <2>1 DEF ObcState, Answer, ResumeState
<1>2. /\ m \in ObcState /\ m.out = o.out /\ m.profile = o.profile
      /\ m.resume = Answer(o.resume, r)
  BY <1>1 DEF ObcState
<1>3. m.resume.candidate = None /\ m.resume.report = r
  BY <1>2 DEF Answer, ObcState, ResumeState
<1> HIDE DEF m
<1>4. Speaks(m, q)
  BY <1>2, StatusGrows
<1>5. /\ Len(q.out) = Len(o.out) + 1 /\ Len(o.out) \in Nat
      /\ q.out[Len(o.out) + 1] = StatusOf(m)
  <2>1. q.out = Append(o.out, StatusOf(m)) /\ o.out \in Seq(Message)
    BY <1>2 DEF PublishStatus, Publish, ObcState
  <2> QED BY <2>1
<1>6. StatusOf(m).kind = "status" /\ StatusOf(m).profile = o.profile.achieved
  BY <1>2 DEF StatusOf
<1> HIDE DEF q
<1>7. \A i \in (Len(o.out) + 1) .. Len(q.out) :
        q.out[i].kind = "status" /\ q.out[i].profile = o.profile.achieved
  BY <1>5, <1>6
<1>8. /\ Grows(o, q) /\ q.resume.candidate = None /\ q.resume.report = r
  BY <1>2, <1>3, <1>4 DEF Speaks, Grows
<1>9. ReportBoot(o, r) = q
  BY DEF ReportBoot, q, m
<1> QED BY <1>7, <1>8, <1>9

\* The first report of a boot opens the question or answers it.
LEMMA WeighOpens ==
  ASSUME NEW o \in ObcState, NEW status \in HostStatus, Question(o)
  PROVE  /\ Grows(o, WeighResume(o, status))
         /\ Question(WeighResume(o, status))
         /\ \A i \in (Len(o.out) + 1) .. Len(WeighResume(o, status).out) :
              WeighResume(o, status).out[i].profile = o.profile.achieved
         /\ \/ WeighResume(o, status).resume.candidate \in {o.resume.candidate, None}
            \/ /\ status.boot /\ Refusal(status.previous) = None
               /\ WeighResume(o, status).resume.candidate = status.previous
<1> DEFINE previous == status.previous
           a        == [o EXCEPT !.resume = Await(@, previous)]
<1>0. Len(o.out) \in Nat
  BY DEF ObcState
<1>1. Refusal(previous) # None => Refusal(previous) \in Report
  BY DEF Refusal, Report, Refusals
<1>2. a.out = o.out /\ a.resume = Await(o.resume, previous)
  BY DEF ObcState
<1>3. Unasked(o.resume) => Question(a) /\ a.resume.candidate = previous
  BY <1>2 DEF Question, Await, Unasked, ObcState, ResumeState
<1> HIDE DEF a
<1>4. CASE ~Unasked(o.resume) \/ ~status.boot
  <2>1. WeighResume(o, status) = o
    BY <1>4 DEF WeighResume
  <2> QED BY <1>0, <2>1, SilentGrows
<1>5. CASE Unasked(o.resume) /\ status.boot /\ Refusal(previous) # None
  <2>1. WeighResume(o, status) = ReportBoot(o, Refusal(previous))
    BY <1>5 DEF WeighResume
  <2> QED BY <1>1, <1>5, <2>1, ReportBootCloses DEF Question
<1>6. CASE Unasked(o.resume) /\ status.boot /\ Refusal(previous) = None
  <2>1. WeighResume(o, status) = a
    BY <1>6 DEF WeighResume, a
  <2> QED BY <1>0, <1>2, <1>3, <1>6, <2>1, SilentGrows
<1> QED BY <1>4, <1>5, <1>6

\* A request that is no resume.
LEMMA RequestGrows ==
  ASSUME NEW o \in ObcState, NEW profile, NEW ttl \in Ttls
  PROVE  Speaks(o, RequestProfile(o, profile, ttl, FALSE))
<1> SUFFICES ASSUME profile \in Profiles
             PROVE  Speaks(o, RequestProfile(o, profile, ttl, FALSE))
  BY SilentGrows DEF RequestProfile, Speaks
<1> DEFINE m == [o EXCEPT !.profile = Request(@, profile, FALSE)]
           a == [kind |-> "apply_profile", profile |-> profile,
                 ttl |-> RequestTtl(profile, ttl), resume |-> FALSE]
<1>1. m \in ObcState /\ m.out = o.out /\ m.resume = o.resume
  BY ProfileMachineTypes DEF ObcState
<1>2. ~Asks(a)
  BY DEF Asks
<1> HIDE DEF m, a
<1>3. Speaks(m, Publish(m, a))
  BY <1>1, <1>2, PublishGrows
<1>4. Speaks(o, Publish(m, a))
  BY <1>1, <1>3 DEF Speaks, Grows
<1> QED BY <1>4 DEF RequestProfile, m, a

\* The tick's own steps.
LEMMA TickGrows ==
  ASSUME NEW o \in ObcState, Question(o)
  PROVE  /\ Grows(o, RequestDefaultOnExpiry(o)) /\ Question(RequestDefaultOnExpiry(o))
         /\ Grows(o, ExpireResumeWait(o)) /\ Question(ExpireResumeWait(o))
         /\ Grows(o, SettleResume(o)) /\ Question(SettleResume(o))
         /\ RequestDefaultOnExpiry(o).resume.candidate = o.resume.candidate
         /\ ExpireResumeWait(o).resume.candidate \in {o.resume.candidate, None}
         /\ SettleResume(o).resume.candidate = o.resume.candidate
<1>0. Grows(o, o)
  BY SilentGrows
<1>1. /\ Grows(o, RequestDefaultOnExpiry(o)) /\ Question(RequestDefaultOnExpiry(o))
      /\ RequestDefaultOnExpiry(o).resume.candidate = o.resume.candidate
  <2> DEFINE m == [o EXCEPT !.profile.deadline = None]
  <2>1. [o.profile EXCEPT !.deadline = None] \in ProfileMachineState
    BY DEF ObcState, ProfileMachineState, Ttls
  <2>2. m \in ObcState /\ m.out = o.out /\ m.resume = o.resume
    BY <2>1 DEF ObcState
  <2> HIDE DEF m
  <2>3. Speaks(m, RequestProfile(m, DefaultProfile, None, FALSE))
    BY <2>2, RequestGrows DEF Ttls
  <2>4. Speaks(o, RequestProfile(m, DefaultProfile, None, FALSE))
    BY <2>2, <2>3 DEF Speaks, Grows
  <2> QED BY <1>0, <2>4 DEF RequestDefaultOnExpiry, m, Speaks, Question
<1>2. /\ Grows(o, ExpireResumeWait(o)) /\ Question(ExpireResumeWait(o))
      /\ ExpireResumeWait(o).resume.candidate \in {o.resume.candidate, None}
  <2>1. "noeps" \in Report
    BY DEF Report, Refusals
  <2>2. ExpireResumeWait(o) \in {o, ReportBoot(o, "noeps")}
    BY DEF ExpireResumeWait
  <2> QED BY <1>0, <2>1, <2>2, ReportBootCloses DEF Question
<1>3. /\ Grows(o, SettleResume(o)) /\ Question(SettleResume(o))
      /\ SettleResume(o).resume.candidate = o.resume.candidate
  <2> DEFINE m == [o EXCEPT !.resume.settle = None]
             a == [kind |-> "clear_resume"]
  <2>1. [o.resume EXCEPT !.settle = None] \in ResumeState
    BY DEF ObcState, ResumeState
  <2>2. /\ m \in ObcState /\ m.out = o.out
        /\ m.resume = [o.resume EXCEPT !.settle = None]
    BY <2>1 DEF ObcState
  <2>3. Question(m) /\ m.resume.candidate = o.resume.candidate
    BY <2>2 DEF Question, ObcState, ResumeState
  <2>4. ~Asks(a)
    BY DEF Asks
  <2> HIDE DEF m, a
  <2>5. Speaks(m, Publish(m, a))
    BY <2>2, <2>4, PublishGrows
  <2>6. /\ Grows(o, Publish(m, a)) /\ Question(Publish(m, a))
        /\ Publish(m, a).resume.candidate = o.resume.candidate
    BY <2>2, <2>3, <2>5 DEF Speaks, Grows, Question
  <2> QED BY <1>0, <2>6 DEF SettleResume, m, a
<1> QED BY <1>1, <1>2, <1>3

\* A mains reading answers the question, and only that answer asks the trip back.
LEMMA EvidenceAnswers ==
  ASSUME NEW o \in ObcState, NEW eps \in EpsStatus, Question(o)
  PROVE  LET w == ResumeOnEvidence(o, eps)
         IN  /\ Question(w)
             /\ w.resume.candidate \in {o.resume.candidate, None}
             /\ \/ Grows(o, w)
                \/ o.resume.candidate # None /\ w.resume.report = "resumed"
<1> DEFINE trip    == o.resume.candidate
           dropped == [o EXCEPT !.resume.candidate = None]
           asked   == RequestProfile(dropped, trip.profile, trip.ttl, TRUE)
           due     == [asked EXCEPT !.resume.settle = ResumeSettle]
<1>1. CASE o.resume.candidate = None \/ eps.external = None
  <2>1. None # TRUE /\ None # FALSE
    BY ProfileTable
  <2>2. ResumeOnEvidence(o, eps) = o
    BY <1>1, <2>1 DEF ResumeOnEvidence
  <2>3. Grows(o, o)
    BY SilentGrows
  <2> QED BY <2>2, <2>3
<1>2. CASE o.resume.candidate # None /\ eps.external = TRUE
  <2>1. "mains" \in Report
    BY DEF Report, Refusals
  <2>2. ResumeOnEvidence(o, eps) = ReportBoot(o, "mains")
    <3>1. None # TRUE
      BY ProfileTable
    <3> QED BY <1>2, <3>1 DEF ResumeOnEvidence
  <2> QED BY <2>1, <2>2, ReportBootCloses DEF Question
<1>3. CASE o.resume.candidate # None /\ eps.external = FALSE
  <2>1. dropped \in ObcState
    <3>1. [o.resume EXCEPT !.candidate = None] \in ResumeState
      BY DEF ObcState, ResumeState
    <3> QED BY <3>1 DEF ObcState
  <2>2. asked \in ObcState
    <3>1. trip.ttl \in Ttls
      BY <1>3 DEF ObcState, ResumeState, PreviousRun, Ttls
    <3> QED BY <2>1, <3>1, RequestProfileType
  <2> HIDE DEF asked
  <2>3. due \in ObcState
    <3>1. ResumeSettle \in 0 .. ResumeSettle
      BY ResumeAssumption
    <3>2. \A r \in ResumeState : [r EXCEPT !.settle = ResumeSettle] \in ResumeState
      BY <3>1 DEF ResumeState
    <3>3. asked.resume \in ResumeState
      BY <2>2 DEF ObcState
    <3>4. [asked.resume EXCEPT !.settle = ResumeSettle] \in ResumeState
      BY <3>2, <3>3
    <3> QED BY <2>2, <3>4 DEF ObcState
  <2>4. "resumed" \in Report
    BY DEF Report
  <2>5. ResumeOnEvidence(o, eps) = ReportBoot(due, "resumed")
    <3>1. None # FALSE
      BY ProfileTable
    <3> QED BY <1>3, <3>1 DEF ResumeOnEvidence, TakeResume, asked
  <2> HIDE DEF due
  <2> QED BY <1>3, <2>3, <2>4, <2>5, ReportBootCloses DEF Question
<1> QED BY <1>1, <1>2, <1>3 DEF EpsStatus

\* After that a reading only moves the mission.
LEMMA ReadingSpeaks ==
  ASSUME NEW o \in ObcState, NEW eps \in EpsStatus
  PROVE  Speaks(ResumeOnEvidence(o, eps), OnEpsStatus(o, eps))
<1> DEFINE w == ResumeOnEvidence(o, eps)
           q == OnEpsStatus(o, eps)
<1>1. w \in ObcState
  BY ResumeStepTypes
<1>2. q \in {EnterCritical(w), EnterSafe(w, FALSE),
             Fire(w, "enter_low_power"), Recover(w, TRUE), w}
  BY DEF OnEpsStatus
<1> HIDE DEF w, q
<1>3. "enter_low_power" \in Triggers
  BY DEF Triggers, Transitions
<1>4. /\ Speaks(w, EnterCritical(w)) /\ Speaks(w, EnterSafe(w, FALSE))
      /\ Speaks(w, Fire(w, "enter_low_power"))
      /\ Speaks(w, Recover(w, TRUE)) /\ Speaks(w, w)
  BY <1>1, <1>3, DescentGrows, FireGrows, SilentGrows DEF Speaks
<1> QED BY <1>2, <1>4 DEF w, q

(***************************************************************************)
(* One step per action, for what is said.                                  *)
(***************************************************************************)
Unanswered == Question(obc)

\* What a step may say and do to the question.
SpokenBy(o, q) ==
  /\ Question(q)
  /\ \/ Grows(o, q)
     \/ o.resume.candidate # None /\ q.resume.report = "resumed"

\* A step keeps the question; it asks a trip back only as the answer; and it
\* announces a new profile from STANDBY first.
LEMMA EveryStepSpeaks ==
  ASSUME TypeOK, Unanswered, Next
  PROVE  /\ Question(obc')
         /\ obc' = InitObc \/ SpokenBy(Quiet, obc')
         /\ \/ obc'.profile.achieved \in {obc.profile.achieved, None}
            \/ \E w \in ObcState :
                 /\ Announces(w, obc', obc'.profile.achieved)
                    \/ obc.mission = "CRITICAL"
                 /\ Grows(w, obc')
                 /\ \A i \in 1 .. Len(w.out) :
                      w.out[i].profile = obc.profile.achieved
<1> DEFINE Same == obc'.profile.achieved \in {obc.profile.achieved, None}
           Goal == Question(obc') /\ SpokenBy(Quiet, obc') /\ Same
<1>q. /\ Quiet \in ObcState /\ Question(Quiet) /\ Quiet.out = <<>>
      /\ Quiet.resume = obc.resume /\ Quiet.mission = obc.mission
      /\ Quiet.profile = obc.profile
  <2>1. obc \in ObcState /\ <<>> \in Seq(Message)
    BY DEF TypeOK
  <2>2. /\ Quiet \in ObcState /\ Quiet.resume = obc.resume /\ Quiet.out = <<>>
        /\ Quiet.mission = obc.mission /\ Quiet.profile = obc.profile
    BY <2>1 DEF Quiet, ObcState
  <2> QED BY <2>1, <2>2 DEF Unanswered, Question
<1> HIDE DEF Quiet
<1>t. obc' \in ObcState
  <2>1. TypeOK'
    BY NextType
  <2> QED BY <2>1 DEF TypeOK
\* A body, then the reconciliation, which leaves the question alone.
<1>r. ASSUME NEW q \in ObcState, NEW absent \in BOOLEAN, SpokenBy(Quiet, q),
             obc' = Reconcile(q, absent)
      PROVE  /\ Question(obc') /\ SpokenBy(Quiet, obc')
             /\ obc'.profile = q.profile /\ Speaks(q, obc')
  <2>1. Speaks(q, obc')
    BY <1>r, ReconcileGrows
  <2>2. obc'.profile = q.profile
    BY <1>r, ReconcileEffect DEF Settles
  <2>3. Question(obc')
    BY <1>r, <2>1 DEF SpokenBy, Speaks, Question
  <2>4. Grows(Quiet, q) => Grows(Quiet, obc')
    BY <1>q, <1>r, <1>t, <2>1, GrowsTransitive DEF Speaks
  <2>5. SpokenBy(Quiet, obc')
    BY <1>r, <2>1, <2>3, <2>4 DEF SpokenBy, Speaks
  <2> QED BY <2>1, <2>2, <2>3, <2>5
<1>s. ASSUME NEW q \in ObcState, NEW absent \in BOOLEAN, SpokenBy(Quiet, q),
             q.profile.achieved = obc.profile.achieved,
             obc' = Reconcile(q, absent)
      PROVE  Goal
  BY <1>r, <1>s
\* A body that publishes nothing and leaves the question and the profile.
<1>n. ASSUME NEW q \in ObcState, NEW absent \in BOOLEAN,
             q.out = Quiet.out, q.resume = Quiet.resume,
             q.profile.achieved = obc.profile.achieved,
             obc' = Reconcile(q, absent)
      PROVE  Goal
  <2>1. SpokenBy(Quiet, q)
    BY <1>q, <1>n, SilentGrows DEF SpokenBy, Question
  <2> QED BY <1>n, <1>s, <2>1
<1>1. ASSUME OnStart PROVE Goal
  <2> DEFINE q == [Quiet EXCEPT !.started = TRUE, !.health = Watch(@, {})]
  <2>1. Watch(Quiet.health, {}) \in Monitor
    BY <1>q, MonitorTypes DEF ObcState, Watchable
  <2>2. /\ q \in ObcState /\ q.out = Quiet.out /\ q.resume = Quiet.resume
        /\ q.profile = obc.profile
    BY <1>q, <2>1 DEF ObcState
  <2>3. "boot_complete" \in Triggers
    BY DEF Triggers, Transitions
  <2>4. obc' = Fire(q, "boot_complete")
    BY <1>1 DEF OnStart
  <2> HIDE DEF q
  <2>5. Speaks(q, obc') /\ obc'.profile = obc.profile
    BY <2>2, <2>3, <2>4, FireGrows, FireEffect
  <2>6. Speaks(Quiet, obc')
    BY <2>2, <2>5 DEF Speaks, Grows
  <2> QED BY <1>q, <2>5, <2>6 DEF Speaks, SpokenBy, Question
<1>2. ASSUME Tick PROVE Goal
  <2> DEFINE a == PublishStatus(Quiet)
             b == RequestDefaultOnExpiry(a)
             c == ExpireResumeWait(b)
             d == SettleResume(c)
  <2>1. a \in ObcState /\ Speaks(Quiet, a) /\ Agree(a, Quiet)
    BY <1>q, PublishStatusType, StatusGrows, RequestAgrees
  <2>2. Question(a)
    BY <1>q, <2>1 DEF Speaks, Question
  <2> HIDE DEF a
  <2>3. b \in ObcState /\ Grows(a, b) /\ Question(b) /\ Agree(b, a)
    BY <2>1, <2>2, ResumeStepTypes, ResumeAgrees, TickGrows
  <2> HIDE DEF b
  <2>4. c \in ObcState /\ Grows(b, c) /\ Question(c) /\ Agree(c, b)
    BY <2>3, ResumeStepTypes, ResumeAgrees, TickGrows
  <2> HIDE DEF c
  <2>5. d \in ObcState /\ Grows(c, d) /\ Question(d) /\ Agree(d, c)
    BY <2>4, ResumeStepTypes, ResumeAgrees, TickGrows
  <2> HIDE DEF d
  <2>6. Grows(Quiet, b)
    BY <1>q, <2>1, <2>3, GrowsTransitive DEF Speaks
  <2>7. Grows(Quiet, c)
    BY <1>q, <2>3, <2>4, <2>6, GrowsTransitive
  <2>8. Grows(Quiet, d)
    BY <1>q, <2>4, <2>5, <2>7, GrowsTransitive
  <2>9. d.profile.achieved = obc.profile.achieved
    BY <1>q, <2>1, <2>3, <2>4, <2>5 DEF Agree
  <2>10. \E absent \in BOOLEAN : obc' = Reconcile(d, absent)
    BY <1>2 DEF Tick, Ticked, a, b, c, d
  <2> QED BY <1>s, <2>5, <2>8, <2>9, <2>10 DEF SpokenBy
<1>3. ASSUME SetProfile PROVE Goal
  <2> SUFFICES ASSUME NEW profile \in Profiles \cup {None},
                      NEW ttl \in Minutes \cup {None}, NEW absent \in BOOLEAN,
                      obc' = Reconcile(RequestProfile(Quiet, profile, ttl, FALSE),
                                       absent)
               PROVE  Goal
    BY <1>3 DEF SetProfile
  <2> DEFINE q == RequestProfile(Quiet, profile, ttl, FALSE)
  <2>1. ttl \in Ttls
    BY ProfileMachineAssumption DEF Ttls
  <2>2. q \in ObcState /\ Agree(q, Quiet) /\ Speaks(Quiet, q)
    BY <1>q, <2>1, RequestProfileType, RequestAgrees, RequestGrows
  <2> HIDE DEF q
  <2>3. SpokenBy(Quiet, q) /\ q.profile.achieved = obc.profile.achieved
    BY <1>q, <2>2 DEF Speaks, SpokenBy, Question, Agree
  <2> QED BY <1>s, <2>2, <2>3 DEF q
<1>4. ASSUME SafeMode PROVE Goal
  <2> DEFINE q == EnterSafe(Quiet, TRUE)
  <2>1. /\ q \in ObcState /\ Speaks(Quiet, q) /\ q.profile = Quiet.profile
    BY <1>q, DescentTypes, DescentGrows, EnterSafeEffect
  <2>2. \E absent \in BOOLEAN : obc' = Reconcile(q, absent)
    BY <1>4 DEF SafeMode
  <2> HIDE DEF q
  <2>3. SpokenBy(Quiet, q)
    BY <1>q, <2>1 DEF Speaks, SpokenBy, Question
  <2> QED BY <1>q, <1>s, <2>1, <2>2, <2>3
<1>5. ASSUME RestartService PROVE Goal
  <2> SUFFICES ASSUME NEW s \in Watchable, NEW absent \in BOOLEAN,
                      obc' = Reconcile(
                        Publish([Quiet EXCEPT !.health = ExpectRestart(@, s)],
                                [kind |-> "restart_service", service |-> s]),
                        absent)
               PROVE  Goal
    BY <1>5 DEF RestartService
  <2> DEFINE e == [Quiet EXCEPT !.health = ExpectRestart(@, s)]
             m == [kind |-> "restart_service", service |-> s]
             q == Publish(e, m)
  <2>1. ExpectRestart(Quiet.health, s) \in Monitor
    BY <1>q, MonitorTypes DEF ObcState
  <2>2. /\ e \in ObcState /\ e.out = Quiet.out /\ e.resume = Quiet.resume
        /\ e.profile = obc.profile
    BY <1>q, <2>1 DEF ObcState
  <2>3. m \in Message /\ ~Asks(m)
    BY DEF Message, Asks
  <2> HIDE DEF e, m
  <2>4. q \in ObcState /\ Speaks(e, q) /\ q.profile = obc.profile
    BY <2>2, <2>3, PublishType, PublishGrows DEF Publish, ObcState
  <2>5. obc' = Reconcile(q, absent)
    BY DEF q, e, m
  <2> HIDE DEF q
  <2>6. SpokenBy(Quiet, q)
    BY <1>q, <2>2, <2>4 DEF Speaks, SpokenBy, Question, Grows
  <2> QED BY <1>s, <2>4, <2>5, <2>6
<1>6. ASSUME GroundRecover PROVE Goal
  <2> DEFINE q == Recover(Quiet, FALSE)
  <2>1. /\ q \in ObcState /\ Speaks(Quiet, q) /\ q.profile = Quiet.profile
    BY <1>q, DescentTypes, DescentGrows, RecoverEffect
  <2>2. \E absent \in BOOLEAN : obc' = Reconcile(q, absent)
    BY <1>6 DEF GroundRecover
  <2> HIDE DEF q
  <2>3. SpokenBy(Quiet, q)
    BY <1>q, <2>1 DEF Speaks, SpokenBy, Question
  <2> QED BY <1>q, <1>s, <2>1, <2>2, <2>3
<1>7. ASSUME EpsReports PROVE Goal
  <2> SUFFICES ASSUME NEW eps \in EpsStatus, NEW absent \in BOOLEAN,
                      obc' = Reconcile(OnEpsStatus(Quiet, eps), absent)
               PROVE  Goal
    BY <1>7, ObcAssumption DEF EpsReports
  <2> DEFINE w == ResumeOnEvidence(Quiet, eps)
             q == OnEpsStatus(Quiet, eps)
  <2>1. w \in ObcState /\ SpokenBy(Quiet, w)
    BY <1>q, ResumeStepTypes, EvidenceAnswers DEF SpokenBy
  <2>2. q \in ObcState /\ q.profile.achieved = obc.profile.achieved
    BY <1>q, HandlerTypes, ReadingEffect DEF Drawn
  <2>3. Speaks(w, q)
    BY <1>q, ReadingSpeaks
  <2> HIDE DEF w, q
  <2>4. SpokenBy(Quiet, q)
    <3>1. Grows(Quiet, w) => Grows(Quiet, q)
      BY <1>q, <2>1, <2>2, <2>3, GrowsTransitive DEF Speaks
    <3> QED BY <2>1, <2>3, <3>1 DEF SpokenBy, Speaks, Question
  <2> QED BY <1>s, <2>2, <2>4 DEF q
<1>9. ASSUME Heartbeat PROVE Goal
  <2> SUFFICES ASSUME NEW s \in Beating, NEW alive \in BOOLEAN,
                      NEW absent \in BOOLEAN,
                      obc' = Reconcile(
                        [Quiet EXCEPT !.health = IF alive THEN NoteAlive(@, s)
                                                 ELSE NoteGone(@, s)], absent)
               PROVE  Goal
    BY <1>9 DEF Heartbeat
  <2> DEFINE h == IF alive THEN NoteAlive(Quiet.health, s)
                  ELSE NoteGone(Quiet.health, s)
             q == [Quiet EXCEPT !.health = h]
  <2>1. s \in Watchable
    BY ObcAssumption
  <2>2. h \in Monitor
    BY <1>q, <2>1, MonitorTypes DEF ObcState
  <2>3. obc' = Reconcile(q, absent)
    BY <1>q DEF ObcState
  <2> HIDE DEF h
  <2>4. /\ q \in ObcState /\ q.out = Quiet.out /\ q.resume = Quiet.resume
        /\ q.profile.achieved = obc.profile.achieved
    BY <1>q, <2>2 DEF ObcState
  <2> HIDE DEF q
  <2> QED BY <1>n, <2>3, <2>4
<1>10. ASSUME SubsystemReports PROVE Goal
  <2> SUFFICES ASSUME NEW s \in Reporters \ {Dhs}, NEW absent \in BOOLEAN,
                      obc' = Reconcile(NoteReportFrom(Quiet, s), absent)
               PROVE  Goal
    BY <1>10 DEF SubsystemReports
  <2> DEFINE q == NoteReportFrom(Quiet, s)
  <2>1. q \in ObcState
    BY <1>q, HandlerTypes
  <2>2. /\ q.out = Quiet.out /\ q.resume = Quiet.resume
        /\ q.profile.achieved = obc.profile.achieved
    BY <1>q DEF NoteReportFrom, ObcState
  <2> HIDE DEF q
  <2> QED BY <1>n, <2>1, <2>2 DEF q
<1>11. ASSUME DhsReports PROVE Goal
  <2> SUFFICES ASSUME NEW b \in BOOLEAN \cup {None}, NEW absent \in BOOLEAN,
                      obc' = Reconcile(NoteReportFrom(OnDhsStatus(Quiet, b), Dhs),
                                       absent)
               PROVE  Goal
    BY <1>11 DEF DhsReports
  <2> DEFINE w == OnDhsStatus(Quiet, b)
             q == NoteReportFrom(w, Dhs)
  <2>1. w \in ObcState
    BY <1>q, HandlerTypes
  <2>2. /\ w.out = Quiet.out /\ w.resume = Quiet.resume
        /\ w.profile.achieved = obc.profile.achieved
    BY <1>q DEF OnDhsStatus, ObcState
  <2> HIDE DEF w
  <2>3. q \in ObcState
    BY <2>1, HandlerTypes
  <2>4. /\ q.out = Quiet.out /\ q.resume = Quiet.resume
        /\ q.profile.achieved = obc.profile.achieved
    BY <2>1, <2>2 DEF NoteReportFrom, ObcState
  <2> HIDE DEF q
  <2> QED BY <1>n, <2>3, <2>4 DEF q, w
<1>12. ASSUME FlushBegins \/ FlushEnds \/ Elapse PROVE Goal
  <2>1. CASE FlushBegins
    <3>1. /\ obc'.out = Quiet.out /\ obc'.resume = Quiet.resume
          /\ obc'.profile = obc.profile
      BY <1>q, <2>1 DEF FlushBegins, ObcState
    <3> QED BY <1>q, <3>1, SilentGrows DEF SpokenBy, Question
  <2>2. CASE FlushEnds
    <3> DEFINE e == [Quiet EXCEPT !.flush = "done"]
               m == [kind |-> "poweroff"]
    <3>1. /\ e \in ObcState /\ e.out = Quiet.out /\ e.resume = Quiet.resume
          /\ e.profile = obc.profile
      BY <1>q DEF ObcState
    <3>2. ~Asks(m) /\ obc' = Publish(e, m)
      BY <2>2 DEF Asks, FlushEnds
    <3> HIDE DEF e, m
    <3>3. Speaks(e, obc') /\ obc'.profile = obc.profile
      BY <3>1, <3>2, PublishGrows DEF Publish, ObcState
    <3> QED BY <1>q, <3>1, <3>3 DEF Speaks, SpokenBy, Question, Grows
  <2>3. CASE Elapse
    <3>1. /\ obc'.out = Quiet.out /\ obc'.resume = ResumeElapse(Quiet.resume)
          /\ obc'.profile = ProfileElapse(Quiet.profile)
      BY <1>q, <2>3 DEF Elapse, Elapsed, ObcState
    <3>2. /\ ResumeElapse(Quiet.resume).candidate = Quiet.resume.candidate
          /\ ResumeElapse(Quiet.resume).report = Quiet.resume.report
      BY <1>q DEF ResumeElapse, ObcState, ResumeState
    <3>3. ProfileElapse(Quiet.profile).achieved = Quiet.profile.achieved
      BY <1>q DEF ProfileElapse, ObcState, ProfileMachineState
    <3> QED BY <1>q, <3>1, <3>2, <3>3, SilentGrows DEF SpokenBy, Question
  <2> QED BY <1>12, <2>1, <2>2, <2>3
<1>13. ASSUME Restart
       PROVE  Question(obc') /\ obc' = InitObc /\ Same
  BY <1>13 DEF Restart, InitObc, InitProfileMachine, InitResume, Question
<1> HIDE DEF Same
<1>8. ASSUME HostdReports
      PROVE  /\ Question(obc') /\ SpokenBy(Quiet, obc')
             /\ \/ Same
                \/ \E w \in ObcState :
                     /\ Announces(w, obc', obc'.profile.achieved)
                        \/ obc.mission = "CRITICAL"
                     /\ Grows(w, obc')
                     /\ \A i \in 1 .. Len(w.out) :
                          w.out[i].profile = obc.profile.achieved
  <2> SUFFICES ASSUME NEW status \in HostStatus, NEW absent \in BOOLEAN,
                      obc' = Reconcile(OnHostStatus(Quiet, status, absent), absent)
               PROVE  /\ Question(obc') /\ SpokenBy(Quiet, obc')
                      /\ \/ Same
                         \/ \E w \in ObcState :
                              /\ Announces(w, obc', obc'.profile.achieved)
                                 \/ obc.mission = "CRITICAL"
                              /\ Grows(w, obc')
                              /\ \A i \in 1 .. Len(w.out) :
                                   w.out[i].profile = obc.profile.achieved
    BY <1>8, ObcAssumption DEF HostdReports
  <2> DEFINE w == WeighResume(Quiet, status)
             q == ApplyProfileUpdate(w, status, absent)
  <2>1. w \in ObcState /\ Agree(w, Quiet) /\ Grows(Quiet, w) /\ Question(w)
    BY <1>q, ResumeStepTypes, ResumeAgrees, WeighOpens
  <2>2. \A i \in 1 .. Len(w.out) : w.out[i].profile = obc.profile.achieved
    <3>1. Len(Quiet.out) + 1 = 1
      BY <1>q
    <3>2. \A i \in (Len(Quiet.out) + 1) .. Len(w.out) :
            w.out[i].profile = Quiet.profile.achieved
      BY <1>q, WeighOpens
    <3> QED BY <1>q, <3>1, <3>2
  <2>3. obc' = Reconcile(IF status.profile = None THEN w ELSE q, absent)
    BY DEF OnHostStatus
  <2>4. w.profile.achieved = obc.profile.achieved /\ w.mission = obc.mission
    BY <1>q, <2>1 DEF Agree
  <2> HIDE DEF w
  <2>5. CASE status.profile = None
    <3>1. SpokenBy(Quiet, w)
      BY <2>1 DEF SpokenBy
    <3> QED BY <1>s, <2>1, <2>3, <2>4, <2>5, <3>1
  <2>6. CASE status.profile # None
    <3>1. q \in ObcState /\ Speaks(w, q)
      BY <2>1, <2>6, ApplyProfileUpdateType, UpdateSpeaks
    <3>2. status.profile # obc.profile.achieved /\ obc.mission # "CRITICAL" =>
            Announces(w, q, status.profile)
      BY <2>1, <2>4, <2>6, UpdateSpeaks
    <3>3. q.profile.achieved = status.profile
      BY <2>1, <2>4, <2>6, UpdateEffect DEF Switched
    <3> HIDE DEF q
    <3>4. SpokenBy(Quiet, q)
      <4>1. Grows(Quiet, q)
        BY <1>q, <2>1, <3>1, GrowsTransitive DEF Speaks
      <4> QED BY <2>1, <3>1, <4>1 DEF SpokenBy, Speaks, Question
    <3>5. /\ Question(obc') /\ SpokenBy(Quiet, obc')
          /\ obc'.profile = q.profile /\ Speaks(q, obc')
      BY <1>r, <2>3, <2>6, <3>1, <3>4
    <3>6. Grows(w, obc')
      BY <1>t, <2>1, <3>1, <3>5, GrowsTransitive DEF Speaks
    <3>7. CASE status.profile = obc.profile.achieved
      BY <3>3, <3>5, <3>7 DEF Same
    <3>8. CASE status.profile # obc.profile.achieved
      <4>1. Announces(w, obc', status.profile) \/ obc.mission = "CRITICAL"
        BY <1>t, <2>1, <3>1, <3>2, <3>5, <3>8, AnnouncedStays DEF Speaks
      <4> QED BY <2>1, <2>2, <3>3, <3>5, <3>6, <4>1
    <3> QED BY <3>7, <3>8
  <2> QED BY <2>5, <2>6
<1> QED BY <1>1, <1>2, <1>3, <1>4, <1>5, <1>6, <1>7, <1>8, <1>9, <1>10, <1>11,
           <1>12, <1>13 DEF Next, Same

\* The invariant with the question: what ResumeAskedOnce needs of the state
\* before a step is that a waiting trip has not been answered.
LEMMA QuestionInductive == Spec => []Unanswered
<1>1. Init => Unanswered
  BY DEF Init, InitObc, InitResume, Unanswered, Question
<1>2. Inv /\ Unanswered /\ [Next]_obc => Unanswered'
  <2> SUFFICES ASSUME Inv, Unanswered, [Next]_obc PROVE Question(obc')
    BY DEF Unanswered
  <2> QED BY EveryStepSpeaks DEF Inv, Unanswered, Question
<1> QED BY <1>1, <1>2, InvInductive, PTL DEF Spec

\* In one life of the process a trip is asked back at most once, as the answer
\* to the question a boot left open: an answered question is never reopened
\* and no other handler sends a resume (_weigh_resume, _take_resume).
THEOREM ResumeIsAskedOnce == Spec => ResumeAskedOnce
<1>1. Inv /\ Unanswered /\ [Next]_obc =>
        [ ResumesIn(obc'.out) # {}
          => /\ obc.resume.report = None /\ obc'.resume.report = "resumed"
             /\ obc.resume.candidate # None ]_obc
  <2> SUFFICES ASSUME Inv, Unanswered, Next, ResumesIn(obc'.out) # {}
               PROVE  /\ obc.resume.report = None
                      /\ obc'.resume.report = "resumed"
                      /\ obc.resume.candidate # None
    OBVIOUS
  <2>1. obc \in ObcState /\ obc' \in ObcState
    BY NextType DEF Inv, TypeOK
  <2>2. Quiet.out = <<>> /\ Quiet.resume = obc.resume
    BY <2>1 DEF Quiet, ObcState
  <2>3. DOMAIN obc'.out = 1 .. Len(obc'.out)
    BY <2>1 DEF ObcState
  <2>4. obc' # InitObc
    BY DEF InitObc, ResumesIn
  <2>5. ~Grows(Quiet, obc')
    BY <2>2, <2>3 DEF Grows, ResumesIn, Asks
  <2>6. SpokenBy(Quiet, obc')
    BY <2>4, EveryStepSpeaks DEF Inv
  <2> QED BY <2>2, <2>5, <2>6 DEF SpokenBy, Unanswered, Question
<1> QED BY <1>1, InvInductive, QuestionInductive, PTL DEF Spec, ResumeAskedOnce

\* A new profile is first heard of in STANDBY: DHS closes the mission of the
\* old profile before the new one flies, however the handler goes on
\* (_apply_profile_update stands down and publishes before it begins a
\* bring-up or finds a fault).
THEOREM SwitchIsAnnounced == Spec => SwitchStartsFromStandby
<1>1. Inv /\ Unanswered /\ [Next]_obc =>
        [ Achieved' \notin {Achieved, None} /\ Mission # "CRITICAL"
          => LET news == StatusesOf(Achieved', obc'.out)
             IN  \E first \in news :
                   /\ \A i \in news : first <= i
                   /\ obc'.out[first].mission = "STANDBY" ]_obc
  <2> DEFINE new  == obc'.profile.achieved
             news == StatusesOf(new, obc'.out)
  <2> SUFFICES ASSUME Inv, Unanswered, Next,
                      new \notin {obc.profile.achieved, None},
                      obc.mission # "CRITICAL"
               PROVE  \E first \in news : /\ \A i \in news : first <= i
                                          /\ obc'.out[first].mission = "STANDBY"
    BY DEF Achieved, Mission
  <2>1. obc' \in ObcState
    BY NextType DEF Inv, TypeOK
  <2>2. DOMAIN obc'.out = 1 .. Len(obc'.out) /\ Len(obc'.out) \in Nat
    BY <2>1 DEF ObcState
  <2>3. PICK w \in ObcState :
          /\ Announces(w, obc', new)
          /\ Grows(w, obc')
          /\ \A i \in 1 .. Len(w.out) : w.out[i].profile = obc.profile.achieved
    BY EveryStepSpeaks DEF Inv
  <2> DEFINE first == Len(w.out) + 1
  <2>4. Len(w.out) \in Nat
    BY DEF ObcState
  <2>5. first \in news /\ obc'.out[first].mission = "STANDBY"
    BY <2>2, <2>3, <2>4 DEF Announces, StatusesOf
  <2>6. \A i \in 1 .. Len(w.out) : obc'.out[i].profile # new
    BY <2>3 DEF Grows
  <2>7. \A i \in news : first <= i
    BY <2>2, <2>4, <2>6 DEF StatusesOf
  <2> QED BY <2>5, <2>7
<1> QED BY <1>1, InvInductive, QuestionInductive, PTL
        DEF Spec, SwitchStartsFromStandby, Achieved, Mission

================================================================================
