--------------------------- MODULE ObcHostd_proofs ---------------------------
(***************************************************************************)
(* Proofs about OBC and HOSTD over the broker, for every length of the     *)
(* queues and any number of deaths: what the two processes do is read from *)
(* the lemmas about each, and what is proved here is what the topics, the  *)
(* retained status and the deaths make of it.                              *)
(***************************************************************************)
EXTENDS ObcHostd, ObcPromise_proofs, Hostd_proofs, WellFoundedInduction

(***************************************************************************)
(* The actions OBC has published.                                          *)
(***************************************************************************)

\* A set of numbers that has zero, and with a number below n the next one,
\* reaches n.
LEMMA CountingUp ==
  ASSUME NEW n \in Nat, NEW S, 0 \in S,
         \A k \in 0 .. (n - 1) : k \in S => k + 1 \in S
  PROVE  \A k \in 0 .. n : k \in S
<1> DEFINE T == {k \in 0 .. n : k \notin S}
<1>1. SUFFICES ASSUME T # {} PROVE FALSE
  OBVIOUS
<1>2. T \subseteq Nat
  OBVIOUS
<1>3. \E k \in T : \A j \in T : ~(<<j, k>> \in OpToRel(<, Nat))
  <2> HIDE DEF T
  <2> QED BY <1>1, <1>2, WFMin, NatLessThanWellFounded, Zenon
<1>4. PICK k \in T : \A j \in T : ~(j < k)
  BY <1>2, <1>3 DEF OpToRel
<1>5. k # 0 /\ k - 1 \in 0 .. (n - 1) /\ k - 1 \notin T
  BY <1>4
<1> QED BY <1>5

\* What is among the first n messages, from what is among the first n - 1.
Among(f, out, n) ==
  IF n = 0 THEN <<>>
  ELSE IF out[n].kind = "status" THEN f[n - 1]
  ELSE Append(f[n - 1], out[n])

IsAmong(f, out, k) == f = [n \in 0 .. k |-> Among(f, out, n)]

\* The actions among the messages are counted up from none.
LEMMA ActionsAreAmong ==
  ASSUME NEW out, Len(out) \in Nat
  PROVE  \E f : IsAmong(f, out, Len(out)) /\ ActionsOf(out) = f[Len(out)]
<1> DEFINE S == {k \in 0 .. Len(out) : \E f : IsAmong(f, out, k)}
<1>1. 0 \in S
  <2> DEFINE f == [n \in 0 .. 0 |-> <<>>]
  <2>1. f = [n \in 0 .. 0 |-> Among(f, out, n)]
    BY DEF Among
  <2> QED BY <2>1 DEF IsAmong
<1>2. ASSUME NEW k \in 0 .. (Len(out) - 1), k \in S
      PROVE  k + 1 \in S
  <2>1. PICK f : IsAmong(f, out, k)
    BY <1>2
  <2> DEFINE g == [n \in 0 .. (k + 1) |-> IF n = k + 1 THEN Among(f, out, n) ELSE f[n]]
  <2>2. \A n \in 0 .. k : g[n] = f[n] /\ f[n] = Among(f, out, n)
    BY <2>1 DEF IsAmong
  <2>3. \A n \in 0 .. (k + 1) : Among(g, out, n) = Among(f, out, n)
    <3> HIDE DEF g
    <3>1. \A n \in 0 .. (k + 1) : n # 0 => g[n - 1] = f[n - 1]
      BY <2>2
    <3> QED BY <3>1 DEF Among
  <2>4. \A n \in 0 .. (k + 1) : g[n] = Among(g, out, n)
    BY <2>2, <2>3
  <2>5. g = [n \in 0 .. (k + 1) |-> Among(g, out, n)]
    BY <2>4
  <2>6. IsAmong(g, out, k + 1)
    BY <2>5 DEF IsAmong
  <2>7. k + 1 \in 0 .. Len(out)
    OBVIOUS
  <2> HIDE DEF g
  <2> QED BY <2>6, <2>7
<1>3. \E f : IsAmong(f, out, Len(out))
  <2>1. \A k \in 0 .. (Len(out) - 1) : k \in S => k + 1 \in S
    BY <1>2
  <2>2. \A k \in 0 .. Len(out) : k \in S
    <3> HIDE DEF S
    <3> QED BY <1>1, <2>1, CountingUp
  <2>3. Len(out) \in 0 .. Len(out)
    OBVIOUS
  <2> QED BY <2>2, <2>3
<1> DEFINE among == CHOOSE f : f = [n \in 0 .. Len(out) |->
                                      IF n = 0 THEN <<>>
                                      ELSE IF out[n].kind = "status" THEN f[n - 1]
                                      ELSE Append(f[n - 1], out[n])]
<1>4. \A f : IsAmong(f, out, Len(out)) <=>
               f = [n \in 0 .. Len(out) |->
                      IF n = 0 THEN <<>>
                      ELSE IF out[n].kind = "status" THEN f[n - 1]
                      ELSE Append(f[n - 1], out[n])]
  BY DEF IsAmong, Among
<1>5. IsAmong(among, out, Len(out))
  BY <1>3, <1>4
<1>6. ActionsOf(out) = among[Len(out)]
  BY DEF ActionsOf
<1> QED BY <1>5, <1>6

\* They are what was published and is no status.
LEMMA ActionsType ==
  ASSUME NEW S, NEW out \in Seq(Message),
         \A i \in 1 .. Len(out) : out[i].kind # "status" => out[i] \in S
  PROVE  ActionsOf(out) \in Seq(S)
<1>1. Len(out) \in Nat
  OBVIOUS
<1>2. PICK f : IsAmong(f, out, Len(out)) /\ ActionsOf(out) = f[Len(out)]
  BY <1>1, ActionsAreAmong
<1> DEFINE L == Len(out)
           T == {k \in 0 .. L : f[k] \in Seq(S)}
<1> HIDE DEF L
<1>3. L \in Nat /\ \A n \in 0 .. L : f[n] = Among(f, out, n)
  BY <1>1, <1>2 DEF IsAmong, L
<1>4. 0 \in T
  <2>1. 0 \in 0 .. L /\ f[0] = <<>>
    BY <1>3 DEF Among
  <2>2. f[0] \in Seq(S)
    BY <2>1
  <2> QED BY <2>1, <2>2
<1>5. ASSUME NEW k \in 0 .. (L - 1), k \in T
      PROVE  k + 1 \in T
  <2>1. k + 1 \in 0 .. L /\ k + 1 \in 1 .. L /\ f[k] \in Seq(S)
    BY <1>3, <1>5
  <2>2. f[k + 1] = IF out[k + 1].kind = "status" THEN f[k]
                   ELSE Append(f[k], out[k + 1])
    BY <1>3, <2>1 DEF Among
  <2>3. out[k + 1].kind # "status" => out[k + 1] \in S
    BY <2>1 DEF L
  <2>4. f[k + 1] \in Seq(S)
    BY <2>1, <2>2, <2>3
  <2> QED BY <2>1, <2>4
<1>6. L \in T
  <2>1. \A k \in 0 .. (L - 1) : k \in T => k + 1 \in T
    BY <1>5
  <2>2. \A k \in 0 .. L : k \in T
    <3> HIDE DEF T
    <3> QED BY <1>3, <1>4, <2>1, CountingUp
  <2>3. L \in 0 .. L
    BY <1>3
  <2> QED BY <2>2, <2>3
<1> QED BY <1>2, <1>6 DEF L

(***************************************************************************)
(* What is on its way.                                                     *)
(***************************************************************************)

\* What OBC may send: it names the profile it asks for.
Orders == {a \in Action : a.kind = "apply_profile" => a \in Named}

\* Both processes and everything between them have their types.
LinkTypeOK ==
  /\ TypeOK /\ HostTypeOK
  /\ toHost \in Seq(Orders)
  /\ toObc \in Seq(HostStatus)
  /\ retained \in HostStatus \cup {None}

\* Whatever OBC publishes for HOSTD is an action HOSTD has.
LEMMA MessagesAreOrders ==
  ASSUME NEW m \in Message, m.kind # "status"
  PROVE  m \in Orders
<1>1. CASE m \in [kind: {"status"}, mission: MissionState,
                  profile: Profiles \cup {None}, resumed: BOOLEAN, report: Report]
  BY <1>1
<1>2. CASE m \in [kind: {"set_governor"}, governor: Governors \cup {"powersave"}]
  <2>1. Governors \cup {"powersave"} = Governors
    BY ObcHostdAssumption
  <2> QED BY <1>2, <2>1 DEF Action, Orders
<1>3. CASE m \in [kind: {"apply_profile"}, profile: Profiles, ttl: Nat \cup {None},
                  resume: BOOLEAN]
  <2>1. m \in [kind: {"apply_profile"}, profile: Profiles \cup {None},
               ttl: Nat \cup {None}, resume: BOOLEAN]
    BY <1>3
  <2>2. m \in Named
    BY <1>3, <2>1, ProfileTable DEF Named, Applications
  <2> QED BY <2>1, <2>2 DEF Action, Orders
<1>4. CASE m \in [kind: {"restart_service"}, service: Watchable]
  BY <1>4 DEF Action, Orders
<1>5. CASE m \in [kind: {"clear_resume", "poweroff"}]
  BY <1>5 DEF Action, Orders
<1> QED BY <1>1, <1>2, <1>3, <1>4, <1>5 DEF Message

\* So the topic holds nothing else.
LEMMA RelayType ==
  ASSUME LinkTypeOK, obc' \in ObcState, Relay
  PROVE  toHost' \in Seq(Orders)
<1>1. obc'.out \in Seq(Message)
  BY DEF ObcState
<1>2. ActionsOf(obc'.out) \in Seq(Orders)
  <2> DEFINE out == obc'.out
  <2>1. \A i \in 1 .. Len(out) : out[i] \in Message
    BY <1>1
  <2>2. \A i \in 1 .. Len(out) : out[i].kind # "status" => out[i] \in Orders
    BY <2>1, MessagesAreOrders
  <2> HIDE DEF out
  <2>3. out \in Seq(Message)
    BY <1>1 DEF out
  <2>4. ActionsOf(out) \in Seq(Orders)
    BY <2>2, <2>3, ActionsType
  <2> QED BY <2>4 DEF out
<1> QED BY <1>2 DEF Relay, Relayed, LinkTypeOK

\* A handler that is given a status, and the reconciliation at its end.
LEMMA StatusIsTaken ==
  ASSUME NEW o \in ObcState, NEW status \in HostStatus, NEW absent \in BOOLEAN
  PROVE  LET q == Reconcile(OnHostStatus(o, status, absent), absent)
         IN  /\ q \in ObcState
             /\ q.profile.achieved = IF status.profile = None THEN o.profile.achieved
                                     ELSE status.profile
<1> DEFINE w == WeighResume(o, status)
           u == ApplyProfileUpdate(w, status, absent)
           n == OnHostStatus(o, status, absent)
<1>1. w \in ObcState /\ w.profile.achieved = o.profile.achieved
  BY ResumeStepTypes, ResumeAgrees DEF Agree
<1>2. n \in ObcState
  BY HandlerTypes
<1>3. n = IF status.profile = None THEN w ELSE u
  BY DEF OnHostStatus
<1> HIDE DEF w
<1>4. ASSUME status.profile # None
      PROVE  u.profile.achieved = status.profile
  <2>1. IF status.profile = w.profile.achieved
        THEN u.profile.achieved = w.profile.achieved
        ELSE Switched(w, u, status.profile)
    BY <1>1, <1>4, UpdateEffect
  <2> HIDE DEF u
  <2> QED BY <2>1 DEF Switched
<1>5. n.profile.achieved = IF status.profile = None THEN o.profile.achieved
                           ELSE status.profile
  BY <1>1, <1>3, <1>4
<1> HIDE DEF n, u
<1>6. Reconcile(n, absent) \in ObcState /\ Reconcile(n, absent).profile = n.profile
  BY <1>2, ReconcileType, ReconcileEffect DEF Settles
<1> QED BY <1>5, <1>6 DEF n

\* It asks no trip back, and opens the question only for what HOSTD found at
\* its start.
LEMMA StatusSpeaks ==
  ASSUME NEW o \in ObcState, Question(o),
         NEW status \in HostStatus, NEW absent \in BOOLEAN
  PROVE  LET q == Reconcile(OnHostStatus(o, status, absent), absent)
         IN  /\ Question(q) /\ Grows(o, q)
             /\ \/ q.resume.candidate \in {o.resume.candidate, None}
                \/ /\ status.boot /\ Refusal(status.previous) = None
                   /\ q.resume.candidate = status.previous
<1> DEFINE w == WeighResume(o, status)
           n == OnHostStatus(o, status, absent)
<1>1. /\ w \in ObcState /\ Grows(o, w) /\ Question(w)
      /\ \/ w.resume.candidate \in {o.resume.candidate, None}
         \/ /\ status.boot /\ Refusal(status.previous) = None
            /\ w.resume.candidate = status.previous
  BY ResumeStepTypes, WeighOpens
<1>2. n \in ObcState
  BY HandlerTypes
<1>3. n = IF status.profile = None THEN w ELSE ApplyProfileUpdate(w, status, absent)
  BY DEF OnHostStatus
<1> HIDE DEF w, n
<1>4. Speaks(w, n)
  BY <1>1, <1>3, SilentGrows, UpdateSpeaks DEF Speaks
<1>5. Reconcile(n, absent) \in ObcState /\ Speaks(n, Reconcile(n, absent))
  BY <1>2, ReconcileType, ReconcileGrows
<1>6. Grows(o, Reconcile(n, absent))
  BY <1>1, <1>2, <1>4, <1>5, GrowsTransitive DEF Speaks
<1> QED BY <1>1, <1>4, <1>5, <1>6 DEF Speaks, Question, n

\* What OBC does of its own accord: everything but the arrival of a status.
OwnStep == OnStart \/ Tick \/ SetProfile \/ GroundRecover \/ EpsReports

\* It touches neither what OBC has been told nor, but for dropping it, the
\* trip that waits.
LEMMA OwnStepsKeep ==
  ASSUME TypeOK, Unanswered, OwnStep
  PROVE  /\ Achieved' = Achieved
         /\ obc'.resume.candidate \in {obc.resume.candidate, None}
<1> DEFINE Keeps(q) == /\ q \in ObcState /\ Question(q)
                       /\ q.profile.achieved = obc.profile.achieved
                       /\ q.resume.candidate \in {obc.resume.candidate, None}
<1>q. Keeps(Quiet)
  <2>1. obc \in ObcState /\ <<>> \in Seq(Message)
    BY DEF TypeOK
  <2> QED BY <2>1 DEF Quiet, ObcState, Unanswered, Question
<1>r. \A q \in ObcState, absent \in BOOLEAN :
        Keeps(q) => Keeps(Reconcile(q, absent))
  <2> TAKE q \in ObcState, absent \in BOOLEAN
  <2>1. Reconcile(q, absent) \in ObcState
    BY ReconcileType
  <2>2. Reconcile(q, absent).profile = q.profile
    <3>1. Settles(q, Reconcile(q, absent))
      BY ReconcileEffect
    <3> QED BY <3>1 DEF Settles
  <2>3. Reconcile(q, absent).resume = q.resume
    BY ReconcileGrows DEF Speaks
  <2> QED BY <2>1, <2>2, <2>3 DEF Question
\* A step that leaves the question alone, and the profile in use.
<1>s. \A o, q \in ObcState :
        Keeps(o) /\ Speaks(o, q) /\ q.profile.achieved = o.profile.achieved
        => Keeps(q)
  BY DEF Speaks, Question
<1>1. CASE OnStart
  <2> DEFINE o == [Quiet EXCEPT !.started = TRUE, !.health = Watch(@, {})]
  <2>1. Keeps(o)
    <3>1. Watch(Quiet.health, {}) \in Monitor
      BY <1>q, MonitorTypes DEF ObcState, Watchable
    <3> QED BY <1>q, <3>1 DEF ObcState, Question
  <2>2. "boot_complete" \in Triggers
    BY DEF Triggers, Transitions
  <2>3. obc' = Fire(o, "boot_complete")
    BY <1>1 DEF OnStart
  <2> HIDE DEF o
  <2>4. obc' \in ObcState /\ Speaks(o, obc') /\ obc'.profile = o.profile
    BY <2>1, <2>2, <2>3, FireType, FireGrows, FireEffect
  <2> QED BY <1>s, <2>1, <2>4 DEF Achieved
<1>2. CASE Tick
  <2>1. PICK absent \in BOOLEAN : obc' = Ticked(absent)
    BY <1>2 DEF Tick
  <2> DEFINE a == PublishStatus(Quiet)
             b == RequestDefaultOnExpiry(a)
             c == ExpireResumeWait(b)
             d == SettleResume(c)
  <2>2. Keeps(a)
    <3>1. a \in ObcState /\ Speaks(Quiet, a)
      BY <1>q, PublishStatusType, StatusGrows
    <3>2. a.profile.achieved = Quiet.profile.achieved
      BY <1>q, RequestAgrees DEF Agree
    <3> QED BY <1>q, <1>s, <3>1, <3>2
  <2> HIDE DEF a
  <2>3. Keeps(b)
    BY <2>2, ResumeStepTypes, ResumeAgrees, TickGrows DEF Agree
  <2> HIDE DEF b
  <2>4. Keeps(c)
    BY <2>3, ResumeStepTypes, ResumeAgrees, TickGrows DEF Agree
  <2> HIDE DEF c
  <2>5. Keeps(d)
    BY <2>4, ResumeStepTypes, ResumeAgrees, TickGrows DEF Agree
  <2> HIDE DEF d
  <2>6. obc' = Reconcile(d, absent)
    BY <2>1 DEF Ticked, a, b, c, d
  <2> QED BY <1>r, <2>5, <2>6 DEF Achieved
<1>3. CASE SetProfile
  <2>1. PICK profile \in Profiles \cup {None}, ttl \in Minutes \cup {None},
             absent \in BOOLEAN :
          obc' = Reconcile(RequestProfile(Quiet, profile, ttl, FALSE), absent)
    BY <1>3 DEF SetProfile
  <2> DEFINE q == RequestProfile(Quiet, profile, ttl, FALSE)
  <2>2. ttl \in Ttls
    BY ProfileMachineAssumption DEF Ttls
  <2>3. q \in ObcState /\ Speaks(Quiet, q)
    BY <1>q, <2>2, RequestProfileType, RequestGrows
  <2>4. q.profile.achieved = Quiet.profile.achieved
    <3>1. Agree(q, Quiet)
      BY <1>q, RequestAgrees
    <3> QED BY <3>1 DEF Agree
  <2> HIDE DEF q
  <2>5. Keeps(q)
    BY <1>q, <1>s, <2>3, <2>4
  <2>6. Keeps(Reconcile(q, absent))
    BY <1>r, <2>5
  <2> QED BY <2>1, <2>6 DEF Achieved, q
<1>4. CASE GroundRecover
  <2>1. PICK absent \in BOOLEAN : obc' = Reconcile(Recover(Quiet, FALSE), absent)
    BY <1>4 DEF GroundRecover
  <2> DEFINE q == Recover(Quiet, FALSE)
  <2>2. q \in ObcState /\ Speaks(Quiet, q) /\ q.profile = Quiet.profile
    BY <1>q, DescentTypes, DescentGrows, RecoverEffect
  <2> HIDE DEF q
  <2>3. Keeps(q)
    BY <1>q, <1>s, <2>2
  <2>4. Keeps(Reconcile(q, absent))
    BY <1>r, <2>3
  <2> QED BY <2>1, <2>4 DEF Achieved, q
<1>5. CASE EpsReports
  <2>1. PICK eps \in Readings, absent \in BOOLEAN :
          obc' = Reconcile(OnEpsStatus(Quiet, eps), absent)
    BY <1>5 DEF EpsReports
  <2> DEFINE w == ResumeOnEvidence(Quiet, eps)
             q == OnEpsStatus(Quiet, eps)
  <2>2. eps \in EpsStatus
    BY ObcAssumption
  <2>3. /\ w \in ObcState /\ Question(w)
        /\ w.resume.candidate \in {Quiet.resume.candidate, None}
    BY <1>q, <2>2, ResumeStepTypes, EvidenceAnswers
  <2>4. q \in ObcState /\ q.profile.achieved = Quiet.profile.achieved
    BY <1>q, <2>2, HandlerTypes, ReadingEffect DEF Drawn
  <2>5. Speaks(w, q)
    BY <1>q, <2>2, ReadingSpeaks
  <2> HIDE DEF w, q
  <2>6. Keeps(q)
    BY <1>q, <2>3, <2>4, <2>5 DEF Speaks, Question
  <2> QED BY <1>r, <2>1, <2>6 DEF Achieved, q
<1> QED BY <1>1, <1>2, <1>3, <1>4, <1>5 DEF OwnStep

(***************************************************************************)
(* HOSTD's side of the topics.                                             *)
(***************************************************************************)

\* Everything HOSTD does at the broker's word ends in one report.
LEMMA AnswerIsReported ==
  ASSUME NEW h \in HostState, NEW a \in Action, NEW n \in Handled(h, a)
  PROVE  n \in HostState /\ Reported(h, n)
<1>1. CASE a.kind = "apply_profile"
  <2>1. a \in Applications /\ n \in Applied(h, a, FALSE)
    BY <1>1, ActionKinds DEF Handled
  <2> QED BY <2>1, ApplicationIsReported
<1>2. CASE a.kind # "apply_profile"
  BY <1>2, OthersEffect
<1> QED BY <1>1, <1>2

\* A report is one message, and it is the status that is then retained.
LEMMA DeliverEffect ==
  ASSUME LinkTypeOK, NEW h \in HostState, h.out = <<>>,
         host' \in HostState, Reported(h, host'), Deliver
  PROVE  /\ retained' = HostStatusOf(host')
         /\ retained' \in HostStatus
         /\ toObc' = Append(toObc, HostStatusOf(host'))
         /\ toObc' \in Seq(HostStatus)
<1> DEFINE s == HostStatusOf(host')
<1>1. s \in HostStatus
  BY DEF HostStatusOf, HostStatus, HostState
<1>2. host'.out = Append(<<>>, s)
  BY DEF Reported
<1> HIDE DEF s
<1>3. /\ host'.out = <<s>> /\ host'.out # <<>> /\ Len(host'.out) = 1
      /\ host'.out[1] = s
  BY <1>2
<1>4. retained' = s
  BY <1>3 DEF Deliver
<1>5. toObc' = toObc \o <<s>> /\ toObc \in Seq(HostStatus)
  BY <1>3 DEF Deliver, LinkTypeOK
<1>6. toObc' = Append(toObc, s) /\ toObc' \in Seq(HostStatus)
  BY <1>1, <1>5
<1> QED BY <1>1, <1>4, <1>6 DEF s

(***************************************************************************)
(* The profile is known.  The invariant follows what HOSTD holds along its *)
(* way to OBC: the broker retains it, and it is the last thing on the      *)
(* topic, or, with nothing on the topic, what OBC has adopted.             *)
(***************************************************************************)
LastToObc == toObc[Len(toObc)].profile

Told ==
  /\ host.phase = "down" => host.achieved = None
  /\ host.achieved # None =>
       /\ retained # None /\ retained.profile = host.achieved
       /\ IF toObc = <<>> THEN Achieved = host.achieved
          ELSE LastToObc = host.achieved

LinkInv == LinkTypeOK /\ Told

\* A step of OBC that only publishes leaves everybody told.
LEMMA ObcStepKeeps ==
  ASSUME LinkInv, obc' \in ObcState, Achieved' = Achieved, ObcStep
  PROVE  LinkInv'
<1>1. LinkTypeOK'
  <2>1. TypeOK' /\ HostTypeOK'
    BY DEF TypeOK, HostTypeOK, ObcStep, LinkInv, LinkTypeOK
  <2>2. toHost' \in Seq(Orders)
    BY RelayType DEF LinkInv, ObcStep
  <2> QED BY <2>1, <2>2 DEF LinkTypeOK, LinkInv, ObcStep
<1>2. Told'
  BY DEF Told, LastToObc, LinkInv, ObcStep
<1> QED BY <1>1, <1>2 DEF LinkInv

\* HOSTD's report leaves everybody told.
LEMMA ReportKeeps ==
  ASSUME LinkInv, NEW h \in HostState, h.out = <<>>, h.phase # "down",
         host' \in HostState, Reported(h, host'), Deliver,
         toHost' \in Seq(Orders), UNCHANGED obc
  PROVE  LinkInv'
<1>1. /\ retained' = HostStatusOf(host') /\ retained' \in HostStatus
      /\ toObc' = Append(toObc, HostStatusOf(host')) /\ toObc' \in Seq(HostStatus)
  BY DeliverEffect DEF LinkInv
<1>2. LinkTypeOK'
  BY <1>1 DEF LinkTypeOK, LinkInv, TypeOK, HostTypeOK
<1>3. retained' # None /\ retained'.profile = host'.achieved
  BY <1>1, ObcHostdAssumption DEF HostStatusOf
<1>4. toObc' # <<>> /\ LastToObc' = host'.achieved
  <2> DEFINE s == HostStatusOf(host')
  <2>1. s.profile = host'.achieved
    BY DEF HostStatusOf
  <2>2. toObc \in Seq(HostStatus) /\ toObc' = Append(toObc, s)
    BY <1>1 DEF LinkInv, LinkTypeOK
  <2> HIDE DEF s
  <2>3. toObc' # <<>> /\ toObc'[Len(toObc')] = s
    BY <2>2
  <2> QED BY <2>1, <2>3 DEF LastToObc
<1>5. host'.phase # "down"
  BY DEF Reported
<1>6. Told'
  BY <1>3, <1>4, <1>5 DEF Told
<1> QED BY <1>2, <1>6 DEF LinkInv

\* OBC starts again with what the broker retained.
LEMMA ObcDiesKeeps ==
  ASSUME LinkInv, ObcDies
  PROVE  LinkInv'
<1>1. obc' = InitObc /\ UNCHANGED <<host, toHost, retained>>
  BY DEF ObcDies, Restart
<1>2. toObc' = IF retained = None THEN <<>> ELSE <<retained>>
  BY DEF ObcDies
<1>3. toObc' \in Seq(HostStatus)
  BY <1>2 DEF LinkInv, LinkTypeOK
<1>4. LinkTypeOK'
  BY <1>1, <1>3, InitType DEF LinkInv, LinkTypeOK, TypeOK, HostTypeOK
<1>5. Told'
  BY <1>1, <1>2 DEF LinkInv, Told, LastToObc
<1> QED BY <1>4, <1>5 DEF LinkInv

\* Taking the first message leaves the last one, unless it was the only one.
LEMMA LastOfTail ==
  ASSUME NEW S, NEW q \in Seq(S), q # <<>>
  PROVE  /\ Tail(q) = <<>> => q[Len(q)] = Head(q)
         /\ Tail(q) # <<>> => Tail(q)[Len(Tail(q))] = q[Len(q)]
<1> DEFINE n == Len(q)
           t == Tail(q)
           m == Len(t)
<1>1. /\ n \in Nat /\ n # 0 /\ q[1] = Head(q)
      /\ t \in Seq(S) /\ m = n - 1
      /\ \A i \in 1 .. m : t[i] = q[i + 1]
  OBVIOUS
<1>2. m \in Nat /\ (t = <<>> <=> m = 0)
  BY <1>1
<1> HIDE DEF n, m
<1>3. t = <<>> => n = 1
  BY <1>1, <1>2
<1>4. ASSUME t # <<>> PROVE t[m] = q[n]
  <2>1. m \in 1 .. m /\ m + 1 = n
    BY <1>1, <1>2, <1>4
  <2>2. t[m] = q[m + 1]
    BY <1>1, <2>1
  <2> QED BY <2>1, <2>2
<1> QED BY <1>1, <1>3, <1>4 DEF n, m

\* The arrival of a status is the only way OBC is told.
LEMMA StatusArrivesKeeps ==
  ASSUME LinkInv, StatusArrives
  PROVE  LinkInv'
<1> DEFINE s == Head(toObc)
<1>1. toObc # <<>> /\ toObc' = Tail(toObc) /\ UNCHANGED <<host, retained>>
  BY DEF StatusArrives
<1>2. toObc \in Seq(HostStatus) /\ s \in HostStatus
  BY <1>1 DEF LinkInv, LinkTypeOK
<1>3. Quiet \in ObcState
  <2>1. obc \in ObcState /\ <<>> \in Seq(Message)
    BY DEF LinkInv, LinkTypeOK, TypeOK
  <2> QED BY <2>1 DEF Quiet, ObcState
<1>4. PICK absent \in BOOLEAN :
        obc' = Reconcile(OnHostStatus(Quiet, s, absent), absent)
  BY DEF StatusArrives
<1> HIDE DEF s
<1>5. /\ obc' \in ObcState
      /\ s.profile # None => obc'.profile.achieved = s.profile
  BY <1>2, <1>3, <1>4, StatusIsTaken
<1>6. LinkTypeOK'
  <2>1. toHost' \in Seq(Orders)
    BY <1>5, RelayType DEF LinkInv, StatusArrives
  <2>2. toObc' \in Seq(HostStatus)
    BY <1>1, <1>2
  <2> QED BY <1>1, <1>5, <2>1, <2>2 DEF LinkTypeOK, LinkInv, TypeOK, HostTypeOK
<1>7. /\ toObc' = <<>> => toObc[Len(toObc)] = s
      /\ toObc' # <<>> => toObc'[Len(toObc')] = toObc[Len(toObc)]
  BY <1>1, <1>2, LastOfTail DEF s
<1>8. host.achieved # None =>
        IF toObc' = <<>> THEN Achieved' = host.achieved
        ELSE LastToObc' = host.achieved
  BY <1>1, <1>5, <1>7 DEF LinkInv, Told, LastToObc, Achieved
<1>9. Told'
  BY <1>1, <1>8 DEF LinkInv, Told
<1> QED BY <1>6, <1>9 DEF LinkInv

\* HOSTD's start and its answer to an action are reports.
LEMMA HostSpeaksKeeps ==
  ASSUME LinkInv, HostStarts \/ ActionArrives
  PROVE  LinkInv'
<1> USE DEF LinkInv, LinkTypeOK
<1>1. CASE HostStarts
  <2>1. HostStart /\ Deliver /\ UNCHANGED <<obc, toHost>>
    BY <1>1 DEF HostStarts
  <2>2. PICK h \in HostState : /\ h.phase = "serving" /\ h.out = <<>>
                               /\ host' \in Applied(h, DefaultAction, TRUE)
    BY <2>1, StartIs
  <2>3. host' \in HostState /\ Reported(h, host')
    BY <2>2, ApplicationIsReported, DefaultIsNamed
  <2>4. toHost' \in Seq(Orders)
    BY <2>1
  <2> QED BY <2>1, <2>2, <2>3, <2>4, ReportKeeps
<1>2. CASE ActionArrives
  <2>1. /\ toHost # <<>> /\ host.phase # "down" /\ toHost' = Tail(toHost)
        /\ host' \in Handled(QuietHost, Head(toHost))
        /\ Deliver /\ UNCHANGED obc
    BY <1>2 DEF ActionArrives
  <2>2. Head(toHost) \in Orders /\ toHost' \in Seq(Orders)
    BY <2>1
  <2>3. Head(toHost) \in Action
    BY <2>2 DEF Orders
  <2>4. /\ QuietHost \in HostState /\ QuietHost.out = <<>>
        /\ QuietHost.phase # "down"
    BY <2>1, QuietEffect
  <2>5. host' \in HostState /\ Reported(QuietHost, host')
    BY <2>1, <2>3, <2>4, AnswerIsReported
  <2> QED BY <2>1, <2>2, <2>4, <2>5, ReportKeeps
<1> QED BY <1>1, <1>2

\* Where HOSTD may have been when it died.
LEMMA HostDiesIs ==
  ASSUME LinkTypeOK, HostDies
  PROVE  \E h \in HostState : host' = Forgotten(h)
<1>1. CASE host' = Forgotten(host)
  BY <1>1 DEF LinkTypeOK, HostTypeOK
<1>2. CASE /\ toHost # <<>>
           /\ Head(toHost).kind = "apply_profile"
           /\ host' \in {Forgotten(h) : h \in Interrupted(host, Head(toHost), FALSE)}
  <2>1. Head(toHost) \in Orders
    BY <1>2 DEF LinkTypeOK
  <2>2. Head(toHost) \in Named
    BY <1>2, <2>1 DEF Orders
  <2> QED BY <1>2, <2>2, InterruptedType DEF LinkTypeOK, HostTypeOK
<1>3. CASE host' \in {Forgotten(h) :
                       h \in Interrupted(Recalled(host), DefaultAction, TRUE)}
  <2>1. Recalled(host) \in HostState
    BY RecalledEffect DEF LinkTypeOK, HostTypeOK
  <2> QED BY <1>3, <2>1, InterruptedType, DefaultIsNamed
<1> QED BY <1>1, <1>2, <1>3 DEF HostDies

\* A HOSTD that is down holds no profile, so that nobody need have been told.
LEMMA HostDownKeeps ==
  ASSUME LinkInv, HostConnects \/ HostDies \/ BoardResets
  PROVE  LinkInv'
<1> USE DEF LinkInv, LinkTypeOK
<1>1. CASE HostConnects
  <2>1. /\ host.phase = "down" /\ host' = [QuietHost EXCEPT !.phase = "connected"]
        /\ UNCHANGED <<obc, toHost, toObc, retained>>
    BY <1>1 DEF HostConnects, Connect
  <2>2. /\ QuietHost \in HostState /\ QuietHost.achieved = host.achieved
    BY QuietEffect
  <2>3. host' \in HostState /\ host'.achieved = None
    BY <2>1, <2>2 DEF HostState, Told
  <2> QED BY <2>1, <2>3 DEF Told, TypeOK, HostTypeOK
<1>2. CASE HostDies
  <2>1. host' \in HostState /\ host'.achieved = None
    BY <1>2, HostDiesIs, ForgottenEffect
  <2>2. toHost' = <<>> /\ UNCHANGED <<obc, toObc, retained>>
    BY <1>2 DEF HostDies
  <2> QED BY <2>1, <2>2 DEF Told, TypeOK, HostTypeOK
<1>3. CASE BoardResets
  <2>1. /\ obc' = InitObc /\ host' \in PowerCycled(host)
        /\ toHost' = <<>> /\ toObc' = <<>> /\ retained' = None
    BY <1>3 DEF BoardResets
  <2>2. host' \in HostState /\ host'.achieved = None
    BY <2>1, PowerCycledEffect DEF HostTypeOK
  <2> QED BY <2>1, <2>2, InitType DEF Told, TypeOK, HostTypeOK
<1> QED BY <1>1, <1>2, <1>3

\* A broker that starts again is told at once by a HOSTD that holds a profile.
LEMMA BrokerBouncesKeeps ==
  ASSUME LinkInv, BrokerBounces
  PROVE  LinkInv'
<1> USE DEF LinkInv, LinkTypeOK
<1>1. toHost' = <<>> /\ UNCHANGED obc
  BY DEF BrokerBounces
<1>2. /\ QuietHost \in HostState /\ QuietHost.achieved = host.achieved
      /\ QuietHost.phase = host.phase /\ QuietHost.out = <<>>
  BY QuietEffect
<1>3. CASE host.phase # "down" /\ host.achieved # None
  <2> DEFINE s == HostStatusOf(host')
  <2>1. /\ host' = PublishHost(QuietHost)
        /\ toObc' = host'.out /\ retained' = host'.out[1]
    BY <1>3 DEF BrokerBounces
  <2>2. /\ host' \in HostState /\ host'.phase = host.phase
        /\ host'.out = Append(<<>>, s)
    BY <1>2, <2>1, PublishHostEffect DEF Reported
  <2>3. host'.achieved = host.achieved
    BY <1>2, <2>1, PublishHostEffect DEF HostState
  <2>4. s \in HostStatus /\ s.profile = host'.achieved
    BY <2>2 DEF HostStatusOf, HostStatus, HostState
  <2> HIDE DEF s
  <2>5. host'.out = <<s>>
    BY <2>2
  <2>6. /\ toObc' = <<s>> /\ toObc' # <<>> /\ toObc'[Len(toObc')] = s
        /\ toObc' \in Seq(HostStatus) /\ retained' = s
    BY <2>1, <2>4, <2>5
  <2>7. s # None
    BY <2>4, ObcHostdAssumption
  <2> QED BY <1>1, <1>3, <2>2, <2>4, <2>6, <2>7 DEF Told, LastToObc, TypeOK, HostTypeOK
<1>4. CASE ~(host.phase # "down" /\ host.achieved # None)
  <2>1. host' = QuietHost /\ toObc' = <<>> /\ retained' = None
    BY <1>4 DEF BrokerBounces
  <2>2. host'.achieved = None
    BY <1>2, <1>4, <2>1 DEF Told
  <2> QED BY <1>1, <1>2, <2>1, <2>2 DEF Told, TypeOK, HostTypeOK
<1> QED BY <1>3, <1>4

\* The deadlines of a status run down, and nothing else of it changes.
LEMMA StatusElapsedEffect ==
  ASSUME NEW s \in HostStatus
  PROVE  /\ StatusElapsed(s) \in HostStatus
         /\ StatusElapsed(s).profile = s.profile
         /\ StatusElapsed(s).boot = s.boot
         /\ s.previous = None => StatusElapsed(s).previous = None
         /\ s.previous # None => /\ StatusElapsed(s).previous # None
                                 /\ StatusElapsed(s).previous.count = s.previous.count
<1> DEFINE ttl      == IF s.ttl = None THEN None ELSE Down(s.ttl)
           previous == IF s.previous = None \/ s.previous.ttl = None THEN s.previous
                       ELSE [s.previous EXCEPT !.ttl = Down(@)]
<1>1. ttl \in Nat \cup {None}
  BY DEF HostStatus, Down
<1>2. /\ s.previous = None => previous = None
      /\ s.previous # None =>
           previous \in PreviousRun /\ previous.count = s.previous.count
  BY DEF HostStatus, PreviousRun, Down
<1>3. None \notin PreviousRun
  BY ProfileTable DEF PreviousRun
<1>4. StatusElapsed(s) = [s EXCEPT !.ttl = ttl, !.previous = previous]
  BY DEF StatusElapsed, HostStatus
<1> HIDE DEF ttl, previous
<1> QED BY <1>1, <1>2, <1>3, <1>4 DEF HostStatus

\* Time passes alike for what HOSTD holds and for what it has said.
LEMMA TimePassesKeeps ==
  ASSUME LinkInv, TimePasses
  PROVE  LinkInv'
<1> USE DEF LinkInv, LinkTypeOK
<1>1. /\ obc' = Elapsed /\ host' = HostElapsed(host)
      /\ toObc' = [i \in DOMAIN toObc |-> StatusElapsed(toObc[i])]
      /\ retained' = IF retained = None THEN None ELSE StatusElapsed(retained)
      /\ UNCHANGED toHost
  BY DEF TimePasses, Elapse, HostElapse
<1>2. TypeOK'
  BY <1>1, NextType DEF Next, Elapse
<1>3. Achieved' = Achieved
  <2>1. obc'.profile = ProfileElapse(obc.profile)
    BY <1>1 DEF Elapsed, Quiet, TypeOK, ObcState
  <2> QED BY <2>1 DEF Achieved, ProfileElapse, TypeOK, ObcState, ProfileMachineState
<1>4. /\ host' \in HostState /\ host'.achieved = host.achieved
      /\ host'.phase = host.phase
  BY <1>1, ElapsedEffect DEF HostTypeOK
<1>5. /\ toObc' \in Seq(HostStatus) /\ Len(toObc') = Len(toObc)
      /\ \A i \in 1 .. Len(toObc) : toObc'[i].profile = toObc[i].profile
  <2>1. toObc \in Seq(HostStatus) /\ Len(toObc) \in Nat
    OBVIOUS
  <2>2. \A i \in 1 .. Len(toObc) : /\ StatusElapsed(toObc[i]) \in HostStatus
                                   /\ StatusElapsed(toObc[i]).profile = toObc[i].profile
    BY <2>1, StatusElapsedEffect
  <2>3. toObc' = [i \in 1 .. Len(toObc) |-> StatusElapsed(toObc[i])]
    BY <1>1, <2>1
  <2> QED BY <2>1, <2>2, <2>3
<1>6. /\ retained' \in HostStatus \cup {None}
      /\ retained # None => retained' # None /\ retained'.profile = retained.profile
  BY <1>1, StatusElapsedEffect, ObcHostdAssumption
<1>7. toObc' = <<>> <=> toObc = <<>>
  BY <1>5
<1>8. toObc # <<>> => LastToObc' = LastToObc
  <2>1. toObc # <<>> => Len(toObc) \in 1 .. Len(toObc)
    OBVIOUS
  <2> QED BY <1>5, <2>1 DEF LastToObc
<1> QED BY <1>1, <1>2, <1>3, <1>4, <1>5, <1>6, <1>7, <1>8 DEF Told, HostTypeOK

\* What OBC's side is made of.
OwnSteps ==
  ObcStarts \/ ObcTicks \/ GroundAsks \/ GroundFreesIt \/ EpsSpeaks

\* Every step leaves everybody told.
LEMMA LinkStepKeeps ==
  ASSUME LinkInv, Unanswered, [NextObcHostd]_vars
  PROVE  LinkInv'
<1> USE DEF LinkInv, LinkTypeOK
<1>1. ASSUME OwnStep, ObcStep PROVE LinkInv'
  <2>1. obc' \in ObcState
    BY <1>1, NextType DEF Next, TypeOK, OwnStep
  <2>2. Achieved' = Achieved
    BY <1>1, OwnStepsKeep
  <2> QED BY <1>1, <2>1, <2>2, ObcStepKeeps
<1>2. CASE OwnSteps
  BY <1>1, <1>2 DEF ObcStarts, ObcTicks, GroundAsks, GroundFreesIt, EpsSpeaks, OwnStep, OwnSteps
<1>3. CASE StatusArrives
  BY <1>3, StatusArrivesKeeps
<1>4. CASE ObcDies
  BY <1>4, ObcDiesKeeps
<1>5. CASE HostStarts \/ ActionArrives
  BY <1>5, HostSpeaksKeeps
<1>6. CASE HostConnects \/ HostDies \/ BoardResets
  BY <1>6, HostDownKeeps
<1>7. CASE BrokerBounces
  BY <1>7, BrokerBouncesKeeps
<1>8. CASE TimePasses
  BY <1>8, TimePassesKeeps
<1>9. CASE UNCHANGED vars
  BY <1>9 DEF vars, Told, LastToObc, Achieved, TypeOK, HostTypeOK
<1> QED BY <1>2, <1>3, <1>4, <1>5, <1>6, <1>7, <1>8, <1>9 DEF NextObcHostd, OwnSteps

\* And every step leaves an answered question answered.
LEMMA QuestionStepKeeps ==
  ASSUME LinkTypeOK, Unanswered, [NextObcHostd]_vars
  PROVE  Unanswered'
<1>1. ASSUME OwnStep \/ Elapse PROVE Unanswered'
  <2>1. Next
    BY <1>1 DEF OwnStep, Next
  <2> QED BY <2>1, EveryStepSpeaks DEF LinkTypeOK, Unanswered, Question
<1>2. CASE OwnSteps \/ TimePasses
  BY <1>1, <1>2 DEF OwnSteps, ObcStarts, ObcTicks, GroundAsks, GroundFreesIt,
                    EpsSpeaks, TimePasses, OwnStep
<1>3. CASE StatusArrives
  <2>1. Head(toObc) \in HostStatus
    BY <1>3 DEF StatusArrives, LinkTypeOK
  <2>2. Quiet \in ObcState /\ Question(Quiet)
    <3>1. obc \in ObcState /\ <<>> \in Seq(Message)
      BY DEF LinkTypeOK, TypeOK
    <3> QED BY <3>1 DEF Quiet, ObcState, Unanswered, Question
  <2>3. PICK absent \in BOOLEAN :
          obc' = Reconcile(OnHostStatus(Quiet, Head(toObc), absent), absent)
    BY <1>3 DEF StatusArrives
  <2> QED BY <2>1, <2>2, <2>3, StatusSpeaks DEF Unanswered, Question
<1>4. CASE ObcDies \/ BoardResets
  BY <1>4 DEF ObcDies, BoardResets, Restart, InitObc, InitResume, Unanswered, Question
<1>5. CASE HostConnects \/ HostStarts \/ ActionArrives \/ HostDies \/ BrokerBounces
           \/ UNCHANGED vars
  BY <1>5 DEF HostConnects, HostStarts, ActionArrives, HostDies, BrokerBounces, vars,
              Unanswered, Question
<1> QED BY <1>2, <1>3, <1>4, <1>5 DEF NextObcHostd, OwnSteps

\* It holds from the start.
LEMMA LinkInit == InitObcHostd => LinkInv
<1> SUFFICES ASSUME InitObcHostd PROVE LinkInv
  OBVIOUS
<1>1. TypeOK
  BY InitType DEF InitObcHostd, Init, TypeOK
<1>2. HostTypeOK /\ host.achieved = None
  BY HostInitType DEF InitObcHostd, HostInit, InitHost, HostTypeOK
<1> QED BY <1>1, <1>2 DEF InitObcHostd, LinkInv, LinkTypeOK, Told

\* No question has been asked then.
LEMMA InitUnanswered == InitObcHostd => Unanswered
BY DEF InitObcHostd, Init, InitObc, InitResume, Unanswered, Question

\* Whatever died and whenever: with both processes up and nothing on its way,
\* OBC flies the profile that HOSTD holds.
THEOREM ProfileIsKnown == SpecObcHostd => []KnowsTheProfile
<1>1. InitObcHostd => LinkInv /\ Unanswered
  BY LinkInit, InitUnanswered
<1>2. LinkInv /\ Unanswered /\ [NextObcHostd]_vars => LinkInv' /\ Unanswered'
  BY LinkStepKeeps, QuestionStepKeeps DEF LinkInv
<1>3. LinkInv => KnowsTheProfile
  BY DEF LinkInv, Told, KnowsTheProfile, Settled
<1> QED BY <1>1, <1>2, <1>3, PTL DEF SpecObcHostd

(***************************************************************************)
(* The boot-loop fence.  HOSTD counts the resumes in a row in a file, OBC  *)
(* decides by what a boot status says of it, and between the decision and  *)
(* the count lie two topics, a wait for a mains reading and any death.     *)
(* The invariant: every short life is on file, and a trip waits or is      *)
(* asked back only while the fence has room for one life more, or the      *)
(* present life is counted already.                                        *)
(***************************************************************************)

\* The count that the next start of HOSTD finds.
OnFile(h) == IF h.file = None THEN 0 ELSE h.file.count

CountIsOnFile ==
  /\ lives <= OnFile(host)
  /\ host.phase # "connected"
  /\ host.phase = "serving" => host.noted # None /\ Agrees(host)

\* One more resume is no life too many: `l` lives so far, `r` when the present
\* one is among them.
MayAsk(l, r) == MaxConsecutive > 0 /\ (r \/ l < MaxConsecutive)

Unasking == {a \in Orders : ~Asks(a)}

NobodyAsks == obc.resume.candidate = None /\ toHost \in Seq(Unasking)

\* A boot status that has still to be weighed knows of all these lives.
Fresh(s, l, r) == s.boot /\ s.previous # None => r \/ l <= s.previous.count

StatusesAreFresh ==
  /\ Fresh(HostStatusOf(host), lives, resumed)
  /\ retained # None => Fresh(retained, lives, resumed)
  /\ \A i \in 1 .. Len(toObc) : Fresh(toObc[i], lives, resumed)

\* No action has reached HOSTD before on_start, and one has.
NoneIsEarly  == "early" \in DOMAIN left /\ left["early"] = MaxEarly
SomeWasEarly == /\ "early" \in DOMAIN left
                /\ left["early"] \in Int /\ left["early"] < MaxEarly

LivesAreFew == lives <= MaxConsecutive

Fenced ==
  /\ lives \in Nat /\ resumed \in BOOLEAN
  /\ NoneIsEarly
  /\ LivesAreFew
  /\ CountIsOnFile /\ StatusesAreFresh
  /\ MayAsk(lives, resumed) \/ NobodyAsks

\* last-profile is never torn by a death inside the write of a record.
RecordSurvives == host.file # None => host'.file # None

\* Spending on anything else is no early action, and an early action stays one.
LEMMA SpendKeeps ==
  ASSUME NEW what, Spend(what)
  PROVE  /\ NoneIsEarly /\ what # "early" => NoneIsEarly'
         /\ NoneIsEarly /\ what = "early" => SomeWasEarly'
         /\ SomeWasEarly => SomeWasEarly'
<1>1. left' = [left EXCEPT ![what] = left[what] - 1]
  BY DEF Spend
<1>2. MaxEarly \in Nat
  BY ObcHostdAssumption
<1>3. CASE what = "early"
  BY <1>1, <1>2, <1>3 DEF NoneIsEarly, SomeWasEarly
<1>4. CASE what # "early"
  BY <1>1, <1>4 DEF NoneIsEarly, SomeWasEarly
<1> QED BY <1>3, <1>4

\* What an action makes of the lives: the fence holds, room for one more stays,
\* and no status becomes stale.
LEMMA RememberKeeps ==
  ASSUME NEW a \in Orders, lives \in Nat, resumed \in BOOLEAN, LivesAreFew,
         Asks(a) => MayAsk(lives, resumed), Remember(a)
  PROVE  /\ lives' \in Nat /\ resumed' \in BOOLEAN /\ LivesAreFew'
         /\ MayAsk(lives, resumed) => MayAsk(lives', resumed')
         /\ \A s \in HostStatus :
              Fresh(s, lives, resumed) => Fresh(s, lives', resumed')
         /\ a.kind = "apply_profile"
              => lives' <= IF a.resume THEN lives + 1 ELSE 0
         /\ a.kind = "clear_resume" => lives' = 0
         /\ a.kind \notin {"apply_profile", "clear_resume"} => lives' = lives
<1>1. a.kind = "apply_profile" => a.profile # None /\ a.resume \in BOOLEAN
  BY DEF Orders, Named, Applications
<1>2. MaxConsecutive \in Nat
  BY ResumeAssumption
<1>3. /\ a.kind = "apply_profile" =>
            /\ resumed' = a.resume
            /\ lives' = IF a.resume THEN IF resumed THEN lives ELSE lives + 1 ELSE 0
      /\ a.kind = "clear_resume" => resumed' = FALSE /\ lives' = 0
      /\ a.kind \notin {"apply_profile", "clear_resume"}
           => resumed' = resumed /\ lives' = lives
  BY <1>1 DEF Remember
<1>4. /\ lives' \in Nat /\ resumed' \in BOOLEAN
      /\ a.kind = "apply_profile" => lives' <= IF a.resume THEN lives + 1 ELSE 0
  <2>1. CASE a.kind = "apply_profile"
    <3>1. resumed' \in BOOLEAN
      BY Zenon, <1>1, <1>3, <2>1
    <3>2. lives' \in {lives, lives + 1, 0} /\ (~a.resume => lives' = 0)
      BY Zenon, <1>3, <2>1
    <3>3. lives' \in Nat /\ lives' <= IF a.resume THEN lives + 1 ELSE 0
      BY <3>2
    <3> QED BY <3>1, <3>3
  <2>2. CASE a.kind = "clear_resume"
    <3>1. resumed' = FALSE /\ lives' = 0
      BY Zenon, <1>3, <2>2
    <3> QED BY <2>2, <3>1
  <2>3. CASE a.kind \notin {"apply_profile", "clear_resume"}
    BY Zenon, <1>3, <2>3
  <2> QED BY <2>1, <2>2, <2>3
<1>5. LivesAreFew'
  BY <1>1, <1>2, <1>3 DEF LivesAreFew, Asks, MayAsk
<1>6. MayAsk(lives, resumed) => MayAsk(lives', resumed')
  BY <1>1, <1>2, <1>3 DEF MayAsk
<1>7. ASSUME NEW s \in HostStatus, Fresh(s, lives, resumed)
      PROVE  Fresh(s, lives', resumed')
  <2>1. s.previous # None => s.previous.count \in Nat
    BY DEF HostStatus, PreviousRun
  <2> QED BY <1>1, <1>3, <1>7, <2>1 DEF Fresh
<1> QED BY <1>3, <1>4, <1>5, <1>6, <1>7

\* What OBC relays asks no trip back unless what it published does.
LEMMA RelayedUnasking ==
  ASSUME obc' \in ObcState, Relay, toHost \in Seq(Unasking),
         \A i \in 1 .. Len(obc'.out) : ~Asks(obc'.out[i])
  PROVE  toHost' \in Seq(Unasking)
<1> DEFINE out == obc'.out
<1>1. out \in Seq(Message)
  BY DEF ObcState
<1>2. \A i \in 1 .. Len(out) : out[i] \in Message /\ ~Asks(out[i])
  BY <1>1
<1> HIDE DEF out
<1>3. \A i \in 1 .. Len(out) : out[i].kind # "status" => out[i] \in Unasking
  BY <1>2, MessagesAreOrders DEF Unasking
<1>4. ActionsOf(out) \in Seq(Unasking)
  BY <1>1, <1>3, ActionsType
<1> QED BY <1>4 DEF Relay, Relayed, out

\* What OBC does of its own accord asks a trip back only for one that waits.
LEMMA OwnStepsAsk ==
  ASSUME TypeOK, Unanswered, OwnStep, obc.resume.candidate = None
  PROVE  /\ obc' \in ObcState /\ obc'.resume.candidate = None
         /\ \A i \in 1 .. Len(obc'.out) : ~Asks(obc'.out[i])
<1>1. Next
  BY DEF OwnStep, Next
<1>2. obc' \in ObcState
  BY <1>1, NextType DEF TypeOK
<1>3. obc'.resume.candidate = None
  BY OwnStepsKeep
<1>4. Quiet.out = <<>> /\ Quiet.resume = obc.resume
  BY DEF Quiet, TypeOK, ObcState
<1>5. CASE obc' = InitObc
  BY <1>2, <1>3, <1>5 DEF InitObc
<1>6. CASE SpokenBy(Quiet, obc')
  <2>1. Grows(Quiet, obc')
    BY <1>4, <1>6 DEF SpokenBy
  <2> QED BY <1>2, <1>3, <1>4, <2>1 DEF Grows
<1> QED BY <1>1, <1>5, <1>6, EveryStepSpeaks

\* OBC's own steps publish, and none of them opens the question.
LEMMA OwnStepsKeepTheFence ==
  ASSUME LinkTypeOK, Unanswered, Fenced, OwnSteps
  PROVE  Fenced'
<1>1. OwnStep /\ ObcStep /\ (UNCHANGED left \/ Spend("asks"))
  BY DEF OwnSteps, ObcStarts, ObcTicks, GroundAsks, GroundFreesIt, EpsSpeaks, OwnStep
<1>2. UNCHANGED <<host, toObc, retained, lives, resumed>> /\ Relay
  BY <1>1 DEF ObcStep, ghosts
<1>3. NoneIsEarly'
  BY <1>1, SpendKeeps DEF Fenced, NoneIsEarly
<1>4. NobodyAsks => NobodyAsks'
  <2>1. SUFFICES ASSUME NobodyAsks PROVE NobodyAsks'
    OBVIOUS
  <2>2. /\ obc' \in ObcState /\ obc'.resume.candidate = None
        /\ \A i \in 1 .. Len(obc'.out) : ~Asks(obc'.out[i])
    BY <1>1, <2>1, OwnStepsAsk DEF LinkTypeOK, NobodyAsks
  <2>3. toHost' \in Seq(Unasking)
    BY <1>2, <2>1, <2>2, RelayedUnasking DEF NobodyAsks
  <2> QED BY <2>2, <2>3 DEF NobodyAsks
<1>5. /\ LivesAreFew' /\ CountIsOnFile' /\ StatusesAreFresh'
      /\ MayAsk(lives', resumed') <=> MayAsk(lives, resumed)
  BY <1>2 DEF Fenced, LivesAreFew, CountIsOnFile, StatusesAreFresh
<1> QED BY <1>2, <1>3, <1>4, <1>5 DEF Fenced

\* What is left of a topic is part of it.
LEMMA TailIsPart ==
  ASSUME NEW S, NEW q \in Seq(S), q # <<>>
  PROVE  /\ Head(q) \in S /\ Head(q) = q[1] /\ 1 \in 1 .. Len(q)
         /\ Tail(q) \in Seq(S)
         /\ \A i \in 1 .. Len(Tail(q)) :
              i + 1 \in 1 .. Len(q) /\ Tail(q)[i] = q[i + 1]
<1>1. Len(q) \in Nat /\ Len(q) # 0 /\ Len(Tail(q)) = Len(q) - 1
  OBVIOUS
<1> QED BY <1>1

\* A status opens the question only when it has been told of room for another
\* life, and it knows of them all.
LEMMA StatusKeepsTheFence ==
  ASSUME LinkTypeOK, Unanswered, Fenced, StatusArrives, obc' \in ObcState
  PROVE  Fenced'
<1> DEFINE s == Head(toObc)
<1>1. /\ toObc # <<>> /\ toObc' = Tail(toObc) /\ Relay
      /\ UNCHANGED <<host, retained, left, lives, resumed>>
  BY DEF StatusArrives, ghosts
<1>2. /\ toObc \in Seq(HostStatus) /\ s \in HostStatus /\ Fresh(s, lives, resumed)
      /\ \A i \in 1 .. Len(Tail(toObc)) : Fresh(Tail(toObc)[i], lives, resumed)
  BY <1>1, TailIsPart DEF LinkTypeOK, Fenced, StatusesAreFresh
<1>3. Quiet \in ObcState /\ Question(Quiet) /\ Quiet.out = <<>> /\ Quiet.resume = obc.resume
  <2>1. obc \in ObcState /\ <<>> \in Seq(Message)
    BY DEF LinkTypeOK, TypeOK
  <2> QED BY <2>1 DEF Quiet, ObcState, Unanswered, Question
<1>4. PICK absent \in BOOLEAN :
        obc' = Reconcile(OnHostStatus(Quiet, s, absent), absent)
  BY DEF StatusArrives
<1> HIDE DEF s
<1>5. /\ Grows(Quiet, obc')
      /\ \/ obc'.resume.candidate \in {obc.resume.candidate, None}
         \/ s.boot /\ Refusal(s.previous) = None
  BY <1>2, <1>3, <1>4, StatusSpeaks
<1>6. \A i \in 1 .. Len(obc'.out) : ~Asks(obc'.out[i])
  BY <1>3, <1>5 DEF Grows
<1>7. NoneIsEarly' /\ LivesAreFew' /\ CountIsOnFile' /\ StatusesAreFresh'
  BY <1>1, <1>2 DEF Fenced, NoneIsEarly, LivesAreFew, CountIsOnFile, StatusesAreFresh
<1>8. CASE MayAsk(lives, resumed)
  BY <1>1, <1>7, <1>8 DEF Fenced
<1>9. CASE s.boot /\ Refusal(s.previous) = None
  <2>1. None \notin {"profile", "loop"}
    BY ResumeAssumption DEF Refusals
  <2>2. /\ s.previous # None /\ s.previous.count \in Nat
        /\ s.previous.count < MaxConsecutive
    <3>1. s.previous # None /\ s.previous.profile \in Resumable
      BY Zenon, <1>9, <2>1 DEF Refusal
    <3>2. s.previous.count \in Nat
      BY <1>2, <3>1 DEF HostStatus, PreviousRun
    <3>3. ASSUME s.previous.count >= MaxConsecutive PROVE FALSE
      <4>1. Refusal(s.previous) = "loop"
        BY <3>1, <3>2, <3>3, ResumeAssumption DEF Refusal
      <4> QED BY <1>9, <2>1, <4>1
    <3> QED BY <3>1, <3>2, <3>3, ResumeAssumption
  <2>3. resumed \/ lives <= s.previous.count
    BY <1>2, <1>9, <2>2 DEF Fresh
  <2>4. MayAsk(lives, resumed)
    BY <2>2, <2>3, ResumeAssumption DEF MayAsk, Fenced
  <2> QED BY <1>8, <2>4
<1>10. CASE NobodyAsks /\ obc'.resume.candidate \in {obc.resume.candidate, None}
  <2>1. obc'.resume.candidate = None
    BY <1>10 DEF NobodyAsks
  <2>2. toHost' \in Seq(Unasking)
    BY <1>1, <1>6, <1>10, RelayedUnasking DEF NobodyAsks
  <2>3. NobodyAsks'
    BY <2>1, <2>2 DEF NobodyAsks
  <2> QED BY <1>1, <1>7, <2>3 DEF Fenced
<1> QED BY <1>5, <1>8, <1>9, <1>10 DEF Fenced

\* OBC starts again with no trip in mind and with what the broker retained.
LEMMA ObcDeathKeepsTheFence ==
  ASSUME Fenced, ObcDies
  PROVE  Fenced'
<1>1. /\ obc' = InitObc /\ Spend("crashes")
      /\ UNCHANGED <<host, toHost, retained, lives, resumed>>
      /\ toObc' = IF retained = None THEN <<>> ELSE <<retained>>
  BY DEF ObcDies, Restart, ghosts
<1>2. NoneIsEarly'
  BY <1>1, SpendKeeps DEF Fenced
<1>3. obc'.resume.candidate = None
  BY <1>1 DEF InitObc, InitResume
<1>4. \A i \in 1 .. Len(toObc') : Fresh(toObc'[i], lives, resumed)
  <2>1. CASE retained = None
    BY <1>1, <2>1
  <2>2. CASE retained # None
    <3>1. toObc' = <<retained>> /\ Fresh(retained, lives, resumed)
      BY <1>1, <2>2 DEF Fenced, StatusesAreFresh
    <3>2. Len(toObc') = 1 /\ toObc'[1] = retained
      BY <3>1
    <3> QED BY <3>1, <3>2
  <2> QED BY <2>1, <2>2
<1>5. LivesAreFew' /\ CountIsOnFile' /\ StatusesAreFresh'
  BY <1>1, <1>4 DEF Fenced, LivesAreFew, CountIsOnFile, StatusesAreFresh
<1> QED BY <1>1, <1>2, <1>3, <1>5 DEF Fenced, NobodyAsks

\* One more status on the topic, and retained.
LEMMA ReportIsFresh ==
  ASSUME LinkTypeOK, NEW h \in HostState, h.out = <<>>,
         host' \in HostState, Reported(h, host'), Deliver,
         Fresh(HostStatusOf(host'), lives', resumed'),
         \A i \in 1 .. Len(toObc) : Fresh(toObc[i], lives', resumed')
  PROVE  StatusesAreFresh'
<1> DEFINE s == HostStatusOf(host')
<1>1. /\ retained' = s /\ s \in HostStatus
      /\ toObc' = Append(toObc, s) /\ toObc \in Seq(HostStatus)
  BY DeliverEffect DEF LinkTypeOK
<1>2. Fresh(s, lives', resumed')
  OBVIOUS
<1> HIDE DEF s
<1>3. \A i \in 1 .. Len(toObc') : toObc'[i] = s \/ (i \in 1 .. Len(toObc) /\ toObc'[i] = toObc[i])
  BY <1>1
<1>4. \A i \in 1 .. Len(toObc') : Fresh(toObc'[i], lives', resumed')
  BY <1>2, <1>3
<1> QED BY <1>1, <1>2, <1>4 DEF StatusesAreFresh, s

\* HOSTD reads the count before it writes over it, and says what it read.
LEMMA StartKeepsTheFence ==
  ASSUME Mishaps \cap {"file", "torn"} = {}, LinkTypeOK, Fenced, HostStarts
  PROVE  Fenced'
<1>1. /\ HostStart /\ Deliver
      /\ UNCHANGED <<obc, toHost, left, lives, resumed>>
  BY DEF HostStarts, ghosts
<1>2. PICK h \in HostState :
        /\ h.phase = "serving" /\ h.out = <<>>
        /\ h.previous = host.file /\ h.count = OnFile(host)
        /\ host' \in Applied(h, DefaultAction, TRUE)
  BY <1>1, StartIs DEF LinkTypeOK, OnFile
<1>3. host' \in HostState /\ Reported(h, host')
  BY <1>2, ApplicationIsReported, DefaultIsNamed
<1>4. /\ host'.noted # None /\ host'.count = OnFile(host)
      /\ Agrees(host')
  <2>1. /\ host'.noted # None
        /\ host'.count = Counted(h, DefaultAction, TRUE)
    BY <1>2, AppliedIsNoted, DefaultIsNamed
  <2>2. Counted(h, DefaultAction, TRUE) = h.count
    BY DEF Counted, DefaultAction
  <2>3. DefaultAction.profile # None
    BY DefaultIsNamed DEF Named
  <2>4. Agrees(host')
    BY <1>2, <2>3, AppliedAgrees, DefaultIsNamed
  <2> QED BY <1>2, <2>1, <2>2, <2>4
<1>5. /\ host'.phase = "serving" /\ host'.previous = host.file
  BY <1>2, <1>3 DEF Reported
<1>6. host'.file # None /\ host'.file.count = OnFile(host)
  <2>1. None \notin PreviousRun
    BY ProfileTable DEF PreviousRun
  <2> QED BY <1>4 DEF Agrees
<1>7. CountIsOnFile'
  <2>1. OnFile(host') = OnFile(host)
    BY <1>6 DEF OnFile
  <2> QED BY <1>1, <1>4, <1>5, <2>1 DEF Fenced, CountIsOnFile
<1>8. Fresh(HostStatusOf(host'), lives', resumed')
  <2>1. HostStatusOf(host').previous = host.file
    BY <1>5 DEF HostStatusOf
  <2> QED BY <1>1, <2>1 DEF Fresh, Fenced, CountIsOnFile, OnFile
<1>9. \A i \in 1 .. Len(toObc) : Fresh(toObc[i], lives', resumed')
  BY <1>1 DEF Fenced, StatusesAreFresh
<1>10. StatusesAreFresh'
  BY <1>1, <1>2, <1>3, <1>8, <1>9, ReportIsFresh
<1> QED BY <1>1, <1>7, <1>10 DEF Fenced, LivesAreFew, NoneIsEarly, NobodyAsks

\* A count on file is a number.
LEMMA OnFileIsNat ==
  ASSUME NEW h \in HostState
  PROVE  /\ OnFile(h) \in Nat
         /\ h.noted # None /\ Agrees(h) => h.file # None /\ OnFile(h) = h.count
<1>1. None \notin PreviousRun
  BY ProfileTable DEF PreviousRun
<1>2. h.file # None => h.file.count \in Nat
  BY DEF HostState, PreviousRun
<1> QED BY <1>1, <1>2 DEF OnFile, Agrees

\* Every action leaves the lives on file: a resume counts in both places, and
\* nothing clears the file that does not clear the lives.
LEMMA ActionKeepsTheFence ==
  ASSUME Mishaps \cap {"file", "torn"} = {}, LinkTypeOK, Fenced, ActionArrives
  PROVE  Fenced'
<1> DEFINE a == Head(toHost)
<1>1. /\ toHost # <<>> /\ host.phase # "down" /\ toHost' = Tail(toHost)
      /\ host' \in Handled(QuietHost, a)
      /\ Deliver /\ Remember(a) /\ UNCHANGED <<obc, left>>
  BY DEF ActionArrives
<1>2. a \in Orders /\ a \in Action
  <2>1. a \in Orders
    BY <1>1 DEF LinkTypeOK
  <2> QED BY <2>1 DEF Orders
<1>3. /\ NobodyAsks => ~Asks(a) /\ toHost' \in Seq(Unasking)
      /\ Asks(a) => MayAsk(lives, resumed)
  <2>1. ASSUME toHost \in Seq(Unasking)
        PROVE  a \in Unasking /\ Tail(toHost) \in Seq(Unasking)
    BY <1>1, <2>1
  <2>2. NobodyAsks => ~Asks(a) /\ toHost' \in Seq(Unasking)
    BY <1>1, <2>1 DEF NobodyAsks, Unasking
  <2> QED BY <2>2 DEF Fenced
<1> HIDE DEF a
<1>4. /\ lives' \in Nat /\ resumed' \in BOOLEAN /\ LivesAreFew'
      /\ MayAsk(lives, resumed) => MayAsk(lives', resumed')
      /\ \A s \in HostStatus : Fresh(s, lives, resumed) => Fresh(s, lives', resumed')
  BY <1>1, <1>2, <1>3, RememberKeeps DEF Fenced
<1>5. /\ a.kind = "apply_profile" => lives' <= IF a.resume THEN lives + 1 ELSE 0
      /\ a.kind = "clear_resume" => lives' = 0
      /\ a.kind \notin {"apply_profile", "clear_resume"} => lives' = lives
  BY <1>1, <1>2, <1>3, RememberKeeps DEF Fenced
<1> DEFINE h == QuietHost
<1>6. /\ h \in HostState /\ h.phase = host.phase /\ h.noted = host.noted
      /\ h.file = host.file /\ h.count = host.count /\ h.boot = host.boot
      /\ h.previous = host.previous /\ h.out = <<>>
  BY QuietEffect DEF LinkTypeOK
<1>7. /\ h.phase = "serving" /\ h.noted # None /\ Agrees(h)
      /\ OnFile(h) = OnFile(host) /\ lives <= OnFile(h)
      /\ OnFile(h) = h.count /\ h.count \in Nat
  <2>1. host.phase = "serving"
    BY <1>1 DEF Fenced, CountIsOnFile, LinkTypeOK, HostTypeOK, HostState
  <2>2. h.phase = "serving" /\ h.noted # None /\ Agrees(h)
    BY <1>6, <2>1 DEF Fenced, CountIsOnFile, Agrees
  <2>3. OnFile(h) = OnFile(host)
    BY <1>6 DEF OnFile
  <2> QED BY <1>6, <2>2, <2>3, OnFileIsNat DEF Fenced, CountIsOnFile
<1>8. host' \in Handled(h, a)
  BY <1>1
<1> HIDE DEF h
<1>9. host' \in HostState /\ Reported(h, host')
  BY <1>2, <1>6, <1>8, AnswerIsReported
<1>10. /\ host'.noted # None /\ Agrees(host') /\ lives' <= OnFile(host')
       /\ Fresh(HostStatusOf(host'), lives', resumed')
  <2>1. CASE a.kind = "apply_profile"
    <3>1. a \in Named /\ host' \in Applied(h, a, FALSE)
      BY <1>2, <1>8, <2>1 DEF Orders, Handled
    <3>2. a.resume \in BOOLEAN /\ a.profile # None /\ a \in Applications
      BY <3>1 DEF Named, Applications
    <3>3. /\ host'.noted # None /\ host'.count = Counted(h, a, FALSE)
          /\ host'.boot = FALSE
      BY <1>6, <3>1, AppliedIsNoted
    <3>4. Agrees(host')
      BY <1>6, <3>1, <3>2, AppliedAgrees
    <3>5. OnFile(host') = Counted(h, a, FALSE)
      BY <1>9, <3>3, <3>4, OnFileIsNat
    <3>6. Counted(h, a, FALSE) = IF a.resume THEN h.count + 1 ELSE 0
      BY <3>2 DEF Counted
    <3>7. lives' <= OnFile(host')
      <4>0. lives \in Nat
        BY DEF Fenced
      <4>1. CASE a.resume
        <5>1. lives' <= lives + 1 /\ OnFile(host') = h.count + 1 /\ lives <= h.count
          BY <1>5, <1>7, <2>1, <3>5, <3>6, <4>1
        <5> QED BY <1>4, <1>7, <4>0, <5>1
      <4>2. CASE ~a.resume
        BY <1>5, <2>1, <3>5, <3>6, <4>2
      <4> QED BY <4>1, <4>2
    <3>8. Fresh(HostStatusOf(host'), lives', resumed')
      BY <3>3 DEF Fresh, HostStatusOf
    <3> QED BY <3>3, <3>4, <3>7, <3>8
  <2>2. CASE a.kind # "apply_profile"
    <3>1. /\ host'.boot = h.boot /\ host'.noted # None /\ Agrees(host')
          /\ a.kind # "clear_resume" => host'.count = h.count /\ host'.file = h.file
      BY <1>2, <1>6, <1>7, <1>8, <2>2, OthersEffect
    <3>2. OnFile(host') \in Nat
      BY <1>9, OnFileIsNat
    <3>3. lives' <= OnFile(host')
      <4>1. CASE a.kind = "clear_resume"
        BY <1>5, <3>2, <4>1
      <4>2. CASE a.kind # "clear_resume"
        BY <1>5, <1>7, <2>2, <3>1, <4>2 DEF OnFile
      <4> QED BY <4>1, <4>2
    <3>4. HostStatusOf(host').boot = host.boot /\ HostStatusOf(host').previous = host.previous
      BY <1>6, <1>9, <3>1 DEF HostStatusOf, Reported
    <3>5. HostStatusOf(host) \in HostStatus /\ Fresh(HostStatusOf(host), lives, resumed)
      BY DEF Fenced, StatusesAreFresh, HostStatusOf, HostStatus, HostState, LinkTypeOK, HostTypeOK
    <3>6. Fresh(HostStatusOf(host), lives', resumed')
      BY <1>4, <3>5
    <3>7. Fresh(HostStatusOf(host'), lives', resumed')
      BY <3>4, <3>6 DEF Fresh, HostStatusOf
    <3> QED BY <3>1, <3>3, <3>7
  <2> QED BY <2>1, <2>2
<1>11. CountIsOnFile'
  BY <1>7, <1>9, <1>10 DEF CountIsOnFile, Reported
<1>12. \A i \in 1 .. Len(toObc) : Fresh(toObc[i], lives', resumed')
  <2>1. \A i \in 1 .. Len(toObc) : toObc[i] \in HostStatus
    BY DEF LinkTypeOK
  <2> QED BY <1>4, <2>1 DEF Fenced, StatusesAreFresh
<1>13. StatusesAreFresh'
  BY <1>1, <1>6, <1>9, <1>10, <1>12, ReportIsFresh
<1>14. MayAsk(lives', resumed') \/ NobodyAsks'
  BY <1>1, <1>3, <1>4 DEF Fenced, NobodyAsks
<1>15. NoneIsEarly'
  BY <1>1 DEF Fenced, NoneIsEarly
<1> QED BY <1>4, <1>11, <1>13, <1>14, <1>15 DEF Fenced

\* Once HOSTD has connected early, an action may have come before the count.
LEMMA ConnectOpensTheFence ==
  ASSUME Fenced, HostConnects PROVE SomeWasEarly'
BY SpendKeeps DEF Fenced, HostConnects

\* And that is not forgotten.
LEMMA EarlyStays ==
  ASSUME SomeWasEarly, [NextObcHostd]_vars PROVE SomeWasEarly'
<1>1. \/ UNCHANGED left
      \/ \E what \in {"asks", "crashes", "bounces", "resets", "early"} : Spend(what)
  BY DEF NextObcHostd, ObcStarts, ObcTicks, GroundAsks, GroundFreesIt, EpsSpeaks,
         StatusArrives, ObcDies, HostConnects, HostStarts, ActionArrives, HostDies,
         BrokerBounces, BoardResets, TimePasses, vars
<1>2. CASE UNCHANGED left
  BY <1>2 DEF SomeWasEarly
<1> QED BY <1>1, <1>2, SpendKeeps

\* A death inside an application keeps the count or has written the next one.
LEMMA HostDeathKeepsTheFence ==
  ASSUME LinkTypeOK, Fenced, HostDies, RecordSurvives
  PROVE  Fenced'
<1>1. /\ Spend("crashes") /\ toHost' = <<>> /\ UNCHANGED <<obc, toObc, retained>>
  BY DEF HostDies
<1>2. NoneIsEarly'
  BY <1>1, SpendKeeps DEF Fenced
<1>3. PICK h \in HostState : host' = Forgotten(h)
  BY HostDiesIs
<1>4. host' \in HostState /\ host'.phase = "down" /\ host'.boot = FALSE
  BY <1>3, ForgottenEffect
<1>5. Fresh(HostStatusOf(host'), lives', resumed')
  BY <1>4 DEF Fresh, HostStatusOf
<1>6. /\ OnFile(host) \in Nat /\ lives <= OnFile(host) /\ lives \in Nat
      /\ host.phase # "connected"
  BY OnFileIsNat DEF Fenced, CountIsOnFile, LinkTypeOK, HostTypeOK
\* The file is as it was, or has been torn where it said nothing.
<1>7. ASSUME host'.file \in {host.file, None}, UNCHANGED ghosts
      PROVE  Fenced'
  <2>1. host'.file = host.file
    BY <1>7 DEF RecordSurvives
  <2>2. OnFile(host') = OnFile(host)
    BY <2>1 DEF OnFile
  <2>3. UNCHANGED <<lives, resumed>>
    BY <1>7 DEF ghosts
  <2>4. CountIsOnFile' /\ StatusesAreFresh'
    BY <1>1, <1>4, <1>5, <1>6, <2>2, <2>3 DEF Fenced, CountIsOnFile, StatusesAreFresh
  <2>5. NobodyAsks => NobodyAsks'
    BY <1>1 DEF NobodyAsks
  <2> QED BY <1>2, <2>3, <2>4, <2>5 DEF Fenced, LivesAreFew
<1>8. CASE host' = Forgotten(host) /\ UNCHANGED ghosts
  BY <1>7, <1>8, ForgottenEffect DEF LinkTypeOK, HostTypeOK
<1>9. CASE /\ host.phase # "down" /\ toHost # <<>>
           /\ Head(toHost).kind = "apply_profile"
           /\ host' \in {Forgotten(q) : q \in Interrupted(host, Head(toHost), FALSE)}
           /\ IF host'.file \in {host.file, None} THEN UNCHANGED ghosts
              ELSE Remember(Head(toHost))
  <2> DEFINE a == Head(toHost)
  <2>1. a \in Orders
    BY <1>9 DEF LinkTypeOK
  <2>2. a \in Named /\ a.resume \in BOOLEAN
    BY <1>9, <2>1 DEF Orders, Named, Applications
  <2>3. Asks(a) => MayAsk(lives, resumed)
    <3>1. toHost \in Seq(Unasking) => a \in Unasking
      BY <1>9
    <3> QED BY <3>1 DEF Fenced, NobodyAsks, Unasking
  <2>4. host'.file \in {host.file, None, Record(host, a, FALSE)}
    <3>1. PICK q \in Interrupted(host, a, FALSE) : host' = Forgotten(q)
      BY <1>9
    <3>2. /\ q \in HostState
          /\ q.file \in {host.file, None, Record(host, a, FALSE)}
      BY <2>2, <3>1, InterruptedType DEF LinkTypeOK, HostTypeOK
    <3> QED BY <3>1, <3>2, ForgottenEffect
  <2>5. CASE host'.file \in {host.file, None}
    BY <1>7, <1>9, <2>5
  <2>6. CASE host'.file \notin {host.file, None}
    <3>1. Remember(a) /\ host'.file = Record(host, a, FALSE) /\ a.kind = "apply_profile"
      BY <1>9, <2>4, <2>6
    <3> HIDE DEF a
    <3>2. /\ lives' \in Nat /\ resumed' \in BOOLEAN /\ LivesAreFew'
          /\ MayAsk(lives, resumed) => MayAsk(lives', resumed')
          /\ \A s \in HostStatus : Fresh(s, lives, resumed) => Fresh(s, lives', resumed')
          /\ lives' <= IF a.resume THEN lives + 1 ELSE 0
      BY <2>1, <2>3, <3>1, RememberKeeps DEF Fenced
    <3>3. lives <= host.count /\ host.count \in Nat
      <4>1. host \in HostState
        BY DEF LinkTypeOK, HostTypeOK
      <4>2. host.phase = "serving"
        BY <1>6, <1>9, <4>1 DEF HostState
      <4>3. host.noted # None /\ Agrees(host)
        BY <4>2 DEF Fenced, CountIsOnFile
      <4>4. OnFile(host) = host.count
        BY <4>1, <4>3, OnFileIsNat
      <4> QED BY <1>6, <4>4
    <3>4. OnFile(host') = IF a.resume THEN host.count + 1 ELSE 0
      <4>1. host'.file # None
        BY <2>6
      <4>2. OnFile(host') = Counted(host, a, FALSE)
        <5>1. Record(host, a, FALSE).count = Counted(host, a, FALSE)
          BY DEF Record
        <5> QED BY <3>1, <4>1, <5>1 DEF OnFile
      <4> QED BY <2>2, <4>2 DEF Counted
    <3>5. lives' <= OnFile(host')
      <4>1. CASE a.resume
        <5>1. lives' <= lives + 1 /\ OnFile(host') = host.count + 1
          BY <3>2, <3>4, <4>1
        <5> QED BY <1>6, <3>2, <3>3, <5>1
      <4>2. CASE ~a.resume
        BY <3>2, <3>4, <4>2
      <4> QED BY <4>1, <4>2
    <3>6. CountIsOnFile'
      BY <1>4, <3>5 DEF CountIsOnFile
    <3>7. StatusesAreFresh'
      <4>1. /\ \A i \in 1 .. Len(toObc) : toObc[i] \in HostStatus
            /\ retained # None => retained \in HostStatus
        BY DEF LinkTypeOK
      <4> QED BY <1>1, <1>5, <3>2, <4>1 DEF Fenced, StatusesAreFresh
    <3>8. NobodyAsks => NobodyAsks'
      BY <1>1 DEF NobodyAsks
    <3> QED BY <1>2, <3>2, <3>6, <3>7, <3>8 DEF Fenced
  <2> QED BY <2>5, <2>6
<1>10. CASE /\ host' \in {Forgotten(q) :
                           q \in Interrupted(Recalled(host), DefaultAction, TRUE)}
            /\ UNCHANGED ghosts
  <2>1. PICK q \in Interrupted(Recalled(host), DefaultAction, TRUE) : host' = Forgotten(q)
    BY <1>10
  <2>2. /\ Recalled(host) \in HostState /\ Recalled(host).file = host.file
        /\ Recalled(host).count = OnFile(host)
    BY RecalledEffect DEF LinkTypeOK, HostTypeOK, OnFile
  <2>3. /\ q \in HostState
        /\ q.file \in {host.file, None, Record(Recalled(host), DefaultAction, TRUE)}
    BY <2>1, <2>2, InterruptedType, DefaultIsNamed
  <2>4. host'.file = q.file
    BY <2>1, <2>3, ForgottenEffect
  <2>5. CASE host'.file \in {host.file, None}
    BY <1>7, <1>10, <2>5
  <2>6. CASE host'.file \notin {host.file, None}
    <3>1. host'.file = Record(Recalled(host), DefaultAction, TRUE) /\ host'.file # None
      BY <2>3, <2>4, <2>6
    <3>2. OnFile(host') = OnFile(host)
      BY <2>2, <3>1 DEF OnFile, Record, Counted, DefaultAction
    <3>3. UNCHANGED <<lives, resumed>>
      BY <1>10 DEF ghosts
    <3>4. CountIsOnFile' /\ StatusesAreFresh'
      BY <1>1, <1>4, <1>5, <1>6, <3>2, <3>3 DEF Fenced, CountIsOnFile, StatusesAreFresh
    <3>5. NobodyAsks => NobodyAsks'
      BY <1>1 DEF NobodyAsks
    <3> QED BY <1>2, <3>3, <3>4, <3>5 DEF Fenced, LivesAreFew
  <2> QED BY <2>5, <2>6
<1> QED BY <1>8, <1>9, <1>10 DEF HostDies

\* The board forgets everything but the file.
LEMMA ResetKeepsTheFence ==
  ASSUME LinkTypeOK, Fenced, BoardResets
  PROVE  Fenced'
<1>1. /\ Spend("resets") /\ obc' = InitObc /\ host' \in PowerCycled(host)
      /\ toHost' = <<>> /\ toObc' = <<>> /\ retained' = None
      /\ resumed' = FALSE /\ lives' = lives
  BY DEF BoardResets
<1>2. NoneIsEarly'
  BY <1>1, SpendKeeps DEF Fenced
<1>3. /\ host'.phase = "down" /\ host'.file = host.file /\ host'.boot = FALSE
  BY <1>1, PowerCycledEffect DEF LinkTypeOK, HostTypeOK
<1>4. CountIsOnFile'
  BY <1>1, <1>3 DEF Fenced, CountIsOnFile, OnFile
<1>5. StatusesAreFresh'
  BY <1>1, <1>3 DEF StatusesAreFresh, Fresh, HostStatusOf
<1>6. NobodyAsks'
  BY <1>1 DEF NobodyAsks, InitObc, InitResume
<1> QED BY <1>1, <1>2, <1>4, <1>5, <1>6 DEF Fenced, LivesAreFew

\* A broker that starts again is told what HOSTD last read of the file.
LEMMA BounceKeepsTheFence ==
  ASSUME LinkTypeOK, Fenced, BrokerBounces
  PROVE  Fenced'
<1>1. /\ Spend("bounces") /\ toHost' = <<>> /\ UNCHANGED <<obc, lives, resumed>>
  BY DEF BrokerBounces, ghosts
<1>2. NoneIsEarly'
  BY <1>1, SpendKeeps DEF Fenced
<1>3. NobodyAsks => NobodyAsks'
  BY <1>1 DEF NobodyAsks
<1> DEFINE h == QuietHost
<1>4. /\ h \in HostState /\ h.phase = host.phase /\ h.noted = host.noted
      /\ h.file = host.file /\ h.count = host.count /\ h.boot = host.boot
      /\ h.previous = host.previous /\ h.out = <<>>
  BY QuietEffect DEF LinkTypeOK
<1>5. \/ /\ host' = PublishHost(h) /\ toObc' = host'.out /\ retained' = host'.out[1]
      \/ host' = h /\ toObc' = <<>> /\ retained' = None
  BY DEF BrokerBounces
<1> HIDE DEF h
<1>6. /\ host'.phase = host.phase /\ host'.noted = host.noted
      /\ host'.file = host.file /\ host'.count = host.count /\ host'.boot = host.boot
      /\ host'.previous = host.previous
  <2>1. CASE host' = h
    BY <1>4, <2>1
  <2>2. CASE host' = PublishHost(h)
    <3>1. host' = [h EXCEPT !.out = host'.out]
      BY <1>4, <2>2, PublishHostEffect
    <3> QED BY <1>4, <3>1 DEF HostState
  <2> QED BY <1>5, <2>1, <2>2
<1>7. CountIsOnFile'
  BY <1>1, <1>6 DEF Fenced, CountIsOnFile, OnFile, Agrees
<1> DEFINE s == HostStatusOf(host')
<1>8. s = HostStatusOf(host') /\ Fresh(s, lives', resumed')
  BY <1>1, <1>6 DEF Fenced, StatusesAreFresh, Fresh, HostStatusOf
<1> HIDE DEF s
<1>9. StatusesAreFresh'
  <2>1. CASE toObc' = <<>> /\ retained' = None
    BY <1>8, <2>1 DEF StatusesAreFresh
  <2>2. CASE /\ host' = PublishHost(h) /\ toObc' = host'.out
             /\ retained' = host'.out[1]
    <3>1. host'.out = Append(<<>>, s)
      BY <1>4, <1>8, <2>2, PublishHostEffect DEF Reported
    <3>2. toObc' = <<s>> /\ Len(toObc') = 1 /\ toObc'[1] = s /\ retained' = s
      BY <2>2, <3>1
    <3> QED BY <1>8, <3>2 DEF StatusesAreFresh
  <2> QED BY <1>5, <2>1, <2>2
<1> QED BY <1>1, <1>2, <1>3, <1>7, <1>9 DEF Fenced, LivesAreFew

\* Time passes for deadlines, not for counts.
LEMMA TimeKeepsTheFence ==
  ASSUME LinkTypeOK, Fenced, TimePasses
  PROVE  Fenced'
<1>1. /\ obc' = Elapsed /\ host' = HostElapsed(host)
      /\ toObc' = [i \in DOMAIN toObc |-> StatusElapsed(toObc[i])]
      /\ retained' = IF retained = None THEN None ELSE StatusElapsed(retained)
      /\ UNCHANGED <<toHost, left, lives, resumed>>
  BY DEF TimePasses, Elapse, HostElapse, ghosts
<1>2. obc'.resume.candidate = obc.resume.candidate
  <2>1. obc'.resume = ResumeElapse(obc.resume)
    BY <1>1 DEF Elapsed, Quiet, LinkTypeOK, TypeOK, ObcState
  <2>2. obc.resume \in ResumeState
    BY DEF LinkTypeOK, TypeOK, ObcState
  <2> QED BY <2>1, <2>2 DEF ResumeElapse, ResumeState
<1>3. NobodyAsks => NobodyAsks'
  BY <1>1, <1>2 DEF NobodyAsks
<1>4. /\ host'.phase = host.phase /\ host'.boot = host.boot
      /\ Alike(host.noted, host'.noted) /\ Alike(host.file, host'.file)
      /\ Alike(host.previous, host'.previous)
      /\ Agrees(host) => Agrees(host')
  BY <1>1, ElapsedEffect DEF LinkTypeOK, HostTypeOK
<1>5. CountIsOnFile'
  <2>1. OnFile(host') = OnFile(host)
    BY <1>4 DEF OnFile, Alike
  <2>2. host.noted # None => host'.noted # None
    BY <1>4 DEF Alike
  <2> QED BY <1>1, <1>4, <2>1, <2>2 DEF Fenced, CountIsOnFile
<1>6. \A s \in HostStatus :
        Fresh(s, lives, resumed) => Fresh(StatusElapsed(s), lives, resumed)
  BY StatusElapsedEffect DEF Fresh
<1>7. Fresh(HostStatusOf(host'), lives, resumed)
  <2>1. Fresh(HostStatusOf(host), lives, resumed)
    BY DEF Fenced, StatusesAreFresh
  <2> QED BY <1>4, <2>1 DEF Fresh, HostStatusOf, Alike
<1>8. retained' # None => Fresh(retained', lives, resumed)
  BY <1>1, <1>6 DEF Fenced, StatusesAreFresh, LinkTypeOK
<1>9. \A i \in 1 .. Len(toObc') : Fresh(toObc'[i], lives, resumed)
  <2>1. toObc \in Seq(HostStatus) /\ Len(toObc) \in Nat /\ DOMAIN toObc = 1 .. Len(toObc)
    BY DEF LinkTypeOK
  <2>2. toObc' = [i \in 1 .. Len(toObc) |-> StatusElapsed(toObc[i])]
    BY <1>1, <2>1
  <2>3. Len(toObc') = Len(toObc)
    BY <2>1, <2>2
  <2>4. \A i \in 1 .. Len(toObc) : toObc[i] \in HostStatus
    BY <2>1
  <2>5. \A i \in 1 .. Len(toObc) : Fresh(toObc[i], lives, resumed)
    BY DEF Fenced, StatusesAreFresh
  <2> QED BY <1>6, <2>2, <2>3, <2>4, <2>5
<1>10. StatusesAreFresh'
  BY <1>1, <1>7, <1>8, <1>9 DEF StatusesAreFresh
<1> QED BY <1>1, <1>3, <1>5, <1>10 DEF Fenced, LivesAreFew, NoneIsEarly

\* Every step keeps the fence, or is early.
LEMMA FenceStepKeeps ==
  ASSUME Mishaps \cap {"file", "torn"} = {},
         LinkInv, LinkInv', Unanswered, Fenced, RecordSurvives, [NextObcHostd]_vars
  PROVE  Fenced' \/ SomeWasEarly'
<1>0. LinkTypeOK /\ obc' \in ObcState
  BY DEF LinkInv, LinkTypeOK, TypeOK
<1>1. CASE OwnSteps
  BY <1>0, <1>1, OwnStepsKeepTheFence
<1>2. CASE StatusArrives
  BY <1>0, <1>2, StatusKeepsTheFence
<1>3. CASE ObcDies
  BY <1>3, ObcDeathKeepsTheFence
<1>4. CASE HostConnects
  BY <1>4, ConnectOpensTheFence
<1>5. CASE HostStarts
  BY <1>0, <1>5, StartKeepsTheFence
<1>6. CASE ActionArrives
  BY <1>0, <1>6, ActionKeepsTheFence
<1>7. CASE HostDies
  BY <1>0, <1>7, HostDeathKeepsTheFence
<1>8. CASE BrokerBounces
  BY <1>0, <1>8, BounceKeepsTheFence
<1>9. CASE BoardResets
  BY <1>0, <1>9, ResetKeepsTheFence
<1>10. CASE TimePasses
  BY <1>0, <1>10, TimeKeepsTheFence
<1>11. CASE UNCHANGED vars
  <2>1. UNCHANGED <<obc, host, toHost, toObc, retained, left, lives, resumed>>
    BY <1>11 DEF vars, ghosts
  <2> QED BY <2>1 DEF Fenced, NoneIsEarly, LivesAreFew, CountIsOnFile, Agrees, OnFile,
                      StatusesAreFresh, NobodyAsks
<1> QED BY <1>1, <1>2, <1>3, <1>4, <1>5, <1>6, <1>7, <1>8, <1>9, <1>10, <1>11
        DEF NextObcHostd, OwnSteps

\* No life has been lived when the satellite is delivered.
LEMMA InitFenced == InitObcHostd => Fenced
<1> SUFFICES ASSUME InitObcHostd PROVE Fenced
  OBVIOUS
<1>1. /\ lives = 0 /\ resumed = FALSE
      /\ obc = InitObc /\ host = InitHost
      /\ toHost = <<>> /\ toObc = <<>> /\ retained = None
  BY DEF InitObcHostd, Init, HostInit
<1>2. NoneIsEarly
  BY DEF InitObcHostd, NoneIsEarly
<1>3. LivesAreFew
  BY <1>1, ResumeAssumption DEF LivesAreFew
<1>4. CountIsOnFile
  BY <1>1 DEF CountIsOnFile, InitHost, OnFile
<1>5. StatusesAreFresh
  BY <1>1 DEF StatusesAreFresh, Fresh, HostStatusOf, InitHost
<1>6. NobodyAsks
  BY <1>1 DEF NobodyAsks, InitObc, InitResume
<1> QED BY <1>1, <1>2, <1>3, <1>4, <1>5, <1>6 DEF Fenced

\* The fence holds however many resumes are lost with their processes, their
\* broker or their board: where the file can be written, no death tears it, and
\* as long as no action has reached HOSTD before it read the count.
THEOREM BootLoopIsFenced ==
  ASSUME Mishaps \cap {"file", "torn"} = {}
  PROVE  SpecObcHostd /\ [][RecordSurvives]_vars => []FenceHolds
<1> DEFINE FencedSoFar == LinkInv /\ Unanswered /\ (Fenced \/ SomeWasEarly)
<1>1. InitObcHostd => FencedSoFar
  BY LinkInit, InitUnanswered, InitFenced
<1>2. FencedSoFar /\ [NextObcHostd]_vars /\ [RecordSurvives]_vars => FencedSoFar'
  <2>1. SUFFICES ASSUME FencedSoFar, [NextObcHostd]_vars, [RecordSurvives]_vars
                 PROVE  FencedSoFar'
    OBVIOUS
  <2>2. LinkInv' /\ Unanswered'
    BY <2>1, LinkStepKeeps, QuestionStepKeeps DEF LinkInv
  <2>3. RecordSurvives
    BY <2>1 DEF RecordSurvives, vars
  <2>4. Fenced' \/ SomeWasEarly'
    <3>1. CASE Fenced
      BY <2>1, <2>2, <2>3, <3>1, FenceStepKeeps
    <3>2. CASE SomeWasEarly
      BY <2>1, <3>2, EarlyStays
    <3> QED BY <2>1, <3>1, <3>2
  <2> QED BY <2>2, <2>4
<1>3. FencedSoFar => FenceHolds
  BY DEF Fenced, LivesAreFew, SomeWasEarly, FenceHolds
<1> HIDE DEF RecordSurvives, FencedSoFar
<1> QED BY <1>1, <1>2, <1>3, PTL DEF SpecObcHostd
=============================================================================
