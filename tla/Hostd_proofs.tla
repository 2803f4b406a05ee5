---------------------------- MODULE Hostd_proofs ----------------------------
(***************************************************************************)
(* Proofs about Hostd, for every profile table, every set of units and     *)
(* every action that may be sent.  An application is the one operation     *)
(* that changes much: it is described field by field once, and the three   *)
(* theorems read it from there.                                            *)
(***************************************************************************)
EXTENDS Hostd, TLAPS

\* The actions that apply a profile, and those that name one.
Applications == [kind: {"apply_profile"}, profile: Profiles \cup {None},
                 ttl: Nat \cup {None}, resume: BOOLEAN]
Named == {a \in Applications : a.profile # None}

\* The resume count an application ends with.
Counted(h, a, boot) == CASE a.resume -> h.count + 1
                         [] ~a.resume /\ boot -> h.count
                         [] OTHER -> 0

\* The record it means last-profile to hold.
Record(h, a, boot) == [profile |-> a.profile, ttl |-> DeadlineFor(a.profile, a.ttl),
                       count |-> Counted(h, a, boot)]

(***************************************************************************)
(* What the operations do.                                                 *)
(***************************************************************************)

\* A record of last-profile is a record, and None is not one.
LEMMA RecordType ==
  ASSUME NEW h \in HostState, NEW a \in Named, NEW boot \in BOOLEAN
  PROVE  /\ DeadlineFor(a.profile, a.ttl) \in Nat \cup {None}
         /\ Counted(h, a, boot) \in Nat
         /\ Record(h, a, boot) \in PreviousRun
         /\ Record(h, a, boot) # None
<1>1. a.profile \in Profiles /\ a.ttl \in Nat \cup {None} /\ a.resume \in BOOLEAN
  BY DEF Named, Applications
<1>2. DeadlineFor(a.profile, a.ttl) \in Nat \cup {None}
  BY <1>1, ProfileTable DEF DeadlineFor
<1>3. Counted(h, a, boot) \in Nat
  <2>1. h.count \in Nat
    BY DEF HostState
  <2> QED BY <1>1, <2>1 DEF Counted
<1>4. Record(h, a, boot) \in PreviousRun
  BY <1>1, <1>2, <1>3 DEF Record, PreviousRun
<1>5. None \notin PreviousRun
  BY ProfileTable DEF PreviousRun
<1> QED BY <1>2, <1>3, <1>4, <1>5

\* One status has been published, and it says what is then the case.
Reported(h, n) ==
  /\ n.phase = h.phase /\ n.previous = h.previous
  /\ n.out = Append(h.out, HostStatusOf(n))

\* Publishing the host status changes nothing else.
LEMMA PublishHostEffect ==
  ASSUME NEW h \in HostState
  PROVE  /\ PublishHost(h) \in HostState
         /\ PublishHost(h) = [h EXCEPT !.out = PublishHost(h).out]
         /\ Reported(h, PublishHost(h))
<1>1. HostStatusOf(h) \in HostStatus
  BY DEF HostStatusOf, HostStatus, HostState
<1>2. h.out \in Seq(HostStatus)
  BY DEF HostState
<1>3. Append(h.out, HostStatusOf(h)) \in Seq(HostStatus)
  BY <1>1, <1>2
<1>4. /\ PublishHost(h) \in HostState
      /\ PublishHost(h) = [h EXCEPT !.out = PublishHost(h).out]
  BY SMTT(40), <1>3 DEF PublishHost, HostState
<1>5. Reported(h, PublishHost(h))
  BY DEF PublishHost, Reported, HostStatusOf, HostState
<1> QED BY <1>4, <1>5

\* The steps of an application keep the type, whatever they are given.
LEMMA StepTypes ==
  ASSUME NEW h \in HostState
  PROVE  /\ \A b \in BOOLEAN, p \in Profiles, left \in SUBSET Units :
              [h EXCEPT !.requested = p, !.boot = b, !.running = left] \in HostState
         /\ \A n \in Network, r \in Radio, c \in BOOLEAN :
              [h EXCEPT !.network = n, !.radio = r, !.clean = c] \in HostState
         /\ \A g \in Governors \cup {None} : [h EXCEPT !.cpu = g] \in HostState
         /\ \A t \in Nat \cup {None} : [h EXCEPT !.ttl = t] \in HostState
         /\ \A k \in Nat, r \in PreviousRun, f \in PreviousRun \cup {None} :
              [h EXCEPT !.count = k, !.noted = r, !.file = f] \in HostState
         /\ \A p \in Profiles \cup {None} : [h EXCEPT !.achieved = p] \in HostState
<1>1. \A b \in BOOLEAN, p \in Profiles, left \in SUBSET Units :
        [h EXCEPT !.requested = p, !.boot = b, !.running = left] \in HostState
  BY DEF HostState
<1>2. \A n \in Network, r \in Radio, c \in BOOLEAN :
        [h EXCEPT !.network = n, !.radio = r, !.clean = c] \in HostState
  BY DEF HostState
<1>3. \A g \in Governors \cup {None} : [h EXCEPT !.cpu = g] \in HostState
  BY DEF HostState
<1>4. \A t \in Nat \cup {None} : [h EXCEPT !.ttl = t] \in HostState
  BY DEF HostState
<1>5. \A k \in Nat, r \in PreviousRun, f \in PreviousRun \cup {None} :
        [h EXCEPT !.count = k, !.noted = r, !.file = f] \in HostState
  BY DEF HostState
<1>6. \A p \in Profiles \cup {None} : [h EXCEPT !.achieved = p] \in HostState
  BY DEF HostState
<1> QED BY <1>1, <1>2, <1>3, <1>4, <1>5, <1>6

\* What is written to last-profile is a record or nothing.
LEMMA WrittenType ==
  ASSUME NEW h \in HostState, NEW r \in PreviousRun, NEW wrong
  PROVE  Written(h, r, wrong) \in PreviousRun \cup {None}
BY DEF Written, HostState

\* An application of a known profile, field by field.
LEMMA ApplyEffect ==
  ASSUME NEW h \in HostState, NEW a \in Named, NEW boot \in BOOLEAN,
         NEW wrong, NEW left, NEW radio
  PROVE  LET n == ApplyProfile(h, a, boot, wrong, left, radio)
         IN  /\ n.phase = h.phase
             /\ n.achieved = IF Partial(h, a.profile, wrong) THEN h.achieved
                             ELSE a.profile
             /\ n.running = left /\ n.radio = radio
             /\ n.cpu = IF "governor" \in wrong THEN None
                        ELSE GovernorOf[a.profile]
             /\ n.network = NetworkOf[a.profile]
             /\ n.clean = (NetworkKept(h, a.profile) \/ "network" \notin wrong)
             /\ n.count = Counted(h, a, boot)
             /\ n.noted = Record(h, a, boot)
             /\ n.file = Written(h, Record(h, a, boot), wrong)
             /\ n.boot = boot
             /\ Reported(h, n)
<1> DEFINE asked   == [h EXCEPT !.requested = a.profile, !.boot = boot,
                                !.running = left]
           switched == SwitchNetwork(asked, a.profile, wrong, radio)
           powered == ApplyGovernor(switched, GovernorOf[a.profile], wrong)
           timed   == [powered EXCEPT !.ttl = DeadlineFor(a.profile, a.ttl)]
           noted   == NoteProfile(timed, a, boot, wrong)
           named   == [noted EXCEPT
                         !.achieved = IF Partial(h, a.profile, wrong) THEN @
                                      ELSE a.profile]
           clean   == NetworkKept(h, a.profile) \/ "network" \notin wrong
           cpu     == IF "governor" \in wrong THEN None
                      ELSE GovernorOf[a.profile]
           achieved == IF Partial(h, a.profile, wrong) THEN h.achieved
                       ELSE a.profile
           count   == Counted(h, a, boot)
           record  == Record(h, a, boot)
           file    == Written(h, record, wrong)
           network == NetworkOf[a.profile]
           ttl     == DeadlineFor(a.profile, a.ttl)
<1>1. a.profile # None
  BY DEF Named
<1>2. switched = [h EXCEPT !.requested = a.profile, !.boot = boot,
                           !.running = left, !.network = NetworkOf[a.profile],
                           !.radio = radio, !.clean = clean]
  BY DEF SwitchNetwork, NetworkKept, HostState
<1> HIDE DEF asked, switched, clean
<1>3. powered = [h EXCEPT !.requested = a.profile, !.boot = boot,
                          !.running = left, !.network = NetworkOf[a.profile],
                          !.radio = radio, !.clean = clean, !.cpu = cpu]
  BY <1>2 DEF ApplyGovernor, HostState
<1> HIDE DEF powered, cpu
<1>4. timed = [h EXCEPT !.requested = a.profile, !.boot = boot,
                        !.running = left, !.network = NetworkOf[a.profile],
                        !.radio = radio, !.clean = clean, !.cpu = cpu,
                        !.ttl = DeadlineFor(a.profile, a.ttl)]
  BY <1>3 DEF HostState
<1> HIDE DEF timed
<1>5. noted = [timed EXCEPT !.count = Counted(h, a, boot),
                            !.noted = Record(h, a, boot),
                            !.file = Written(h, Record(h, a, boot), wrong)]
  <2>1. /\ timed.count = h.count /\ timed.file = h.file
        /\ timed.ttl = DeadlineFor(a.profile, a.ttl)
    BY <1>4 DEF HostState
  <2>2. Written(timed, Record(h, a, boot), wrong)
          = Written(h, Record(h, a, boot), wrong)
    BY <2>1 DEF Written
  <2> QED BY <2>1, <2>2 DEF NoteProfile, Counted, Record
<1> HIDE DEF noted
<1>6. noted.achieved = h.achieved
  BY <1>4, <1>5 DEF HostState
<1>7. named = [h EXCEPT !.requested = a.profile, !.boot = boot,
                        !.running = left, !.network = NetworkOf[a.profile],
                        !.radio = radio, !.clean = clean, !.cpu = cpu,
                        !.ttl = DeadlineFor(a.profile, a.ttl),
                        !.count = Counted(h, a, boot),
                        !.noted = Record(h, a, boot),
                        !.file = Written(h, Record(h, a, boot), wrong),
                        !.achieved = IF Partial(h, a.profile, wrong)
                                     THEN h.achieved ELSE a.profile]
  BY <1>4, <1>5, <1>6 DEF HostState
<1>8. ApplyProfile(h, a, boot, wrong, left, radio) = PublishHost(named)
  BY <1>1 DEF ApplyProfile, named, noted, timed, powered, switched, asked
<1> HIDE DEF named
<1>9. PublishHost(named) = [named EXCEPT !.out = Append(@, HostStatusOf(named))]
  BY DEF PublishHost
<1>10. /\ named.phase = h.phase /\ named.achieved = achieved
       /\ named.running = left /\ named.radio = radio /\ named.cpu = cpu
       /\ named.network = network /\ named.clean = clean
       /\ named.count = count /\ named.noted = record /\ named.file = file
  BY <1>7 DEF HostState
<1>11. /\ named.boot = boot /\ named.previous = h.previous /\ named.out = h.out
       /\ DOMAIN named = DOMAIN h
  BY <1>7 DEF HostState
<1> DEFINE n == [named EXCEPT !.out = Append(@, HostStatusOf(named))]
<1>12. n.boot = boot /\ Reported(h, n)
  BY <1>10, <1>11 DEF Reported, HostStatusOf, HostState
<1>13. /\ n.phase = h.phase /\ n.achieved = achieved
       /\ n.running = left /\ n.radio = radio /\ n.cpu = cpu
       /\ n.network = network /\ n.clean = clean
       /\ n.count = count /\ n.noted = record /\ n.file = file
  BY <1>10, <1>11 DEF HostState
<1>14. ApplyProfile(h, a, boot, wrong, left, radio) = n
  BY <1>8, <1>9
<1> HIDE DEF n
<1> QED BY <1>12, <1>13, <1>14 DEF cpu, clean

\* It leaves a state.
LEMMA ApplyType ==
  ASSUME NEW h \in HostState, NEW a \in Named, NEW boot \in BOOLEAN,
         NEW wrong, NEW left \in SUBSET Units, NEW radio \in Radio
  PROVE  ApplyProfile(h, a, boot, wrong, left, radio) \in HostState
<1> DEFINE asked   == [h EXCEPT !.requested = a.profile, !.boot = boot,
                                !.running = left]
           switched == SwitchNetwork(asked, a.profile, wrong, radio)
           powered == ApplyGovernor(switched, GovernorOf[a.profile], wrong)
           timed   == [powered EXCEPT !.ttl = DeadlineFor(a.profile, a.ttl)]
           noted   == NoteProfile(timed, a, boot, wrong)
           named   == [noted EXCEPT
                         !.achieved = IF Partial(h, a.profile, wrong) THEN @
                                      ELSE a.profile]
<1>1. /\ a.profile \in Profiles /\ a.profile # None
      /\ NetworkOf[a.profile] \in Network
      /\ GovernorOf[a.profile] \in Governors
  BY ProfileTable, HostdAssumption DEF Named, Applications
<1>2. asked \in HostState
  BY <1>1, StepTypes
<1> HIDE DEF asked
<1>3. switched \in HostState
  <2>1. (NetworkKept(asked, a.profile) \/ "network" \notin wrong) \in BOOLEAN
    OBVIOUS
  <2> QED BY <1>1, <1>2, <2>1, StepTypes DEF SwitchNetwork
<1> HIDE DEF switched
<1>4. powered \in HostState
  BY <1>1, <1>3, StepTypes DEF ApplyGovernor
<1> HIDE DEF powered
<1>5. timed \in HostState
  BY <1>4, RecordType, StepTypes
<1>6. timed.ttl = DeadlineFor(a.profile, a.ttl)
  BY <1>4 DEF HostState
<1> HIDE DEF timed
<1>7. noted \in HostState
  <2> DEFINE record == Record(timed, a, boot)
  <2>1. noted = [timed EXCEPT !.count = Counted(timed, a, boot), !.noted = record,
                              !.file = Written(timed, record, wrong)]
    BY <1>6 DEF NoteProfile, Counted, Record
  <2>2. Counted(timed, a, boot) \in Nat /\ record \in PreviousRun
    BY <1>5, RecordType
  <2>3. Written(timed, record, wrong) \in PreviousRun \cup {None}
    BY <1>5, <2>2, WrittenType
  <2> HIDE DEF record, noted
  <2> QED BY <1>5, <2>1, <2>2, <2>3, StepTypes
<1>8. noted.achieved \in Profiles \cup {None}
  BY <1>7 DEF HostState
<1> HIDE DEF noted
<1>9. named \in HostState
  BY <1>1, <1>7, <1>8, StepTypes
<1>10. ApplyProfile(h, a, boot, wrong, left, radio) = PublishHost(named)
  BY <1>1 DEF ApplyProfile, named, noted, timed, powered, switched, asked
<1> QED BY <1>9, <1>10, PublishHostEffect

(***************************************************************************)
(* The ways an operation may go.                                           *)
(***************************************************************************)

\* Units and radio may be left as some set of units and some radio; with no
\* unit failing the wanted ones run, and with no network failing, nor an access
\* point that stays up unnoticed, the radio is in its mode or was kept as it is.
LEMMA MayBe ==
  ASSUME NEW h \in HostState, NEW p \in Profiles, NEW wrong
  PROVE  /\ UnitsMayBe(h, p, wrong) \subseteq SUBSET Units
         /\ RadioMayBe(h, p, wrong) \subseteq Radio
         /\ "unit" \notin wrong => UnitsMayBe(h, p, wrong) = {WantedOf[p]}
         /\ "network" \notin wrong /\ "leave_ap" \notin wrong
              => RadioMayBe(h, p, wrong)
                   = {IF NetworkKept(h, p) THEN h.radio ELSE NetworkOf[p].mode}
         /\ NetworkKept(h, p) => RadioMayBe(h, p, wrong) = {h.radio}
<1>1. WantedOf[p] \subseteq Units /\ h.radio \in Radio /\ h.running \subseteq Units
  BY HostdAssumption DEF HostState
<1>2. NetworkOf[p].mode \in Radio /\ None \in Radio /\ "ap" \in Radio
  BY HostdAssumption DEF Network, Radio
<1>3. UnitsMayBe(h, p, wrong) \subseteq SUBSET Units
  BY <1>1 DEF UnitsMayBe
<1>4. RadioMayBe(h, p, wrong) \subseteq Radio
  BY <1>1, <1>2 DEF RadioMayBe
<1>5. "unit" \notin wrong => UnitsMayBe(h, p, wrong) = {WantedOf[p]}
  BY DEF UnitsMayBe
<1>6. "network" \notin wrong /\ "leave_ap" \notin wrong
        => RadioMayBe(h, p, wrong)
             = {IF NetworkKept(h, p) THEN h.radio ELSE NetworkOf[p].mode}
  BY DEF RadioMayBe
<1>7. NetworkKept(h, p) => RadioMayBe(h, p, wrong) = {h.radio}
  BY DEF RadioMayBe
<1> QED BY <1>3, <1>4, <1>5, <1>6, <1>7

\* An application is refused whole or is one application with its failures.
LEMMA AppliedIs ==
  ASSUME NEW h \in HostState, NEW a \in Applications, NEW boot \in BOOLEAN,
         NEW n \in Applied(h, a, boot)
  PROVE  \/ /\ a.profile = None
            /\ n = PublishHost([h EXCEPT !.requested = None])
         \/ /\ a \in Named
            /\ \E wrong \in SUBSET Mishaps :
                 \E left \in UnitsMayBe(h, a.profile, wrong) :
                   \E radio \in RadioMayBe(h, a.profile, wrong) :
                     n = ApplyProfile(h, a, boot, wrong, left, radio)
<1>1. CASE a.profile = None
  BY <1>1 DEF Applied, ApplyProfile
<1>2. CASE a.profile # None
  <2>1. a \in Named
    BY <1>2 DEF Named
  <2>2. \E wrong \in SUBSET Mishaps :
          n \in UNION { {ApplyProfile(h, a, boot, wrong, left, radio) :
                           radio \in RadioMayBe(h, a.profile, wrong)} :
                         left \in UnitsMayBe(h, a.profile, wrong) }
    BY <1>2 DEF Applied
  <2>3. PICK wrong \in SUBSET Mishaps :
          \E left \in UnitsMayBe(h, a.profile, wrong) :
            n \in {ApplyProfile(h, a, boot, wrong, left, radio) :
                     radio \in RadioMayBe(h, a.profile, wrong)}
    BY <2>2
  <2> QED BY <2>1, <2>3
<1> QED BY <1>1, <1>2

\* A refused application publishes and remembers the refusal.
LEMMA RefusedEffect ==
  ASSUME NEW h \in HostState
  PROVE  LET n == PublishHost([h EXCEPT !.requested = None])
         IN  /\ n \in HostState
             /\ n.achieved = h.achieved /\ n.radio = h.radio
             /\ n.network = h.network /\ n.clean = h.clean
             /\ n.noted = h.noted /\ n.file = h.file /\ n.count = h.count
             /\ n.boot = h.boot
             /\ Reported(h, n)
<1> DEFINE asked == [h EXCEPT !.requested = None]
<1>1. asked \in HostState
  BY DEF HostState
<1>2. PublishHost(asked) = [h EXCEPT !.requested = None,
                                     !.out = PublishHost(asked).out]
  BY <1>1, PublishHostEffect DEF HostState
<1>3. Reported(h, PublishHost(asked))
  <2>1. Reported(asked, PublishHost(asked))
    BY <1>1, PublishHostEffect
  <2>2. /\ asked.phase = h.phase /\ asked.previous = h.previous
        /\ asked.out = h.out
    BY DEF HostState
  <2> QED BY <2>1, <2>2 DEF Reported
<1> QED BY <1>1, <1>2, <1>3, PublishHostEffect DEF HostState

\* However an application goes, it leaves a state.
LEMMA AppliedType ==
  ASSUME NEW h \in HostState, NEW a \in Applications, NEW boot \in BOOLEAN,
         NEW n \in Applied(h, a, boot)
  PROVE  n \in HostState
<1>1. CASE /\ a.profile = None
           /\ n = PublishHost([h EXCEPT !.requested = None])
  BY <1>1, RefusedEffect
<1>2. CASE /\ a \in Named
           /\ \E wrong \in SUBSET Mishaps :
                \E left \in UnitsMayBe(h, a.profile, wrong) :
                  \E radio \in RadioMayBe(h, a.profile, wrong) :
                    n = ApplyProfile(h, a, boot, wrong, left, radio)
  <2>1. PICK wrong \in SUBSET Mishaps :
          \E left \in UnitsMayBe(h, a.profile, wrong) :
            \E radio \in RadioMayBe(h, a.profile, wrong) :
              n = ApplyProfile(h, a, boot, wrong, left, radio)
    BY <1>2
  <2>2. a.profile \in Profiles
    BY <1>2 DEF Named, Applications
  <2>3. PICK left \in SUBSET Units, radio \in Radio :
          n = ApplyProfile(h, a, boot, wrong, left, radio)
    BY <2>1, <2>2, MayBe
  <2> QED BY <1>2, <2>3, ApplyType
<1> QED BY <1>1, <1>2, AppliedIs

\* It ends in one report.
LEMMA ApplicationIsReported ==
  ASSUME NEW h \in HostState, NEW a \in Applications, NEW boot \in BOOLEAN,
         NEW n \in Applied(h, a, boot)
  PROVE  n \in HostState /\ Reported(h, n)
<1>1. CASE /\ a.profile = None
           /\ n = PublishHost([h EXCEPT !.requested = None])
  BY <1>1, RefusedEffect
<1>2. CASE /\ a \in Named
           /\ \E wrong \in SUBSET Mishaps :
                \E left \in UnitsMayBe(h, a.profile, wrong) :
                  \E radio \in RadioMayBe(h, a.profile, wrong) :
                    n = ApplyProfile(h, a, boot, wrong, left, radio)
  BY <1>2, ApplyEffect, AppliedType
<1> QED BY <1>1, <1>2, AppliedIs

\* An action is an application or one of the four others.
LEMMA ActionKinds ==
  ASSUME NEW a \in Action
  PROVE  \/ a.kind = "apply_profile" /\ a \in Applications
         \/ a.kind = "set_governor" /\ a.governor \in Governors
         \/ a.kind = "restart_service" /\ a.service \in Watchable
         \/ a.kind \in {"clear_resume", "poweroff"}
BY DEF Action, Applications

\* The default action applies the default profile.
LEMMA DefaultIsNamed == DefaultAction \in Named /\ DefaultAction \in Applications
BY ProfileTable DEF DefaultAction, Named, Applications

\* What RecordAgrees and NamesOnlyWhole say of one state.
Agrees(h) == h.noted # None => h.file = h.noted /\ h.file.count = h.count
Tuned(h)  == h.clean /\ h.network # None => h.radio = h.network.mode

\* The operations beside an application leave a state and what it names, and
\* the record, where it can be written, says what it means.
LEMMA OthersEffect ==
  ASSUME NEW h \in HostState, NEW a \in Action,
         a.kind # "apply_profile", NEW n \in Handled(h, a)
  PROVE  /\ n \in HostState
         /\ n.phase = h.phase /\ n.achieved = h.achieved /\ n.radio = h.radio
         /\ n.network = h.network /\ n.clean = h.clean
         /\ n.boot = h.boot
         /\ Reported(h, n)
         /\ Mishaps \cap {"file", "torn"} = {} /\ Agrees(h) => Agrees(n)
         /\ h.noted # None => n.noted # None
         /\ a.kind # "clear_resume" => n.count = h.count /\ n.file = h.file
<1> DEFINE Said(q) ==
      /\ PublishHost(q).phase = q.phase /\ PublishHost(q).achieved = q.achieved
      /\ PublishHost(q).radio = q.radio /\ PublishHost(q).network = q.network
      /\ PublishHost(q).clean = q.clean /\ PublishHost(q).noted = q.noted
      /\ PublishHost(q).file = q.file /\ PublishHost(q).count = q.count
      /\ PublishHost(q).boot = q.boot /\ Reported(q, PublishHost(q))
<1>1. \A q \in HostState : PublishHost(q) \in HostState /\ Said(q)
  <2> TAKE q \in HostState
  <2>1. PublishHost(q) = [q EXCEPT !.out = PublishHost(q).out]
    BY PublishHostEffect
  <2> QED BY <2>1, PublishHostEffect DEF HostState
<1> DEFINE Same(q) ==
      /\ q \in HostState
      /\ q.phase = h.phase /\ q.achieved = h.achieved /\ q.radio = h.radio
      /\ q.network = h.network /\ q.clean = h.clean
      /\ q.boot = h.boot
<1> DEFINE Unsaid(q) ==
      Same(q) /\ q.previous = h.previous /\ q.out = h.out
<1> DEFINE Kept(q) ==
      /\ Unsaid(q)
      /\ q.noted = h.noted /\ q.file = h.file /\ q.count = h.count
<1>0. \A q : Unsaid(q) => Same(PublishHost(q)) /\ Reported(h, PublishHost(q))
  <2> HIDE DEF PublishHost
  <2> QED BY <1>1 DEF Reported
<1> DEFINE Done(m) ==
      /\ Same(m) /\ Reported(h, m) /\ (Agrees(h) => Agrees(m))
      /\ m.noted = h.noted /\ m.file = h.file /\ m.count = h.count
<1>2. \A q : Kept(q) => Done(PublishHost(q))
  <2> HIDE DEF PublishHost
  <2> QED BY <1>0, <1>1 DEF Agrees
<1>3. CASE a.kind = "poweroff"
  <2>1. n = PublishHost(h)
    BY <1>3 DEF Handled, AskPoweroff
  <2>2. Kept(h)
    OBVIOUS
  <2>3. Done(n)
    <3> HIDE DEF Kept, Done
    <3> QED BY <1>2, <2>1, <2>2
  <2> QED BY <2>3
<1>4. CASE a.kind = "set_governor"
  <2>1. a.governor \in Governors
    BY <1>4, ActionKinds
  <2>2. PICK wrong \in SUBSET Mishaps : n = SetGovernor(h, a.governor, wrong)
    BY <1>4 DEF Handled
  <2> DEFINE q == ApplyGovernor(h, a.governor, wrong)
  <2>3. Kept(q)
    BY <2>1 DEF ApplyGovernor, HostState
  <2>4. n = PublishHost(q)
    BY <2>2 DEF SetGovernor
  <2>5. Done(n)
    <3> HIDE DEF Kept, Done, q
    <3> QED BY <1>2, <2>3, <2>4
  <2> QED BY <2>5
<1>5. CASE a.kind = "restart_service"
  <2>1. PICK wrong \in SUBSET Mishaps :
          \E up \in RestartMayLeave(h, a.service, wrong) : n = RestartUnit(h, up)
    BY <1>5 DEF Handled
  <2>2. PICK up : n = PublishHost([h EXCEPT !.running = up]) /\ up \in SUBSET Units
    <3>1. h.running \in SUBSET Units /\ Services \subseteq Units
      BY HostdAssumption DEF HostState
    <3>2. RestartMayLeave(h, a.service, wrong) \subseteq SUBSET Units
      BY <3>1 DEF RestartMayLeave
    <3> QED BY <2>1, <3>2 DEF RestartUnit
  <2>3. Kept([h EXCEPT !.running = up])
    BY <2>2 DEF HostState
  <2>4. Done(n)
    <3> HIDE DEF Kept, Done
    <3> QED BY <1>2, <2>2, <2>3
  <2> QED BY <2>4
<1>6. CASE a.kind = "clear_resume"
  <2>1. PICK wrong \in SUBSET Mishaps : n = ClearResume(h, wrong)
    BY <1>6 DEF Handled
  <2> DEFINE cleared == [h EXCEPT !.count = 0]
             record  == [h.noted EXCEPT !.count = 0]
             written == [cleared EXCEPT !.noted = record,
                                        !.file = Written(h, record, wrong)]
  <2>2. /\ Unsaid(cleared)
        /\ cleared.noted = h.noted /\ cleared.file = h.file /\ cleared.count = 0
    BY DEF HostState
  <2>3. CASE h.noted = None \/ h.noted.count = 0
    <3>1. n = PublishHost(cleared)
      BY <2>1, <2>3 DEF ClearResume
    <3>2. Agrees(h) => Agrees(cleared)
      BY <2>2, <2>3 DEF Agrees
    <3> HIDE DEF cleared
    <3> QED BY <1>0, <1>1, <1>6, <2>2, <3>1, <3>2 DEF Agrees
  <2>4. CASE h.noted # None /\ h.noted.count # 0
    <3>1. n = PublishHost(written)
      BY <2>1, <2>4 DEF ClearResume
    <3>2. record \in PreviousRun /\ record.count = 0 /\ record # None
      <4>1. record \in PreviousRun /\ record.count = 0
        BY <2>4 DEF HostState, PreviousRun
      <4> QED BY <4>1, ProfileTable DEF PreviousRun
    <3>3. Written(h, record, wrong) \in PreviousRun \cup {None}
      BY <3>2, WrittenType
    <3>4. Mishaps \cap {"file", "torn"} = {} => Written(h, record, wrong) = record
      BY DEF Written
    <3> HIDE DEF record, cleared
    <3>5. Unsaid(written)
      <4>1. written \in HostState
        BY ZenonT(60), <2>2, <3>2, <3>3 DEF HostState
      <4>2. written = [cleared EXCEPT !.noted = record,
                                      !.file = Written(h, record, wrong)]
        OBVIOUS
      <4> QED BY <2>2, <4>1, <4>2 DEF HostState
    <3>6. /\ written.noted = record /\ written.count = 0
          /\ written.file = Written(h, record, wrong)
      BY <2>2 DEF HostState
    <3> HIDE DEF written
    <3> QED BY <1>0, <1>1, <1>6, <3>1, <3>2, <3>4, <3>5, <3>6 DEF Agrees
  <2> QED BY <2>3, <2>4
<1> QED BY <1>3, <1>4, <1>5, <1>6, ActionKinds

(***************************************************************************)
(* Crashes, power cycles and time.                                         *)
(***************************************************************************)

\* What a crash forgets.
LEMMA ForgottenEffect ==
  ASSUME NEW h \in HostState
  PROVE  LET n == Forgotten(h)
         IN  /\ n \in HostState
             /\ n.achieved = None /\ n.noted = None /\ n.network = None
             /\ n.phase = "down" /\ n.file = h.file
             /\ n.count = 0 /\ n.boot = FALSE
<1>1. <<>> \in Seq(HostStatus)
  OBVIOUS
<1> QED BY <1>1 DEF Forgotten, HostState

\* The note that the application ends with is its record.
LEMMA NoteIsRecord ==
  ASSUME NEW h \in HostState, NEW a \in Named, NEW boot \in BOOLEAN
  PROVE  NoteProfile([h EXCEPT !.ttl = DeadlineFor(a.profile, a.ttl)],
                     a, boot, {}).file = Record(h, a, boot)
<1> DEFINE timed == [h EXCEPT !.ttl = DeadlineFor(a.profile, a.ttl)]
<1>1. /\ timed.ttl = DeadlineFor(a.profile, a.ttl) /\ timed.count = h.count
      /\ timed \in HostState
  <2>1. timed \in HostState
    BY RecordType, StepTypes
  <2>2. timed.ttl = DeadlineFor(a.profile, a.ttl) /\ timed.count = h.count
    BY DEF HostState
  <2> QED BY <2>1, <2>2
<1>2. NoteProfile(timed, a, boot, {})
        = [timed EXCEPT !.count = Counted(h, a, boot),
                        !.noted = Record(h, a, boot),
                        !.file = Written(timed, Record(h, a, boot), {})]
  BY <1>1 DEF NoteProfile, Counted, Record
<1>3. Written(timed, Record(h, a, boot), {}) = Record(h, a, boot)
  BY DEF Written
<1> HIDE DEF timed
<1> QED BY <1>1, <1>2, <1>3 DEF HostState, timed

\* Wherever an application is cut off, the platform is in a state, and the
\* file says what it said, nothing, or what the whole application would say.
LEMMA InterruptedType ==
  ASSUME NEW h \in HostState, NEW a \in Named, NEW boot \in BOOLEAN,
         NEW n \in Interrupted(h, a, boot)
  PROVE  n \in HostState /\ n.file \in {h.file, None, Record(h, a, boot)}
<1> DEFINE With(left, radio, governor, file) ==
             [h EXCEPT !.running = left, !.radio = radio, !.cpu = governor,
                       !.file = file]
           wanted == WantedOf[a.profile]
           mode   == IF NetworkKept(h, a.profile) THEN h.radio
                     ELSE NetworkOf[a.profile].mode
           cpu    == GovernorOf[a.profile]
           timed  == [h EXCEPT !.ttl = DeadlineFor(a.profile, a.ttl)]
           noted  == NoteProfile(timed, a, boot, {}).file
<1>1. \A left \in SUBSET Units, radio \in Radio, governor \in Governors \cup {None},
         file \in PreviousRun \cup {None} :
           /\ With(left, radio, governor, file) \in HostState
           /\ With(left, radio, governor, file).file = file
  <2>1. \A left \in SUBSET Units, radio \in Radio, governor \in Governors \cup {None},
           file \in PreviousRun \cup {None} : With(left, radio, governor, file) \in HostState
    BY DEF HostState
  <2>2. \A left, radio, governor, file : With(left, radio, governor, file).file = file
    BY DEF HostState
  <2> HIDE DEF With
  <2> QED BY <2>1, <2>2
<1>2. a.profile \in Profiles
  BY DEF Named, Applications
<1>3. /\ wanted \in SUBSET Units /\ h.running \in SUBSET Units
      /\ h.radio \in Radio /\ mode \in Radio /\ None \in Radio
      /\ cpu \in Governors /\ h.cpu \in Governors \cup {None}
      /\ h.file \in PreviousRun \cup {None}
  BY <1>2, ProfileTable, HostdAssumption DEF HostState, Network, Radio
<1>4. noted = Record(h, a, boot) /\ noted \in PreviousRun \cup {None}
  BY NoteIsRecord, RecordType
<1> HIDE DEF noted, mode, cpu, wanted
<1>5. \/ \E left \in SUBSET h.running : n = With(left, h.radio, h.cpu, h.file)
      \/ n = With(h.running \cap wanted, None, h.cpu, h.file)
      \/ \E left \in SUBSET wanted : n = With(left, mode, h.cpu, h.file)
      \/ \E governor \in {None, cpu} : n = With(wanted, mode, governor, h.file)
      \/ \E file \in {None, noted} : n = With(wanted, mode, cpu, file)
  BY DEF Interrupted, noted, mode, cpu, wanted
<1> HIDE DEF With
<1> QED BY <1>1, <1>3, <1>4, <1>5

\* What on_start recalls is what the file says.
LEMMA RecalledEffect ==
  ASSUME NEW h \in HostState
  PROVE  /\ Recalled(h) \in HostState
         /\ Recalled(h).noted = h.noted /\ Recalled(h).file = h.file
         /\ Recalled(h).achieved = h.achieved /\ Recalled(h).radio = h.radio
         /\ Recalled(h).network = h.network /\ Recalled(h).clean = h.clean
         /\ Recalled(h).phase = h.phase /\ Recalled(h).out = h.out
         /\ Recalled(h).previous = h.file
         /\ Recalled(h).count = IF h.file = None THEN 0 ELSE h.file.count
<1> DEFINE count == IF h.file = None THEN 0 ELSE h.file.count
<1>1. count \in Nat
  BY DEF HostState, PreviousRun
<1>2. h.file \in PreviousRun \cup {None}
  BY DEF HostState
<1>3. Recalled(h) = [h EXCEPT !.previous = h.file, !.count = count]
  BY DEF Recalled
<1> HIDE DEF count
<1>4. Recalled(h) \in HostState
  BY <1>1, <1>2, <1>3 DEF HostState
<1>5. Recalled(h).count = count
  BY <1>3 DEF HostState
<1> QED BY <1>3, <1>4, <1>5 DEF HostState, count

\* Both say nothing, or both the same count.
Alike(r, q) == (r = None <=> q = None) /\ (r # None => q.count = r.count)

\* Time passes for the deadline and for the three records alike.
LEMMA ElapsedEffect ==
  ASSUME NEW h \in HostState
  PROVE  /\ HostElapsed(h) \in HostState
         /\ HostElapsed(h).achieved = h.achieved
         /\ HostElapsed(h).radio = h.radio
         /\ HostElapsed(h).network = h.network
         /\ HostElapsed(h).clean = h.clean
         /\ HostElapsed(h).phase = h.phase
         /\ HostElapsed(h).boot = h.boot
         /\ Alike(h.noted, HostElapsed(h).noted)
         /\ Alike(h.file, HostElapsed(h).file)
         /\ Alike(h.previous, HostElapsed(h).previous)
         /\ Agrees(h) => Agrees(HostElapsed(h))
<1> DEFINE aged(record) == IF record = None THEN None
                           ELSE IF record.ttl = None THEN record
                           ELSE [record EXCEPT !.ttl = Down(@)]
           ttl == IF h.ttl = None THEN None ELSE Down(h.ttl)
<1>1. \A r \in PreviousRun \cup {None} : aged(r) \in PreviousRun \cup {None}
  BY ProfileTable DEF Down, PreviousRun
<1>2. \A r \in PreviousRun : aged(r) # None /\ aged(r).count = r.count
  <2>1. None \notin PreviousRun
    BY ProfileTable DEF PreviousRun
  <2>2. \A r \in PreviousRun : aged(r) \in PreviousRun /\ aged(r).count = r.count
    BY <2>1, ProfileTable DEF Down, PreviousRun
  <2> QED BY <2>1, <2>2
<1>3. aged(None) = None
  OBVIOUS
<1> HIDE DEF aged
<1>4. ttl \in Nat \cup {None}
  BY DEF HostState, Down
<1>5. <<>> \in Seq(HostStatus)
  OBVIOUS
<1>6. HostElapsed(h) = [h EXCEPT !.ttl = ttl, !.previous = aged(h.previous),
                                 !.noted = aged(h.noted), !.file = aged(h.file),
                                 !.out = <<>>]
  BY DEF HostElapsed, aged, HostState
<1> HIDE DEF ttl
<1>7. /\ h.previous \in PreviousRun \cup {None}
      /\ h.noted \in PreviousRun \cup {None} /\ h.file \in PreviousRun \cup {None}
  BY DEF HostState
<1>8. HostElapsed(h) \in HostState
  <2> DEFINE previous == aged(h.previous)
             noted    == aged(h.noted)
             file     == aged(h.file)
  <2>1. /\ previous \in PreviousRun \cup {None}
        /\ noted \in PreviousRun \cup {None} /\ file \in PreviousRun \cup {None}
    BY <1>1, <1>7
  <2>2. HostElapsed(h) = [h EXCEPT !.ttl = ttl, !.previous = previous,
                                   !.noted = noted, !.file = file, !.out = <<>>]
    BY <1>6
  <2> HIDE DEF previous, noted, file
  <2> QED BY ZenonT(60), <1>4, <1>5, <2>1, <2>2 DEF HostState
<1>9. /\ HostElapsed(h).achieved = h.achieved
      /\ HostElapsed(h).radio = h.radio
      /\ HostElapsed(h).network = h.network
      /\ HostElapsed(h).clean = h.clean
      /\ HostElapsed(h).noted = aged(h.noted)
      /\ HostElapsed(h).file = aged(h.file)
      /\ HostElapsed(h).count = h.count
      /\ HostElapsed(h).phase = h.phase /\ HostElapsed(h).boot = h.boot
      /\ HostElapsed(h).previous = aged(h.previous)
  BY <1>6 DEF HostState
<1>10. Agrees(h) => Agrees(HostElapsed(h))
  BY <1>2, <1>3, <1>7, <1>9 DEF Agrees
<1>11. \A r \in PreviousRun \cup {None} : Alike(r, aged(r))
  BY <1>2, <1>3 DEF Alike
<1> QED BY <1>7, <1>8, <1>9, <1>10, <1>11

\* A power cycle is a crash that also resets units, radio and governor.
LEMMA PowerCycledEffect ==
  ASSUME NEW h \in HostState, NEW n \in PowerCycled(h)
  PROVE  /\ n \in HostState
         /\ n.achieved = None /\ n.noted = None /\ n.network = None
         /\ n.phase = "down" /\ n.file = h.file
         /\ n.count = 0 /\ n.boot = FALSE
<1>1. PICK up \in SUBSET (Units \ Services), radio \in {"client", "off"} :
        n = Repowered(h, up, radio)
  BY DEF PowerCycled
<1>2. up \in SUBSET Units /\ radio \in Radio
  BY DEF Radio
<1>3. /\ Forgotten(h) \in HostState /\ Forgotten(h).achieved = None
      /\ Forgotten(h).noted = None /\ Forgotten(h).network = None
      /\ Forgotten(h).phase = "down" /\ Forgotten(h).file = h.file
      /\ Forgotten(h).count = 0 /\ Forgotten(h).boot = FALSE
  BY ForgottenEffect
<1> QED BY <1>1, <1>2, <1>3 DEF Repowered, HostState

(***************************************************************************)
(* Type correctness.                                                       *)
(***************************************************************************)

\* Emptying the outbox keeps everything else.
LEMMA QuietEffect ==
  ASSUME HostTypeOK
  PROVE  /\ QuietHost \in HostState
         /\ QuietHost.phase = host.phase /\ QuietHost.achieved = host.achieved
         /\ QuietHost.radio = host.radio /\ QuietHost.network = host.network
         /\ QuietHost.clean = host.clean /\ QuietHost.noted = host.noted
         /\ QuietHost.file = host.file /\ QuietHost.count = host.count
         /\ QuietHost.boot = host.boot /\ QuietHost.previous = host.previous
         /\ QuietHost.out = <<>>
<1>1. <<>> \in Seq(HostStatus)
  OBVIOUS
<1> QED BY ZenonT(60), <1>1 DEF QuietHost, HostTypeOK, HostState

\* The three ways in: connecting, starting, receiving.
LEMMA ReceiveIs ==
  ASSUME HostTypeOK, Receive
  PROVE  \/ \E a \in Applications : host' \in Applied(QuietHost, a, FALSE)
         \/ \E a \in HostActions : a.kind # "apply_profile"
                                   /\ host' \in Handled(QuietHost, a)
<1>1. PICK a \in HostActions : host' \in Handled(QuietHost, a)
  BY DEF Receive
<1>2. CASE a.kind = "apply_profile"
  <2>1. a \in Applications
    BY <1>2, ActionKinds, HostdAssumption
  <2> QED BY <1>1, <1>2, <2>1 DEF Handled
<1> QED BY <1>1, <1>2

\* A start is an application of the default profile by a process that has
\* recalled the file.
LEMMA StartIs ==
  ASSUME HostTypeOK, HostStart
  PROVE  LET h == [Recalled(QuietHost) EXCEPT !.phase = "serving"]
         IN  /\ h \in HostState
             /\ h.achieved = host.achieved /\ h.radio = host.radio
             /\ h.network = host.network /\ h.clean = host.clean
             /\ h.phase = "serving" /\ h.out = <<>>
             /\ h.previous = host.file /\ h.file = host.file
             /\ h.count = IF host.file = None THEN 0 ELSE host.file.count
             /\ host' \in Applied(h, DefaultAction, TRUE)
<1> DEFINE h == [Recalled(QuietHost) EXCEPT !.phase = "serving"]
<1>1. /\ Recalled(QuietHost) \in HostState
      /\ Recalled(QuietHost).achieved = host.achieved
      /\ Recalled(QuietHost).radio = host.radio
      /\ Recalled(QuietHost).network = host.network
      /\ Recalled(QuietHost).clean = host.clean
      /\ Recalled(QuietHost).out = <<>>
      /\ Recalled(QuietHost).previous = host.file
      /\ Recalled(QuietHost).file = host.file
      /\ Recalled(QuietHost).count = IF host.file = None THEN 0 ELSE host.file.count
  BY QuietEffect, RecalledEffect
<1>2. /\ h \in HostState
      /\ h.achieved = host.achieved /\ h.radio = host.radio
      /\ h.network = host.network /\ h.clean = host.clean
      /\ h.phase = "serving" /\ h.out = <<>>
      /\ h.previous = host.file /\ h.file = host.file
      /\ h.count = IF host.file = None THEN 0 ELSE host.file.count
  BY <1>1 DEF HostState
<1>3. host' \in Applied(h, DefaultAction, TRUE)
  BY DEF HostStart, Started
<1> QED BY <1>2, <1>3

\* A crash forgets one state or another.
LEMMA CrashIs ==
  ASSUME HostTypeOK, HostCrash
  PROVE  \E h \in HostState : host' = Forgotten(h)
<1>1. CASE host' = Forgotten(host)
  BY <1>1 DEF HostTypeOK
<1>2. CASE \E a \in HostActions :
             /\ a.kind = "apply_profile" /\ a.profile # None
             /\ host' \in {Forgotten(h) : h \in Interrupted(host, a, FALSE)}
  <2>1. PICK a \in HostActions :
          /\ a.kind = "apply_profile" /\ a.profile # None
          /\ host' \in {Forgotten(h) : h \in Interrupted(host, a, FALSE)}
    BY <1>2
  <2>2. a \in Named
    BY <2>1, ActionKinds, HostdAssumption DEF Named
  <2> QED BY <2>1, <2>2, InterruptedType DEF HostTypeOK
<1>3. CASE host' \in {Forgotten(h) :
                       h \in Interrupted(Recalled(host), DefaultAction, TRUE)}
  <2>1. Recalled(host) \in HostState
    BY RecalledEffect DEF HostTypeOK
  <2> QED BY <1>3, <2>1, InterruptedType, DefaultIsNamed
<1> QED BY <1>1, <1>2, <1>3 DEF HostCrash

\* Every step leaves a state.
LEMMA HostStepType ==
  ASSUME HostTypeOK, [HostNext]_host
  PROVE  HostTypeOK'
<1>1. CASE Connect
  <2>1. [QuietHost EXCEPT !.phase = "connected"] \in HostState
    BY QuietEffect DEF HostState
  <2> QED BY <1>1, <2>1 DEF Connect, HostTypeOK
<1>2. CASE HostStart
  BY <1>2, StartIs, AppliedType, DefaultIsNamed DEF HostTypeOK
<1>3. CASE Receive
  <2>1. CASE \E a \in Applications : host' \in Applied(QuietHost, a, FALSE)
    BY <2>1, AppliedType, QuietEffect DEF HostTypeOK
  <2>2. CASE \E a \in HostActions : a.kind # "apply_profile"
                                    /\ host' \in Handled(QuietHost, a)
    BY <2>2, OthersEffect, HostdAssumption, QuietEffect DEF HostTypeOK
  <2> QED BY <1>3, <2>1, <2>2, ReceiveIs
<1>4. CASE Reconnected
  BY <1>4, QuietEffect, PublishHostEffect DEF Reconnected, HostTypeOK
<1>5. CASE HostCrash
  BY <1>5, CrashIs, ForgottenEffect DEF HostTypeOK
<1>6. CASE PowerCycle
  BY <1>6, PowerCycledEffect DEF PowerCycle, HostTypeOK
<1>7. CASE HostElapse
  BY <1>7, ElapsedEffect DEF HostElapse, HostTypeOK
<1>8. CASE UNCHANGED host
  BY <1>8 DEF HostTypeOK
<1> QED BY <1>1, <1>2, <1>3, <1>4, <1>5, <1>6, <1>7, <1>8 DEF HostNext

\* The first state is one.
LEMMA HostInitType ==
  ASSUME HostInit
  PROVE  HostTypeOK
<1>1. <<>> \in Seq(HostStatus)
  OBVIOUS
<1> QED BY <1>1 DEF HostInit, InitHost, HostTypeOK, HostState, Radio

\* HOSTD only ever holds profiles, records and networks of the table, and the
\* units it runs are units a profile may ask for: hostd/service.py.
THEOREM HostTypeCorrect == HostSpec => []HostTypeOK
<1>1. HostInit => HostTypeOK
  BY HostInitType
<1>2. HostTypeOK /\ [HostNext]_host => HostTypeOK'
  BY HostStepType
<1> QED BY <1>1, <1>2, PTL DEF HostSpec

(***************************************************************************)
(* last-profile says what HOSTD means it to say.                           *)
(***************************************************************************)

\* However an application goes, the record agrees with what is remembered:
\* a refusal touches neither, anything else writes both.
LEMMA AppliedAgrees ==
  ASSUME Mishaps \cap {"file", "torn"} = {},
         NEW h \in HostState, NEW a \in Applications, NEW boot \in BOOLEAN,
         NEW n \in Applied(h, a, boot),
         a.profile # None \/ Agrees(h)
  PROVE  Agrees(n)
<1>1. CASE /\ a.profile = None
           /\ n = PublishHost([h EXCEPT !.requested = None])
  <2>1. n.noted = h.noted /\ n.file = h.file /\ n.count = h.count
    BY <1>1, RefusedEffect
  <2> QED BY <1>1, <2>1 DEF Agrees
<1>2. CASE /\ a \in Named
           /\ \E wrong \in SUBSET Mishaps :
                \E left \in UnitsMayBe(h, a.profile, wrong) :
                  \E radio \in RadioMayBe(h, a.profile, wrong) :
                    n = ApplyProfile(h, a, boot, wrong, left, radio)
  <2>1. PICK wrong \in SUBSET Mishaps :
               \E left, radio : n = ApplyProfile(h, a, boot, wrong, left, radio)
    BY <1>2
  <2>0. PICK left, radio : n = ApplyProfile(h, a, boot, wrong, left, radio)
    BY <2>1
  <2>2. /\ n.count = Counted(h, a, boot) /\ n.noted = Record(h, a, boot)
        /\ n.file = Written(h, Record(h, a, boot), wrong)
    BY <1>2, <2>0, ApplyEffect
  <2>3. Written(h, Record(h, a, boot), wrong) = Record(h, a, boot)
    BY DEF Written
  <2>4. Record(h, a, boot).count = Counted(h, a, boot)
    BY DEF Record
  <2> QED BY <2>2, <2>3, <2>4 DEF Agrees
<1> QED BY <1>1, <1>2, AppliedIs

\* An application of a profile is noted, with its count.
LEMMA AppliedIsNoted ==
  ASSUME NEW h \in HostState, NEW a \in Named, NEW boot \in BOOLEAN,
         NEW n \in Applied(h, a, boot)
  PROVE  n.noted # None /\ n.count = Counted(h, a, boot) /\ n.boot = boot
<1>0. a \in Applications /\ a.profile # None
  BY DEF Named
<1>1. PICK wrong, left, radio : n = ApplyProfile(h, a, boot, wrong, left, radio)
  <2>1. PICK wrong \in SUBSET Mishaps :
          \E left \in UnitsMayBe(h, a.profile, wrong) :
            \E radio \in RadioMayBe(h, a.profile, wrong) :
              n = ApplyProfile(h, a, boot, wrong, left, radio)
    BY <1>0, AppliedIs
  <2> QED BY <2>1
<1>2. /\ n.noted = Record(h, a, boot) /\ n.count = Counted(h, a, boot)
      /\ n.boot = boot
  BY <1>1, ApplyEffect
<1> QED BY <1>2, RecordType

\* Every step keeps the record in agreement.
LEMMA HostStepAgrees ==
  ASSUME Mishaps \cap {"file", "torn"} = {},
         HostTypeOK, RecordAgrees, [HostNext]_host
  PROVE  RecordAgrees'
<1> USE DEF HostTypeOK
<1>1. RecordAgrees = Agrees(host) /\ RecordAgrees' = Agrees(host')
  BY DEF RecordAgrees, Agrees
<1>2. Agrees(QuietHost)
  BY <1>1, QuietEffect DEF Agrees
<1>3. CASE Connect
  <2>1. LET n == [QuietHost EXCEPT !.phase = "connected"]
        IN  n.noted = host.noted /\ n.file = host.file /\ n.count = host.count
    BY QuietEffect DEF HostState
  <2> QED BY <1>1, <1>3, <2>1 DEF Connect, Agrees
<1>4. CASE HostStart
  BY <1>1, <1>4, StartIs, AppliedAgrees, DefaultIsNamed DEF Named
<1>5. CASE Receive
  <2>1. CASE \E a \in Applications : host' \in Applied(QuietHost, a, FALSE)
    BY <1>1, <1>2, <2>1, AppliedAgrees, QuietEffect
  <2>2. CASE \E a \in HostActions : a.kind # "apply_profile"
                                    /\ host' \in Handled(QuietHost, a)
    BY <1>1, <1>2, <2>2, OthersEffect, HostdAssumption, QuietEffect
  <2> QED BY <1>5, <2>1, <2>2, ReceiveIs
<1>6. CASE Reconnected
  <2>1. LET n == PublishHost(QuietHost)
        IN  n.noted = host.noted /\ n.file = host.file /\ n.count = host.count
    BY QuietEffect, PublishHostEffect DEF HostState
  <2> QED BY <1>1, <1>6, <2>1 DEF Reconnected, Agrees
<1>7. CASE HostCrash
  BY <1>1, <1>7, CrashIs, ForgottenEffect DEF Agrees
<1>8. CASE PowerCycle
  BY <1>1, <1>8, PowerCycledEffect DEF PowerCycle, Agrees
<1>9. CASE HostElapse
  BY <1>1, <1>9, ElapsedEffect DEF HostElapse
<1>10. CASE UNCHANGED host
  BY <1>1, <1>10
<1> QED BY <1>3, <1>4, <1>5, <1>6, <1>7, <1>8, <1>9, <1>10 DEF HostNext

\* On a platform whose file can be written, last-profile holds the record that
\* HOSTD remembers and the count it counts with, whatever else fails and
\* wherever the process dies: hostd/service.py _note_profile, _clear_resume.
THEOREM RecordIsKept ==
  ASSUME Mishaps \cap {"file", "torn"} = {}
  PROVE  HostSpec => []RecordAgrees
<1>1. HostInit => HostTypeOK /\ RecordAgrees
  BY HostInitType DEF HostInit, InitHost, RecordAgrees
<1>2. HostTypeOK /\ RecordAgrees /\ [HostNext]_host => HostTypeOK' /\ RecordAgrees'
  BY HostStepType, HostStepAgrees
<1> QED BY <1>1, <1>2, PTL DEF HostSpec

(***************************************************************************)
(* A profile is named only when the platform is that profile.              *)
(***************************************************************************)

\* The radio is in the mode of the network that was applied cleanly: what
\* makes it sound to apply nothing when the same network is asked for again.
NetworkIsTuned == Tuned(host)

\* What a step of the process may name.
Whole(h, n) == n.achieved \notin {h.achieved, None}
                 => /\ n.running = WantedOf[n.achieved]
                    /\ n.radio = NetworkOf[n.achieved].mode
                    /\ n.cpu = GovernorOf[n.achieved]

\* However an application goes, the radio is tuned where it is clean, and the
\* profile it names is the platform's.
LEMMA AppliedIsWhole ==
  ASSUME "leave_ap" \notin Mishaps,
         NEW h \in HostState, NEW a \in Applications, NEW boot \in BOOLEAN,
         NEW n \in Applied(h, a, boot), Tuned(h)
  PROVE  Tuned(n) /\ Whole(h, n)
<1>1. CASE /\ a.profile = None
           /\ n = PublishHost([h EXCEPT !.requested = None])
  <2>1. /\ n.clean = h.clean /\ n.network = h.network /\ n.radio = h.radio
        /\ n.achieved = h.achieved
    BY <1>1, RefusedEffect
  <2> QED BY <2>1 DEF Tuned, Whole
<1>2. CASE /\ a \in Named
           /\ \E wrong \in SUBSET Mishaps :
                \E left \in UnitsMayBe(h, a.profile, wrong) :
                  \E radio \in RadioMayBe(h, a.profile, wrong) :
                    n = ApplyProfile(h, a, boot, wrong, left, radio)
  <2>1. PICK wrong \in SUBSET Mishaps :
          \E left \in UnitsMayBe(h, a.profile, wrong) :
            \E radio \in RadioMayBe(h, a.profile, wrong) :
              n = ApplyProfile(h, a, boot, wrong, left, radio)
    BY <1>2
  <2>2. PICK left \in UnitsMayBe(h, a.profile, wrong),
             radio \in RadioMayBe(h, a.profile, wrong) :
               n = ApplyProfile(h, a, boot, wrong, left, radio)
    BY <2>1
  <2>3. a.profile \in Profiles /\ NetworkOf[a.profile] # None
    BY <1>2, HostdAssumption DEF Named, Applications
  <2>4. /\ n.achieved = IF Partial(h, a.profile, wrong) THEN h.achieved
                        ELSE a.profile
        /\ n.running = left /\ n.radio = radio
        /\ n.cpu = IF "governor" \in wrong THEN None ELSE GovernorOf[a.profile]
        /\ n.network = NetworkOf[a.profile]
        /\ n.clean = (NetworkKept(h, a.profile) \/ "network" \notin wrong)
    BY <1>2, <2>2, ApplyEffect
  <2>5. NetworkKept(h, a.profile) => radio = NetworkOf[a.profile].mode
    <3>1. SUFFICES ASSUME NetworkKept(h, a.profile)
                   PROVE  radio = NetworkOf[a.profile].mode
      OBVIOUS
    <3>2. radio = h.radio
      BY <2>2, <2>3, <3>1, MayBe
    <3>3. NetworkOf[a.profile] = h.network /\ h.clean
      BY <3>1 DEF NetworkKept
    <3> QED BY <2>3, <3>2, <3>3 DEF Tuned
  <2>6. ~NetworkKept(h, a.profile) /\ "network" \notin wrong
          => radio = NetworkOf[a.profile].mode
    <3>1. SUFFICES ASSUME ~NetworkKept(h, a.profile), "network" \notin wrong
                   PROVE  radio = NetworkOf[a.profile].mode
      OBVIOUS
    <3>2. "leave_ap" \notin wrong
      OBVIOUS
    <3>3. RadioMayBe(h, a.profile, wrong) = {NetworkOf[a.profile].mode}
      BY <2>3, <3>1, <3>2, MayBe
    <3> QED BY <2>2, <3>3
  <2>7. Tuned(n)
    BY <2>4, <2>5, <2>6 DEF Tuned
  <2>8. ASSUME n.achieved \notin {h.achieved, None}
        PROVE  /\ n.running = WantedOf[n.achieved]
               /\ n.radio = NetworkOf[n.achieved].mode
               /\ n.cpu = GovernorOf[n.achieved]
    <3>1. ~Partial(h, a.profile, wrong) /\ n.achieved = a.profile
      BY <2>4, <2>8
    <3>2. /\ "unit" \notin wrong /\ "governor" \notin wrong
          /\ "network" \notin wrong \/ NetworkKept(h, a.profile)
      BY <3>1 DEF Partial
    <3>3. left = WantedOf[a.profile]
      BY <2>2, <2>3, <3>2, MayBe
    <3> QED BY <2>4, <2>5, <2>6, <3>1, <3>2, <3>3
  <2> QED BY <2>7, <2>8 DEF Whole
<1> QED BY <1>1, <1>2, AppliedIs

\* Every step keeps the radio tuned, and names only what is whole.
LEMMA HostStepIsWhole ==
  ASSUME "leave_ap" \notin Mishaps,
         HostTypeOK, NetworkIsTuned, [HostNext]_host
  PROVE  NetworkIsTuned' /\ Whole(host, host')
<1> USE DEF HostTypeOK
<1> DEFINE Same(n) == /\ n.achieved = host.achieved /\ n.radio = host.radio
                      /\ n.network = host.network /\ n.clean = host.clean
<1>1. NetworkIsTuned = Tuned(host) /\ NetworkIsTuned' = Tuned(host')
  BY DEF NetworkIsTuned
<1>2. Same(host') => NetworkIsTuned' /\ Whole(host, host')
  BY <1>1 DEF Tuned, Whole
<1>3. host'.achieved = None /\ host'.network = None
        => NetworkIsTuned' /\ Whole(host, host')
  BY <1>1 DEF Tuned, Whole
<1>4. Tuned(QuietHost) /\ Same(QuietHost) /\ QuietHost \in HostState
  BY <1>1, QuietEffect DEF Tuned
<1>5. CASE Connect
  <2>1. Same([QuietHost EXCEPT !.phase = "connected"])
    BY QuietEffect DEF HostState
  <2> QED BY <1>2, <1>5, <2>1 DEF Connect
<1>6. CASE HostStart
  <2> DEFINE h == [Recalled(QuietHost) EXCEPT !.phase = "serving"]
  <2>1. h \in HostState /\ Same(h) /\ host' \in Applied(h, DefaultAction, TRUE)
    BY <1>6, StartIs
  <2> HIDE DEF h
  <2>2. Tuned(h)
    BY <1>1, <2>1 DEF Tuned
  <2>3. Tuned(host') /\ Whole(h, host')
    BY <2>1, <2>2, AppliedIsWhole, DefaultIsNamed
  <2> QED BY <1>1, <2>1, <2>3 DEF Whole
<1>7. CASE Receive
  <2>1. CASE \E a \in Applications : host' \in Applied(QuietHost, a, FALSE)
    <3>1. Tuned(host') /\ Whole(QuietHost, host')
      BY <1>4, <2>1, AppliedIsWhole
    <3> QED BY <1>1, <1>4, <3>1 DEF Whole
  <2>2. CASE \E a \in HostActions : a.kind # "apply_profile"
                                    /\ host' \in Handled(QuietHost, a)
    BY <1>2, <1>4, <2>2, OthersEffect, HostdAssumption
  <2> QED BY <1>7, <2>1, <2>2, ReceiveIs
<1>8. CASE Reconnected
  <2>1. Same(PublishHost(QuietHost))
    BY <1>4, PublishHostEffect DEF HostState
  <2> QED BY <1>2, <1>8, <2>1 DEF Reconnected
<1>9. CASE HostCrash
  BY <1>3, <1>9, CrashIs, ForgottenEffect
<1>10. CASE PowerCycle
  BY <1>3, <1>10, PowerCycledEffect DEF PowerCycle
<1>11. CASE HostElapse
  BY <1>2, <1>11, ElapsedEffect DEF HostElapse
<1>12. CASE UNCHANGED host
  BY <1>2, <1>12
<1> QED BY <1>5, <1>6, <1>7, <1>8, <1>9, <1>10, <1>11, <1>12 DEF HostNext

\* Unless an access point can stay up without an error, `profile` starts
\* naming a profile only when units, network and governor are that profile's,
\* although an unchanged network is not applied again: hostd/service.py
\* _apply_profile and _switch_network.
THEOREM NamedIsWhole ==
  ASSUME "leave_ap" \notin Mishaps
  PROVE  HostSpec => NamesOnlyWhole
<1>1. HostInit => HostTypeOK /\ NetworkIsTuned
  BY HostInitType DEF HostInit, InitHost, NetworkIsTuned, Tuned
<1>2. HostTypeOK /\ NetworkIsTuned /\ [HostNext]_host
        => HostTypeOK' /\ NetworkIsTuned'
  BY HostStepType, HostStepIsWhole
<1>3. HostTypeOK /\ NetworkIsTuned /\ [HostNext]_host
        => [ host'.achieved \notin {host.achieved, None}
             => /\ host'.running = WantedOf[host'.achieved]
                /\ host'.radio = NetworkOf[host'.achieved].mode
                /\ host'.cpu = GovernorOf[host'.achieved] ]_host
  BY HostStepIsWhole DEF Whole
<1> QED BY <1>1, <1>2, <1>3, PTL DEF HostSpec, NamesOnlyWhole
=============================================================================
