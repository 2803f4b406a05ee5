-------------------------------- MODULE Hostd --------------------------------
(***************************************************************************)
(* hostd/service.py: root's hands.  HOSTD decides nothing: it applies the  *)
(* default profile when it starts and carries out the actions it is sent,  *)
(* one at a time under one lock, whether they come over MQTT or over the   *)
(* control socket.  As in Obc, an operator is a method: it takes the state *)
(* and returns the state after it.                                         *)
(*                                                                         *)
(* What the process remembers, all of it lost with the process:            *)
(*   phase      down; connected, when actions may already arrive; serving, *)
(*              once on_start has run                                      *)
(*   achieved   the last profile that applied in full, or None             *)
(*   requested  the last profile asked for, None for an unknown name       *)
(*   boot       the active profile is still the one applied at start       *)
(*   previous   what last-profile said before this start overwrote it      *)
(*   count      _resume_count                                              *)
(*   noted      _noted, the last record meant for last-profile             *)
(*   ttl        time left until ttl_expires_at, or None                    *)
(*   network    _network_spec, the last network handed to NetworkManager   *)
(*   clean      that application reported no error                         *)
(* The platform it changes, which outlives it:                             *)
(*   running    the profile units that are active                          *)
(*   radio      the mode the radio is really in, None for in between       *)
(*   cpu        the CPU governor, None when the cores disagree             *)
(*   file       last-profile: a record, or None when it says nothing       *)
(* and `out`, the host_status messages the last step published.            *)
(***************************************************************************)
EXTENDS CubesatTypes

CONSTANTS
  Units,        \* profile_units: what a profile may ask systemd for
  WantedOf,     \* profile -> the units it wants running
  NetworkOf,    \* profile -> its network block
  HostActions,  \* the actions that may be sent to a standalone HOSTD
  MaxResumes,   \* a bound of the model on resumes in a row; OBC fences them
  Mishaps       \* what may go wrong on this platform

Network == [mode: {"client", "ap", "off"}, mdns: BOOLEAN]
Radio   == {"client", "ap", "off", None}

HostMishaps == {"unit", "network", "leave_ap", "governor", "file", "torn"}

Action ==
  [kind: {"apply_profile"}, profile: Profiles \cup {None},
   ttl: Nat \cup {None}, resume: BOOLEAN]
  \cup [kind: {"set_governor"}, governor: Governors]
  \cup [kind: {"restart_service"}, service: Watchable]
  \cup [kind: {"clear_resume", "poweroff"}]

ASSUME HostdAssumption ==
  /\ Services \subseteq Units
  /\ WantedOf \in [Profiles -> SUBSET Units]
  /\ \A p \in Profiles : ServicesOf[p] \subseteq WantedOf[p]
  /\ NetworkOf \in [Profiles -> Network]
  /\ None \notin Network
  /\ None \notin Governors
  /\ HostActions \subseteq Action
  /\ MaxResumes \in Nat
  /\ Mishaps \subseteq HostMishaps

VARIABLE host

\* A process that has just been started remembers nothing; the platform and
\* the file are as `h` has them.
Forgotten(h) ==
  [h EXCEPT !.phase = "down", !.achieved = None, !.requested = None,
            !.boot = FALSE, !.previous = None, !.count = 0, !.noted = None,
            !.ttl = None, !.network = None, !.clean = TRUE, !.out = <<>>]

\* host_status, the part OBC reads.
HostStatusOf(h) ==
  [profile |-> h.achieved, ttl |-> h.ttl, boot |-> h.boot,
   previous |-> h.previous]

PublishHost(h) == [h EXCEPT !.out = Append(@, HostStatusOf(h))]

(***************************************************************************)
(* The steps of apply_profile.  `wrong` is the set of mishaps of this      *)
(* action; `left` and `radio` are what it makes of the units and of the    *)
(* radio.                                                                  *)
(***************************************************************************)

\* _stop_unit and _start_unit: with no failure the wanted units run and no
\* other.  A command that fails may have had its effect or not.
UnitsMayBe(h, profile, wrong) ==
  IF "unit" \notin wrong THEN {WantedOf[profile]}
  ELSE {left \in SUBSET Units :
          /\ h.running \cap WantedOf[profile] \subseteq left
          /\ left \subseteq h.running \cup WantedOf[profile]}

\* Nothing is run when the same network was applied cleanly before.
NetworkKept(h, profile) == NetworkOf[profile] = h.network /\ h.clean

\* Network.apply: a failing command leaves the radio where it was, in between,
\* or where it was asked to be with only mDNS missing.  An access point that
\* cannot be taken down is the one failure that nobody is told of.
RadioMayBe(h, profile, wrong) ==
  LET mode == NetworkOf[profile].mode
  IN  CASE NetworkKept(h, profile) -> {h.radio}
        [] ~NetworkKept(h, profile) /\ "network" \in wrong ->
             {h.radio, None, mode}
        [] ~NetworkKept(h, profile) /\ "network" \notin wrong
           /\ "leave_ap" \in wrong /\ mode = "client" /\ h.radio = "ap" ->
             {"ap"}
        [] OTHER -> {mode}

\* _switch_network
SwitchNetwork(h, profile, wrong, radio) ==
  [h EXCEPT !.network = NetworkOf[profile], !.radio = radio,
            !.clean = NetworkKept(h, profile) \/ "network" \notin wrong]

\* _apply_governor: one core after another.
ApplyGovernor(h, governor, wrong) ==
  [h EXCEPT !.cpu = IF "governor" \in wrong THEN None ELSE governor]

\* _deadline_for: the request's own minutes, else the profile's.
DeadlineFor(profile, ttl) ==
  IF ttl \in Nat \ {0} THEN ttl ELSE TtlOf[profile]

\* last_profile.write: a file that cannot be opened keeps what it said, one
\* that cannot be written after it was truncated says nothing.
Written(h, record, wrong) ==
  CASE "file" \in wrong -> h.file
    [] "file" \notin wrong /\ "torn" \in wrong -> None
    [] OTHER -> record

\* Mutant: the boot into the default profile clears the count.
NoteProfileBootClears(h, a, boot, wrong) ==
  LET count == IF a.resume THEN h.count + 1 ELSE 0
      noted == [profile |-> a.profile, ttl |-> h.ttl, count |-> count]
  IN  [h EXCEPT !.count = count, !.noted = noted,
                !.file = Written(h, noted, wrong)]

\* _note_profile: a resume counts, a boot carries the count, any other
\* request clears it.  A record that cannot be written is only reported.
NoteProfile(h, a, boot, wrong) ==
  LET count == CASE a.resume -> h.count + 1
                 [] ~a.resume /\ boot -> h.count
                 [] OTHER -> 0
      noted == [profile |-> a.profile, ttl |-> h.ttl, count |-> count]
  IN  [h EXCEPT !.count = count, !.noted = noted,
                !.file = Written(h, noted, wrong)]

\* Mutant: a governor that was not written is not an error.
PartialButGovernor(h, profile, wrong) ==
  \/ "unit" \in wrong
  \/ "network" \in wrong /\ ~NetworkKept(h, profile)

\* What makes the application partial: `profile` then goes on naming the last
\* one that applied in full.
Partial(h, profile, wrong) ==
  \/ "unit" \in wrong \/ "governor" \in wrong
  \/ "network" \in wrong /\ ~NetworkKept(h, profile)

\* _apply_profile: an unknown profile is refused whole.
ApplyProfile(h, a, boot, wrong, left, radio) ==
  LET asked   == [h EXCEPT !.requested = a.profile, !.boot = boot,
                           !.running = left]
      powered == ApplyGovernor(SwitchNetwork(asked, a.profile, wrong, radio),
                               GovernorOf[a.profile], wrong)
      noted   == NoteProfile([powered EXCEPT
                                !.ttl = DeadlineFor(a.profile, a.ttl)],
                             a, boot, wrong)
  IN  IF a.profile = None THEN PublishHost([h EXCEPT !.requested = None])
      ELSE PublishHost([noted EXCEPT
             !.achieved = IF Partial(h, a.profile, wrong) THEN @
                          ELSE a.profile])

\* The default profile, as on_start asks for it.
DefaultAction ==
  [kind |-> "apply_profile", profile |-> DefaultProfile, ttl |-> None,
   resume |-> FALSE]

\* Every way an application may go.
Applied(h, a, boot) ==
  IF a.profile = None THEN {ApplyProfile(h, a, boot, {}, {}, None)}
  ELSE UNION { UNION { {ApplyProfile(h, a, boot, wrong, left, radio) :
                          radio \in RadioMayBe(h, a.profile, wrong)} :
                        left \in UnitsMayBe(h, a.profile, wrong) } :
                wrong \in SUBSET Mishaps }

(***************************************************************************)
(* The other actions, and the one entry point.                             *)
(***************************************************************************)

\* Mutant: the count is cleared in memory only.
ClearResumeInMemory(h, wrong) == PublishHost([h EXCEPT !.count = 0])

\* _clear_resume: the last record is written again, with its count at zero.
ClearResume(h, wrong) ==
  LET cleared == [h EXCEPT !.count = 0]
      record  == [h.noted EXCEPT !.count = 0]
  IN  PublishHost(
        IF h.noted = None THEN cleared
        ELSE IF h.noted.count = 0 THEN cleared
        ELSE [cleared EXCEPT !.noted = record,
                             !.file = Written(h, record, wrong)])

\* _set_governor: the profile is untouched.
SetGovernor(h, governor, wrong) ==
  PublishHost(ApplyGovernor(h, governor, wrong))

\* _restart_service, for a service HOSTD knows; anything else is only
\* reported.  A unit that is down comes up, whatever the profile wants; a restart
\* that fails, is refused or times out leaves it down, up or as it was.
RestartMayLeave(h, service, wrong) ==
  CASE service \notin Services -> {h.running}
    [] service \in Services /\ "unit" \in wrong ->
         {h.running \ {service}, h.running \cup {service}}
    [] OTHER -> {h.running \cup {service}}

RestartUnit(h, left) == PublishHost([h EXCEPT !.running = left])

\* _poweroff: the shutdown that follows is a power cycle of the platform.
AskPoweroff(h) == PublishHost(h)

\* handle
Handled(h, a) ==
  CASE a.kind = "apply_profile" -> Applied(h, a, FALSE)
    [] a.kind = "set_governor" ->
         {SetGovernor(h, a.governor, wrong) : wrong \in SUBSET Mishaps}
    [] a.kind = "restart_service" ->
         UNION { {RestartUnit(h, left) :
                    left \in RestartMayLeave(h, a.service, wrong)} :
                 wrong \in SUBSET Mishaps }
    [] a.kind = "clear_resume" ->
         {ClearResume(h, wrong) : wrong \in SUBSET Mishaps}
    [] a.kind = "poweroff" -> {AskPoweroff(h)}

\* _read_previous_profile, before this start overwrites the file.
Recalled(h) ==
  [h EXCEPT !.previous = h.file,
            !.count = IF h.file = None THEN 0 ELSE h.file.count]

\* on_start: then the default profile, as an action like any other.
Started(h) ==
  Applied([Recalled(h) EXCEPT !.phase = "serving"], DefaultAction, TRUE)

\* What an application may leave behind when the process dies inside it: its
\* steps are taken in order, and the note is the last of them.
Interrupted(h, a, boot) ==
  LET wanted == WantedOf[a.profile]
      kept   == h.running \cap wanted
      mode   == IF NetworkKept(h, a.profile) THEN h.radio
                ELSE NetworkOf[a.profile].mode
      cpu    == GovernorOf[a.profile]
      noted  == NoteProfile([h EXCEPT !.ttl = DeadlineFor(a.profile, a.ttl)],
                            a, boot, {}).file
      With(left, radio, governor, file) ==
        [h EXCEPT !.running = left, !.radio = radio, !.cpu = governor,
                  !.file = file]
  IN  {With(left, h.radio, h.cpu, h.file) :
         left \in {l \in SUBSET h.running : kept \subseteq l}}
      \cup (IF NetworkKept(h, a.profile) THEN {}
            ELSE {With(kept, None, h.cpu, h.file)})
      \cup {With(left, mode, h.cpu, h.file) :
              left \in {l \in SUBSET wanted : kept \subseteq l}}
      \cup {With(wanted, mode, governor, h.file) : governor \in {None, cpu}}
      \cup {With(wanted, mode, cpu, file) : file \in {None, noted}}

InitHost ==
  [ phase |-> "down", achieved |-> None, requested |-> None, boot |-> FALSE,
    previous |-> None, count |-> 0, noted |-> None, ttl |-> None,
    network |-> None, clean |-> TRUE, running |-> {}, radio |-> "client",
    cpu |-> None, file |-> None, out |-> <<>> ]

(***************************************************************************)
(* The process.                                                            *)
(***************************************************************************)

QuietHost == [host EXCEPT !.out = <<>>]

\* The broker is reached, and actions may arrive.
Connect ==
  /\ host.phase = "down"
  /\ host' = [QuietHost EXCEPT !.phase = "connected"]

\* on_start, after the broker has answered or has not in time.
HostStart ==
  /\ host.phase \in {"down", "connected"}
  /\ host' \in Started(QuietHost)

\* on_message, and the control socket, which funnels through the same path.
Receive ==
  /\ host.phase # "down"
  /\ \E a \in HostActions : host' \in Handled(QuietHost, a)
  /\ host'.count <= MaxResumes

\* on_connected, after the broker came back.
Reconnected ==
  /\ host.phase # "down"
  /\ host.achieved # None
  /\ host' = PublishHost(QuietHost)

\* The process dies, between two actions, inside an application or inside
\* on_start, and systemd starts it again.
HostCrash ==
  \/ /\ host.phase # "down"
     /\ host' = Forgotten(host)
  \/ /\ host.phase # "down"
     /\ \E a \in HostActions :
          /\ a.kind = "apply_profile" /\ a.profile # None
          /\ a.resume => host.count < MaxResumes
          /\ host' \in {Forgotten(h) : h \in Interrupted(host, a, FALSE)}
  \/ /\ host.phase # "serving"
     /\ host' \in {Forgotten(h) :
                    h \in Interrupted(Recalled(host), DefaultAction, TRUE)}

\* The board loses power: no mission unit is enabled, so none comes back by
\* itself, and NetworkManager keeps a radio that was switched off.
Repowered(h, up, radio) ==
  [Forgotten(h) EXCEPT !.running = up, !.radio = radio, !.cpu = None]

PowerCycled(h) ==
  {Repowered(h, up, radio) :
     up \in SUBSET (Units \ Services), radio \in {"client", "off"}}

PowerCycle == host' \in PowerCycled(host)

\* Mutant: the deadline runs on below zero.
HostElapsedBelowZero(h) ==
  [h EXCEPT !.ttl = IF @ = None THEN None ELSE @ - 1, !.out = <<>>]

HostElapsed(h) ==
  LET aged(record) == IF record = None THEN None
                      ELSE IF record.ttl = None THEN record
                      ELSE [record EXCEPT !.ttl = Down(@)]
  IN  [h EXCEPT !.ttl = IF @ = None THEN None ELSE Down(@),
                !.previous = aged(@), !.noted = aged(@), !.file = aged(@),
                !.out = <<>>]

HostElapse == host' = HostElapsed(host)

HostNext ==
  \/ Connect \/ HostStart \/ Receive \/ Reconnected \/ HostCrash
  \/ PowerCycle \/ HostElapse

HostInit == host = InitHost

HostSpec == HostInit /\ [][HostNext]_host

(***************************************************************************)
(* Properties.                                                             *)
(***************************************************************************)
HostState ==
  [ phase: {"down", "connected", "serving"},
    achieved: Profiles \cup {None}, requested: Profiles \cup {None},
    boot: BOOLEAN, previous: PreviousRun \cup {None}, count: Nat,
    noted: PreviousRun \cup {None}, ttl: Nat \cup {None},
    network: Network \cup {None}, clean: BOOLEAN,
    running: SUBSET Units, radio: Radio, cpu: Governors \cup {None},
    file: PreviousRun \cup {None}, out: Seq(HostStatus) ]

HostTypeOK == host \in HostState

\* Where nothing keeps HOSTD from writing it, last-profile says what HOSTD
\* means it to say, resume count included: what a crash forgets, the next
\* start reads back.
RecordAgrees == host.noted # None => host.file = host.noted /\ host.file.count = host.count

\* `profile` starts naming a profile only when the whole platform is that
\* profile: its units and no other, its network, its governor.
NamesOnlyWhole ==
  [][ host'.achieved \notin {host.achieved, None}
      => /\ host'.running = WantedOf[host'.achieved]
         /\ host'.radio = NetworkOf[host'.achieved].mode
         /\ host'.cpu = GovernorOf[host'.achieved] ]_host
=============================================================================
