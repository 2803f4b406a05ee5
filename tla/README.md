# Verification of cubesat-sim

TLA+ models of the satellite's services, the TLC runs that check them on small
instances and the theorems TLAPS proves about them. Paths below are relative to
the repository; the Python package is `src/cubesat/`.

## 1. The system

One Raspberry Pi, a Mosquitto broker on it, and eight processes that talk over
MQTT. There are two axes. The **profile** (HOSTED, DEMO, EXPO, FLIGHT, DIAG,
MAINTENANCE) says what the platform is allowed to be and is chosen by a human;
the **mission state** (BOOT, STANDBY, DEPLOY, NOMINAL, LOW_POWER, SAFE,
CRITICAL) is how active the satellite is and is chosen by the satellite.

| Component | State it keeps | Operations | Talks to |
|---|---|---|---|
| **OBC** (`obc/`) | mission state, profile machine (achieved, requested, deadline), heartbeat monitor, bring-up in progress, fault latch, governor flag, resume question, flush thread | ground commands `set_profile`, `safe_mode`, `restart_service`, `recover`; `eps_status`, `host_status`, heartbeats, subsystem statuses; the tick; the flush thread | requests to HOSTD on `host_command`; `obc_status`, retained, to everybody |
| **HOSTD** (`hostd/`), as root | achieved and requested profile, `boot` flag, resume count, network last applied, TTL; units, radio, governor, `last-profile` on disk | `apply_profile`, `set_governor`, `restart_service`, `clear_resume`, `poweroff`; start; reconnect | `host_status`, retained, to OBC and DHS; a control socket for the CLI |
| **DHS** (`dhs/`) | open database and mission, sample buffers, last delete | missions opened and closed from `obc_status`, rows on the tick, retention, `delete_mission` | `dhs_status` to OBC and PAYLOAD |
| **PAYLOAD** (`payload/`) | mission id and photo root, which devices answered, the series and its thread, the camera's lock, idle timer and its generation | series started and stopped from `dhs_status` and `obc_status`, photographs on command, refusals, probes | `payload_photo`, `payload_data`, `payload_status` |
| **COMMS** (`comms/`) | the profile's envelope, beacon flag, queue of replies, last photograph, time of the last line, the driver's port and inbox | beacon, uplink relay, replies, boot and going-down lines, `set_comms_config` | mesh radio; `command`; `comms_status` to OBC |
| **EPS** (`eps/`) | windows of voltage and charge | polls the gauge, fits a slope, publishes | `eps_status` |
| **ADCS** (`adcs/`) | last fix | polls IMU and GNSS | `adcs_status` |
| **Dashboard, CLI** | none that matters | read the bus and the archive, send commands | `command`, control socket |
| **Service base class** (`common/service.py`) | mission state and profile as last heard | connect, `on_start`, main loop, messages on the MQTT thread | every service |

Hard behaviour, and where it comes from:

* messages are handled on the MQTT thread as soon as the broker answers, before
  `on_start` runs on the main thread;
* OBC and HOSTD answer each other over two independent topics: statuses and
  requests cross;
* every process may be restarted at any moment (`Restart=always`), the broker
  keeps nothing on disk, and the board may lose power; the only memory is the
  retained messages of a living broker and one small file, `last-profile`;
* an application of a profile is a sequence of system commands, each of which
  may fail;
* CRITICAL powers the host off from a thread that waits for DHS without OBC's
  lock;
* PAYLOAD uses one camera from four kinds of threads (main, MQTT, the thread of a
  series, idle timers), and only an exposure and an idle close take its lock;
* COMMS transmits on four occasions (reply, beacon, boot report, going down) with
  one airtime budget, and answers commands whose effect it does not see.

## 2. Modules

| Module | Models | |
|---|---|---|
| `CubesatTypes` | `common/states.py`, `common/profiles.py`, `common/last_profile.py` | vocabulary and the profile table, as constants |
| `MissionMachine` | `obc/mission_machine.py` | the transition table |
| `PowerPolicy` | `obc/power_policy.py` | what a battery reading calls for |
| `HealthMonitor` | `obc/health.py` | liveness of the watched services |
| `ProfileMachine` | `obc/profile_machine.py` | request, answer, TTL |
| `DeploySelfTest` | `obc/deploy.py` | one bring-up |
| `Resume` | `obc/resume.py` | the resume question |
| `Obc` | `obc/service.py` | the service that composes the six above |
| `Obc_proofs` | | theorems about `Obc` |
| `ObcPromise_proofs` | | `Obc` implements `MissionPromise`; what it announces and asks |
| `MissionPromise` | what `obc_status` promises of state and profile | the abstract specification that `Obc` implements |
| `MissionPromise_proofs` | | what every implementation of it keeps |
| `Hostd` | `hostd/service.py`, `network.py`, `executor.py`, `last_profile.py` | root's hands, the platform and the file |
| `Hostd_proofs` | | theorems about `Hostd` |
| `ObcHostd` | both, with broker, crashes, resets, time | the composition |
| `ObcHostd_proofs` | | theorems about `ObcHostd` |
| `Archive` | `dhs/missions.py`, `recorder.py`, `retention.py`, `schema.py` | one database and the photographs beside it, and the transactions on them |
| `Dhs` | `dhs/service.py`, and how `common/service.py` feeds it | the recorder |
| `Dhs_proofs` | | theorems about `Archive` and `Dhs` |
| `Camera` | `payload/camera.py` | the controller, as methods over PAYLOAD's state |
| `Payload` | `payload/service.py`, and how `common/service.py` feeds it | threads as sequences of stages over one camera |
| `Payload_proofs` | | theorems about `Camera` and `Payload` |
| `Comms` | `comms/service.py`, `mesh.py`, the vocabulary of `compact.py`, the port and inbox of `hal/rpi/meshtastic_radio.py` | the radio link |
| `Comms_proofs` | | theorems about `Comms` |
| `MC_*` | | profile tables and input sets for TLC |

How code becomes state and actions. Every handler of OBC and of HOSTD runs to
its end under one lock, so a handler is one action. A service's state is one
record; a method of the service is an operator from record to record, in the
order the code makes the calls, and what it publishes is appended to `out`
(cleared at the next step), so that properties can speak of the order of
messages. `_reconcile`, which the code runs at the end of every message, is part
of each action. The two halves of `_flush_then_poweroff`, which runs without the
lock, are actions of their own, and so are, in `Dhs`, the two assignments the base
class makes from an `obc_status` before the service takes its lock. Clocks are
ages or times left, in ticks of one
action `Elapse`; nothing depends on an absolute time.

Inputs. `Obc` is checked and proved against *any* status of HOSTD, any reading
and any heartbeat of the sets `HostReports`, `Readings`, `Beating`; the runs
choose those sets, the proofs do not. `ObcHostd` closes the loop with the real
HOSTD. In `Hostd` the constant `Mishaps` names what may fail on the platform:
units, network, access point, governor, the file, or a torn write of it. A
crash inside an application leaves what the completed prefix of its steps has
done (`Interrupted`). In `Dhs` every write may fail: a handler is given the set of
writes that fail in it, out of `Mishaps`, and a death between two writes leaves what
a failure of all the later ones leaves. `ObcSays` lets OBC announce what `Obc` may
announce, and no other order: a new profile comes first from STANDBY or CRITICAL,
which is `SwitchStartsFromStandby`.

`Payload` is the one model in which a handler is not one action, because PAYLOAD takes
no lock: what a thread has yet to do is a sequence of stages, `todo[t]`, and other
threads may come between any two (between the id and the root of a `dhs_status`,
between the two reads of a frame's context, between the flag of a series and its
join). A thread that cannot have the lock, or waits in a join, stays at its stage. The
generations of the idle timers are kept as what the code's comparison tells apart:
the timer still waiting, and those that have run out and wait for the lock, each
current or stale. A join may give up (`JoinTimesOut`) only while the thread exposes a
frame or waits to, which is all that can last as long as its timeout.

`Comms` is one action per handler again, except that the base class absorbs profile
and state before the handler takes its lock. The lines heard are numbered, so that a
reply, a photograph and the command they answer can be told apart; `quiet` is kept
beside the code's own `_last_beacon` and is reset by every line that leaves, whatever
the code remembers of it.

### The promise and its refinement

`MissionPromise` says in seven actions what the rest of the satellite may rely on: a
state sinks along `Lower` only, a fault grounds the satellite until the ground pardons
it, HOSTD achieves another profile or OBC restarts, and a profile that asks for no
mission is never flown. It knows nothing of readings, heartbeats, self-tests and clocks.
`Promise` in `Obc` instantiates it with the mission state, the achieved profile and the
latch; `ImplementsPromise`, that every step of OBC is one of the seven or a stutter, is
checked in `ObcSafety` and proved (`PromiseIsImplemented`). Two of its alternatives are
the code's and worth knowing: a change of profile may end in NOMINAL in one step,
because a bring-up with nothing to wait for concludes in the `_reconcile` of the same
message; and a ground `recover` in CRITICAL clears the latch although the state stays.

## 3. Runs

Three profiles stand for the table: the default one without a mission, an
active one without a TTL, and FLIGHT, which is active, has a TTL, no radio, and
may be resumed. The code never looks at a profile's name, except FLIGHT's in
`RESUMABLE`, which is a constant here. One or two services are enough for a set
to be empty, partial and full. Grace times are one tick: what matters is before,
at and after a deadline.

Passing runs:

| Run | Question | Instance |
|---|---|---|
| `ObcSafety` | do latch, governor, bring-up, watch set, poweroff and mission state agree, whatever arrives in whatever order? | five battery bands, two chargers, an unreadable gauge; `safe_mode`, `recover`, switches; any profile in a status |
| `ObcLive` | does every bring-up end, and is CRITICAL followed by the poweroff? | flat battery, heartbeats and goodbyes of DHS and EPS, `restart_service`; fairness |
| `HostdMishaps` | is `profile` ever claimed for a platform that is not it, and does the record say what is meant? | three profiles, two units, failing units, network and governor; crashes inside applications; power cycles |
| `Platform` | once settled, does OBC fly the profile HOSTD holds; is the resume question answered, and once; does the boot-loop fence hold; does the radio come back when a trip ends? | one trip without a radio, three board resets, fence of two; and one out of: a crash anywhere in it, a broker restart, an action before `on_start`; `recover`; fairness |
| `Recorder` | is one mission open, on the card, and complete when it ends, and do samples, ids and photographs stay with theirs? | a recorded profile in either database and one that is not; two missions and one row each per database; failing closes, connections and photograph deletes |
| `Camera` | is there one series, in a state and a mission that permit it, and none at rest without them; do a trip's frames stay with it; is the camera given back and never pulled away? | two missions in two databases, NOMINAL and DEPLOY, two threads of series; four messages, one close of a mission swallowed by a lost connection; two out of a failing exposure, a full card, a death, a stop, a device that comes or goes, a broker restart, a command; one join given up |
| `Radio` | is every reply owed tried in time, is the airtime rationed, is the retained status true? | FLIGHT in four states and MAINTENANCE; three lines heard out of a query, a photograph, `off`, a mistyped `!` and a stranger's; one change of status and one mishap (crash, stop, broker, node, a boot report); two places in the queue |

Bounds. `MaxAsks`, `MaxCrashes`, `MaxBounces`, `MaxResets`, `MaxEarly` bound how often
each event of the environment happens in a composition run. Three resets are one more
than the fence of two allows to be resumed. `MaxTogether` bounds how many crashes,
broker restarts and early actions fall in one behaviour: each of them is met anywhere,
but two of them together only in the proofs, which know no such bound (with two, one of
a kind, the safety properties of the run hold too, in 641 964 states; the liveness
properties then take too long). `MaxQueue` bounds the messages in flight per topic (3,
which the runs do not fill except while a process is slow); `MaxResumes` bounds the
count in the run of HOSTD alone, where no OBC fences it. In `Recorder`, `Limits` allows
three changes of `obc_status` (enough to fly, end a mission and open the next in either
database), one change of HOSTD's profile, one photograph and two events out of: a write
that fails, a death, a sample, a delete, days passing. Every property of that run has a
plausible fault that needs no more than these to break it. Ticks, restarts, stops and
purges are not bounded. `Recorder` leaves failing flushes and a lost connection out:
what they break is `SampleStrays` and the DHS paragraph below. In `Camera` two threads
of series are what a stop that was given up needs to overlap the next series; four
messages open a mission, end it and open the other with a change of state between them.
A series ends itself after two failures instead of three. The idle window is positive
(`GivesBack`; the proofs hold for one that is not), and the default root is that of
`comms.db`, as in the code. In `Radio` three lines are one more than the queue holds,
which fills it in one wake, and the beacon intervals are one and two ack delays; the
node may come back, and ticks, deliveries and the passing of time are not bounded. What
must eventually happen is stated there as a bound: `RepliesAreTried` counts the wakes
that a due reply has seen go by.

Runs in which the code does not do what a document says of it. The line is
quoted under "findings" in `PROJECT.json`:

| Run | What happens |
|---|---|
| `TtlPartial` | a FLIGHT applied in part has switched the radio off, but nobody holds a deadline for it: it stays off |
| `SampleStrays` | samples whose write failed as their mission closed are written into the other database, under the mission that has the same id there |
| `MissionsDoNotMix` | a frame of a bench run reads the id of its mission and, the mission having ended meanwhile, no root: it is filed under that id among the trips |
| `MissionIsPhotographed` | one failed photograph ends the mission's series; one that succeeds does not start it again, and the mission goes on with an idle camera that works |
| `PhotoAnswersItsOwn` | the reply to one `!photo` reports the photograph of another |

The models also show the following. No document is specific enough about them to
refute, or the disagreement is a smaller one; they are written down so that nobody
finds them twice. Each is reached by a change of the constants of a run, or by
stating the formula named.

* OBC. A trip that waits for a mains reading is resumed over a profile that the ground
  has asked for meanwhile (`ResumesIn(obc'.out) # {} => obc.profile.requested = None`),
  although `obc/resume.py:20` says of whoever asked that "this must not argue with
  them". NOMINAL can be reached past an open self-test: a low battery during DEPLOY and
  the recovery from it leave `deploy` set (`Mission = "NOMINAL" => obc.deploy = None`,
  readings of 3.60 and 3.75 V). `on_start` reduces the watch set to EPS after a retained
  status has set it, and a status of the same profile does not fill it again: OBC then
  watches EPS alone until the next change of profile, although `README.md:948` of the
  repository says that `watched` is "the set of services the active profile expects to
  be running". A status of the profile already achieved starts no bring-up. A governor
  lowered while a change of profile is in flight stays low until the next change.
* HOSTD. Every start writes the default profile over `last-profile` before OBC has
  answered the resume question: a second reset within the evidence window forgets the
  trip. An access point that cannot be taken down is no error, and the profile is
  claimed in full (`"leave_ap"` in `Mishaps`). `restart_service` starts a unit the
  profile keeps stopped. A profile applied between the connection and `on_start` is
  replaced by the default one and reported as a boot; a resume applied there counts from
  zero, because the count is recalled later, and the fence then lets one more pass
  (`Platform` with `MaxTogether = 2`, `FenceHolds` without its condition). So does a
  crash inside the write of `last-profile` while a trip waits for its mains reading
  (`Platform` with `MaxCrashes` and `MaxTogether` at 2, `FenceHolds`): the request is
  then counted from zero. With an unwritable `last-profile` the fence never closes.
* OBC and HOSTD. Two quick commands for one profile leave them with different deadlines:
  the answer to the first is taken for that of the second, which `ProfileMachine` tells
  apart by the profile's name alone. The fallback at the TTL is asked for once: if the
  broker dies with the request, or the application fails in part, it is not repeated.
  The first is `TtlHonoured` without its exception: FLIGHT is applied, its deadline
  passes, OBC's tick asks for HOSTED, and the broker restarts before HOSTD has read
  that; HOSTD publishes FLIGHT and the same deadline again, OBC takes it for no news,
  and the radio stays off. The second is `TtlPartial`.
* DHS. If the connection is lost while OBC stands down, the status delivered afterwards
  changes the database with the old mission still open, and the `host_status` behind it
  then ends that mission's id in the wrong database (`"link"` in `Mishaps`,
  `OpenIsOnCard`). Samples of a mission that was deleted fail the foreign key, and every
  later batch with them, until the buffer has pushed them out. A database that failed to
  open is refused until the process restarts, although a comment says "until the target
  changes" (`dhs/service.py:159`). A status handled after `on_stop` opens a mission
  nobody closes; the next start ends it as interrupted.
* PAYLOAD. `MissionsDoNotMix` is a matter of two pairs of assignments and reads: the id
  without its root goes to the default root, the root without its id to the tmpfs. What
  does hold is `TripsKeepTheirFrames`: where every close of a mission was heard, a frame
  that is not with its own mission is in one of these two places, so no frame of a trip
  leaves it for another directory of the card. Where a lost connection swallows the
  close, DHS's next mission follows the last directly and the halves of two missions may
  meet in one frame; the series goes on from one to the next. During `on_stop` nothing
  on the MQTT thread waits for the series any more, and a mission opened then may share
  a frame with the one before. The status is composed and published from three threads
  without a lock and two of them may cross; in the model it is one stage. A process
  whose devices have all failed to answer publishes nothing on connection, but does when
  it reconciles. A photograph on command that fails leaves a series running that
  `_reconcile_mission_photos` would stop: nothing reconciles until the next message.
* COMMS. A boot report is marked as said before the envelope and the node are asked, and
  is not repeated if it fails; the absence of the node that it discovers reaches the
  retained status at the next wake. A CRITICAL that arrives with a change of profile, or
  first of all, says its goodbye under the envelope of the profile before, or of none.
  What the driver's inbox holds when a profile stops listening is carried out when one
  listens again. Reading the inbox never opens the port: after a probe that failed, a
  satellite that listens and has nothing to transmit (HOSTED in STANDBY) stays deaf when
  the node returns, until its next line or restart.

## 4. Fairness

`Obc` assumes that the process reaches `on_start` (`ReachesStart`), that it keeps
ticking (`KeepsTicking`; the main loop sleeps a bounded time and an exception in a tick
is caught), that time passes (`KeepsElapsing`), and that the flush thread is scheduled.
It assumes nothing of EPS, of HOSTD, of a subsystem or of the ground:
`CriticalPowersOff` and `DeployConcludes` hold with all of them silent. `ObcHostd`
(`TtlHonoured`, `ResumeIsAnswered`) adds that both processes are started again by
systemd (`Restart=always`), that a request or a status the broker holds for a process
that is up is handled, and that time passes; it does not assume that crashes stop, they
are merely bounded. Most of these conjuncts are weak fairness with the enabling
condition written out in place of ENABLED, which TLC would compute by trying every
nested operator of the handler. `Hostd`, `Dhs`, `Payload` and `Comms` have no liveness
property of their own, hence no fairness.

## 5. Proofs

Each theorem holds for every value of the constants the named assumptions allow: any
profile table, any readings, reports and commands, any grace times, any missions and
photographs, any bound of a queue and of the environment. The assumptions say what the
code's tables say (`ProfilesAssumption` and its like, next to the constants) and that
`None` is none of the values it stands beside. A theorem about fewer mishaps than the
model knows says so in its hypothesis, and the run of the same property makes the
same choice of `Mishaps`.

### OBC

`Obc_proofs`. The inductive invariant is `Inv == TypeOK /\ Safe(obc)`, where `Safe` is
the conjunction of six facts on a *record*: latch, flight, bring-up, governor, watch
set and poweroff agree with the mission state and the profile. None of the six
is inductive alone: a latch survives only in SAFE and CRITICAL *because* `_recover`
clears it and `stand_down` applies everywhere else; a bring-up tests the achieved
profile *because* every change of profile drops it; the governor is restored *because*
NOMINAL is reached only through `_reconcile_governor`. Being stated of a record, they
can be followed between two calls inside one handler; `ApplyProfileUpdateKeeps` is
the heart of it: the handler passes through records where the conjunction is broken
and has restored it by its end. From `Inv`:

* `TypeCorrect`, whose typing of `out` says that OBC never sends HOSTD a profile or a
  governor outside the table;
* `LatchDescends`, `FlightIsActive`, `BringUpIsTested`, `GovernorIsGivenBack`,
  `NoStrangerIsWatched`, `PoweroffOnlyInCritical`, one for each of the six (the watch
  set holds no service of another profile; that it holds all of its own is not so,
  section 3);
* `LatchIsHeld`, an action property, by the same case split: while the achieved
  profile stays and neither the ground recovers the satellite nor OBC restarts, a
  latched fault stays latched, in SAFE or CRITICAL.

`ObcPromise_proofs`. Its lemmas say exactly what a method does to mission state, latch
and profile, where those above only say what it keeps.

* `PromiseIsImplemented`: `Spec => ImplementsPromise`, one case per handler, each ending
  with `_reconcile`. A handler that fires several transitions is followed through all of
  them, and the composite is shown to be one action of the promise. With `PromiseIsKept`
  (`MissionPromise_proofs`: what any implementation of the promise keeps) it is what the
  other services may rely on.
* `SwitchIsAnnounced`: the first thing said under a new profile is STANDBY or CRITICAL;
  DHS depends on it to close the mission before it changes database.
* `ResumeIsAskedOnce`: a trip is asked back at most once in one life of the process.
  Once the question a boot left open has been answered no handler opens it again. It
  needs one invariant (`Unanswered`): a trip waits for its answer only while none has
  been given.
* `NoChatter`: a reading handled twice in a row changes nothing the second time. It
  rests on the thresholds of `power_policy.py` and nothing else: between two states
  there is no reading at which each calls for the other.

### HOSTD

`Hostd_proofs`. An application changes much at once, so it is described field by field
first (`Record`, `Interrupted` at each step), and the theorems read it from there.

* `HostTypeCorrect`, with any failure, crash and power cycle.
* `RecordIsKept`, where the file can be written: memory and `last-profile` agree. With
  `file` or `torn` among the mishaps it is false, which is the hazard at
  `common/last_profile.py:108`.
* `NamedIsWhole`, where the access point can be taken down. It is not inductive by
  itself: `_switch_network` skips an application that would change nothing, so the proof
  carries that the radio is tuned to what HOSTD remembers of it (`NetworkIsTuned`).

### OBC and HOSTD together

`ObcHostd_proofs`. `ProfileIsKnown` (`KnowsTheProfile`): with both processes up and
nothing on its way, OBC flies the profile HOSTD holds. It holds for every length of the
topics and any number of crashes, broker restarts, board resets and early actions, and
says nothing of the battery: the bounds are of the runs only. `KnowsTheProfile` speaks
of quiet moments and is far from inductive; the invariant `LinkInv == LinkTypeOK /\
Told` follows the profile *along its way*: whatever HOSTD holds is in the status the
broker retains, and is the last thing on `host_status` or, with nothing there, what OBC
has adopted. It is kept *because* HOSTD reports in full after everything it does
(`ApplicationIsReported`, `AnswerIsReported`: one report, and the last message of the
step), a HOSTD that is down holds nothing, a broker that died is told again by
`on_connected`, an OBC that starts is given the retained status, and no step of OBC but
the arrival of a status touches the profile it has adopted (`OwnStepsKeep`). That OBC
sends nothing HOSTD would have to refuse (`MessagesAreOrders`) is what keeps the types
of the topic.

`BootLoopIsFenced` (`FenceHolds`): never more than `MaxConsecutive` lives in a row begin
with a resume, for every fence, every topic and any number of deaths. The count is in a
file, the decision is OBC's, and between the two lie two topics, a wait for a mains
reading and any death; the invariant `Fenced` says what survives all of it:

* `CountIsOnFile`: every life that counts is in `last-profile`, and a HOSTD that serves
  agrees with it. A start reads the count before it overwrites the file and writes it back.
* `StatusesAreFresh`: a boot status, wherever it is (on the topic, retained, or about
  to be published again), knows of all the lives so far, or the present one is counted already.
* A trip waits in OBC, or is asked back on `host_command`, only while there is room for
  one life more or the present one is counted (`MayAsk`), else neither is the case
  (`NobodyAsks`). That no own step of OBC asks for a trip that does not wait
  (`OwnStepsAsk`) and that a status opens the question only when it refuses nothing
  (`StatusSpeaks`) comes from the lemmas behind `ResumeAskedOnce`.

Its hypotheses are the ways to lose the count, and each is needed: a file that cannot be
written (`"file"`, `"torn"` in `Mishaps`), an action before `on_start` has read it
(the condition in `FenceHolds`: `SomeWasEarly` is the other arm of the invariant), and a
death *inside* the write, which truncates first (`[][RecordSurvives]_vars`: a record is
never torn by a death). TLC checked `Fenced` itself before it was proved, with two
crashes and that hypothesis.

The actions among OBC's messages are a recursive function over `out`. What they are
made of is proved by counting up with a set (`CountingUp`, again from the
well-foundedness of the numbers), which serves wherever the library's induction
theorems would want a predicate.

### DHS

`Dhs_proofs`. First the transactions of `Archive` on one database (`Issued`, `Agrees`, and
`Onward`: what no number of them may do to what is on record), then the methods, then
the actions. The inductive invariant is
`DhsInv == DhsTypeOK /\ Sound(dhs) /\ Wired(dhs, bus.told)`: what is on the card
and what is open in it, and how the database asked for and the status absorbed but
not yet handled go with what OBC said last.

* `RecorderTypeCorrect`, whatever fails.
* With no connection lost unnoticed (`"link" \notin Mishaps`): `OpenStaysOnCard`, `OpenIsAlone`,
  `SummariesAgree`, `EndIsFinal`, `MissionBeginsEmpty`, `PhotosLeaveWithTheirMission`. The
  hypothesis is the hazard at `dhs/service.py:546`: a lost connection can swallow the
  stand-down between two profiles, and the database is then changed under a mission.
  Writes may still be refused, and the process may die between any two.
* Where in addition the writes of samples do not fail: `SamplesStayWhereTheyBelong` and
  `NothingIsLeftBehind` (`recording: false` is never said with a mission open, if only one
  whose end the card refused, or a sample in memory). `SampleStrays` is the run that
  shows why they need it.

### PAYLOAD

`Payload_proofs`. No lock makes a handler one step, so the invariant speaks of what every
thread has yet to do: only a few sequences of stages ever occur (the *walks*), and most
of the argument is about which may occur together. `PayloadInv` says which walks there
are, and beside them who holds the lock (`LockIsHeld`), whom a join waits for
(`JoinIsOn`), which loop is the current one (`LoopIsKnown`), that a series was permitted
and is told otherwise by whoever has yet to reconcile (`PermitIsDue`), and that an open
camera has somebody who will close it (`TimerIsSet`). Of the context it says two
things, both only where every close was heard (`ClosesAreHeard`): the pair is of one
mission except inside the handler that replaces it (`MissionIsWhole`), and a frame that
has read an id will read a root that goes with it or none, so that both halves, if it
has both, are of one mission (`FrameIsWhole`). The close between two missions, with
the join in it, is what keeps the pieces of one from those of the next. From the invariant
`PayloadTypeCorrect`, `SeriesRunAlone`, `TripsAreFiled`, `OpenCameraHasTimer` and the
action property `CameraStaysWarm`.

### COMMS

`Comms_proofs`. `CommsInv` has, beside the types, for each property the fact that makes it
inductive:

* `Patient(queue)`: the entry in place `i` has seen at most `MaxPending - i` wakes go by,
  and one that is not due none. `RepliesGoInTime` follows, and is not inductive by
  itself: it is because the oldest due reply goes first, and because a full queue gives
  up its oldest, that a wake which passes an entry over moves it one place nearer.
* `Charged`: what the code remembers of its last beacon is as old as the last line of any
  kind, so that no path transmits at nobody's expense. With `Rationed`, for the lines
  just sent, it gives `TheAirIsRationed`.
* `Shows`: what the broker retains is also what the code compares with before it publishes,
  and is true of beacon, inbox and node, with the boot beacon the one exception. It
  gives `TheStatusIsTrue`.
* `Counted`: photographs and boots never outrun the lines heard and the boots counted,
  which the types need (`RadioTypeCorrect`).

`NoReplyIsLost` (`RepliesAreOwed`) carries one fact more, `Ordered`: queue and inbox are in
the order in which their lines were heard, the queue before the inbox, and no number is
above that of the last line. Whatever takes a reply out of the queue is therefore newer
than it: a query the query after it, the bound at least `MaxPending` entries, counted
by their numbers (`Crowded`). `Recalls` says this of a wake up to any of its lines, relative
to where the wake began, since one wake may push out what it has itself accepted; the
reply that the wake tries is the one it may lose besides, when the node is gone
(`Settles`).

The lines of one wake are relayed one after another, a recursive function over the
inbox, as is what a query leaves of the queue. What holds of the whole wake is proved
by looking at the *least* line after which it would fail (`Least`, from the
well-foundedness of the numbers): induction by a set, because none of the provers can
be given the predicate the library's induction theorems want.

### What is only model-checked

All liveness (`CriticalPowersOff`, `DeployConcludes`, `TtlHonoured`,
`ResumeIsAnswered`): fairness and ENABLED are outside what the prover supports. That the
fence holds where one crash may tear `last-profile` (`Platform`) is seen by the run
alone; with two it does not hold (section 3). The properties that a run finds violated
are, of course, not theorems.

## 6. Plan

1. OBC: model, runs, theorems. *Done.*
2. HOSTD and its composition with OBC. *Done; HOSTD is proved.*
3. DHS: missions over two databases, orphan recovery, buffers, delete and
   retention. *Done; proved.*
4. PAYLOAD: the series against mission changes, the idle close. *Done; proved.*
5. COMMS: queue of replies, airtime, envelope, status. *Done; proved.*
6. The promise of the mission axis, refined by `Obc`. *Done; proved.*
7. The composition of OBC and HOSTD. *Done; both safety properties are proved.*
8. OBC, DHS and HOSTD at CRITICAL: what the recorder has flushed when the poweroff is
   asked for.
9. EPS: the slope fit and the median window against a reference; `beacon.build`: what
   a line that does not fit gives up, and in which order.

Not modelled: ADCS (it polls two sensors and publishes them), EPS (its output is the
input set `Readings`), the text of a radio line and the parameters of a command,
photographs ordered from the dashboard (a radio reply may report those too), the sidecar
and the numbering of photographs, `get_telemetry`, the heartbeat thread (its
heartbeats are an input of `Obc`).

Not planned: the other drivers (`hal/`), the dashboard and the CLI (clients without state
that the rest depends on), configuration loading, wording, cadences.
