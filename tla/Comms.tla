-------------------------------- MODULE Comms --------------------------------
(***************************************************************************)
(* comms/service.py: the radio link.  Lines that come in over the mesh are *)
(* turned into commands on the bus and answered on the air, one reply a    *)
(* wake; a beacon goes out on a schedule; the profile decides whether the  *)
(* radio may speak at all.                                                 *)
(*                                                                         *)
(* Handlers and tick run under one lock and are one step each, as methods  *)
(* over the state; only what the base class does with an obc_status before *)
(* the handler is a step of its own.                                       *)
(*                                                                         *)
(* What the process remembers:                                             *)
(*   phase        down; connected, before on_start; serving; stopping      *)
(*   profile, state      as absorbed from obc_status                       *)
(*   absorbing    an obc_status has been absorbed, its handler has not run *)
(*   resolved, downlink  _downlink_profile and _downlink                   *)
(*   requested    _beacon_requested                                        *)
(*   bootSaid     _boot_reported                                           *)
(*   queue        _pending_acks: [n, wait, query, since, wakes], n the     *)
(*                number of the line that it answers, and the wakes that   *)
(*                went by since it was due                                 *)
(*   photo        _photo: [n, at], whose photograph and the when of it     *)
(*   age          the time since _last_beacon, or None                     *)
(*   published    _published                                               *)
(*   present      the mesh channel's                                       *)
(*   port, inbox  the driver's _interface and _inbox                       *)
(* and, beyond its life:                                                   *)
(*   said         the retained comms_status                                *)
(*   told, boots  the retained obc_status and the number of its boot       *)
(*                report, 0 when nothing was interrupted                   *)
(*   orders       set_comms_config on its way back from the broker         *)
(*   asked, frame, taken  the photographs PAYLOAD owes, the last it took   *)
(*                and their count, which is the time that they are stamped *)
(*   node         whether the Meshtastic node answers                      *)
(*   quiet        the time since a line left in this life, by any path     *)
(*   sent         the lines that left in the last step                     *)
(* The telemetry in a line, the last uplink and what no decision reads are *)
(* left out.                                                               *)
(***************************************************************************)
EXTENDS Integers, SequencesExt

CONSTANTS
  None,
  DownlinkOf,   \* profiles.yaml: profile -> [lora, beacon]
  Statuses,     \* the obc_status OBC may publish: [profile, state]
  Interval,     \* BEACON_INTERVALS: state -> time between two beacons
  Lines,        \* what may be heard: [ours, bang, verb]
  Table,        \* compact._TABLE: the verbs that are commands
  Queries,      \* those that COMMS answers itself
  MaxPending,   \* MAX_PENDING_ACKS
  AckDelay,     \* ACK_DELAY_SEC
  Limits        \* how often each thing of the environment may happen

Kinds == {"heard", "says", "rare"}
Booleans == [present: BOOLEAN, beacon: BOOLEAN, listening: BOOLEAN]
Numbers == 0 .. Limits.heard
Profiles == {status.profile : status \in Statuses}
NoDownlink == [lora |-> FALSE, beacon |-> FALSE]

ASSUME CommsAssumption ==
  /\ \A p \in DOMAIN DownlinkOf : DownlinkOf[p] \in [lora: BOOLEAN, beacon: BOOLEAN]
  /\ \A s \in DOMAIN Interval : Interval[s] \in Nat \ {0}
  /\ DOMAIN Interval # {} /\ IsFiniteSet(DOMAIN Interval)
  /\ Queries \subseteq Table
  /\ MaxPending \in Nat \ {0} /\ AckDelay \in Nat \ {0}
  /\ Limits \in [Kinds -> Nat]
  /\ None \notin Nat \cup Booleans \cup [n: Numbers, at: Numbers]

\* Beyond this age every interval is over.
Longest == Max({Interval[s] : s \in DOMAIN Interval})

VARIABLES comms, left

Spend(kind) == left[kind] > 0 /\ left' = [left EXCEPT ![kind] = @ - 1]
Up == comms.phase # "down"

\* A process that has not been started.
Fresh(c) ==
  [c EXCEPT !.phase = "down", !.profile = None, !.state = None,
            !.absorbing = FALSE, !.resolved = None, !.downlink = NoDownlink,
            !.requested = TRUE, !.bootSaid = None, !.queue = <<>>, !.photo = None,
            !.age = None, !.published = None, !.present = FALSE,
            !.port = FALSE, !.inbox = <<>>, !.quiet = Longest]

InitComms ==
  /\ \E told \in Statuses :
       comms = Fresh(
         [ phase |-> "down", profile |-> None, state |-> None,
           absorbing |-> FALSE, resolved |-> None, downlink |-> NoDownlink,
           requested |-> TRUE, bootSaid |-> None, queue |-> <<>>, photo |-> None,
           age |-> None, published |-> None, present |-> FALSE,
           port |-> FALSE, inbox |-> <<>>, quiet |-> Longest,
           said |-> None, told |-> told, boots |-> 0, orders |-> <<>>,
           asked |-> <<>>, frame |-> None, taken |-> 0, node |-> TRUE,
           sent |-> <<>> ])
  /\ left = Limits

(***************************************************************************)
(* What is permitted, and the status.                                      *)
(***************************************************************************)
Listening(c) == c.downlink.lora
BeaconEnabled(c) == c.downlink.lora /\ c.requested

Snapshot(c) ==
  [present |-> c.present, beacon |-> BeaconEnabled(c), listening |-> Listening(c)]

\* _publish_status(force=True)
ForceStatus(c) == [c EXCEPT !.published = Snapshot(c), !.said = Snapshot(c)]

\* _publish_status
PublishStatus(c) == IF c.published = Snapshot(c) THEN c ELSE ForceStatus(c)

(***************************************************************************)
(* The air.                                                                *)
(***************************************************************************)

\* The driver's _open: an interface that is open already answers for the node.
OpenPort(c) == [c EXCEPT !.port = @ \/ c.node]

\* MeshChannel.open, which probes.
ProbeMesh(c) == [OpenPort(c) EXCEPT !.present = OpenPort(c).port]

\* MeshChannel.send: the driver opens the port if it must.
Send(c, line) ==
  IF c.node
  THEN [OpenPort(c) EXCEPT !.present = TRUE, !.quiet = 0,
                           !.sent = Append(@, line)]
  ELSE [c EXCEPT !.present = FALSE]

\* Every line that left costs the airtime budget; one that failed does not.
Transmit(c, line) ==
  IF c.node THEN [Send(c, line) EXCEPT !.age = 0] ELSE Send(c, line)

Line(c, kind) == [kind |-> kind, n |-> 0, photo |-> None, gap |-> c.quiet]

\* _photo_fields: whose photograph a reply reports, None for noreply.
PhotoFields(c, entry) ==
  IF entry.since = None \/ c.photo = None THEN None
  ELSE IF c.photo.at <= entry.since THEN None ELSE c.photo.n

\* Mutant: a beacon switched off swallows the replies as well.
MaybeAckWhileBeaconing(c) ==
  LET due == {i \in DOMAIN c.queue : c.queue[i].wait = 0}
  IN  IF ~Listening(c) THEN [c EXCEPT !.queue = <<>>]
      ELSE IF due = {} \/ ~BeaconEnabled(c) THEN c
      ELSE LET entry == c.queue[Min(due)]
           IN  Transmit([c EXCEPT !.queue = RemoveAt(@, Min(due))],
                        [kind |-> "ack", n |-> entry.n,
                         photo |-> PhotoFields(c, entry), gap |-> c.quiet])

\* _maybe_ack: the first that is due, and it is gone if it fails.
MaybeAck(c) ==
  LET due == {i \in DOMAIN c.queue : c.queue[i].wait = 0}
  IN  IF ~Listening(c) THEN [c EXCEPT !.queue = <<>>]
      ELSE IF due = {} THEN c
      ELSE LET entry == c.queue[Min(due)]
           IN  Transmit([c EXCEPT !.queue = RemoveAt(@, Min(due))],
                        [kind |-> "ack", n |-> entry.n,
                         photo |-> PhotoFields(c, entry), gap |-> c.quiet])

\* _maybe_beacon, with _beacon_interval: a state without one does not beacon.
BeaconDue(c) ==
  /\ BeaconEnabled(c)
  /\ c.state \in DOMAIN Interval
  /\ c.age # None => c.age >= Interval[c.state]

MaybeBeacon(c) == IF BeaconDue(c) THEN Transmit(c, Line(c, "beacon")) ELSE c

\* _going_down_beacon
GoingDown(c) ==
  IF Listening(c) THEN PublishStatus(Transmit(c, Line(c, "down"))) ELSE c

\* Mutant: a boot report is not charged to the budget.
BootReportForFree(c) ==
  IF c.boots \in {0, c.bootSaid} THEN c
  ELSE LET marked == [c EXCEPT !.bootSaid = c.boots]
       IN  IF Listening(c) THEN Send(marked, Line(c, "boot")) ELSE marked

\* _on_boot_report: marked as said before anything can keep it from the air.
BootReport(c) ==
  IF c.boots \in {0, c.bootSaid} THEN c
  ELSE LET marked == [c EXCEPT !.bootSaid = c.boots]
       IN  IF Listening(c) THEN Transmit(marked, Line(c, "boot")) ELSE marked

(***************************************************************************)
(* The uplink.                                                             *)
(***************************************************************************)

\* Mutant: one slot, whatever the command was.
ScheduleInOneSlot(c, entry) == [c EXCEPT !.queue = <<entry>>]

\* A queue without its queries.
Effects(queue) ==
  LET kept[i \in 0 .. Len(queue)] ==
        IF i = 0 THEN <<>>
        ELSE IF queue[i].query THEN kept[i - 1] ELSE Append(kept[i - 1], queue[i])
  IN  kept[Len(queue)]

\* Mutant: a queue without its bound.
ScheduleUnbounded(c, entry) ==
  [c EXCEPT !.queue = Append(IF entry.query THEN Effects(@) ELSE @, entry)]

\* _schedule_ack: a query replaces the one before it; past the bound the oldest
\* goes.
Schedule(c, entry) ==
  LET all == Append(IF entry.query THEN Effects(c.queue) ELSE c.queue, entry)
  IN  [c EXCEPT !.queue = IF Len(all) > MaxPending THEN Tail(all) ELSE all]

\* _relay_compact: a query is answered here, anything else goes to the bus.
RelayCompact(c, n, verb) ==
  IF verb \in Queries
  THEN Schedule(c, [n |-> n, wait |-> 0, query |-> TRUE, since |-> None,
                   wakes |-> 0])
  ELSE Schedule(
         [c EXCEPT !.orders = IF verb \in {"on", "off"} THEN Append(@, verb) ELSE @,
                   !.asked  = IF verb = "photo" THEN Append(@, n) ELSE @],
         [n |-> n, wait |-> AckDelay, query |-> FALSE,
          since |-> IF verb = "photo" THEN c.taken ELSE None, wakes |-> 0])

\* compact.translate: the verbs of the table are commands.
Translates(line) == line.verb \in Table

\* _relay, past the channel's filter: of what is no command, only a `!` is
\* answered.
Relay(c, heard) ==
  IF ~heard.line.ours THEN c
  ELSE IF Translates(heard.line) THEN RelayCompact(c, heard.n, heard.line.verb)
  ELSE IF heard.line.bang
       THEN Schedule(c, [n |-> heard.n, wait |-> AckDelay, query |-> FALSE,
                         since |-> None, wakes |-> 0])
  ELSE c

\* _collect_uplink: the lines are relayed one after another.
CollectUplink(c) ==
  LET after[i \in 0 .. Len(c.inbox)] ==
        IF i = 0 THEN [c EXCEPT !.inbox = <<>>]
        ELSE Relay(after[i - 1], c.inbox[i])
  IN  IF Listening(c) THEN after[Len(c.inbox)] ELSE c

\* tick
Tick(c) == PublishStatus(MaybeBeacon(MaybeAck(CollectUplink(c))))

\* Another wake that a due reply has seen go by.
Waited(queue) ==
  [i \in DOMAIN queue |-> IF queue[i].wait = 0
                          THEN [queue[i] EXCEPT !.wakes = @ + 1] ELSE queue[i]]

Woken(c) == [c EXCEPT !.queue = Waited(@)]

(***************************************************************************)
(* The process.  Every step starts with nothing sent yet.                  *)
(***************************************************************************)
Now == [comms EXCEPT !.sent = <<>>]

\* on_state_change, under the envelope of the profile before, and report_in.
StateChanged(c) ==
  IF c.state = "CRITICAL" THEN GoingDown(c)
  ELSE IF c.state = "DEPLOY" THEN ForceStatus(c)
  ELSE c

\* The base class takes profile and state at once, the handler comes after.
Absorb(c) ==
  LET taken == [c EXCEPT !.profile = c.told.profile, !.state = c.told.state,
                         !.absorbing = TRUE]
  IN  IF c.told.state = c.state THEN taken ELSE StateChanged(taken)

\* Mutant: on_connected publishes what has changed.
ConnectedOnChange(c) == PublishStatus(c)

\* on_connected
Connected(c) == ForceStatus(c)

\* The broker answers a connection with what it retains.
CommsConnects ==
  /\ comms.phase = "down"
  /\ comms' = Absorb(Connected([Now EXCEPT !.phase = "connected"]))
  /\ UNCHANGED left

\* on_start
CommsProbes ==
  /\ comms.phase = "connected"
  /\ comms' = PublishStatus(ProbeMesh([Now EXCEPT !.phase = "serving"]))
  /\ UNCHANGED left

CommsTicks ==
  /\ comms.phase = "serving"
  /\ comms' = Woken(Tick(Now))
  /\ UNCHANGED left

\* on_stop
CommsStops ==
  /\ comms.phase = "serving"
  /\ Spend("rare")
  /\ comms' = [Now EXCEPT !.phase = "stopping", !.port = FALSE]

CommsEnds ==
  /\ comms.phase = "stopping"
  /\ comms' = Fresh(Now)
  /\ UNCHANGED left

CommsCrashes ==
  /\ Up /\ Spend("rare")
  /\ comms' = Fresh(Now)

(***************************************************************************)
(* The broker.                                                             *)
(***************************************************************************)

\* The profile changes in STANDBY only.
Follows(status) ==
  status.profile = comms.told.profile \/ status.state = "STANDBY"

ObcSays ==
  /\ ~comms.absorbing
  /\ \E status \in {s \in Statuses \ {comms.told} : Follows(s)} :
       LET told == [Now EXCEPT !.told = status]
       IN  comms' = IF Up THEN Absorb(told) ELSE told
  /\ Spend("says")

\* OBC came back with the verdict on a run that was interrupted.
ObcBoots ==
  /\ ~comms.absorbing
  /\ Spend("rare")
  /\ LET told == [Now EXCEPT !.boots = @ + 1]
     IN  comms' = IF Up THEN Absorb(told) ELSE told

\* _reconcile_downlink: a profile starts with the beacon that it asks for.
ReconcileDownlink(c) ==
  LET downlink == IF c.profile \in DOMAIN DownlinkOf THEN DownlinkOf[c.profile]
                  ELSE NoDownlink
  IN  IF c.profile = c.resolved THEN c
      ELSE PublishStatus([c EXCEPT !.resolved = c.profile, !.downlink = downlink,
                                   !.requested = downlink.beacon])

\* _on_obc_status: the envelope before the boot report.
HandlesObcStatus ==
  /\ comms.absorbing
  /\ comms' = BootReport(ReconcileDownlink([Now EXCEPT !.absorbing = FALSE]))
  /\ UNCHANGED left

\* _set_config; an order for a process that is gone is lost.
TakesOrder ==
  /\ comms.orders # <<>> /\ ~comms.absorbing
  /\ LET taken == [Now EXCEPT !.orders = Tail(@)]
     IN  comms' = IF Up
                  THEN PublishStatus([taken EXCEPT
                         !.requested = Head(comms.orders) = "on"])
                  ELSE taken
  /\ UNCHANGED left

\* _on_payload_photo: a photograph that was asked for, or its refusal; the
\* retained one comes again to every new process.
PhotoArrives ==
  /\ Up /\ ~comms.absorbing /\ comms.photo # comms.frame
  /\ comms' = [Now EXCEPT !.photo = comms.frame]
  /\ UNCHANGED left

\* The broker came back without what it retained.
BrokerReturns ==
  /\ Up /\ ~comms.absorbing
  /\ Spend("rare")
  /\ comms' = Connected([Now EXCEPT !.said = None, !.frame = None])

(***************************************************************************)
(* The rest of the world.                                                  *)
(***************************************************************************)

\* PAYLOAD answers the oldest order, at a time of its own.
PayloadAnswers ==
  /\ comms.asked # <<>>
  /\ comms' = [Now EXCEPT !.asked = Tail(@), !.taken = @ + 1,
                          !.frame = [n |-> Head(comms.asked), at |-> comms.taken + 1]]
  /\ UNCHANGED left

\* _on_receive: what the node hears while the port is open.
NodeHears ==
  /\ comms.node /\ comms.port
  /\ \E line \in Lines :
       comms' = [Now EXCEPT !.inbox =
                   Append(@, [n |-> Limits.heard - left.heard + 1, line |-> line])]
  /\ Spend("heard")

NodeFails ==
  /\ comms.node /\ Spend("rare")
  /\ comms' = [Now EXCEPT !.node = FALSE]

NodeReturns ==
  /\ ~comms.node
  /\ comms' = [Now EXCEPT !.node = TRUE]
  /\ UNCHANGED left

Older(n) == IF n < Longest THEN n + 1 ELSE n
Nearer(queue) ==
  [i \in DOMAIN queue |-> [queue[i] EXCEPT !.wait = IF @ > 0 THEN @ - 1 ELSE 0]]

TimePasses ==
  /\ comms' = [Now EXCEPT
       !.age = IF @ = None THEN None ELSE Older(@),
       !.quiet = Older(@),
       !.queue = Nearer(@)]
  /\ UNCHANGED left

NextComms ==
  \/ CommsConnects \/ CommsProbes \/ CommsTicks
  \/ CommsStops \/ CommsEnds \/ CommsCrashes
  \/ ObcSays \/ ObcBoots \/ HandlesObcStatus
  \/ TakesOrder \/ PhotoArrives \/ BrokerReturns \/ PayloadAnswers
  \/ NodeHears \/ NodeFails \/ NodeReturns \/ TimePasses

commsVars == <<comms, left>>
SpecComms == InitComms /\ [][NextComms]_commsVars

(***************************************************************************)
(* Properties.                                                             *)
(***************************************************************************)
Entries == [n: Numbers, wait: 0 .. AckDelay, query: BOOLEAN,
            since: Numbers \cup {None}, wakes: Nat]
Frames == [n: Numbers, at: Numbers]

Phases == {"down", "connected", "serving", "stopping"}
Downlinks == [lora: BOOLEAN, beacon: BOOLEAN]
Ages == 0 .. Longest
Boots == 0 .. Limits.rare
SomeProfile == Profiles \cup {None}
SomeState == {s.state : s \in Statuses} \cup {None}
SomeBoot == Boots \cup {None}
SomeFrame == Frames \cup {None}
SomeAge == Ages \cup {None}
SomeStatus == Booleans \cup {None}
Heard == [n: Numbers, line: Lines]
Replies == [kind: {"ack", "beacon", "down", "boot"}, n: Numbers,
            photo: Numbers \cup {None}, gap: Ages]

CommsState ==
  [ phase: Phases, profile: SomeProfile, state: SomeState, absorbing: BOOLEAN,
    resolved: SomeProfile, downlink: Downlinks, requested: BOOLEAN,
    bootSaid: SomeBoot, queue: Seq(Entries), photo: SomeFrame, age: SomeAge,
    published: SomeStatus, present: BOOLEAN, port: BOOLEAN, inbox: Seq(Heard),
    quiet: Ages, said: SomeStatus, told: Statuses, boots: Boots,
    orders: Seq({"on", "off"}), asked: Seq(Numbers), frame: SomeFrame,
    taken: Numbers, node: BOOLEAN, sent: Seq(Replies) ]

\* The type, with the bound of the queue.
CommsTypeOK ==
  /\ comms \in CommsState
  /\ left \in [Kinds -> Nat]
  /\ Len(comms.queue) <= MaxPending

\* The lines that deserve a reply and have not had one: in the driver's inbox,
\* or accepted and in the queue.
Deserving(c) ==
  {h.n : h \in {h \in Range(c.inbox) :
                  h.line.ours /\ (h.line.bang \/ h.line.verb \in Table)}}
Accepted(c) == {e.n : e \in Range(c.queue)}
Owed(c) == Accepted(c) \cup Deserving(c)
Answers(c) == {line.n : line \in Range(c.sent)}
IsQuery(c, n) ==
  \/ \E h \in Range(c.inbox) : h.n = n /\ h.line.verb \in Queries
  \/ \E e \in Range(c.queue) : e.n = n /\ e.query

\* Why a reply may never be tried: a newer query answers for it, newer replies
\* filled the queue, the profile says nothing at all, or the process ends.
Excused(n) ==
  LET newer == {m \in Owed(comms) : m > n}
  IN  \/ IsQuery(comms, n) /\ \E m \in newer : IsQuery(comms, m)
      \/ Cardinality(newer) >= MaxPending
      \/ ~Listening(comms)
      \/ comms'.phase = "down"

\* What a step takes from those that are owed a reply.
LossIsExcused ==
  LET lost == {n \in Owed(comms) \ (Owed(comms') \cup Answers(comms')) :
                 ~Excused(n)}
  IN  Cardinality(lost) <= IF comms'.present THEN 0 ELSE 1

\* No reply is lost without a reason: a line that deserves one keeps its place
\* until its reply is on the air, whatever else is heard in the same wake; at
\* most one reply a wake is tried in vain, when the node does not answer
\* (_schedule_ack: "the single slot this replaced lost the first of any two
\* commands sent inside ten seconds, silently").
RepliesAreOwed == [][LossIsExcused]_commsVars

\* A beacon of the schedule never follows a line of any kind within the
\* interval of the state, and no wake sends two lines: every path that
\* transmits is charged to the one budget.
AirtimeIsRationed ==
  /\ Len(comms.sent) <= 1
  /\ \A line \in Range(comms.sent) :
       line.kind = "beacon" => line.gap >= Interval[comms.state]

\* What the broker retains is true: whether the beacon runs and the inbox is
\* read always; whether the node answered, unless only the boot beacon has
\* tried since the last wake (its handler publishes before it transmits).
StatusIsTrue ==
  Up => /\ comms.said # None
        /\ comms.said.beacon = BeaconEnabled(comms)
        /\ comms.said.listening = Listening(comms)
        /\ comms.said.present = comms.present \/ comms.bootSaid # None

\* No reply is kept waiting: once it is due it goes within as many wakes as the
\* queue is long, whatever is heard meanwhile and with the beacon off as well
\* (_maybe_ack: "the queue exists so a reply is *late* rather than lost").
RepliesAreTried ==
  \A entry \in Range(comms.queue) : entry.wakes < MaxPending

\* Two photographs are two events: a reply reports the photograph of its own
\* command or none (_schedule_ack: "an operator who received one confirmation
\* for two commands cannot tell which one it is about").
PhotoAnswersItsOwn ==
  \A line \in Range(comms.sent) : line.photo \in {None, line.n}

==============================================================================
