------------------------------ MODULE ObcHostd ------------------------------
(***************************************************************************)
(* The head and the hands together: OBC and HOSTD over the broker.  OBC    *)
(* sends actions on host_command, HOSTD answers on the retained            *)
(* host_status; each topic is delivered in order, and each process, the    *)
(* broker and the board may die.  A session ends with its connection and   *)
(* the broker keeps nothing on disk, so what a dead process or a dead      *)
(* broker held is lost; a process that connects again is given the         *)
(* retained status.                                                        *)
(*                                                                         *)
(* The readings stay above the CRITICAL threshold, and the services are    *)
(* those of an empty profile: the poweroff and the subsystems are Obc's.   *)
(*                                                                         *)
(*   toHost    the actions on their way to HOSTD                           *)
(*   toObc     the host_status messages on their way to OBC                *)
(*   retained  the last host_status the broker was given, or None          *)
(*   left      how often each mishap of the environment may still happen   *)
(* and, for the properties alone:                                          *)
(*   lives     the lives in a row that began with a resume                 *)
(*   resumed   the present life has begun with one                         *)
(***************************************************************************)
EXTENDS Obc, Hostd

CONSTANTS
  MaxQueue,     \* how many messages a topic may have in flight
  MaxAsks,      \* how many profiles the ground may ask for
  MaxCrashes,   \* how many times OBC or HOSTD may die
  MaxBounces,   \* how many times the broker may die
  MaxResets,    \* how many times the board may be reset
  MaxEarly,     \* how many times an action may reach HOSTD before on_start
  MaxTogether   \* how many crashes, bounces and early actions in one behaviour

ASSUME ObcHostdAssumption ==
  /\ {MaxQueue, MaxAsks, MaxCrashes, MaxBounces, MaxResets, MaxEarly,
      MaxTogether} \subseteq Nat
  /\ \A eps \in Readings : eps.median # None /\ eps.median >= CriticalVolts
  /\ Services = {}
  /\ "powersave" \in Governors
  /\ None \notin HostStatus

VARIABLES toHost, toObc, retained, left, lives, resumed

ghosts == <<lives, resumed>>
vars == <<obc, host, toHost, toObc, retained, left, ghosts>>

InitObcHostd ==
  /\ Init /\ HostInit
  /\ toHost = <<>> /\ toObc = <<>> /\ retained = None
  /\ left = [asks |-> MaxAsks, crashes |-> MaxCrashes, bounces |-> MaxBounces,
             resets |-> MaxResets, early |-> MaxEarly]
  /\ lives = 0 /\ resumed = FALSE

\* How many crashes, bounces and early actions there have been.
Upsets   == {"crashes", "bounces", "early"}
Suffered == (MaxCrashes - left.crashes) + (MaxBounces - left.bounces)
            + (MaxEarly - left.early)

Spend(what) ==
  /\ left[what] > 0 /\ left' = [left EXCEPT ![what] = @ - 1]
  /\ what \in Upsets => Suffered < MaxTogether

(***************************************************************************)
(* OBC's side.                                                             *)
(***************************************************************************)

\* What OBC has just published for HOSTD, in order.
ActionsOf(out) ==
  LET among[n \in 0 .. Len(out)] ==
        IF n = 0 THEN <<>>
        ELSE IF out[n].kind = "status" THEN among[n - 1]
        ELSE Append(among[n - 1], out[n])
  IN  among[Len(out)]

\* Nobody is subscribed for a HOSTD that is down.
Relayed(out) ==
  IF host.phase = "down" THEN toHost ELSE toHost \o ActionsOf(out)

Relay ==
  /\ toHost' = Relayed(obc'.out)
  /\ Len(toHost') <= MaxQueue

ObcStep == Relay /\ UNCHANGED <<host, toObc, retained, ghosts>>

ObcStarts     == OnStart /\ ObcStep /\ UNCHANGED left
ObcTicks      == Tick /\ ObcStep /\ UNCHANGED left
GroundAsks    == SetProfile /\ ObcStep /\ Spend("asks")
GroundFreesIt == GroundRecover /\ ObcStep /\ UNCHANGED left
EpsSpeaks     == EpsReports /\ ObcStep /\ UNCHANGED left

StatusArrives ==
  /\ toObc # <<>>
  /\ toObc' = Tail(toObc)
  /\ \E absent \in BOOLEAN :
       obc' = Reconcile(OnHostStatus(Quiet, Head(toObc), absent), absent)
  /\ Relay
  /\ UNCHANGED <<host, retained, left, ghosts>>

\* systemd starts OBC again; the broker gives it the retained status.
ObcDies ==
  /\ Restart
  /\ Spend("crashes")
  /\ toObc' = IF retained = None THEN <<>> ELSE <<retained>>
  /\ UNCHANGED <<host, toHost, retained, ghosts>>

(***************************************************************************)
(* HOSTD's side.                                                           *)
(***************************************************************************)
Deliver ==
  /\ toObc' = toObc \o host'.out
  /\ Len(toObc') <= MaxQueue
  /\ retained' = IF host'.out = <<>> THEN retained
                 ELSE host'.out[Len(host'.out)]

HostConnects ==
  /\ Connect /\ Spend("early")
  /\ UNCHANGED <<obc, toHost, toObc, retained, ghosts>>

HostStarts ==
  /\ HostStart /\ Deliver
  /\ UNCHANGED <<obc, toHost, left, ghosts>>

\* What the action says of a life: a resume is another short life, clearing
\* the count makes it a flight, any other profile is a new decision.
Remember(a) ==
  LET asked == a.kind = "apply_profile" /\ a.profile # None
  IN  /\ resumed' = CASE asked -> a.resume
                      [] a.kind = "clear_resume" -> FALSE
                      [] OTHER -> resumed
      /\ lives' = CASE asked /\ a.resume /\ ~resumed -> lives + 1
                    [] asked /\ ~a.resume -> 0
                    [] a.kind = "clear_resume" -> 0
                    [] OTHER -> lives

ActionArrives ==
  /\ toHost # <<>>
  /\ host.phase # "down"
  /\ toHost' = Tail(toHost)
  /\ host' \in Handled(QuietHost, Head(toHost))
  /\ Deliver
  /\ Remember(Head(toHost))
  /\ UNCHANGED <<obc, left>>

\* HOSTD dies, perhaps inside the application it has begun; the life has begun
\* with that action when its note is in the file.
HostDies ==
  /\ Spend("crashes")
  /\ toHost' = <<>>
  /\ \/ /\ host.phase # "down"
        /\ host' = Forgotten(host)
        /\ UNCHANGED ghosts
     \/ /\ host.phase # "down" /\ toHost # <<>>
        /\ Head(toHost).kind = "apply_profile"
        /\ host' \in {Forgotten(h) : h \in Interrupted(host, Head(toHost), FALSE)}
        /\ IF host'.file \in {host.file, None} THEN UNCHANGED ghosts
           ELSE Remember(Head(toHost))
     \/ /\ host.phase # "serving"
        /\ host' \in {Forgotten(h) :
                       h \in Interrupted(Recalled(host), DefaultAction, TRUE)}
        /\ UNCHANGED ghosts
  /\ UNCHANGED <<obc, toObc, retained>>

(***************************************************************************)
(* The broker, the board and time.                                         *)
(***************************************************************************)

\* The broker dies with everything it held; HOSTD publishes again as soon as
\* it is connected.
BrokerBounces ==
  /\ Spend("bounces")
  /\ toHost' = <<>>
  /\ IF host.phase # "down" /\ host.achieved # None
     THEN /\ host' = PublishHost(QuietHost)
          /\ toObc' = host'.out
          /\ retained' = host'.out[1]
     ELSE host' = QuietHost /\ toObc' = <<>> /\ retained' = None
  /\ UNCHANGED <<obc, ghosts>>

BoardResets ==
  /\ Spend("resets")
  /\ obc' = InitObc
  /\ host' \in PowerCycled(host)
  /\ toHost' = <<>> /\ toObc' = <<>> /\ retained' = None
  /\ resumed' = FALSE
  /\ UNCHANGED lives

\* Deadlines are moments of the wall clock wherever they are written down.
StatusElapsed(status) ==
  LET run == status.previous
  IN  [status EXCEPT
         !.ttl = IF @ = None THEN None ELSE Down(@),
         !.previous = IF run = None \/ run.ttl = None THEN run
                      ELSE [run EXCEPT !.ttl = Down(@)]]

TimePasses ==
  /\ Elapse /\ HostElapse
  /\ toObc' = [i \in DOMAIN toObc |-> StatusElapsed(toObc[i])]
  /\ retained' = IF retained = None THEN None ELSE StatusElapsed(retained)
  /\ UNCHANGED <<toHost, left, ghosts>>

NextObcHostd ==
  \/ ObcStarts \/ ObcTicks \/ GroundAsks \/ GroundFreesIt \/ EpsSpeaks
  \/ StatusArrives \/ ObcDies \/ HostConnects \/ HostStarts \/ ActionArrives
  \/ HostDies \/ BrokerBounces \/ BoardResets \/ TimePasses

SpecObcHostd == InitObcHostd /\ [][NextObcHostd]_vars

(***************************************************************************)
(* Fairness: both processes are started again when they die and reach      *)
(* their main loops, OBC ticks, the broker delivers and time passes.       *)
(* Nothing is assumed of EPS or of the ground.                             *)
(***************************************************************************)

\* Weak fairness of each step, with what enables it written out: as many
\* method calls as they compose are beyond TLC's ENABLED.  A tick counts when
\* it changes something; every start and every action of HOSTD publishes one
\* status.
CanTick ==
  /\ obc.started
  /\ \E absent \in BOOLEAN :
       /\ <<Ticked(absent), Relayed(Ticked(absent).out)>> # <<obc, toHost>>
       /\ Len(Relayed(Ticked(absent).out)) <= MaxQueue
CanAnswer == Len(toObc) < MaxQueue

ObcIsStarted      == []<>obc.started \/ []<><<ObcStarts>>_vars
ObcKeepsTicking   == []<>(~CanTick) \/ []<><<ObcTicks>>_vars
StatusIsDelivered == []<>(toObc = <<>>) \/ []<><<StatusArrives>>_vars
HostIsStarted ==
  []<>(host.phase = "serving" \/ ~CanAnswer) \/ []<><<HostStarts>>_vars
ActionIsDelivered ==
  \/ []<>(toHost = <<>> \/ host.phase = "down" \/ ~CanAnswer)
  \/ []<><<ActionArrives>>_vars

FairObcHostd ==
  /\ SpecObcHostd
  /\ ObcIsStarted /\ ObcKeepsTicking /\ StatusIsDelivered
  /\ HostIsStarted /\ ActionIsDelivered /\ WF_vars(TimePasses)

(***************************************************************************)
(* Properties.                                                             *)
(***************************************************************************)

\* Both processes are up and nothing is on its way between them.
Settled ==
  /\ toHost = <<>> /\ toObc = <<>>
  /\ obc.started /\ host.phase = "serving"

\* However the processes and the broker died, once they are settled again OBC
\* flies the profile that HOSTD holds.
KnowsTheProfile ==
  Settled /\ host.achieved # None => Achieved = host.achieved

\* The boot-loop fence: never more than MaxConsecutive short lives in a row
\* begin with a resume, whatever was lost with each of them, as long as no
\* action has reached HOSTD before it read the count.
FenceHolds == left.early = MaxEarly => lives <= MaxConsecutive

\* The TTL is the way out of a profile without a radio: the satellite becomes
\* reachable again by itself (README.md on ttl_minutes), unless the broker died:
\* the request of the fallback dies with it, and OBC counts on its answer.
TtlHonoured ==
  host.radio = "off" ~> host.radio # "off" \/ left.bounces < MaxBounces
=============================================================================
