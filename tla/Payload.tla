------------------------------- MODULE Payload -------------------------------
(***************************************************************************)
(* payload/service.py: the environment sensor, the camera, and the series  *)
(* of photographs that goes with a mission.  DHS says which mission is     *)
(* open and in which database, OBC says the state; the series follows      *)
(* both.  A handler is the sequence of stages the other threads may come   *)
(* between.                                                                *)
(*                                                                         *)
(* What the process remembers:                                             *)
(*   todo         thread -> the stages it has yet to do; "mqtt" is at rest *)
(*                with none, and the process is down when "main" has none  *)
(*   state        mission_state                                            *)
(*   id, root     _mission_id and _photos_root; `coming` is the root of a  *)
(*                dhs_status whose id alone has been stored                *)
(*   sensor, camera      _sensor_present, _camera_present                  *)
(*   run, threads, joins, holder, open, pending, firing                    *)
(*                the controller's, see Camera; `joins` is the thread that *)
(*                a thread waits for                                       *)
(*   said         whether the broker retains a payload_status; it outlives *)
(*                the process                                              *)
(* payload_photo and payload_data are left out: nothing here reads them.   *)
(***************************************************************************)
EXTENDS Camera

CONSTANTS
  States,   \* the states OBC may announce
  Pairs,    \* the missions DHS may open: [id, root]
  Limits    \* how often each thing of the environment may happen

NoMission == [id |-> None, root |-> None]
Presence == BOOLEAN \cup {None}
Kinds == {"says", "lost", "rare", "timeouts"}

ASSUME PayloadAssumption ==
  /\ States \subseteq AllStates /\ "DEPLOY" \in States
  /\ \A pair \in Pairs : /\ pair = [id |-> pair.id, root |-> pair.root]
                         /\ pair.id # None /\ pair.root # None
  /\ Limits \in [Kinds -> Nat]

VARIABLES pay, left

Spend(kind, n) == left[kind] >= n /\ left' = [left EXCEPT ![kind] = @ - n]
Cost(bad) == IF bad THEN 1 ELSE 0

\* A process that has not been started, with the retained status it left.
Stopped(said) ==
  [ todo |-> [t \in Threads |-> <<>>], state |-> None, id |-> None,
    root |-> None, coming |-> None, sensor |-> None, camera |-> None, run |-> None,
    threads |-> [r \in RunIds |-> Idle],
    joins |-> [t \in {"main", "mqtt"} |-> None], holder |-> None,
    open |-> FALSE, pending |-> FALSE, firing |-> {},
    said |-> said ]

(***************************************************************************)
(* The status.                                                             *)
(***************************************************************************)

Answered(p) == TRUE \in {p.sensor, p.camera}

\* on_connected, report_in and the end of on_start: only if something answered.
Evidence(p) == IF Answered(p) THEN <<"publish">> ELSE <<>>

\* _publish_status: what it says is left out.
Publish(p, t) == [Then(p, t, <<>>) EXCEPT !.said = TRUE]

\* _note_sensor and _note_camera, as the next stage of thread t.
NoteSensor(p, t, present) ==
  IF p.sensor = present THEN p
  ELSE [p EXCEPT !.sensor = present, !.todo[t] = <<"publish">> \o @]

NoteCamera(p, t, present) ==
  IF p.camera = present THEN Then(p, t, <<>>)
  ELSE [Then(p, t, <<"publish">>) EXCEPT !.camera = present]

(***************************************************************************)
(* The reconciler, a stage of the broker's thread.                         *)
(***************************************************************************)
MissionPermits(p) == p.id # None /\ ~Refused(p.state)
Wanted(p) == MissionPermits(p) /\ p.camera # FALSE

\* _reconcile_mission_photos
Reconcile(p) ==
  LET next == Then(p, "mqtt", <<"publish">>)
  IN  IF Wanted(p) = Active(p) THEN Then(p, "mqtt", <<>>)
      ELSE IF Wanted(p) THEN StartMissionPhotos(next)
      ELSE StopMissionPhotos(next, "mqtt")

(***************************************************************************)
(* The broker's thread.                                                    *)
(***************************************************************************)
Up == pay.todo["main"] # <<>>
MqttFree == Up /\ pay.todo["mqtt"] = <<>>
Handle(stages) == [pay EXCEPT !.todo["mqtt"] = stages]

\* The stages of a change of state: on_state_change, and report_in.
StateStages(state) ==
  <<"reconcile">> \o (IF state = "DEPLOY" THEN Evidence(pay) ELSE <<>>)

\* _absorb_obc_status: the state is there before the handler is.
ObcSays ==
  /\ MqttFree
  /\ \E state \in States \ {pay.state} :
       pay' = [Handle(StateStages(state)) EXCEPT !.state = state]
  /\ Spend("says", 1)

\* DHS closes a mission before it opens another, and retains what it says: a
\* connection that was lost in between delivers the next mission alone.
CloseWasLost(pair) == pay.id # None /\ pair.id # None

\* _on_dhs_status, for a pair that is news: the id now, the root in a stage of
\* its own.
DhsSays ==
  /\ MqttFree
  /\ \E pair \in Pairs \cup {NoMission} :
       /\ pair # [id |-> pay.id, root |-> pay.root]
       /\ pay' = [Handle(<<"root", "reconcile", "publish">>)
                    EXCEPT !.id = pair.id, !.coming = pair.root]
       /\ LET missed == Cost(CloseWasLost(pair))
          IN  /\ left.says >= 1 /\ left.lost >= missed
              /\ left' = [left EXCEPT !.says = @ - 1, !.lost = @ - missed]

TakeRoot ==
  /\ At(pay, "mqtt", "root")
  /\ pay' = [Then(pay, "mqtt", <<>>) EXCEPT !.root = pay.coming, !.coming = None]
  /\ UNCHANGED left

MqttReconciles ==
  /\ At(pay, "mqtt", "reconcile")
  /\ Wanted(pay) => Active(pay) \/ Free(pay) # {}
  /\ pay' = Reconcile(pay)
  /\ UNCHANGED left

\* _on_command and _take_photo, up to the lock; a refusal changes nothing.  The
\* photograph may fail at no further cost.
TakePhoto ==
  /\ MqttFree /\ ~Refused(pay.state)
  /\ Spend("rare", 1)
  /\ pay' = Handle(<<"expose">>)

\* The broker came back without what it retained: on_connected.
Reconnects ==
  /\ MqttFree
  /\ Spend("rare", 1)
  /\ pay' = [Handle(Evidence(pay)) EXCEPT !.said = FALSE]

(***************************************************************************)
(* What several threads do.                                                *)
(***************************************************************************)
PublishStatus ==
  /\ \E t \in Threads : At(pay, t, "publish") /\ pay' = Publish(pay, t)
  /\ UNCHANGED left

TakesTheLock ==
  /\ pay.holder = None
  /\ \E t \in Threads : At(pay, t, "expose") /\ pay' = Expose(pay, t)
  /\ UNCHANGED left

\* StorageFull: the command is refused, the series ends.
CardIsFull ==
  /\ pay.holder = None
  /\ \E t \in Threads :
       /\ At(pay, t, "expose")
       /\ Spend("rare", Cost(t # "mqtt"))
       /\ pay' = IF t = "mqtt" THEN Handle(<<"publish">>)
                 ELSE [pay EXCEPT !.todo[t] = <<"finish">>]

CameraAnswers ==
  /\ \E t \in Threads :
       /\ At(pay, t, "exposed")
       /\ pay' = IF t = "mqtt" THEN Exposed(pay, t, <<"answered">>)
                 ELSE FrameTaken(pay, t)
  /\ UNCHANGED left

CameraFails ==
  /\ \E t \in Threads :
       /\ At(pay, t, "exposed")
       /\ Spend("rare", Cost(t # "mqtt"))
       /\ pay' = IF t = "mqtt" THEN Exposed(pay, t, <<"failed">>)
                 ELSE FrameFailed(pay, t)

\* After a photograph, and _publish_frame.
NotesTheCamera ==
  /\ \E t \in Threads :
       \/ At(pay, t, "answered") /\ pay' = NoteCamera(pay, t, TRUE)
       \/ At(pay, t, "failed") /\ pay' = NoteCamera(pay, t, FALSE)
  /\ UNCHANGED left

JoinReturns ==
  /\ \E t \in {"main", "mqtt"} :
       /\ At(pay, t, "join") /\ ~Alive(pay, pay.joins[t])
       /\ pay' = Joined(pay, t)
  /\ UNCHANGED left

JoinTimesOut ==
  /\ \E t \in {"main", "mqtt"} :
       /\ At(pay, t, "join") /\ MayTimeOut(pay, t)
       /\ pay' = Joined(pay, t)
  /\ Spend("timeouts", 1)

(***************************************************************************)
(* The thread of a series, the timers.                                     *)
(***************************************************************************)
FrameBegins ==
  /\ \E r \in RunIds : At(pay, r, "top") /\ pay' = Top(pay, r)
  /\ UNCHANGED left

FrameIsPlaced ==
  /\ \E r \in RunIds : At(pay, r, "where") /\ pay' = Where(pay, r)
  /\ UNCHANGED left

\* The last status of a series: _photos_finished.
SeriesEnds ==
  /\ \E r \in RunIds : At(pay, r, "finish") /\ pay' = Finish(pay, r)
  /\ UNCHANGED left

IdleWindowEnds ==
  /\ pay.pending /\ pay' = WindowOver(pay)
  /\ UNCHANGED left

IdleTimerCloses ==
  /\ pay.holder = None
  /\ \E generation \in pay.firing : pay' = IdleClose(pay, generation)
  /\ UNCHANGED left

(***************************************************************************)
(* The main thread.                                                        *)
(***************************************************************************)
PayloadStarts ==
  /\ ~Up
  /\ pay' = [pay EXCEPT !.todo["main"] = <<"sensor", "camera", "loop">>]
  /\ UNCHANGED left

\* on_start: the status goes out as soon as the sensor has answered.
ProbesSensor ==
  /\ At(pay, "main", "sensor")
  /\ \E present \in BOOLEAN :
       /\ pay' = [Then(pay, "main", IF present THEN <<"publish">> ELSE <<>>)
                    EXCEPT !.sensor = present]
       /\ Spend("rare", Cost(~present))

ProbesCamera ==
  /\ At(pay, "main", "camera")
  /\ \E present \in BOOLEAN :
       LET probed == [Probe(pay) EXCEPT !.camera = present]
       IN  /\ pay' = Then(probed, "main", Evidence(probed))
           /\ Spend("rare", Cost(~present))

PayloadTicks ==
  /\ At(pay, "main", "loop")
  /\ \E present \in BOOLEAN \ {pay.sensor} :
       /\ pay' = NoteSensor(pay, "main", present)
       /\ Spend("rare", 1)

\* on_stop: the series first, then the camera; messages still arrive.
PayloadStops ==
  /\ At(pay, "main", "loop")
  /\ Spend("rare", 1)
  /\ pay' = StopMissionPhotos([pay EXCEPT !.todo["main"] = <<"close", "gone">>],
                              "main")

GivesCameraBack ==
  /\ At(pay, "main", "close")
  /\ pay' = Close(Then(pay, "main", <<>>))
  /\ UNCHANGED left

\* The end of a stop, or a crash: every thread dies, the retained status stays.
PayloadDies ==
  /\ Up
  /\ Spend("rare", Cost(pay.todo["main"] # <<"gone">>))
  /\ pay' = Stopped(pay.said)

NextPayload ==
  \/ PayloadStarts \/ ProbesSensor \/ ProbesCamera \/ PayloadTicks
  \/ PayloadStops \/ GivesCameraBack \/ PayloadDies
  \/ ObcSays \/ DhsSays \/ TakeRoot \/ MqttReconciles \/ TakePhoto \/ Reconnects
  \/ PublishStatus \/ TakesTheLock \/ CardIsFull
  \/ CameraAnswers \/ CameraFails \/ NotesTheCamera \/ JoinReturns \/ JoinTimesOut
  \/ FrameBegins \/ FrameIsPlaced \/ SeriesEnds
  \/ IdleWindowEnds \/ IdleTimerCloses

payVars == <<pay, left>>
SpecPayload == /\ pay = Stopped(FALSE) /\ left = Limits
               /\ [][NextPayload]_payVars

(***************************************************************************)
(* Properties.                                                             *)
(***************************************************************************)
Stages == {"join", "publish", "reconcile", "expose", "exposed",
           "answered", "failed", "top", "where", "finish", "sensor", "camera",
           "loop", "close", "gone", "root"}
MissionIds == {pair.id : pair \in Pairs \cup {NoMission}}
Roots == {pair.root : pair \in Pairs \cup {NoMission}}

PayloadTypeOK ==
  /\ pay \in [ todo: [Threads -> Seq(Stages)], state: States \cup {None},
               id: MissionIds, root: Roots, coming: Roots,
               sensor: Presence, camera: Presence,
               run: RunIds \cup {None},
               threads: [RunIds -> [stop: BOOLEAN, id: MissionIds, root: Roots,
                                    failures: 0 .. MaxFailures]],
               joins: [{"main", "mqtt"} -> RunIds \cup {None}],
               holder: Threads \cup {None}, open: BOOLEAN, pending: BOOLEAN,
               firing: SUBSET {"current", "stale"},
               said: BOOLEAN ]
  /\ left \in [Kinds -> Nat]
  /\ \A t \in Threads : (pay.holder = t) = At(pay, t, "exposed")

AtRest == Up /\ pay.todo["mqtt"] = <<>>
InLoop(loop, t) == \E i \in DOMAIN pay.todo[t] : pay.todo[t][i] = loop
Serving == InLoop("loop", "main")

\* One series at a time, and only while it may: a thread that takes frames and
\* has not been told to stop is the thread of the series PAYLOAD knows, and with
\* every message handled that series has a mission and a permitted state
\* (_reconcile_mission_photos).  With no join given up there is then no other,
\* so no frame is filed once a mission's end has been dealt with
\* (FRAME_THREAD_JOIN_TIMEOUT_SEC: "a stop issued mid-frame still returns having
\* actually stopped").
OneSeries ==
  \A r \in RunIds : InLoop("top", r) =>
    \/ /\ pay.run = r
       /\ AtRest => pay.threads[r].stop \/ MissionPermits(pay)
    \/ /\ pay.threads[r].stop
       /\ AtRest /\ Serving => left.timeouts < Limits.timeouts

\* Where thread r files the frame it is taking.
Target(r) == PathFor(pay.threads[r].id, pay.threads[r].root)

\* Every frame of a series is filed in the directory of the mission whose id it
\* carries (_on_dhs_status: id and root are taken together, "that is what makes
\* the two impossible to get out of step, and what stops a bench run's frames
\* landing in a trip's directory").
MissionsDoNotMix ==
  Serving => \A r \in RunIds :
    At(pay, r, "exposed") => Target(r) \in Pairs \cup {None}

\* What holds of it: where every close was heard, a frame that is not with its
\* own mission is under the default root, so a trip's frames are never anywhere
\* else.  The context is read in pieces while the broker's thread stores the
\* pair in pieces; the stop between two missions, which waits for the thread,
\* keeps a piece of one from meeting a piece of the next, and what a piece of
\* one may meet is only the root that is missing between them.
TripsKeepTheirFrames ==
  Serving /\ left.lost = Limits.lost => \A r \in RunIds :
    At(pay, r, "exposed") =>
      \/ Target(r) \in Pairs \cup {None}
      \/ Target(r).root = DefaultRoot

\* Where a window is configured, a camera that is open and not in use has a
\* timer that will close it: no path that opens the sensor leaves it running
\* (probe's docstring).
CameraIsGivenBack ==
  GivesBack /\ pay.open => \/ pay.pending
                           \/ "current" \in pay.firing
                           \/ \E t \in Threads : At(pay, t, "exposed")

\* The camera is not closed within an idle window of its last use, however late
\* an earlier timer gets the lock; only a stop of the service does that.
WarmIsLeftOpen ==
  [][ pay.open /\ ~pay'.open /\ pay.pending =>
        At(pay, "main", "close") \/ pay'.todo["main"] = <<>> ]_payVars

\* Every message handled, a mission that may be photographed with a camera that
\* answered is: a series runs, or ended itself (_reconcile_mission_photos: "or
\* a mission runs with the camera idle after a LOW_POWER it already recovered
\* from").
MissionIsPhotographed ==
  AtRest /\ Serving /\ MissionPermits(pay) /\ pay.camera = TRUE => pay.run # None

=============================================================================
