------------------------------- MODULE Camera -------------------------------
(***************************************************************************)
(* payload/camera.py: the controller of the one camera, as methods over    *)
(* PAYLOAD's state.  It is used by the main thread (the probe, the stop),  *)
(* by the broker's thread (a photograph on command, the start and the stop *)
(* of a series), by the thread of each series and by the timers that give  *)
(* the camera back; only an exposure and an idle close hold its lock.      *)
(*                                                                         *)
(* What a thread has yet to do is a sequence of stages, todo[t], its next  *)
(* stage first: other threads may come between any two.  A series' thread  *)
(* that has returned has none.                                             *)
(*                                                                         *)
(* The generations of the idle timers are kept as what the check tells     *)
(* apart: whether the timer of the last use is still waiting (`pending`)   *)
(* and which timers have run out and have not had the lock yet (`firing`:  *)
(* of the current generation, or of a stale one).                          *)
(***************************************************************************)
EXTENDS Integers, Sequences, FiniteSets

CONSTANTS
  None,
  AllStates,       \* MissionState
  CameraAllowed,   \* CAMERA_ALLOWED_STATES
  MaxFailures,     \* MAX_CONSECUTIVE_FRAME_FAILURES
  GivesBack,       \* CAMERA_IDLE_CLOSE_SEC > 0
  DefaultRoot,     \* the controller's root: the mission database's photographs
  RunIds           \* the series whose threads may be alive together

ASSUME CameraAssumption ==
  /\ CameraAllowed \subseteq AllStates /\ None \notin AllStates
  /\ MaxFailures \in Nat \ {0}
  /\ RunIds # {} /\ None \notin RunIds
  /\ {"main", "mqtt"} \cap (RunIds \cup {None}) = {}
  /\ None \notin BOOLEAN /\ GivesBack \in BOOLEAN
  /\ DefaultRoot # None

Threads == {"main", "mqtt"} \cup RunIds

\* refusal: no capture before a state is known, nor in one that forbids it.
Refused(state) == state \notin CameraAllowed

\* The next stage of thread t, and the stages that replace it.
At(p, t, stage) == p.todo[t] # <<>> /\ Head(p.todo[t]) = stage
Then(p, t, stages) == [p EXCEPT !.todo[t] = stages \o Tail(@)]

\* mission_photos.active, and a thread that has not returned.
Active(p) == p.run # None /\ ~p.threads[p.run].stop
Alive(p, r) == p.todo[r] # <<>>

(***************************************************************************)
(* Giving the camera back.                                                 *)
(***************************************************************************)

\* A new generation: whatever has run out by now is stale, and the timer that
\* was waiting is cancelled.
NewGeneration(p) ==
  [p EXCEPT !.pending = FALSE,
            !.firing = IF @ = {} THEN {} ELSE {"stale"}]

\* _arm_idle_close, after every use: no timer where no window is configured.
ArmIdleClose(p) == [NewGeneration(p) EXCEPT !.pending = GivesBack]

\* CAMERA_IDLE_CLOSE_SEC after the last use.
WindowOver(p) == [p EXCEPT !.pending = FALSE, !.firing = @ \cup {"current"}]

\* Mutant: the timer does not ask whether the camera was used again.
IdleCloseUnchecked(p, generation) ==
  [p EXCEPT !.firing = @ \ {generation}, !.open = FALSE]

\* _idle_close, once it has the lock.
IdleClose(p, generation) ==
  [p EXCEPT !.firing = @ \ {generation},
            !.open = @ /\ generation # "current"]

\* Mutant: the probe goes to the device, past the controller.
ProbeUnarmed(p) == [p EXCEPT !.open = TRUE]

\* probe: it opens the camera whatever it finds.
Probe(p) == ArmIdleClose([p EXCEPT !.open = TRUE])

(***************************************************************************)
(* An exposure.                                                            *)
(***************************************************************************)

\* Mutant: without the lock.
ExposeUnlocked(p, t) == Then(p, t, <<"exposed">>)

\* capture, up to the camera: under the lock, unless the card is full.
Expose(p, t) == [Then(p, t, <<"exposed">>) EXCEPT !.holder = t]

\* capture, from the camera on: filed or failed, it touched the sensor.
Exposed(p, t, stages) ==
  ArmIdleClose([Then(p, t, stages) EXCEPT !.holder = None, !.open = TRUE])

\* path_for: the scratch directory without a mission, and a mission without a
\* root is filed under the default one.
PathFor(id, root) ==
  IF id = None THEN None
  ELSE [id |-> id, root |-> IF root = None THEN DefaultRoot ELSE root]

(***************************************************************************)
(* The series.                                                             *)
(***************************************************************************)
Idle == [stop |-> FALSE, id |-> None, root |-> None, failures |-> 0]

\* A thread not in use: a number the model may give to the next series.
Free(p) == {r \in RunIds : /\ ~Alive(p, r) /\ p.run # r
                           /\ r \notin {p.joins["main"], p.joins["mqtt"]}}

\* start_mission_photos
StartMissionPhotos(p) ==
  LET r == CHOOSE r \in Free(p) : TRUE
  IN  [p EXCEPT !.run = r, !.threads[r] = Idle, !.todo[r] = <<"top">>]

\* Mutant: the stop does not wait for the thread.
StopUnjoined(p, t) ==
  IF p.run = None THEN p
  ELSE [p EXCEPT !.run = None, !.threads[p.run].stop = TRUE]

\* Mutant: the thread is waited for and not told.
StopUntold(p, t) ==
  IF p.run = None THEN p
  ELSE [p EXCEPT !.run = None, !.joins[t] = p.run, !.todo[t] = <<"join">> \o @]

\* stop_mission_photos, up to the join, which is a stage of its own.
StopMissionPhotos(p, t) ==
  IF p.run = None THEN p
  ELSE [p EXCEPT !.run = None, !.threads[p.run].stop = TRUE,
                 !.joins[t] = p.run, !.todo[t] = <<"join">> \o @]

Joined(p, t) == [Then(p, t, <<>>) EXCEPT !.joins[t] = None]

\* A join gives up after FRAME_THREAD_JOIN_TIMEOUT_SEC, which only an exposure,
\* or the wait for one, can last.
MayTimeOut(p, t) ==
  At(p, p.joins[t], "expose") \/ At(p, p.joins[t], "exposed")

\* _run, the head of the loop: the flag, then the first field of the context.
Top(p, r) ==
  IF p.threads[r].stop THEN [p EXCEPT !.todo[r] = <<"finish">>]
  ELSE [p EXCEPT !.threads[r].id = p.id, !.todo[r] = <<"where", "top">>]

\* Its other fields, and the gate, asked again for every frame.
Where(p, r) ==
  [p EXCEPT !.threads[r].root = p.root,
            !.todo[r] = IF Refused(p.state) THEN <<"finish">>
                        ELSE <<"expose", "top">>]

\* A frame on the card; its context is not used again.
FrameTaken(p, r) ==
  [Exposed(p, r, <<"answered">>) EXCEPT !.threads[r] = Idle,
                                        !.threads[r].stop = p.threads[r].stop]

\* A frame that failed; so many in a row end the series.
FrameFailed(p, r) ==
  LET failures == p.threads[r].failures + 1
  IN  [Exposed(p, r, <<>>) EXCEPT
         !.threads[r] = [Idle EXCEPT !.stop = p.threads[r].stop,
                                     !.failures = failures],
         !.todo[r] = IF failures = MaxFailures THEN <<"finish">> ELSE @]

\* The end of _run, however the loop ended.
Finish(p, r) ==
  [Then(p, r, <<"publish">>) EXCEPT !.threads[r] = [Idle EXCEPT !.stop = TRUE]]

\* close, after the series has been stopped: without the lock.
Close(p) == [NewGeneration(p) EXCEPT !.open = FALSE]
=============================================================================
