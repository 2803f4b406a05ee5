---------------------------- MODULE HealthMonitor ----------------------------
(***************************************************************************)
(* obc/health.py: subsystem liveness.  The monitor is a record; its clock  *)
(* readings are kept as ages, which is all `lost` and `_waived` compare:   *)
(*   watched   the services with an entry in _last                         *)
(*   age       time since the last sign of life (now - _last[s])           *)
(*   departed  _departed: the watched services that said goodbye           *)
(*   waiver    time left of an expected departure (_expected[s] - now),    *)
(*             0 when there is none: an expired waiver forgives nothing    *)
(* An age above LossGrace stays at LossGrace + 1: lost is lost.            *)
(***************************************************************************)
EXTENDS CubesatTypes

CONSTANT LossGrace   \* interval * miss_threshold, in ticks of the model

ASSUME LossGraceAssumption == LossGrace \in Nat \ {0}

Monitor ==
  [ watched: SUBSET Watchable, departed: SUBSET Watchable,
    age: [Watchable -> 0 .. (LossGrace + 1)],
    waiver: [Watchable -> 0 .. LossGrace] ]

InitMonitor ==
  [ watched |-> {}, departed |-> {},
    age |-> [s \in Watchable |-> 0], waiver |-> [s \in Watchable |-> 0] ]

\* Mutant: the services of the profile being left are still watched.
WatchMore(h, services) ==
  [h EXCEPT !.watched = @ \cup services \cup {Eps}]

\* watch: the profile's services plus EPS.  A service that stays watched keeps
\* its clock and its waiver; one that is new starts its clock now.
Watch(h, services) ==
  LET wanted == services \cup {Eps}
      kept   == wanted \cap h.watched
  IN  [ watched  |-> wanted,
        departed |-> h.departed \cap wanted,
        age      |-> [s \in Watchable |-> IF s \in kept THEN h.age[s] ELSE 0],
        waiver   |-> [s \in Watchable |-> IF s \in kept THEN h.waiver[s] ELSE 0] ]

\* expect_restart: waive the next goodbye of a watched service, and measure
\* its silence from the request.
ExpectRestart(h, s) ==
  IF s \notin h.watched THEN h
  ELSE [h EXCEPT !.departed = @ \ {s}, !.age[s] = 0, !.waiver[s] = LossGrace]

\* note, for {"service": s, "alive": true}: clears the goodbye and the waiver.
NoteAlive(h, s) ==
  IF s \notin h.watched THEN h
  ELSE [h EXCEPT !.departed = @ \ {s}, !.age[s] = 0, !.waiver[s] = 0]

\* note, for {"service": s, "alive": false}: a goodbye or a last will.
NoteGone(h, s) ==
  IF s \notin h.watched \/ h.waiver[s] > 0 THEN h
  ELSE [h EXCEPT !.departed = @ \cup {s}]

\* lost: gone, or quiet for longer than the grace.
Lost(h) == h.departed \cup {s \in h.watched : h.age[s] > LossGrace}

\* One tick of the clock.
MonitorElapse(h) ==
  [h EXCEPT !.age = [s \in Watchable |->
                       IF s \in h.watched THEN Up(@[s], LossGrace + 1) ELSE 0],
            !.waiver = [s \in Watchable |-> Down(@[s])]]
=============================================================================
