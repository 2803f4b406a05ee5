--------------------------- MODULE Payload_proofs ---------------------------
(***************************************************************************)
(* Proofs about Payload, for any number of series' threads, any missions,  *)
(* any states and any bounds of the environment.  A thread's program       *)
(* counter is the sequence of stages it has yet to do; only a few such     *)
(* sequences ever occur, its walks, and most of the argument is about      *)
(* which walks may occur together.                                         *)
(***************************************************************************)
EXTENDS Payload, SequenceTheorems, TLAPS

(***************************************************************************)
(* The walks.                                                              *)
(***************************************************************************)

\* The main thread: starting and serving, then leaving.
ServingWalks == { <<"sensor", "camera", "loop">>, <<"publish", "camera", "loop">>,
                  <<"camera", "loop">>, <<"publish", "loop">>, <<"loop">> }
LeavingWalks == { <<"join", "close", "gone">>, <<"close", "gone">>, <<"gone">> }
MainWalks == {<<>>} \cup ServingWalks \cup LeavingWalks

\* The broker's thread: with a reconciliation yet to come, and without.
ReconcilingWalks == { <<"root", "reconcile", "publish">>,
                      <<"reconcile", "publish">>, <<"reconcile">> }
MqttWalks == {<<>>} \cup ReconcilingWalks
             \cup { <<"join", "publish">>, <<"join", "publish", "publish">>,
                    <<"publish", "publish">>, <<"publish">>,
                    <<"expose">>, <<"exposed">>, <<"answered">>, <<"failed">> }

\* The thread of a series: in its loop, and out of it.
LoopWalks == { <<"top">>, <<"where", "top">>, <<"expose", "top">>,
               <<"exposed", "top">>, <<"answered", "top">>, <<"publish", "top">> }
RunWalks == LoopWalks \cup {<<>>, <<"finish">>, <<"publish">>}

\* Sequences written out, taken apart and put together.
LEMMA Literals ==
  /\ <<>> \o <<>> = <<>>
  /\ \A a : /\ Tail(<<a>>) = <<>> /\ <<>> \o <<a>> = <<a>>
            /\ <<a>> \o <<>> = <<a>>
  /\ \A a, b : /\ Tail(<<a, b>>) = <<b>> /\ <<>> \o <<a, b>> = <<a, b>>
               /\ <<a>> \o <<b>> = <<a, b>>
  /\ \A a, b, c : /\ Tail(<<a, b, c>>) = <<b, c>>
                  /\ <<a>> \o <<b, c>> = <<a, b, c>>
<1>1. \A S : \A s \in Seq(S) : <<>> \o s = s /\ s \o <<>> = s
  BY ConcatEmptySeq
<1>2. <<>> \o <<>> = <<>>
  BY <1>1
<1>3. \A a : Tail(<<a>>) = <<>> /\ <<>> \o <<a>> = <<a>> /\ <<a>> \o <<>> = <<a>>
  <2> TAKE a
  <2>1. <<a>> \in Seq({a})
    OBVIOUS
  <2>2. Tail(<<a>>) = <<>>
    OBVIOUS
  <2> QED BY <1>1, <2>1, <2>2
<1>4. \A a, b : /\ Tail(<<a, b>>) = <<b>> /\ <<>> \o <<a, b>> = <<a, b>>
               /\ <<a>> \o <<b>> = <<a, b>>
  <2> TAKE a, b
  <2> DEFINE S == Seq({a, b})  s == <<a>> \o <<b>>  u == <<a, b>>
  <2>1. <<a>> \in S /\ <<b>> \in S /\ u \in S
    OBVIOUS
  <2>2. s \in S /\ Len(s) = 2 /\ s[1] = a /\ s[2] = b
    BY <2>1, ConcatProperties
  <2>3. Len(u) = 2 /\ u[1] = a /\ u[2] = b
    OBVIOUS
  <2>4. Tail(<<a, b>>) = <<b>>
    OBVIOUS
  <2>5. <<>> \o <<a, b>> = <<a, b>>
    BY <1>1, <2>1
  <2> HIDE DEF s, u, S
  <2>6. \A i \in 1 .. 2 : s[i] = u[i]
    BY <2>2, <2>3
  <2>7. s = u
    BY <2>1, <2>2, <2>3, <2>6, SeqEqual DEF S
  <2> QED BY <2>4, <2>5, <2>7 DEF s, u
<1>5. \A a, b, c : /\ Tail(<<a, b, c>>) = <<b, c>>
                  /\ <<a>> \o <<b, c>> = <<a, b, c>>
  <2> TAKE a, b, c
  <2> DEFINE S == Seq({a, b, c})  s == <<a>> \o <<b, c>>  u == <<a, b, c>>
  <2>1. <<a>> \in S /\ <<b, c>> \in S /\ u \in S
    OBVIOUS
  <2>2. s \in S /\ Len(s) = 3 /\ s[1] = a /\ s[2] = b /\ s[3] = c
    BY <2>1, ConcatProperties
  <2>3. Len(u) = 3 /\ u[1] = a /\ u[2] = b /\ u[3] = c
    OBVIOUS
  <2>4. Tail(<<a, b, c>>) = <<b, c>>
    OBVIOUS
  <2> HIDE DEF s, u, S
  <2>5. \A i \in 1 .. 3 : s[i] = u[i]
    BY <2>2, <2>3
  <2>6. s = u
    BY <2>1, <2>2, <2>3, <2>5, SeqEqual DEF S
  <2> QED BY <2>4, <2>6 DEF s, u
<1> QED BY <1>2, <1>3, <1>4, <1>5

\* The stages a series' thread may be at, and whether it is in its loop.
LEMMA RunStages ==
  ASSUME NEW p, NEW r, p.todo[r] \in RunWalks
  PROVE  /\ At(p, r, "top") <=> p.todo[r] = <<"top">>
         /\ At(p, r, "where") <=> p.todo[r] = <<"where", "top">>
         /\ At(p, r, "expose") <=> p.todo[r] = <<"expose", "top">>
         /\ At(p, r, "exposed") <=> p.todo[r] = <<"exposed", "top">>
         /\ At(p, r, "answered") <=> p.todo[r] = <<"answered", "top">>
         /\ At(p, r, "finish") <=> p.todo[r] = <<"finish">>
         /\ At(p, r, "publish") <=> p.todo[r] \in {<<"publish", "top">>, <<"publish">>}
         /\ ~At(p, r, "failed")
         /\ Alive(p, r) <=> p.todo[r] # <<>>
         /\ (\E i \in DOMAIN p.todo[r] : p.todo[r][i] = "top") <=> p.todo[r] \in LoopWalks
BY DEF At, Alive, RunWalks, LoopWalks

\* The stages the broker's thread may be at.
LEMMA MqttStages ==
  ASSUME NEW p, p.todo["mqtt"] \in MqttWalks
  PROVE  /\ At(p, "mqtt", "root") <=> p.todo["mqtt"] = <<"root", "reconcile", "publish">>
         /\ At(p, "mqtt", "reconcile") <=>
              p.todo["mqtt"] \in {<<"reconcile", "publish">>, <<"reconcile">>}
         /\ At(p, "mqtt", "join") <=>
              p.todo["mqtt"] \in {<<"join", "publish">>, <<"join", "publish", "publish">>}
         /\ At(p, "mqtt", "publish") <=>
              p.todo["mqtt"] \in {<<"publish">>, <<"publish", "publish">>}
         /\ At(p, "mqtt", "expose") <=> p.todo["mqtt"] = <<"expose">>
         /\ At(p, "mqtt", "exposed") <=> p.todo["mqtt"] = <<"exposed">>
         /\ At(p, "mqtt", "answered") <=> p.todo["mqtt"] = <<"answered">>
         /\ At(p, "mqtt", "failed") <=> p.todo["mqtt"] = <<"failed">>
BY DEF At, MqttWalks, ReconcilingWalks

\* The stages the main thread may be at, and whether it still serves.
LEMMA MainStages ==
  ASSUME NEW p, p.todo["main"] \in MainWalks
  PROVE  /\ At(p, "main", "sensor") <=> p.todo["main"] = <<"sensor", "camera", "loop">>
         /\ At(p, "main", "camera") <=> p.todo["main"] = <<"camera", "loop">>
         /\ At(p, "main", "loop") <=> p.todo["main"] = <<"loop">>
         /\ At(p, "main", "join") <=> p.todo["main"] = <<"join", "close", "gone">>
         /\ At(p, "main", "close") <=> p.todo["main"] = <<"close", "gone">>
         /\ At(p, "main", "publish") <=>
              p.todo["main"] \in {<<"publish", "camera", "loop">>, <<"publish", "loop">>}
         /\ ~At(p, "main", "expose") /\ ~At(p, "main", "exposed")
         /\ ~At(p, "main", "answered") /\ ~At(p, "main", "failed")
         /\ (\E i \in DOMAIN p.todo["main"] : p.todo["main"][i] = "loop")
              <=> p.todo["main"] \in ServingWalks
<1> DEFINE w == p.todo["main"]
<1>1. w \in MainWalks
  OBVIOUS
<1> HIDE DEF w
<1>2. /\ (w # <<>> /\ Head(w) = "sensor") <=> w = <<"sensor", "camera", "loop">>
      /\ (w # <<>> /\ Head(w) = "camera") <=> w = <<"camera", "loop">>
      /\ (w # <<>> /\ Head(w) = "loop") <=> w = <<"loop">>
  BY <1>1 DEF MainWalks, ServingWalks, LeavingWalks
<1>3. /\ (w # <<>> /\ Head(w) = "join") <=> w = <<"join", "close", "gone">>
      /\ (w # <<>> /\ Head(w) = "close") <=> w = <<"close", "gone">>
      /\ (w # <<>> /\ Head(w) = "publish")
           <=> w \in {<<"publish", "camera", "loop">>, <<"publish", "loop">>}
  BY <1>1 DEF MainWalks, ServingWalks, LeavingWalks
<1>4. w # <<>> => Head(w) \notin {"expose", "exposed", "answered", "failed"}
  BY <1>1 DEF MainWalks, ServingWalks, LeavingWalks
<1>5. w \in ServingWalks => \E i \in DOMAIN w : w[i] = "loop"
  <2>1. w = <<"loop">> => w[1] = "loop" /\ 1 \in DOMAIN w
    OBVIOUS
  <2>2. w \in {<<"camera", "loop">>, <<"publish", "loop">>}
          => w[2] = "loop" /\ 2 \in DOMAIN w
    OBVIOUS
  <2>3. w \in {<<"sensor", "camera", "loop">>, <<"publish", "camera", "loop">>}
          => w[3] = "loop" /\ 3 \in DOMAIN w
    OBVIOUS
  <2> QED BY <2>1, <2>2, <2>3 DEF ServingWalks
<1>6. w \in MainWalks \ ServingWalks => ~\E i \in DOMAIN w : w[i] = "loop"
  BY DEF MainWalks, LeavingWalks
<1> QED BY <1>1, <1>2, <1>3, <1>4, <1>5, <1>6 DEF At, w

(***************************************************************************)
(* The state, and what an action leaves alone.                             *)
(***************************************************************************)
Walks == MainWalks \cup MqttWalks \cup RunWalks

Series == [stop: BOOLEAN, id: MissionIds, root: Roots, failures: 0 .. MaxFailures]
PayState == [ todo: [Threads -> Walks], state: States \cup {None},
              id: MissionIds, root: Roots, coming: Roots,
              sensor: Presence, camera: Presence,
              run: RunIds \cup {None}, threads: [RunIds -> Series],
              joins: [{"main", "mqtt"} -> RunIds \cup {None}],
              holder: Threads \cup {None}, open: BOOLEAN, pending: BOOLEAN,
              firing: SUBSET {"current", "stale"}, said: BOOLEAN ]

Placed(p) == /\ p.todo["main"] \in MainWalks /\ p.todo["mqtt"] \in MqttWalks
             /\ \A r \in RunIds : p.todo[r] \in RunWalks
Typed == pay \in PayState /\ Placed(pay)

SameMission(p, q) == /\ q.state = p.state /\ q.id = p.id /\ q.root = p.root
                     /\ q.coming = p.coming
SameSeries(p, q)  == q.run = p.run /\ q.threads = p.threads /\ q.joins = p.joins
SameLens(p, q)    == /\ q.open = p.open /\ q.pending = p.pending
                     /\ q.firing = p.firing
Still(p, q)       == /\ SameMission(p, q) /\ SameSeries(p, q) /\ SameLens(p, q)
                     /\ q.holder = p.holder
Walked(p, q, t, w) == q.todo = [p.todo EXCEPT ![t] = w]

\* A series after a frame: its context dropped, its flag kept, n failures.
AfterFrame(series, n) == [stop |-> series.stop, id |-> None, root |-> None,
                          failures |-> n]
Counts(p, q, r, n) == q.threads = [p.threads EXCEPT ![r] = AfterFrame(@, n)]

\* The threads are three sorts, apart from one another.
LEMMA ThreadSorts ==
  /\ "main" \in Threads /\ "mqtt" \in Threads /\ RunIds \subseteq Threads
  /\ "main" \notin RunIds /\ "mqtt" \notin RunIds
  /\ None \notin Threads
  /\ MaxFailures \in Nat \ {0} /\ None \notin BOOLEAN
BY CameraAssumption DEF Threads

\* Having no mission is one of the things there may be.
LEMMA NoMissionType ==
  /\ None \in MissionIds /\ None \in Roots
  /\ \A pair \in Pairs : pair.id \in MissionIds /\ pair.root \in Roots
<1>1. NoMission \in Pairs \cup {NoMission}
  OBVIOUS
<1>2. NoMission.id = None /\ NoMission.root = None
  BY DEF NoMission
<1> HIDE DEF NoMission
<1> QED BY <1>1, <1>2 DEF MissionIds, Roots

\* A thread that walks on stays where its sort of thread may be.
LEMMA WalkedIsPlaced ==
  ASSUME NEW p \in PayState, Placed(p), NEW q, NEW t \in Threads, NEW w,
         Walked(p, q, t, w),
         \/ t = "main" /\ w \in MainWalks
         \/ t = "mqtt" /\ w \in MqttWalks
         \/ t \in RunIds /\ w \in RunWalks
  PROVE  /\ q.todo \in [Threads -> Walks] /\ Placed(q)
         /\ q.todo[t] = w
         /\ \A u \in Threads \ {t} : q.todo[u] = p.todo[u]
<1>1. p.todo \in [Threads -> Walks]
  BY DEF PayState
<1>2. w \in Walks
  BY DEF Walks
<1>3. /\ q.todo \in [Threads -> Walks] /\ q.todo[t] = w
      /\ \A u \in Threads \ {t} : q.todo[u] = p.todo[u]
  BY <1>1, <1>2 DEF Walked
<1>4. Placed(q)
  BY <1>3, ThreadSorts DEF Placed
<1> QED BY <1>3, <1>4

\* Every use of the camera starts a new generation of the idle timer.
LEMMA ArmIdleCloseEffect ==
  ASSUME NEW p \in PayState
  PROVE  LET q == ArmIdleClose(p)
         IN  /\ q \in PayState
             /\ q.todo = p.todo /\ SameMission(p, q) /\ SameSeries(p, q)
             /\ q.sensor = p.sensor /\ q.camera = p.camera /\ q.said = p.said
             /\ q.holder = p.holder /\ q.open = p.open
             /\ q.pending = GivesBack /\ q.firing \in SUBSET {"stale"}
<1> DEFINE stale == IF p.firing = {} THEN {} ELSE {"stale"}
<1>1. stale \in SUBSET {"stale"} /\ stale \in SUBSET {"current", "stale"}
  OBVIOUS
<1>2. ArmIdleClose(p) = [p EXCEPT !.firing = stale, !.pending = GivesBack]
  BY DEF ArmIdleClose, NewGeneration, PayState
<1> HIDE DEF stale
<1>3. GivesBack \in BOOLEAN
  BY CameraAssumption
<1>4. ArmIdleClose(p) \in PayState
  BY <1>1, <1>2, <1>3 DEF PayState
<1> QED BY <1>1, <1>2, <1>4 DEF PayState, SameMission, SameSeries

\* A photograph or a frame, from the camera on.
LEMMA ExposedEffect ==
  ASSUME NEW p \in PayState, Placed(p), NEW t \in Threads, NEW stages, NEW w,
         w = stages \o Tail(p.todo[t]),
         \/ t = "mqtt" /\ w \in MqttWalks
         \/ t \in RunIds /\ w \in RunWalks
  PROVE  LET q == Exposed(p, t, stages)
         IN  /\ q \in PayState /\ Placed(q)
             /\ Walked(p, q, t, w) /\ SameMission(p, q) /\ SameSeries(p, q)
             /\ q.holder = None /\ q.open = TRUE
             /\ q.pending = GivesBack /\ q.firing \in SUBSET {"stale"}
<1> DEFINE f == [p.todo EXCEPT ![t] = w]
           q == [p EXCEPT !.todo = f, !.holder = None, !.open = TRUE]
<1>1. [Then(p, t, stages) EXCEPT !.holder = None, !.open = TRUE] = q
  BY DEF Then, PayState
<1>2. w \in Walks /\ p.todo \in [Threads -> Walks]
  BY DEF Walks, PayState
<1>3. f \in [Threads -> Walks]
  BY <1>2
<1>4. TRUE \in BOOLEAN /\ None \in Threads \cup {None}
  OBVIOUS
<1> HIDE DEF f
<1>5. /\ q \in PayState /\ q.todo = f /\ q.holder = None /\ q.open = TRUE
      /\ SameMission(p, q) /\ SameSeries(p, q)
  BY <1>3, <1>4 DEF PayState, SameMission, SameSeries
<1> HIDE DEF q
<1>6. Exposed(p, t, stages) = ArmIdleClose(q)
  BY <1>1 DEF Exposed
<1> DEFINE e == ArmIdleClose(q)
<1>7. /\ e \in PayState /\ e.todo = f /\ SameMission(q, e) /\ SameSeries(q, e)
      /\ e.holder = None /\ e.open = TRUE
      /\ e.pending = GivesBack /\ e.firing \in SUBSET {"stale"}
  BY <1>5, ArmIdleCloseEffect
<1> HIDE DEF e
<1>8. Walked(p, e, t, w) /\ SameMission(p, e) /\ SameSeries(p, e)
  BY <1>5, <1>7 DEF Walked, f, SameMission, SameSeries
<1>9. Placed(e)
  BY <1>8, WalkedIsPlaced
<1> QED BY <1>6, <1>7, <1>8, <1>9 DEF e

\* A series ends its use of a thread: the frame is dropped, the flag is kept.
LEMMA FrameTakenEffect ==
  ASSUME NEW p \in PayState, Placed(p), NEW r \in RunIds,
         p.todo[r] = <<"exposed", "top">>
  PROVE  LET q == FrameTaken(p, r)
         IN  /\ q \in PayState /\ Placed(q)
             /\ Walked(p, q, r, <<"answered", "top">>) /\ SameMission(p, q)
             /\ q.run = p.run /\ q.joins = p.joins
             /\ Counts(p, q, r, 0)
             /\ q.holder = None /\ q.open = TRUE
             /\ q.pending = GivesBack /\ q.firing \in SUBSET {"stale"}
<1> DEFINE w == <<"answered", "top">>
           e == Exposed(p, r, <<"answered">>)
           series == [Idle EXCEPT !.stop = p.threads[r].stop]
<1>1. r \in Threads /\ w \in RunWalks
  BY ThreadSorts DEF RunWalks, LoopWalks
<1>2. w = <<"answered">> \o Tail(p.todo[r])
  BY Literals
<1>3. /\ e \in PayState /\ Placed(e)
      /\ Walked(p, e, r, w) /\ SameMission(p, e) /\ SameSeries(p, e)
      /\ e.holder = None /\ e.open = TRUE
      /\ e.pending = GivesBack /\ e.firing \in SUBSET {"stale"}
  BY <1>1, <1>2, ExposedEffect
<1>4. series \in Series
  <2>1. p.threads[r] \in Series
    BY DEF PayState
  <2>2. None \in MissionIds /\ None \in Roots /\ 0 \in 0 .. MaxFailures
    BY ThreadSorts, NoMissionType
  <2> QED BY <2>1, <2>2 DEF Series, Idle
<1>5. [Idle EXCEPT !.stop = e.threads[r].stop] = series
  BY <1>3 DEF SameSeries
<1> HIDE DEF e, w, series
<1> DEFINE q == [e EXCEPT !.threads[r] = series]
<1>6. FrameTaken(p, r) = q
  <2>1. e.threads = p.threads /\ e.threads \in [RunIds -> Series]
    BY <1>3 DEF SameSeries, PayState
  <2>2. FrameTaken(p, r) = [e EXCEPT !.threads[r] = Idle,
                                     !.threads[r].stop = p.threads[r].stop]
    BY DEF FrameTaken, e
  <2>3. [[e.threads EXCEPT ![r] = Idle] EXCEPT ![r].stop = p.threads[r].stop]
          = [e.threads EXCEPT ![r] = series]
    BY <2>1 DEF series
  <2>4. [e EXCEPT !.threads[r] = Idle, !.threads[r].stop = p.threads[r].stop]
          = [e EXCEPT !.threads = [[e.threads EXCEPT ![r] = Idle]
                                     EXCEPT ![r].stop = p.threads[r].stop]]
    BY <1>3 DEF PayState
  <2> QED BY <1>3, <2>2, <2>3, <2>4 DEF PayState
<1>7. /\ q \in PayState /\ q.todo = e.todo
      /\ SameMission(e, q) /\ q.run = e.run /\ q.joins = e.joins
      /\ q.threads = [e.threads EXCEPT ![r] = series]
      /\ q.holder = e.holder /\ q.open = e.open
      /\ q.pending = e.pending /\ q.firing = e.firing
  BY <1>3, <1>4 DEF PayState, SameMission
<1> HIDE DEF q
<1>8. /\ Walked(p, q, r, w) /\ SameMission(p, q) /\ Placed(q)
      /\ q.run = p.run /\ q.joins = p.joins
      /\ q.threads = [p.threads EXCEPT ![r] = series]
  BY <1>3, <1>7 DEF Walked, SameMission, SameSeries, Placed
<1>9. series = AfterFrame(p.threads[r], 0)
  BY DEF series, AfterFrame, Idle
<1> QED BY <1>3, <1>6, <1>7, <1>8, <1>9 DEF w, Counts

\* A frame that failed: the same, with a failure more, and the loop left when
\* there have been too many.
LEMMA FrameFailedEffect ==
  ASSUME NEW p \in PayState, Placed(p), NEW r \in RunIds,
         p.todo[r] = <<"exposed", "top">>, p.threads[r].failures < MaxFailures
  PROVE  LET q == FrameFailed(p, r)
         IN  /\ q \in PayState /\ Placed(q)
             /\ \E n \in 0 .. MaxFailures :
                  /\ Counts(p, q, r, n)
                  /\ \/ Walked(p, q, r, <<"top">>) /\ n < MaxFailures
                     \/ Walked(p, q, r, <<"finish">>)
             /\ SameMission(p, q) /\ q.run = p.run /\ q.joins = p.joins
             /\ q.holder = None /\ q.open = TRUE
             /\ q.pending = GivesBack /\ q.firing \in SUBSET {"stale"}
<1> DEFINE failures == p.threads[r].failures + 1
           e == Exposed(p, r, <<>>)
           series == [Idle EXCEPT !.stop = p.threads[r].stop,
                                  !.failures = failures]
           w == IF failures = MaxFailures THEN <<"finish">> ELSE <<"top">>
<1>1. r \in Threads /\ <<"top">> \in RunWalks /\ w \in RunWalks
  BY ThreadSorts DEF RunWalks, LoopWalks
<1>2. <<"top">> = <<>> \o Tail(p.todo[r])
  BY Literals
<1>3. /\ e \in PayState /\ Placed(e)
      /\ Walked(p, e, r, <<"top">>) /\ SameMission(p, e) /\ SameSeries(p, e)
      /\ e.holder = None /\ e.open = TRUE
      /\ e.pending = GivesBack /\ e.firing \in SUBSET {"stale"}
  BY <1>1, <1>2, ExposedEffect
<1>4. p.threads[r] \in Series
  BY DEF PayState
<1>5. failures \in 0 .. MaxFailures
  BY <1>4, ThreadSorts DEF Series
<1>6. series \in Series
  <2>1. None \in MissionIds /\ None \in Roots
    BY NoMissionType
  <2> HIDE DEF failures
  <2> QED BY <1>4, <1>5, <2>1 DEF Series, Idle
<1>7. e.todo[r] = <<"top">> /\ e.todo \in [Threads -> Walks]
  <2>1. e.todo = [p.todo EXCEPT ![r] = <<"top">>]
    BY <1>3 DEF Walked
  <2>2. p.todo \in [Threads -> Walks] /\ <<"top">> \in Walks
    BY <1>1 DEF PayState, Walks
  <2> HIDE DEF e
  <2> QED BY <1>1, <2>1, <2>2
<1> DEFINE q == [e EXCEPT !.threads[r] = series, !.todo[r] = w]
<1>8. FrameFailed(p, r) = q
  <2> HIDE DEF e, failures
  <2>1. FrameFailed(p, r)
          = [e EXCEPT !.threads[r] = series,
                      !.todo[r] = IF failures = MaxFailures THEN <<"finish">> ELSE @]
    BY DEF FrameFailed, e, failures
  <2>2. (IF failures = MaxFailures THEN <<"finish">> ELSE e.todo[r]) = w
    BY <1>7
  <2> HIDE DEF w, series
  <2> QED BY <1>3, <2>1, <2>2 DEF PayState
<1> HIDE DEF e, w, series
<1>9. /\ q \in PayState /\ q.todo = [e.todo EXCEPT ![r] = w]
      /\ SameMission(e, q) /\ q.run = e.run /\ q.joins = e.joins
      /\ q.threads = [e.threads EXCEPT ![r] = series]
      /\ q.holder = e.holder /\ q.open = e.open
      /\ q.pending = e.pending /\ q.firing = e.firing
  <2> DEFINE f == [e.todo EXCEPT ![r] = w]
             g == [e.threads EXCEPT ![r] = series]
  <2>1. w \in Walks
    BY <1>1 DEF Walks
  <2>2. f \in [Threads -> Walks] /\ g \in [RunIds -> Series]
    BY <1>3, <1>6, <1>7, <2>1 DEF PayState
  <2>3. q = [e EXCEPT !.threads = g, !.todo = f]
    BY <1>3 DEF PayState
  <2> HIDE DEF f, g, q
  <2>4. /\ q \in PayState /\ q.todo = f /\ q.threads = g
        /\ SameMission(e, q) /\ q.run = e.run /\ q.joins = e.joins
        /\ q.holder = e.holder /\ q.open = e.open
        /\ q.pending = e.pending /\ q.firing = e.firing
    BY <1>3, <2>2, <2>3 DEF PayState, SameMission
  <2> QED BY <2>4 DEF f, g
<1> HIDE DEF q
<1>10. Walked(p, q, r, w)
  <2>1. p.todo \in [Threads -> Walks]
    BY DEF PayState
  <2>2. q.todo = [[p.todo EXCEPT ![r] = <<"top">>] EXCEPT ![r] = w]
    BY <1>3, <1>9 DEF Walked
  <2> QED BY <2>1, <2>2 DEF Walked
<1>11. Placed(q)
  BY <1>1, <1>10, WalkedIsPlaced
<1>12. /\ SameMission(p, q) /\ q.run = p.run /\ q.joins = p.joins
       /\ q.threads = [p.threads EXCEPT ![r] = series]
  BY <1>3, <1>9 DEF SameMission, SameSeries
<1>13. (w = <<"top">> /\ failures < MaxFailures) \/ w = <<"finish">>
  BY <1>5, ThreadSorts DEF w
<1> HIDE DEF failures
<1>14. Counts(p, q, r, failures)
  <2>1. \A stop, n : [Idle EXCEPT !.stop = stop, !.failures = n]
                       = [stop |-> stop, id |-> None, root |-> None, failures |-> n]
    <3> TAKE stop, n
    <3> DEFINE told == [stop |-> stop, id |-> None, root |-> None, failures |-> 0]
    <3>1. [Idle EXCEPT !.stop = stop] = told
      BY DEF Idle
    <3>2. [told EXCEPT !.failures = n]
            = [stop |-> stop, id |-> None, root |-> None, failures |-> n]
      OBVIOUS
    <3>3. [Idle EXCEPT !.stop = stop, !.failures = n] = [told EXCEPT !.failures = n]
      BY <3>1
    <3> QED BY <3>2, <3>3
  <2>2. series = AfterFrame(p.threads[r], failures)
    BY <2>1 DEF series, AfterFrame
  <2> QED BY <1>12, <2>2 DEF Counts
<1>15. \E n \in 0 .. MaxFailures :
         /\ Counts(p, q, r, n)
         /\ \/ Walked(p, q, r, <<"top">>) /\ n < MaxFailures
            \/ Walked(p, q, r, <<"finish">>)
  BY <1>5, <1>10, <1>13, <1>14
<1> QED BY <1>3, <1>8, <1>9, <1>11, <1>12, <1>15

\* Where a thread may walk.
MayWalk(t, w) == \/ t = "main" /\ w \in MainWalks
                 \/ t = "mqtt" /\ w \in MqttWalks
                 \/ t \in RunIds /\ w \in RunWalks

\* One thread walks on, and nothing else happens.
LEMMA WalkEffect ==
  ASSUME NEW p \in PayState, Placed(p), NEW t \in Threads, NEW w, MayWalk(t, w)
  PROVE  LET q == [p EXCEPT !.todo[t] = w]
         IN  q \in PayState /\ Placed(q) /\ Walked(p, q, t, w) /\ Still(p, q)
<1> DEFINE f == [p.todo EXCEPT ![t] = w]
           q == [p EXCEPT !.todo = f]
<1>1. w \in Walks /\ p.todo \in [Threads -> Walks]
  BY DEF MayWalk, Walks, PayState
<1>2. f \in [Threads -> Walks]
  BY <1>1
<1>3. [p EXCEPT !.todo[t] = w] = q
  BY DEF PayState
<1> HIDE DEF f
<1>4. q \in PayState /\ q.todo = f /\ Still(p, q)
  BY <1>2 DEF PayState, Still, SameMission, SameSeries, SameLens
<1> HIDE DEF q
<1>5. Walked(p, q, t, w)
  BY <1>4 DEF Walked, f
<1>6. Placed(q)
  BY <1>5, WalkedIsPlaced DEF MayWalk
<1> QED BY <1>3, <1>4, <1>5, <1>6

\* So it is with the stages that replace a stage.
LEMMA ThenEffect ==
  ASSUME NEW p \in PayState, Placed(p), NEW t \in Threads, NEW stages, NEW w,
         w = stages \o Tail(p.todo[t]), MayWalk(t, w)
  PROVE  LET q == Then(p, t, stages)
         IN  q \in PayState /\ Placed(q) /\ Walked(p, q, t, w) /\ Still(p, q)
<1> DEFINE q == [p EXCEPT !.todo[t] = w]
<1>1. Then(p, t, stages) = q
  BY DEF Then, PayState
<1>2. q \in PayState /\ Placed(q) /\ Walked(p, q, t, w) /\ Still(p, q)
  BY WalkEffect
<1> HIDE DEF q
<1> QED BY <1>1, <1>2

\* The status fields move nothing.
LEMMA StatusEffect ==
  ASSUME NEW p \in PayState, Placed(p)
  PROVE  /\ \A b \in Presence :
              LET q == [p EXCEPT !.sensor = b]
              IN  q \in PayState /\ Placed(q) /\ q.todo = p.todo /\ Still(p, q)
         /\ \A b \in Presence :
              LET q == [p EXCEPT !.camera = b]
              IN  q \in PayState /\ Placed(q) /\ q.todo = p.todo /\ Still(p, q)
         /\ \A b \in BOOLEAN :
              LET q == [p EXCEPT !.said = b]
              IN  q \in PayState /\ Placed(q) /\ q.todo = p.todo /\ Still(p, q)
<1> USE DEF Still, SameMission, SameSeries, SameLens, Placed
<1>1. ASSUME NEW b \in Presence
      PROVE  LET q == [p EXCEPT !.sensor = b]
             IN  q \in PayState /\ Placed(q) /\ q.todo = p.todo /\ Still(p, q)
  BY DEF PayState
<1>2. ASSUME NEW b \in Presence
      PROVE  LET q == [p EXCEPT !.camera = b]
             IN  q \in PayState /\ Placed(q) /\ q.todo = p.todo /\ Still(p, q)
  BY DEF PayState
<1>3. ASSUME NEW b \in BOOLEAN
      PROVE  LET q == [p EXCEPT !.said = b]
             IN  q \in PayState /\ Placed(q) /\ q.todo = p.todo /\ Still(p, q)
  BY DEF PayState
<1> QED BY <1>1, <1>2, <1>3

(***************************************************************************)
(* The inductive invariant, one part per concern.                          *)
(***************************************************************************)

\* A process that is down has no thread and remembers nothing.
DownIsBlank == pay.todo["main"] = <<>> => pay = Stopped(pay.said)

\* The camera's lock is held by the thread that is exposing, and by no other.
LockIsHeld == \A t \in Threads : (pay.holder = t) <=> At(pay, t, "exposed")

\* A thread waits for a series exactly while it joins it, and never for the
\* series PAYLOAD knows.
JoinIsOn ==
  /\ (pay.joins["main"] # None) <=> At(pay, "main", "join")
  /\ (pay.joins["mqtt"] # None) <=> At(pay, "mqtt", "join")
  /\ pay.run # None => pay.run \notin {pay.joins["main"], pay.joins["mqtt"]}

\* A thread in its loop has failures to spare; the series PAYLOAD knows leaves
\* the loop before it sets its own flag; any other has been told to stop, and
\* is waited for unless a join was given up, which cannot happen while it
\* reads the context of a frame.
LoopIsKnown ==
  \A r \in RunIds :
    LET walk == pay.todo[r]
    IN  /\ walk \in LoopWalks => pay.threads[r].failures < MaxFailures
        /\ pay.run = r /\ pay.threads[r].stop => walk \notin LoopWalks
        /\ walk \in LoopWalks /\ pay.run # r =>
             /\ pay.threads[r].stop
             /\ \/ r \in {pay.joins["main"], pay.joins["mqtt"]}
                \/ left.timeouts < Limits.timeouts
        /\ walk = <<"where", "top">> /\ pay.run # r =>
             r \in {pay.joins["main"], pay.joins["mqtt"]}

\* An active series is permitted, or a reconciliation is on its way.
PermitIsDue == Active(pay) => \/ MissionPermits(pay)
                              \/ pay.todo["mqtt"] \in ReconcilingWalks

\* No word of DHS between two missions has been lost.
ClosesAreHeard == left.lost = Limits.lost

\* Id and root are those of one mission, or of none, but for the stage between
\* the two, where one of them is still missing.
PairIsWhole ==
  IF pay.todo["mqtt"] = <<"root", "reconcile", "publish">>
  THEN \/ pay.id = None /\ pay.coming = None
       \/ [id |-> pay.id, root |-> pay.coming] \in Pairs /\ pay.root = None
  ELSE /\ pay.coming = None
       /\ \/ [id |-> pay.id, root |-> pay.root] \in Pairs
          \/ pay.id = None /\ pay.root = None

MissionIsWhole == ClosesAreHeard => PairIsWhole

\* While the service serves, a frame that has read the id will read a root that
\* goes with it, or none; and a frame that has read both has such a pair.
FramesAreWhole ==
  pay.todo["main"] \in ServingWalks => \A r \in RunIds :
    LET frame == pay.threads[r]
    IN  /\ pay.todo[r] = <<"where", "top">> /\ frame.id # None =>
             \/ pay.id = frame.id
             \/ /\ pay.id = None
                /\ pay.todo["mqtt"] = <<"root", "reconcile", "publish">>
                /\ [id |-> frame.id, root |-> pay.root] \in Pairs
             \/ pay.id = None /\ pay.root = None
        /\ pay.todo[r] \in {<<"expose", "top">>, <<"exposed", "top">>}
           /\ frame.id # None /\ frame.root # None
             => [id |-> frame.id, root |-> frame.root] \in Pairs

FrameIsWhole == ClosesAreHeard => FramesAreWhole

\* The timer of the last use waits or has run out, never both; and a camera
\* that is open is in use or has that timer, where a window is configured.
TimerIsSet ==
  /\ "current" \in pay.firing => ~pay.pending
  /\ GivesBack /\ pay.open =>
       pay.pending \/ "current" \in pay.firing \/ pay.holder # None

Bounded == /\ left \in [Kinds -> Nat] /\ left.timeouts <= Limits.timeouts
           /\ left.lost <= Limits.lost

PayloadInv ==
  /\ Typed /\ Bounded /\ DownIsBlank /\ LockIsHeld /\ JoinIsOn
  /\ LoopIsKnown /\ PermitIsDue /\ MissionIsWhole /\ FrameIsWhole /\ TimerIsSet

(***************************************************************************)
(* What each action is.                                                    *)
(***************************************************************************)

\* A thread goes on with what no other part of the argument looks at.
PlainWalks == { <<>>, <<"publish">>, <<"publish", "publish">>, <<"expose">>,
                <<"answered">>, <<"failed">> }
Resting(t, v, w) ==
  \/ /\ t = "main"
     /\ \/ v \in ServingWalks /\ w \in ServingWalks \cup {<<"close", "gone">>}
        \/ v = <<"close", "gone">> /\ w = <<"gone">>
  \/ t = "mqtt" /\ v \in PlainWalks /\ w \in PlainWalks
  \/ /\ t \in RunIds
     /\ \/ /\ v \in {<<"publish", "top">>, <<"answered", "top">>}
           /\ w \in {<<"publish", "top">>, <<"top">>}
        \/ v \in {<<"top">>, <<"expose", "top">>} /\ w = <<"finish">>
        \/ v = <<"publish">> /\ w = <<>>

Chore(p, q) ==
  /\ SameMission(p, q) /\ SameSeries(p, q) /\ q.holder = p.holder
  /\ \/ q.todo = p.todo
     \/ \E t \in Threads : \E w : Resting(t, p.todo[t], w) /\ Walked(p, q, t, w)

\* What may become of the camera: nothing; a use; a close by the stop, or the
\* end of the process; the end of an idle window; a timer that has the lock.
Used(q) == q.open = TRUE /\ q.pending = GivesBack /\ q.firing \in SUBSET {"stale"}
GivenBack(p, q) ==
  /\ q.open = FALSE /\ q.pending = FALSE /\ q.firing \in SUBSET {"stale"}
  /\ At(p, "main", "close") \/ q.todo["main"] = <<>>
Waited(p, q) == /\ p.pending /\ q.pending = FALSE
                /\ q.firing = p.firing \cup {"current"} /\ q.open = p.open
Timed(p, q) == \E g \in p.firing :
                 /\ q.firing = p.firing \ {g} /\ q.pending = p.pending
                 /\ q.open = (p.open /\ g # "current")
Lens(p, q) == \/ SameLens(p, q) \/ Used(q) \/ GivenBack(p, q)
              \/ Waited(p, q) \/ Timed(p, q)

\* A place that may be rested in is a place.
LEMMA RestingMayWalk ==
  ASSUME NEW t, NEW v, NEW w, Resting(t, v, w)
  PROVE  MayWalk(t, w)
BY DEF Resting, MayWalk, MainWalks, LeavingWalks, MqttWalks, PlainWalks,
       RunWalks, LoopWalks

\* What is left of a walk after a stage that nothing replaces.
LEMMA RestOfWalk ==
  ASSUME Typed, NEW t \in Threads, At(pay, t, "publish")
  PROVE  Resting(t, pay.todo[t], <<>> \o Tail(pay.todo[t]))
<1> DEFINE v == pay.todo[t]  w == <<>> \o Tail(v)
<1>1. CASE t = "main"
  <2>1. v \in {<<"publish", "camera", "loop">>, <<"publish", "loop">>}
    BY <1>1, MainStages DEF Typed, Placed
  <2>2. v = <<"publish", "camera", "loop">> => w = <<"camera", "loop">>
    BY Literals
  <2>3. v = <<"publish", "loop">> => w = <<"loop">>
    BY Literals
  <2> QED BY <1>1, <2>1, <2>2, <2>3 DEF Resting, ServingWalks
<1>2. CASE t = "mqtt"
  <2>1. v \in {<<"publish">>, <<"publish", "publish">>}
    BY <1>2, MqttStages DEF Typed, Placed
  <2>2. v = <<"publish">> => w = <<>>
    BY Literals
  <2>3. v = <<"publish", "publish">> => w = <<"publish">>
    BY Literals
  <2> QED BY <1>2, <2>1, <2>2, <2>3 DEF Resting, PlainWalks
<1>3. CASE t \in RunIds
  <2>1. v \in {<<"publish", "top">>, <<"publish">>}
    BY <1>3, RunStages DEF Typed, Placed
  <2>2. v = <<"publish">> => w = <<>>
    BY Literals
  <2>3. v = <<"publish", "top">> => w = <<"top">>
    BY Literals
  <2> QED BY <1>3, <2>1, <2>2, <2>3 DEF Resting
<1> QED BY <1>1, <1>2, <1>3 DEF Threads

\* One thread goes on; the status fields may change with it.
LEMMA ChoreOf ==
  ASSUME NEW p \in PayState, Placed(p), NEW t \in Threads, NEW w,
         Resting(t, p.todo[t], w), NEW q, q \in PayState,
         q.todo = [p.todo EXCEPT ![t] = w], Still(p, q)
  PROVE  Placed(q) /\ Chore(p, q) /\ Lens(p, q)
<1>1. Walked(p, q, t, w)
  BY DEF Walked
<1>2. Placed(q)
  BY <1>1, RestingMayWalk, WalkedIsPlaced DEF MayWalk
<1> QED BY <1>1, <1>2 DEF Chore, Still, Lens

\* The same, from the operators.
LEMMA ThenIsChore ==
  ASSUME Typed, NEW t \in Threads, NEW stages, NEW w,
         w = stages \o Tail(pay.todo[t]), Resting(t, pay.todo[t], w)
  PROVE  LET q == Then(pay, t, stages)
         IN  /\ q \in PayState /\ Placed(q) /\ Chore(pay, q) /\ Lens(pay, q)
             /\ Still(pay, q) /\ q.todo = [pay.todo EXCEPT ![t] = w]
<1> DEFINE q == Then(pay, t, stages)
<1>1. /\ q \in PayState /\ Placed(q) /\ Walked(pay, q, t, w) /\ Still(pay, q)
  BY RestingMayWalk, ThenEffect DEF Typed
<1> HIDE DEF q
<1>2. q.todo = [pay.todo EXCEPT ![t] = w]
  BY <1>1 DEF Walked
<1> QED BY <1>1, <1>2, ChoreOf DEF Typed, q

\* The bounds of the environment are spent, the joins given up and the closes
\* that were lost counted apart.
Charged == /\ left' \in [Kinds -> Nat]
           /\ left'["timeouts"] = left["timeouts"] /\ left'["lost"] = left["lost"]
CloseIsLost == /\ left' \in [Kinds -> Nat]
               /\ left'["timeouts"] = left["timeouts"] /\ left'["lost"] < left["lost"]

\* Spending keeps the bounds, and what is not spent.
LEMMA SpendEffect ==
  ASSUME Bounded, NEW kind \in Kinds, NEW n \in {0, 1}, Spend(kind, n)
  PROVE  /\ left' \in [Kinds -> Nat]
         /\ kind \notin {"timeouts", "lost"} => Charged
         /\ kind = "timeouts" /\ n = 1 =>
              left'.timeouts < left.timeouts /\ left'.lost = left.lost
<1>1. left[kind] \in Nat /\ left[kind] >= n /\ left[kind] - n \in Nat
  BY DEF Bounded, Spend
<1>2. left' \in [Kinds -> Nat] /\ left'[kind] = left[kind] - n
      /\ \A k \in Kinds \ {kind} : left'[k] = left[k]
  BY <1>1 DEF Bounded, Spend
<1>3. "timeouts" \in Kinds /\ "lost" \in Kinds
  BY DEF Kinds
<1> QED BY <1>1, <1>2, <1>3 DEF Charged

\* Nothing spent is charged to nobody.
LEMMA FreeOfCharge ==
  ASSUME Bounded, UNCHANGED left
  PROVE  Charged
BY DEF Bounded, Charged

\* A cost is one or nothing.
LEMMA CostType == \A bad \in BOOLEAN : Cost(bad) \in {0, 1}
BY DEF Cost

\* A step that is a chore of one thread.
IsChore == Typed' /\ Chore(pay, pay') /\ Lens(pay, pay') /\ Charged

\* Publishing is a chore.
LEMMA PublishIs ==
  ASSUME Typed, Bounded, PublishStatus
  PROVE  IsChore
<1>1. PICK t \in Threads : At(pay, t, "publish") /\ pay' = Publish(pay, t)
  BY DEF PublishStatus
<1> DEFINE w == <<>> \o Tail(pay.todo[t])  q == Then(pay, t, <<>>)
<1>2. Resting(t, pay.todo[t], w)
  BY <1>1, RestOfWalk
<1>3. /\ q \in PayState /\ Placed(q) /\ Still(pay, q)
      /\ q.todo = [pay.todo EXCEPT ![t] = w]
  BY <1>2, ThenIsChore
<1>4. pay' = [q EXCEPT !.said = TRUE]
  BY <1>1 DEF Publish
<1> HIDE DEF q, w
<1>5. TRUE \in BOOLEAN
  OBVIOUS
<1>6. pay' \in PayState /\ pay'.todo = q.todo /\ Still(q, pay')
  BY <1>3, <1>4, <1>5, StatusEffect
<1>7. Still(pay, pay')
  BY <1>3, <1>6 DEF Still, SameMission, SameSeries, SameLens
<1>8. Placed(pay') /\ Chore(pay, pay') /\ Lens(pay, pay')
  BY <1>1, <1>2, <1>3, <1>6, <1>7, ChoreOf DEF Typed
<1> QED BY <1>6, <1>8, FreeOfCharge DEF Typed, Placed, PublishStatus, IsChore

\* So are the sensor's probe and the sensor's later answers.
LEMMA SensorIs ==
  ASSUME Typed, Bounded, ProbesSensor \/ PayloadTicks
  PROVE  IsChore
<1> DEFINE Senses(present, w) ==
             /\ Resting("main", pay.todo["main"], w)
             /\ pay' = [[pay EXCEPT !.todo["main"] = w] EXCEPT !.sensor = present]
             /\ Charged
<1>0. PICK present \in BOOLEAN : \E w : Senses(present, w)
  <2>1. CASE ProbesSensor
    <3>1. pay.todo["main"] = <<"sensor", "camera", "loop">>
      BY <2>1, MainStages DEF ProbesSensor, Typed, Placed
    <3>2. PICK present \in BOOLEAN :
            /\ pay' = [Then(pay, "main", IF present THEN <<"publish">> ELSE <<>>)
                         EXCEPT !.sensor = present]
            /\ Spend("rare", Cost(~present))
      BY <2>1 DEF ProbesSensor
    <3> DEFINE stages == IF present THEN <<"publish">> ELSE <<>>
               w == stages \o Tail(pay.todo["main"])
    <3>3. w \in {<<"camera", "loop">>, <<"publish", "camera", "loop">>}
      <4>1. Tail(pay.todo["main"]) = <<"camera", "loop">>
        BY <3>1, Literals
      <4>2. stages = <<>> \/ stages = <<"publish">>
        OBVIOUS
      <4>3. /\ <<>> \o <<"camera", "loop">> = <<"camera", "loop">>
            /\ <<"publish">> \o <<"camera", "loop">> = <<"publish", "camera", "loop">>
        BY Literals
      <4> HIDE DEF stages
      <4> QED BY <4>1, <4>2, <4>3
    <3>4. Charged
      BY <3>2, SpendEffect, CostType DEF Kinds
    <3>5. Then(pay, "main", stages) = [pay EXCEPT !.todo["main"] = w]
      BY DEF Then, Typed, PayState
    <3> HIDE DEF w
    <3>6. Resting("main", pay.todo["main"], w)
      BY <3>1, <3>3 DEF Resting, ServingWalks
    <3>7. pay' = [[pay EXCEPT !.todo["main"] = w] EXCEPT !.sensor = present]
      BY <3>2, <3>5
    <3> QED BY <3>4, <3>6, <3>7
  <2>2. CASE PayloadTicks
    <3>1. pay.todo["main"] = <<"loop">>
      BY <2>2, MainStages DEF PayloadTicks, Typed, Placed
    <3>2. PICK present \in BOOLEAN :
            /\ present # pay.sensor
            /\ pay' = NoteSensor(pay, "main", present)
            /\ Spend("rare", 1)
      BY <2>2 DEF PayloadTicks
    <3> DEFINE w == <<"publish", "loop">>
    <3>3. <<"publish">> \o pay.todo["main"] = w
      BY <3>1, Literals
    <3>4. Charged
      BY <3>2, SpendEffect DEF Kinds
    <3>5. pay' = [pay EXCEPT !.sensor = present,
                             !.todo["main"] = <<"publish">> \o @]
      BY <3>2 DEF NoteSensor
    <3> HIDE DEF w
    <3>6. pay' = [[pay EXCEPT !.todo["main"] = w] EXCEPT !.sensor = present]
      BY <3>3, <3>5 DEF Typed, PayState
    <3>7. Resting("main", pay.todo["main"], w)
      BY <3>1 DEF Resting, ServingWalks, w
    <3> QED BY <3>4, <3>6, <3>7
  <2> QED BY <2>1, <2>2
<1>1. PICK w : Senses(present, w)
  BY <1>0
<1> DEFINE q == [pay EXCEPT !.todo["main"] = w]
<1>2. q \in PayState /\ Placed(q) /\ Walked(pay, q, "main", w) /\ Still(pay, q)
  BY <1>1, RestingMayWalk, WalkEffect, ThreadSorts DEF Typed
<1>3. pay' = [q EXCEPT !.sensor = present]
  BY <1>1
<1> HIDE DEF q
<1>4. present \in Presence
  BY DEF Presence
<1>5. pay' \in PayState /\ pay'.todo = q.todo /\ Still(q, pay')
  BY <1>2, <1>3, <1>4, StatusEffect
<1>6. Still(pay, pay') /\ pay'.todo = [pay.todo EXCEPT !["main"] = w]
  BY <1>2, <1>5 DEF Still, SameMission, SameSeries, SameLens, Walked
<1>7. Placed(pay') /\ Chore(pay, pay') /\ Lens(pay, pay')
  BY <1>1, <1>5, <1>6, ChoreOf, ThreadSorts DEF Typed
<1> QED BY <1>1, <1>5, <1>7 DEF Typed, Placed, IsChore

\* The broker's thread takes up a photograph, or answers a reconnect.
LEMMA MqttIs ==
  ASSUME Typed, Bounded, TakePhoto \/ Reconnects
  PROVE  IsChore
<1>1. /\ pay.todo["mqtt"] = <<>>
      /\ Charged
      /\ \E w \in {<<"expose">>, <<"publish">>, <<>>}, said \in BOOLEAN :
           pay' = [[pay EXCEPT !.todo["mqtt"] = w] EXCEPT !.said = said]
  <2>1. CASE TakePhoto
    <3>1. pay' = [pay EXCEPT !.todo["mqtt"] = <<"expose">>]
      BY <2>1 DEF TakePhoto, Handle
    <3>2. pay.said \in BOOLEAN
      BY DEF Typed, PayState
    <3>3. pay' = [[pay EXCEPT !.todo["mqtt"] = <<"expose">>] EXCEPT !.said = pay.said]
      BY <3>1 DEF Typed, PayState
    <3>4. Charged
      BY <2>1, SpendEffect DEF TakePhoto, Kinds
    <3> QED BY <2>1, <3>2, <3>3, <3>4 DEF TakePhoto, MqttFree
  <2>2. CASE Reconnects
    <3>1. pay' = [Handle(Evidence(pay)) EXCEPT !.said = FALSE]
      BY <2>2 DEF Reconnects
    <3> DEFINE w == Evidence(pay)
    <3>2. w \in {<<"publish">>, <<>>}
      BY DEF Evidence
    <3>3. Charged
      BY <2>2, SpendEffect DEF Reconnects, Kinds
    <3> HIDE DEF w
    <3>4. pay' = [[pay EXCEPT !.todo["mqtt"] = w] EXCEPT !.said = FALSE]
      BY <3>1 DEF Handle, w
    <3> QED BY <2>2, <3>2, <3>3, <3>4 DEF Reconnects, MqttFree
  <2> QED BY <2>1, <2>2
<1>2. PICK w \in {<<"expose">>, <<"publish">>, <<>>}, said \in BOOLEAN :
        pay' = [[pay EXCEPT !.todo["mqtt"] = w] EXCEPT !.said = said]
  BY <1>1
<1>3. Resting("mqtt", pay.todo["mqtt"], w)
  BY <1>1, <1>2 DEF Resting, PlainWalks
<1> DEFINE q == [pay EXCEPT !.todo["mqtt"] = w]
<1>4. q \in PayState /\ Placed(q) /\ Walked(pay, q, "mqtt", w) /\ Still(pay, q)
  BY <1>3, RestingMayWalk, WalkEffect, ThreadSorts DEF Typed
<1> HIDE DEF q
<1>5. pay' \in PayState /\ pay'.todo = q.todo /\ Still(q, pay')
  BY <1>2, <1>4, StatusEffect DEF q
<1>6. Still(pay, pay') /\ pay'.todo = [pay.todo EXCEPT !["mqtt"] = w]
  BY <1>4, <1>5 DEF Still, SameMission, SameSeries, SameLens, Walked
<1>7. Placed(pay') /\ Chore(pay, pay') /\ Lens(pay, pay')
  BY <1>3, <1>5, <1>6, ChoreOf, ThreadSorts DEF Typed
<1> QED BY <1>1, <1>5, <1>7 DEF Typed, Placed, IsChore

\* A full card: the photograph on command is refused, a series ends.
LEMMA CardIsFullIs ==
  ASSUME Typed, Bounded, CardIsFull
  PROVE  IsChore
<1>1. PICK t \in Threads :
        /\ At(pay, t, "expose")
        /\ Spend("rare", Cost(t # "mqtt"))
        /\ pay' = IF t = "mqtt" THEN Handle(<<"publish">>)
                  ELSE [pay EXCEPT !.todo[t] = <<"finish">>]
  BY DEF CardIsFull
<1>2. t # "main"
  BY <1>1, MainStages DEF Typed, Placed
<1> DEFINE w == IF t = "mqtt" THEN <<"publish">> ELSE <<"finish">>
<1>3. Resting(t, pay.todo[t], w)
  <2>1. CASE t = "mqtt"
    <3>1. pay.todo[t] = <<"expose">>
      BY <1>1, <2>1, MqttStages DEF Typed, Placed
    <3> QED BY <2>1, <3>1 DEF Resting, PlainWalks
  <2>2. CASE t \in RunIds
    <3>1. pay.todo[t] = <<"expose", "top">>
      BY <1>1, <2>2, RunStages DEF Typed, Placed
    <3> QED BY <2>2, <3>1, ThreadSorts DEF Resting
  <2> QED BY <1>2, <2>1, <2>2 DEF Threads
<1>4. pay' = [pay EXCEPT !.todo[t] = w]
  BY <1>1 DEF Handle
<1> HIDE DEF w
<1> DEFINE q == [pay EXCEPT !.todo[t] = w]
<1>5. q \in PayState /\ Placed(q) /\ Walked(pay, q, t, w) /\ Still(pay, q)
  BY <1>3, RestingMayWalk, WalkEffect DEF Typed
<1>6. pay' = q
  BY <1>4
<1> HIDE DEF q
<1>7. Placed(q) /\ Chore(pay, q) /\ Lens(pay, q)
  BY <1>3, <1>5, ChoreOf DEF Typed, Walked
<1>8. Charged
  <2>1. (t # "mqtt") \in BOOLEAN
    OBVIOUS
  <2> QED BY <1>1, <2>1, SpendEffect, CostType DEF Kinds
<1> QED BY <1>5, <1>6, <1>7, <1>8 DEF Typed, Placed, IsChore

\* What a photograph says of the camera.
LEMMA NotesTheCameraIs ==
  ASSUME Typed, Bounded, NotesTheCamera
  PROVE  IsChore
<1>1. PICK t \in Threads, present \in BOOLEAN :
        /\ At(pay, t, "answered") \/ At(pay, t, "failed")
        /\ pay' = NoteCamera(pay, t, present)
  BY DEF NotesTheCamera
<1>2. Charged
  BY FreeOfCharge DEF NotesTheCamera
<1>3. t # "main"
  BY <1>1, MainStages DEF Typed, Placed
<1>4. ASSUME NEW stages \in {<<>>, <<"publish">>}
      PROVE  Resting(t, pay.todo[t], stages \o Tail(pay.todo[t]))
  <2>1. CASE t = "mqtt"
    <3>1. pay.todo[t] \in {<<"answered">>, <<"failed">>}
      BY <1>1, <2>1, MqttStages DEF Typed, Placed
    <3>2. Tail(pay.todo[t]) = <<>>
      BY <3>1, Literals
    <3>3. stages \o <<>> \in {<<>>, <<"publish">>}
      BY Literals
    <3> QED BY <2>1, <3>1, <3>2, <3>3 DEF Resting, PlainWalks
  <2>2. CASE t \in RunIds
    <3>1. pay.todo[t] = <<"answered", "top">>
      BY <1>1, <2>2, RunStages DEF Typed, Placed
    <3>2. Tail(pay.todo[t]) = <<"top">>
      BY <3>1, Literals
    <3>3. stages \o <<"top">> \in {<<"top">>, <<"publish", "top">>}
      BY Literals
    <3> QED BY <2>2, <3>1, <3>2, <3>3 DEF Resting
  <2> QED BY <1>3, <2>1, <2>2 DEF Threads
<1>5. PICK stages \in {<<>>, <<"publish">>}, camera \in Presence :
        pay' = [Then(pay, t, stages) EXCEPT !.camera = camera]
  <2> DEFINE q == Then(pay, t, <<>>)
  <2>1. CASE pay.camera = present
    <3>1. pay' = q
      BY <1>1, <2>1 DEF NoteCamera
    <3>2. q \in PayState
      BY <1>4, ThenIsChore
    <3>3. q = [q EXCEPT !.camera = q.camera] /\ q.camera \in Presence
      BY <3>2 DEF PayState
    <3> HIDE DEF q
    <3>4. \E camera \in Presence : pay' = [q EXCEPT !.camera = camera]
      BY <3>1, <3>3
    <3> QED BY <3>4 DEF q
  <2>2. CASE pay.camera # present
    <3>1. pay' = [Then(pay, t, <<"publish">>) EXCEPT !.camera = present]
      BY <1>1, <2>2 DEF NoteCamera
    <3>2. present \in Presence
      BY DEF Presence
    <3> QED BY <3>1, <3>2
  <2> QED BY <2>1, <2>2
<1> DEFINE w == stages \o Tail(pay.todo[t])  q == Then(pay, t, stages)
<1>6. Resting(t, pay.todo[t], w)
  BY <1>4
<1>7. /\ q \in PayState /\ Placed(q) /\ Still(pay, q)
      /\ q.todo = [pay.todo EXCEPT ![t] = w]
  BY <1>6, ThenIsChore
<1> HIDE DEF q, w
<1>8. pay' \in PayState /\ pay'.todo = q.todo /\ Still(q, pay')
  BY <1>5, <1>7, StatusEffect DEF q
<1>9. Still(pay, pay')
  BY <1>7, <1>8 DEF Still, SameMission, SameSeries, SameLens
<1>10. Placed(pay') /\ Chore(pay, pay') /\ Lens(pay, pay')
  BY <1>6, <1>7, <1>8, <1>9, ChoreOf DEF Typed
<1> QED BY <1>2, <1>8, <1>10 DEF Typed, Placed, IsChore

\* A chore that has to do with the camera.
LEMMA CameraChore ==
  ASSUME Typed, NEW t \in Threads, NEW w, Resting(t, pay.todo[t], w),
         NEW q \in PayState, q.todo = [pay.todo EXCEPT ![t] = w],
         SameMission(pay, q), SameSeries(pay, q), q.holder = pay.holder
  PROVE  Placed(q) /\ Chore(pay, q)
<1>1. Walked(pay, q, t, w)
  BY DEF Walked
<1>2. Placed(q)
  BY <1>1, RestingMayWalk, WalkedIsPlaced DEF MayWalk, Typed
<1> QED BY <1>1, <1>2 DEF Chore

\* The camera's probe is a use of it.
LEMMA ProbeIs ==
  ASSUME Typed, Bounded, ProbesCamera
  PROVE  IsChore
<1>1. pay.todo["main"] = <<"camera", "loop">>
  BY MainStages DEF ProbesCamera, Typed, Placed
<1>2. PICK present \in BOOLEAN :
        LET probed == [Probe(pay) EXCEPT !.camera = present]
        IN  /\ pay' = Then(probed, "main", Evidence(probed))
            /\ Spend("rare", Cost(~present))
  BY DEF ProbesCamera
<1> DEFINE o == [pay EXCEPT !.open = TRUE]
           a == ArmIdleClose(o)
           b == [a EXCEPT !.camera = present]
           stages == Evidence(b)
           w == stages \o Tail(pay.todo["main"])
<1>3. pay' = Then(b, "main", stages) /\ Charged
  BY <1>2, SpendEffect, CostType DEF Probe, Kinds
<1>4. stages = <<>> \/ stages = <<"publish">>
  BY DEF Evidence
<1>5. Resting("main", pay.todo["main"], w)
  <2>1. Tail(pay.todo["main"]) = <<"loop">>
    BY <1>1, Literals
  <2>2. /\ <<>> \o <<"loop">> = <<"loop">>
        /\ <<"publish">> \o <<"loop">> = <<"publish", "loop">>
    BY Literals
  <2> HIDE DEF stages
  <2> QED BY <1>1, <1>4, <2>1, <2>2 DEF Resting, ServingWalks
<1>6. /\ o \in PayState /\ o.todo = pay.todo /\ o.holder = pay.holder
      /\ SameMission(pay, o) /\ SameSeries(pay, o) /\ o.open = TRUE
  <2>1. TRUE \in BOOLEAN
    OBVIOUS
  <2> QED BY <2>1 DEF Typed, PayState, SameMission, SameSeries
<1> HIDE DEF o
<1>7. /\ a \in PayState /\ a.todo = pay.todo /\ a.holder = pay.holder
      /\ SameMission(o, a) /\ SameSeries(o, a) /\ Used(a)
  BY <1>6, ArmIdleCloseEffect DEF Used
<1> HIDE DEF a
<1>8. Placed(a)
  BY <1>7 DEF Typed, Placed
<1>9. present \in Presence
  BY DEF Presence
<1>10. b \in PayState /\ Placed(b) /\ b.todo = a.todo /\ Still(a, b)
  BY <1>7, <1>8, <1>9, StatusEffect
<1> HIDE DEF b, stages, w
<1>11. w = stages \o Tail(b.todo["main"]) /\ MayWalk("main", w)
  BY <1>5, <1>7, <1>10, RestingMayWalk DEF w
<1>12. pay' \in PayState /\ Walked(b, pay', "main", w) /\ Still(b, pay')
  BY <1>3, <1>10, <1>11, ThenEffect, ThreadSorts
<1>13. /\ pay'.todo = [pay.todo EXCEPT !["main"] = w]
       /\ SameMission(pay, pay') /\ SameSeries(pay, pay')
       /\ pay'.holder = pay.holder /\ Used(pay')
  BY <1>6, <1>7, <1>10, <1>12
     DEF Walked, Still, SameMission, SameSeries, SameLens, Used
<1>14. Placed(pay') /\ Chore(pay, pay')
  BY <1>5, <1>12, <1>13, CameraChore, ThreadSorts
<1> QED BY <1>3, <1>12, <1>13, <1>14 DEF Typed, Placed, IsChore, Lens

\* The stop gives the camera back.
LEMMA GivesBackIs ==
  ASSUME Typed, Bounded, GivesCameraBack
  PROVE  IsChore
<1>1. At(pay, "main", "close") /\ pay.todo["main"] = <<"close", "gone">>
  BY MainStages DEF GivesCameraBack, Typed, Placed
<1> DEFINE w == <<"gone">>
           n == Then(pay, "main", <<>>)
           stale == IF n.firing = {} THEN {} ELSE {"stale"}
<1>2. w = <<>> \o Tail(pay.todo["main"]) /\ Resting("main", pay.todo["main"], w)
  BY <1>1, Literals DEF Resting
<1>3. /\ n \in PayState /\ Still(pay, n)
      /\ n.todo = [pay.todo EXCEPT !["main"] = w]
  BY <1>2, ThenIsChore, ThreadSorts
<1>4. pay' = Close(n)
  BY DEF GivesCameraBack
<1> HIDE DEF n, w
<1>5. stale \in SUBSET {"stale"} /\ stale \in SUBSET {"current", "stale"}
      /\ FALSE \in BOOLEAN
  OBVIOUS
<1>6. pay' = [n EXCEPT !.pending = FALSE, !.firing = stale, !.open = FALSE]
  BY <1>3, <1>4 DEF Close, NewGeneration, PayState
<1> HIDE DEF stale
<1>7. /\ pay' \in PayState /\ pay'.todo = n.todo /\ pay'.holder = n.holder
      /\ SameMission(n, pay') /\ SameSeries(n, pay')
      /\ pay'.open = FALSE /\ pay'.pending = FALSE
      /\ pay'.firing \in SUBSET {"stale"}
  BY <1>3, <1>5, <1>6 DEF PayState, SameMission, SameSeries
<1>8. /\ SameMission(pay, pay') /\ SameSeries(pay, pay')
      /\ pay'.holder = pay.holder
      /\ pay'.todo = [pay.todo EXCEPT !["main"] = w]
  BY <1>3, <1>7 DEF Still, SameMission, SameSeries
<1>9. Placed(pay') /\ Chore(pay, pay')
  BY <1>2, <1>7, <1>8, CameraChore, ThreadSorts
<1>10. Lens(pay, pay')
  BY <1>1, <1>7 DEF Lens, GivenBack
<1>11. Charged
  BY FreeOfCharge DEF GivesCameraBack
<1> QED BY <1>7, <1>9, <1>10, <1>11 DEF Typed, Placed, IsChore

\* The timers touch the camera and nothing else.
LEMMA TimersAre ==
  ASSUME Typed, Bounded, IdleWindowEnds \/ IdleTimerCloses
  PROVE  IsChore
<1>1. ASSUME NEW firing \in SUBSET {"current", "stale"},
             NEW pending \in BOOLEAN, NEW open \in BOOLEAN,
             pay' = [pay EXCEPT !.firing = firing, !.pending = pending,
                                !.open = open]
      PROVE  /\ Typed' /\ Chore(pay, pay')
             /\ pay'.firing = firing /\ pay'.pending = pending
             /\ pay'.open = open
  <2>1. /\ pay' \in PayState /\ pay'.todo = pay.todo
        /\ SameMission(pay, pay') /\ SameSeries(pay, pay')
        /\ pay'.holder = pay.holder
        /\ pay'.firing = firing /\ pay'.pending = pending
        /\ pay'.open = open
    BY <1>1 DEF Typed, PayState, SameMission, SameSeries
  <2>2. Placed(pay')
    BY <2>1 DEF Typed, Placed
  <2> QED BY <2>1, <2>2 DEF Typed, Placed, Chore
<1>2. /\ pay.firing \in SUBSET {"current", "stale"}
      /\ pay.pending \in BOOLEAN /\ pay.open \in BOOLEAN
  BY DEF Typed, PayState
<1>3. CASE IdleWindowEnds
  <2> DEFINE firing == pay.firing \cup {"current"}
  <2>1. pay' = [pay EXCEPT !.firing = firing, !.pending = FALSE,
                           !.open = pay.open]
    BY <1>3 DEF IdleWindowEnds, WindowOver, Typed, PayState
  <2>2. firing \in SUBSET {"current", "stale"} /\ FALSE \in BOOLEAN
    BY <1>2
  <2> HIDE DEF firing
  <2>3. /\ Typed' /\ Chore(pay, pay')
        /\ pay'.firing = firing /\ pay'.pending = FALSE
        /\ pay'.open = pay.open
    BY <1>1, <1>2, <2>1, <2>2
  <2>4. Waited(pay, pay')
    BY <1>3, <2>3 DEF Waited, IdleWindowEnds, firing
  <2> QED BY <1>3, <2>3, <2>4, FreeOfCharge DEF Lens, IsChore, IdleWindowEnds
<1>4. CASE IdleTimerCloses
  <2>1. PICK generation \in pay.firing : pay' = IdleClose(pay, generation)
    BY <1>4 DEF IdleTimerCloses
  <2> DEFINE firing == pay.firing \ {generation}
             open == pay.open /\ generation # "current"
  <2>2. pay' = [pay EXCEPT !.firing = firing, !.pending = pay.pending,
                           !.open = open]
    BY <2>1 DEF IdleClose, Typed, PayState
  <2>3. firing \in SUBSET {"current", "stale"} /\ open \in BOOLEAN
    BY <1>2
  <2> HIDE DEF firing, open
  <2>4. /\ Typed' /\ Chore(pay, pay')
        /\ pay'.firing = firing /\ pay'.pending = pay.pending
        /\ pay'.open = open
    BY <1>1, <1>2, <2>2, <2>3
  <2>5. Timed(pay, pay')
    BY <2>4 DEF Timed, firing, open
  <2> QED BY <1>4, <2>4, <2>5, FreeOfCharge DEF Lens, IsChore, IdleTimerCloses
<1> QED BY <1>3, <1>4

\* So is a stop that finds no series, and a loop that finds its flag set.
LEMMA NothingToDoIs ==
  ASSUME Typed, Bounded,
         \/ PayloadStops /\ pay.run = None
         \/ /\ UNCHANGED left
            /\ \E r \in RunIds : /\ At(pay, r, "top") /\ pay.threads[r].stop
                                 /\ pay' = Top(pay, r)
  PROVE  IsChore
<1>1. PICK t \in Threads, w \in {<<"close", "gone">>, <<"finish">>} :
        /\ Resting(t, pay.todo[t], w)
        /\ pay' = [pay EXCEPT !.todo[t] = w]
        /\ Charged
  <2>1. CASE PayloadStops /\ pay.run = None
    <3>1. pay.todo["main"] = <<"loop">>
      BY <2>1, MainStages DEF PayloadStops, Typed, Placed
    <3>2. Charged
      BY <2>1, SpendEffect DEF PayloadStops, Kinds
    <3> DEFINE n == [pay EXCEPT !.todo["main"] = <<"close", "gone">>]
    <3>3. n.run = None
      BY <2>1 DEF Typed, PayState
    <3>4. pay' = n
      BY <2>1, <3>3 DEF PayloadStops, StopMissionPhotos
    <3>5. Resting("main", pay.todo["main"], <<"close", "gone">>)
      BY <3>1 DEF Resting, ServingWalks
    <3> QED BY <3>2, <3>4, <3>5, ThreadSorts
  <2>2. ASSUME UNCHANGED left, NEW r \in RunIds, At(pay, r, "top"),
               pay.threads[r].stop, pay' = Top(pay, r)
        PROVE  \E t \in Threads, w \in {<<"close", "gone">>, <<"finish">>} :
                 /\ Resting(t, pay.todo[t], w)
                 /\ pay' = [pay EXCEPT !.todo[t] = w]
                 /\ Charged
    <3>1. pay.todo[r] = <<"top">>
      BY <2>2, RunStages DEF Typed, Placed
    <3>2. pay' = [pay EXCEPT !.todo[r] = <<"finish">>]
      BY <2>2 DEF Top
    <3>3. Resting(r, pay.todo[r], <<"finish">>)
      BY <3>1 DEF Resting
    <3>4. Charged
      BY <2>2, FreeOfCharge
    <3> QED BY <3>2, <3>3, <3>4, ThreadSorts
  <2> QED BY <2>1, <2>2
<1> DEFINE q == [pay EXCEPT !.todo[t] = w]
<1>2. q \in PayState /\ Placed(q) /\ Walked(pay, q, t, w) /\ Still(pay, q)
  BY <1>1, RestingMayWalk, WalkEffect DEF Typed
<1>3. pay' = q
  BY <1>1
<1> HIDE DEF q
<1>4. Placed(q) /\ Chore(pay, q) /\ Lens(pay, q)
  BY <1>1, <1>2, ChoreOf DEF Typed, Walked
<1> QED BY <1>1, <1>2, <1>3, <1>4 DEF Typed, Placed, IsChore

\* Nothing happening is the least of the chores.
LEMMA StutterIs ==
  ASSUME Typed, Bounded, UNCHANGED payVars
  PROVE  IsChore
BY FreeOfCharge
   DEF payVars, IsChore, Typed, Placed, Chore, Lens, SameLens, SameMission, SameSeries

(***************************************************************************)
(* What keeps each part of the invariant.                                  *)
(***************************************************************************)

\* A frame between the first field of its context and its photograph.
ReadingWalks == { <<"where", "top">>, <<"expose", "top">>, <<"exposed", "top">> }
RootWalk == <<"root", "reconcile", "publish">>

\* No thread takes up an exposure or leaves one.
LEMMA LockKept ==
  ASSUME LockIsHeld, pay'.holder = pay.holder,
         \A t \in Threads : At(pay', t, "exposed") <=> At(pay, t, "exposed")
  PROVE  LockIsHeld'
<1>1. \A t \in Threads : (pay'.holder = t) <=> At(pay', t, "exposed")
  BY DEF LockIsHeld
<1> QED BY <1>1 DEF LockIsHeld, At

\* No thread takes up a join or leaves one.
LEMMA JoinKept ==
  ASSUME JoinIsOn, SameSeries(pay, pay'),
         \A t \in {"main", "mqtt"} : At(pay', t, "join") <=> At(pay, t, "join")
  PROVE  JoinIsOn'
<1>1. /\ (pay'.joins["main"] # None) <=> At(pay', "main", "join")
      /\ (pay'.joins["mqtt"] # None) <=> At(pay', "mqtt", "join")
      /\ pay'.run # None => pay'.run \notin {pay'.joins["main"], pay'.joins["mqtt"]}
  BY DEF JoinIsOn, SameSeries
<1> QED BY <1>1 DEF JoinIsOn, At

\* No series enters its loop, or the reading of a context.
LEMMA LoopKept ==
  ASSUME LoopIsKnown, SameSeries(pay, pay'), left'.timeouts = left.timeouts,
         \A r \in RunIds :
           /\ pay'.todo[r] \in LoopWalks => pay.todo[r] \in LoopWalks
           /\ pay'.todo[r] = <<"where", "top">> => pay.todo[r] = <<"where", "top">>
  PROVE  LoopIsKnown'
BY DEF LoopIsKnown, SameSeries

\* Nobody starts a series, takes a permit away or ends a reconciliation.
LEMMA PermitKept ==
  ASSUME PermitIsDue, Active(pay') => Active(pay),
         pay'.id = pay.id, pay'.state = pay.state,
         pay.todo["mqtt"] \in ReconcilingWalks
           => pay'.todo["mqtt"] \in ReconcilingWalks
  PROVE  PermitIsDue'
<1>1. Active(pay') => \/ MissionPermits(pay')
                      \/ pay'.todo["mqtt"] \in ReconcilingWalks
  BY DEF PermitIsDue, MissionPermits
<1> QED BY <1>1 DEF PermitIsDue, Active, MissionPermits

\* The mission stays as it is.
LEMMA MissionKept ==
  ASSUME MissionIsWhole, left'.lost = left.lost, pay'.id = pay.id, pay'.root = pay.root,
         pay'.coming = pay.coming,
         (pay'.todo["mqtt"] = RootWalk) <=> (pay.todo["mqtt"] = RootWalk)
  PROVE  MissionIsWhole'
BY DEF MissionIsWhole, PairIsWhole, ClosesAreHeard, RootWalk

\* The mission stays as it is, and the frames that have read of it.
LEMMA FrameKept ==
  ASSUME FrameIsWhole, left'.lost = left.lost, pay'.id = pay.id, pay'.root = pay.root,
         pay'.todo["main"] \in ServingWalks => pay.todo["main"] \in ServingWalks,
         pay.todo["mqtt"] = RootWalk => pay'.todo["mqtt"] = RootWalk,
         \A r \in RunIds : pay'.todo[r] \in ReadingWalks =>
           pay'.todo[r] = pay.todo[r] /\ pay'.threads[r].id = pay.threads[r].id
             /\ pay'.threads[r].root = pay.threads[r].root
  PROVE  FrameIsWhole'
BY DEF FrameIsWhole, FramesAreWhole, ClosesAreHeard, ReadingWalks, RootWalk

\* The camera is used by whoever gives the lock back.
LEMMA TimerKept ==
  ASSUME TimerIsSet, Lens(pay, pay'),
         pay'.holder = pay.holder \/ pay.holder = None \/ Used(pay')
  PROVE  TimerIsSet'
<1>1. CASE SameLens(pay, pay') /\ ~Used(pay')
  BY <1>1 DEF TimerIsSet, SameLens
<1>2. CASE Used(pay')
  BY <1>2 DEF TimerIsSet, Used
<1>3. CASE GivenBack(pay, pay')
  BY <1>3 DEF TimerIsSet, GivenBack
<1>4. CASE Waited(pay, pay') /\ ~Used(pay')
  BY <1>4 DEF TimerIsSet, Waited
<1>5. CASE Timed(pay, pay') /\ ~Used(pay')
  BY <1>5 DEF TimerIsSet, Timed
<1> QED BY <1>1, <1>2, <1>3, <1>4, <1>5 DEF Lens

\* A process that is up stays up, or leaves nothing.
LEMMA UpKept ==
  ASSUME pay'.todo["main"] # <<>>
  PROVE  DownIsBlank'
BY DEF DownIsBlank

\* A chore keeps the invariant.
LEMMA ChoreKeeps ==
  ASSUME PayloadInv, Up, IsChore
  PROVE  PayloadInv'
<1> DEFINE Rests(t, w) ==
             \/ pay'.todo = pay.todo
             \/ Resting(t, pay.todo[t], w) /\ Walked(pay, pay', t, w)
<1>0. PICK t \in Threads : \E w : Rests(t, w)
  BY ThreadSorts DEF IsChore, Chore
<1>1. PICK w : Rests(t, w)
  BY <1>0
<1>2. pay.todo \in [Threads -> Walks] /\ Placed(pay) /\ Placed(pay')
  BY DEF PayloadInv, Typed, PayState, IsChore
<1>3. CASE pay'.todo = pay.todo
  <2>1. LockIsHeld'
    BY <1>3, LockKept DEF PayloadInv, IsChore, Chore, At
  <2>2. JoinIsOn'
    BY <1>3, JoinKept DEF PayloadInv, IsChore, Chore, At
  <2>3. LoopIsKnown' /\ FrameIsWhole' /\ MissionIsWhole' /\ PermitIsDue'
    BY <1>3, LoopKept, FrameKept, MissionKept, PermitKept
       DEF PayloadInv, IsChore, Chore, Charged, SameMission, SameSeries, Active
  <2>4. TimerIsSet'
    BY TimerKept DEF PayloadInv, IsChore, Chore
  <2>5. DownIsBlank'
    BY <1>3, UpKept DEF Up
  <2> QED BY <2>1, <2>2, <2>3, <2>4, <2>5 DEF PayloadInv, IsChore, Bounded, Charged
<1>4. CASE Resting(t, pay.todo[t], w) /\ Walked(pay, pay', t, w)
  <2>1. pay'.todo[t] = w /\ \A u \in Threads \ {t} : pay'.todo[u] = pay.todo[u]
    BY <1>2, <1>4 DEF Walked
  <2>2. /\ pay'.todo["mqtt"] = pay.todo["mqtt"]
             \/ {pay.todo["mqtt"], pay'.todo["mqtt"]} \subseteq PlainWalks
        /\ pay'.todo["main"] = pay.todo["main"]
             \/ /\ pay.todo["main"] \in ServingWalks \cup {<<"close", "gone">>}
                /\ pay'.todo["main"] \in ServingWalks
                     \cup {<<"close", "gone">>, <<"gone">>}
                /\ pay'.todo["main"] \in ServingWalks
                     => pay.todo["main"] \in ServingWalks
        /\ \A r \in RunIds :
             pay'.todo[r] = pay.todo[r]
               \/ /\ pay.todo[r] \in LoopWalks \cup {<<"publish">>}
                  /\ pay.todo[r] \notin {<<"exposed", "top">>}
                  /\ pay'.todo[r] \notin ReadingWalks
                  /\ pay'.todo[r] \in LoopWalks => pay.todo[r] \in LoopWalks
    <3>1. CASE t = "main"
      <4>1. \/ pay.todo["main"] \in ServingWalks
               /\ w \in ServingWalks \cup {<<"close", "gone">>}
            \/ pay.todo["main"] = <<"close", "gone">> /\ w = <<"gone">>
        BY <1>4, <3>1, ThreadSorts DEF Resting
      <4>2. <<"gone">> \notin ServingWalks
        BY DEF ServingWalks
      <4>3. /\ pay'.todo["mqtt"] = pay.todo["mqtt"] /\ pay'.todo["main"] = w
            /\ \A r \in RunIds : pay'.todo[r] = pay.todo[r]
        BY <2>1, <3>1, ThreadSorts
      <4> QED BY <4>1, <4>2, <4>3
    <3>2. CASE t = "mqtt"
      BY <1>4, <2>1, <3>2, ThreadSorts DEF Resting
    <3>3. CASE t \in RunIds
      <4>1. \A r \in RunIds \ {t} : pay'.todo[r] = pay.todo[r]
        BY <2>1, ThreadSorts
      <4>2. /\ pay.todo[t] \in LoopWalks \cup {<<"publish">>}
            /\ pay.todo[t] \notin {<<"exposed", "top">>}
            /\ w \notin ReadingWalks
            /\ w \in LoopWalks => pay.todo[t] \in LoopWalks
        <5> DEFINE v == pay.todo[t]
        <5>1. \/ /\ v \in {<<"publish", "top">>, <<"answered", "top">>}
                 /\ w \in {<<"publish", "top">>, <<"top">>}
              \/ v \in {<<"top">>, <<"expose", "top">>} /\ w = <<"finish">>
              \/ v = <<"publish">> /\ w = <<>>
          BY <1>4, <3>3, ThreadSorts DEF Resting
        <5> HIDE DEF v
        <5>2. w \notin ReadingWalks /\ v # <<"exposed", "top">>
          BY <5>1 DEF ReadingWalks
        <5>3. v \in LoopWalks \cup {<<"publish">>}
          BY <5>1 DEF LoopWalks
        <5>4. v = <<"publish">> => w \notin LoopWalks
          BY <5>1 DEF LoopWalks
        <5> QED BY <5>2, <5>3, <5>4 DEF v
      <4>3. pay'.todo["main"] = pay.todo["main"] /\ pay'.todo["mqtt"] = pay.todo["mqtt"]
        BY <2>1, <3>3, ThreadSorts
      <4> QED BY <2>1, <4>1, <4>2, <4>3
    <3> QED BY <3>1, <3>2, <3>3 DEF Threads
  <2>3. \A u \in Threads : At(pay', u, "exposed") <=> At(pay, u, "exposed")
    <3>1. At(pay', "main", "exposed") <=> At(pay, "main", "exposed")
      BY <1>2, MainStages DEF Placed
    <3>2. At(pay', "mqtt", "exposed") <=> At(pay, "mqtt", "exposed")
      <4>1. <<"exposed">> \notin PlainWalks
        BY DEF PlainWalks
      <4>2. At(pay', "mqtt", "exposed") <=> pay'.todo["mqtt"] = <<"exposed">>
        BY <1>2, MqttStages DEF Placed
      <4>3. At(pay, "mqtt", "exposed") <=> pay.todo["mqtt"] = <<"exposed">>
        BY <1>2, MqttStages DEF Placed
      <4> QED BY <2>2, <4>1, <4>2, <4>3
    <3>3. \A r \in RunIds : At(pay', r, "exposed") <=> At(pay, r, "exposed")
      BY ZenonT(60), <1>2, <2>2, RunStages DEF Placed, ReadingWalks
    <3> QED BY <3>1, <3>2, <3>3 DEF Threads
  <2>4. \A u \in {"main", "mqtt"} : At(pay', u, "join") <=> At(pay, u, "join")
    <3>1. At(pay', "main", "join") <=> At(pay, "main", "join")
      BY <1>2, <2>2, MainStages DEF Placed, ServingWalks
    <3>2. At(pay', "mqtt", "join") <=> At(pay, "mqtt", "join")
      BY <1>2, <2>2, MqttStages DEF Placed, PlainWalks
    <3> QED BY <3>1, <3>2
  <2>5. /\ (pay'.todo["mqtt"] = RootWalk) <=> (pay.todo["mqtt"] = RootWalk)
        /\ pay.todo["mqtt"] \in ReconcilingWalks
             => pay'.todo["mqtt"] \in ReconcilingWalks
    BY <2>2 DEF PlainWalks, RootWalk, ReconcilingWalks
  <2>6. /\ SameMission(pay, pay') /\ SameSeries(pay, pay')
        /\ pay'.holder = pay.holder /\ left'.timeouts = left.timeouts
        /\ left'.lost = left.lost
    BY DEF IsChore, Chore, Charged
  <2>7. LockIsHeld' /\ JoinIsOn'
    BY <2>3, <2>4, <2>6, LockKept, JoinKept DEF PayloadInv
  <2>8. LoopIsKnown'
    <3>1. \A r \in RunIds :
           /\ pay'.todo[r] \in LoopWalks => pay.todo[r] \in LoopWalks
           /\ pay'.todo[r] = <<"where", "top">> => pay.todo[r] = <<"where", "top">>
      BY <2>2 DEF ReadingWalks
    <3> QED BY <2>6, <3>1, LoopKept DEF PayloadInv
  <2>9. PermitIsDue' /\ MissionIsWhole'
    BY <2>5, <2>6, PermitKept, MissionKept
       DEF PayloadInv, SameMission, SameSeries, Active
  <2>10. FrameIsWhole'
    <3>1. \A r \in RunIds : pay'.todo[r] \in ReadingWalks =>
           pay'.todo[r] = pay.todo[r] /\ pay'.threads[r].id = pay.threads[r].id
             /\ pay'.threads[r].root = pay.threads[r].root
      BY <2>2, <2>6 DEF SameSeries
    <3>2. pay'.todo["main"] \in ServingWalks => pay.todo["main"] \in ServingWalks
      BY <2>2
    <3> QED BY <2>5, <2>6, <3>1, <3>2, FrameKept DEF PayloadInv, SameMission
  <2>11. TimerIsSet'
    BY <2>6, TimerKept DEF PayloadInv, IsChore
  <2>12. DownIsBlank'
    <3>1. pay'.todo["main"] # <<>>
      BY SMTT(40), <2>2 DEF Up, ServingWalks
    <3> QED BY <3>1, UpKept
  <2> QED BY <2>7, <2>8, <2>9, <2>10, <2>11, <2>12
          DEF PayloadInv, IsChore, Bounded, Charged
<1> QED BY <1>1, <1>3, <1>4

(***************************************************************************)
(* The life of the process.                                                *)
(***************************************************************************)

\* Of a process that is down there is only the start.
LEMMA DownOnlyStarts ==
  ASSUME DownIsBlank, ~Up, NextPayload
  PROVE  PayloadStarts
<1>1. pay = Stopped(pay.said)
  BY DEF DownIsBlank, Up
<1>2. /\ \A t \in Threads : pay.todo[t] = <<>>
      /\ pay.pending = FALSE /\ pay.firing = {}
  BY <1>1 DEF Stopped
<1>3. \A t \in Threads : \A stage : ~At(pay, t, stage)
  BY <1>2 DEF At
<1>4. ~MqttFree
  BY DEF MqttFree
<1>5. ~(ProbesSensor \/ ProbesCamera \/ PayloadTicks \/ PayloadStops
        \/ GivesCameraBack \/ PayloadDies)
  BY <1>3, ThreadSorts
     DEF ProbesSensor, ProbesCamera, PayloadTicks, PayloadStops, GivesCameraBack,
         PayloadDies
<1>6. ~(ObcSays \/ DhsSays \/ TakeRoot \/ MqttReconciles \/ TakePhoto \/ Reconnects)
  BY <1>3, <1>4, ThreadSorts
     DEF ObcSays, DhsSays, TakeRoot, MqttReconciles, TakePhoto, Reconnects
<1>7. ~(PublishStatus \/ TakesTheLock \/ CardIsFull \/ CameraAnswers
        \/ CameraFails \/ NotesTheCamera)
  BY <1>3 DEF PublishStatus, TakesTheLock, CardIsFull, CameraAnswers, CameraFails,
              NotesTheCamera
<1>8. ~(JoinReturns \/ JoinTimesOut \/ FrameBegins \/ FrameIsPlaced \/ SeriesEnds
        \/ IdleWindowEnds \/ IdleTimerCloses)
  BY <1>2, <1>3, ThreadSorts
     DEF JoinReturns, JoinTimesOut, FrameBegins, FrameIsPlaced, SeriesEnds,
         IdleWindowEnds, IdleTimerCloses
<1> QED BY <1>5, <1>6, <1>7, <1>8 DEF NextPayload

\* The start brings the main thread to life, and nothing else yet.
LEMMA StartsKeeps ==
  ASSUME PayloadInv, PayloadStarts
  PROVE  PayloadInv'
<1> DEFINE w == <<"sensor", "camera", "loop">>
<1>1. pay = Stopped(pay.said) /\ pay' = [pay EXCEPT !.todo["main"] = w]
      /\ UNCHANGED left
  BY DEF PayloadStarts, PayloadInv, DownIsBlank, Up
<1>2. w \in MainWalks /\ w \in ServingWalks /\ w # <<>>
  BY DEF MainWalks, ServingWalks
<1> DEFINE q == [pay EXCEPT !.todo["main"] = w]
<1>3. q \in PayState /\ Placed(q) /\ Walked(pay, q, "main", w) /\ Still(pay, q)
  BY <1>2, WalkEffect, ThreadSorts DEF MayWalk, PayloadInv, Typed
<1>4. pay' = q
  BY <1>1
<1> HIDE DEF q, w
<1>5. Typed' /\ Walked(pay, pay', "main", w) /\ Still(pay, pay')
  BY <1>3, <1>4 DEF Typed, Placed
<1>6. /\ \A t \in Threads : pay.todo[t] = <<>>
      /\ \A t \in {"main", "mqtt"} : pay.joins[t] = None
      /\ pay.run = None /\ pay.id = None /\ pay.root = None /\ pay.coming = None
  BY <1>1 DEF Stopped
<1>7. /\ pay'.todo["main"] = w
      /\ \A t \in Threads \ {"main"} : pay'.todo[t] = <<>>
  BY <1>5, <1>6, ThreadSorts DEF Walked, PayloadInv, Typed, PayState
<1>8. /\ pay.todo["mqtt"] = <<>> /\ pay'.todo["mqtt"] = <<>>
      /\ \A r \in RunIds : pay.todo[r] = <<>> /\ pay'.todo[r] = <<>>
  BY <1>6, <1>7, ThreadSorts
<1>9. \A t \in Threads : ~At(pay', t, "exposed") /\ ~At(pay, t, "exposed")
  <2>1. ~At(pay', "main", "exposed")
    BY <1>5, MainStages DEF Typed, Placed
  <2> QED BY <1>6, <1>7, <2>1 DEF At
<1>10. \A t \in {"main", "mqtt"} : ~At(pay', t, "join") /\ ~At(pay, t, "join")
  <2>1. At(pay', "main", "join") => w = <<"join", "close", "gone">>
    BY <1>5, <1>7, MainStages DEF Typed, Placed
  <2>2. w # <<"join", "close", "gone">>
    BY DEF w
  <2>3. pay.todo["main"] = <<>>
    BY <1>6, ThreadSorts
  <2> QED BY <1>8, <2>1, <2>2, <2>3 DEF At
<1>11. LockIsHeld' /\ JoinIsOn'
  BY <1>5, <1>9, <1>10, LockKept, JoinKept DEF PayloadInv, Still
<1>12. <<>> \notin LoopWalks \cup ReadingWalks \cup ReconcilingWalks /\ <<>> # RootWalk
  BY DEF LoopWalks, ReadingWalks, ReconcilingWalks, RootWalk
<1>13. LoopIsKnown' /\ PermitIsDue' /\ MissionIsWhole'
  <2>1. LoopIsKnown'
    BY <1>1, <1>5, <1>8, <1>12, LoopKept DEF PayloadInv, Still
  <2>2. PermitIsDue'
    BY <1>5, <1>8, PermitKept DEF PayloadInv, Still, SameMission, SameSeries, Active
  <2>3. MissionIsWhole'
    BY <1>1, <1>5, <1>8, MissionKept DEF PayloadInv, Still, SameMission, Charged
  <2> QED BY <2>1, <2>2, <2>3
<1>14. FrameIsWhole'
  BY <1>8, <1>12 DEF FrameIsWhole, FramesAreWhole, ReadingWalks
<1>15. TimerIsSet'
  BY <1>5, TimerKept DEF PayloadInv, Still, Lens
<1>16. DownIsBlank'
  BY <1>2, <1>7, UpKept DEF w
<1> QED BY <1>1, <1>5, <1>11, <1>13, <1>14, <1>15, <1>16 DEF PayloadInv, Bounded

\* The state of a process that is down satisfies the invariant.
Blank == Bounded /\ \E said \in BOOLEAN : pay = Stopped(said)
LEMMA StoppedIsInv == Blank => PayloadInv
<1> SUFFICES ASSUME Bounded, NEW said \in BOOLEAN, pay = Stopped(said)
             PROVE  PayloadInv
  BY DEF Blank
<1>1. Idle \in Series
  <2>1. 0 \in 0 .. MaxFailures /\ FALSE \in BOOLEAN
    BY ThreadSorts
  <2> QED BY <2>1, NoMissionType DEF Idle, Series
<1>2. /\ <<>> \in Walks /\ <<>> \in MainWalks /\ <<>> \in MqttWalks
      /\ <<>> \in RunWalks
  BY DEF Walks, MainWalks, MqttWalks, RunWalks
<1>3. FALSE \in BOOLEAN
  OBVIOUS
<1>4. Stopped(said) \in PayState
  BY <1>1, <1>2, <1>3, NoMissionType DEF Stopped, PayState, Presence
<1>5. \A t \in Threads : pay.todo[t] = <<>>
  BY DEF Stopped
<1>6. Typed
  BY <1>2, <1>4, <1>5, ThreadSorts DEF Typed, Placed
<1>7. DownIsBlank
  BY DEF DownIsBlank, Stopped
<1>8. LockIsHeld
  <2>1. \A t \in Threads : t # None
    BY CameraAssumption DEF Threads
  <2> QED BY <1>5, <2>1 DEF LockIsHeld, At, Stopped
<1>9. JoinIsOn
  BY <1>5, ThreadSorts DEF JoinIsOn, At, Stopped
<1>10. <<>> \notin LoopWalks \cup ReadingWalks /\ <<>> # <<"where", "top">>
  BY DEF LoopWalks, ReadingWalks
<1>11. LoopIsKnown /\ FrameIsWhole
  BY <1>5, <1>10, ThreadSorts DEF LoopIsKnown, FrameIsWhole, FramesAreWhole, ReadingWalks
<1>12. PermitIsDue
  BY DEF PermitIsDue, Active, Stopped
<1>13. MissionIsWhole
  <2>1. pay.todo["mqtt"] = <<>>
    BY <1>5, ThreadSorts
  <2>2. pay.id = None /\ pay.root = None /\ pay.coming = None
    BY DEF Stopped
  <2> QED BY <2>1, <2>2 DEF MissionIsWhole, PairIsWhole
<1>14. TimerIsSet
  BY DEF TimerIsSet, Stopped
<1> QED BY <1>6, <1>7, <1>8, <1>9, <1>11, <1>12, <1>13, <1>14 DEF PayloadInv

\* The end of the process leaves nothing but the retained status.
LEMMA DiesKeeps ==
  ASSUME PayloadInv, PayloadDies
  PROVE  PayloadInv'
<1>1. (pay.todo["main"] # <<"gone">>) \in BOOLEAN
  OBVIOUS
<1>2. Charged
  BY <1>1, SpendEffect, CostType DEF PayloadDies, PayloadInv, Kinds
<1>3. Bounded'
  BY <1>2 DEF PayloadInv, Bounded, Charged
<1>4. pay.said \in BOOLEAN /\ pay' = Stopped(pay.said)
  BY DEF PayloadDies, PayloadInv, Typed, PayState
<1>5. Blank'
  BY <1>3, <1>4 DEF Blank
<1> QED BY <1>5, StoppedIsInv, PTL

(***************************************************************************)
(* The broker's thread.                                                    *)
(***************************************************************************)

\* What a stage of the broker's thread keeps, unless it exposes, joins, or
\* touches the series.
LEMMA BrokerKeeps ==
  ASSUME PayloadInv, Up, pay' \in PayState, NEW w \in MqttWalks,
         Walked(pay, pay', "mqtt", w), SameSeries(pay, pay'),
         SameLens(pay, pay'), pay'.holder = pay.holder, Charged \/ CloseIsLost,
         \A v \in {w, pay.todo["mqtt"]} :
           v \notin { <<"exposed">>, <<"join", "publish">>,
                      <<"join", "publish", "publish">> }
  PROVE  /\ Typed' /\ Bounded' /\ DownIsBlank' /\ LockIsHeld' /\ JoinIsOn'
         /\ LoopIsKnown' /\ TimerIsSet'
         /\ pay'.todo["mqtt"] = w
         /\ \A t \in Threads \ {"mqtt"} : pay'.todo[t] = pay.todo[t]
<1>1. Placed(pay) /\ pay \in PayState
  BY DEF PayloadInv, Typed
<1>2. /\ Placed(pay') /\ pay'.todo["mqtt"] = w
      /\ \A t \in Threads \ {"mqtt"} : pay'.todo[t] = pay.todo[t]
  BY <1>1, ThreadSorts, WalkedIsPlaced
<1>3. Typed'
  BY <1>2 DEF Typed, Placed
<1>4. pay'.todo["main"] = pay.todo["main"]
      /\ \A r \in RunIds : pay'.todo[r] = pay.todo[r]
  BY <1>2, ThreadSorts
<1>5. \A t \in Threads : At(pay', t, "exposed") <=> At(pay, t, "exposed")
  <2>1. ~At(pay', "mqtt", "exposed") /\ ~At(pay, "mqtt", "exposed")
    BY <1>1, <1>2, MqttStages DEF Placed
  <2> QED BY <1>2, <2>1 DEF At
<1>6. \A t \in {"main", "mqtt"} : At(pay', t, "join") <=> At(pay, t, "join")
  <2>1. ~At(pay', "mqtt", "join") /\ ~At(pay, "mqtt", "join")
    BY <1>1, <1>2, MqttStages DEF Placed
  <2> QED BY <1>4, <2>1 DEF At
<1>7. LockIsHeld' /\ JoinIsOn'
  BY <1>5, <1>6, LockKept, JoinKept DEF PayloadInv
<1>8. LoopIsKnown'
  BY <1>4, LoopKept DEF PayloadInv, Charged, CloseIsLost
<1>9. TimerIsSet'
  BY TimerKept DEF PayloadInv, Lens
<1>10. DownIsBlank'
  BY <1>4, UpKept DEF Up
<1>11. Bounded'
  <2>1. CASE Charged
    BY <2>1 DEF PayloadInv, Bounded, Charged
  <2>2. CASE CloseIsLost
    <3>1. /\ left.lost <= Limits.lost /\ left.lost \in Nat /\ Limits.lost \in Nat
          /\ left'.lost \in Nat
      BY <2>2, PayloadAssumption DEF PayloadInv, Bounded, CloseIsLost, Kinds
    <3>2. left'.lost <= Limits.lost
      BY <2>2, <3>1 DEF CloseIsLost
    <3> QED BY <2>2, <3>2 DEF PayloadInv, Bounded, CloseIsLost
  <2> QED BY <2>1, <2>2
<1> QED BY <1>2, <1>3, <1>7, <1>8, <1>9, <1>10, <1>11

\* A word from OBC: whatever it takes away, a reconciliation is on its way.
LEMMA ObcSaysKeeps ==
  ASSUME PayloadInv, ObcSays
  PROVE  PayloadInv'
<1>1. Up /\ pay.todo["mqtt"] = <<>> /\ pay \in PayState /\ Placed(pay)
  BY DEF ObcSays, MqttFree, PayloadInv, Typed
<1>2. PICK state \in States :
        pay' = [Handle(StateStages(state)) EXCEPT !.state = state]
  BY DEF ObcSays
<1> DEFINE w == StateStages(state)
<1>3. w \in {<<"reconcile">>, <<"reconcile", "publish">>}
  <2> DEFINE stages == IF state = "DEPLOY" THEN Evidence(pay) ELSE <<>>
  <2>1. stages = <<>> \/ stages = <<"publish">>
    BY DEF Evidence
  <2>2. w = <<"reconcile">> \o stages
    BY DEF StateStages
  <2> HIDE DEF stages, w
  <2> QED BY ZenonT(60), <2>1, <2>2, Literals
<1>4. w \in MqttWalks /\ w \in ReconcilingWalks /\ w # RootWalk
  BY <1>3 DEF MqttWalks, ReconcilingWalks, RootWalk
<1>5. Charged
  BY SpendEffect DEF ObcSays, PayloadInv, Kinds
<1> DEFINE q == [pay EXCEPT !.todo["mqtt"] = w]
<1>6. q \in PayState /\ Walked(pay, q, "mqtt", w) /\ Still(pay, q)
  BY <1>1, <1>4, WalkEffect, ThreadSorts DEF MayWalk
<1>7. pay' = [q EXCEPT !.state = state]
  BY <1>2 DEF Handle
<1> HIDE DEF q, w
<1>8. /\ pay' \in PayState /\ pay'.todo = q.todo /\ pay'.id = q.id
      /\ pay'.root = q.root /\ pay'.coming = q.coming
      /\ SameSeries(q, pay') /\ SameLens(q, pay') /\ pay'.holder = q.holder
  BY <1>6, <1>7 DEF PayState, SameSeries, SameLens
<1>9. /\ Walked(pay, pay', "mqtt", w)
      /\ pay'.id = pay.id /\ pay'.root = pay.root /\ pay'.coming = pay.coming
      /\ SameSeries(pay, pay') /\ SameLens(pay, pay') /\ pay'.holder = pay.holder
  BY <1>6, <1>8 DEF Walked, Still, SameMission, SameSeries, SameLens
<1>10. \A v \in {w, pay.todo["mqtt"]} :
           v \notin { <<"exposed">>, <<"join", "publish">>,
                      <<"join", "publish", "publish">> }
  BY <1>1, <1>3
<1>11. /\ Typed' /\ Bounded' /\ DownIsBlank' /\ LockIsHeld' /\ JoinIsOn'
       /\ LoopIsKnown' /\ TimerIsSet' /\ pay'.todo["mqtt"] = w
       /\ \A t \in Threads \ {"mqtt"} : pay'.todo[t] = pay.todo[t]
  BY <1>1, <1>4, <1>5, <1>8, <1>9, <1>10, BrokerKeeps
<1>12. PermitIsDue'
  BY <1>4, <1>11 DEF PermitIsDue
<1>13. MissionIsWhole'
  BY <1>1, <1>4, <1>5, <1>9, <1>11, MissionKept DEF PayloadInv, RootWalk, Charged
<1>14. FrameIsWhole'
  <2>1. pay.todo["mqtt"] # RootWalk
    BY <1>1 DEF RootWalk
  <2>2. pay'.todo["main"] = pay.todo["main"]
        /\ \A r \in RunIds : pay'.todo[r] = pay.todo[r]
    BY <1>11, ThreadSorts
  <2> QED BY <1>5, <1>9, <2>1, <2>2, FrameKept DEF PayloadInv, SameSeries, Charged
<1> QED BY <1>11, <1>12, <1>13, <1>14 DEF PayloadInv

\* While the service serves and the broker's thread is at rest, a frame whose
\* context is being read belongs to the series of the mission that is open.
LEMMA ReadingIsPermitted ==
  ASSUME PayloadInv, pay.todo["mqtt"] = <<>>, pay.todo["main"] \in ServingWalks,
         NEW r \in RunIds, pay.todo[r] = <<"where", "top">>
  PROVE  pay.id # None
<1>1. ~At(pay, "main", "join") /\ ~At(pay, "mqtt", "join")
  <2>1. pay.todo["main"] # <<"join", "close", "gone">>
    BY DEF ServingWalks
  <2> QED BY <2>1, MainStages DEF At, PayloadInv, Typed, Placed
<1>2. r \notin {pay.joins["main"], pay.joins["mqtt"]}
  BY <1>1, ThreadSorts DEF PayloadInv, JoinIsOn
<1>3. pay.todo[r] \in LoopWalks
  BY DEF LoopWalks
<1>4. pay.run = r /\ ~pay.threads[r].stop
  BY <1>2, <1>3 DEF PayloadInv, LoopIsKnown
<1>5. Active(pay)
  BY <1>4, ThreadSorts DEF Active
<1>6. pay.todo["mqtt"] \notin ReconcilingWalks
  BY DEF ReconcilingWalks
<1>7. MissionPermits(pay)
  BY <1>5, <1>6 DEF PayloadInv, PermitIsDue
<1> QED BY <1>7 DEF MissionPermits

\* A pair is its two parts, and neither is missing.
LEMMA PairParts ==
  \A id, root : [id |-> id, root |-> root] \in Pairs => id # None /\ root # None
BY PayloadAssumption

\* A word from DHS: the id at once, the root in a stage of its own.
LEMMA DhsSaysKeeps ==
  ASSUME PayloadInv, DhsSays
  PROVE  PayloadInv'
<1>1. Up /\ pay.todo["mqtt"] = <<>> /\ pay \in PayState /\ Placed(pay)
  BY DEF DhsSays, MqttFree, PayloadInv, Typed
<1>2. PICK pair \in Pairs \cup {NoMission} :
        /\ pair # [id |-> pay.id, root |-> pay.root]
        /\ pay' = [Handle(RootWalk) EXCEPT !.id = pair.id, !.coming = pair.root]
        /\ left.says >= 1 /\ left.lost >= Cost(CloseWasLost(pair))
        /\ left' = [left EXCEPT !.says = @ - 1,
                               !.lost = @ - Cost(CloseWasLost(pair))]
  BY DEF DhsSays, RootWalk
<1>3. /\ pair.id \in MissionIds /\ pair.root \in Roots
      /\ pair = [id |-> pair.id, root |-> pair.root]
      /\ \/ pair \in Pairs
         \/ pair.id = None /\ pair.root = None
  <2>1. CASE pair \in Pairs
    BY <2>1, NoMissionType, PayloadAssumption
  <2>2. CASE pair = NoMission
    BY <2>2, NoMissionType DEF NoMission
  <2> QED BY <2>1, <2>2
<1>4. /\ RootWalk \in MqttWalks /\ RootWalk \in ReconcilingWalks
      /\ RootWalk # <<>>
  BY DEF MqttWalks, ReconcilingWalks, RootWalk
<1>5. IF CloseWasLost(pair) THEN CloseIsLost ELSE Charged
  <2>1. left \in [Kinds -> Nat] /\ {"says", "lost", "timeouts"} \subseteq Kinds
    BY DEF PayloadInv, Bounded, Kinds
  <2> DEFINE missed == Cost(CloseWasLost(pair))
  <2>2. missed = IF CloseWasLost(pair) THEN 1 ELSE 0
    BY DEF Cost
  <2>3. left.says - 1 \in Nat /\ left.lost - missed \in Nat
    BY <1>2, <2>1, <2>2
  <2>4. left' = [left EXCEPT !["says"] = left.says - 1, !["lost"] = left.lost - missed]
    BY <1>2, <2>1
  <2> HIDE DEF missed
  <2>5. /\ left' \in [Kinds -> Nat] /\ left'["timeouts"] = left["timeouts"]
        /\ left'["lost"] = left["lost"] - missed
    BY <2>1, <2>3, <2>4
  <2>6. left["lost"] \in Nat
    BY <2>1
  <2> QED BY <2>2, <2>5, <2>6 DEF CloseIsLost, Charged
<1> DEFINE q == [pay EXCEPT !.todo["mqtt"] = RootWalk]
<1>6. q \in PayState /\ Walked(pay, q, "mqtt", RootWalk) /\ Still(pay, q)
  BY <1>1, <1>4, WalkEffect, ThreadSorts DEF MayWalk
<1>7. pay' = [q EXCEPT !.id = pair.id, !.coming = pair.root]
  BY <1>2 DEF Handle
<1> HIDE DEF q
<1>8. /\ pay' \in PayState /\ pay'.todo = q.todo /\ pay'.id = pair.id
      /\ pay'.root = q.root /\ pay'.coming = pair.root
      /\ SameSeries(q, pay') /\ SameLens(q, pay') /\ pay'.holder = q.holder
  BY <1>3, <1>6, <1>7 DEF PayState, SameSeries, SameLens
<1>9. /\ Walked(pay, pay', "mqtt", RootWalk)
      /\ pay'.id = pair.id /\ pay'.root = pay.root /\ pay'.coming = pair.root
      /\ SameSeries(pay, pay') /\ SameLens(pay, pay') /\ pay'.holder = pay.holder
  BY <1>6, <1>8 DEF Walked, Still, SameMission, SameSeries, SameLens
<1>10. \A v \in {RootWalk, pay.todo["mqtt"]} :
           v \notin { <<"exposed">>, <<"join", "publish">>,
                      <<"join", "publish", "publish">> }
  BY <1>1 DEF RootWalk
<1>11. /\ Typed' /\ Bounded' /\ DownIsBlank' /\ LockIsHeld' /\ JoinIsOn'
       /\ LoopIsKnown' /\ TimerIsSet' /\ pay'.todo["mqtt"] = RootWalk
       /\ \A t \in Threads \ {"mqtt"} : pay'.todo[t] = pay.todo[t]
  BY <1>1, <1>4, <1>5, <1>8, <1>9, <1>10, BrokerKeeps
<1>12. PermitIsDue'
  BY <1>4, <1>11 DEF PermitIsDue
<1>13. pay.todo["mqtt"] # RootWalk
  BY <1>1 DEF RootWalk
<1>14. ASSUME ClosesAreHeard'
       PROVE  /\ ClosesAreHeard
              /\ \/ pay.id = None /\ pay.root = None /\ pair \in Pairs
                 \/ /\ pair.id = None /\ pair.root = None
                    /\ [id |-> pay.id, root |-> pay.root] \in Pairs
  <2>1. ~CloseIsLost
    <3>1. left.lost <= Limits.lost /\ left.lost \in Nat /\ Limits.lost \in Nat
      BY PayloadAssumption DEF PayloadInv, Bounded, Kinds
    <3> QED BY <1>14, <3>1 DEF ClosesAreHeard, CloseIsLost
  <2>2. Charged /\ ~CloseWasLost(pair)
    BY <1>5, <2>1
  <2>3. ClosesAreHeard
    BY <1>14, <2>2 DEF ClosesAreHeard, Charged
  <2>4. \/ [id |-> pay.id, root |-> pay.root] \in Pairs
        \/ pay.id = None /\ pay.root = None
    BY <1>13, <2>3 DEF PayloadInv, MissionIsWhole, PairIsWhole, RootWalk
  <2>5. pay.id = None \/ pair.id = None
    BY <2>2 DEF CloseWasLost
  <2>6. pair \in Pairs => pair.id # None
    BY PayloadAssumption
  <2>7. CASE pay.id = None
    <3>1. pay.root = None
      BY <2>4, <2>7, PairParts
    <3>2. ~(pair.id = None /\ pair.root = None)
      BY <1>2, <1>3, <2>7, <3>1
    <3> QED BY <1>3, <2>3, <2>7, <3>1, <3>2
  <2>8. CASE pay.id # None
    BY <1>3, <2>3, <2>4, <2>5, <2>6, <2>8
  <2> QED BY <2>7, <2>8
<1>15. MissionIsWhole'
  <2>1. ASSUME ClosesAreHeard'
        PROVE  \/ pay'.id = None /\ pay'.coming = None
               \/ [id |-> pay'.id, root |-> pay'.coming] \in Pairs /\ pay'.root = None
    BY <1>3, <1>9, <1>14, <2>1
  <2> QED BY <1>11, <2>1 DEF MissionIsWhole, PairIsWhole, RootWalk
<1>16. FrameIsWhole'
  <2> SUFFICES ASSUME ClosesAreHeard', pay'.todo["main"] \in ServingWalks,
                      NEW r \in RunIds
               PROVE  LET frame == pay'.threads[r]
                      IN  /\ pay'.todo[r] = <<"where", "top">> /\ frame.id # None =>
                               \/ pay'.id = frame.id
                               \/ /\ pay'.id = None
                                  /\ pay'.todo["mqtt"] = RootWalk
                                  /\ [id |-> frame.id, root |-> pay'.root] \in Pairs
                               \/ pay'.id = None /\ pay'.root = None
                          /\ pay'.todo[r] \in {<<"expose", "top">>, <<"exposed", "top">>}
                             /\ frame.id # None /\ frame.root # None
                               => [id |-> frame.id, root |-> frame.root] \in Pairs
    BY DEF FrameIsWhole, FramesAreWhole, RootWalk
  <2>0. ClosesAreHeard
    BY <1>14
  <2>1. /\ pay.todo["main"] \in ServingWalks /\ pay'.todo[r] = pay.todo[r]
        /\ pay'.threads[r] = pay.threads[r]
    BY <1>9, <1>11, ThreadSorts DEF SameSeries
  <2>2. ASSUME pay.todo[r] = <<"where", "top">>, pay.threads[r].id # None
        PROVE  /\ pay'.id = None
               /\ [id |-> pay.threads[r].id, root |-> pay.root] \in Pairs
    <3>1. pay.id # None
      BY <1>1, <2>1, <2>2, ReadingIsPermitted
    <3>2. pay.threads[r].id = pay.id
      BY <2>0, <2>1, <2>2, <3>1 DEF PayloadInv, FrameIsWhole, FramesAreWhole
    <3>3. [id |-> pay.id, root |-> pay.root] \in Pairs /\ pair.id = None
      BY <1>14, <3>1
    <3> QED BY <1>9, <3>1, <3>2, <3>3
  <2>3. pay.todo[r] \in {<<"expose", "top">>, <<"exposed", "top">>}
           /\ pay.threads[r].id # None /\ pay.threads[r].root # None
           => [id |-> pay.threads[r].id, root |-> pay.threads[r].root] \in Pairs
    BY <2>0, <2>1 DEF PayloadInv, FrameIsWhole, FramesAreWhole
  <2> QED BY <1>9, <1>11, <2>1, <2>2, <2>3
<1> QED BY <1>11, <1>12, <1>15, <1>16 DEF PayloadInv

\* The root that goes with the id, or none when there is none.
LEMMA TakeRootKeeps ==
  ASSUME PayloadInv, TakeRoot
  PROVE  PayloadInv'
<1> DEFINE w == <<"reconcile", "publish">>
<1>1. pay \in PayState /\ Placed(pay)
  BY DEF PayloadInv, Typed
<1>2. pay.todo["mqtt"] = RootWalk
  BY <1>1, MqttStages DEF TakeRoot, Placed, RootWalk
<1>3. Up
  <2>1. \A t \in Threads : pay = Stopped(pay.said) => pay.todo[t] = <<>>
    BY DEF Stopped
  <2> QED BY <1>2, <2>1, ThreadSorts DEF Up, PayloadInv, DownIsBlank, RootWalk
<1>4. w = <<>> \o Tail(pay.todo["mqtt"])
  BY <1>2, Literals DEF RootWalk
<1>5. w \in MqttWalks /\ w \in ReconcilingWalks /\ w # RootWalk
  BY DEF MqttWalks, ReconcilingWalks, RootWalk
<1> DEFINE q == Then(pay, "mqtt", <<>>)
<1>6. pay' = [q EXCEPT !.root = pay.coming, !.coming = None]
  BY DEF TakeRoot
<1>7. q \in PayState /\ Walked(pay, q, "mqtt", w) /\ Still(pay, q)
  BY <1>1, <1>4, <1>5, ThenEffect, ThreadSorts DEF MayWalk
<1>8. \A v \in {w, pay.todo["mqtt"]} :
           v \notin { <<"exposed">>, <<"join", "publish">>,
                      <<"join", "publish", "publish">> }
  BY <1>2 DEF RootWalk
<1> HIDE DEF q, w
<1>9. pay.coming \in Roots /\ None \in Roots
  BY <1>1, NoMissionType DEF PayState
<1>10. /\ pay' \in PayState /\ pay'.todo = q.todo /\ pay'.id = q.id
       /\ pay'.state = q.state /\ pay'.root = pay.coming /\ pay'.coming = None
       /\ SameSeries(q, pay') /\ SameLens(q, pay') /\ pay'.holder = q.holder
  BY <1>6, <1>7, <1>9 DEF PayState, SameSeries, SameLens
<1>11. /\ Walked(pay, pay', "mqtt", w) /\ pay'.state = pay.state
       /\ pay'.id = pay.id /\ pay'.root = pay.coming /\ pay'.coming = None
       /\ SameSeries(pay, pay') /\ SameLens(pay, pay') /\ pay'.holder = pay.holder
  BY <1>7, <1>10 DEF Walked, Still, SameMission, SameSeries, SameLens
<1>12. Charged
  BY FreeOfCharge DEF TakeRoot, PayloadInv
<1>13. /\ Typed' /\ Bounded' /\ DownIsBlank' /\ LockIsHeld' /\ JoinIsOn'
       /\ LoopIsKnown' /\ TimerIsSet' /\ pay'.todo["mqtt"] = w
       /\ \A t \in Threads \ {"mqtt"} : pay'.todo[t] = pay.todo[t]
  BY <1>3, <1>5, <1>8, <1>10, <1>11, <1>12, BrokerKeeps
<1>14. PermitIsDue'
  BY <1>5, <1>13 DEF PermitIsDue
<1>15. ClosesAreHeard =>
         \/ pay.id = None /\ pay.coming = None
         \/ [id |-> pay.id, root |-> pay.coming] \in Pairs /\ pay.root = None
  BY <1>2 DEF PayloadInv, MissionIsWhole, PairIsWhole, RootWalk
<1>18. ClosesAreHeard' => ClosesAreHeard
  BY <1>12 DEF ClosesAreHeard, Charged
<1>16. MissionIsWhole'
  <2>1. ClosesAreHeard => \/ [id |-> pay'.id, root |-> pay'.root] \in Pairs
                          \/ pay'.id = None /\ pay'.root = None
    BY <1>11, <1>15
  <2> QED BY <1>5, <1>11, <1>13, <1>18, <2>1 DEF MissionIsWhole, PairIsWhole, RootWalk
<1>17. FrameIsWhole'
  <2> SUFFICES ASSUME ClosesAreHeard, pay'.todo["main"] \in ServingWalks,
                      NEW r \in RunIds
               PROVE  LET frame == pay'.threads[r]
                      IN  /\ pay'.todo[r] = <<"where", "top">> /\ frame.id # None =>
                               \/ pay'.id = frame.id
                               \/ /\ pay'.id = None
                                  /\ pay'.todo["mqtt"] = RootWalk
                                  /\ [id |-> frame.id, root |-> pay'.root] \in Pairs
                               \/ pay'.id = None /\ pay'.root = None
                          /\ pay'.todo[r] \in {<<"expose", "top">>, <<"exposed", "top">>}
                             /\ frame.id # None /\ frame.root # None
                               => [id |-> frame.id, root |-> frame.root] \in Pairs
    BY <1>18 DEF FrameIsWhole, FramesAreWhole, RootWalk
  <2>1. /\ pay.todo["main"] \in ServingWalks /\ pay'.todo[r] = pay.todo[r]
        /\ pay'.threads[r] = pay.threads[r]
    BY <1>11, <1>13, ThreadSorts DEF SameSeries
  <2>2. pay.todo[r] = <<"where", "top">> /\ pay.threads[r].id # None
          => pay.id = pay.threads[r].id \/ pay.id = None
    BY <2>1 DEF PayloadInv, FrameIsWhole, FramesAreWhole
  <2>3. pay.id = None => pay.coming = None
    BY <1>15, PairParts
  <2>4. pay.todo[r] \in {<<"expose", "top">>, <<"exposed", "top">>}
           /\ pay.threads[r].id # None /\ pay.threads[r].root # None
           => [id |-> pay.threads[r].id, root |-> pay.threads[r].root] \in Pairs
    BY <2>1 DEF PayloadInv, FrameIsWhole, FramesAreWhole
  <2> QED BY <1>11, <2>1, <2>2, <2>3, <2>4
<1> QED BY <1>13, <1>14, <1>16, <1>17 DEF PayloadInv

\* A stop that finds a series: it is told, it is forgotten, it is joined.
LEMMA StopEffect ==
  ASSUME NEW p \in PayState, Placed(p), NEW t \in {"main", "mqtt"}, NEW w,
         w = <<"join">> \o p.todo[t], MayWalk(t, w), p.run # None
  PROVE  LET q == StopMissionPhotos(p, t)
         IN  /\ q \in PayState /\ Placed(q) /\ Walked(p, q, t, w)
             /\ SameMission(p, q) /\ SameLens(p, q) /\ q.holder = p.holder
             /\ q.run = None /\ q.joins = [p.joins EXCEPT ![t] = p.run]
             /\ q.threads[p.run].stop = TRUE
             /\ \A r \in RunIds :
                  /\ q.threads[r].failures = p.threads[r].failures
                  /\ q.threads[r].id = p.threads[r].id
                  /\ q.threads[r].root = p.threads[r].root
                  /\ r # p.run => q.threads[r] = p.threads[r]
<1>1. /\ p.run \in RunIds /\ t \in Threads
      /\ p.threads \in [RunIds -> Series] /\ p.todo \in [Threads -> Walks]
      /\ p.joins \in [{"main", "mqtt"} -> RunIds \cup {None}]
  BY ThreadSorts DEF PayState
<1>2. w \in Walks
  BY DEF MayWalk, Walks
<1> DEFINE told == [p.threads[p.run] EXCEPT !.stop = TRUE]
           f == [p.threads EXCEPT ![p.run] = told]
           g == [p.joins EXCEPT ![t] = p.run]
           h == [p.todo EXCEPT ![t] = w]
           q == [p EXCEPT !.run = None, !.threads = f, !.joins = g, !.todo = h]
<1>3. p.threads[p.run] \in Series
  BY <1>1
<1>4. /\ told \in Series /\ told.stop = TRUE
      /\ told.failures = p.threads[p.run].failures
      /\ told.id = p.threads[p.run].id /\ told.root = p.threads[p.run].root
  <2>1. TRUE \in BOOLEAN
    OBVIOUS
  <2> QED BY <1>3, <2>1 DEF Series
<1>5. StopMissionPhotos(p, t) = q
  <2>1. [p.threads EXCEPT ![p.run].stop = TRUE] = f
    BY <1>1
  <2>2. [p.todo EXCEPT ![t] = <<"join">> \o @] = h
    BY <1>1
  <2>3. StopMissionPhotos(p, t)
          = [p EXCEPT !.run = None, !.threads = [p.threads EXCEPT ![p.run].stop = TRUE],
                      !.joins = [p.joins EXCEPT ![t] = p.run],
                      !.todo = [p.todo EXCEPT ![t] = <<"join">> \o @]]
    BY DEF StopMissionPhotos, PayState
  <2> QED BY <2>1, <2>2, <2>3
<1> HIDE DEF told
<1>6. /\ f \in [RunIds -> Series] /\ f[p.run] = told
      /\ \A r \in RunIds \ {p.run} : f[r] = p.threads[r]
  BY <1>1, <1>4
<1>7. /\ g \in [{"main", "mqtt"} -> RunIds \cup {None}]
      /\ h \in [Threads -> Walks]
  BY <1>1, <1>2
<1> HIDE DEF f, g, h
<1>8. /\ q \in PayState /\ q.run = None /\ q.threads = f /\ q.joins = g
      /\ q.todo = h /\ SameMission(p, q) /\ SameLens(p, q) /\ q.holder = p.holder
  BY <1>6, <1>7 DEF PayState, SameMission, SameLens
<1> HIDE DEF q
<1>9. Walked(p, q, t, w)
  BY <1>8 DEF Walked, h
<1>10. Placed(q)
  BY <1>1, <1>9, WalkedIsPlaced DEF MayWalk
<1>11. \A r \in RunIds :
         /\ q.threads[r].failures = p.threads[r].failures
         /\ q.threads[r].id = p.threads[r].id
         /\ q.threads[r].root = p.threads[r].root
         /\ r # p.run => q.threads[r] = p.threads[r]
  BY <1>4, <1>6, <1>8
<1> QED BY <1>4, <1>5, <1>6, <1>8, <1>9, <1>10, <1>11 DEF g

\* A stop keeps the invariant: the thread it has told is the one it waits for.
LEMMA StopKeeps ==
  ASSUME PayloadInv, Charged, NEW t \in {"main", "mqtt"}, NEW w,
         \/ /\ t = "main" /\ pay.todo["main"] = <<"loop">>
            /\ w = <<"join", "close", "gone">>
         \/ /\ t = "mqtt" /\ pay.todo["mqtt"] \in {<<"reconcile", "publish">>, <<"reconcile">>}
            /\ w \in {<<"join", "publish">>, <<"join", "publish", "publish">>},
         pay' \in PayState, Placed(pay'), Walked(pay, pay', t, w), Up,
         SameMission(pay, pay'), SameLens(pay, pay'), pay'.holder = pay.holder,
         pay.run # None, pay'.run = None,
         pay'.joins = [pay.joins EXCEPT ![t] = pay.run],
         pay'.threads[pay.run].stop = TRUE,
         \A r \in RunIds :
           /\ pay'.threads[r].failures = pay.threads[r].failures
           /\ pay'.threads[r].id = pay.threads[r].id
           /\ pay'.threads[r].root = pay.threads[r].root
           /\ r # pay.run => pay'.threads[r] = pay.threads[r]
  PROVE  PayloadInv'
<1>1. /\ pay.todo \in [Threads -> Walks] /\ Placed(pay) /\ t \in Threads
      /\ pay.joins \in [{"main", "mqtt"} -> RunIds \cup {None}] /\ pay.run \in RunIds
  BY ThreadSorts DEF PayloadInv, Typed, PayState
<1>2. /\ pay'.todo[t] = w
      /\ \A u \in Threads \ {t} : pay'.todo[u] = pay.todo[u]
      /\ pay'.joins[t] = pay.run
      /\ \A u \in {"main", "mqtt"} \ {t} : pay'.joins[u] = pay.joins[u]
  BY <1>1 DEF Walked
<1>3. ~At(pay, t, "join") /\ At(pay', t, "join")
  <2>1. CASE t = "main"
    <3>1. <<"loop">> # <<"join", "close", "gone">>
      OBVIOUS
    <3> QED BY <1>1, <1>2, <2>1, <3>1, MainStages DEF Placed
  <2>2. CASE t = "mqtt"
    <3>1. /\ <<"reconcile">> \notin {<<"join", "publish">>, <<"join", "publish", "publish">>}
          /\ <<"reconcile", "publish">>
               \notin {<<"join", "publish">>, <<"join", "publish", "publish">>}
      OBVIOUS
    <3> QED BY <1>1, <1>2, <2>2, <3>1, MqttStages DEF Placed
  <2> QED BY <2>1, <2>2
<1>4. pay.joins[t] = None
  BY <1>3 DEF PayloadInv, JoinIsOn
<1>5. ~At(pay, t, "exposed") /\ ~At(pay', t, "exposed")
  <2>1. CASE t = "main"
    BY <1>1, <2>1, MainStages DEF Placed
  <2>2. CASE t = "mqtt"
    BY <1>1, <1>2, <2>2, MqttStages DEF Placed
  <2> QED BY <2>1, <2>2
<1>6. Typed'
  BY DEF Typed, Placed
<1>7. LockIsHeld'
  <2>1. \A u \in Threads : At(pay', u, "exposed") <=> At(pay, u, "exposed")
    BY <1>2, <1>5 DEF At
  <2> QED BY <2>1, LockKept DEF PayloadInv
<1>8. JoinIsOn'
  <2>1. \A u \in {"main", "mqtt"} :
          (pay'.joins[u] # None) <=> At(pay', u, "join")
    <3>1. \A u \in {"main", "mqtt"} \ {t} :
            (pay.joins[u] # None) <=> At(pay, u, "join")
      BY DEF PayloadInv, JoinIsOn
    <3>2. \A u \in {"main", "mqtt"} \ {t} : At(pay', u, "join") <=> At(pay, u, "join")
      BY <1>2, ThreadSorts DEF At
    <3> QED BY <1>2, <1>3, <3>1, <3>2
  <2> QED BY <2>1 DEF JoinIsOn, At
<1>9. \A r \in RunIds : pay'.todo[r] = pay.todo[r]
  BY <1>2, ThreadSorts
<1>10. LoopIsKnown'
  <2> SUFFICES ASSUME NEW r \in RunIds
               PROVE  LET walk == pay'.todo[r]
                      IN  /\ walk \in LoopWalks => pay'.threads[r].failures < MaxFailures
                          /\ pay'.run = r /\ pay'.threads[r].stop => walk \notin LoopWalks
                          /\ walk \in LoopWalks /\ pay'.run # r =>
                               /\ pay'.threads[r].stop
                               /\ \/ r \in {pay'.joins["main"], pay'.joins["mqtt"]}
                                  \/ left'.timeouts < Limits.timeouts
                          /\ walk = <<"where", "top">> /\ pay'.run # r =>
                               r \in {pay'.joins["main"], pay'.joins["mqtt"]}
    BY DEF LoopIsKnown
  <2>1. pay'.run # r
    BY ThreadSorts
  <2>2. pay.todo[r] \in LoopWalks => pay.threads[r].failures < MaxFailures
    BY DEF PayloadInv, LoopIsKnown
  <2>3. CASE r = pay.run
    BY <1>2, <1>9, <2>1, <2>2, <2>3
  <2>4. CASE r # pay.run
    <3>1. pay.todo[r] \in LoopWalks =>
            /\ pay.threads[r].stop
            /\ \/ r \in {pay.joins["main"], pay.joins["mqtt"]}
               \/ left.timeouts < Limits.timeouts
      BY <2>4 DEF PayloadInv, LoopIsKnown
    <3>2. pay.todo[r] = <<"where", "top">> =>
            r \in {pay.joins["main"], pay.joins["mqtt"]}
      BY <2>4 DEF PayloadInv, LoopIsKnown
    <3>3. r \in {pay.joins["main"], pay.joins["mqtt"]}
            => r \in {pay'.joins["main"], pay'.joins["mqtt"]}
      BY <1>2, <1>4, ThreadSorts
    <3>4. pay'.threads[r] = pay.threads[r] /\ left'.timeouts = left.timeouts
      BY <2>4 DEF Charged
    <3> QED BY <1>9, <2>1, <2>2, <3>1, <3>2, <3>3, <3>4
  <2> QED BY <2>3, <2>4
<1>11. PermitIsDue'
  BY DEF PermitIsDue, Active
<1>12. (pay'.todo["mqtt"] = RootWalk) <=> (pay.todo["mqtt"] = RootWalk)
  BY <1>2, ThreadSorts DEF RootWalk
<1>13. pay'.todo["main"] \in ServingWalks => pay.todo["main"] \in ServingWalks
  BY <1>2, ThreadSorts DEF ServingWalks
<1>14. MissionIsWhole'
  BY <1>12, MissionKept DEF PayloadInv, SameMission, Charged
<1>15. FrameIsWhole'
  BY <1>9, <1>12, <1>13, FrameKept DEF PayloadInv, SameMission, Charged
<1>16. TimerIsSet'
  BY TimerKept DEF PayloadInv, Lens
<1>17. DownIsBlank'
  <2>1. w # <<>>
    OBVIOUS
  <2> QED BY <1>2, <2>1, ThreadSorts, UpKept DEF Up
<1>18. Bounded'
  BY DEF PayloadInv, Bounded, Charged
<1> QED BY <1>6, <1>7, <1>8, <1>10, <1>11, <1>14, <1>15, <1>16, <1>17, <1>18
        DEF PayloadInv

\* A stop of the service that finds a series.
LEMMA StopsKeeps ==
  ASSUME PayloadInv, PayloadStops, pay.run # None
  PROVE  PayloadInv'
<1> DEFINE v == <<"close", "gone">>  w == <<"join", "close", "gone">>
           n == [pay EXCEPT !.todo["main"] = v]
<1>1. pay \in PayState /\ Placed(pay) /\ pay.todo \in [Threads -> Walks]
  BY DEF PayloadInv, Typed, PayState
<1>2. pay.todo["main"] = <<"loop">> /\ Up
  <2>1. pay.todo["main"] = <<"loop">>
    BY <1>1, MainStages DEF PayloadStops, Placed
  <2> QED BY <2>1 DEF Up
<1>3. Charged
  BY SpendEffect DEF PayloadStops, PayloadInv, Kinds
<1>4. v \in MainWalks /\ w \in MainWalks
  BY DEF MainWalks, LeavingWalks
<1>5. n \in PayState /\ Placed(n) /\ Walked(pay, n, "main", v) /\ Still(pay, n)
  BY <1>1, <1>4, WalkEffect, ThreadSorts DEF MayWalk
<1>6. pay' = StopMissionPhotos(n, "main")
  BY DEF PayloadStops
<1> HIDE DEF n
<1>7. n.todo["main"] = v
  BY <1>1, <1>5, ThreadSorts DEF Walked
<1>8. w = <<"join">> \o n.todo["main"]
  BY <1>7, Literals
<1>9. /\ n.run = pay.run /\ n.threads = pay.threads /\ n.joins = pay.joins
      /\ SameMission(pay, n) /\ SameLens(pay, n) /\ n.holder = pay.holder
  BY <1>5 DEF Still, SameSeries
<1> HIDE DEF v, w
<1>10. /\ pay' \in PayState /\ Placed(pay') /\ Walked(n, pay', "main", w)
       /\ SameMission(n, pay') /\ SameLens(n, pay') /\ pay'.holder = n.holder
       /\ pay'.run = None /\ pay'.joins = [n.joins EXCEPT !["main"] = n.run]
       /\ pay'.threads[n.run].stop = TRUE
       /\ \A r \in RunIds :
            /\ pay'.threads[r].failures = n.threads[r].failures
            /\ pay'.threads[r].id = n.threads[r].id
            /\ pay'.threads[r].root = n.threads[r].root
            /\ r # n.run => pay'.threads[r] = n.threads[r]
  BY <1>4, <1>5, <1>6, <1>8, <1>9, StopEffect DEF MayWalk
<1>11. /\ Walked(pay, pay', "main", w) /\ SameMission(pay, pay')
       /\ SameLens(pay, pay') /\ pay'.holder = pay.holder
  <2>1. Walked(pay, pay', "main", w)
    BY <1>1, <1>5, <1>10 DEF Walked
  <2> QED BY <1>9, <1>10, <2>1 DEF SameMission, SameLens
<1>12. /\ pay'.run = None /\ pay'.joins = [pay.joins EXCEPT !["main"] = pay.run]
       /\ pay'.threads[pay.run].stop = TRUE
       /\ \A r \in RunIds :
            /\ pay'.threads[r].failures = pay.threads[r].failures
            /\ pay'.threads[r].id = pay.threads[r].id
            /\ pay'.threads[r].root = pay.threads[r].root
            /\ r # pay.run => pay'.threads[r] = pay.threads[r]
  BY <1>9, <1>10
<1>13. w = <<"join", "close", "gone">> /\ "main" \in {"main", "mqtt"}
  BY DEF w
<1>14. pay' \in PayState /\ Placed(pay')
  BY <1>10
<1> QED BY <1>2, <1>3, <1>11, <1>12, <1>13, <1>14, StopKeeps

\* A thread that is at a stage is a thread of a process that is up.
LEMMA BusyIsUp ==
  ASSUME PayloadInv, NEW t \in Threads, NEW stage, At(pay, t, stage)
  PROVE  Up
<1>1. pay = Stopped(pay.said) => pay.todo[t] = <<>>
  BY DEF Stopped
<1> QED BY <1>1 DEF Up, At, PayloadInv, DownIsBlank

\* A series is started on a thread that nobody knows.
LEMMA StartEffect ==
  ASSUME NEW p \in PayState, Placed(p), Free(p) # {}
  PROVE  LET q == StartMissionPhotos(p)
         IN  \E r \in Free(p) :
               /\ q \in PayState /\ Placed(q) /\ Walked(p, q, r, <<"top">>)
               /\ SameMission(p, q) /\ SameLens(p, q) /\ q.holder = p.holder
               /\ q.run = r /\ q.joins = p.joins
               /\ q.threads = [p.threads EXCEPT ![r] = Idle]
<1> DEFINE r == CHOOSE r \in Free(p) : TRUE
           f == [p.threads EXCEPT ![r] = Idle]
           h == [p.todo EXCEPT ![r] = <<"top">>]
           q == [p EXCEPT !.run = r, !.threads = f, !.todo = h]
<1>1. r \in Free(p) /\ r \in RunIds /\ r \in Threads
  BY ThreadSorts DEF Free
<1>2. StartMissionPhotos(p) = q
  BY DEF StartMissionPhotos, PayState
<1> HIDE DEF r
<1>3. Idle \in Series
  <2>1. 0 \in 0 .. MaxFailures /\ FALSE \in BOOLEAN
    BY ThreadSorts
  <2> QED BY <2>1, NoMissionType DEF Idle, Series
<1>4. <<"top">> \in RunWalks /\ <<"top">> \in Walks
  BY DEF RunWalks, LoopWalks, Walks
<1>5. f \in [RunIds -> Series] /\ h \in [Threads -> Walks]
  BY <1>1, <1>3, <1>4 DEF PayState
<1> HIDE DEF f, h
<1>6. /\ q \in PayState /\ q.run = r /\ q.threads = f /\ q.joins = p.joins
      /\ q.todo = h /\ SameMission(p, q) /\ SameLens(p, q) /\ q.holder = p.holder
  BY <1>1, <1>5 DEF PayState, SameMission, SameLens
<1> HIDE DEF q
<1>7. Walked(p, q, r, <<"top">>)
  BY <1>6 DEF Walked, h
<1>8. Placed(q)
  BY <1>1, <1>4, <1>7, WalkedIsPlaced
<1> QED BY <1>1, <1>2, <1>6, <1>7, <1>8 DEF f

\* The reconciler: a series is started, stopped, or left as it is.
LEMMA ReconcilesKeeps ==
  ASSUME PayloadInv, MqttReconciles
  PROVE  PayloadInv'
<1>1. /\ pay \in PayState /\ Placed(pay) /\ pay.todo \in [Threads -> Walks]
      /\ pay.run \in RunIds \cup {None}
  BY DEF PayloadInv, Typed, PayState
<1>2. pay.todo["mqtt"] \in {<<"reconcile", "publish">>, <<"reconcile">>} /\ Up
  <2>1. pay.todo["mqtt"] \in {<<"reconcile", "publish">>, <<"reconcile">>}
    BY <1>1, MqttStages DEF MqttReconciles, Placed
  <2> QED BY <2>1, BusyIsUp, ThreadSorts DEF MqttReconciles
<1>3. Charged
  BY FreeOfCharge DEF MqttReconciles, PayloadInv
<1> DEFINE rest == <<>> \o Tail(pay.todo["mqtt"])
           told == <<"publish">> \o Tail(pay.todo["mqtt"])
<1>4. /\ rest \in {<<"publish">>, <<>>}
      /\ told \in {<<"publish">>, <<"publish", "publish">>}
      /\ rest \in MqttWalks /\ told \in MqttWalks
  <2>1. CASE pay.todo["mqtt"] = <<"reconcile", "publish">>
    BY <2>1, Literals DEF MqttWalks
  <2>2. CASE pay.todo["mqtt"] = <<"reconcile">>
    BY <2>2, Literals DEF MqttWalks
  <2> QED BY <1>2, <2>1, <2>2
<1> DEFINE idle == Then(pay, "mqtt", <<>>)
           next == Then(pay, "mqtt", <<"publish">>)
<1>5. /\ idle \in PayState /\ Walked(pay, idle, "mqtt", rest) /\ Still(pay, idle)
      /\ next \in PayState /\ Placed(next)
      /\ Walked(pay, next, "mqtt", told) /\ Still(pay, next)
  BY <1>1, <1>4, ThenEffect, ThreadSorts DEF MayWalk
<1>6. \/ Wanted(pay) = Active(pay) /\ pay' = idle
      \/ Wanted(pay) /\ ~Active(pay) /\ pay' = StartMissionPhotos(next)
      \/ ~Wanted(pay) /\ Active(pay) /\ pay' = StopMissionPhotos(next, "mqtt")
  BY DEF MqttReconciles, Reconcile, Wanted, MissionPermits, Active
<1> HIDE DEF rest, told, idle, next
<1>7. pay.todo["mqtt"] # RootWalk /\ pay.todo["mqtt"] # <<>>
  BY <1>2 DEF RootWalk
<1>8. /\ next.run = pay.run /\ next.threads = pay.threads /\ next.joins = pay.joins
      /\ SameMission(pay, next) /\ SameLens(pay, next) /\ next.holder = pay.holder
      /\ next.todo["mqtt"] = told
      /\ \A t \in Threads \ {"mqtt"} : next.todo[t] = pay.todo[t]
  BY <1>1, <1>5, ThreadSorts DEF Still, SameSeries, Walked
<1>9. CASE Wanted(pay) = Active(pay) /\ pay' = idle
  <2>1. /\ pay' \in PayState /\ Walked(pay, pay', "mqtt", rest) /\ Still(pay, pay')
    BY <1>5, <1>9
  <2>2. \A v \in {rest, pay.todo["mqtt"]} :
           v \notin { <<"exposed">>, <<"join", "publish">>,
                      <<"join", "publish", "publish">> }
    BY <1>2, <1>4
  <2>3. /\ Typed' /\ Bounded' /\ DownIsBlank' /\ LockIsHeld' /\ JoinIsOn'
        /\ LoopIsKnown' /\ TimerIsSet' /\ pay'.todo["mqtt"] = rest
        /\ \A t \in Threads \ {"mqtt"} : pay'.todo[t] = pay.todo[t]
    BY <1>2, <1>3, <1>4, <2>1, <2>2, BrokerKeeps DEF Still
  <2>4. PermitIsDue'
    <3>1. Active(pay') => Active(pay)
      BY <2>1 DEF Still, SameSeries, Active
    <3>2. Active(pay) => MissionPermits(pay)
      BY <1>9 DEF Wanted
    <3>3. MissionPermits(pay) => MissionPermits(pay')
      BY <2>1 DEF Still, SameMission, MissionPermits
    <3>4. Active(pay') => MissionPermits(pay')
      BY <3>1, <3>2, <3>3
    <3> QED BY <3>4 DEF PermitIsDue, Active, MissionPermits
  <2>5. MissionIsWhole'
    <3>1. pay'.todo["mqtt"] # RootWalk
      BY <1>4, <2>3 DEF RootWalk
    <3> QED BY <1>3, <1>7, <2>1, <3>1, MissionKept
            DEF PayloadInv, Still, SameMission, Charged
  <2>6. FrameIsWhole'
    <3>1. pay'.todo["main"] = pay.todo["main"]
          /\ \A r \in RunIds : pay'.todo[r] = pay.todo[r]
      BY <2>3, ThreadSorts
    <3> QED BY <1>3, <1>7, <2>1, <3>1, FrameKept
            DEF PayloadInv, Still, SameMission, SameSeries, Charged
  <2> QED BY <2>3, <2>4, <2>5, <2>6 DEF PayloadInv
<1>10. CASE ~Wanted(pay) /\ Active(pay) /\ pay' = StopMissionPhotos(next, "mqtt")
  <2> DEFINE w == <<"join">> \o told
  <2>1. w \in {<<"join", "publish">>, <<"join", "publish", "publish">>}
    <3>1. /\ <<"join">> \o <<"publish">> = <<"join", "publish">>
          /\ <<"join">> \o <<"publish", "publish">> = <<"join", "publish", "publish">>
      BY Literals
    <3>2. told = <<"publish">> \/ told = <<"publish", "publish">>
      BY <1>4
    <3> QED BY <3>1, <3>2
  <2>2. w \in MqttWalks
    BY <2>1 DEF MqttWalks
  <2>3. w = <<"join">> \o next.todo["mqtt"]
    BY <1>8
  <2>4. pay.run # None
    BY <1>10 DEF Active
  <2> HIDE DEF w
  <2>5. /\ pay' \in PayState /\ Placed(pay') /\ Walked(next, pay', "mqtt", w)
        /\ SameMission(next, pay') /\ SameLens(next, pay') /\ pay'.holder = next.holder
        /\ pay'.run = None /\ pay'.joins = [next.joins EXCEPT !["mqtt"] = next.run]
        /\ pay'.threads[next.run].stop = TRUE
        /\ \A r \in RunIds :
             /\ pay'.threads[r].failures = next.threads[r].failures
             /\ pay'.threads[r].id = next.threads[r].id
             /\ pay'.threads[r].root = next.threads[r].root
             /\ r # next.run => pay'.threads[r] = next.threads[r]
    BY <1>5, <1>8, <1>10, <2>2, <2>3, <2>4, StopEffect DEF MayWalk
  <2>6. /\ pay'.run = None /\ pay'.joins = [pay.joins EXCEPT !["mqtt"] = pay.run]
        /\ pay'.threads[pay.run].stop = TRUE
        /\ \A r \in RunIds :
             /\ pay'.threads[r].failures = pay.threads[r].failures
             /\ pay'.threads[r].id = pay.threads[r].id
             /\ pay'.threads[r].root = pay.threads[r].root
             /\ r # pay.run => pay'.threads[r] = pay.threads[r]
    BY <1>8, <2>5
  <2>7. /\ Walked(pay, pay', "mqtt", w) /\ SameMission(pay, pay')
        /\ SameLens(pay, pay') /\ pay'.holder = pay.holder
    <3>1. Walked(pay, pay', "mqtt", w)
      BY <1>1, <1>5, <2>5 DEF Walked
    <3> QED BY <1>8, <2>5, <3>1 DEF SameMission, SameLens
  <2>8. "mqtt" \in {"main", "mqtt"} /\ pay' \in PayState /\ Placed(pay')
    BY <2>5
  <2> QED BY <1>2, <1>3, <2>1, <2>4, <2>6, <2>7, <2>8, StopKeeps
<1>11. CASE Wanted(pay) /\ ~Active(pay) /\ pay' = StartMissionPhotos(next)
  <2>1. Free(next) = Free(pay)
    BY <1>8, ThreadSorts DEF Free, Alive
  <2>2. Free(next) # {}
    BY <1>11, <2>1 DEF MqttReconciles
  <2>3. PICK r \in Free(pay) :
          /\ pay' \in PayState /\ Placed(pay') /\ Walked(next, pay', r, <<"top">>)
          /\ SameMission(next, pay') /\ SameLens(next, pay')
          /\ pay'.holder = next.holder /\ pay'.run = r /\ pay'.joins = next.joins
          /\ pay'.threads = [next.threads EXCEPT ![r] = Idle]
    BY <1>5, <1>11, <2>1, <2>2, StartEffect
  <2>4. /\ r \in RunIds /\ pay.todo[r] = <<>> /\ pay.run # r
        /\ r \notin {pay.joins["main"], pay.joins["mqtt"]}
        /\ r \in Threads /\ r # "mqtt" /\ r # "main"
    BY ThreadSorts DEF Free, Alive
  <2>5. /\ SameMission(pay, pay') /\ SameLens(pay, pay')
        /\ pay'.holder = pay.holder /\ pay'.joins = pay.joins
        /\ pay'.threads = [pay.threads EXCEPT ![r] = Idle]
    BY <1>8, <2>3 DEF SameMission, SameLens
  <2>6. /\ pay'.todo["mqtt"] = told /\ pay'.todo["main"] = pay.todo["main"]
        /\ pay'.todo[r] = <<"top">>
        /\ \A u \in RunIds \ {r} : pay'.todo[u] = pay.todo[u]
    <3>1. next.todo \in [Threads -> Walks]
      BY <1>5 DEF PayState
    <3>2. pay'.todo[r] = <<"top">>
          /\ \A u \in Threads \ {r} : pay'.todo[u] = next.todo[u]
      BY <2>3, <2>4, <3>1 DEF Walked
    <3> QED BY <1>8, <2>4, <3>2, ThreadSorts
  <2>7. pay.threads \in [RunIds -> Series]
    BY <1>1 DEF PayState
  <2>8. /\ pay'.threads[r] = Idle
        /\ \A u \in RunIds \ {r} : pay'.threads[u] = pay.threads[u]
    BY <2>4, <2>5, <2>7
  <2>9. \A u \in Threads : At(pay', u, "exposed") <=> At(pay, u, "exposed")
    <3>1. ~At(pay', "mqtt", "exposed") /\ ~At(pay, "mqtt", "exposed")
      <4>1. told # <<"exposed">> /\ pay.todo["mqtt"] # <<"exposed">>
        BY <1>2, <1>4
      <4> QED BY <1>1, <2>3, <2>6, <4>1, MqttStages DEF Placed
    <3>2. ~At(pay', r, "exposed") /\ ~At(pay, r, "exposed")
      BY <2>4, <2>6 DEF At
    <3> QED BY <2>6, <3>1, <3>2 DEF At, Threads
  <2>10. LockIsHeld'
    BY <2>5, <2>9, LockKept DEF PayloadInv
  <2>11. JoinIsOn'
    <3>1. ~At(pay', "mqtt", "join") /\ ~At(pay, "mqtt", "join")
      <4>1. /\ told \notin {<<"join", "publish">>, <<"join", "publish", "publish">>}
            /\ pay.todo["mqtt"] \notin {<<"join", "publish">>, <<"join", "publish", "publish">>}
        BY <1>2, <1>4
      <4> QED BY <1>1, <2>3, <2>6, <4>1, MqttStages DEF Placed
    <3>2. At(pay', "main", "join") <=> At(pay, "main", "join")
      BY <2>6 DEF At
    <3>3. /\ (pay'.joins["main"] # None) <=> At(pay', "main", "join")
          /\ (pay'.joins["mqtt"] # None) <=> At(pay', "mqtt", "join")
          /\ pay'.run \notin {pay'.joins["main"], pay'.joins["mqtt"]}
      BY <2>3, <2>4, <2>5, <3>1, <3>2 DEF PayloadInv, JoinIsOn
    <3> QED BY <3>3 DEF JoinIsOn, At
  <2>12. LoopIsKnown'
    <3>1. pay.run \in RunIds => pay.threads[pay.run].stop
      BY <1>11, ThreadSorts DEF Active
    <3>2. Idle.failures < MaxFailures /\ ~Idle.stop
      BY ThreadSorts DEF Idle
    <3> SUFFICES ASSUME NEW u \in RunIds
                 PROVE  LET walk == pay'.todo[u]
                        IN  /\ walk \in LoopWalks => pay'.threads[u].failures < MaxFailures
                            /\ pay'.run = u /\ pay'.threads[u].stop => walk \notin LoopWalks
                            /\ walk \in LoopWalks /\ pay'.run # u =>
                                 /\ pay'.threads[u].stop
                                 /\ \/ u \in {pay'.joins["main"], pay'.joins["mqtt"]}
                                    \/ left'.timeouts < Limits.timeouts
                            /\ walk = <<"where", "top">> /\ pay'.run # u =>
                                 u \in {pay'.joins["main"], pay'.joins["mqtt"]}
      BY DEF LoopIsKnown
    <3>3. CASE u = r
      BY <2>3, <2>6, <2>8, <3>2, <3>3
    <3>4. CASE u # r
      <4>1. pay'.todo[u] = pay.todo[u] /\ pay'.threads[u] = pay.threads[u]
            /\ pay'.run # u /\ left'.timeouts = left.timeouts
        BY <1>3, <2>3, <2>6, <2>8, <3>4 DEF Charged
      <4>2. <<"where", "top">> \in LoopWalks
        BY DEF LoopWalks
      <4>3. pay.run = u => pay.todo[u] \notin LoopWalks
        BY <3>1 DEF PayloadInv, LoopIsKnown
      <4>4. /\ pay.todo[u] \in LoopWalks => pay.threads[u].failures < MaxFailures
            /\ pay.todo[u] \in LoopWalks /\ pay.run # u =>
                 /\ pay.threads[u].stop
                 /\ \/ u \in {pay.joins["main"], pay.joins["mqtt"]}
                    \/ left.timeouts < Limits.timeouts
            /\ pay.todo[u] = <<"where", "top">> /\ pay.run # u =>
                 u \in {pay.joins["main"], pay.joins["mqtt"]}
        BY DEF PayloadInv, LoopIsKnown
      <4> QED BY <2>5, <4>1, <4>2, <4>3, <4>4
    <3> QED BY <3>3, <3>4
  <2>13. PermitIsDue'
    <3>1. MissionPermits(pay')
      BY <1>11, <2>5 DEF Wanted, MissionPermits, SameMission
    <3> QED BY <3>1 DEF PermitIsDue, MissionPermits
  <2>14. MissionIsWhole'
    <3>1. pay'.todo["mqtt"] # RootWalk
      BY <1>4, <2>6 DEF RootWalk
    <3> QED BY <1>3, <1>7, <2>5, <3>1, MissionKept DEF PayloadInv, SameMission, Charged
  <2>15. FrameIsWhole'
    <3>1. <<"top">> \notin ReadingWalks
      BY DEF ReadingWalks
    <3>2. \A u \in RunIds : pay'.todo[u] \in ReadingWalks =>
            pay'.todo[u] = pay.todo[u] /\ pay'.threads[u].id = pay.threads[u].id
              /\ pay'.threads[u].root = pay.threads[u].root
      BY <2>6, <2>8, <3>1
    <3> QED BY <1>3, <1>7, <2>5, <2>6, <3>2, FrameKept
            DEF PayloadInv, SameMission, Charged
  <2>16. TimerIsSet'
    BY <2>5, TimerKept DEF PayloadInv, Lens
  <2>17. DownIsBlank'
    BY <1>2, <2>6, UpKept DEF Up
  <2>18. Typed' /\ Bounded'
    BY <1>3, <2>3 DEF PayloadInv, Typed, Placed, Bounded, Charged
  <2> QED BY <2>10, <2>11, <2>12, <2>13, <2>14, <2>15, <2>16, <2>17, <2>18
          DEF PayloadInv
<1> QED BY <1>6, <1>9, <1>10, <1>11

(***************************************************************************)
(* The camera's lock, and the joins.                                       *)
(***************************************************************************)

\* The lock is taken by one thread, which then exposes.
LEMMA LockKeeps ==
  ASSUME PayloadInv, TakesTheLock
  PROVE  PayloadInv'
<1>1. /\ pay \in PayState /\ Placed(pay) /\ pay.todo \in [Threads -> Walks]
  BY DEF PayloadInv, Typed, PayState
<1>2. PICK t \in Threads : At(pay, t, "expose") /\ pay' = Expose(pay, t)
  BY DEF TakesTheLock
<1>3. t # "main" /\ Up /\ t # None
  BY <1>1, <1>2, MainStages, BusyIsUp, ThreadSorts DEF Placed
<1> DEFINE w == <<"exposed">> \o Tail(pay.todo[t])
           q == Then(pay, t, <<"exposed">>)
<1>4. \/ t = "mqtt" /\ pay.todo[t] = <<"expose">> /\ w = <<"exposed">>
      \/ t \in RunIds /\ pay.todo[t] = <<"expose", "top">> /\ w = <<"exposed", "top">>
  <2>1. CASE t = "mqtt"
    <3>1. pay.todo[t] = <<"expose">>
      BY <1>1, <1>2, <2>1, MqttStages DEF Placed
    <3> QED BY <2>1, <3>1, Literals
  <2>2. CASE t \in RunIds
    <3>1. pay.todo[t] = <<"expose", "top">>
      BY <1>1, <1>2, <2>2, RunStages DEF Placed
    <3> QED BY <2>2, <3>1, Literals
  <2> QED BY <1>3, <2>1, <2>2 DEF Threads
<1>5. MayWalk(t, w)
  BY <1>4 DEF MayWalk, MqttWalks, RunWalks, LoopWalks
<1>6. q \in PayState /\ Placed(q) /\ Walked(pay, q, t, w) /\ Still(pay, q)
  BY <1>1, <1>5, ThenEffect
<1>7. pay' = [q EXCEPT !.holder = t]
  BY <1>2 DEF Expose
<1> HIDE DEF q, w
<1>8. /\ pay' \in PayState /\ pay'.todo = q.todo /\ pay'.holder = t
      /\ SameMission(q, pay') /\ SameSeries(q, pay') /\ SameLens(q, pay')
  BY <1>6, <1>7 DEF PayState, SameMission, SameSeries, SameLens
<1>9. /\ Typed' /\ SameMission(pay, pay') /\ SameSeries(pay, pay')
      /\ SameLens(pay, pay')
  BY <1>6, <1>8 DEF Typed, Placed, Still, SameMission, SameSeries, SameLens
<1>10. pay'.todo[t] = w /\ \A u \in Threads \ {t} : pay'.todo[u] = pay.todo[u]
  BY <1>1, <1>6, <1>8 DEF Walked
<1>11. At(pay', t, "exposed") /\ ~At(pay', t, "join") /\ ~At(pay, t, "join")
  BY <1>4, <1>10 DEF At
<1>12. LockIsHeld'
  <2>1. \A u \in Threads \ {t} : ~At(pay', u, "exposed")
    <3>1. \A u \in Threads : ~At(pay, u, "exposed")
      BY ThreadSorts DEF PayloadInv, LockIsHeld, TakesTheLock
    <3> QED BY <1>10, <3>1 DEF At
  <2>2. \A u \in Threads : (pay'.holder = u) <=> At(pay', u, "exposed")
    BY <1>8, <1>11, <2>1
  <2> QED BY <2>2 DEF LockIsHeld, At
<1>13. JoinIsOn'
  <2>1. \A u \in {"main", "mqtt"} : At(pay', u, "join") <=> At(pay, u, "join")
    BY <1>10, <1>11, ThreadSorts DEF At
  <2> QED BY <1>9, <2>1, JoinKept DEF PayloadInv
<1>14. \A r \in RunIds :
         \/ pay'.todo[r] = pay.todo[r]
         \/ pay.todo[r] = <<"expose", "top">> /\ pay'.todo[r] = <<"exposed", "top">>
  BY <1>4, <1>10, ThreadSorts
<1>15. Charged
  BY FreeOfCharge DEF PayloadInv, TakesTheLock
<1>16. LoopIsKnown'
  <2>1. \A r \in RunIds :
           /\ pay'.todo[r] \in LoopWalks => pay.todo[r] \in LoopWalks
           /\ pay'.todo[r] = <<"where", "top">> => pay.todo[r] = <<"where", "top">>
    BY <1>14 DEF LoopWalks
  <2> QED BY <1>9, <1>15, <2>1, LoopKept DEF PayloadInv, Charged
<1>17. \/ pay'.todo["mqtt"] = pay.todo["mqtt"]
       \/ pay.todo["mqtt"] = <<"expose">> /\ pay'.todo["mqtt"] = <<"exposed">>
  BY <1>4, <1>10, ThreadSorts
<1>18. PermitIsDue' /\ MissionIsWhole'
  <2>1. /\ pay.todo["mqtt"] \in ReconcilingWalks
             => pay'.todo["mqtt"] \in ReconcilingWalks
        /\ (pay'.todo["mqtt"] = RootWalk) <=> (pay.todo["mqtt"] = RootWalk)
    BY <1>17 DEF ReconcilingWalks, RootWalk
  <2> QED BY <1>9, <1>15, <2>1, PermitKept, MissionKept
          DEF PayloadInv, SameMission, SameSeries, Active, Charged
<1>19. pay'.todo["main"] = pay.todo["main"]
  BY <1>3, <1>10, ThreadSorts
<1>20. FrameIsWhole'
  BY <1>9, <1>14, <1>15, <1>17, <1>19
     DEF PayloadInv, FrameIsWhole, FramesAreWhole, ClosesAreHeard, SameMission,
         SameSeries, Charged
<1>21. TimerIsSet'
  <2>1. pay.holder = None
    BY DEF TakesTheLock
  <2> QED BY <1>9, <2>1, TimerKept DEF PayloadInv, Lens
<1>22. DownIsBlank'
  BY <1>3, <1>19, UpKept DEF Up
<1> QED BY <1>9, <1>12, <1>13, <1>15, <1>16, <1>18, <1>20, <1>21, <1>22
        DEF PayloadInv, Bounded, Charged

\* A join ends because the thread is gone, or gives up, and that is counted.
LEMMA JoinKeeps ==
  ASSUME PayloadInv, JoinReturns \/ JoinTimesOut
  PROVE  PayloadInv'
<1>1. /\ pay \in PayState /\ Placed(pay) /\ pay.todo \in [Threads -> Walks]
      /\ pay.joins \in [{"main", "mqtt"} -> RunIds \cup {None}]
  BY DEF PayloadInv, Typed, PayState
<1>2. PICK t \in {"main", "mqtt"} :
        /\ At(pay, t, "join") /\ pay' = Joined(pay, t)
        /\ \/ ~Alive(pay, pay.joins[t]) /\ UNCHANGED left
           \/ MayTimeOut(pay, t) /\ Spend("timeouts", 1)
  BY DEF JoinReturns, JoinTimesOut
<1>3. t \in Threads /\ Up /\ Bounded
  BY <1>2, ThreadSorts, BusyIsUp DEF PayloadInv
<1> DEFINE w == <<>> \o Tail(pay.todo[t])  q == Then(pay, t, <<>>)
           joins == [pay.joins EXCEPT ![t] = None]
<1>4. \/ t = "main" /\ w = <<"close", "gone">>
      \/ /\ t = "mqtt" /\ w \in {<<"publish">>, <<"publish", "publish">>}
         /\ pay.todo["mqtt"] \in {<<"join", "publish">>, <<"join", "publish", "publish">>}
  <2>1. CASE t = "main"
    <3>1. pay.todo[t] = <<"join", "close", "gone">>
      BY <1>1, <1>2, <2>1, MainStages DEF Placed
    <3> QED BY <2>1, <3>1, Literals
  <2>2. CASE t = "mqtt"
    <3>1. pay.todo[t] \in {<<"join", "publish">>, <<"join", "publish", "publish">>}
      BY <1>1, <1>2, <2>2, MqttStages DEF Placed
    <3>2. pay.todo[t] = <<"join", "publish">> => w = <<"publish">>
      BY Literals
    <3>3. pay.todo[t] = <<"join", "publish", "publish">> => w = <<"publish", "publish">>
      BY Literals
    <3> QED BY <2>2, <3>1, <3>2, <3>3
  <2> QED BY <2>1, <2>2
<1>5. MayWalk(t, w)
  BY <1>4 DEF MayWalk, MainWalks, LeavingWalks, MqttWalks
<1>6. q \in PayState /\ Placed(q) /\ Walked(pay, q, t, w) /\ Still(pay, q)
  BY <1>1, <1>3, <1>5, ThenEffect
<1>7. q.joins = pay.joins /\ joins \in [{"main", "mqtt"} -> RunIds \cup {None}]
  BY <1>1, <1>6 DEF Still, SameSeries
<1>8. pay' = [q EXCEPT !.joins = joins]
  BY <1>2, <1>6, <1>7 DEF Joined, PayState
<1> HIDE DEF q, w, joins
<1>9. /\ pay' \in PayState /\ pay'.todo = q.todo /\ pay'.holder = q.holder
      /\ SameMission(q, pay') /\ SameLens(q, pay')
      /\ pay'.run = q.run /\ pay'.threads = q.threads /\ pay'.joins = joins
  BY <1>6, <1>7, <1>8 DEF PayState, SameMission, SameLens
<1>10. /\ Typed' /\ SameMission(pay, pay') /\ SameLens(pay, pay')
       /\ pay'.holder = pay.holder /\ pay'.run = pay.run
       /\ pay'.threads = pay.threads
  BY <1>6, <1>9 DEF Typed, Placed, Still, SameMission, SameSeries, SameLens
<1>11. /\ pay'.todo[t] = w
       /\ \A u \in Threads \ {t} : pay'.todo[u] = pay.todo[u]
       /\ pay'.joins[t] = None
       /\ \A u \in {"main", "mqtt"} \ {t} : pay'.joins[u] = pay.joins[u]
  BY <1>1, <1>3, <1>6, <1>9 DEF Walked, joins
<1>12. ~At(pay', t, "join") /\ ~At(pay', t, "exposed") /\ ~At(pay, t, "exposed")
  BY <1>2, <1>4, <1>11 DEF At
<1>13. LockIsHeld'
  <2>1. \A u \in Threads : At(pay', u, "exposed") <=> At(pay, u, "exposed")
    BY <1>11, <1>12 DEF At
  <2> QED BY <1>10, <2>1, LockKept DEF PayloadInv
<1>14. JoinIsOn'
  <2>1. \A u \in {"main", "mqtt"} :
          (pay'.joins[u] # None) <=> At(pay', u, "join")
    <3>1. \A u \in {"main", "mqtt"} \ {t} :
            (pay.joins[u] # None) <=> At(pay, u, "join")
      BY DEF PayloadInv, JoinIsOn
    <3>2. \A u \in {"main", "mqtt"} \ {t} : At(pay', u, "join") <=> At(pay, u, "join")
      BY <1>11, ThreadSorts DEF At
    <3> QED BY <1>11, <1>12, <3>1, <3>2
  <2>2. pay'.run # None => pay'.run \notin {pay'.joins["main"], pay'.joins["mqtt"]}
    BY <1>10, <1>11 DEF PayloadInv, JoinIsOn
  <2> QED BY <2>1, <2>2 DEF JoinIsOn, At
<1>15. left' \in [Kinds -> Nat] /\ left'.timeouts <= left.timeouts
       /\ left'.lost = left.lost
       /\ (MayTimeOut(pay, t) /\ pay.todo[pay.joins[t]] # <<>>
             => left'.timeouts < left.timeouts)
  <2>1. CASE ~Alive(pay, pay.joins[t]) /\ UNCHANGED left
    BY <1>3, <2>1 DEF Bounded, Alive, Kinds
  <2>2. CASE Spend("timeouts", 1)
    <3>1. /\ left' \in [Kinds -> Nat] /\ left'.timeouts < left.timeouts
          /\ left'.lost = left.lost
      BY <1>3, <2>2, SpendEffect DEF Kinds
    <3>2. left'.timeouts \in Nat /\ left.timeouts \in Nat
      BY <1>3, <3>1 DEF Bounded, Kinds
    <3> QED BY <3>1, <3>2
  <2> QED BY <1>2, <2>1, <2>2
<1>16. left.timeouts <= Limits.timeouts /\ Limits.timeouts \in Nat
       /\ left.timeouts \in Nat /\ left'.timeouts \in Nat
  BY <1>3, <1>15, PayloadAssumption DEF Bounded, Kinds
<1>17. \A r \in RunIds : pay'.todo[r] = pay.todo[r]
  BY <1>11, ThreadSorts
<1>18. LoopIsKnown'
  <2> SUFFICES ASSUME NEW r \in RunIds
               PROVE  LET walk == pay'.todo[r]
                      IN  /\ walk \in LoopWalks => pay'.threads[r].failures < MaxFailures
                          /\ pay'.run = r /\ pay'.threads[r].stop => walk \notin LoopWalks
                          /\ walk \in LoopWalks /\ pay'.run # r =>
                               /\ pay'.threads[r].stop
                               /\ \/ r \in {pay'.joins["main"], pay'.joins["mqtt"]}
                                  \/ left'.timeouts < Limits.timeouts
                          /\ walk = <<"where", "top">> /\ pay'.run # r =>
                               r \in {pay'.joins["main"], pay'.joins["mqtt"]}
    BY DEF LoopIsKnown
  <2>1. /\ pay.todo[r] \in LoopWalks => pay.threads[r].failures < MaxFailures
        /\ pay.run = r /\ pay.threads[r].stop => pay.todo[r] \notin LoopWalks
        /\ pay.todo[r] \in LoopWalks /\ pay.run # r =>
             /\ pay.threads[r].stop
             /\ \/ r \in {pay.joins["main"], pay.joins["mqtt"]}
                \/ left.timeouts < Limits.timeouts
        /\ pay.todo[r] = <<"where", "top">> /\ pay.run # r =>
             r \in {pay.joins["main"], pay.joins["mqtt"]}
    BY DEF PayloadInv, LoopIsKnown
  <2>2. r \in {pay.joins["main"], pay.joins["mqtt"]}
          => r \in {pay'.joins["main"], pay'.joins["mqtt"]} \/ r = pay.joins[t]
    BY <1>11
  <2>3. r = pay.joins[t] /\ pay.todo[r] \in LoopWalks
          => left'.timeouts < left.timeouts
    <3>1. <<>> \notin LoopWalks
      BY DEF LoopWalks
    <3> QED BY <1>2, <1>15, <3>1 DEF Alive
  <2>4. r = pay.joins[t] => pay.todo[r] # <<"where", "top">>
    <3>1. ASSUME r = pay.joins[t], pay.todo[r] = <<"where", "top">>
          PROVE  Alive(pay, r) /\ ~At(pay, r, "expose") /\ ~At(pay, r, "exposed")
      BY <3>1 DEF Alive, At
    <3> QED BY <1>2, <3>1 DEF MayTimeOut
  <2>5. left'.timeouts < left.timeouts \/ left.timeouts < Limits.timeouts
          => left'.timeouts < Limits.timeouts
    BY <1>15, <1>16
  <2> QED BY <1>10, <1>17, <2>1, <2>2, <2>3, <2>4, <2>5
<1>19. \/ pay'.todo["mqtt"] = pay.todo["mqtt"]
       \/ {pay.todo["mqtt"], pay'.todo["mqtt"]} \cap ReconcilingWalks = {}
  <2>1. /\ <<"publish">> \notin ReconcilingWalks
        /\ <<"publish", "publish">> \notin ReconcilingWalks
        /\ <<"join", "publish">> \notin ReconcilingWalks
        /\ <<"join", "publish", "publish">> \notin ReconcilingWalks
    BY DEF ReconcilingWalks
  <2> QED BY <1>4, <1>11, <2>1, ThreadSorts
<1>20. RootWalk \in ReconcilingWalks
  BY DEF RootWalk, ReconcilingWalks
<1>21. PermitIsDue' /\ MissionIsWhole'
  BY <1>10, <1>15, <1>19, <1>20, PermitKept, MissionKept
     DEF PayloadInv, SameMission, Active
<1>22. pay'.todo["main"] \in ServingWalks => pay.todo["main"] \in ServingWalks
  BY <1>4, <1>11, ThreadSorts DEF ServingWalks
<1>23. FrameIsWhole'
  BY <1>10, <1>15, <1>17, <1>19, <1>20, <1>22, FrameKept DEF PayloadInv, SameMission
<1>24. TimerIsSet'
  BY <1>10, TimerKept DEF PayloadInv, Lens
<1>25. DownIsBlank'
  <2>1. pay'.todo["main"] # <<>>
    <3>1. <<"close", "gone">> # <<>>
      OBVIOUS
    <3> QED BY <1>3, <1>4, <1>11, <3>1, ThreadSorts DEF Up
  <2> QED BY <2>1, UpKept
<1>26. Bounded'
  BY <1>3, <1>15, <1>16 DEF Bounded
<1> QED BY <1>10, <1>13, <1>14, <1>18, <1>21, <1>23, <1>24, <1>25, <1>26
        DEF PayloadInv

(***************************************************************************)
(* The thread of a series.                                                 *)
(***************************************************************************)

SeriesMoves(p, q, r, s, w) == q = [p EXCEPT !.threads[r] = s, !.todo[r] = w]

\* A series' thread walks on with its own record changed.
LEMMA SeriesEffect ==
  ASSUME NEW p \in PayState, Placed(p), NEW r \in RunIds, NEW w \in RunWalks,
         NEW s \in Series, NEW q, SeriesMoves(p, q, r, s, w)
  PROVE  /\ q \in PayState /\ Placed(q) /\ Walked(p, q, r, w)
         /\ SameMission(p, q) /\ SameLens(p, q) /\ q.holder = p.holder
         /\ q.run = p.run /\ q.joins = p.joins
         /\ q.threads = [p.threads EXCEPT ![r] = s]
<1> DEFINE f == [p.threads EXCEPT ![r] = s]  h == [p.todo EXCEPT ![r] = w]
<1>1. q = [p EXCEPT !.threads = f, !.todo = h]
  BY DEF PayState, SeriesMoves
<1>2. w \in Walks /\ r \in Threads
  BY ThreadSorts DEF Walks
<1>3. f \in [RunIds -> Series] /\ h \in [Threads -> Walks]
  BY <1>2 DEF PayState
<1> HIDE DEF f, h
<1>4. /\ q \in PayState /\ q.threads = f /\ q.todo = h /\ q.run = p.run
      /\ q.joins = p.joins /\ SameMission(p, q) /\ SameLens(p, q)
      /\ q.holder = p.holder
  BY <1>1, <1>3 DEF PayState, SameMission, SameLens
<1>5. Walked(p, q, r, w)
  BY <1>4 DEF Walked, h
<1>6. Placed(q)
  BY <1>2, <1>5, WalkedIsPlaced
<1> QED BY <1>4, <1>5, <1>6 DEF f

\* What such a step keeps, unless it exposes.
LEMMA SeriesKeeps ==
  ASSUME PayloadInv, NEW r \in RunIds, NEW w \in RunWalks, NEW s \in Series,
         pay.todo[r] # <<>>, Charged, SeriesMoves(pay, pay', r, s, w),
         pay.todo[r] # <<"exposed", "top">>, w # <<"exposed", "top">>,
         pay.threads[r].stop => s.stop,
         w \in LoopWalks =>
           /\ pay.todo[r] \in LoopWalks /\ s.failures < MaxFailures
           /\ s.stop = pay.threads[r].stop,
         w = <<"where", "top">> => ~s.stop
  PROVE  /\ Typed' /\ Bounded' /\ DownIsBlank' /\ LockIsHeld' /\ JoinIsOn'
         /\ LoopIsKnown' /\ PermitIsDue' /\ MissionIsWhole' /\ TimerIsSet'
         /\ SameMission(pay, pay')
         /\ pay'.todo[r] = w /\ pay'.threads[r] = s
         /\ \A t \in Threads \ {r} : pay'.todo[t] = pay.todo[t]
         /\ \A u \in RunIds \ {r} : pay'.threads[u] = pay.threads[u]
<1>1. /\ pay \in PayState /\ Placed(pay) /\ pay.todo \in [Threads -> Walks]
      /\ pay.threads \in [RunIds -> Series] /\ r \in Threads
      /\ r # "main" /\ r # "mqtt"
  BY ThreadSorts DEF PayloadInv, Typed, PayState
<1>2. Up
  <2>1. pay = Stopped(pay.said) => pay.todo[r] = <<>>
    BY <1>1 DEF Stopped
  <2> QED BY <2>1 DEF Up, PayloadInv, DownIsBlank
<1>3. /\ pay' \in PayState /\ Placed(pay') /\ Walked(pay, pay', r, w)
      /\ SameMission(pay, pay') /\ SameLens(pay, pay') /\ pay'.holder = pay.holder
      /\ pay'.run = pay.run /\ pay'.joins = pay.joins
      /\ pay'.threads = [pay.threads EXCEPT ![r] = s]
  BY <1>1, SeriesEffect
<1>4. /\ pay'.todo[r] = w /\ pay'.threads[r] = s
      /\ \A t \in Threads \ {r} : pay'.todo[t] = pay.todo[t]
      /\ \A u \in RunIds \ {r} : pay'.threads[u] = pay.threads[u]
  BY <1>1, <1>3 DEF Walked
<1>5. pay'.todo["main"] = pay.todo["main"] /\ pay'.todo["mqtt"] = pay.todo["mqtt"]
  BY <1>1, <1>4, ThreadSorts
<1>6. Typed'
  BY <1>3 DEF Typed, Placed
<1>7. LockIsHeld'
  <2>1. ~At(pay', r, "exposed") /\ ~At(pay, r, "exposed")
    BY <1>1, <1>3, <1>4, RunStages DEF Placed
  <2>2. \A t \in Threads : At(pay', t, "exposed") <=> At(pay, t, "exposed")
    BY <1>4, <2>1 DEF At
  <2> QED BY <1>3, <2>2, LockKept DEF PayloadInv
<1>8. JoinIsOn'
  BY <1>3, <1>5 DEF PayloadInv, JoinIsOn, At
<1>9. LoopIsKnown'
  <2> SUFFICES ASSUME NEW u \in RunIds
               PROVE  LET walk == pay'.todo[u]
                      IN  /\ walk \in LoopWalks => pay'.threads[u].failures < MaxFailures
                          /\ pay'.run = u /\ pay'.threads[u].stop => walk \notin LoopWalks
                          /\ walk \in LoopWalks /\ pay'.run # u =>
                               /\ pay'.threads[u].stop
                               /\ \/ u \in {pay'.joins["main"], pay'.joins["mqtt"]}
                                  \/ left'.timeouts < Limits.timeouts
                          /\ walk = <<"where", "top">> /\ pay'.run # u =>
                               u \in {pay'.joins["main"], pay'.joins["mqtt"]}
    BY DEF LoopIsKnown
  <2>1. /\ pay.todo[u] \in LoopWalks => pay.threads[u].failures < MaxFailures
        /\ pay.run = u /\ pay.threads[u].stop => pay.todo[u] \notin LoopWalks
        /\ pay.todo[u] \in LoopWalks /\ pay.run # u =>
             /\ pay.threads[u].stop
             /\ \/ u \in {pay.joins["main"], pay.joins["mqtt"]}
                \/ left.timeouts < Limits.timeouts
        /\ pay.todo[u] = <<"where", "top">> /\ pay.run # u =>
             u \in {pay.joins["main"], pay.joins["mqtt"]}
    BY DEF PayloadInv, LoopIsKnown
  <2>2. <<"where", "top">> \in LoopWalks /\ left'.timeouts = left.timeouts
    BY DEF LoopWalks, Charged
  <2>3. CASE u = r
    BY <1>3, <1>4, <2>1, <2>2, <2>3
  <2>4. CASE u # r
    <3>1. pay'.todo[u] = pay.todo[u] /\ pay'.threads[u] = pay.threads[u]
      BY <1>4, <2>4, ThreadSorts
    <3> QED BY <1>3, <2>1, <2>2, <3>1
  <2> QED BY <2>3, <2>4
<1>10. PermitIsDue'
  <2>1. Active(pay') => Active(pay)
    <3>1. pay'.run # None => pay'.run \in RunIds
      BY <1>3 DEF PayState
    <3> QED BY <1>3, <1>4, <3>1 DEF Active
  <2> QED BY <1>3, <1>5, <2>1, PermitKept DEF PayloadInv, SameMission
<1>11. MissionIsWhole'
  BY <1>3, <1>5, MissionKept DEF PayloadInv, SameMission, Charged
<1>12. TimerIsSet'
  BY <1>3, TimerKept DEF PayloadInv, Lens
<1>13. DownIsBlank'
  BY <1>2, <1>5, UpKept DEF Up
<1>14. Bounded'
  BY DEF PayloadInv, Bounded, Charged
<1> QED BY <1>3, <1>4, <1>6, <1>7, <1>8, <1>9, <1>10, <1>11, <1>12, <1>13, <1>14

\* The parts of a frame are kept while its thread only walks, or drops them.
LEMMA OtherFrames ==
  ASSUME PayloadInv, NEW r \in RunIds, SameMission(pay, pay'), Charged,
         \A t \in Threads \ {r} : pay'.todo[t] = pay.todo[t],
         \A u \in RunIds \ {r} : pay'.threads[u] = pay.threads[u],
         ClosesAreHeard /\ pay.todo["main"] \in ServingWalks =>
           LET frame == pay'.threads[r]
           IN  /\ pay'.todo[r] = <<"where", "top">> /\ frame.id # None =>
                    pay.id = frame.id
               /\ pay'.todo[r] \in {<<"expose", "top">>, <<"exposed", "top">>}
                  /\ frame.id # None /\ frame.root # None
                    => [id |-> frame.id, root |-> frame.root] \in Pairs
  PROVE  FrameIsWhole'
<1>1. /\ pay'.todo["main"] = pay.todo["main"] /\ pay'.todo["mqtt"] = pay.todo["mqtt"]
      /\ pay'.id = pay.id /\ pay'.root = pay.root
  BY ThreadSorts DEF SameMission
<1>0. ClosesAreHeard' => ClosesAreHeard
  BY DEF ClosesAreHeard, Charged
<1> SUFFICES ASSUME ClosesAreHeard, pay'.todo["main"] \in ServingWalks,
                    NEW u \in RunIds
             PROVE  LET frame == pay'.threads[u]
                    IN  /\ pay'.todo[u] = <<"where", "top">> /\ frame.id # None =>
                             \/ pay'.id = frame.id
                             \/ /\ pay'.id = None
                                /\ pay'.todo["mqtt"] = RootWalk
                                /\ [id |-> frame.id, root |-> pay'.root] \in Pairs
                             \/ pay'.id = None /\ pay'.root = None
                        /\ pay'.todo[u] \in {<<"expose", "top">>, <<"exposed", "top">>}
                           /\ frame.id # None /\ frame.root # None
                             => [id |-> frame.id, root |-> frame.root] \in Pairs
  BY <1>0 DEF FrameIsWhole, FramesAreWhole, RootWalk
<1>2. CASE u = r
  BY <1>1, <1>2
<1>3. CASE u # r
  <2>1. pay'.todo[u] = pay.todo[u] /\ pay'.threads[u] = pay.threads[u]
    BY <1>3, ThreadSorts
  <2>2. LET frame == pay.threads[u]
        IN  /\ pay.todo[u] = <<"where", "top">> /\ frame.id # None =>
                 \/ pay.id = frame.id
                 \/ /\ pay.id = None
                    /\ pay.todo["mqtt"] = RootWalk
                    /\ [id |-> frame.id, root |-> pay.root] \in Pairs
                 \/ pay.id = None /\ pay.root = None
            /\ pay.todo[u] \in {<<"expose", "top">>, <<"exposed", "top">>}
               /\ frame.id # None /\ frame.root # None
                 => [id |-> frame.id, root |-> frame.root] \in Pairs
    BY <1>1 DEF PayloadInv, FrameIsWhole, FramesAreWhole, RootWalk
  <2> QED BY <1>1, <2>1, <2>2
<1> QED BY <1>2, <1>3

\* A frame begins with the id of the mission that is open.
LEMMA FrameBeginsKeeps ==
  ASSUME PayloadInv, NEW r \in RunIds, At(pay, r, "top"), ~pay.threads[r].stop,
         pay' = Top(pay, r), UNCHANGED left
  PROVE  PayloadInv'
<1> DEFINE w == <<"where", "top">>  s == [pay.threads[r] EXCEPT !.id = pay.id]
<1>1. /\ pay \in PayState /\ Placed(pay) /\ pay.threads \in [RunIds -> Series]
      /\ pay.threads[r] \in Series /\ pay.id \in MissionIds
  BY DEF PayloadInv, Typed, PayState
<1>2. pay.todo[r] = <<"top">>
  BY <1>1, RunStages DEF Placed
<1>3. w \in RunWalks /\ w \in LoopWalks /\ w # <<"exposed", "top">>
      /\ pay.todo[r] \in LoopWalks /\ pay.todo[r] # <<>>
      /\ pay.todo[r] # <<"exposed", "top">>
  BY <1>2 DEF RunWalks, LoopWalks
<1>4. /\ s \in Series /\ s.stop = pay.threads[r].stop /\ s.id = pay.id
      /\ s.failures = pay.threads[r].failures
  BY <1>1 DEF Series
<1>5. pay.threads[r].failures < MaxFailures
  BY <1>3 DEF PayloadInv, LoopIsKnown
<1>6. SeriesMoves(pay, pay', r, s, w)
  BY <1>1 DEF Top, PayState, SeriesMoves
<1> HIDE DEF s, w
<1>7. Charged
  BY FreeOfCharge DEF PayloadInv
<1>8. /\ Typed' /\ Bounded' /\ DownIsBlank' /\ LockIsHeld' /\ JoinIsOn'
      /\ LoopIsKnown' /\ PermitIsDue' /\ MissionIsWhole' /\ TimerIsSet'
      /\ SameMission(pay, pay')
      /\ pay'.todo[r] = w /\ pay'.threads[r] = s
      /\ \A t \in Threads \ {r} : pay'.todo[t] = pay.todo[t]
      /\ \A u \in RunIds \ {r} : pay'.threads[u] = pay.threads[u]
  BY <1>3, <1>4, <1>5, <1>6, <1>7, SeriesKeeps
<1>9. w \notin {<<"expose", "top">>, <<"exposed", "top">>}
  BY DEF w
<1>10. FrameIsWhole'
  BY <1>4, <1>7, <1>8, <1>9, OtherFrames
<1> QED BY <1>8, <1>10 DEF PayloadInv

\* It goes on with the root that is there now, if the state still permits it.
LEMMA FrameIsPlacedKeeps ==
  ASSUME PayloadInv, FrameIsPlaced
  PROVE  PayloadInv'
<1>1. PICK r \in RunIds : At(pay, r, "where") /\ pay' = Where(pay, r)
  BY DEF FrameIsPlaced
<1> DEFINE w == IF Refused(pay.state) THEN <<"finish">> ELSE <<"expose", "top">>
           s == [pay.threads[r] EXCEPT !.root = pay.root]
<1>2. /\ pay \in PayState /\ Placed(pay) /\ pay.threads \in [RunIds -> Series]
      /\ pay.threads[r] \in Series /\ pay.root \in Roots
  BY DEF PayloadInv, Typed, PayState
<1>3. pay.todo[r] = <<"where", "top">>
  BY <1>1, <1>2, RunStages DEF Placed
<1>4. /\ w \in RunWalks /\ w # <<"exposed", "top">> /\ w # <<"where", "top">>
      /\ pay.todo[r] \in LoopWalks /\ pay.todo[r] # <<>>
      /\ pay.todo[r] # <<"exposed", "top">>
  BY <1>3 DEF RunWalks, LoopWalks
<1>5. /\ s \in Series /\ s.stop = pay.threads[r].stop
      /\ s.id = pay.threads[r].id /\ s.root = pay.root
      /\ s.failures = pay.threads[r].failures
  BY <1>2 DEF Series
<1>6. pay.threads[r].failures < MaxFailures
  BY <1>4 DEF PayloadInv, LoopIsKnown
<1>7. SeriesMoves(pay, pay', r, s, w)
  BY <1>1, <1>2 DEF Where, PayState, SeriesMoves
<1> HIDE DEF s, w
<1>8. Charged
  BY FreeOfCharge DEF PayloadInv, FrameIsPlaced
<1>9. /\ Typed' /\ Bounded' /\ DownIsBlank' /\ LockIsHeld' /\ JoinIsOn'
      /\ LoopIsKnown' /\ PermitIsDue' /\ MissionIsWhole' /\ TimerIsSet'
      /\ SameMission(pay, pay')
      /\ pay'.todo[r] = w /\ pay'.threads[r] = s
      /\ \A t \in Threads \ {r} : pay'.todo[t] = pay.todo[t]
      /\ \A u \in RunIds \ {r} : pay'.threads[u] = pay.threads[u]
  BY <1>4, <1>5, <1>6, <1>7, <1>8, SeriesKeeps
<1>10. ASSUME ClosesAreHeard, pay.todo["main"] \in ServingWalks,
              s.id # None, s.root # None
       PROVE  [id |-> s.id, root |-> s.root] \in Pairs
  <2>1. \/ pay.id = s.id
        \/ [id |-> s.id, root |-> pay.root] \in Pairs
        \/ pay.root = None
    BY <1>3, <1>5, <1>10 DEF PayloadInv, FrameIsWhole, FramesAreWhole
  <2>2. CASE pay.id = s.id
    <3>1. \/ pay.id = None \/ pay.root = None
          \/ [id |-> pay.id, root |-> pay.root] \in Pairs
      BY <1>10 DEF PayloadInv, MissionIsWhole, PairIsWhole
    <3> QED BY <1>5, <1>10, <2>2, <3>1
  <2> QED BY <1>5, <1>10, <2>1, <2>2
<1>11. FrameIsWhole'
  BY <1>4, <1>8, <1>9, <1>10, OtherFrames
<1> QED BY <1>9, <1>11 DEF PayloadInv

\* The end of a series: its flag is set, so nothing takes it for one that runs.
LEMMA SeriesEndsKeeps ==
  ASSUME PayloadInv, SeriesEnds
  PROVE  PayloadInv'
<1>1. PICK r \in RunIds : At(pay, r, "finish") /\ pay' = Finish(pay, r)
  BY DEF SeriesEnds
<1> DEFINE w == <<"publish">> \o Tail(pay.todo[r])
           s == [Idle EXCEPT !.stop = TRUE]
<1>2. /\ pay \in PayState /\ Placed(pay) /\ pay.threads \in [RunIds -> Series]
  BY DEF PayloadInv, Typed, PayState
<1>3. pay.todo[r] = <<"finish">>
  BY <1>1, <1>2, RunStages DEF Placed
<1>4. w = <<"publish">>
  BY <1>3, Literals
<1>5. /\ w \in RunWalks /\ w \notin LoopWalks /\ w \notin ReadingWalks
      /\ pay.todo[r] # <<>> /\ pay.todo[r] # <<"exposed", "top">>
  BY <1>3, <1>4 DEF RunWalks, LoopWalks, ReadingWalks
<1>6. s \in Series /\ s.stop = TRUE
  <2>1. 0 \in 0 .. MaxFailures /\ TRUE \in BOOLEAN
    BY ThreadSorts
  <2> QED BY <2>1, NoMissionType DEF Idle, Series
<1>7. SeriesMoves(pay, pay', r, s, w)
  BY <1>1, <1>2 DEF Finish, Then, PayState, SeriesMoves
<1> HIDE DEF s, w
<1>8. Charged
  BY FreeOfCharge DEF PayloadInv, SeriesEnds
<1>9. w # <<"exposed", "top">> /\ w # <<"where", "top">>
      /\ w \notin {<<"expose", "top">>, <<"exposed", "top">>}
  BY <1>5 DEF ReadingWalks
<1>10. /\ Typed' /\ Bounded' /\ DownIsBlank' /\ LockIsHeld' /\ JoinIsOn'
       /\ LoopIsKnown' /\ PermitIsDue' /\ MissionIsWhole' /\ TimerIsSet'
       /\ SameMission(pay, pay')
       /\ pay'.todo[r] = w /\ pay'.threads[r] = s
       /\ \A t \in Threads \ {r} : pay'.todo[t] = pay.todo[t]
       /\ \A u \in RunIds \ {r} : pay'.threads[u] = pay.threads[u]
  BY <1>5, <1>6, <1>7, <1>8, <1>9, SeriesKeeps
<1>11. FrameIsWhole'
  BY <1>8, <1>9, <1>10, OtherFrames
<1> QED BY <1>10, <1>11 DEF PayloadInv

(***************************************************************************)
(* The camera's answers.                                                   *)
(***************************************************************************)

\* Whoever exposes gives the lock back with the camera used, and its failures
\* counted if it is a series.
LEMMA UseKeeps ==
  ASSUME PayloadInv, NEW t \in Threads, NEW w, At(pay, t, "exposed"),
         pay' \in PayState, Placed(pay'), Walked(pay, pay', t, w),
         SameMission(pay, pay'), pay'.run = pay.run, pay'.joins = pay.joins,
         pay'.holder = None, Used(pay'), Charged,
         \/ /\ t = "mqtt" /\ w \in {<<"answered">>, <<"failed">>}
            /\ pay'.threads = pay.threads
         \/ /\ t \in RunIds
            /\ \E n \in 0 .. MaxFailures :
                 /\ Counts(pay, pay', t, n)
                 /\ \/ w \in {<<"answered", "top">>, <<"top">>} /\ n < MaxFailures
                    \/ w = <<"finish">>
  PROVE  PayloadInv'
<1>1. /\ pay \in PayState /\ Placed(pay) /\ pay.todo \in [Threads -> Walks]
      /\ pay.threads \in [RunIds -> Series] /\ Up
  BY BusyIsUp DEF PayloadInv, Typed, PayState
<1>2. pay'.todo[t] = w /\ \A u \in Threads \ {t} : pay'.todo[u] = pay.todo[u]
  BY <1>1 DEF Walked
<1>3. /\ t = "mqtt" => pay.todo["mqtt"] = <<"exposed">>
      /\ t \in RunIds => pay.todo[t] = <<"exposed", "top">>
      /\ t # "main"
  BY <1>1, MqttStages, RunStages, MainStages DEF Placed
<1>4. \/ pay'.todo["mqtt"] = pay.todo["mqtt"]
      \/ {pay.todo["mqtt"], pay'.todo["mqtt"]}
           \subseteq {<<"exposed">>, <<"answered">>, <<"failed">>}
  BY <1>2, <1>3, ThreadSorts
<1>5. pay'.todo["main"] = pay.todo["main"]
  BY <1>2, <1>3, ThreadSorts
<1>6. /\ \A r \in RunIds \ {t} :
           pay'.todo[r] = pay.todo[r] /\ pay'.threads[r] = pay.threads[r]
      /\ t \in RunIds =>
           /\ pay.todo[t] \in LoopWalks /\ w \notin ReadingWalks
           /\ pay'.threads[t].stop = pay.threads[t].stop
           /\ w \in LoopWalks => pay'.threads[t].failures < MaxFailures
  <2>1. CASE t = "mqtt"
    BY <1>2, <2>1, ThreadSorts
  <2>2. CASE t \in RunIds
    <3>1. PICK n \in 0 .. MaxFailures :
            /\ pay'.threads = [pay.threads EXCEPT ![t] = AfterFrame(pay.threads[t], n)]
            /\ \/ w \in {<<"answered", "top">>, <<"top">>} /\ n < MaxFailures
               \/ w = <<"finish">>
      BY <2>2, ThreadSorts DEF Counts
    <3>2. /\ pay'.threads[t] = AfterFrame(pay.threads[t], n)
          /\ \A r \in RunIds \ {t} : pay'.threads[r] = pay.threads[r]
      BY <1>1, <2>2, <3>1
    <3>3. pay'.threads[t].stop = pay.threads[t].stop /\ pay'.threads[t].failures = n
      BY <3>2 DEF AfterFrame
    <3>4. w \in LoopWalks => n < MaxFailures
      BY <3>1 DEF LoopWalks
    <3>5. pay.todo[t] \in LoopWalks /\ w \notin ReadingWalks
      BY <1>3, <2>2, <3>1 DEF LoopWalks, ReadingWalks
    <3> QED BY <1>2, <3>2, <3>3, <3>4, <3>5, ThreadSorts
  <2> QED BY <2>1, <2>2, ThreadSorts
<1>7. LockIsHeld'
  <2>1. pay.holder = t
    BY DEF PayloadInv, LockIsHeld
  <2>2. \A u \in Threads \ {t} : ~At(pay', u, "exposed")
    <3>1. \A u \in Threads \ {t} : ~At(pay, u, "exposed")
      BY <2>1 DEF PayloadInv, LockIsHeld
    <3> QED BY <1>2, <3>1 DEF At
  <2>3. ~At(pay', t, "exposed")
    <3>1. w \notin {<<"exposed">>, <<"exposed", "top">>}
      OBVIOUS
    <3> QED BY <1>2, <1>3, <3>1, MqttStages, RunStages DEF Placed, Threads
  <2>4. \A u \in Threads : (pay'.holder = u) <=> At(pay', u, "exposed")
    BY <2>2, <2>3, ThreadSorts
  <2> QED BY <2>4 DEF LockIsHeld, At
<1>8. JoinIsOn'
  <2>1. At(pay', "main", "join") <=> At(pay, "main", "join")
    BY <1>5 DEF At
  <2>2. At(pay', "mqtt", "join") <=> At(pay, "mqtt", "join")
    <3>1. \A v \in {<<"exposed">>, <<"answered">>, <<"failed">>} :
            v \notin {<<"join", "publish">>, <<"join", "publish", "publish">>}
      OBVIOUS
    <3> QED BY <1>1, <1>4, <3>1, MqttStages DEF Placed
  <2>3. /\ (pay'.joins["main"] # None) <=> At(pay', "main", "join")
        /\ (pay'.joins["mqtt"] # None) <=> At(pay', "mqtt", "join")
        /\ pay'.run # None => pay'.run \notin {pay'.joins["main"], pay'.joins["mqtt"]}
    BY <2>1, <2>2 DEF PayloadInv, JoinIsOn
  <2> QED BY <2>3 DEF JoinIsOn, At
<1>9. LoopIsKnown'
  <2> SUFFICES ASSUME NEW r \in RunIds
               PROVE  LET walk == pay'.todo[r]
                      IN  /\ walk \in LoopWalks => pay'.threads[r].failures < MaxFailures
                          /\ pay'.run = r /\ pay'.threads[r].stop => walk \notin LoopWalks
                          /\ walk \in LoopWalks /\ pay'.run # r =>
                               /\ pay'.threads[r].stop
                               /\ \/ r \in {pay'.joins["main"], pay'.joins["mqtt"]}
                                  \/ left'.timeouts < Limits.timeouts
                          /\ walk = <<"where", "top">> /\ pay'.run # r =>
                               r \in {pay'.joins["main"], pay'.joins["mqtt"]}
    BY DEF LoopIsKnown
  <2>1. /\ pay.todo[r] \in LoopWalks => pay.threads[r].failures < MaxFailures
        /\ pay.run = r /\ pay.threads[r].stop => pay.todo[r] \notin LoopWalks
        /\ pay.todo[r] \in LoopWalks /\ pay.run # r =>
             /\ pay.threads[r].stop
             /\ \/ r \in {pay.joins["main"], pay.joins["mqtt"]}
                \/ left.timeouts < Limits.timeouts
        /\ pay.todo[r] = <<"where", "top">> /\ pay.run # r =>
             r \in {pay.joins["main"], pay.joins["mqtt"]}
    BY DEF PayloadInv, LoopIsKnown
  <2>2. <<"where", "top">> \in ReadingWalks /\ left'.timeouts = left.timeouts
    BY DEF ReadingWalks, Charged
  <2> QED BY <1>2, <1>6, <2>1, <2>2
<1>10. PermitIsDue'
  <2>1. Active(pay') => Active(pay)
    <3>1. pay'.run # None => pay'.run \in RunIds
      BY DEF PayState
    <3>2. \A r \in RunIds : pay'.threads[r].stop = pay.threads[r].stop
      BY <1>6
    <3> QED BY <3>1, <3>2 DEF Active
  <2>2. pay.todo["mqtt"] \in ReconcilingWalks
          => pay'.todo["mqtt"] \in ReconcilingWalks
    BY <1>4 DEF ReconcilingWalks
  <2> QED BY <2>1, <2>2, PermitKept DEF PayloadInv, SameMission
<1>11. (pay'.todo["mqtt"] = RootWalk) <=> (pay.todo["mqtt"] = RootWalk)
  BY <1>4 DEF RootWalk
<1>12. MissionIsWhole'
  BY <1>11, MissionKept DEF PayloadInv, SameMission, Charged
<1>13. FrameIsWhole'
  <2>1. \A r \in RunIds : pay'.todo[r] \in ReadingWalks =>
          pay'.todo[r] = pay.todo[r] /\ pay'.threads[r].id = pay.threads[r].id
            /\ pay'.threads[r].root = pay.threads[r].root
    BY <1>2, <1>6
  <2> QED BY <1>5, <1>11, <2>1, FrameKept DEF PayloadInv, SameMission, Charged
<1>14. TimerIsSet'
  BY TimerKept DEF PayloadInv, Lens
<1>15. DownIsBlank'
  BY <1>1, <1>5, UpKept DEF Up
<1>16. Typed' /\ Bounded'
  BY DEF PayloadInv, Typed, Placed, Bounded, Charged
<1> QED BY <1>7, <1>8, <1>9, <1>10, <1>12, <1>13, <1>14, <1>15, <1>16 DEF PayloadInv

\* A photograph on command, answered or failed.
LEMMA PhotoKeeps ==
  ASSUME PayloadInv, Charged, At(pay, "mqtt", "exposed"),
         NEW stage \in {"answered", "failed"},
         pay' = Exposed(pay, "mqtt", <<stage>>)
  PROVE  PayloadInv'
<1> DEFINE w == <<stage>> \o Tail(pay.todo["mqtt"])
<1>1. pay \in PayState /\ Placed(pay)
  BY DEF PayloadInv, Typed
<1>2. pay.todo["mqtt"] = <<"exposed">>
  BY <1>1, MqttStages DEF Placed
<1>3. w \in {<<"answered">>, <<"failed">>}
  <2>1. Tail(pay.todo["mqtt"]) = <<>>
    BY <1>2, Literals
  <2>2. <<stage>> \o <<>> = <<stage>>
    BY Literals
  <2> QED BY <2>1, <2>2
<1>4. w \in MqttWalks
  BY <1>3 DEF MqttWalks
<1>5. /\ pay' \in PayState /\ Placed(pay')
      /\ Walked(pay, pay', "mqtt", w) /\ SameMission(pay, pay')
      /\ SameSeries(pay, pay') /\ pay'.holder = None /\ Used(pay')
  <2> DEFINE q == Exposed(pay, "mqtt", <<stage>>)
  <2>1. /\ q \in PayState /\ Placed(q)
        /\ Walked(pay, q, "mqtt", w) /\ SameMission(pay, q)
        /\ SameSeries(pay, q) /\ q.holder = None /\ q.open = TRUE
        /\ q.pending = GivesBack /\ q.firing \in SUBSET {"stale"}
    BY <1>1, <1>4, ExposedEffect, ThreadSorts
  <2>2. pay' = q
    OBVIOUS
  <2> HIDE DEF q
  <2> QED BY <2>1, <2>2 DEF Used
<1> HIDE DEF w
<1> QED BY <1>3, <1>5, UseKeeps, ThreadSorts DEF SameSeries

\* A frame that was taken.
LEMMA FrameTakenKeeps ==
  ASSUME PayloadInv, Charged, NEW r \in RunIds, At(pay, r, "exposed"),
         pay' = FrameTaken(pay, r)
  PROVE  PayloadInv'
<1> DEFINE q == FrameTaken(pay, r)
<1>1. pay \in PayState /\ Placed(pay) /\ pay.todo[r] = <<"exposed", "top">>
  BY RunStages DEF PayloadInv, Typed, Placed
<1>2. /\ q \in PayState /\ Placed(q)
      /\ Walked(pay, q, r, <<"answered", "top">>) /\ SameMission(pay, q)
      /\ q.run = pay.run /\ q.joins = pay.joins /\ Counts(pay, q, r, 0)
      /\ q.holder = None /\ q.open = TRUE
      /\ q.pending = GivesBack /\ q.firing \in SUBSET {"stale"}
  BY <1>1, FrameTakenEffect
<1>3. pay' = q
  OBVIOUS
<1> HIDE DEF q
<1>4. 0 \in 0 .. MaxFailures /\ 0 < MaxFailures
  BY ThreadSorts
<1>5. Used(pay') /\ Counts(pay, pay', r, 0)
  BY <1>2, <1>3 DEF Used
<1>6. \E n \in 0 .. MaxFailures :
        /\ Counts(pay, pay', r, n)
        /\ \/ <<"answered", "top">> \in {<<"answered", "top">>, <<"top">>}
              /\ n < MaxFailures
           \/ <<"answered", "top">> = <<"finish">>
  BY <1>4, <1>5
<1> QED BY <1>2, <1>3, <1>5, <1>6, UseKeeps, ThreadSorts

\* A frame that failed.
LEMMA FrameFailedKeeps ==
  ASSUME PayloadInv, Charged, NEW r \in RunIds, At(pay, r, "exposed"),
         pay' = FrameFailed(pay, r)
  PROVE  PayloadInv'
<1> DEFINE q == FrameFailed(pay, r)
<1>1. pay \in PayState /\ Placed(pay) /\ pay.todo[r] = <<"exposed", "top">>
  BY RunStages DEF PayloadInv, Typed, Placed
<1>2. pay.threads[r].failures < MaxFailures
  <2>1. <<"exposed", "top">> \in LoopWalks
    BY DEF LoopWalks
  <2> QED BY <1>1, <2>1 DEF PayloadInv, LoopIsKnown
<1>3. /\ q \in PayState /\ Placed(q)
      /\ \E n \in 0 .. MaxFailures :
           /\ Counts(pay, q, r, n)
           /\ \/ Walked(pay, q, r, <<"top">>) /\ n < MaxFailures
              \/ Walked(pay, q, r, <<"finish">>)
      /\ SameMission(pay, q) /\ q.run = pay.run /\ q.joins = pay.joins
      /\ q.holder = None /\ q.open = TRUE
      /\ q.pending = GivesBack /\ q.firing \in SUBSET {"stale"}
  BY <1>1, <1>2, FrameFailedEffect
<1>4. pay' = q
  OBVIOUS
<1> HIDE DEF q
<1>5. Used(pay') /\ r \in Threads
  BY <1>3, <1>4, ThreadSorts DEF Used
<1>6. PICK n \in 0 .. MaxFailures :
        /\ Counts(pay, pay', r, n)
        /\ \/ Walked(pay, pay', r, <<"top">>) /\ n < MaxFailures
           \/ Walked(pay, pay', r, <<"finish">>)
  BY <1>3, <1>4
<1>7. PICK w : /\ Walked(pay, pay', r, w)
               /\ \/ w \in {<<"answered", "top">>, <<"top">>} /\ n < MaxFailures
                  \/ w = <<"finish">>
  BY <1>6
<1>8. \E m \in 0 .. MaxFailures :
        /\ Counts(pay, pay', r, m)
        /\ \/ w \in {<<"answered", "top">>, <<"top">>} /\ m < MaxFailures
           \/ w = <<"finish">>
  BY <1>6, <1>7
<1> QED BY <1>3, <1>4, <1>5, <1>7, <1>8, UseKeeps

\* The camera's answers keep the invariant.
LEMMA CameraKeeps ==
  ASSUME PayloadInv, CameraAnswers \/ CameraFails
  PROVE  PayloadInv'
<1>1. \A t \in Threads : At(pay, t, "exposed") => t = "mqtt" \/ t \in RunIds
  BY MainStages DEF Threads, PayloadInv, Typed, Placed
<1>2. CASE CameraAnswers
  <2>1. PICK t \in Threads :
          /\ At(pay, t, "exposed")
          /\ pay' = IF t = "mqtt" THEN Exposed(pay, t, <<"answered">>)
                    ELSE FrameTaken(pay, t)
    BY <1>2 DEF CameraAnswers
  <2>2. Charged
    BY <1>2, FreeOfCharge DEF CameraAnswers, PayloadInv
  <2>3. CASE t = "mqtt"
    BY <2>1, <2>2, <2>3, PhotoKeeps
  <2>4. CASE t # "mqtt"
    BY <1>1, <2>1, <2>2, <2>4, FrameTakenKeeps
  <2> QED BY <2>3, <2>4
<1>3. CASE CameraFails
  <2>1. PICK t \in Threads :
          /\ At(pay, t, "exposed")
          /\ Spend("rare", Cost(t # "mqtt"))
          /\ pay' = IF t = "mqtt" THEN Exposed(pay, t, <<"failed">>)
                    ELSE FrameFailed(pay, t)
    BY <1>3 DEF CameraFails
  <2>2. Charged
    <3>1. (t # "mqtt") \in BOOLEAN
      OBVIOUS
    <3> QED BY <2>1, <3>1, SpendEffect, CostType DEF Kinds, PayloadInv
  <2>3. CASE t = "mqtt"
    BY <2>1, <2>2, <2>3, PhotoKeeps
  <2>4. CASE t # "mqtt"
    BY <1>1, <2>1, <2>2, <2>4, FrameFailedKeeps
  <2> QED BY <2>3, <2>4
<1> QED BY <1>2, <1>3

(***************************************************************************)
(* The theorems.                                                           *)
(***************************************************************************)

\* The invariant is inductive.
LEMMA NextKeeps ==
  ASSUME PayloadInv, [NextPayload]_payVars
  PROVE  PayloadInv'
<1>1. Typed /\ Bounded
  BY DEF PayloadInv
<1>2. CASE ~Up /\ NextPayload
  BY <1>2, DownOnlyStarts, StartsKeeps DEF PayloadInv
<1>3. CASE UNCHANGED payVars
  BY <1>3 DEF payVars, PayloadInv, Typed, Placed, Bounded, DownIsBlank, LockIsHeld,
              At, JoinIsOn, LoopIsKnown, PermitIsDue, Active, MissionPermits,
              MissionIsWhole, PairIsWhole, FrameIsWhole, FramesAreWhole,
              ClosesAreHeard, TimerIsSet
<1>4. ASSUME Up, NextPayload
      PROVE  PayloadInv'
  <2>1. CASE ProbesSensor \/ PayloadTicks
    BY <1>1, <1>4, <2>1, SensorIs, ChoreKeeps
  <2>2. CASE ProbesCamera
    BY <1>1, <1>4, <2>2, ProbeIs, ChoreKeeps
  <2>3. CASE GivesCameraBack
    BY <1>1, <1>4, <2>3, GivesBackIs, ChoreKeeps
  <2>4. CASE PayloadStops
    BY <1>1, <1>4, <2>4, NothingToDoIs, ChoreKeeps, StopsKeeps
  <2>5. CASE PayloadDies
    BY <2>5, DiesKeeps
  <2>6. CASE ObcSays
    BY <2>6, ObcSaysKeeps
  <2>7. CASE DhsSays
    BY <2>7, DhsSaysKeeps
  <2>8. CASE TakeRoot
    BY <2>8, TakeRootKeeps
  <2>9. CASE MqttReconciles
    BY <2>9, ReconcilesKeeps
  <2>10. CASE TakePhoto \/ Reconnects
    BY <1>1, <1>4, <2>10, MqttIs, ChoreKeeps
  <2>11. CASE PublishStatus
    BY <1>1, <1>4, <2>11, PublishIs, ChoreKeeps
  <2>12. CASE TakesTheLock
    BY <2>12, LockKeeps
  <2>13. CASE CardIsFull
    BY <1>1, <1>4, <2>13, CardIsFullIs, ChoreKeeps
  <2>14. CASE CameraAnswers \/ CameraFails
    BY <2>14, CameraKeeps
  <2>15. CASE NotesTheCamera
    BY <1>1, <1>4, <2>15, NotesTheCameraIs, ChoreKeeps
  <2>16. CASE JoinReturns \/ JoinTimesOut
    BY <2>16, JoinKeeps
  <2>17. CASE FrameBegins
    <3>1. PICK r \in RunIds : At(pay, r, "top") /\ pay' = Top(pay, r)
      BY <2>17 DEF FrameBegins
    <3>2. UNCHANGED left
      BY <2>17 DEF FrameBegins
    <3>3. CASE pay.threads[r].stop
      <4>1. IsChore
        BY <1>1, <3>1, <3>2, <3>3, NothingToDoIs
      <4> QED BY <1>4, <4>1, ChoreKeeps
    <3>4. CASE ~pay.threads[r].stop
      BY <3>1, <3>2, <3>4, FrameBeginsKeeps
    <3> QED BY <3>3, <3>4
  <2>18. CASE FrameIsPlaced
    BY <2>18, FrameIsPlacedKeeps
  <2>19. CASE SeriesEnds
    BY <2>19, SeriesEndsKeeps
  <2>20. CASE IdleWindowEnds \/ IdleTimerCloses
    BY <1>1, <1>4, <2>20, TimersAre, ChoreKeeps
  <2>21. ~PayloadStarts
    BY <1>4 DEF PayloadStarts
  <2> QED BY <1>4, <2>1, <2>2, <2>3, <2>4, <2>5, <2>6, <2>7, <2>8, <2>9, <2>10,
             <2>11, <2>12, <2>13, <2>14, <2>15, <2>16, <2>17, <2>18, <2>19, <2>20,
             <2>21
          DEF NextPayload
<1> QED BY <1>2, <1>3, <1>4

\* The invariant holds.
LEMMA PayloadInvariant == SpecPayload => []PayloadInv
<1>1. pay = Stopped(FALSE) /\ left = Limits => PayloadInv
  <2> SUFFICES ASSUME pay = Stopped(FALSE), left = Limits
               PROVE  PayloadInv
    OBVIOUS
  <2>1. /\ Limits.timeouts <= Limits.timeouts /\ Limits.lost <= Limits.lost
        /\ Limits \in [Kinds -> Nat]
    BY PayloadAssumption DEF Kinds
  <2>2. Blank
    BY <2>1 DEF Blank, Bounded
  <2> QED BY <2>2, StoppedIsInv
<1>2. PayloadInv /\ [NextPayload]_payVars => PayloadInv'
  BY NextKeeps
<1> QED BY <1>1, <1>2, PTL DEF SpecPayload

\* Every walk is a sequence of stages.
LEMMA WalksAreStages == Walks \subseteq Seq(Stages)
<1>1. ServingWalks \cup LeavingWalks \cup {<<>>} \subseteq Seq(Stages)
  BY DEF ServingWalks, LeavingWalks, Stages
<1>2. MqttWalks \subseteq Seq(Stages)
  BY DEF MqttWalks, ReconcilingWalks, Stages
<1>3. RunWalks \subseteq Seq(Stages)
  BY DEF RunWalks, LoopWalks, Stages
<1> QED BY <1>1, <1>2, <1>3 DEF Walks, MainWalks

\* PAYLOAD's state is of its type, and the camera's lock is held by the thread
\* that exposes and by no other (capture: "with self._lock"): a frame and a
\* photograph on command never meet at the sensor.
THEOREM PayloadTypeCorrect == SpecPayload => []PayloadTypeOK
<1>1. PayloadInv => PayloadTypeOK
  <2> SUFFICES ASSUME PayloadInv PROVE PayloadTypeOK
    OBVIOUS
  <2>1. pay \in PayState /\ left \in [Kinds -> Nat]
    BY DEF PayloadInv, Typed, Bounded
  <2>2. pay.todo \in [Threads -> Seq(Stages)]
    BY <2>1, WalksAreStages DEF PayState
  <2>3. \A t \in Threads : (pay.holder = t) = At(pay, t, "exposed")
    <3>1. \A t \in Threads : (pay.holder = t) <=> At(pay, t, "exposed")
      BY DEF PayloadInv, LockIsHeld
    <3>2. \A t \in Threads : At(pay, t, "exposed") \in BOOLEAN
      BY DEF At
    <3> QED BY <3>1, <3>2
  <2> QED BY <2>1, <2>2, <2>3 DEF PayloadTypeOK, PayState, Series
<1> QED BY <1>1, PayloadInvariant, PTL

\* One series of photographs at a time, and once every message is handled only
\* with a mission and in a state that permits it (_reconcile_mission_photos;
\* FRAME_THREAD_JOIN_TIMEOUT_SEC: "a stop issued mid-frame still returns having
\* actually stopped").
THEOREM SeriesRunAlone == SpecPayload => []OneSeries
<1>1. PayloadInv => OneSeries
  <2> SUFFICES ASSUME PayloadInv, NEW r \in RunIds, InLoop("top", r)
               PROVE  \/ /\ pay.run = r
                         /\ AtRest => pay.threads[r].stop \/ MissionPermits(pay)
                      \/ /\ pay.threads[r].stop
                         /\ AtRest /\ Serving => left.timeouts < Limits.timeouts
    BY DEF OneSeries
  <2>1. Placed(pay)
    BY DEF PayloadInv, Typed
  <2>2. pay.todo[r] \in LoopWalks
    BY <2>1, RunStages DEF InLoop, Placed
  <2>3. CASE pay.run = r
    <3>1. <<>> \notin ReconcilingWalks
      BY DEF ReconcilingWalks
    <3>2. ASSUME AtRest, ~pay.threads[r].stop
          PROVE  MissionPermits(pay)
      <4>1. Active(pay)
        BY <2>3, <3>2, CameraAssumption DEF Active
      <4> QED BY <3>1, <3>2, <4>1 DEF PayloadInv, PermitIsDue, AtRest
    <3> QED BY <2>3, <3>2
  <2>4. CASE pay.run # r
    <3>1. /\ pay.threads[r].stop
          /\ \/ r \in {pay.joins["main"], pay.joins["mqtt"]}
             \/ left.timeouts < Limits.timeouts
      BY <2>2, <2>4 DEF PayloadInv, LoopIsKnown
    <3>2. ASSUME AtRest, Serving
          PROVE  r \notin {pay.joins["main"], pay.joins["mqtt"]}
      <4>1. pay.todo["main"] \in ServingWalks
        BY <2>1, <3>2, MainStages DEF Serving, InLoop, Placed
      <4>2. <<"join", "close", "gone">> \notin ServingWalks
        BY DEF ServingWalks
      <4>3. ~At(pay, "main", "join")
        BY <2>1, <4>1, <4>2, MainStages DEF Placed
      <4>4. ~At(pay, "mqtt", "join")
        BY <3>2 DEF AtRest, At
      <4> QED BY <4>3, <4>4, ThreadSorts DEF PayloadInv, JoinIsOn
    <3> QED BY <3>1, <3>2
  <2> QED BY <2>3, <2>4
<1> QED BY <1>1, PayloadInvariant, PTL

\* Where every close was heard, a frame is filed with its own mission or under
\* the default root, never in another directory: the pair is written in two
\* pieces and read in two pieces, by two threads, and what a piece of one
\* mission can meet is only the root that is missing between two.
THEOREM TripsAreFiled == SpecPayload => []TripsKeepTheirFrames
<1>1. PayloadInv => TripsKeepTheirFrames
  <2> SUFFICES ASSUME PayloadInv, Serving, left.lost = Limits.lost,
                      NEW r \in RunIds, At(pay, r, "exposed")
               PROVE  \/ Target(r) \in Pairs \cup {None}
                      \/ Target(r).root = DefaultRoot
    BY DEF TripsKeepTheirFrames
  <2> DEFINE frame == pay.threads[r]
  <2>1. Placed(pay)
    BY DEF PayloadInv, Typed
  <2>2. pay.todo["main"] \in ServingWalks
    BY <2>1, MainStages DEF Serving, InLoop, Placed
  <2>3. pay.todo[r] = <<"exposed", "top">>
    BY <2>1, RunStages DEF Placed
  <2>4. frame.id # None /\ frame.root # None
          => [id |-> frame.id, root |-> frame.root] \in Pairs
    BY <2>2, <2>3 DEF PayloadInv, FrameIsWhole, FramesAreWhole, ClosesAreHeard
  <2>5. Target(r) = IF frame.id = None THEN None
                    ELSE [id |-> frame.id,
                          root |-> IF frame.root = None THEN DefaultRoot ELSE frame.root]
    BY DEF Target, PathFor
  <2> HIDE DEF frame
  <2> QED BY <2>4, <2>5
<1> QED BY <1>1, PayloadInvariant, PTL

\* Where a window is configured, no path that opens the camera leaves it running
\* (probe's docstring).
THEOREM OpenCameraHasTimer == SpecPayload => []CameraIsGivenBack
<1>1. PayloadInv => CameraIsGivenBack
  <2> SUFFICES ASSUME PayloadInv, GivesBack, pay.open, ~pay.pending,
                      "current" \notin pay.firing
               PROVE  \E t \in Threads : At(pay, t, "exposed")
    BY DEF CameraIsGivenBack
  <2>1. pay.holder # None
    BY DEF PayloadInv, TimerIsSet
  <2>2. pay.holder \in Threads
    BY <2>1 DEF PayloadInv, Typed, PayState
  <2> QED BY <2>2 DEF PayloadInv, LockIsHeld
<1> QED BY <1>1, PayloadInvariant, PTL

\* What a step may do to the camera: leave it as it is, use it, give it back by
\* a stop, or let a timer run out or act; or the process is at its end.
LEMMA StepLens ==
  ASSUME PayloadInv, NextPayload
  PROVE  \/ Lens(pay, pay') \/ pay'.open = pay.open \/ pay'.open = TRUE
         \/ pay'.todo["main"] = <<>>
<1>1. Typed /\ Bounded /\ pay \in PayState /\ Placed(pay)
  BY DEF PayloadInv, Typed
<1>2. CASE \/ ProbesSensor \/ ProbesCamera \/ PayloadTicks \/ GivesCameraBack
           \/ TakePhoto \/ Reconnects \/ PublishStatus \/ CardIsFull
           \/ NotesTheCamera \/ IdleWindowEnds \/ IdleTimerCloses
  BY <1>1, <1>2, SensorIs, ProbeIs, GivesBackIs, MqttIs, PublishIs, CardIsFullIs,
     NotesTheCameraIs, TimersAre
     DEF IsChore
<1>3. CASE PayloadDies
  <2>1. pay'.todo["main"] = <<>>
    BY <1>3, ThreadSorts DEF PayloadDies, Stopped
  <2> QED BY <2>1
<1>4. CASE PayloadStarts \/ ObcSays \/ DhsSays \/ TakeRoot
  BY <1>1, <1>4 DEF PayloadStarts, ObcSays, DhsSays, TakeRoot, Handle, Then, PayState
<1>5. CASE PayloadStops
  BY <1>1, <1>5 DEF PayloadStops, StopMissionPhotos, PayState
<1>6. CASE MqttReconciles
  BY <1>1, <1>6 DEF MqttReconciles, Reconcile, StartMissionPhotos, StopMissionPhotos,
                    Then, PayState
<1>7. CASE TakesTheLock
  BY <1>1, <1>7 DEF TakesTheLock, Expose, Then, PayState
<1>8. CASE JoinReturns \/ JoinTimesOut
  BY <1>1, <1>8 DEF JoinReturns, JoinTimesOut, Joined, Then, PayState
<1>9. CASE FrameBegins \/ FrameIsPlaced
  BY <1>1, <1>9 DEF FrameBegins, FrameIsPlaced, Top, Where, PayState
<1>10. CASE SeriesEnds
  BY <1>1, <1>10 DEF SeriesEnds, Finish, Then, PayState
<1>11. CASE CameraAnswers \/ CameraFails
  <2>1. \A t, stages : Exposed(pay, t, stages).open = TRUE
    BY <1>1 DEF Exposed, ArmIdleClose, NewGeneration, Then, PayState
  <2>2. \A t : FrameTaken(pay, t).open = Exposed(pay, t, <<"answered">>).open
    BY <1>1 DEF FrameTaken, Exposed, ArmIdleClose, NewGeneration, Then, PayState
  <2>3. \A t : FrameFailed(pay, t).open = Exposed(pay, t, <<>>).open
    BY <1>1 DEF FrameFailed, Exposed, ArmIdleClose, NewGeneration, Then, PayState
  <2> QED BY <1>11, <2>1, <2>2, <2>3 DEF CameraAnswers, CameraFails
<1> QED BY <1>2, <1>3, <1>4, <1>5, <1>6, <1>7, <1>8, <1>9, <1>10, <1>11
        DEF NextPayload

\* The camera is not closed within an idle window of its last use, however late
\* an earlier timer gets the lock; only a stop of the service does that.
THEOREM CameraStaysWarm == SpecPayload => WarmIsLeftOpen
<1> DEFINE Warm == pay.open /\ ~pay'.open /\ pay.pending =>
                     At(pay, "main", "close") \/ pay'.todo["main"] = <<>>
<1>1. PayloadInv /\ [NextPayload]_payVars => [Warm]_payVars
  <2> SUFFICES ASSUME PayloadInv, NextPayload, pay.open, ~pay'.open, pay.pending
               PROVE  At(pay, "main", "close") \/ pay'.todo["main"] = <<>>
    OBVIOUS
  <2>1. "current" \notin pay.firing
    BY DEF PayloadInv, TimerIsSet
  <2>2. Lens(pay, pay') \/ pay'.todo["main"] = <<>>
    BY StepLens
  <2> QED BY <2>1, <2>2 DEF Lens, SameLens, Used, GivenBack, Waited, Timed
<1> HIDE DEF Warm
<1>2. SpecPayload => [][Warm]_payVars
  BY <1>1, PayloadInvariant, PTL DEF SpecPayload
<1> QED BY <1>2 DEF Warm, WarmIsLeftOpen
=============================================================================
