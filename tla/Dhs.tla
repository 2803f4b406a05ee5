--------------------------------- MODULE Dhs ---------------------------------
(***************************************************************************)
(* dhs/service.py: the recorder.  It opens a mission while OBC says that   *)
(* the satellite flies under a profile that is recorded, files what the    *)
(* subsystems publish under it, and ends it when either stops.             *)
(*                                                                         *)
(* The handlers and the tick run under one lock and are one step each, as  *)
(* methods over the state.  What the base class does with an obc_status    *)
(* before it takes the lock, on the broker's thread, is not: the profile,  *)
(* the mission state and the handler are three steps, and the tick may     *)
(* come between any of them.                                               *)
(*                                                                         *)
(* Every write may fail, alone or with others: a handler is given the set  *)
(* `bad` of the writes that fail in it.  A process that dies inside a      *)
(* handler leaves what a failure of all that would have followed leaves.   *)
(*                                                                         *)
(* What the process remembers:                                             *)
(*   phase        down; connected, before on_start; serving; stopping,     *)
(*                after on_stop, while messages still arrive               *)
(*   profile, state      as absorbed from obc_status                       *)
(*   persistence  the database the profile asks for, or None               *)
(*   absorbing    the obc_status between absorption and handler, or None   *)
(*   path         _db_path, with _conn, _store and _recorder               *)
(*   refused      _db_refused                                              *)
(*   mission      _mission, with the database it was opened in             *)
(*   buffers      the samples not yet written, oldest first                *)
(*   lapsed       a mission's end could not be written in this life        *)
(* and, beyond its life:                                                   *)
(*   card         the databases                                            *)
(*   said         the retained dhs_status: the mission and the database    *)
(* `bus` is what is retained for it: the last obc_status, `told`, and the  *)
(* profile in the last host_status, `host`; `left` is the bound on what    *)
(* the environment may still do.                                           *)
(***************************************************************************)
EXTENDS Archive

CONSTANTS
  PersistenceOf,      \* profile -> the database it is recorded in, or None
  MissionDb,          \* comms.db, the archive when none is open
  DeleteForbiddenIn,  \* DELETE_FORBIDDEN_IN
  Capacity,           \* log -> how many samples its buffer holds
  States,             \* the mission states OBC may announce
  Mishaps,            \* what may fail: writes, and "link" for the connection
  Flown,              \* the profile the satellite stands by with at first
  Limits              \* how often each thing of the environment may happen

RecordingStates == {"NOMINAL", "LOW_POWER", "SAFE"}
Writes == {"attitude", "radio", "row", "open", "close", "recover", "connect",
           "purge", "delete", "photos"}
Kinds == {"says", "switches", "photos", "rare"}
Status == [profile: Profiles \cup {None}, state: States]

ASSUME DhsAssumption ==
  /\ PersistenceOf \in [Profiles -> Dbs \cup {None}]
  /\ MissionDb \in Dbs
  /\ DeleteForbiddenIn \subseteq Profiles
  /\ Capacity \in [Logs -> Nat \ {0}]
  /\ States \subseteq MissionState
  /\ Mishaps \subseteq Writes \cup {"link"}
  /\ Flown \in Profiles /\ "STANDBY" \in States
  /\ Limits \in [Kinds -> Nat]
  /\ None \notin [id: Ids, profile: Profiles, db: Dbs]
  /\ None \notin [status: Status, stage: {"state", "handle"}]
  /\ None \notin Status

VARIABLES dhs, bus, left

\* The writes that may fail in a handler, and what each event uses up.
Fails == SUBSET (Mishaps \cap Writes)
Cost(bad) == IF bad = {} THEN 0 ELSE 1
Spend(kind, n) == left[kind] >= n /\ left' = [left EXCEPT ![kind] = @ - n]

\* A process that has just been started.
Restarted(r) ==
  [r EXCEPT !.phase = "down", !.profile = None, !.state = None,
            !.persistence = None, !.absorbing = None, !.path = None,
            !.refused = None, !.mission = None, !.lapsed = FALSE,
            !.buffers = [log \in Logs |-> <<>>]]

InitDhs ==
  Restarted([ phase |-> "down", profile |-> None, state |-> None,
              persistence |-> None, absorbing |-> None, path |-> None,
              refused |-> None, mission |-> None, lapsed |-> FALSE,
              buffers |-> [log \in Logs |-> <<>>],
              card |-> [d \in Dbs |-> EmptyDatabase],
              said |-> [mission |-> None, database |-> None] ])

\* _publish_status: the counts, the sizes and the last delete are left out.
PublishDhs(r) ==
  [r EXCEPT !.said = [mission  |-> IF r.mission = None THEN None ELSE r.mission.id,
                      database |-> r.path]]

(***************************************************************************)
(* Samples.                                                                *)
(***************************************************************************)

\* Mutant: a buffer without its cap.
OfferUncapped(r, log) ==
  IF r.mission = None THEN r
  ELSE [r EXCEPT !.buffers[log] =
          Append(@, [db |-> r.mission.db, id |-> r.mission.id, log |-> log])]

\* _offer_attitude and _offer_radio: a sample belongs to the mission that is
\* open when it is taken; past the cap the oldest go.
Offer(r, log) ==
  IF r.mission = None THEN r
  ELSE LET all == Append(r.buffers[log],
                         [db |-> r.mission.db, id |-> r.mission.id, log |-> log])
       IN  [r EXCEPT !.buffers[log] =
              IF Len(all) > Capacity[log] THEN Tail(all) ELSE all]

\* _flush_attitude and _flush_radio: what cannot be written is put back.
FlushLog(r, log, bad) ==
  IF r.path = None \/ log \in bad \/ ~Accepts(r.card[r.path], r.buffers[log])
  THEN r
  ELSE [r EXCEPT !.buffers[log] = <<>>,
                 !.card[r.path] = BatchWritten(@, r.buffers[log])]

FlushLogs(r, bad) == FlushLog(FlushLog(r, "attitude", bad), "radio", bad)

\* _row_tick, the write of it.
RowTick(r, bad) ==
  IF r.mission = None \/ r.path = None \/ "row" \in bad THEN r
  ELSE [r EXCEPT !.card[r.path] = RowWritten(@, r.mission.id)]

(***************************************************************************)
(* The mission and the database.                                           *)
(***************************************************************************)
MayRecord(r) ==
  r.persistence # None /\ r.profile # None /\ r.state \in RecordingStates

EndReasonNow(r) ==
  IF r.state = "CRITICAL" THEN "BATTERY_CRITICAL" ELSE "PROFILE_CHANGE"

\* Mutant: a mission that ends before its samples are written.
CloseWithoutFlush(r, reason, bad) ==
  IF r.mission = None THEN r
  ELSE PublishDhs(
         IF r.path = None \/ "close" \in bad
         THEN [r EXCEPT !.mission = None, !.lapsed = @ \/ r.path # None]
         ELSE [r EXCEPT !.mission = None,
                        !.card[r.path] = Closed(@, r.mission.id, reason)])

\* _close_mission: its samples first; recording stops whatever the card says.
CloseMission(r, reason, bad) ==
  IF r.mission = None THEN r
  ELSE LET stopped == [FlushLogs(r, bad) EXCEPT !.mission = None]
       IN  PublishDhs(
             IF r.path = None \/ "close" \in bad
             THEN [stopped EXCEPT !.lapsed = TRUE]
             ELSE [stopped EXCEPT !.card[r.path] =
                     Closed(@, r.mission.id, reason)])

\* _open_mission, as far as the model has ids.
OpenMission(r, bad) ==
  LET db == r.card[r.path]
  IN  IF "open" \in bad \/ NextId(db) > MaxMissions THEN r
      ELSE PublishDhs(
             [r EXCEPT !.mission = [id |-> NextId(db), profile |-> r.profile,
                                    db |-> r.path],
                       !.card[r.path] = Opened(@, r.profile)])

\* _purge: rows and stamps in one transaction, then the photographs.
PurgeOpen(r, bad) ==
  IF r.path = None \/ "purge" \in bad THEN r
  ELSE LET db == r.card[r.path]
       IN  [r EXCEPT !.card[r.path] =
              IF "photos" \in bad THEN Purged(db)
              ELSE WithoutPhotos(Purged(db), AgedOut(db))]

\* _recover_orphans
RecoverOpen(r, bad) ==
  IF "recover" \in bad
  THEN [r EXCEPT !.lapsed = @ \/ Unended(r.card[r.path]) # {}]
  ELSE [r EXCEPT !.card[r.path] = Recovered(@)]

\* Mutant: the orphans of a database are looked for only by a fresh process.
EnsureUnrecovered(r, bad) ==
  IF r.persistence \in {None, r.refused, r.path} THEN r
  ELSE IF "connect" \in bad
       THEN PublishDhs([r EXCEPT !.path = None, !.refused = r.persistence])
       ELSE PurgeOpen([r EXCEPT !.path = r.persistence,
                                !.card[r.persistence].exists = TRUE], bad)

\* _ensure_database: a database that failed to open stays refused.
EnsureDatabase(r, bad) ==
  IF r.persistence \in {None, r.refused, r.path} THEN r
  ELSE IF "connect" \in bad
       THEN PublishDhs([r EXCEPT !.path = None, !.refused = r.persistence])
       ELSE PurgeOpen(RecoverOpen(
              [r EXCEPT !.path = r.persistence,
                        !.card[r.persistence].exists = TRUE], bad), bad)

\* _reconcile: the open mission in line with the profile and the state.
ReconcileDhs(r, bad) ==
  LET closed == IF MayRecord(r) THEN r ELSE CloseMission(r, EndReasonNow(r), bad)
      ready  == EnsureDatabase(closed, bad)
  IN  IF ~MayRecord(r) THEN closed
      ELSE IF ready.path # r.persistence \/ ready.mission # None THEN ready
           ELSE OpenMission(ready, bad)

\* _delete_mission with _erase: from the database that is open, or from the
\* archive, opened for the occasion.  Rows first, then the photographs.
Target(r) == IF r.path # None THEN r.path ELSE MissionDb

\* Mutant: the open mission may be deleted.
RefusesForbidden(r, id, bad) ==
  \/ r.profile \in DeleteForbiddenIn
  \/ r.path = None /\ (~r.card[MissionDb].exists \/ "connect" \in bad)
  \/ id \notin MissionsOf(r.card[Target(r)])
  \/ "delete" \in bad

Refuses(r, id, bad) ==
  \/ r.profile \in DeleteForbiddenIn
  \/ r.mission # None /\ r.mission.id = id
  \/ r.path = None /\ (~r.card[MissionDb].exists \/ "connect" \in bad)
  \/ id \notin MissionsOf(r.card[Target(r)])
  \/ "delete" \in bad

DeleteMission(r, id, bad) ==
  IF Refuses(r, id, bad) THEN PublishDhs(r)
  ELSE PublishDhs([r EXCEPT !.card[Target(r)] =
         IF "photos" \in bad THEN Deleted(@, id)
         ELSE WithoutPhotos(Deleted(@, id), {id})])

(***************************************************************************)
(* The process.                                                            *)
(***************************************************************************)

\* The base class takes the profile first, and keeps the old one for null.
Absorb(r, status) ==
  [r EXCEPT !.profile = IF status.profile = None THEN @ ELSE status.profile,
            !.absorbing = [status |-> status, stage |-> "state"]]

\* The broker delivers what it retains to a process that has just connected.
DhsConnect ==
  /\ dhs.phase = "down"
  /\ dhs' = Absorb([dhs EXCEPT !.phase = "connected"], bus.told)
  /\ UNCHANGED <<bus, left>>

DhsStart ==
  /\ dhs.phase = "connected"
  /\ \E bad \in Fails :
       /\ Spend("rare", Cost(bad))
       /\ dhs' = PublishDhs(ReconcileDhs([dhs EXCEPT !.phase = "serving"], bad))
  /\ UNCHANGED bus

\* tick: the purge is due once an hour.
Ticked(r, due, bad) ==
  LET rowed == RowTick(FlushLogs(ReconcileDhs(r, bad), bad), bad)
  IN  PublishDhs(IF due THEN PurgeOpen(rowed, bad) ELSE rowed)

DhsTick ==
  /\ dhs.phase = "serving"
  /\ \E due \in BOOLEAN, bad \in Fails :
       Spend("rare", Cost(bad)) /\ dhs' = Ticked(dhs, due, bad)
  /\ UNCHANGED bus

\* on_stop: the broker's thread goes on until the goodbye has left.
DhsStop ==
  /\ dhs.phase = "serving"
  /\ \E bad \in Fails :
       /\ Spend("rare", Cost(bad))
       /\ dhs' = [CloseMission(dhs, "SHUTDOWN", bad)
                    EXCEPT !.path = None, !.phase = "stopping"]
  /\ UNCHANGED bus

\* The end of a stop, a crash, or the end of the host.
DhsDies ==
  /\ dhs.phase # "down"
  /\ Spend("rare", 1)
  /\ dhs' = Restarted(dhs)
  /\ UNCHANGED bus

(***************************************************************************)
(* The bus.                                                                *)
(***************************************************************************)
Listening == dhs.phase # "down" /\ dhs.absorbing = None

\* What OBC may say next: the profile it has, in any state; nothing known, as
\* it starts; or the profile HOSTD has achieved, and never in flight, which is
\* SwitchStartsFromStandby of Obc.  A connection that was lost for a while
\* delivers only the last of it, and the profile may be flying by then.
Follows(status) ==
  \/ status.profile = bus.told.profile
  \/ status.profile = None /\ status.state \in {"BOOT", "STANDBY"}
  \/ /\ status.profile = bus.host
     /\ status.state \in {"STANDBY", "CRITICAL"} \/ "link" \in Mishaps

ObcSays ==
  /\ \E status \in {s \in Status : Follows(s)} :
       /\ bus' = [bus EXCEPT !.told = status]
       /\ \/ dhs.phase = "down" /\ UNCHANGED dhs
          \/ Listening /\ dhs' = Absorb(dhs, status)
  /\ Spend("says", 1)

AbsorbState ==
  /\ dhs.absorbing # None /\ dhs.absorbing.stage = "state"
  /\ dhs' = [dhs EXCEPT !.state = dhs.absorbing.status.state,
                        !.absorbing.stage = "handle"]
  /\ UNCHANGED <<bus, left>>

\* _on_obc_status
OnObcStatus(r, bad) ==
  LET profile == r.absorbing.status.profile
  IN  ReconcileDhs([r EXCEPT !.absorbing = None,
                             !.persistence = IF profile = None THEN None
                                             ELSE PersistenceOf[profile]], bad)

HandleObcStatus ==
  /\ dhs.absorbing # None /\ dhs.absorbing.stage = "handle"
  /\ \E bad \in Fails :
       Spend("rare", Cost(bad)) /\ dhs' = OnObcStatus(dhs, bad)
  /\ UNCHANGED bus

\* _on_host_status: a mission of a profile the host has left is closed.
OnDhsHostStatus(r, profile, bad) ==
  IF r.mission = None \/ r.mission.profile = profile THEN r
  ELSE CloseMission(r, "PROFILE_CHANGE", bad)

HostSays ==
  \E profile \in Profiles, bad \in Fails :
    /\ left.switches > 0 /\ left.rare >= Cost(bad)
    /\ left' = [left EXCEPT !.switches = @ - 1, !.rare = @ - Cost(bad)]
    /\ bus' = [bus EXCEPT !.host = profile]
    /\ \/ dhs.phase = "down" /\ UNCHANGED dhs
       \/ Listening /\ dhs' = OnDhsHostStatus(dhs, profile, bad)

SampleArrives ==
  /\ Listening
  /\ Spend("rare", 1)
  /\ \E log \in Logs : dhs' = Offer(dhs, log)
  /\ UNCHANGED bus

GroundDeletes ==
  /\ Listening
  /\ \E id \in Ids, bad \in Fails :
       Spend("rare", 1 + Cost(bad)) /\ dhs' = DeleteMission(dhs, id, bad)
  /\ UNCHANGED bus

(***************************************************************************)
(* The card: PAYLOAD files photographs under the mission it was last told  *)
(* of, and days pass.                                                      *)
(***************************************************************************)
PayloadFiles ==
  /\ dhs.said.mission # None /\ dhs.said.database # None
  /\ Spend("photos", 1)
  /\ dhs' = [dhs EXCEPT !.card[dhs.said.database].photos =
                @ \cup {dhs.said.mission}]
  /\ UNCHANGED bus

DaysPass ==
  /\ Spend("rare", 1)
  /\ \E d \in Dbs : \E id \in MissionsOf(dhs.card[d]) :
       /\ ~(dhs.mission # None /\ dhs.mission.db = d /\ dhs.mission.id = id)
       /\ dhs' = [dhs EXCEPT !.card[d].missions[id].old = TRUE]
  /\ UNCHANGED bus

NextDhs ==
  \/ DhsConnect \/ DhsStart \/ DhsTick \/ DhsStop \/ DhsDies
  \/ ObcSays \/ AbsorbState \/ HandleObcStatus \/ HostSays
  \/ SampleArrives \/ GroundDeletes \/ PayloadFiles \/ DaysPass

dhsVars == <<dhs, bus, left>>
SpecDhs == /\ dhs = InitDhs /\ left = Limits
           /\ bus = [told |-> [profile |-> Flown, state |-> "STANDBY"],
                     host |-> Flown]
           /\ [][NextDhs]_dhsVars

(***************************************************************************)
(* Properties.                                                             *)
(***************************************************************************)
DhsState ==
  [ phase: {"down", "connected", "serving", "stopping"},
    profile: Profiles \cup {None}, state: States \cup {None},
    persistence: Dbs \cup {None},
    absorbing: [status: Status, stage: {"state", "handle"}] \cup {None},
    path: Dbs \cup {None}, refused: Dbs \cup {None},
    mission: [id: Ids, profile: Profiles, db: Dbs] \cup {None},
    lapsed: BOOLEAN, buffers: [Logs -> Seq(Sample)], card: [Dbs -> Database],
    said: [mission: Ids \cup {None}, database: Dbs \cup {None}] ]

DhsTypeOK ==
  /\ dhs \in DhsState
  /\ \A log \in Logs : Len(dhs.buffers[log]) <= Capacity[log]
  /\ bus \in [told: Status, host: Profiles]
  /\ left \in [Kinds -> Nat]

\* The mission DHS is recording is on the card, in the database that is open,
\* and has not ended: no delete, purge, recovery or change of database takes it
\* from under the recorder.
OpenIsOnCard ==
  dhs.mission # None =>
    /\ dhs.path = dhs.mission.db
    /\ dhs.mission.id \in Unended(dhs.card[dhs.path])

\* One mission at a time: every other mission of the open database has ended,
\* unless the card refused to end one (missions.py on orphans).
OneMissionIsOpen ==
  dhs.path # None /\ ~dhs.lapsed =>
    \A id \in Unended(dhs.card[dhs.path]) :
      dhs.mission # None /\ dhs.mission.id = id

\* A mission that has ended has one end and the rows its summary counted, until
\* they age out.
SummaryAgrees ==
  \A d \in Dbs : \A id \in MissionsOf(dhs.card[d]) :
    LET row == dhs.card[d].missions[id]
    IN  row.end # None /\ ~row.old => row.summary = row.rows

Ended(db) == MissionsOf(db) \ Unended(db)

\* Two threads that race a close do not give a mission two ends, and nothing
\* takes an end back.
EndsOnce ==
  [][ \A d \in Dbs : \A id \in Ended(dhs.card[d]) \cap MissionsOf(dhs'.card[d]) :
        dhs'.card[d].missions[id].end = dhs.card[d].missions[id].end ]_dhsVars

\* A sample is only ever on record in the database, and so under the mission,
\* that was open when it was taken.
SamplesBelong ==
  \A d \in Dbs : \A s \in dhs.card[d].samples : s.db = d

\* DHS says that it is not recording, which is what OBC's poweroff waits for,
\* exactly when it is not; and no sample is left in memory by then, even if the
\* end of the mission could not be written.
NothingIsHeldBack ==
  dhs.phase \in {"serving", "stopping"} =>
    /\ dhs.said.mission = None <=> dhs.mission = None
    /\ dhs.mission = None => \A log \in Logs : dhs.buffers[log] = <<>>

\* A mission begins with nothing on the card under its id: no photograph,
\* sample or row of a mission that was deleted before it.
BeginsEmpty ==
  [][ dhs'.mission \notin {dhs.mission, None}
      => LET d == dhs'.mission.db
             id == dhs'.mission.id
         IN  /\ id \notin MissionsOf(dhs.card[d])
             /\ id \notin dhs.card[d].photos
             /\ \A s \in dhs.card[d].samples : s.id # id ]_dhsVars

\* Photographs leave the card only with their own mission's rows: it has just
\* been deleted, or has ended and aged out in this very step.
PhotosAreFenced ==
  [][ \A d \in Dbs : \A id \in dhs.card[d].photos \ dhs'.card[d].photos :
        \/ id \notin MissionsOf(dhs'.card[d])
        \/ LET row == dhs'.card[d].missions[id]
           IN  row.end # None /\ row.purged /\ row.rows = 0
               /\ ~dhs.card[d].missions[id].purged ]_dhsVars
=============================================================================
