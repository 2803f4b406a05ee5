------------------------------- MODULE Archive -------------------------------
(***************************************************************************)
(* What DHS keeps on the card: one of its databases, and the directories   *)
(* of photographs beside it.  dhs/missions.py, dhs/recorder.py and         *)
(* dhs/retention.py as operators on a database; each is one transaction,   *)
(* which the caller attempts or sees fail as a whole.                      *)
(*                                                                         *)
(*   exists    the file is there                                           *)
(*   next      the id the next mission gets                                *)
(*   missions  id -> its row, for the missions that have one               *)
(*   samples   the attitude samples and radio events on record             *)
(*   photos    the ids that have a directory of photographs                *)
(* A mission's row:                                                        *)
(*   profile   what it was recorded under                                  *)
(*   end       end_reason, None while ended_at is null                     *)
(*   rows      how many telemetry rows are on record, up to MaxRows        *)
(*   summary   the count that closing it left on the row, or None          *)
(*   old       its rows, and its end if it has one, are past the horizon   *)
(*   purged    purged_at                                                   *)
(* A mission ages as a whole, and fixes, tracks and labels are left out.   *)
(***************************************************************************)
EXTENDS CubesatTypes

CONSTANTS
  Dbs,           \* comms.db and diag.db
  MaxMissions,   \* a bound of the model on the missions of a database
  MaxRows        \* and on the telemetry rows of a mission

EndReason == {"PROFILE_CHANGE", "BATTERY_CRITICAL", "SHUTDOWN", "INTERRUPTED"}
Logs      == {"attitude", "radio"}
Ids       == 1 .. MaxMissions

\* A sample carries its mission's id, as the column does.  `db` is the
\* database that mission is in, which nothing writes down.
Sample == [db: Dbs, id: Ids, log: Logs]

MissionRow ==
  [ profile: Profiles, end: EndReason \cup {None}, rows: 0 .. MaxRows,
    summary: (0 .. MaxRows) \cup {None}, old: BOOLEAN, purged: BOOLEAN ]

Database ==
  [ exists: BOOLEAN, next: 1 .. MaxMissions + 1,
    missions: UNION {[S -> MissionRow] : S \in SUBSET Ids},
    samples: SUBSET Sample, photos: SUBSET Ids ]

ASSUME ArchiveAssumption ==
  /\ MaxMissions \in Nat /\ MaxRows \in Nat
  /\ None \notin Dbs /\ None \notin EndReason

EmptyDatabase ==
  [exists |-> FALSE, next |-> 1, missions |-> <<>>, samples |-> {}, photos |-> {}]

MissionsOf(db) == DOMAIN db.missions
Unended(db)    == {i \in MissionsOf(db) : db.missions[i].end = None}

\* Mutant: an id that is only one past the highest still listed.
NextUnlisted(db) ==
  LET listed == MissionsOf(db) \cup {0}
  IN  CHOOSE i \in 1 .. MaxMissions + 1 :
        i - 1 \in listed /\ \A j \in listed : j < i

\* AUTOINCREMENT: an id is never issued twice.
NextId(db) == db.next

\* MissionStore.open
Opened(db, profile) ==
  LET id  == NextId(db)
      row == [profile |-> profile, end |-> None, rows |-> 0, summary |-> None,
              old |-> FALSE, purged |-> FALSE]
  IN  [db EXCEPT !.next = IF id >= @ THEN id + 1 ELSE @,
                 !.missions = [i \in MissionsOf(db) \cup {id} |->
                                 IF i = id THEN row ELSE @[i]]]

\* MissionStore.close, now: the UPDATE of an id that is not there changes
\* nothing.
Closed(db, id, reason) ==
  IF id \notin MissionsOf(db) THEN db
  ELSE [db EXCEPT !.missions[id].end = reason, !.missions[id].old = FALSE,
                  !.missions[id].summary = db.missions[id].rows]

\* Mutant: recovery closes what it finds, ended or not.
RecoveredAll(db) ==
  [db EXCEPT !.missions = [i \in MissionsOf(db) |->
     [@[i] EXCEPT !.end = "INTERRUPTED", !.summary = db.missions[i].rows]]]

\* Mutant: recovery that writes the end and forgets the summary.
RecoveredBare(db) ==
  [db EXCEPT !.missions = [i \in MissionsOf(db) |->
     IF i \in Unended(db) THEN [@[i] EXCEPT !.end = "INTERRUPTED"] ELSE @[i]]]

\* recover_orphans: each is closed at its last row, however old that is.
Recovered(db) ==
  [db EXCEPT !.missions = [i \in MissionsOf(db) |->
     IF i \in Unended(db)
     THEN [@[i] EXCEPT !.end = "INTERRUPTED", !.summary = db.missions[i].rows]
     ELSE @[i]]]

\* MissionStore.delete: the detail first, the mission last, one transaction.
Deleted(db, id) ==
  [db EXCEPT !.missions = [i \in MissionsOf(db) \ {id} |-> @[i]],
             !.samples = {s \in @ : s.id # id}]

\* Recorder.write, of a row that names a mission.
RowWritten(db, id) ==
  IF id \notin MissionsOf(db) \/ db.missions[id].rows = MaxRows THEN db
  ELSE [db EXCEPT !.missions[id].rows = @ + 1]

\* write_attitude and write_radio: all or nothing.  A sample whose mission is
\* not in this database is refused by the foreign key, and the batch with it.
Accepts(db, batch) == \A i \in DOMAIN batch : batch[i].id \in MissionsOf(db)
BatchWritten(db, batch) ==
  [db EXCEPT !.samples = @ \cup {batch[i] : i \in DOMAIN batch}]

\* Mutant: a mission that was never ended ages out with the others.
AgedOutUnended(db) ==
  {i \in MissionsOf(db) : db.missions[i].old /\ ~db.missions[i].purged}

\* _fully_aged_out, once the old rows are gone.
AgedOut(db) ==
  {i \in MissionsOf(db) : /\ db.missions[i].old /\ ~db.missions[i].purged
                          /\ db.missions[i].end # None}

\* purge: old detail goes, and the missions that aged out are stamped.
RowPurged(db, id) ==
  [db.missions[id] EXCEPT !.rows = IF db.missions[id].old THEN 0 ELSE @,
                          !.purged = @ \/ id \in AgedOut(db)]

Purged(db) ==
  [db EXCEPT
     !.missions = [id \in MissionsOf(db) |-> RowPurged(db, id)],
     !.samples = {s \in @ : s.id \in MissionsOf(db) => ~db.missions[s.id].old}]

\* remove_photos
WithoutPhotos(db, ids) == [db EXCEPT !.photos = @ \ ids]
=============================================================================
