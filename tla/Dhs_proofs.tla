------------------------------ MODULE Dhs_proofs ------------------------------
(***************************************************************************)
(* Proofs about Dhs, for any profiles, databases, missions and bounds of   *)
(* the environment.  The transactions of Archive are looked at once, as    *)
(* operators on one database; then the methods of the recorder, as         *)
(* operators on its state; then the actions.                               *)
(***************************************************************************)
EXTENDS Dhs, TLAPS

(***************************************************************************)
(* One database.                                                           *)
(***************************************************************************)

\* Everything on record carries an id that has been issued.
Issued(db) ==
  /\ \A id \in MissionsOf(db) : id < db.next
  /\ \A id \in db.photos : id < db.next
  /\ \A s \in db.samples : s.id < db.next

\* What SummaryAgrees says of one database.
Agrees(db) ==
  \A id \in MissionsOf(db) :
    LET row == db.missions[id]
    IN  row.end # None /\ ~row.old => row.summary = row.rows

\* What no number of transactions may do to a database `a`: issue an id again,
\* change an end or add to what has ended, take back a stamp, or remove the
\* photographs of a mission that has neither gone nor aged out since.
Onward(a, b) ==
  /\ a.next <= b.next
  /\ \A id \in MissionsOf(b) : id \in MissionsOf(a) \/ a.next <= id
  /\ \A id \in MissionsOf(a) \cap MissionsOf(b) :
       /\ a.missions[id].end # None =>
            /\ b.missions[id].end = a.missions[id].end
            /\ b.missions[id].rows <= a.missions[id].rows
       /\ a.missions[id].purged => b.missions[id].purged
  /\ \A id \in a.photos \ b.photos :
       \/ id \notin MissionsOf(b)
       \/ /\ b.missions[id].end # None /\ b.missions[id].purged
          /\ b.missions[id].rows = 0 /\ ~a.missions[id].purged

\* The rows of a database, as functions on the missions it lists.
MissionTable == UNION {[S -> MissionRow] : S \in SUBSET Ids}

\* A table lists missions and has a row for each.
LEMMA TableShape ==
  ASSUME NEW m \in MissionTable
  PROVE  /\ DOMAIN m \subseteq Ids
         /\ m \in [DOMAIN m -> MissionRow]
         /\ \A id \in DOMAIN m : m[id] \in MissionRow
BY DEF MissionTable

\* And whatever does is a table.
LEMMA TableMade ==
  ASSUME NEW S \in SUBSET Ids, NEW m \in [S -> MissionRow]
  PROVE  m \in MissionTable /\ DOMAIN m = S
BY DEF MissionTable

\* The fields of a database.
LEMMA DatabaseShape ==
  ASSUME NEW db \in Database
  PROVE  /\ db.exists \in BOOLEAN /\ db.next \in 1 .. MaxMissions + 1
         /\ db.missions \in MissionTable
         /\ db.samples \in SUBSET Sample /\ db.photos \in SUBSET Ids
         /\ MissionsOf(db) \subseteq Ids /\ Unended(db) \subseteq MissionsOf(db)
         /\ \A id \in MissionsOf(db) : db.missions[id] \in MissionRow
         /\ db.next \in Nat /\ Ids \subseteq Nat /\ MaxMissions \in Nat /\ MaxRows \in Nat
BY TableShape, ArchiveAssumption
   DEF Database, MissionTable, MissionsOf, Unended, Ids

\* An empty database is one, and has nothing to agree about.
LEMMA EmptyIsSound ==
  /\ EmptyDatabase \in Database
  /\ Issued(EmptyDatabase) /\ Agrees(EmptyDatabase)
  /\ MissionsOf(EmptyDatabase) = {} /\ EmptyDatabase.samples = {}
<1>1. <<>> \in [{} -> MissionRow] /\ DOMAIN <<>> = {}
  OBVIOUS
<1>2. <<>> \in MissionTable
  BY <1>1, TableMade
<1> QED BY <1>1, <1>2, ArchiveAssumption
        DEF EmptyDatabase, Database, MissionTable, Issued, Agrees, MissionsOf

\* Nothing happening is a way to go on.
LEMMA OnwardSame ==
  ASSUME NEW a \in Database
  PROVE  Onward(a, a)
<1>1. \A id \in MissionsOf(a) : a.missions[id].rows \in Int
  BY DatabaseShape DEF MissionRow
<1> QED BY <1>1, DatabaseShape DEF Onward

\* Going on twice is going on.
LEMMA OnwardTrans ==
  ASSUME NEW a \in Database, NEW b \in Database, NEW c \in Database,
         Issued(a), Onward(a, b), Onward(b, c)
  PROVE  Onward(a, c)
<1>1. /\ a.next \in Nat /\ b.next \in Nat /\ c.next \in Nat
      /\ a.next <= b.next /\ b.next <= c.next
      /\ MissionsOf(a) \subseteq Nat /\ MissionsOf(b) \subseteq Nat
      /\ MissionsOf(c) \subseteq Nat /\ a.photos \subseteq Nat
  BY DatabaseShape DEF Onward
<1>2. \A id \in MissionsOf(c) : id < a.next => id \in MissionsOf(b)
  BY <1>1 DEF Onward
<1>3. \A id \in MissionsOf(b) : id < a.next => id \in MissionsOf(a)
  BY <1>1 DEF Onward
<1>4. \A id \in MissionsOf(c) : id \in MissionsOf(a) \/ a.next <= id
  BY <1>1, <1>2, <1>3
<1>5. \A id \in MissionsOf(a) : id < a.next
  BY DEF Issued
<1>6. /\ \A id \in MissionsOf(a) : a.missions[id].rows \in 0 .. MaxRows
      /\ \A id \in MissionsOf(b) : b.missions[id].rows \in 0 .. MaxRows
      /\ \A id \in MissionsOf(c) : c.missions[id].rows \in 0 .. MaxRows
  BY DatabaseShape DEF MissionRow
<1>7. \A id \in MissionsOf(a) \cap MissionsOf(c) :
        /\ id \in MissionsOf(b)
        /\ a.missions[id].end # None =>
             /\ c.missions[id].end = a.missions[id].end
             /\ c.missions[id].rows <= a.missions[id].rows
        /\ a.missions[id].purged => c.missions[id].purged
  <2> TAKE id \in MissionsOf(a) \cap MissionsOf(c)
  <2>1. id \in MissionsOf(b)
    BY <1>2, <1>5
  <2>2. /\ a.missions[id].end # None =>
             /\ b.missions[id].end = a.missions[id].end
             /\ b.missions[id].rows <= a.missions[id].rows
        /\ a.missions[id].purged => b.missions[id].purged
    BY <2>1 DEF Onward
  <2>3. /\ b.missions[id].end # None =>
             /\ c.missions[id].end = b.missions[id].end
             /\ c.missions[id].rows <= b.missions[id].rows
        /\ b.missions[id].purged => c.missions[id].purged
    BY <2>1 DEF Onward
  <2>4. /\ a.missions[id].rows \in Int /\ b.missions[id].rows \in Int
        /\ c.missions[id].rows \in Int
    BY <2>1, <1>6, DatabaseShape
  <2> QED BY <2>1, <2>2, <2>3, <2>4
<1>8. ASSUME NEW id \in a.photos \ c.photos, id \in MissionsOf(c)
      PROVE  /\ c.missions[id].end # None /\ c.missions[id].purged
             /\ c.missions[id].rows = 0 /\ ~a.missions[id].purged
  <2>1. id < a.next
    BY DEF Issued
  <2>2. id \in MissionsOf(b) /\ id \in MissionsOf(a)
    BY <1>2, <1>3, <1>8, <2>1
  <2>3. CASE id \notin b.photos
    <3>1. /\ b.missions[id].end # None /\ b.missions[id].purged
          /\ b.missions[id].rows = 0 /\ ~a.missions[id].purged
      BY <2>2, <2>3 DEF Onward
    <3>2. /\ c.missions[id].end = b.missions[id].end
          /\ c.missions[id].rows <= b.missions[id].rows
          /\ c.missions[id].purged
      BY <1>8, <2>2, <3>1 DEF Onward
    <3>3. c.missions[id].rows \in Nat
      BY <1>6, <1>8, DatabaseShape
    <3> QED BY <3>1, <3>2, <3>3
  <2>4. CASE id \in b.photos
    <3>1. /\ c.missions[id].end # None /\ c.missions[id].purged
          /\ c.missions[id].rows = 0 /\ ~b.missions[id].purged
      BY <1>8, <2>4 DEF Onward
    <3>2. a.missions[id].purged => b.missions[id].purged
      BY <2>2 DEF Onward
    <3> QED BY <3>1, <3>2
  <2> QED BY <2>3, <2>4
<1> QED BY <1>1, <1>4, <1>7, <1>8 DEF Onward

(***************************************************************************)
(* The transactions on it: each makes a database of a database, goes on    *)
(* from it, and keeps what is issued and what the summaries say.           *)
(***************************************************************************)
SoundDb(db) == db \in Database /\ Issued(db) /\ Agrees(db)

\* A mission is opened under the next id, without an end and without anything
\* on the card.
LEMMA OpenedTyped ==
  ASSUME NEW db \in Database, NEW profile \in Profiles, db.next <= MaxMissions
  PROVE  LET new == Opened(db, profile)
         IN  /\ new \in Database /\ new.next = db.next + 1
             /\ MissionsOf(new) = MissionsOf(db) \cup {db.next}
             /\ new.missions[db.next].end = None
             /\ \A id \in MissionsOf(db) :
                  id # db.next => new.missions[id] = db.missions[id]
             /\ new.samples = db.samples /\ new.photos = db.photos
<1> DEFINE id == db.next
           row == [profile |-> profile, end |-> None, rows |-> 0,
                   summary |-> None, old |-> FALSE, purged |-> FALSE]
           m == [i \in MissionsOf(db) \cup {id} |->
                   IF i = id THEN row ELSE db.missions[i]]
           new == Opened(db, profile)
<1>1. id \in Ids /\ id + 1 \in 1 .. MaxMissions + 1
  BY DatabaseShape DEF Ids
<1>2. row \in MissionRow
  BY ArchiveAssumption DEF MissionRow
<1>3. new = [db EXCEPT !.next = id + 1, !.missions = m]
  <2>1. (IF id >= db.next THEN id + 1 ELSE db.next) = id + 1
    BY <1>1, DatabaseShape
  <2> QED BY <2>1, Zenon DEF Opened, NextId
<1> HIDE DEF row, new
<1>4. m \in MissionTable /\ DOMAIN m = MissionsOf(db) \cup {id}
  <2>1. m \in [MissionsOf(db) \cup {id} -> MissionRow]
    BY <1>2, DatabaseShape
  <2> HIDE DEF m
  <2> QED BY <1>1, <2>1, TableMade, DatabaseShape
<1>5. /\ m[id] = row
      /\ \A i \in MissionsOf(db) : i # id => m[i] = db.missions[i]
  OBVIOUS
<1> HIDE DEF m
<1>6. /\ new \in Database /\ new.missions = m /\ new.next = id + 1
      /\ new.samples = db.samples /\ new.photos = db.photos
  BY <1>1, <1>3, <1>4 DEF Database, MissionTable
<1>7. row.end = None
  BY DEF row
<1> QED BY <1>4, <1>5, <1>6, <1>7 DEF new, MissionsOf

LEMMA OpenedSound ==
  ASSUME NEW db, SoundDb(db), NEW profile \in Profiles, db.next <= MaxMissions
  PROVE  LET new == Opened(db, profile)
         IN  /\ SoundDb(new) /\ Onward(db, new)
             /\ Unended(new) = Unended(db) \cup {db.next}
             /\ db.next \in Ids /\ db.next < new.next
<1> DEFINE new == Opened(db, profile)
           id == db.next
<1>1. db \in Database /\ Issued(db) /\ Agrees(db)
  BY DEF SoundDb
<1>2. /\ new \in Database /\ new.next = id + 1
      /\ MissionsOf(new) = MissionsOf(db) \cup {id}
      /\ new.missions[id].end = None
      /\ \A i \in MissionsOf(db) : i # id => new.missions[i] = db.missions[i]
      /\ new.samples = db.samples /\ new.photos = db.photos
  BY <1>1, OpenedTyped
<1> HIDE DEF new
<1>3. /\ id \in Nat /\ MissionsOf(db) \subseteq Nat /\ db.photos \subseteq Nat
      /\ \A s \in db.samples : s.id \in Nat
      /\ id \in Ids
  BY <1>1, DatabaseShape DEF Sample, Ids
<1>4. \A i \in MissionsOf(db) : i # id /\ new.missions[i] = db.missions[i]
  BY <1>1, <1>2, <1>3 DEF Issued
<1>5. Issued(new)
  BY <1>1, <1>2, <1>3 DEF Issued
<1>6. Agrees(new)
  BY <1>1, <1>2, <1>4 DEF Agrees
<1>7. Unended(new) = Unended(db) \cup {id}
  BY <1>2, <1>4 DEF Unended
<1>8. Onward(db, new)
  <2>1. \A i \in MissionsOf(db) : db.missions[i].rows \in Int
    BY <1>1, DatabaseShape DEF MissionRow
  <2> QED BY <1>2, <1>3, <1>4, <2>1 DEF Onward
<1> QED BY <1>2, <1>3, <1>5, <1>6, <1>7, <1>8 DEF SoundDb, new

\* A change of the rows alone: every mission keeps its place, an end once set
\* stays, and nothing is counted that has ended.
Rerowed(db, new) ==
  /\ new.exists = db.exists /\ new.next = db.next
  /\ new.photos = db.photos /\ new.samples \subseteq db.samples
  /\ MissionsOf(new) = MissionsOf(db)
  /\ \A id \in MissionsOf(db) :
       /\ new.missions[id] \in MissionRow
       /\ db.missions[id].end # None =>
            /\ new.missions[id].end = db.missions[id].end
            /\ new.missions[id].rows <= db.missions[id].rows
       /\ db.missions[id].purged => new.missions[id].purged
       /\ new.missions[id].end # None /\ ~new.missions[id].old =>
            new.missions[id].summary = new.missions[id].rows

\* A change of the rows alone leaves a sound database, further on.
LEMMA RerowedSound ==
  ASSUME NEW db, SoundDb(db), NEW new \in Database, Rerowed(db, new)
  PROVE  SoundDb(new) /\ Onward(db, new)
<1>1. db \in Database /\ Issued(db) /\ Agrees(db)
  BY DEF SoundDb
<1>2. Issued(new)
  BY <1>1 DEF Issued, Rerowed
<1>3. Agrees(new)
  BY DEF Agrees, Rerowed
<1>4. Onward(db, new)
  <2>1. db.next \in Nat
    BY <1>1, DatabaseShape
  <2> QED BY <2>1 DEF Onward, Rerowed
<1> QED BY <1>2, <1>3, <1>4 DEF SoundDb

\* Changing the table of a database, and dropping samples, makes a database.
LEMMA RetableTyped ==
  ASSUME NEW db \in Database, NEW m, DOMAIN m = MissionsOf(db),
         m \in [MissionsOf(db) -> MissionRow],
         NEW new, new.missions = m, new.exists = db.exists, new.next = db.next,
         new.photos = db.photos, new.samples \subseteq db.samples,
         new = [exists |-> new.exists, next |-> new.next, missions |-> new.missions,
                samples |-> new.samples, photos |-> new.photos]
  PROVE  new \in Database /\ MissionsOf(new) = MissionsOf(db)
<1>1. m \in MissionTable
  BY TableMade, DatabaseShape
<1>2. /\ db.exists \in BOOLEAN /\ db.next \in 1 .. MaxMissions + 1
      /\ db.samples \in SUBSET Sample /\ db.photos \in SUBSET Ids
  BY DatabaseShape
<1> QED BY <1>1, <1>2 DEF Database, MissionTable, MissionsOf


\* A mission that is closed, or not there.
LEMMA ClosedTyped ==
  ASSUME NEW db \in Database, NEW id, NEW reason \in EndReason
  PROVE  Closed(db, id, reason) \in Database
<1> DEFINE new == Closed(db, id, reason)
           row == [db.missions[id] EXCEPT !.end = reason, !.old = FALSE,
                                          !.summary = db.missions[id].rows]
           m == [db.missions EXCEPT ![id] = row]
<1>1. CASE id \notin MissionsOf(db)
  BY <1>1 DEF Closed
<1>2. CASE id \in MissionsOf(db)
  <2>1. db.missions[id] \in MissionRow
    BY <1>2, DatabaseShape
  <2>2. row \in MissionRow
    BY <2>1 DEF MissionRow
  <2>3. db.missions \in [MissionsOf(db) -> MissionRow]
    BY DatabaseShape, TableShape DEF MissionsOf
  <2> HIDE DEF row
  <2>4. DOMAIN m = MissionsOf(db) /\ m \in [MissionsOf(db) -> MissionRow]
    BY <2>2, <2>3
  <2>5. new = [db EXCEPT !.missions = m]
    BY <1>2, <2>1, <2>3 DEF Closed, row, MissionsOf, Database, MissionRow
  <2> HIDE DEF m, new
  <2>6. /\ new.missions = m /\ new.exists = db.exists /\ new.next = db.next
        /\ new.photos = db.photos /\ new.samples \subseteq db.samples
        /\ new = [exists |-> new.exists, next |-> new.next, missions |-> new.missions,
                  samples |-> new.samples, photos |-> new.photos]
    BY <2>5 DEF Database
  <2>7. new \in Database
    BY <2>4, <2>6, RetableTyped
  <2> QED BY <2>7 DEF new
<1> QED BY <1>1, <1>2

LEMMA ClosedSound ==
  ASSUME NEW db, SoundDb(db), NEW id \in Unended(db), NEW reason \in EndReason
  PROVE  LET new == Closed(db, id, reason)
         IN  /\ SoundDb(new) /\ Onward(db, new)
             /\ Unended(new) = Unended(db) \ {id}
             /\ MissionsOf(new) = MissionsOf(db) /\ new.samples = db.samples
<1> DEFINE new == Closed(db, id, reason)
<1>1. db \in Database
  BY DEF SoundDb
<1>2. id \in MissionsOf(db) /\ db.missions[id].end = None
  BY DEF Unended
<1>3. /\ \A i \in MissionsOf(db) : db.missions[i] \in MissionRow
      /\ db.missions \in [MissionsOf(db) -> MissionRow]
  BY <1>1, DatabaseShape, TableShape DEF MissionsOf
<1>4. /\ MissionsOf(new) = MissionsOf(db) /\ new.exists = db.exists
      /\ new.next = db.next /\ new.photos = db.photos /\ new.samples = db.samples
      /\ \A i \in MissionsOf(db) : i # id => new.missions[i] = db.missions[i]
      /\ new.missions[id].end = reason /\ new.missions[id].old = FALSE
      /\ new.missions[id].summary = db.missions[id].rows
      /\ new.missions[id].rows = db.missions[id].rows
      /\ new.missions[id].purged = db.missions[id].purged
  BY <1>1, <1>2, <1>3 DEF Closed, Database, MissionsOf, MissionRow
<1>5. new \in Database
  BY <1>1, ClosedTyped
<1> HIDE DEF new
<1>6. \A i \in MissionsOf(db) : db.missions[i].rows \in Int
  BY <1>3 DEF MissionRow
<1>7. \A i \in MissionsOf(new) : new.missions[i] \in MissionRow
  BY <1>5, DatabaseShape
<1>8. reason # None
  BY ArchiveAssumption
<1>9. Rerowed(db, new)
  <2>1. \A i \in MissionsOf(db) : db.missions[i].end # None /\ ~db.missions[i].old
          => db.missions[i].summary = db.missions[i].rows
    BY DEF SoundDb, Agrees
  <2> QED BY <1>2, <1>4, <1>6, <1>7, <2>1 DEF Rerowed
<1>10. Unended(new) = Unended(db) \ {id}
  BY <1>4, <1>8 DEF Unended
<1> QED BY <1>4, <1>5, <1>9, <1>10, RerowedSound DEF new

\* Recovery ends what has no end, and touches nothing else.
LEMMA RecoveredSound ==
  ASSUME NEW db \in Database
  PROVE  LET new == Recovered(db)
         IN  /\ new \in Database /\ Unended(new) = {}
             /\ SoundDb(db) => SoundDb(new) /\ Onward(db, new)
             /\ MissionsOf(new) = MissionsOf(db) /\ new.samples = db.samples
<1> DEFINE row(i) == IF i \in Unended(db)
                     THEN [db.missions[i] EXCEPT !.end = "INTERRUPTED",
                                                 !.summary = db.missions[i].rows]
                     ELSE db.missions[i]
           m == [i \in MissionsOf(db) |-> row(i)]
           new == Recovered(db)
<1>1. new = [db EXCEPT !.missions = m]
  BY DEF Recovered
<1>2. \A i \in MissionsOf(db) : db.missions[i] \in MissionRow
  BY DatabaseShape
<1>3. \A i \in MissionsOf(db) :
        /\ row(i) \in MissionRow /\ row(i).end # None
        /\ i \notin Unended(db) => row(i) = db.missions[i]
        /\ i \in Unended(db) => row(i).summary = row(i).rows
        /\ row(i).purged = db.missions[i].purged
  BY <1>2, ArchiveAssumption DEF MissionRow, EndReason, Unended
<1> HIDE DEF row
<1>4. /\ DOMAIN m = MissionsOf(db) /\ m \in [MissionsOf(db) -> MissionRow]
      /\ \A i \in MissionsOf(db) : m[i] = row(i)
  BY <1>3
<1> HIDE DEF m, new
<1>5. /\ new.missions = m /\ new.exists = db.exists /\ new.next = db.next
      /\ new.photos = db.photos /\ new.samples = db.samples
      /\ new = [exists |-> new.exists, next |-> new.next, missions |-> new.missions,
                samples |-> new.samples, photos |-> new.photos]
  BY <1>1 DEF Database
<1>6. new \in Database /\ MissionsOf(new) = MissionsOf(db)
  BY <1>4, <1>5, RetableTyped
<1>7. Unended(new) = {}
  BY <1>3, <1>4, <1>5, <1>6 DEF Unended
<1>8. ASSUME SoundDb(db)
      PROVE  Rerowed(db, new)
  <2>1. \A i \in MissionsOf(db) : db.missions[i].rows \in Int
    BY <1>2 DEF MissionRow
  <2>2. \A i \in MissionsOf(db) : db.missions[i].end # None /\ ~db.missions[i].old
          => db.missions[i].summary = db.missions[i].rows
    BY <1>8 DEF SoundDb, Agrees
  <2>3. \A i \in MissionsOf(db) : i \in Unended(db) <=> db.missions[i].end = None
    BY DEF Unended
  <2>4. \A i \in MissionsOf(db) : new.missions[i] = row(i)
    BY <1>4, <1>5
  <2> QED BY <1>3, <1>5, <1>6, <2>1, <2>2, <2>3, <2>4 DEF Rerowed
<1> QED BY <1>5, <1>6, <1>7, <1>8, RerowedSound DEF new

\* A row of telemetry is counted, to a mission that is there.
LEMMA RowWrittenTyped ==
  ASSUME NEW db \in Database, NEW id
  PROVE  LET new == RowWritten(db, id)
         IN  /\ new \in Database /\ Unended(new) = Unended(db)
             /\ SoundDb(db) /\ id \in Unended(db) =>
                  SoundDb(new) /\ Onward(db, new)
             /\ MissionsOf(new) = MissionsOf(db) /\ new.samples = db.samples
<1> DEFINE new == RowWritten(db, id)
<1>1. CASE id \notin MissionsOf(db) \/ db.missions[id].rows = MaxRows
  BY <1>1, OnwardSame DEF RowWritten
<1>2. CASE id \in MissionsOf(db) /\ db.missions[id].rows # MaxRows
  <2> DEFINE row == [db.missions[id] EXCEPT !.rows = db.missions[id].rows + 1]
             m == [db.missions EXCEPT ![id] = row]
  <2>1. db.missions[id] \in MissionRow /\ MaxRows \in Nat
    BY <1>2, DatabaseShape
  <2>2. /\ row \in MissionRow /\ row.end = db.missions[id].end
        /\ row.purged = db.missions[id].purged
    BY <1>2, <2>1 DEF MissionRow
  <2>3. db.missions \in [MissionsOf(db) -> MissionRow]
    BY DatabaseShape, TableShape DEF MissionsOf
  <2>4. new = [db EXCEPT !.missions = m]
    BY <1>2, <2>1, <2>3 DEF RowWritten, MissionsOf, Database, MissionRow
  <2> HIDE DEF row
  <2>5. /\ DOMAIN m = MissionsOf(db) /\ m \in [MissionsOf(db) -> MissionRow]
        /\ m[id] = row
        /\ \A i \in MissionsOf(db) : i # id => m[i] = db.missions[i]
    BY <1>2, <2>2, <2>3
  <2> HIDE DEF m, new
  <2>6. /\ new.missions = m /\ new.exists = db.exists /\ new.next = db.next
        /\ new.photos = db.photos /\ new.samples = db.samples
        /\ new = [exists |-> new.exists, next |-> new.next, missions |-> new.missions,
                  samples |-> new.samples, photos |-> new.photos]
    BY <2>4 DEF Database
  <2>7. new \in Database /\ MissionsOf(new) = MissionsOf(db)
    BY <2>5, <2>6, RetableTyped
  <2>8. Unended(new) = Unended(db)
    BY <1>2, <2>2, <2>5, <2>6, <2>7 DEF Unended
  <2>9. ASSUME SoundDb(db), id \in Unended(db)
        PROVE  SoundDb(new) /\ Onward(db, new)
    <3>1. row.end = None /\ db.missions[id].end = None
      BY <2>2, <2>9 DEF Unended
    <3>2. \A i \in MissionsOf(db) :
            /\ db.missions[i] \in MissionRow /\ db.missions[i].rows \in Int
            /\ db.missions[i].end # None /\ ~db.missions[i].old
                 => db.missions[i].summary = db.missions[i].rows
      BY <2>9, DatabaseShape DEF SoundDb, Agrees, MissionRow
    <3>3. Rerowed(db, new)
      BY <2>2, <2>5, <2>6, <2>7, <3>1, <3>2 DEF Rerowed
    <3> QED BY <2>7, <2>9, <3>3, RerowedSound
  <2> QED BY <2>6, <2>7, <2>8, <2>9 DEF new
<1> QED BY <1>1, <1>2

\* A purge forgets old detail and stamps what aged out.
LEMMA PurgedTyped ==
  ASSUME NEW db \in Database
  PROVE  LET new == Purged(db)
         IN  /\ new \in Database /\ Unended(new) = Unended(db)
             /\ SoundDb(db) => Rerowed(db, new)
             /\ MissionsOf(new) = MissionsOf(db) /\ new.samples \subseteq db.samples
             /\ new.photos = db.photos
             /\ \A id \in AgedOut(db) :
                  /\ new.missions[id].end # None /\ new.missions[id].purged
                  /\ new.missions[id].rows = 0 /\ ~db.missions[id].purged
<1> DEFINE row(i) == RowPurged(db, i)
           m == [i \in MissionsOf(db) |-> row(i)]
           kept == {s \in db.samples : s.id \in MissionsOf(db) => ~db.missions[s.id].old}
           new == Purged(db)
<1>1. new = [db EXCEPT !.missions = m, !.samples = kept]
  BY DEF Purged
<1>2. \A i \in MissionsOf(db) : db.missions[i] \in MissionRow
  BY DatabaseShape
<1>3. MaxRows \in Nat
  BY ArchiveAssumption
<1>5. ASSUME NEW i \in MissionsOf(db)
      PROVE  /\ row(i) \in MissionRow /\ row(i).end = db.missions[i].end
             /\ row(i).old <=> db.missions[i].old
             /\ row(i).summary = db.missions[i].summary
             /\ row(i).rows = (IF db.missions[i].old THEN 0 ELSE db.missions[i].rows)
             /\ row(i).purged <=> db.missions[i].purged \/ i \in AgedOut(db)
  <2> DEFINE rows   == IF db.missions[i].old THEN 0 ELSE db.missions[i].rows
             purged == db.missions[i].purged \/ i \in AgedOut(db)
  <2>1. db.missions[i] \in MissionRow
    BY <1>2
  <2>2. rows \in 0 .. MaxRows
    BY <1>3, <2>1 DEF MissionRow
  <2>3. purged \in BOOLEAN
    OBVIOUS
  <2>4. row(i) = [db.missions[i] EXCEPT !.rows = rows, !.purged = purged]
    BY Zenon DEF RowPurged
  <2> HIDE DEF rows, purged, row
  <2>5. /\ row(i) \in MissionRow /\ row(i).end = db.missions[i].end
        /\ row(i).old = db.missions[i].old
        /\ row(i).summary = db.missions[i].summary
        /\ row(i).rows = rows /\ row(i).purged = purged
    BY <2>1, <2>2, <2>3, <2>4 DEF MissionRow
  <2> QED BY <2>5, Zenon DEF rows, purged
<1> HIDE DEF row
<1>6. /\ DOMAIN m = MissionsOf(db) /\ m \in [MissionsOf(db) -> MissionRow]
      /\ \A i \in MissionsOf(db) : m[i] = row(i)
  BY <1>5
<1>7. kept \subseteq db.samples
  OBVIOUS
<1> HIDE DEF m, new, kept
<1>8. /\ new.missions = m /\ new.exists = db.exists /\ new.next = db.next
      /\ new.photos = db.photos /\ new.samples = kept
      /\ new = [exists |-> new.exists, next |-> new.next, missions |-> new.missions,
                samples |-> new.samples, photos |-> new.photos]
  BY <1>1 DEF Database
<1>9. new \in Database /\ MissionsOf(new) = MissionsOf(db)
  BY <1>6, <1>7, <1>8, RetableTyped
<1>10. \A i \in MissionsOf(db) : new.missions[i] = row(i)
  BY <1>6, <1>8
<1>11. Unended(new) = Unended(db)
  BY <1>5, <1>9, <1>10 DEF Unended
<1>12. ASSUME SoundDb(db)
       PROVE  Rerowed(db, new)
  <2>1. \A i \in MissionsOf(db) :
          /\ db.missions[i].rows \in Nat
          /\ db.missions[i].end # None /\ ~db.missions[i].old
               => db.missions[i].summary = db.missions[i].rows
    BY <1>2, <1>12 DEF SoundDb, Agrees, MissionRow
  <2> QED BY <1>5, <1>7, <1>8, <1>9, <1>10, <2>1 DEF Rerowed
<1>13. \A id \in AgedOut(db) :
         /\ new.missions[id].end # None /\ new.missions[id].purged
         /\ new.missions[id].rows = 0 /\ ~db.missions[id].purged
  BY <1>5, <1>10 DEF AgedOut
<1> QED BY <1>7, <1>8, <1>9, <1>11, <1>12, <1>13 DEF new

\* Photographs that are removed after a transaction.
LEMMA WithoutPhotosTyped ==
  ASSUME NEW db \in Database, NEW ids
  PROVE  LET new == WithoutPhotos(db, ids)
         IN  /\ new \in Database /\ new.next = db.next
             /\ new.missions = db.missions /\ new.samples = db.samples
             /\ new.photos = db.photos \ ids
BY DEF WithoutPhotos, Database

\* A whole purge, whether or not the photographs could be removed after it.
PurgedAs(db, bad) ==
  IF "photos" \in bad THEN Purged(db) ELSE WithoutPhotos(Purged(db), AgedOut(db))

LEMMA PurgedSound ==
  ASSUME NEW db \in Database, NEW bad
  PROVE  LET new == PurgedAs(db, bad)
         IN  /\ new \in Database /\ Unended(new) = Unended(db)
             /\ SoundDb(db) => SoundDb(new) /\ Onward(db, new)
             /\ MissionsOf(new) = MissionsOf(db) /\ new.samples \subseteq db.samples
<1> DEFINE mid == Purged(db)  new == PurgedAs(db, bad)
<1>1. /\ mid \in Database /\ Unended(mid) = Unended(db)
      /\ SoundDb(db) => Rerowed(db, mid)
      /\ MissionsOf(mid) = MissionsOf(db) /\ mid.samples \subseteq db.samples
      /\ mid.photos = db.photos
      /\ \A id \in AgedOut(db) :
           /\ mid.missions[id].end # None /\ mid.missions[id].purged
           /\ mid.missions[id].rows = 0 /\ ~db.missions[id].purged
  BY PurgedTyped
<1> HIDE DEF mid
<1>2. SoundDb(db) => SoundDb(mid) /\ Onward(db, mid)
  BY <1>1, RerowedSound
<1>3. CASE "photos" \in bad
  BY <1>1, <1>2, <1>3 DEF PurgedAs, mid
<1>4. CASE "photos" \notin bad
  <2>1. new = WithoutPhotos(mid, AgedOut(db))
    BY <1>4 DEF PurgedAs, mid
  <2> HIDE DEF new
  <2>2. /\ new \in Database /\ new.next = mid.next
        /\ new.missions = mid.missions /\ new.samples = mid.samples
        /\ new.photos = mid.photos \ AgedOut(db)
    BY <1>1, <2>1, WithoutPhotosTyped
  <2>3. MissionsOf(new) = MissionsOf(mid) /\ Unended(new) = Unended(mid)
    BY <2>2 DEF MissionsOf, Unended
  <2>4. ASSUME SoundDb(db)
        PROVE  SoundDb(new) /\ Onward(db, new)
    <3>1. SoundDb(mid) /\ Onward(db, mid)
      BY <1>2, <2>4
    <3>2. Issued(new) /\ Agrees(new)
      BY <2>2, <2>3, <3>1 DEF SoundDb, Issued, Agrees
    <3>3. Onward(db, new)
      BY <1>1, <2>2, <2>3, <3>1 DEF Onward
    <3> QED BY <2>2, <3>2, <3>3 DEF SoundDb
  <2> QED BY <1>1, <2>2, <2>3, <2>4 DEF new
<1> QED BY <1>3, <1>4

\* A whole deletion of a mission, likewise.
DeletedAs(db, id, bad) ==
  IF "photos" \in bad THEN Deleted(db, id) ELSE WithoutPhotos(Deleted(db, id), {id})

LEMMA DeletedSound ==
  ASSUME NEW db \in Database, NEW id, NEW bad
  PROVE  LET new == DeletedAs(db, id, bad)
         IN  /\ new \in Database /\ Unended(new) = Unended(db) \ {id}
             /\ SoundDb(db) => SoundDb(new) /\ Onward(db, new)
             /\ MissionsOf(new) = MissionsOf(db) \ {id}
             /\ new.samples \subseteq db.samples
<1> DEFINE mid == Deleted(db, id)  new == DeletedAs(db, id, bad)
           m == [i \in MissionsOf(db) \ {id} |-> db.missions[i]]
           kept == {s \in db.samples : s.id # id}
<1>1. mid = [db EXCEPT !.missions = m, !.samples = kept]
  BY DEF Deleted
<1>2. /\ DOMAIN m = MissionsOf(db) \ {id} /\ m \in MissionTable
      /\ \A i \in MissionsOf(db) \ {id} : m[i] = db.missions[i]
  <2>1. m \in [MissionsOf(db) \ {id} -> MissionRow]
    BY DatabaseShape
  <2>2. MissionsOf(db) \ {id} \subseteq Ids
    BY DatabaseShape
  <2>3. \A i \in MissionsOf(db) \ {id} : m[i] = db.missions[i]
    OBVIOUS
  <2> HIDE DEF m
  <2> QED BY <2>1, <2>2, <2>3, TableMade
<1>3. kept \subseteq db.samples
  OBVIOUS
<1> HIDE DEF m, kept, mid, new
<1>4. /\ mid \in Database /\ mid.missions = m /\ mid.next = db.next
      /\ mid.photos = db.photos /\ mid.samples = kept
  BY <1>1, <1>2, <1>3 DEF Database, MissionTable
<1>5. /\ new \in Database /\ new.missions = m /\ new.next = db.next
      /\ new.samples = kept /\ new.photos \subseteq db.photos
      /\ db.photos \ new.photos \subseteq {id}
  BY <1>4, WithoutPhotosTyped DEF new, mid, DeletedAs
<1>6. MissionsOf(new) = MissionsOf(db) \ {id} /\ Unended(new) = Unended(db) \ {id}
  BY <1>2, <1>5 DEF MissionsOf, Unended
<1>7. ASSUME SoundDb(db)
      PROVE  SoundDb(new) /\ Onward(db, new)
  <2>1. \A i \in MissionsOf(new) :
          i \in MissionsOf(db) /\ new.missions[i] = db.missions[i]
    BY <1>2, <1>5, <1>6
  <2>2. Issued(new) /\ Agrees(new)
    BY <1>3, <1>5, <1>7, <2>1 DEF SoundDb, Issued, Agrees
  <2>3. \A i \in MissionsOf(db) : db.missions[i].rows \in Int
    BY DatabaseShape DEF MissionRow
  <2>4. db.next \in Nat
    BY DatabaseShape
  <2>5. Onward(db, new)
    BY <1>5, <1>6, <2>1, <2>3, <2>4 DEF Onward
  <2> QED BY <1>5, <2>2, <2>5 DEF SoundDb
<1> QED BY <1>3, <1>5, <1>6, <1>7 DEF new

\* A batch of samples whose missions are all there.
LEMMA BatchSound ==
  ASSUME NEW db \in Database, NEW batch \in Seq(Sample), Accepts(db, batch)
  PROVE  LET new == BatchWritten(db, batch)
         IN  /\ new \in Database /\ Unended(new) = Unended(db)
             /\ SoundDb(db) => SoundDb(new) /\ Onward(db, new)
             /\ MissionsOf(new) = MissionsOf(db)
             /\ new.samples = db.samples \cup {batch[i] : i \in DOMAIN batch}
<1> DEFINE new == BatchWritten(db, batch)
           all == db.samples \cup {batch[i] : i \in DOMAIN batch}
<1>1. \A i \in DOMAIN batch : batch[i] \in Sample /\ batch[i].id \in MissionsOf(db)
  BY DEF Accepts
<1>2. all \in SUBSET Sample
  BY <1>1, DatabaseShape
<1>3. \A s \in all : s \in db.samples \/ s.id \in MissionsOf(db)
  BY <1>1
<1>4. new = [db EXCEPT !.samples = all]
  BY DEF BatchWritten
<1>5. all = db.samples \cup {batch[i] : i \in DOMAIN batch}
  OBVIOUS
<1> HIDE DEF all, new
<1>6. /\ new \in Database /\ new.samples = all /\ new.next = db.next
      /\ new.missions = db.missions /\ new.photos = db.photos
  BY <1>2, <1>4 DEF Database
<1>7. MissionsOf(new) = MissionsOf(db) /\ Unended(new) = Unended(db)
  BY <1>6 DEF MissionsOf, Unended
<1>8. ASSUME SoundDb(db)
      PROVE  SoundDb(new) /\ Onward(db, new)
  <2>1. Issued(new) /\ Agrees(new)
    BY <1>3, <1>6, <1>7, <1>8 DEF SoundDb, Issued, Agrees
  <2>2. Onward(db, db)
    BY OnwardSame
  <2>3. Onward(db, new)
    BY <1>6, <1>7, <2>2 DEF Onward
  <2> QED BY <1>6, <2>1, <2>3 DEF SoundDb
<1> QED BY <1>5, <1>6, <1>7, <1>8 DEF new

(***************************************************************************)
(* Types.  Every method of the recorder leaves a state of the recorder,    *)
(* and none but the handler itself touches what was absorbed.              *)
(***************************************************************************)
Fits(r) ==
  /\ r \in DhsState
  /\ \A log \in Logs : Len(r.buffers[log]) <= Capacity[log]

Same(r, s) ==
  /\ s.phase = r.phase /\ s.profile = r.profile /\ s.state = r.state
  /\ s.absorbing = r.absorbing /\ s.persistence = r.persistence

\* A method that changes one database and nothing else.
Edits(r, s, d, db) ==
  /\ Same(r, s) /\ s.path = r.path /\ s.refused = r.refused
  /\ s.mission = r.mission /\ s.lapsed = r.lapsed /\ s.said = r.said
  /\ s.buffers = r.buffers /\ s.card = [r.card EXCEPT ![d] = db]

\* The fields of the recorder's state.
LEMMA StateShape ==
  ASSUME NEW r, Fits(r)
  PROVE  /\ r.path \in Dbs \cup {None} /\ r.refused \in Dbs \cup {None}
         /\ r.persistence \in Dbs \cup {None} /\ r.profile \in Profiles \cup {None}
         /\ r.mission \in [id: Ids, profile: Profiles, db: Dbs] \cup {None}
         /\ r.mission # None => /\ r.mission.id \in Ids /\ r.mission.db \in Dbs
                                /\ r.mission.profile \in Profiles
         /\ r.lapsed \in BOOLEAN /\ r.buffers \in [Logs -> Seq(Sample)]
         /\ r.card \in [Dbs -> Database]
         /\ \A d \in Dbs : r.card[d] \in Database
         /\ r.said \in [mission: Ids \cup {None}, database: Dbs \cup {None}]
         /\ r.path # None => r.card[r.path] \in Database
         /\ None \notin Dbs /\ None \notin Profiles /\ None \notin Ids
BY ArchiveAssumption, ProfileTable DEF Fits, DhsState, Ids

\* What is published names a mission and a database.
LEMMA PublishTyped ==
  ASSUME NEW r, Fits(r)
  PROVE  LET s == PublishDhs(r)
         IN  /\ Fits(s) /\ Same(r, s) /\ s.path = r.path /\ s.refused = r.refused
             /\ s.mission = r.mission /\ s.lapsed = r.lapsed
             /\ s.buffers = r.buffers /\ s.card = r.card
             /\ s.said.mission = IF r.mission = None THEN None ELSE r.mission.id
             /\ s.said.database = r.path
<1> DEFINE said == [mission  |-> IF r.mission = None THEN None ELSE r.mission.id,
                    database |-> r.path]
<1>1. said \in [mission: Ids \cup {None}, database: Dbs \cup {None}]
  BY StateShape
<1>2. /\ said.mission = IF r.mission = None THEN None ELSE r.mission.id
      /\ said.database = r.path
  OBVIOUS
<1> DEFINE s == PublishDhs(r)
<1>3. s = [r EXCEPT !.said = said]
  BY DEF PublishDhs
<1> HIDE DEF said, s
<1>4. /\ Fits(s) /\ Same(r, s) /\ s.path = r.path /\ s.refused = r.refused
      /\ s.mission = r.mission /\ s.lapsed = r.lapsed
      /\ s.buffers = r.buffers /\ s.card = r.card /\ s.said = said
  BY <1>1, <1>3 DEF Fits, DhsState, Same
<1> QED BY <1>2, <1>4 DEF s

\* One database is replaced.
LEMMA EditTyped ==
  ASSUME NEW r, Fits(r), NEW d \in Dbs, NEW db \in Database
  PROVE  LET s == [r EXCEPT !.card[d] = db]
         IN  Fits(s) /\ Edits(r, s, d, db)
<1>1. [r EXCEPT !.card[d] = db] = [r EXCEPT !.card = [r.card EXCEPT ![d] = db]]
  OBVIOUS
<1> DEFINE card == [r.card EXCEPT ![d] = db]
<1>2. card \in [Dbs -> Database]
  BY StateShape
<1> HIDE DEF card
<1> QED BY ZenonT(60), <1>1, <1>2 DEF Fits, DhsState, Edits, Same, card

\* The mission may be forgotten, and its end may have lapsed.
LEMMA ForgetTyped ==
  ASSUME NEW r, Fits(r), NEW b \in BOOLEAN
  PROVE  LET s == [r EXCEPT !.mission = None, !.lapsed = b]
         IN  /\ Fits(s) /\ Same(r, s) /\ s.path = r.path /\ s.refused = r.refused
             /\ s.mission = None /\ s.lapsed = b /\ s.said = r.said
             /\ s.buffers = r.buffers /\ s.card = r.card
BY ZenonT(60) DEF Fits, DhsState, Same

\* A sample is buffered under the open mission, and the buffer keeps its cap.
LEMMA OfferTyped ==
  ASSUME NEW r, Fits(r), NEW log \in Logs
  PROVE  LET s == Offer(r, log)
         IN  /\ Fits(s) /\ Same(r, s) /\ s.path = r.path /\ s.refused = r.refused
             /\ s.mission = r.mission /\ s.lapsed = r.lapsed /\ s.said = r.said
             /\ s.card = r.card
             /\ r.mission = None => s.buffers = r.buffers
             /\ \A l \in Logs : \A i \in DOMAIN s.buffers[l] :
                  \/ \E j \in DOMAIN r.buffers[l] : s.buffers[l][i] = r.buffers[l][j]
                  \/ /\ r.mission # None /\ s.buffers[l][i].db = r.mission.db
                     /\ s.buffers[l][i].id = r.mission.id
<1> DEFINE s == Offer(r, log)
<1>1. CASE r.mission = None
  BY <1>1 DEF Offer, Same
<1>2. CASE r.mission # None
  <2> DEFINE new == [db |-> r.mission.db, id |-> r.mission.id, log |-> log]
             all == Append(r.buffers[log], new)
             kept == IF Len(all) > Capacity[log] THEN Tail(all) ELSE all
  <2>1. new \in Sample /\ new.db = r.mission.db /\ new.id = r.mission.id
    BY <1>2, StateShape DEF Sample
  <2>2. r.buffers[log] \in Seq(Sample) /\ Len(r.buffers[log]) <= Capacity[log]
    BY StateShape DEF Fits
  <2>3. Capacity[log] \in Nat \ {0}
    BY DhsAssumption
  <2> HIDE DEF new
  <2>4. /\ all \in Seq(Sample) /\ Len(all) = Len(r.buffers[log]) + 1
        /\ \A i \in DOMAIN r.buffers[log] : all[i] = r.buffers[log][i]
        /\ all[Len(r.buffers[log]) + 1] = new
    BY <2>1, <2>2
  <2>5. \A i \in DOMAIN all : i \in DOMAIN r.buffers[log] \/ i = Len(r.buffers[log]) + 1
    BY <2>2, <2>4
  <2> HIDE DEF all
  <2>6. /\ kept \in Seq(Sample) /\ Len(kept) <= Capacity[log]
        /\ \A i \in DOMAIN kept : \E j \in DOMAIN all : kept[i] = all[j]
    <3>1. CASE Len(all) > Capacity[log]
      <4>1. kept = Tail(all) /\ all # <<>> /\ Len(all) \in Nat
        BY <2>3, <2>4, <3>1
      <4>2. /\ Tail(all) \in Seq(Sample) /\ Len(Tail(all)) = Len(all) - 1
            /\ \A i \in 1 .. Len(all) - 1 : Tail(all)[i] = all[i + 1]
        BY <2>4, <4>1
      <4>3. \A i \in DOMAIN Tail(all) : i + 1 \in DOMAIN all /\ Tail(all)[i] = all[i + 1]
        BY <2>4, <4>1, <4>2
      <4> QED BY <2>2, <2>3, <2>4, <4>1, <4>2, <4>3
    <3>2. CASE ~(Len(all) > Capacity[log])
      BY <2>3, <2>4, <3>2
    <3> QED BY <3>1, <3>2
  <2>7. \A i \in DOMAIN kept : \/ \E j \in DOMAIN r.buffers[log] : kept[i] = r.buffers[log][j]
                               \/ kept[i] = new
    BY <2>4, <2>5, <2>6
  <2> HIDE DEF kept
  <2> DEFINE buffers == [r.buffers EXCEPT ![log] = kept]
  <2>8. s = [r EXCEPT !.buffers = buffers]
    BY <1>2 DEF Offer, kept, all, new
  <2>9. /\ buffers \in [Logs -> Seq(Sample)] /\ buffers[log] = kept
        /\ \A l \in Logs : l # log => buffers[l] = r.buffers[l]
    BY <2>6, StateShape
  <2> HIDE DEF buffers, s
  <2>10. /\ s \in DhsState /\ Same(r, s) /\ s.path = r.path /\ s.refused = r.refused
         /\ s.mission = r.mission /\ s.lapsed = r.lapsed /\ s.said = r.said
         /\ s.card = r.card /\ s.buffers = buffers
    BY <2>8, <2>9 DEF Fits, DhsState, Same
  <2>11. Fits(s)
    BY <2>6, <2>9, <2>10 DEF Fits
  <2>12. \A l \in Logs : \A i \in DOMAIN s.buffers[l] :
           \/ \E j \in DOMAIN r.buffers[l] : s.buffers[l][i] = r.buffers[l][j]
           \/ /\ r.mission # None /\ s.buffers[l][i].db = r.mission.db
              /\ s.buffers[l][i].id = r.mission.id
    BY <1>2, <2>1, <2>7, <2>9, <2>10
  <2> QED BY <1>2, <2>10, <2>11, <2>12 DEF s
<1> QED BY <1>1, <1>2

\* A buffer is written to the open database and emptied, or nothing happens.
SameButCard(r, s) ==
  /\ Same(r, s) /\ s.path = r.path /\ s.refused = r.refused
  /\ s.mission = r.mission /\ s.lapsed = r.lapsed /\ s.said = r.said

Flushes(r, s, log) ==
  /\ SameButCard(r, s)
  /\ \/ s = r
     \/ /\ r.path # None /\ Accepts(r.card[r.path], r.buffers[log])
        /\ s.buffers = [r.buffers EXCEPT ![log] = <<>>]
        /\ s.card = [r.card EXCEPT ![r.path] =
                       BatchWritten(r.card[r.path], r.buffers[log])]

LEMMA FlushLogTyped ==
  ASSUME NEW r, Fits(r), NEW log \in Logs, NEW bad
  PROVE  Fits(FlushLog(r, log, bad)) /\ Flushes(r, FlushLog(r, log, bad), log)
<1> DEFINE s == FlushLog(r, log, bad)
<1>1. CASE r.path = None \/ log \in bad \/ ~Accepts(r.card[r.path], r.buffers[log])
  BY <1>1 DEF FlushLog, Flushes, SameButCard, Same
<1>2. CASE ~(r.path = None \/ log \in bad \/ ~Accepts(r.card[r.path], r.buffers[log]))
  <2> DEFINE buffers == [r.buffers EXCEPT ![log] = <<>>]
             db == BatchWritten(r.card[r.path], r.buffers[log])
             card == [r.card EXCEPT ![r.path] = db]
  <2>1. r.path \in Dbs /\ r.buffers[log] \in Seq(Sample)
    BY <1>2, StateShape
  <2>2. db \in Database
    BY <1>2, <2>1, StateShape, BatchSound
  <2> HIDE DEF db
  <2>3. card \in [Dbs -> Database]
    BY <2>1, <2>2, StateShape
  <2>4. /\ buffers \in [Logs -> Seq(Sample)] /\ buffers[log] = <<>>
        /\ \A l \in Logs : l # log => buffers[l] = r.buffers[l]
    BY StateShape
  <2>5. Capacity[log] \in Nat \ {0}
    BY DhsAssumption
  <2>6. s = [r EXCEPT !.buffers = buffers, !.card = card]
    BY <1>2 DEF FlushLog, db
  <2> HIDE DEF buffers, card, s
  <2>7. /\ s \in DhsState /\ Same(r, s) /\ s.path = r.path /\ s.refused = r.refused
        /\ s.mission = r.mission /\ s.lapsed = r.lapsed /\ s.said = r.said
        /\ s.buffers = buffers /\ s.card = card
    BY <2>3, <2>4, <2>6 DEF Fits, DhsState, Same
  <2>8. Fits(s)
    BY <2>4, <2>5, <2>7 DEF Fits
  <2>9. Flushes(r, s, log)
    BY <1>2, <2>7 DEF Flushes, SameButCard, buffers, card, db
  <2> QED BY <2>8, <2>9 DEF s
<1> QED BY <1>1, <1>2

\* Both buffers.
LEMMA FlushLogsTyped ==
  ASSUME NEW r, Fits(r), NEW bad
  PROVE  Fits(FlushLogs(r, bad)) /\ SameButCard(r, FlushLogs(r, bad))
<1> DEFINE m == FlushLog(r, "attitude", bad)
           s == FlushLog(m, "radio", bad)
<1>1. "attitude" \in Logs /\ "radio" \in Logs
  BY DEF Logs
<1>2. Fits(m) /\ Flushes(r, m, "attitude")
  BY <1>1, FlushLogTyped
<1> HIDE DEF m
<1>3. Fits(s) /\ Flushes(m, s, "radio")
  BY <1>1, <1>2, FlushLogTyped
<1> HIDE DEF s
<1>4. FlushLogs(r, bad) = s
  BY DEF FlushLogs, s, m
<1> QED BY <1>2, <1>3, <1>4 DEF Flushes, SameButCard, Same

\* A row is written, or nothing happens.
LEMMA RowTickTyped ==
  ASSUME NEW r, Fits(r), NEW bad
  PROVE  /\ Fits(RowTick(r, bad))
         /\ \/ RowTick(r, bad) = r
            \/ /\ r.mission # None /\ r.path # None
               /\ Edits(r, RowTick(r, bad), r.path,
                        RowWritten(r.card[r.path], r.mission.id))
<1>1. CASE r.mission = None \/ r.path = None \/ "row" \in bad
  BY <1>1 DEF RowTick
<1>2. CASE ~(r.mission = None \/ r.path = None \/ "row" \in bad)
  <2> DEFINE db == RowWritten(r.card[r.path], r.mission.id)
  <2>1. r.path \in Dbs /\ db \in Database
    BY <1>2, StateShape, RowWrittenTyped
  <2>2. RowTick(r, bad) = [r EXCEPT !.card[r.path] = db]
    BY <1>2 DEF RowTick
  <2> HIDE DEF db
  <2>3. /\ Fits([r EXCEPT !.card[r.path] = db])
        /\ Edits(r, [r EXCEPT !.card[r.path] = db], r.path, db)
    BY <2>1, EditTyped
  <2> QED BY <1>2, <2>2, <2>3 DEF db
<1> QED BY <1>1, <1>2

\* A purge of the open database, or nothing.
LEMMA PurgeOpenTyped ==
  ASSUME NEW r, Fits(r), NEW bad
  PROVE  /\ Fits(PurgeOpen(r, bad))
         /\ \/ PurgeOpen(r, bad) = r
            \/ /\ r.path # None
               /\ Edits(r, PurgeOpen(r, bad), r.path, PurgedAs(r.card[r.path], bad))
<1>1. CASE r.path = None \/ "purge" \in bad
  BY <1>1 DEF PurgeOpen
<1>2. CASE ~(r.path = None \/ "purge" \in bad)
  <2> DEFINE db == PurgedAs(r.card[r.path], bad)
  <2>1. r.path \in Dbs /\ db \in Database
    BY <1>2, StateShape, PurgedSound
  <2>2. PurgeOpen(r, bad) = [r EXCEPT !.card[r.path] = db]
    BY <1>2 DEF PurgeOpen, PurgedAs
  <2> HIDE DEF db
  <2>3. /\ Fits([r EXCEPT !.card[r.path] = db])
        /\ Edits(r, [r EXCEPT !.card[r.path] = db], r.path, db)
    BY <2>1, EditTyped
  <2> QED BY <1>2, <2>2, <2>3 DEF db
<1> QED BY <1>1, <1>2

\* The end of a mission, with its samples written first.
MissionClosed(r, s, f, reason) ==
  /\ Fits(s) /\ Same(r, s) /\ s.path = r.path /\ s.refused = r.refused
  /\ s.mission = None /\ (r.mission = None => s = r)
  /\ r.mission # None =>
       /\ s.buffers = f.buffers
       /\ s.said.mission = None /\ s.said.database = r.path
       /\ \/ s.lapsed = TRUE /\ s.card = f.card
          \/ /\ r.path # None /\ s.lapsed = r.lapsed
             /\ s.card = [f.card EXCEPT ![r.path] =
                            Closed(f.card[r.path], r.mission.id, reason)]

LEMMA CloseMissionTyped ==
  ASSUME NEW r, Fits(r), NEW reason \in EndReason, NEW bad
  PROVE  MissionClosed(r, CloseMission(r, reason, bad), FlushLogs(r, bad), reason)
<1> DEFINE s == CloseMission(r, reason, bad)
           f == FlushLogs(r, bad)
           forgot == [f EXCEPT !.mission = None, !.lapsed = TRUE]
           stopped == [f EXCEPT !.mission = None]
           db == Closed(stopped.card[stopped.path], r.mission.id, reason)
           closed == [stopped EXCEPT !.card[stopped.path] = db]
<1>1. CASE r.mission = None
  BY <1>1 DEF CloseMission, Same, MissionClosed
<1>2. CASE r.mission # None
  <2>1. /\ Fits(f) /\ Same(r, f) /\ f.path = r.path /\ f.refused = r.refused
        /\ f.mission = r.mission /\ f.lapsed = r.lapsed /\ f.said = r.said
    BY FlushLogsTyped DEF SameButCard
  <2>2. \/ s = PublishDhs(forgot)
        \/ r.path # None /\ s = PublishDhs(closed)
    <3>1. [stopped EXCEPT !.lapsed = TRUE] = forgot
      OBVIOUS
    <3>2. stopped.path = r.path
      BY <2>1 DEF Fits, DhsState
    <3> HIDE DEF stopped, forgot
    <3> QED BY <1>2, <3>1, <3>2 DEF CloseMission, stopped
  <2> HIDE DEF f, s
  <2>3. /\ Fits(stopped) /\ Same(f, stopped) /\ stopped.path = f.path
        /\ stopped.refused = f.refused /\ stopped.mission = None
        /\ stopped.lapsed = f.lapsed /\ stopped.said = f.said
        /\ stopped.buffers = f.buffers /\ stopped.card = f.card
    BY ZenonT(60), <2>1 DEF Fits, DhsState, Same
  <2> HIDE DEF stopped
  <2>4. CASE s = PublishDhs(forgot)
    <3>1. /\ Fits(forgot) /\ Same(f, forgot) /\ forgot.path = f.path
          /\ forgot.refused = f.refused /\ forgot.mission = None
          /\ forgot.lapsed = TRUE
          /\ forgot.buffers = f.buffers /\ forgot.card = f.card
      BY <2>1, ForgetTyped
    <3> HIDE DEF forgot
    <3>2. /\ Fits(s) /\ Same(forgot, s) /\ s.path = forgot.path
          /\ s.refused = forgot.refused /\ s.mission = forgot.mission
          /\ s.lapsed = forgot.lapsed /\ s.buffers = forgot.buffers
          /\ s.card = forgot.card /\ s.said.mission = None
          /\ s.said.database = forgot.path
      BY <2>4, <3>1, PublishTyped
    <3> QED BY <1>2, <2>1, <3>1, <3>2 DEF Same, MissionClosed, s, f
  <2>5. CASE r.path # None /\ s = PublishDhs(closed)
    <3>1. r.path \in Dbs /\ f.card[r.path] \in Database
      BY <2>1, <2>5, StateShape
    <3>2. db = Closed(f.card[r.path], r.mission.id, reason) /\ db \in Database
      BY <2>1, <2>3, <3>1, ClosedTyped
    <3> HIDE DEF db
    <3>3. Fits(closed) /\ Edits(stopped, closed, stopped.path, db)
      BY <2>1, <2>3, <3>1, <3>2, EditTyped
    <3> HIDE DEF closed
    <3>4. /\ Fits(s) /\ Same(closed, s) /\ s.path = closed.path
          /\ s.refused = closed.refused /\ s.mission = closed.mission
          /\ s.lapsed = closed.lapsed /\ s.buffers = closed.buffers
          /\ s.card = closed.card
          /\ s.said.mission = (IF closed.mission = None THEN None ELSE closed.mission.id)
          /\ s.said.database = closed.path
      BY <2>5, <3>3, PublishTyped
    <3> QED BY <1>2, <2>1, <2>3, <2>5, <3>2, <3>3, <3>4
            DEF Same, Edits, MissionClosed, s, f
  <2> QED BY <2>2, <2>4, <2>5
<1> QED BY <1>1, <1>2

\* A mission is opened in the open database, or nothing happens.
Opens(r, s) ==
  \/ s = r
  \/ /\ r.card[r.path].next <= MaxMissions
     /\ Same(r, s) /\ s.path = r.path /\ s.refused = r.refused
     /\ s.lapsed = r.lapsed /\ s.buffers = r.buffers
     /\ s.mission = [id |-> r.card[r.path].next, profile |-> r.profile, db |-> r.path]
     /\ s.card = [r.card EXCEPT ![r.path] = Opened(r.card[r.path], r.profile)]
     /\ s.said.mission = r.card[r.path].next /\ s.said.database = r.path

LEMMA OpenMissionTyped ==
  ASSUME NEW r, Fits(r), r.path # None, r.profile # None, NEW bad
  PROVE  Fits(OpenMission(r, bad)) /\ Opens(r, OpenMission(r, bad))
<1> DEFINE s == OpenMission(r, bad)
           db == r.card[r.path]
<1>1. r.path \in Dbs /\ r.profile \in Profiles /\ db \in Database
  BY StateShape
<1>2. NextId(db) = db.next /\ db.next \in Nat /\ MaxMissions \in Nat
  BY <1>1, DatabaseShape DEF NextId
<1>3. CASE "open" \in bad \/ NextId(db) > MaxMissions
  BY <1>3 DEF OpenMission, Opens
<1>4. CASE ~("open" \in bad \/ NextId(db) > MaxMissions)
  <2> DEFINE new == Opened(db, r.profile)
             mission == [id |-> db.next, profile |-> r.profile, db |-> r.path]
             card == [r.card EXCEPT ![r.path] = new]
             q == [r EXCEPT !.mission = mission, !.card = card]
  <2>1. db.next <= MaxMissions /\ db.next \in Ids
    BY <1>1, <1>2, <1>4, DatabaseShape DEF Ids
  <2>2. new \in Database
    BY <1>1, <2>1, OpenedTyped
  <2>3. /\ mission \in [id: Ids, profile: Profiles, db: Dbs] /\ mission # None
        /\ mission.id = db.next
    BY <1>1, <2>1, DhsAssumption
  <2>4. s = PublishDhs(q)
    BY <1>2, <1>4 DEF OpenMission
  <2> HIDE DEF new, mission
  <2>5. card \in [Dbs -> Database]
    BY <1>1, <2>2, StateShape
  <2> HIDE DEF card, s
  <2>6. /\ Fits(q) /\ Same(r, q) /\ q.path = r.path /\ q.refused = r.refused
        /\ q.lapsed = r.lapsed /\ q.buffers = r.buffers
        /\ q.mission = mission /\ q.card = card
    BY <2>3, <2>5 DEF Fits, DhsState, Same
  <2> HIDE DEF q
  <2>7. /\ Fits(s) /\ Same(q, s) /\ s.path = q.path /\ s.refused = q.refused
        /\ s.mission = q.mission /\ s.lapsed = q.lapsed /\ s.buffers = q.buffers
        /\ s.card = q.card
        /\ s.said.mission = IF q.mission = None THEN None ELSE q.mission.id
        /\ s.said.database = q.path
    BY <2>4, <2>6, PublishTyped
  <2>8. s.said.mission = db.next
    BY <2>3, <2>6, <2>7
  <2> QED BY <2>1, <2>6, <2>7, <2>8 DEF Opens, Same, s, card, new, mission
<1> QED BY <1>3, <1>4

\* The orphans are ended, or they have lapsed.
RecoveredAs(r, s) ==
  \/ /\ Same(r, s) /\ s.path = r.path /\ s.refused = r.refused
     /\ s.mission = r.mission /\ s.said = r.said
     /\ s.buffers = r.buffers /\ s.card = r.card
     /\ s.lapsed = (r.lapsed \/ Unended(r.card[r.path]) # {})
  \/ Edits(r, s, r.path, Recovered(r.card[r.path]))

LEMMA RecoverOpenTyped ==
  ASSUME NEW r, Fits(r), r.path # None, NEW bad
  PROVE  Fits(RecoverOpen(r, bad)) /\ RecoveredAs(r, RecoverOpen(r, bad))
<1>1. CASE "recover" \in bad
  <2> DEFINE b == r.lapsed \/ Unended(r.card[r.path]) # {}
             s == [r EXCEPT !.lapsed = b]
  <2>1. RecoverOpen(r, bad) = s
    BY <1>1 DEF RecoverOpen
  <2>2. b \in BOOLEAN
    OBVIOUS
  <2>3. b = (r.lapsed \/ Unended(r.card[r.path]) # {})
    OBVIOUS
  <2> HIDE DEF b
  <2>4. /\ Fits(s) /\ Same(r, s) /\ s.path = r.path /\ s.refused = r.refused
        /\ s.mission = r.mission /\ s.said = r.said
        /\ s.buffers = r.buffers /\ s.card = r.card /\ s.lapsed = b
    BY ZenonT(60), <2>2 DEF Fits, DhsState, Same
  <2> HIDE DEF s
  <2> QED BY <2>1, <2>3, <2>4 DEF RecoveredAs
<1>2. CASE "recover" \notin bad
  <2> DEFINE db == Recovered(r.card[r.path])
             s == [r EXCEPT !.card[r.path] = db]
  <2>1. r.path \in Dbs /\ db \in Database
    BY StateShape, RecoveredSound
  <2>2. RecoverOpen(r, bad) = s
    BY <1>2 DEF RecoverOpen
  <2> HIDE DEF db
  <2>3. Fits(s) /\ Edits(r, s, r.path, db)
    BY <2>1, EditTyped
  <2> HIDE DEF s
  <2> QED BY <2>2, <2>3 DEF db, RecoveredAs
<1> QED BY <1>1, <1>2

\* The database that the profile asks for, its file made if it is not there.
Present(db) == [db EXCEPT !.exists = TRUE]
Arrived(r) == [r EXCEPT !.path = r.persistence,
                        !.card[r.persistence] = Present(r.card[r.persistence])]

Arrives(r, q) ==
  /\ Same(r, q) /\ q.path = r.persistence /\ q.refused = r.refused
  /\ q.mission = r.mission /\ q.lapsed = r.lapsed /\ q.said = r.said
  /\ q.buffers = r.buffers
  /\ q.card = [r.card EXCEPT ![r.persistence] = Present(r.card[r.persistence])]

LEMMA PresentSound ==
  ASSUME NEW db \in Database
  PROVE  LET new == Present(db)
         IN  /\ new \in Database /\ new.next = db.next
             /\ MissionsOf(new) = MissionsOf(db) /\ Unended(new) = Unended(db)
             /\ new.samples = db.samples
             /\ SoundDb(db) => SoundDb(new) /\ Onward(db, new)
<1> DEFINE new == Present(db)
<1>1. /\ new \in Database /\ new.next = db.next /\ new.missions = db.missions
      /\ new.samples = db.samples /\ new.photos = db.photos
  BY DEF Present, Database
<1> HIDE DEF new
<1>2. MissionsOf(new) = MissionsOf(db) /\ Unended(new) = Unended(db)
  BY <1>1 DEF MissionsOf, Unended
<1>3. Onward(db, db)
  BY OnwardSame
<1> QED BY <1>1, <1>2, <1>3 DEF SoundDb, Issued, Agrees, Onward, new

LEMMA ArrivedTyped ==
  ASSUME NEW r, Fits(r), r.persistence # None
  PROVE  Fits(Arrived(r)) /\ Arrives(r, Arrived(r))
<1> DEFINE db == Present(r.card[r.persistence])
           card == [r.card EXCEPT ![r.persistence] = db]
           s == Arrived(r)
<1>1. r.persistence \in Dbs /\ db \in Database
  BY StateShape, PresentSound
<1> HIDE DEF db
<1>2. card \in [Dbs -> Database]
  BY <1>1, StateShape
<1>3. s = [r EXCEPT !.path = r.persistence, !.card = card]
  BY DEF Arrived, db
<1> HIDE DEF card, s
<1>4. /\ s \in DhsState /\ Same(r, s) /\ s.path = r.persistence
      /\ s.refused = r.refused /\ s.mission = r.mission /\ s.lapsed = r.lapsed
      /\ s.said = r.said /\ s.buffers = r.buffers /\ s.card = card
  BY <1>1, <1>2, <1>3 DEF Fits, DhsState, Same
<1>5. Fits(s)
  BY <1>4 DEF Fits
<1> QED BY <1>4, <1>5 DEF Arrives, s, card, db

\* What becomes of the open database: nothing, a refusal, or another one.
Refuse(r) == PublishDhs([r EXCEPT !.path = None, !.refused = r.persistence])

LEMMA EnsureIs ==
  ASSUME NEW r, Fits(r), NEW bad
  PROVE  LET s == EnsureDatabase(r, bad)
         IN  \/ s = r /\ r.persistence \in {None, r.refused, r.path}
             \/ s = Refuse(r) /\ r.persistence \notin {None, r.path}
             \/ /\ s = PurgeOpen(RecoverOpen(Arrived(r), bad), bad)
                /\ r.persistence \notin {None, r.path}
<1>1. [r EXCEPT !.path = r.persistence, !.card[r.persistence].exists = TRUE]
        = Arrived(r)
  BY DEF Arrived, Present
<1> QED BY <1>1, Zenon DEF EnsureDatabase, Refuse

LEMMA RefuseTyped ==
  ASSUME NEW r, Fits(r)
  PROVE  LET s == Refuse(r)
         IN  /\ Fits(s) /\ Same(r, s) /\ s.path = None
             /\ s.mission = r.mission /\ s.lapsed = r.lapsed
             /\ s.buffers = r.buffers /\ s.card = r.card
             /\ s.said.mission = (IF r.mission = None THEN None ELSE r.mission.id)
             /\ s.said.database = None
<1> DEFINE q == [r EXCEPT !.path = None, !.refused = r.persistence]
           s == Refuse(r)
<1>1. r.persistence \in Dbs \cup {None}
  BY StateShape
<1>2. /\ Fits(q) /\ Same(r, q) /\ q.path = None
      /\ q.mission = r.mission /\ q.lapsed = r.lapsed /\ q.said = r.said
      /\ q.buffers = r.buffers /\ q.card = r.card
  BY <1>1 DEF Fits, DhsState, Same
<1>3. s = PublishDhs(q)
  BY DEF Refuse
<1> HIDE DEF q, s
<1>4. /\ Fits(s) /\ Same(q, s) /\ s.path = q.path
      /\ s.mission = q.mission /\ s.lapsed = q.lapsed
      /\ s.buffers = q.buffers /\ s.card = q.card
      /\ s.said.mission = (IF q.mission = None THEN None ELSE q.mission.id)
      /\ s.said.database = q.path
  BY <1>2, <1>3, PublishTyped
<1> QED BY <1>2, <1>4 DEF Same, s

LEMMA EnsureTyped ==
  ASSUME NEW r, Fits(r), NEW bad
  PROVE  LET s == EnsureDatabase(r, bad)
         IN  Fits(s) /\ Same(r, s) /\ s.mission = r.mission /\ s.buffers = r.buffers
<1> DEFINE s == EnsureDatabase(r, bad)
           q == Arrived(r)
           t == RecoverOpen(q, bad)
           u == PurgeOpen(t, bad)
<1>1. CASE s = r
  BY <1>1 DEF Same
<1>2. CASE s = Refuse(r)
  BY <1>2, RefuseTyped
<1>3. CASE s = u /\ r.persistence \notin {None, r.path}
  <2> HIDE DEF s
  <2>1. /\ Fits(q) /\ Same(r, q) /\ q.mission = r.mission /\ q.buffers = r.buffers
        /\ q.path = r.persistence
    BY <1>3, ArrivedTyped DEF Arrives
  <2> HIDE DEF q
  <2>2. /\ Fits(t) /\ Same(q, t) /\ t.mission = q.mission /\ t.buffers = q.buffers
    BY <1>3, <2>1, RecoverOpenTyped DEF Edits, RecoveredAs
  <2> HIDE DEF t
  <2>3. /\ Fits(u) /\ Same(t, u) /\ u.mission = t.mission /\ u.buffers = t.buffers
    BY <2>2, PurgeOpenTyped DEF Edits, Same
  <2> HIDE DEF u
  <2> QED BY <1>3, <2>1, <2>2, <2>3 DEF Same, s
<1> QED BY <1>1, <1>2, <1>3, EnsureIs

\* The mission in line with the profile and the state.
LEMMA ReconcileIs ==
  ASSUME NEW r, NEW bad
  PROVE  LET s == ReconcileDhs(r, bad)
             e == EnsureDatabase(r, bad)
         IN  \/ ~MayRecord(r) /\ s = CloseMission(r, EndReasonNow(r), bad)
             \/ MayRecord(r) /\ s = e
             \/ /\ MayRecord(r) /\ e.path = r.persistence /\ e.mission = None
                /\ s = OpenMission(e, bad)
<1>1. CASE MayRecord(r)
  BY <1>1, Zenon DEF ReconcileDhs
<1>2. CASE ~MayRecord(r)
  BY <1>2, Zenon DEF ReconcileDhs
<1> QED BY <1>1, <1>2

LEMMA ReconcileTyped ==
  ASSUME NEW r, Fits(r), NEW bad
  PROVE  LET s == ReconcileDhs(r, bad)
         IN  Fits(s) /\ Same(r, s)
<1> DEFINE s == ReconcileDhs(r, bad)
           c == CloseMission(r, EndReasonNow(r), bad)
           e == EnsureDatabase(r, bad)
           o == OpenMission(e, bad)
<1>1. \/ ~MayRecord(r) /\ s = c
      \/ MayRecord(r) /\ s = e
      \/ MayRecord(r) /\ e.path = r.persistence /\ e.mission = None /\ s = o
  BY ReconcileIs
<1>2. Fits(c) /\ Same(r, c)
  <2>1. EndReasonNow(r) \in EndReason
    BY DEF EndReasonNow, EndReason
  <2> QED BY <2>1, CloseMissionTyped DEF MissionClosed
<1>3. Fits(e) /\ Same(r, e)
  BY EnsureTyped
<1> HIDE DEF s, c, e
<1>4. CASE s = o /\ MayRecord(r) /\ e.path = r.persistence
  <2>1. e.path # None /\ e.profile # None
    BY <1>3, <1>4 DEF MayRecord, Same
  <2>2. Fits(o) /\ Opens(e, o)
    BY <1>3, <2>1, OpenMissionTyped
  <2> HIDE DEF o
  <2> QED BY <1>3, <1>4, <2>2 DEF Opens, Same, s
<1> QED BY <1>1, <1>2, <1>3, <1>4 DEF s

\* A tick.
LEMMA TickedTyped ==
  ASSUME NEW r, Fits(r), NEW due, NEW bad
  PROVE  Fits(Ticked(r, due, bad)) /\ Same(r, Ticked(r, due, bad))
<1> DEFINE m == ReconcileDhs(r, bad)
           f == FlushLogs(m, bad)
           w == RowTick(f, bad)
           p == PurgeOpen(w, bad)
           q == PublishDhs(w)
           t == PublishDhs(p)
<1>1. Ticked(r, due, bad) \in {q, t}
  BY DEF Ticked
<1>2. Fits(m) /\ Same(r, m)
  BY ReconcileTyped
<1> HIDE DEF m
<1>3. Fits(f) /\ Same(m, f)
  BY <1>2, FlushLogsTyped DEF SameButCard
<1> HIDE DEF f
<1>4. Fits(w) /\ Same(f, w)
  BY <1>3, RowTickTyped DEF Edits, Same
<1> HIDE DEF w
<1>5. Fits(p) /\ Same(w, p)
  BY <1>4, PurgeOpenTyped DEF Edits, Same
<1> HIDE DEF p
<1>6. Fits(q) /\ Same(w, q) /\ Fits(t) /\ Same(p, t)
  BY <1>4, <1>5, PublishTyped
<1> HIDE DEF q, t
<1> QED BY <1>1, <1>2, <1>3, <1>4, <1>5, <1>6 DEF Same

\* A deletion, or a refusal of it, is published either way.
Erased(r, id, bad) ==
  [r EXCEPT !.card[Target(r)] = DeletedAs(r.card[Target(r)], id, bad)]

LEMMA DeleteIs ==
  ASSUME NEW r, Fits(r), NEW id, NEW bad
  PROVE  /\ \/ Refuses(r, id, bad) /\ DeleteMission(r, id, bad) = PublishDhs(r)
            \/ /\ ~Refuses(r, id, bad)
               /\ DeleteMission(r, id, bad) = PublishDhs(Erased(r, id, bad))
         /\ Target(r) \in Dbs
         /\ Fits(Erased(r, id, bad))
         /\ Edits(r, Erased(r, id, bad), Target(r),
                  DeletedAs(r.card[Target(r)], id, bad))
<1> DEFINE d == Target(r)
           db == DeletedAs(r.card[d], id, bad)
<1>1. d \in Dbs
  BY DhsAssumption, StateShape DEF Target
<1>2. \/ Refuses(r, id, bad) /\ DeleteMission(r, id, bad) = PublishDhs(r)
      \/ /\ ~Refuses(r, id, bad)
         /\ DeleteMission(r, id, bad) = PublishDhs(Erased(r, id, bad))
  BY DEF DeleteMission, Erased, DeletedAs
<1>3. db \in Database
  BY <1>1, StateShape, DeletedSound
<1>4. Erased(r, id, bad) = [r EXCEPT !.card[d] = db]
  BY DEF Erased
<1> HIDE DEF d, db
<1>5. Fits([r EXCEPT !.card[d] = db]) /\ Edits(r, [r EXCEPT !.card[d] = db], d, db)
  BY <1>1, <1>3, EditTyped
<1> QED BY <1>1, <1>2, <1>4, <1>5 DEF d, db

LEMMA DeleteTyped ==
  ASSUME NEW r, Fits(r), NEW id, NEW bad
  PROVE  Fits(DeleteMission(r, id, bad)) /\ Same(r, DeleteMission(r, id, bad))
<1> DEFINE e == Erased(r, id, bad)
           p == PublishDhs(r)
           q == PublishDhs(e)
<1>1. DeleteMission(r, id, bad) \in {p, q} /\ Fits(e) /\ Same(r, e)
  BY DeleteIs DEF Edits
<1> HIDE DEF e
<1>2. Fits(p) /\ Same(r, p) /\ Fits(q) /\ Same(e, q)
  BY <1>1, PublishTyped
<1> HIDE DEF p, q
<1> QED BY <1>1, <1>2 DEF Same

\* A fresh process has the card and what is retained, and nothing else.
LEMMA RestartedTyped ==
  ASSUME NEW r, r.card \in [Dbs -> Database],
         r.said \in [mission: Ids \cup {None}, database: Dbs \cup {None}],
         NEW s, s = Restarted(r),
         r = [ phase |-> r.phase, profile |-> r.profile, state |-> r.state,
               persistence |-> r.persistence, absorbing |-> r.absorbing,
               path |-> r.path, refused |-> r.refused, mission |-> r.mission,
               lapsed |-> r.lapsed, buffers |-> r.buffers, card |-> r.card,
               said |-> r.said ]
  PROVE  /\ Fits(s) /\ s.phase = "down" /\ s.absorbing = None /\ s.persistence = None
         /\ s.mission = None /\ s.path = None /\ s.card = r.card /\ s.said = r.said
         /\ \A log \in Logs : s.buffers[log] = <<>>
<1> DEFINE empty == [log \in Logs |-> <<>>]
<1>1. /\ empty \in [Logs -> Seq(Sample)]
      /\ \A log \in Logs : empty[log] = <<>> /\ Len(empty[log]) <= Capacity[log]
  BY DhsAssumption
<1>2. s = [r EXCEPT !.phase = "down", !.profile = None, !.state = None,
                    !.persistence = None, !.absorbing = None, !.path = None,
                    !.refused = None, !.mission = None, !.lapsed = FALSE,
                    !.buffers = empty]
  BY DEF Restarted
<1> HIDE DEF empty
<1>3. /\ s \in DhsState /\ s.buffers = empty
      /\ s.phase = "down" /\ s.absorbing = None /\ s.persistence = None
      /\ s.mission = None /\ s.path = None /\ s.card = r.card /\ s.said = r.said
  BY ZenonT(60), <1>1, <1>2 DEF DhsState
<1> QED BY <1>1, <1>3 DEF Fits

\* What the base class takes from a status, and what the handler takes.
LEMMA AbsorbTyped ==
  ASSUME NEW r, Fits(r), NEW status \in Status
  PROVE  LET s == Absorb(r, status)
         IN  /\ Fits(s) /\ s.phase = r.phase /\ s.path = r.path /\ s.mission = r.mission
             /\ s.persistence = r.persistence /\ s.lapsed = r.lapsed
             /\ s.said = r.said /\ s.buffers = r.buffers /\ s.card = r.card
             /\ s.absorbing # None /\ s.absorbing.status = status
             /\ s.absorbing.stage = "state"
<1> DEFINE profile == IF status.profile = None THEN r.profile ELSE status.profile
           absorbing == [status |-> status, stage |-> "state"]
           s == Absorb(r, status)
<1>1. profile \in Profiles \cup {None}
  BY StateShape DEF Status
<1>2. /\ absorbing \in [status: Status, stage: {"state", "handle"}]
      /\ absorbing # None /\ absorbing.status = status
      /\ absorbing.stage = "state"
  BY DhsAssumption
<1>3. s = [r EXCEPT !.profile = profile, !.absorbing = absorbing]
  BY DEF Absorb
<1> HIDE DEF profile, absorbing, s
<1>4. /\ Fits(s) /\ s.phase = r.phase /\ s.path = r.path /\ s.mission = r.mission
      /\ s.persistence = r.persistence /\ s.lapsed = r.lapsed
      /\ s.said = r.said /\ s.buffers = r.buffers /\ s.card = r.card
      /\ s.absorbing = absorbing
  BY <1>1, <1>2, <1>3 DEF Fits, DhsState
<1> QED BY <1>2, <1>4 DEF s

Recorded(profile) == IF profile = None THEN None ELSE PersistenceOf[profile]
Heard(r) == [r EXCEPT !.absorbing = None,
                      !.persistence = Recorded(r.absorbing.status.profile)]

LEMMA HeardTyped ==
  ASSUME NEW r, Fits(r), r.absorbing # None
  PROVE  LET s == Heard(r)
         IN  /\ Fits(s) /\ s.phase = r.phase /\ s.path = r.path /\ s.mission = r.mission
             /\ s.state = r.state /\ s.lapsed = r.lapsed
             /\ s.said = r.said /\ s.buffers = r.buffers /\ s.card = r.card
             /\ s.absorbing = None
             /\ s.persistence = Recorded(r.absorbing.status.profile)
<1> DEFINE db == Recorded(r.absorbing.status.profile)
<1>1. db \in Dbs \cup {None}
  BY DhsAssumption DEF Recorded, Fits, DhsState, Status
<1> HIDE DEF db
<1> DEFINE s == [r EXCEPT !.absorbing = None, !.persistence = db]
<1>2. /\ Fits(s) /\ s.phase = r.phase /\ s.path = r.path /\ s.mission = r.mission
      /\ s.state = r.state /\ s.lapsed = r.lapsed
      /\ s.said = r.said /\ s.buffers = r.buffers /\ s.card = r.card
      /\ s.absorbing = None /\ s.persistence = db
  BY <1>1 DEF Fits, DhsState
<1>3. Heard(r) = s
  BY DEF Heard, db
<1> HIDE DEF s
<1> QED BY <1>2, <1>3 DEF db

LEMMA HandleIs ==
  ASSUME NEW r, NEW bad
  PROVE  OnObcStatus(r, bad) = ReconcileDhs(Heard(r), bad)
BY DEF OnObcStatus, Heard, Recorded

\* What is left of the environment's budget.
LEMMA SpendTyped ==
  ASSUME left \in [Kinds -> Nat], NEW kind \in Kinds, NEW n \in Nat, Spend(kind, n)
  PROVE  left' \in [Kinds -> Nat]
BY DEF Spend

LEMMA CostTyped ==
  /\ \A bad : Cost(bad) \in Nat /\ 1 + Cost(bad) \in Nat
  /\ {"rare", "says", "photos", "switches"} = Kinds
BY DEF Cost, Kinds

\* The phase changes; a stop forgets the database as well.
Phased(r, phase) == [r EXCEPT !.phase = phase]

LEMMA PhasedTyped ==
  ASSUME NEW r, Fits(r), NEW phase \in {"down", "connected", "serving", "stopping"}
  PROVE  LET s == Phased(r, phase)
         IN  /\ Fits(s) /\ s.phase = phase /\ s.profile = r.profile
             /\ s.state = r.state /\ s.absorbing = r.absorbing
             /\ s.persistence = r.persistence /\ s.path = r.path
             /\ s.mission = r.mission /\ s.lapsed = r.lapsed
             /\ s.said = r.said /\ s.buffers = r.buffers /\ s.card = r.card
<1> DEFINE s == Phased(r, phase)
<1>1. s = [r EXCEPT !.phase = phase]
  BY DEF Phased
<1> HIDE DEF s
<1>2. /\ s.phase = phase /\ s.profile = r.profile
      /\ s.state = r.state /\ s.absorbing = r.absorbing
      /\ s.persistence = r.persistence /\ s.path = r.path
      /\ s.mission = r.mission /\ s.lapsed = r.lapsed
      /\ s.said = r.said /\ s.buffers = r.buffers /\ s.card = r.card
  BY <1>1 DEF Fits, DhsState
<1>3. s \in DhsState
  BY <1>1 DEF Fits, DhsState
<1>4. Fits(s)
  BY <1>2, <1>3 DEF Fits
<1> QED BY <1>2, <1>4 DEF s

Halted(r) == [r EXCEPT !.path = None, !.phase = "stopping"]

LEMMA HaltedTyped ==
  ASSUME NEW r, Fits(r)
  PROVE  LET s == Halted(r)
         IN  /\ Fits(s) /\ s.phase = "stopping" /\ s.path = None
             /\ s.profile = r.profile /\ s.state = r.state
             /\ s.absorbing = r.absorbing /\ s.persistence = r.persistence
             /\ s.mission = r.mission /\ s.lapsed = r.lapsed
             /\ s.said = r.said /\ s.buffers = r.buffers /\ s.card = r.card
BY DEF Fits, DhsState, Halted

\* A photograph is filed, a mission gets old: edits of the card.
Photographed(db, id) == [db EXCEPT !.photos = db.photos \cup {id}]
Older(db, id) == [db EXCEPT !.missions[id].old = TRUE]

LEMMA PhotographedSound ==
  ASSUME NEW db \in Database, NEW id \in Ids
  PROVE  LET new == Photographed(db, id)
         IN  /\ new \in Database /\ Unended(new) = Unended(db)
             /\ MissionsOf(new) = MissionsOf(db) /\ new.samples = db.samples
             /\ SoundDb(db) /\ id < db.next => SoundDb(new) /\ Onward(db, new)
<1> DEFINE new == Photographed(db, id)
<1>1. /\ new \in Database /\ new.next = db.next /\ new.missions = db.missions
      /\ new.samples = db.samples /\ new.photos = db.photos \cup {id}
  BY DEF Photographed, Database
<1> HIDE DEF new
<1>2. MissionsOf(new) = MissionsOf(db) /\ Unended(new) = Unended(db)
  BY <1>1 DEF MissionsOf, Unended
<1>3. Onward(db, db)
  BY OnwardSame
<1>4. Onward(db, new)
  BY <1>1, <1>2, <1>3 DEF Onward
<1>5. ASSUME SoundDb(db), id < db.next
      PROVE  SoundDb(new)
  BY <1>1, <1>2, <1>5 DEF SoundDb, Issued, Agrees
<1> QED BY <1>1, <1>2, <1>4, <1>5 DEF new

LEMMA OlderSound ==
  ASSUME NEW db \in Database, NEW id \in MissionsOf(db)
  PROVE  LET new == Older(db, id)
         IN  /\ new \in Database /\ Unended(new) = Unended(db)
             /\ MissionsOf(new) = MissionsOf(db) /\ new.samples = db.samples
             /\ SoundDb(db) => SoundDb(new) /\ Onward(db, new)
<1> DEFINE new == Older(db, id)
           row == [db.missions[id] EXCEPT !.old = TRUE]
           m == [db.missions EXCEPT ![id] = row]
<1>1. /\ \A i \in MissionsOf(db) : db.missions[i] \in MissionRow
      /\ db.missions \in [MissionsOf(db) -> MissionRow]
  BY DatabaseShape, TableShape DEF MissionsOf
<1>2. /\ row \in MissionRow /\ row.old = TRUE /\ row.end = db.missions[id].end
      /\ row.rows = db.missions[id].rows /\ row.purged = db.missions[id].purged
  BY <1>1 DEF MissionRow
<1>3. new = [db EXCEPT !.missions = m]
  BY DEF Older
<1> HIDE DEF row
<1>4. /\ DOMAIN m = MissionsOf(db) /\ m \in [MissionsOf(db) -> MissionRow]
      /\ m[id] = row /\ \A i \in MissionsOf(db) : i # id => m[i] = db.missions[i]
  BY <1>1, <1>2
<1> HIDE DEF m, new
<1>5. /\ new.missions = m /\ new.exists = db.exists /\ new.next = db.next
      /\ new.photos = db.photos /\ new.samples = db.samples
      /\ new = [exists |-> new.exists, next |-> new.next, missions |-> new.missions,
                samples |-> new.samples, photos |-> new.photos]
  BY <1>3 DEF Database
<1>6. new \in Database /\ MissionsOf(new) = MissionsOf(db)
  BY <1>4, <1>5, RetableTyped
<1>7. Unended(new) = Unended(db)
  BY <1>2, <1>4, <1>5, <1>6 DEF Unended
<1>8. ASSUME SoundDb(db)
      PROVE  Rerowed(db, new)
  <2>1. \A i \in MissionsOf(db) :
          /\ db.missions[i].rows \in Int
          /\ db.missions[i].end # None /\ ~db.missions[i].old
               => db.missions[i].summary = db.missions[i].rows
    BY <1>1, <1>8 DEF SoundDb, Agrees, MissionRow
  <2> QED BY <1>2, <1>4, <1>5, <1>6, <2>1 DEF Rerowed
<1> QED BY <1>5, <1>6, <1>7, <1>8, RerowedSound DEF new

\* The handler's turn comes, and the state is known.
Turned(r) == [r EXCEPT !.state = r.absorbing.status.state,
                       !.absorbing.stage = "handle"]

LEMMA TurnedTyped ==
  ASSUME NEW r, Fits(r), r.absorbing # None
  PROVE  LET s == Turned(r)
         IN  /\ Fits(s) /\ s.phase = r.phase /\ s.path = r.path /\ s.mission = r.mission
             /\ s.persistence = r.persistence /\ s.lapsed = r.lapsed
             /\ s.said = r.said /\ s.buffers = r.buffers /\ s.card = r.card
             /\ s.absorbing # None /\ s.absorbing.status = r.absorbing.status
             /\ s.absorbing.stage = "handle"
             /\ s.state = r.absorbing.status.state
<1> DEFINE s == Turned(r)
           absorbing == [r.absorbing EXCEPT !.stage = "handle"]
<1>1. r.absorbing \in [status: Status, stage: {"state", "handle"}]
  BY DEF Fits, DhsState
<1>2. /\ absorbing \in [status: Status, stage: {"state", "handle"}]
      /\ absorbing # None /\ absorbing.status = r.absorbing.status
      /\ absorbing.stage = "handle"
  BY <1>1, DhsAssumption
<1>3. s = [r EXCEPT !.state = r.absorbing.status.state, !.absorbing = absorbing]
  BY <1>1 DEF Turned, Fits, DhsState
<1>4. r.absorbing.status.state \in States
  BY <1>1 DEF Status
<1> HIDE DEF absorbing, s
<1>5. /\ Fits(s) /\ s.phase = r.phase /\ s.path = r.path /\ s.mission = r.mission
      /\ s.persistence = r.persistence /\ s.lapsed = r.lapsed
      /\ s.said = r.said /\ s.buffers = r.buffers /\ s.card = r.card
      /\ s.absorbing = absorbing /\ s.state = r.absorbing.status.state
  BY <1>2, <1>3, <1>4 DEF Fits, DhsState
<1> QED BY <1>2, <1>5 DEF s

\* The type invariant, as a fact about the state and one about the rest.
LEMMA TypeIs ==
  DhsTypeOK <=> /\ Fits(dhs) /\ bus \in [told: Status, host: Profiles]
                /\ left \in [Kinds -> Nat]
BY DEF DhsTypeOK, Fits

LEMMA DhsInitTyped ==
  ASSUME dhs = InitDhs, left = Limits,
         bus = [told |-> [profile |-> Flown, state |-> "STANDBY"], host |-> Flown]
  PROVE  /\ DhsTypeOK
         /\ dhs.phase = "down" /\ dhs.absorbing = None /\ dhs.persistence = None
         /\ dhs.mission = None /\ dhs.path = None /\ dhs.said.mission = None
         /\ dhs.card = [d \in Dbs |-> EmptyDatabase]
         /\ \A log \in Logs : dhs.buffers[log] = <<>>
<1> DEFINE card == [d \in Dbs |-> EmptyDatabase]
           said == [mission |-> None, database |-> None]
           r == [ phase |-> "down", profile |-> None, state |-> None,
                  persistence |-> None, absorbing |-> None, path |-> None,
                  refused |-> None, mission |-> None, lapsed |-> FALSE,
                  buffers |-> [log \in Logs |-> <<>>], card |-> card, said |-> said ]
<1>1. /\ card \in [Dbs -> Database]
      /\ said \in [mission: Ids \cup {None}, database: Dbs \cup {None}]
      /\ said.mission = None
  BY EmptyIsSound
<1>2. dhs = Restarted(r)
  BY DEF InitDhs
<1> HIDE DEF card, said
<1>3. /\ r.card = card /\ r.said = said
      /\ r = [ phase |-> r.phase, profile |-> r.profile, state |-> r.state,
               persistence |-> r.persistence, absorbing |-> r.absorbing,
               path |-> r.path, refused |-> r.refused, mission |-> r.mission,
               lapsed |-> r.lapsed, buffers |-> r.buffers, card |-> r.card,
               said |-> r.said ]
  OBVIOUS
<1> HIDE DEF r
<1>4. /\ Fits(dhs) /\ dhs.phase = "down" /\ dhs.absorbing = None
      /\ dhs.persistence = None /\ dhs.mission = None /\ dhs.path = None
      /\ dhs.card = r.card /\ dhs.said = r.said
      /\ \A log \in Logs : dhs.buffers[log] = <<>>
  BY <1>1, <1>2, <1>3, RestartedTyped
<1>5. bus \in [told: Status, host: Profiles] /\ left \in [Kinds -> Nat]
  BY DhsAssumption DEF Status
<1> QED BY <1>1, <1>3, <1>4, <1>5, TypeIs DEF card

\* What each action is, in terms of these methods; what it leaves of the
\* environment's budget is a number.
Death(r, s) ==
  /\ Fits(s) /\ s.phase = "down" /\ s.absorbing = None /\ s.persistence = None
  /\ s.mission = None /\ s.path = None /\ s.card = r.card /\ s.said = r.said
  /\ \A log \in Logs : s.buffers[log] = <<>>

Filing(r, s) ==
  /\ r.said.mission # None /\ r.said.database # None
  /\ s = [r EXCEPT !.card[r.said.database] =
            Photographed(r.card[r.said.database], r.said.mission)]

Ageing(r, s) ==
  \E d \in Dbs : \E id \in MissionsOf(r.card[d]) :
    s = [r EXCEPT !.card[d] = Older(r.card[d], id)]

Moves(r, s, bad) ==
  \/ r.phase = "down" /\ s = Absorb(Phased(r, "connected"), bus.told)
  \/ /\ r.phase = "connected"
     /\ s = PublishDhs(ReconcileDhs(Phased(r, "serving"), bad))
  \/ r.phase = "serving" /\ \E due \in BOOLEAN : s = Ticked(r, due, bad)
  \/ r.phase = "serving" /\ s = Halted(CloseMission(r, "SHUTDOWN", bad))
  \/ Death(r, s)
  \/ r.absorbing # None /\ r.absorbing.stage = "state" /\ s = Turned(r)
  \/ /\ r.absorbing # None /\ r.absorbing.stage = "handle"
     /\ s = ReconcileDhs(Heard(r), bad)
  \/ \E log \in Logs : s = Offer(r, log)
  \/ \E id \in Ids : s = DeleteMission(r, id, bad)
  \/ Filing(r, s)
  \/ Ageing(r, s)

Speaks(r, s, bad) ==
  \/ \E status \in Status :
       /\ Follows(status) /\ bus' = [bus EXCEPT !.told = status]
       /\ \/ r.phase = "down" /\ s = r
          \/ Listening /\ s = Absorb(r, status)
  \/ \E profile \in Profiles :
       /\ bus' = [bus EXCEPT !.host = profile]
       /\ \/ r.phase = "down" /\ s = r
          \/ Listening /\ s = OnDhsHostStatus(r, profile, bad)

LEMMA NextIs ==
  ASSUME DhsTypeOK, NextDhs
  PROVE  /\ left' \in [Kinds -> Nat]
         /\ \E bad \in Fails : \/ Moves(dhs, dhs', bad) /\ UNCHANGED bus
                               \/ Speaks(dhs, dhs', bad)
<1> DEFINE Done == /\ left' \in [Kinds -> Nat]
                   /\ \E bad \in Fails : \/ Moves(dhs, dhs', bad) /\ UNCHANGED bus
                                         \/ Speaks(dhs, dhs', bad)
<1>1. Fits(dhs) /\ bus \in [told: Status, host: Profiles] /\ left \in [Kinds -> Nat]
  BY TypeIs
<1>2. {} \in Fails
  BY DEF Fails
<1>3. \A kind \in Kinds, n \in Nat : Spend(kind, n) => left' \in [Kinds -> Nat]
  BY <1>1, SpendTyped
<1>4. ASSUME NEW bad
      PROVE  /\ "rare" \in Kinds /\ "says" \in Kinds /\ "photos" \in Kinds
             /\ Cost(bad) \in Nat /\ 1 \in Nat /\ 1 + Cost(bad) \in Nat
  BY CostTyped
<1>5. UNCHANGED left => left' \in [Kinds -> Nat]
  BY <1>1
<1>6. CASE DhsConnect
  <2>1. dhs' = Absorb(Phased(dhs, "connected"), bus.told) /\ dhs.phase = "down"
    BY <1>6 DEF DhsConnect, Phased
  <2> QED BY <1>2, <1>5, <1>6, <2>1 DEF DhsConnect, Moves
<1>7. CASE DhsStart
  <2>1. PICK bad \in Fails :
          /\ Spend("rare", Cost(bad))
          /\ dhs' = PublishDhs(ReconcileDhs(Phased(dhs, "serving"), bad))
    BY <1>7 DEF DhsStart, Phased
  <2> QED BY <1>3, <1>4, <1>7, <2>1 DEF DhsStart, Moves
<1>8. CASE DhsTick
  <2>1. PICK due \in BOOLEAN, bad \in Fails :
          Spend("rare", Cost(bad)) /\ dhs' = Ticked(dhs, due, bad)
    BY <1>8 DEF DhsTick
  <2> QED BY <1>3, <1>4, <1>8, <2>1 DEF DhsTick, Moves
<1>9. CASE DhsStop
  <2>1. PICK bad \in Fails :
          Spend("rare", Cost(bad)) /\ dhs' = Halted(CloseMission(dhs, "SHUTDOWN", bad))
    BY <1>9 DEF DhsStop, Halted
  <2> QED BY <1>3, <1>4, <1>9, <2>1 DEF DhsStop, Moves
<1>10. CASE DhsDies
  <2>1. Death(dhs, dhs')
    <3>1. /\ dhs.card \in [Dbs -> Database]
          /\ dhs.said \in [mission: Ids \cup {None}, database: Dbs \cup {None}]
      BY <1>1, StateShape
    <3>2. dhs = [ phase |-> dhs.phase, profile |-> dhs.profile, state |-> dhs.state,
                  persistence |-> dhs.persistence, absorbing |-> dhs.absorbing,
                  path |-> dhs.path, refused |-> dhs.refused, mission |-> dhs.mission,
                  lapsed |-> dhs.lapsed, buffers |-> dhs.buffers, card |-> dhs.card,
                  said |-> dhs.said ]
      BY <1>1 DEF Fits, DhsState
    <3>3. dhs' = Restarted(dhs)
      BY <1>10 DEF DhsDies
    <3> QED BY <3>1, <3>2, <3>3, RestartedTyped DEF Death
  <2> QED BY <1>2, <1>3, <1>4, <1>10, <2>1 DEF DhsDies, Moves
<1>11. CASE ObcSays
  <2>1. PICK status \in Status :
          /\ Follows(status) /\ bus' = [bus EXCEPT !.told = status]
          /\ \/ dhs.phase = "down" /\ UNCHANGED dhs
             \/ Listening /\ dhs' = Absorb(dhs, status)
    BY <1>11 DEF ObcSays
  <2> QED BY <1>2, <1>3, <1>4, <1>11, <2>1 DEF ObcSays, Speaks
<1>12. CASE AbsorbState
  <2>1. dhs' = Turned(dhs)
    BY <1>12 DEF AbsorbState, Turned
  <2> QED BY <1>2, <1>5, <1>12, <2>1 DEF AbsorbState, Moves
<1>13. CASE HandleObcStatus
  <2>1. PICK bad \in Fails :
          Spend("rare", Cost(bad)) /\ dhs' = ReconcileDhs(Heard(dhs), bad)
    BY <1>13, HandleIs DEF HandleObcStatus
  <2> QED BY <1>3, <1>4, <1>13, <2>1 DEF HandleObcStatus, Moves
<1>14. CASE HostSays
  <2>1. PICK profile \in Profiles, bad \in Fails :
          /\ left.switches > 0 /\ left.rare >= Cost(bad)
          /\ left' = [left EXCEPT !.switches = @ - 1, !.rare = @ - Cost(bad)]
          /\ bus' = [bus EXCEPT !.host = profile]
          /\ \/ dhs.phase = "down" /\ UNCHANGED dhs
             \/ Listening /\ dhs' = OnDhsHostStatus(dhs, profile, bad)
    BY <1>14 DEF HostSays
  <2>2. left' \in [Kinds -> Nat]
    <3>1. left.switches \in Nat /\ left.rare \in Nat /\ Cost(bad) \in Nat
      BY <1>1, <1>4 DEF Kinds
    <3>2. left.switches - 1 \in Nat /\ left.rare - Cost(bad) \in Nat
      BY <2>1, <3>1
    <3> QED BY <1>1, <2>1, <3>2 DEF Kinds
  <2> QED BY <2>1, <2>2 DEF Speaks
<1>15. CASE SampleArrives
  BY <1>2, <1>3, <1>4, <1>15 DEF SampleArrives, Moves
<1>16. CASE GroundDeletes
  <2>1. PICK id \in Ids, bad \in Fails :
          Spend("rare", 1 + Cost(bad)) /\ dhs' = DeleteMission(dhs, id, bad)
    BY <1>16 DEF GroundDeletes
  <2> QED BY <1>3, <1>4, <1>16, <2>1 DEF GroundDeletes, Moves
<1>17. CASE PayloadFiles
  <2>1. Filing(dhs, dhs')
    BY <1>17 DEF PayloadFiles, Filing, Photographed
  <2> QED BY <1>2, <1>3, <1>4, <1>17, <2>1 DEF PayloadFiles, Moves
<1>18. CASE DaysPass
  <2>1. Ageing(dhs, dhs')
    BY <1>18 DEF DaysPass, Ageing, Older
  <2> QED BY <1>2, <1>3, <1>4, <1>18, <2>1 DEF DaysPass, Moves
<1> QED BY <1>6, <1>7, <1>8, <1>9, <1>10, <1>11, <1>12, <1>13, <1>14, <1>15,
           <1>16, <1>17, <1>18 DEF NextDhs

\* So every step keeps the types.
LEMMA MovesTyped ==
  ASSUME NEW r, Fits(r), NEW s, NEW bad, Moves(r, s, bad), bus.told \in Status
  PROVE  Fits(s)
<1>1. CASE s = Absorb(Phased(r, "connected"), bus.told)
  <2> DEFINE q == Phased(r, "connected")
  <2>1. Fits(q)
    BY PhasedTyped
  <2> HIDE DEF q
  <2>2. Fits(Absorb(q, bus.told))
    BY <2>1, AbsorbTyped
  <2> QED BY <1>1, <2>2 DEF q
<1>2. CASE s = PublishDhs(ReconcileDhs(Phased(r, "serving"), bad))
  <2> DEFINE q == Phased(r, "serving")
             m == ReconcileDhs(q, bad)
  <2>1. Fits(q)
    BY PhasedTyped
  <2> HIDE DEF q
  <2>2. Fits(m)
    BY <2>1, ReconcileTyped
  <2> HIDE DEF m
  <2>3. Fits(PublishDhs(m))
    BY <2>2, PublishTyped
  <2> QED BY <1>2, <2>3 DEF q, m
<1>3. CASE \E due \in BOOLEAN : s = Ticked(r, due, bad)
  BY <1>3, TickedTyped
<1>4. CASE s = Halted(CloseMission(r, "SHUTDOWN", bad))
  <2> DEFINE q == CloseMission(r, "SHUTDOWN", bad)
  <2>1. Fits(q)
    BY CloseMissionTyped DEF EndReason, MissionClosed
  <2> HIDE DEF q
  <2>2. Fits(Halted(q))
    BY <2>1, HaltedTyped
  <2> QED BY <1>4, <2>2 DEF q
<1>5. CASE Death(r, s)
  BY <1>5 DEF Death
<1>6. CASE r.absorbing # None /\ s = Turned(r)
  BY <1>6, TurnedTyped
<1>7. CASE r.absorbing # None /\ s = ReconcileDhs(Heard(r), bad)
  <2> DEFINE q == Heard(r)
  <2>1. Fits(q)
    BY <1>7, HeardTyped
  <2> HIDE DEF q
  <2>2. Fits(ReconcileDhs(q, bad))
    BY <2>1, ReconcileTyped
  <2> QED BY <1>7, <2>2 DEF q
<1>8. CASE \E log \in Logs : s = Offer(r, log)
  BY <1>8, OfferTyped
<1>9. CASE \E id \in Ids : s = DeleteMission(r, id, bad)
  BY <1>9, DeleteTyped
<1>10. CASE Filing(r, s)
  <2> DEFINE d == r.said.database
             db == Photographed(r.card[d], r.said.mission)
  <2>1. d \in Dbs /\ r.said.mission \in Ids
    BY <1>10, StateShape DEF Filing
  <2>2. db \in Database
    BY <2>1, StateShape, PhotographedSound
  <2>3. s = [r EXCEPT !.card[d] = db]
    BY <1>10 DEF Filing
  <2> HIDE DEF d, db
  <2> QED BY <2>1, <2>2, <2>3, EditTyped
<1>11. CASE Ageing(r, s)
  <2>1. PICK d \in Dbs : \E id \in MissionsOf(r.card[d]) :
          s = [r EXCEPT !.card[d] = Older(r.card[d], id)]
    BY <1>11 DEF Ageing
  <2>2. PICK id \in MissionsOf(r.card[d]) :
          s = [r EXCEPT !.card[d] = Older(r.card[d], id)]
    BY <2>1
  <2> DEFINE db == Older(r.card[d], id)
  <2>3. db \in Database
    BY StateShape, OlderSound
  <2>4. s = [r EXCEPT !.card[d] = db]
    BY <2>2
  <2> HIDE DEF db
  <2> QED BY <2>3, <2>4, EditTyped
<1> QED BY <1>1, <1>2, <1>3, <1>4, <1>5, <1>6, <1>7, <1>8, <1>9, <1>10, <1>11
        DEF Moves

LEMMA SpeaksTyped ==
  ASSUME NEW r, Fits(r), NEW s, NEW bad, Speaks(r, s, bad),
         bus \in [told: Status, host: Profiles]
  PROVE  Fits(s) /\ bus' \in [told: Status, host: Profiles]
<1>1. ASSUME NEW status \in Status, bus' = [bus EXCEPT !.told = status],
             s = r \/ s = Absorb(r, status)
      PROVE  Fits(s) /\ bus' \in [told: Status, host: Profiles]
  BY <1>1, AbsorbTyped
<1>2. ASSUME NEW profile \in Profiles, bus' = [bus EXCEPT !.host = profile],
             s = r \/ s = OnDhsHostStatus(r, profile, bad)
      PROVE  Fits(s) /\ bus' \in [told: Status, host: Profiles]
  <2>1. OnDhsHostStatus(r, profile, bad) \in {r, CloseMission(r, "PROFILE_CHANGE", bad)}
    BY DEF OnDhsHostStatus
  <2>2. Fits(CloseMission(r, "PROFILE_CHANGE", bad))
    BY CloseMissionTyped DEF EndReason, MissionClosed
  <2> QED BY <1>2, <2>1, <2>2
<1> QED BY <1>1, <1>2 DEF Speaks

\* The types, for any profiles, databases, bounds, and whatever fails.
THEOREM RecorderTypeCorrect == SpecDhs => []DhsTypeOK
<1>1. ASSUME dhs = InitDhs, left = Limits,
             bus = [told |-> [profile |-> Flown, state |-> "STANDBY"], host |-> Flown]
      PROVE  DhsTypeOK
  BY <1>1, DhsInitTyped
<1>2. ASSUME DhsTypeOK, [NextDhs]_dhsVars
      PROVE  DhsTypeOK'
  <2>1. CASE UNCHANGED dhsVars
    BY <1>2, <2>1 DEF DhsTypeOK, dhsVars
  <2>2. CASE NextDhs
    <3>1. left' \in [Kinds -> Nat]
      BY <1>2, <2>2, NextIs
    <3>2. PICK bad \in Fails : \/ Moves(dhs, dhs', bad) /\ UNCHANGED bus
                               \/ Speaks(dhs, dhs', bad)
      BY <1>2, <2>2, NextIs
    <3>3. /\ Fits(dhs) /\ bus \in [told: Status, host: Profiles]
          /\ bus.told \in Status
      BY <1>2, TypeIs
    <3>4. Fits(dhs') /\ bus' \in [told: Status, host: Profiles]
      BY <3>2, <3>3, MovesTyped, SpeaksTyped
    <3> QED BY <3>1, <3>4 DEF DhsTypeOK, Fits
  <2> QED BY <1>2, <2>1, <2>2
<1> QED BY <1>1, <1>2, PTL DEF SpecDhs

(***************************************************************************)
(* The invariant.  What is on the card is sound; the open mission is       *)
(* there, alone, and not ended; and what DHS said last has been issued.    *)
(***************************************************************************)
CardIsSound(r) == \A d \in Dbs : SoundDb(r.card[d])

IsOnCard(r) ==
  r.mission # None => /\ r.path = r.mission.db
                      /\ r.mission.id \in Unended(r.card[r.path])

IsAlone(r) ==
  r.path # None /\ ~r.lapsed =>
    \A id \in Unended(r.card[r.path]) : r.mission # None /\ r.mission.id = id

SaidIsIssued(r) ==
  r.said.mission # None /\ r.said.database # None =>
    r.said.mission < r.card[r.said.database].next

Sound(r) == Fits(r) /\ CardIsSound(r) /\ IsOnCard(r) /\ IsAlone(r) /\ SaidIsIssued(r)

\* DHS says that it records exactly when it does.
Told(r) == r.said.mission = None <=> r.mission = None

\* Which database is asked for, and what OBC said last, go together: a mission
\* is only open in the database the profile asks for, and while a status waits
\* for its handler it cannot ask for another one and for recording at once.
Wired(r, told) ==
  /\ r.phase = "down" =>
       /\ r.mission = None /\ r.absorbing = None /\ r.persistence = None
  /\ r.absorbing # None =>
       /\ r.absorbing.status = told
       /\ r.absorbing.stage = "handle" => r.state = told.state
       /\ told.state \in RecordingStates /\ r.persistence # None =>
            Recorded(told.profile) = r.persistence
  /\ r.phase # "down" /\ r.absorbing = None => r.persistence = Recorded(told.profile)
  /\ r.mission # None => r.persistence = r.path
  /\ r.phase \in {"serving", "stopping"} => Told(r)

\* What is buffered belongs to the open mission, and what is on record to the
\* database it is in.
Filed(r) ==
  /\ \A log \in Logs : \A i \in DOMAIN r.buffers[log] :
       /\ r.mission # None
       /\ r.buffers[log][i].db = r.mission.db
       /\ r.buffers[log][i].id = r.mission.id
  /\ \A d \in Dbs : \A s \in r.card[d].samples : s.db = d

\* A way on from a sound state: to a sound one, with every database further on
\* and the same mission, none, or one with an id that had not been issued.
Carries(r, s) ==
  /\ Sound(s)
  /\ \A d \in Dbs : Onward(r.card[d], s.card[d])
  /\ \/ s.mission \in {r.mission, None}
     \/ s.mission.db \in Dbs /\ r.card[s.mission.db].next <= s.mission.id
  /\ Told(r) => Told(s)

LEMMA SoundShape ==
  ASSUME NEW r, Sound(r)
  PROVE  /\ Fits(r) /\ \A d \in Dbs : SoundDb(r.card[d]) /\ r.card[d].next \in Nat
         /\ r.mission # None => /\ r.path \in Dbs /\ r.path = r.mission.db
                                /\ r.path # None /\ r.mission.id \in Nat
                                /\ r.mission.id \in Unended(r.card[r.path])
                                /\ r.mission.id \in MissionsOf(r.card[r.path])
                                /\ r.mission.id < r.card[r.path].next
<1>1. Fits(r) /\ \A d \in Dbs : SoundDb(r.card[d])
  BY DEF Sound, CardIsSound
<1>2. \A d \in Dbs : r.card[d].next \in Nat
  BY <1>1, DatabaseShape DEF SoundDb
<1>3. ASSUME r.mission # None
      PROVE  /\ r.path \in Dbs /\ r.path = r.mission.db
             /\ r.path # None /\ r.mission.id \in Nat
             /\ r.mission.id \in Unended(r.card[r.path])
             /\ r.mission.id \in MissionsOf(r.card[r.path])
             /\ r.mission.id < r.card[r.path].next
  <2>1. r.path = r.mission.db /\ r.mission.id \in Unended(r.card[r.path])
    BY <1>3 DEF Sound, IsOnCard
  <2>2. r.path \in Dbs /\ r.path # None /\ r.mission.id \in Nat
    BY <1>1, <1>3, <2>1, StateShape DEF Ids
  <2>3. r.mission.id \in MissionsOf(r.card[r.path])
    BY <2>1 DEF Unended
  <2> QED BY <1>1, <2>1, <2>2, <2>3 DEF SoundDb, Issued
<1> QED BY <1>1, <1>2, <1>3

\* Two ways on are a way on.
LEMMA CarriesTrans ==
  ASSUME NEW r, NEW s, NEW t, Sound(r), Carries(r, s), Carries(s, t)
  PROVE  Carries(r, t)
<1>1. Sound(s) /\ Sound(t)
  BY DEF Carries
<1>2. \A d \in Dbs : /\ SoundDb(r.card[d]) /\ SoundDb(s.card[d]) /\ SoundDb(t.card[d])
                     /\ r.card[d].next \in Nat /\ s.card[d].next \in Nat
  BY <1>1, SoundShape
<1>3. \A d \in Dbs : Onward(r.card[d], t.card[d])
  <2> TAKE d \in Dbs
  <2>1. Onward(r.card[d], s.card[d]) /\ Onward(s.card[d], t.card[d])
    BY DEF Carries
  <2> QED BY <1>2, <2>1, OnwardTrans DEF SoundDb
<1>4. \A d \in Dbs : r.card[d].next <= s.card[d].next
  BY DEF Carries, Onward
<1>5. \/ t.mission \in {r.mission, None}
      \/ t.mission.db \in Dbs /\ r.card[t.mission.db].next <= t.mission.id
  <2>1. CASE t.mission \in {s.mission, None}
    BY <2>1 DEF Carries
  <2>2. CASE /\ t.mission.db \in Dbs /\ t.mission # None
             /\ s.card[t.mission.db].next <= t.mission.id
    <3>1. t.mission.id \in Nat
      BY <1>1, <2>2, SoundShape
    <3> QED BY <1>2, <1>4, <2>2, <3>1
  <2> QED BY <2>1, <2>2 DEF Carries
<1> QED BY <1>1, <1>3, <1>5 DEF Carries

\* The databases go on under the recorder, and it does not notice.
CardMoves(r, s) ==
  /\ s.path = r.path /\ s.mission = r.mission /\ s.lapsed = r.lapsed
  /\ s.said = r.said
  /\ \A d \in Dbs : /\ SoundDb(s.card[d]) /\ Onward(r.card[d], s.card[d])
                    /\ Unended(s.card[d]) \subseteq Unended(r.card[d])
  /\ r.mission # None => r.mission.id \in Unended(s.card[r.path])

LEMMA CardCarries ==
  ASSUME NEW r, NEW s, Sound(r), Fits(s), CardMoves(r, s)
  PROVE  Carries(r, s)
<1>1. CardIsSound(s)
  BY DEF CardIsSound, CardMoves
<1>2. IsOnCard(s)
  BY DEF Sound, IsOnCard, CardMoves
<1>3. IsAlone(s)
  <2>1. s.path # None => s.path \in Dbs
    BY StateShape
  <2> QED BY <2>1 DEF Sound, IsAlone, CardMoves
<1>4. SaidIsIssued(s)
  <2> SUFFICES ASSUME s.said.mission # None, s.said.database # None
               PROVE  s.said.mission < s.card[s.said.database].next
    BY DEF SaidIsIssued
  <2> DEFINE d == s.said.database
  <2>1. d \in Dbs /\ s.said.mission \in Nat
    BY StateShape DEF Ids
  <2>2. r.card[d].next \in Nat /\ s.card[d].next \in Nat
    BY <2>1, SoundShape, DatabaseShape DEF CardMoves, SoundDb
  <2>3. s.said.mission < r.card[d].next /\ r.card[d].next <= s.card[d].next
    BY <2>1 DEF Sound, SaidIsIssued, CardMoves, Onward
  <2> QED BY <2>1, <2>2, <2>3
<1> QED BY <1>1, <1>2, <1>3, <1>4 DEF Carries, Sound, CardMoves, Told

\* An edit of one database under the recorder.
LEMMA EditCarries ==
  ASSUME NEW r, NEW s, Sound(r), Fits(s), NEW d \in Dbs, NEW db,
         s.path = r.path, s.mission = r.mission, s.lapsed = r.lapsed, s.said = r.said,
         s.card = [r.card EXCEPT ![d] = db],
         SoundDb(db), Onward(r.card[d], db), Unended(db) \subseteq Unended(r.card[d]),
         r.mission # None /\ d = r.path => r.mission.id \in Unended(db)
  PROVE  Carries(r, s)
<1>1. /\ s.card[d] = db
      /\ \A e \in Dbs : e # d => s.card[e] = r.card[e]
  BY SoundShape, StateShape
<1>2. \A e \in Dbs : SoundDb(r.card[e]) /\ Onward(r.card[e], r.card[e])
  BY SoundShape, OnwardSame DEF SoundDb
<1>3. r.mission # None => r.mission.id \in Unended(s.card[r.path])
  BY <1>1, SoundShape
<1>4. CardMoves(r, s)
  BY <1>1, <1>2, <1>3 DEF CardMoves
<1> QED BY <1>4, CardCarries

\* Nothing of it changes.
LEMMA StillCarries ==
  ASSUME NEW r, NEW s, Sound(r), Fits(s),
         s.path = r.path, s.mission = r.mission, s.lapsed = r.lapsed, s.said = r.said,
         s.card = r.card
  PROVE  Carries(r, s)
<1>1. \A e \in Dbs : SoundDb(r.card[e]) /\ Onward(r.card[e], r.card[e])
  BY SoundShape, OnwardSame DEF SoundDb
<1> QED BY <1>1, SoundShape, CardCarries DEF CardMoves

\* What is published is the open mission, or that there is none.
LEMMA PublishCarries ==
  ASSUME NEW r, Sound(r)
  PROVE  Carries(r, PublishDhs(r)) /\ Told(PublishDhs(r))
<1> DEFINE s == PublishDhs(r)
<1>1. /\ Fits(s) /\ s.path = r.path
      /\ s.mission = r.mission /\ s.lapsed = r.lapsed /\ s.card = r.card
      /\ s.said.mission = (IF r.mission = None THEN None ELSE r.mission.id)
      /\ s.said.database = r.path
  BY SoundShape, PublishTyped
<1> HIDE DEF s
<1>2. r.mission # None => r.mission.id # None
  BY SoundShape, StateShape
<1>3. Told(s)
  BY <1>1, <1>2 DEF Told
<1>4. SaidIsIssued(s)
  BY <1>1, SoundShape DEF SaidIsIssued
<1>5. CardIsSound(s) /\ IsOnCard(s) /\ IsAlone(s)
  BY <1>1 DEF Sound, CardIsSound, IsOnCard, IsAlone
<1>6. \A d \in Dbs : Onward(r.card[d], s.card[d])
  BY <1>1, SoundShape, OnwardSame DEF SoundDb
<1>7. Sound(s)
  BY <1>1, <1>4, <1>5 DEF Sound
<1> QED BY <1>1, <1>3, <1>6, <1>7 DEF Carries, s

(***************************************************************************)
(* The methods, each a way on.  Where the writes of the samples do not     *)
(* fail, each keeps them where they belong as well.                        *)
(***************************************************************************)
Written(bad) == "attitude" \notin bad /\ "radio" \notin bad

\* One buffer.
LEMMA FlushLogCarries ==
  ASSUME NEW r, Sound(r), NEW log \in Logs, NEW bad
  PROVE  LET s == FlushLog(r, log, bad)
         IN  /\ Carries(r, s)
             /\ Filed(r) /\ log \notin bad =>
                  /\ Filed(s) /\ s.buffers[log] = <<>>
                  /\ \A l \in Logs : s.buffers[l] \in {r.buffers[l], <<>>}
<1> DEFINE s == FlushLog(r, log, bad)
           d == r.path
           batch == r.buffers[log]
           db == BatchWritten(r.card[d], batch)
<1>1. /\ Fits(r) /\ Fits(s) /\ Flushes(r, s, log)
  BY SoundShape, FlushLogTyped
<1>2. batch \in Seq(Sample) /\ r.buffers \in [Logs -> Seq(Sample)]
      /\ r.card \in [Dbs -> Database]
  BY <1>1, StateShape
<1>3. CASE s = r
  <2>1. Carries(r, s)
    BY <1>1, <1>3, StillCarries
  <2>2. ASSUME Filed(r), log \notin bad
        PROVE  s.buffers[log] = <<>>
    <3>1. CASE batch = <<>>
      BY <1>3, <3>1
    <3>2. CASE batch # <<>>
      <4>1. 1 \in DOMAIN batch
        BY <1>2, <3>2
      <4>2. r.mission # None
        BY <2>2, <4>1 DEF Filed
      <4>3. d # None /\ r.mission.id \in MissionsOf(r.card[d])
        BY <4>2, SoundShape
      <4>4. Accepts(r.card[d], batch)
        BY <2>2, <4>3 DEF Accepts, Filed
      <4>5. s = [r EXCEPT !.buffers[log] = <<>>, !.card[d] = db]
        BY <2>2, <4>3, <4>4 DEF FlushLog
      <4> HIDE DEF s, db
      <4> QED BY <1>1, <1>2, <4>5 DEF Fits, DhsState
    <3> QED BY <3>1, <3>2
  <2> QED BY <1>3, <2>1, <2>2
<1>4. CASE /\ d # None /\ Accepts(r.card[d], batch)
           /\ s.buffers = [r.buffers EXCEPT ![log] = <<>>]
           /\ s.card = [r.card EXCEPT ![d] = db]
  <2> HIDE DEF s
  <2>1. d \in Dbs /\ SoundDb(r.card[d])
    BY <1>1, <1>4, StateShape, SoundShape
  <2>2. /\ db \in Database /\ Unended(db) = Unended(r.card[d])
        /\ SoundDb(db) /\ Onward(r.card[d], db)
        /\ db.samples = r.card[d].samples \cup {batch[i] : i \in DOMAIN batch}
    BY <1>2, <1>4, <2>1, BatchSound DEF SoundDb
  <2> HIDE DEF db
  <2>3. /\ s.path = r.path /\ s.mission = r.mission /\ s.lapsed = r.lapsed
        /\ s.said = r.said
    BY <1>1 DEF Flushes, SameButCard
  <2>4. Carries(r, s)
    BY <1>1, <1>4, <2>1, <2>2, <2>3, SoundShape, EditCarries
  <2>5. /\ s.buffers[log] = <<>>
        /\ \A l \in Logs : s.buffers[l] \in {r.buffers[l], <<>>}
    BY <1>2, <1>4
  <2>6. ASSUME Filed(r)
        PROVE  Filed(s)
    <3>1. \A l \in Logs : \A i \in DOMAIN s.buffers[l] :
            i \in DOMAIN r.buffers[l] /\ s.buffers[l][i] = r.buffers[l][i]
      BY <2>5
    <3>2. \A i \in DOMAIN batch : batch[i].db = d
      BY <2>6, SoundShape DEF Filed
    <3>3. \A e \in Dbs : \A x \in s.card[e].samples : x.db = e
      <4>1. s.card[d] = db /\ \A e \in Dbs : e # d => s.card[e] = r.card[e]
        BY <1>2, <1>4, <2>1
      <4>2. \A x \in db.samples : x.db = d
        BY <2>1, <2>2, <2>6, <3>2 DEF Filed
      <4> QED BY <2>6, <4>1, <4>2 DEF Filed
    <3> QED BY <2>3, <2>6, <3>1, <3>3 DEF Filed
  <2> QED BY <2>4, <2>5, <2>6 DEF s
<1> QED BY <1>1, <1>3, <1>4 DEF Flushes

\* Both.
LEMMA FlushLogsCarries ==
  ASSUME NEW r, Sound(r), NEW bad
  PROVE  LET s == FlushLogs(r, bad)
         IN  /\ Carries(r, s)
             /\ Filed(r) /\ Written(bad) =>
                  Filed(s) /\ \A log \in Logs : s.buffers[log] = <<>>
<1> DEFINE m == FlushLog(r, "attitude", bad)
           s == FlushLog(m, "radio", bad)
<1>1. "attitude" \in Logs /\ "radio" \in Logs /\ \A l \in Logs : l \in {"attitude", "radio"}
  BY DEF Logs
<1>2. /\ Carries(r, m)
      /\ Filed(r) /\ "attitude" \notin bad => Filed(m) /\ m.buffers["attitude"] = <<>>
  BY <1>1, FlushLogCarries
<1> HIDE DEF m
<1>3. Sound(m)
  BY <1>2 DEF Carries
<1>4. /\ Carries(m, s)
      /\ Filed(m) /\ "radio" \notin bad =>
           /\ Filed(s) /\ s.buffers["radio"] = <<>>
           /\ \A l \in Logs : s.buffers[l] \in {m.buffers[l], <<>>}
  BY <1>1, <1>3, FlushLogCarries
<1> HIDE DEF s
<1>5. Carries(r, s)
  BY <1>2, <1>4, CarriesTrans
<1>6. ASSUME Filed(r), Written(bad)
      PROVE  Filed(s) /\ \A log \in Logs : s.buffers[log] = <<>>
  BY <1>1, <1>2, <1>4, <1>6 DEF Written
<1>7. FlushLogs(r, bad) = s
  BY DEF FlushLogs, s, m
<1> QED BY <1>5, <1>6, <1>7

\* An edit of a database that adds no samples leaves all of them filed.
LEMMA EditFiled ==
  ASSUME NEW r, Fits(r), Filed(r), NEW s, NEW d \in Dbs, NEW db,
         s.mission = r.mission, s.buffers = r.buffers,
         s.card = [r.card EXCEPT ![d] = db], db.samples \subseteq r.card[d].samples
  PROVE  Filed(s)
<1>1. s.card[d] = db /\ \A e \in Dbs : e # d => s.card[e] = r.card[e]
  BY StateShape
<1> QED BY <1>1 DEF Filed

\* A row of telemetry.
LEMMA RowTickCarries ==
  ASSUME NEW r, Sound(r), NEW bad
  PROVE  LET s == RowTick(r, bad)
         IN  Carries(r, s) /\ (Filed(r) => Filed(s))
<1> DEFINE s == RowTick(r, bad)
           d == r.path
           db == RowWritten(r.card[d], r.mission.id)
<1>1. Fits(r) /\ Fits(s)
  BY SoundShape, RowTickTyped
<1>2. CASE s = r
  BY <1>1, <1>2, StillCarries
<1>3. CASE r.mission # None /\ Edits(r, s, d, db)
  <2> HIDE DEF s
  <2>1. d \in Dbs /\ SoundDb(r.card[d]) /\ r.mission.id \in Unended(r.card[d])
    BY <1>3, SoundShape
  <2>2. /\ SoundDb(db) /\ Onward(r.card[d], db) /\ Unended(db) = Unended(r.card[d])
        /\ db.samples = r.card[d].samples
    BY <2>1, RowWrittenTyped DEF SoundDb
  <2> HIDE DEF db
  <2>3. /\ s.path = r.path /\ s.mission = r.mission /\ s.lapsed = r.lapsed
        /\ s.said = r.said /\ s.buffers = r.buffers
        /\ s.card = [r.card EXCEPT ![d] = db]
    BY <1>3 DEF Edits
  <2>4. Carries(r, s)
    BY <1>1, <2>1, <2>2, <2>3, EditCarries
  <2>5. Filed(r) => Filed(s)
    BY <1>1, <2>1, <2>2, <2>3, EditFiled
  <2> QED BY <2>4, <2>5 DEF s
<1> QED BY <1>1, <1>2, <1>3, RowTickTyped

\* A purge.
LEMMA PurgeCarries ==
  ASSUME NEW r, Sound(r), NEW bad
  PROVE  LET s == PurgeOpen(r, bad)
         IN  Carries(r, s) /\ (Filed(r) => Filed(s))
<1> DEFINE s == PurgeOpen(r, bad)
           d == r.path
           db == PurgedAs(r.card[d], bad)
<1>1. Fits(r) /\ Fits(s)
  BY SoundShape, PurgeOpenTyped
<1>2. CASE s = r
  BY <1>1, <1>2, StillCarries
<1>3. CASE d # None /\ Edits(r, s, d, db)
  <2> HIDE DEF s
  <2>1. d \in Dbs /\ SoundDb(r.card[d])
    BY <1>1, <1>3, SoundShape, StateShape
  <2>2. /\ SoundDb(db) /\ Onward(r.card[d], db) /\ Unended(db) = Unended(r.card[d])
        /\ db.samples \subseteq r.card[d].samples
    BY <2>1, PurgedSound DEF SoundDb
  <2> HIDE DEF db
  <2>3. /\ s.path = r.path /\ s.mission = r.mission /\ s.lapsed = r.lapsed
        /\ s.said = r.said /\ s.buffers = r.buffers
        /\ s.card = [r.card EXCEPT ![d] = db]
    BY <1>3 DEF Edits
  <2>4. Carries(r, s)
    BY <1>1, <2>1, <2>2, <2>3, SoundShape, EditCarries
  <2>5. Filed(r) => Filed(s)
    BY <1>1, <2>1, <2>2, <2>3, EditFiled
  <2> QED BY <2>4, <2>5 DEF s
<1> QED BY <1>1, <1>2, <1>3, PurgeOpenTyped

\* The end of a mission: it has its end on the card, or it has lapsed.
LEMMA CloseCarries ==
  ASSUME NEW r, Sound(r), NEW reason \in EndReason, NEW bad
  PROVE  LET s == CloseMission(r, reason, bad)
         IN  /\ Carries(r, s) /\ s.mission = None
             /\ Filed(r) /\ Written(bad) => Filed(s)
<1> DEFINE s == CloseMission(r, reason, bad)
           f == FlushLogs(r, bad)
           d == r.path
           db == Closed(f.card[d], r.mission.id, reason)
<1>0. Fits(r) /\ MissionClosed(r, s, f, reason)
  BY SoundShape, CloseMissionTyped
<1>1. Fits(r) /\ Fits(s) /\ s.mission = None /\ s.path = r.path
  BY <1>0 DEF MissionClosed
<1>2. CASE r.mission = None
  <2>1. s = r
    BY <1>0, <1>2 DEF MissionClosed
  <2> QED BY <1>1, <2>1, StillCarries
<1>3. CASE r.mission # None
  <2>1. /\ s.buffers = f.buffers
        /\ s.said.mission = None /\ s.said.database = r.path
        /\ \/ s.lapsed = TRUE /\ s.card = f.card
           \/ s.lapsed = r.lapsed /\ s.card = [f.card EXCEPT ![d] = db]
    BY <1>0, <1>3 DEF MissionClosed
  <2>2. /\ Carries(r, f) /\ f.mission = r.mission /\ f.path = d /\ f.lapsed = r.lapsed
        /\ Filed(r) /\ Written(bad) =>
             Filed(f) /\ \A log \in Logs : f.buffers[log] = <<>>
    BY <1>1, FlushLogsCarries, FlushLogsTyped DEF SameButCard
  <2> HIDE DEF f, s
  <2>3. Sound(f) /\ Fits(f) /\ f.card \in [Dbs -> Database]
    BY <2>2, SoundShape, StateShape DEF Carries
  <2>4. d \in Dbs /\ r.mission.id \in Unended(f.card[d]) /\ SoundDb(f.card[d])
    BY <1>3, <2>2, <2>3, SoundShape
  <2>5. /\ SoundDb(db) /\ Onward(f.card[d], db)
        /\ Unended(db) = Unended(f.card[d]) \ {r.mission.id}
        /\ db.samples = f.card[d].samples
    BY <2>4, ClosedSound
  <2> HIDE DEF db
  <2>6. \A e \in Dbs : Onward(f.card[e], f.card[e]) /\ SoundDb(f.card[e])
    BY <2>3, SoundShape, OnwardSame DEF SoundDb
  <2>7. \A e \in Dbs : /\ SoundDb(s.card[e]) /\ Onward(f.card[e], s.card[e])
                       /\ s.card[e].samples = f.card[e].samples
    BY <2>1, <2>3, <2>4, <2>5, <2>6
  <2>8. IsAlone(s)
    <3>1. CASE s.lapsed = TRUE
      BY <3>1 DEF IsAlone
    <3>2. CASE s.lapsed = r.lapsed /\ s.card = [f.card EXCEPT ![d] = db]
      <4>1. s.card[d] = db
        BY <2>3, <2>4, <3>2
      <4>2. ~f.lapsed => Unended(f.card[d]) \subseteq {r.mission.id}
        BY <2>2, <2>3, <2>4, StateShape DEF Sound, IsAlone
      <4> QED BY <1>1, <2>2, <2>5, <3>2, <4>1, <4>2 DEF IsAlone
    <3> QED BY <2>1, <3>1, <3>2
  <2>9. Sound(s) /\ Told(s)
    BY <1>1, <2>1, <2>7, <2>8
       DEF Sound, CardIsSound, IsOnCard, SaidIsIssued, Told, s
  <2>10. Carries(f, s)
    BY <1>1, <2>7, <2>9 DEF Carries, s
  <2>11. Carries(r, s)
    BY <2>2, <2>10, CarriesTrans
  <2>12. ASSUME Filed(r), Written(bad)
         PROVE  Filed(s)
    BY <2>1, <2>2, <2>7, <2>12 DEF Filed
  <2> QED BY <1>1, <2>11, <2>12 DEF s
<1> QED BY <1>2, <1>3

\* The start of one, in a database where none is open.
LEMMA OpenCarries ==
  ASSUME NEW r, Sound(r), r.path # None, r.profile # None, r.mission = None, NEW bad
  PROVE  LET s == OpenMission(r, bad)
         IN  Carries(r, s) /\ (Filed(r) => Filed(s))
<1> DEFINE s == OpenMission(r, bad)
           d == r.path
           id == r.card[d].next
           db == Opened(r.card[d], r.profile)
<1>1. Fits(r) /\ Fits(s) /\ Opens(r, s)
  BY SoundShape, OpenMissionTyped
<1>2. CASE s = r
  BY <1>1, <1>2, StillCarries
<1>3. CASE s # r
  <2>1. /\ id <= MaxMissions
        /\ s.path = d /\ s.lapsed = r.lapsed /\ s.buffers = r.buffers
        /\ s.mission = [id |-> id, profile |-> r.profile, db |-> d]
        /\ s.card = [r.card EXCEPT ![d] = db]
        /\ s.said.mission = id /\ s.said.database = d
    BY <1>1, <1>3 DEF Opens
  <2> HIDE DEF s
  <2>2. d \in Dbs /\ r.profile \in Profiles /\ r.card \in [Dbs -> Database]
    BY <1>1, StateShape
  <2>3. SoundDb(r.card[d]) /\ id \in Nat
    BY <2>2, SoundShape
  <2>4. /\ SoundDb(db) /\ Onward(r.card[d], db)
        /\ Unended(db) = Unended(r.card[d]) \cup {id} /\ id \in Ids
        /\ id < db.next /\ db.samples = r.card[d].samples
    BY <2>1, <2>2, <2>3, OpenedSound, OpenedTyped DEF SoundDb
  <2> HIDE DEF db, id
  <2>5. s.mission # None /\ s.mission.id = id /\ s.mission.db = d /\ id # None
    BY <2>1, <2>2, <2>4, DhsAssumption, StateShape, <1>1
  <2>6. \A e \in Dbs : Onward(r.card[e], r.card[e]) /\ SoundDb(r.card[e])
    BY SoundShape, OnwardSame DEF SoundDb
  <2>7. /\ s.card[d] = db
        /\ \A e \in Dbs : /\ SoundDb(s.card[e]) /\ Onward(r.card[e], s.card[e])
                          /\ s.card[e].samples = r.card[e].samples
    BY <2>1, <2>2, <2>4, <2>6
  <2>8. IsAlone(s)
    BY <2>1, <2>4, <2>5, <2>7 DEF Sound, IsAlone
  <2>9. CardIsSound(s) /\ IsOnCard(s) /\ SaidIsIssued(s) /\ Told(s)
    BY <2>1, <2>4, <2>5, <2>7 DEF CardIsSound, IsOnCard, SaidIsIssued, Told
  <2>10. r.card[s.mission.db].next <= s.mission.id
    BY <2>3, <2>5 DEF id
  <2>11. Carries(r, s)
    BY <1>1, <2>2, <2>5, <2>7, <2>8, <2>9, <2>10 DEF Carries, Sound, s
  <2>12. Filed(r) => Filed(s)
    BY <2>1, <2>7 DEF Filed
  <2> QED BY <2>11, <2>12 DEF s
<1> QED BY <1>2, <1>3

\* The database the profile asks for, where it is not that of an open mission
\* that is left.
LEMMA EnsureCarries ==
  ASSUME NEW r, Sound(r), r.mission # None => r.persistence = r.path, NEW bad
  PROVE  LET s == EnsureDatabase(r, bad)
         IN  /\ Carries(r, s) /\ s.mission = r.mission
             /\ r.mission # None => s = r
             /\ Filed(r) => Filed(s)
<1> DEFINE s == EnsureDatabase(r, bad)
           q == Arrived(r)
           t == RecoverOpen(q, bad)
           u == PurgeOpen(t, bad)
           d == r.persistence
<1>1. Fits(r) /\ Fits(s)
  BY SoundShape, EnsureTyped
<1>2. CASE s = r
  BY <1>1, <1>2, StillCarries
<1>3. CASE s = Refuse(r) /\ d \notin {None, r.path}
  <2>1. r.mission = None
    BY <1>3
  <2>2. /\ s.path = None /\ s.mission = None /\ s.lapsed = r.lapsed
        /\ s.buffers = r.buffers /\ s.card = r.card
        /\ s.said.mission = None /\ s.said.database = None
    BY <1>1, <1>3, <2>1, RefuseTyped
  <2> HIDE DEF s
  <2>3. \A e \in Dbs : Onward(r.card[e], r.card[e]) /\ SoundDb(r.card[e])
    BY SoundShape, OnwardSame DEF SoundDb
  <2>4. Sound(s) /\ Told(s)
    BY <1>1, <2>2, <2>3
       DEF Sound, CardIsSound, IsOnCard, IsAlone, SaidIsIssued, Told, s
  <2> QED BY <2>1, <2>2, <2>3, <2>4 DEF Carries, Filed, s
<1>4. CASE s = u /\ d \notin {None, r.path}
  <2> HIDE DEF s
  <2>1. r.mission = None /\ d \in Dbs /\ r.card \in [Dbs -> Database]
    BY <1>1, <1>4, StateShape
  <2>2. Fits(q) /\ Arrives(r, q)
    BY <1>1, <1>4, ArrivedTyped
  <2> HIDE DEF q
  <2>3. /\ q.path = d /\ q.mission = None /\ q.lapsed = r.lapsed /\ q.said = r.said
        /\ q.buffers = r.buffers /\ q.card = [r.card EXCEPT ![d] = Present(r.card[d])]
    BY <2>1, <2>2 DEF Arrives
  <2>4. \A e \in Dbs : Onward(r.card[e], r.card[e]) /\ SoundDb(r.card[e])
    BY SoundShape, OnwardSame DEF SoundDb
  <2>5. /\ SoundDb(q.card[d]) /\ Onward(r.card[d], q.card[d])
        /\ q.card[d].samples = r.card[d].samples
        /\ \A e \in Dbs : e # d => q.card[e] = r.card[e]
    BY <2>1, <2>3, <2>4, PresentSound DEF SoundDb
  <2>6. /\ Fits(t) /\ t.path = d /\ t.mission = None /\ t.said = r.said
        /\ t.buffers = r.buffers
        /\ \/ /\ t.card = q.card
              /\ t.lapsed = (q.lapsed \/ Unended(q.card[d]) # {})
           \/ t.lapsed = q.lapsed /\ t.card = [q.card EXCEPT ![d] = Recovered(q.card[d])]
    <3>1. Fits(t) /\ RecoveredAs(q, t)
      BY <1>4, <2>2, <2>3, RecoverOpenTyped
    <3> HIDE DEF t
    <3> QED BY <1>4, <2>2, <2>3, <3>1 DEF Edits, RecoveredAs
  <2> HIDE DEF t
  <2>7. /\ SoundDb(Recovered(q.card[d])) /\ Onward(q.card[d], Recovered(q.card[d]))
        /\ Unended(Recovered(q.card[d])) = {}
        /\ Recovered(q.card[d]).samples = q.card[d].samples
        /\ Onward(q.card[d], q.card[d])
    BY <2>5, RecoveredSound, OnwardSame DEF SoundDb
  <2>8. /\ SoundDb(t.card[d]) /\ Onward(q.card[d], t.card[d])
        /\ t.card[d].samples = r.card[d].samples
        /\ ~t.lapsed => Unended(t.card[d]) = {}
        /\ \A e \in Dbs : e # d => t.card[e] = r.card[e]
    <3>1. q.card \in [Dbs -> Database]
      BY <2>2, StateShape
    <3> QED BY <2>1, <2>5, <2>6, <2>7, <3>1
  <2>9. Onward(r.card[d], t.card[d])
    BY <2>1, <2>4, <2>5, <2>8, OnwardTrans DEF SoundDb
  <2>10. \A e \in Dbs : /\ SoundDb(t.card[e]) /\ Onward(r.card[e], t.card[e])
                        /\ t.card[e].samples = r.card[e].samples
    BY <2>4, <2>8, <2>9
  <2>11. SaidIsIssued(t)
    <3> SUFFICES ASSUME t.said.mission # None, t.said.database # None
                 PROVE  t.said.mission < t.card[t.said.database].next
      BY DEF SaidIsIssued
    <3> DEFINE e == r.said.database
    <3>1. e \in Dbs /\ r.said.mission \in Nat
      BY <1>1, <2>6, StateShape DEF Ids
    <3>2. r.card[e].next \in Nat /\ t.card[e].next \in Nat
          /\ r.card[e].next <= t.card[e].next
      BY <2>4, <2>10, <3>1, DatabaseShape DEF SoundDb, Onward
    <3>3. r.said.mission < r.card[e].next
      BY <2>6 DEF Sound, SaidIsIssued
    <3> QED BY <2>6, <3>1, <3>2, <3>3
  <2>12. Sound(t)
    BY <2>6, <2>8, <2>10, <2>11 DEF Sound, CardIsSound, IsOnCard, IsAlone
  <2>13. Carries(r, t)
    BY <2>6, <2>10, <2>12, <2>1 DEF Carries, Told
  <2>14. Filed(r) => Filed(t)
    BY <2>1, <2>6, <2>10 DEF Filed
  <2>15. Carries(t, u) /\ (Filed(t) => Filed(u)) /\ u.mission = t.mission
    BY <2>6, <2>12, PurgeCarries, PurgeOpenTyped DEF Edits
  <2> HIDE DEF u
  <2>16. Carries(r, u)
    BY <2>13, <2>15, CarriesTrans
  <2> QED BY <1>4, <2>1, <2>6, <2>14, <2>15, <2>16 DEF s
<1>5. r.mission # None => s = r
  <2>1. r.mission # None => r.persistence \in {None, r.refused, r.path}
    OBVIOUS
  <2> QED BY <2>1, Zenon DEF EnsureDatabase
<1> QED BY <1>1, <1>2, <1>3, <1>4, <1>5, EnsureIs

\* The mission in line with the profile and the state: it goes on in the
\* database the profile asks for, or there is none.
LEMMA ReconcileCarries ==
  ASSUME NEW r, Sound(r), NEW bad,
         r.mission # None /\ MayRecord(r) => r.persistence = r.path
  PROVE  LET s == ReconcileDhs(r, bad)
         IN  /\ Carries(r, s) /\ (s.mission # None => s.persistence = s.path)
             /\ Filed(r) /\ Written(bad) => Filed(s)
<1> DEFINE s == ReconcileDhs(r, bad)
           c == CloseMission(r, EndReasonNow(r), bad)
           e == EnsureDatabase(r, bad)
           o == OpenMission(e, bad)
<1>1. \/ ~MayRecord(r) /\ s = c
      \/ MayRecord(r) /\ s = e
      \/ MayRecord(r) /\ e.path = r.persistence /\ e.mission = None /\ s = o
  BY ReconcileIs
<1>2. Fits(r)
  BY SoundShape
<1>3. /\ Carries(r, c) /\ c.mission = None
      /\ Filed(r) /\ Written(bad) => Filed(c)
  <2>1. EndReasonNow(r) \in EndReason
    BY DEF EndReasonNow, EndReason
  <2> QED BY <2>1, CloseCarries
<1>4. ASSUME MayRecord(r)
      PROVE  /\ Carries(r, e) /\ e.mission = r.mission
             /\ r.mission # None => e = r
             /\ Filed(r) => Filed(e)
             /\ Fits(e) /\ Same(r, e)
  BY <1>2, <1>4, EnsureCarries, EnsureTyped
<1> HIDE DEF s, c, e
<1>5. CASE s = e /\ MayRecord(r)
  <2>1. s.mission # None => s.persistence = s.path
    BY <1>4, <1>5
  <2> QED BY <1>4, <1>5, <2>1 DEF s
<1>6. CASE s = o /\ MayRecord(r) /\ e.path = r.persistence /\ e.mission = None
  <2>1. Sound(e) /\ Fits(e) /\ e.path # None /\ e.profile # None /\ Same(r, e)
    BY <1>4, <1>6 DEF Carries, MayRecord, Same
  <2>2. /\ Carries(e, o) /\ (Filed(e) => Filed(o)) /\ Opens(e, o)
    BY <1>6, <2>1, OpenCarries, OpenMissionTyped
  <2> HIDE DEF o
  <2>3. Carries(r, o)
    BY <1>4, <1>6, <2>2, CarriesTrans
  <2>4. o.mission # None => o.persistence = o.path
    BY <1>6, <2>1, <2>2 DEF Opens, Same
  <2> QED BY <1>4, <1>6, <2>2, <2>3, <2>4 DEF s
<1> QED BY <1>1, <1>3, <1>5, <1>6 DEF s

\* An open mission is in the database that is asked for.
InPlace(r) == r.mission # None => r.persistence = r.path

\* A tick.
LEMMA TickedCarries ==
  ASSUME NEW r, Sound(r), NEW due, NEW bad, InPlace(r)
  PROVE  LET s == Ticked(r, due, bad)
         IN  /\ Carries(r, s) /\ Told(s) /\ InPlace(s)
             /\ Filed(r) /\ Written(bad) => Filed(s)
<1> DEFINE m == ReconcileDhs(r, bad)
           f == FlushLogs(m, bad)
           w == RowTick(f, bad)
           p == PurgeOpen(w, bad)
           q == PublishDhs(w)
           t == PublishDhs(p)
<1>1. Ticked(r, due, bad) \in {q, t}
  BY DEF Ticked
<1>2. /\ Carries(r, m) /\ InPlace(m) /\ Fits(m) /\ Sound(m)
      /\ Filed(r) /\ Written(bad) => Filed(m)
  BY SoundShape, ReconcileCarries, ReconcileTyped DEF InPlace, Carries
<1> HIDE DEF m
<1>3. /\ Carries(m, f) /\ InPlace(f) /\ Fits(f) /\ Sound(f)
      /\ Filed(m) /\ Written(bad) => Filed(f)
  BY <1>2, FlushLogsCarries, FlushLogsTyped DEF InPlace, SameButCard, Same, Carries
<1> HIDE DEF f
<1>4. /\ Carries(f, w) /\ Fits(w) /\ Sound(w) /\ (Filed(f) => Filed(w))
  BY <1>3, RowTickCarries, RowTickTyped DEF Carries
<1>5. InPlace(w)
  <2>1. w = f \/ \E d, db : Edits(f, w, d, db)
    BY <1>3, RowTickTyped
  <2> HIDE DEF w
  <2> QED BY <1>3, <2>1 DEF InPlace, Edits, Same
<1> HIDE DEF w
<1>6. /\ Carries(w, p) /\ Fits(p) /\ Sound(p) /\ (Filed(w) => Filed(p))
  BY <1>4, PurgeCarries, PurgeOpenTyped DEF Carries
<1>7. InPlace(p)
  <2>1. p = w \/ \E d, db : Edits(w, p, d, db)
    BY <1>4, PurgeOpenTyped
  <2> HIDE DEF p
  <2> QED BY <1>5, <2>1 DEF InPlace, Edits, Same
<1> HIDE DEF p
<1>8. /\ Carries(w, q) /\ Told(q) /\ q.mission = w.mission /\ q.buffers = w.buffers
      /\ q.card = w.card /\ q.path = w.path /\ Same(w, q)
  BY <1>4, PublishCarries, PublishTyped
<1>9. /\ Carries(p, t) /\ Told(t) /\ t.mission = p.mission /\ t.buffers = p.buffers
      /\ t.card = p.card /\ t.path = p.path /\ Same(p, t)
  BY <1>6, PublishCarries, PublishTyped
<1> HIDE DEF q, t
<1>10. Carries(r, f)
  BY <1>2, <1>3, CarriesTrans
<1>11. Carries(r, w)
  BY <1>4, <1>10, CarriesTrans
<1>12. Carries(r, p)
  BY <1>6, <1>11, CarriesTrans
<1>13. Carries(r, q) /\ Carries(r, t)
  BY <1>8, <1>9, <1>11, <1>12, CarriesTrans
<1>14. InPlace(q) /\ InPlace(t)
  BY <1>5, <1>7, <1>8, <1>9 DEF InPlace, Same
<1>15. (Filed(w) => Filed(q)) /\ (Filed(p) => Filed(t))
  BY <1>8, <1>9 DEF Filed
<1> QED BY <1>1, <1>2, <1>3, <1>4, <1>6, <1>8, <1>9, <1>13, <1>14, <1>15

\* A deletion, which the open mission is safe from.
LEMMA DeleteCarries ==
  ASSUME NEW r, Sound(r), NEW id, NEW bad, InPlace(r)
  PROVE  LET s == DeleteMission(r, id, bad)
         IN  /\ Carries(r, s) /\ Told(s) /\ InPlace(s) /\ (Filed(r) => Filed(s))
             /\ s.mission = r.mission /\ Same(r, s)
<1> DEFINE e == Erased(r, id, bad)
           d == Target(r)
           db == DeletedAs(r.card[d], id, bad)
           p == PublishDhs(r)
           q == PublishDhs(e)
           s == DeleteMission(r, id, bad)
<1>1. /\ \/ s = p
         \/ ~Refuses(r, id, bad) /\ s = q
      /\ d \in Dbs /\ Fits(r) /\ Fits(e) /\ Edits(r, e, d, db)
  BY SoundShape, DeleteIs
<1> HIDE DEF s
<1>2. /\ Carries(r, p) /\ Told(p) /\ p.mission = r.mission /\ p.buffers = r.buffers
      /\ p.card = r.card /\ p.path = r.path /\ Same(r, p)
  BY <1>1, PublishCarries, PublishTyped
<1> HIDE DEF p
<1>3. CASE s = p
  BY <1>2, <1>3 DEF InPlace, Filed, Same, s
<1>4. CASE ~Refuses(r, id, bad) /\ s = q
  <2>1. ~(r.mission # None /\ r.mission.id = id)
    BY <1>4 DEF Refuses
  <2>2. SoundDb(r.card[d])
    BY <1>1, SoundShape
  <2>3. /\ SoundDb(db) /\ Onward(r.card[d], db)
        /\ Unended(db) = Unended(r.card[d]) \ {id}
        /\ db.samples \subseteq r.card[d].samples
    BY <2>2, DeletedSound DEF SoundDb
  <2> HIDE DEF db, e, d
  <2>4. /\ e.path = r.path /\ e.mission = r.mission /\ e.lapsed = r.lapsed
        /\ e.said = r.said /\ e.buffers = r.buffers /\ Same(r, e)
        /\ e.card = [r.card EXCEPT ![d] = db]
    BY <1>1 DEF Edits
  <2>5. r.mission # None /\ d = r.path => r.mission.id \in Unended(db)
    BY <2>1, <2>3, SoundShape
  <2>6. Carries(r, e) /\ (Filed(r) => Filed(e))
    BY <1>1, <2>3, <2>4, <2>5, EditCarries, EditFiled
  <2>7. Sound(e)
    BY <2>6 DEF Carries
  <2>8. /\ Carries(e, q) /\ Told(q) /\ q.mission = e.mission /\ q.buffers = e.buffers
        /\ q.card = e.card /\ q.path = e.path /\ Same(e, q)
    BY <1>1, <2>7, PublishCarries, PublishTyped
  <2> HIDE DEF q
  <2>9. Carries(r, q)
    BY <2>6, <2>8, CarriesTrans
  <2>10. InPlace(q) /\ (Filed(e) => Filed(q)) /\ q.mission = r.mission /\ Same(r, q)
    BY <2>4, <2>8 DEF InPlace, Filed, Same
  <2> QED BY <1>4, <2>6, <2>8, <2>9, <2>10 DEF s
<1> QED BY <1>1, <1>3, <1>4

\* A sample is filed under the open mission.
LEMMA OfferCarries ==
  ASSUME NEW r, Sound(r), NEW log \in Logs
  PROVE  LET s == Offer(r, log)
         IN  /\ Carries(r, s) /\ s.mission = r.mission /\ s.path = r.path
             /\ s.said = r.said /\ Same(r, s) /\ (Filed(r) => Filed(s))
<1> DEFINE s == Offer(r, log)
<1>1. /\ Fits(s) /\ Same(r, s) /\ s.path = r.path
      /\ s.mission = r.mission /\ s.lapsed = r.lapsed /\ s.said = r.said
      /\ s.card = r.card
      /\ r.mission = None => s.buffers = r.buffers
      /\ \A l \in Logs : \A i \in DOMAIN s.buffers[l] :
           \/ \E j \in DOMAIN r.buffers[l] : s.buffers[l][i] = r.buffers[l][j]
           \/ /\ r.mission # None /\ s.buffers[l][i].db = r.mission.db
              /\ s.buffers[l][i].id = r.mission.id
  BY SoundShape, OfferTyped
<1> HIDE DEF s
<1>2. Carries(r, s)
  BY <1>1, StillCarries
<1>3. Filed(r) => Filed(s)
  BY <1>1 DEF Filed
<1> QED BY <1>1, <1>2, <1>3 DEF s

\* Photographs of the mission DHS last spoke of; and the days that pass.
LEMMA FilingCarries ==
  ASSUME NEW r, Sound(r), NEW s, Filing(r, s)
  PROVE  /\ Carries(r, s) /\ s.mission = r.mission /\ s.path = r.path
         /\ s.said = r.said /\ Same(r, s) /\ (Filed(r) => Filed(s))
<1> DEFINE d == r.said.database
           id == r.said.mission
           db == Photographed(r.card[d], id)
<1>1. d \in Dbs /\ id \in Ids /\ SoundDb(r.card[d]) /\ Fits(r)
  BY SoundShape, StateShape DEF Filing
<1>2. id < r.card[d].next
  BY DEF Sound, SaidIsIssued, Filing
<1>3. /\ SoundDb(db) /\ Onward(r.card[d], db) /\ Unended(db) = Unended(r.card[d])
      /\ db.samples = r.card[d].samples
  BY <1>1, <1>2, PhotographedSound DEF SoundDb
<1>4. s = [r EXCEPT !.card[d] = db]
  BY DEF Filing
<1> HIDE DEF d, id, db
<1>5. Fits(s) /\ Edits(r, s, d, db)
  BY <1>1, <1>3, <1>4, EditTyped DEF SoundDb
<1> QED BY <1>1, <1>3, <1>5, SoundShape, EditCarries, EditFiled DEF Edits

LEMMA AgeingCarries ==
  ASSUME NEW r, Sound(r), NEW s, Ageing(r, s)
  PROVE  /\ Carries(r, s) /\ s.mission = r.mission /\ s.path = r.path
         /\ s.said = r.said /\ Same(r, s) /\ (Filed(r) => Filed(s))
<1>1. PICK d \in Dbs : \E id \in MissionsOf(r.card[d]) :
        s = [r EXCEPT !.card[d] = Older(r.card[d], id)]
  BY DEF Ageing
<1>2. PICK id \in MissionsOf(r.card[d]) :
        s = [r EXCEPT !.card[d] = Older(r.card[d], id)]
  BY <1>1
<1> DEFINE db == Older(r.card[d], id)
<1>3. Fits(r) /\ SoundDb(r.card[d])
  BY SoundShape
<1>4. /\ SoundDb(db) /\ Onward(r.card[d], db) /\ Unended(db) = Unended(r.card[d])
      /\ db.samples = r.card[d].samples
  BY <1>3, OlderSound DEF SoundDb
<1>5. s = [r EXCEPT !.card[d] = db]
  BY <1>2
<1> HIDE DEF db
<1>6. Fits(s) /\ Edits(r, s, d, db)
  BY <1>3, <1>4, <1>5, EditTyped DEF SoundDb
<1> QED BY <1>3, <1>4, <1>6, SoundShape, EditCarries, EditFiled DEF Edits

\* A death takes the mission, and leaves the card as it is.
LEMMA DeathCarries ==
  ASSUME NEW r, Sound(r), NEW s, Death(r, s)
  PROVE  /\ Sound(s) /\ s.mission = None /\ (Filed(r) => Filed(s))
         /\ \A d \in Dbs : Onward(r.card[d], s.card[d])
<1>1. \A d \in Dbs : SoundDb(r.card[d]) /\ Onward(r.card[d], r.card[d])
  BY SoundShape, OnwardSame DEF SoundDb
<1>2. Sound(s)
  BY <1>1 DEF Sound, CardIsSound, IsOnCard, IsAlone, SaidIsIssued, Death
<1>3. ASSUME Filed(r)
      PROVE  Filed(s)
  BY <1>3 DEF Death, Filed
<1> QED BY <1>1, <1>2, <1>3 DEF Death

(***************************************************************************)
(* The steps.  A death forgets the mission; every other step of the        *)
(* process is a way on.                                                    *)
(***************************************************************************)
Goes(r, s) ==
  /\ Sound(s)
  /\ \A d \in Dbs : Onward(r.card[d], s.card[d])
  /\ \/ s.mission \in {r.mission, None}
     \/ s.mission.db \in Dbs /\ r.card[s.mission.db].next <= s.mission.id

LEMMA WiredSame ==
  ASSUME NEW r, NEW s, NEW told, Wired(r, told), Same(r, s), InPlace(s),
         Told(r) => Told(s), r.phase = "down" => s.mission = None
  PROVE  Wired(s, told)
BY DEF Wired, Same, InPlace

LEMMA MovesCarry ==
  ASSUME NEW r, Sound(r), NEW s, NEW bad, Moves(r, s, bad),
         bus.told \in Status, Wired(r, bus.told)
  PROVE  /\ Goes(r, s) /\ Wired(s, bus.told)
         /\ Filed(r) /\ Written(bad) => Filed(s)
<1> DEFINE Done == /\ Goes(r, s) /\ Wired(s, bus.told)
                   /\ Filed(r) /\ Written(bad) => Filed(s)
<1>0. Fits(r) /\ InPlace(r)
  BY SoundShape DEF Wired, InPlace
<1>1. CASE r.phase = "down" /\ s = Absorb(Phased(r, "connected"), bus.told)
  <2> DEFINE q == Phased(r, "connected")
  <2>1. /\ Fits(q) /\ q.phase = "connected" /\ q.persistence = r.persistence
        /\ q.path = r.path /\ q.mission = r.mission /\ q.lapsed = r.lapsed
        /\ q.said = r.said /\ q.buffers = r.buffers /\ q.card = r.card
    BY <1>0, PhasedTyped
  <2> HIDE DEF q
  <2>2. /\ Fits(s) /\ s.phase = "connected" /\ s.persistence = r.persistence
        /\ s.path = r.path /\ s.mission = r.mission /\ s.lapsed = r.lapsed
        /\ s.said = r.said /\ s.buffers = r.buffers /\ s.card = r.card
        /\ s.absorbing # None /\ s.absorbing.status = bus.told
        /\ s.absorbing.stage = "state"
    BY <1>1, <2>1, AbsorbTyped DEF q
  <2>3. Goes(r, s)
    BY <2>2, StillCarries DEF Carries, Goes
  <2>4. Wired(s, bus.told)
    BY <1>1, <2>2 DEF Wired
  <2> QED BY <2>2, <2>3, <2>4 DEF Filed
<1>2. CASE /\ r.phase = "connected"
           /\ s = PublishDhs(ReconcileDhs(Phased(r, "serving"), bad))
  <2> DEFINE q == Phased(r, "serving")
             m == ReconcileDhs(q, bad)
  <2>1. /\ Fits(q) /\ q.phase = "serving" /\ q.profile = r.profile
        /\ q.state = r.state /\ q.absorbing = r.absorbing
        /\ q.persistence = r.persistence /\ q.path = r.path
        /\ q.mission = r.mission /\ q.lapsed = r.lapsed
        /\ q.said = r.said /\ q.buffers = r.buffers /\ q.card = r.card
    BY <1>0, PhasedTyped
  <2> HIDE DEF q
  <2>2. Carries(r, q) /\ InPlace(q) /\ Sound(q) /\ (Filed(r) => Filed(q))
    BY <1>0, <2>1, StillCarries DEF InPlace, Filed, Carries
  <2>3. /\ Carries(q, m) /\ InPlace(m) /\ Fits(m) /\ Same(q, m) /\ Sound(m)
        /\ Filed(q) /\ Written(bad) => Filed(m)
    BY <2>1, <2>2, ReconcileCarries, ReconcileTyped DEF InPlace, Carries
  <2> HIDE DEF m
  <2>4. /\ Carries(m, s) /\ Told(s) /\ s.mission = m.mission /\ s.buffers = m.buffers
        /\ s.card = m.card /\ s.path = m.path /\ Same(m, s)
    BY <1>2, <2>3, PublishCarries, PublishTyped DEF m, q
  <2>5. Carries(r, m)
    BY <2>2, <2>3, CarriesTrans
  <2>6. Carries(r, s)
    BY <2>4, <2>5, CarriesTrans
  <2>7. Wired(s, bus.told)
    BY <1>2, <2>1, <2>3, <2>4 DEF Wired, Same, InPlace
  <2>8. Filed(m) => Filed(s)
    BY <2>4 DEF Filed
  <2> QED BY <2>2, <2>3, <2>6, <2>7, <2>8 DEF Carries, Goes
<1>3. CASE r.phase = "serving" /\ \E due \in BOOLEAN : s = Ticked(r, due, bad)
  <2>1. PICK due \in BOOLEAN : s = Ticked(r, due, bad)
    BY <1>3
  <2>2. /\ Carries(r, s) /\ Told(s) /\ InPlace(s) /\ Same(r, s)
        /\ Filed(r) /\ Written(bad) => Filed(s)
    BY <1>0, <2>1, TickedCarries, TickedTyped
  <2>3. Wired(s, bus.told)
    BY <1>3, <2>2, WiredSame
  <2> QED BY <2>2, <2>3 DEF Carries, Goes
<1>4. CASE r.phase = "serving" /\ s = Halted(CloseMission(r, "SHUTDOWN", bad))
  <2> DEFINE c == CloseMission(r, "SHUTDOWN", bad)
  <2>1. /\ Carries(r, c) /\ c.mission = None /\ Fits(c) /\ Same(r, c)
        /\ Filed(r) /\ Written(bad) => Filed(c)
    <3>1. "SHUTDOWN" \in EndReason
      BY DEF EndReason
    <3>2. MissionClosed(r, c, FlushLogs(r, bad), "SHUTDOWN")
      BY <1>0, <3>1, SoundShape, CloseMissionTyped
    <3>3. /\ Carries(r, c) /\ c.mission = None
          /\ Filed(r) /\ Written(bad) => Filed(c)
      BY <1>0, <3>1, CloseCarries
    <3> QED BY <3>2, <3>3 DEF MissionClosed
  <2> HIDE DEF c
  <2>2. /\ Fits(s) /\ s.phase = "stopping" /\ s.path = None
        /\ s.absorbing = c.absorbing /\ s.persistence = c.persistence
        /\ s.profile = c.profile /\ s.state = c.state
        /\ s.mission = c.mission /\ s.lapsed = c.lapsed
        /\ s.said = c.said /\ s.buffers = c.buffers /\ s.card = c.card
    BY <1>4, <2>1, HaltedTyped DEF c
  <2>3. Goes(r, s)
    BY <2>1, <2>2
       DEF Goes, Carries, Sound, CardIsSound, IsOnCard, IsAlone, SaidIsIssued
  <2>4. Told(s)
    BY <1>4, <2>1, <2>2 DEF Carries, Wired, Told
  <2>5. Wired(s, bus.told)
    BY <1>4, <2>1, <2>2, <2>4 DEF Wired, Same
  <2>6. Filed(c) => Filed(s)
    BY <2>2 DEF Filed
  <2> QED BY <2>1, <2>3, <2>5, <2>6
<1>5. CASE Death(r, s)
  <2>1. Goes(r, s) /\ (Filed(r) => Filed(s))
    BY <1>5, DeathCarries DEF Goes
  <2>2. Wired(s, bus.told)
    BY <1>5 DEF Wired, Death
  <2> QED BY <2>1, <2>2
<1>6. CASE r.absorbing # None /\ r.absorbing.stage = "state" /\ s = Turned(r)
  <2>1. /\ Fits(s) /\ s.phase = r.phase /\ s.path = r.path /\ s.mission = r.mission
        /\ s.persistence = r.persistence /\ s.lapsed = r.lapsed
        /\ s.said = r.said /\ s.buffers = r.buffers /\ s.card = r.card
        /\ s.absorbing # None /\ s.absorbing.status = r.absorbing.status
        /\ s.absorbing.stage = "handle"
        /\ s.state = r.absorbing.status.state
    BY <1>0, <1>6, TurnedTyped
  <2>2. Goes(r, s)
    BY <2>1, StillCarries DEF Carries, Goes
  <2>3. Wired(s, bus.told)
    BY <1>6, <2>1 DEF Wired, Told
  <2> QED BY <2>1, <2>2, <2>3 DEF Filed
<1>7. CASE /\ r.absorbing # None /\ r.absorbing.stage = "handle"
           /\ s = ReconcileDhs(Heard(r), bad)
  <2> DEFINE h == Heard(r)
  <2>1. /\ Fits(h) /\ h.phase = r.phase /\ h.path = r.path /\ h.mission = r.mission
        /\ h.state = r.state /\ h.lapsed = r.lapsed
        /\ h.said = r.said /\ h.buffers = r.buffers /\ h.card = r.card
        /\ h.absorbing = None /\ h.persistence = Recorded(bus.told.profile)
    BY <1>0, <1>7, HeardTyped DEF Wired
  <2> HIDE DEF h
  <2>2. Carries(r, h) /\ Sound(h) /\ (Filed(r) => Filed(h))
    BY <1>0, <2>1, StillCarries DEF Filed, Carries
  <2>3. r.phase # "down" /\ r.state = bus.told.state
    BY <1>7 DEF Wired
  <2>4. ASSUME h.mission # None, MayRecord(h)
        PROVE  h.persistence = h.path
    <3>1. r.persistence = r.path /\ r.path # None
      BY <2>1, <2>4, SoundShape DEF Wired
    <3>2. bus.told.state \in RecordingStates
      BY <2>1, <2>3, <2>4 DEF MayRecord
    <3> QED BY <1>7, <2>1, <3>1, <3>2 DEF Wired
  <2>5. /\ Carries(h, s) /\ InPlace(s) /\ Same(h, s)
        /\ Filed(h) /\ Written(bad) => Filed(s)
    BY <1>7, <2>1, <2>2, <2>4, ReconcileCarries, ReconcileTyped DEF InPlace, h
  <2>6. Carries(r, s)
    BY <2>2, <2>5, CarriesTrans
  <2>7. Wired(s, bus.told)
    BY <2>1, <2>3, <2>5, <2>6 DEF Wired, Same, InPlace, Carries
  <2> QED BY <2>2, <2>5, <2>6, <2>7 DEF Carries, Goes
<1>8. ASSUME Carries(r, s), s.mission = r.mission, s.path = r.path, Same(r, s),
             Filed(r) => Filed(s)
      PROVE  Done
  <2>1. InPlace(s)
    BY <1>0, <1>8 DEF InPlace, Same
  <2>2. Wired(s, bus.told)
    BY <1>8, <2>1, WiredSame DEF Wired, Carries
  <2> QED BY <1>8, <2>2 DEF Carries, Goes
<1>9. CASE \E log \in Logs : s = Offer(r, log)
  BY <1>8, <1>9, OfferCarries
<1>10. CASE \E id \in Ids : s = DeleteMission(r, id, bad)
  <2>1. PICK id \in Ids : s = DeleteMission(r, id, bad)
    BY <1>10
  <2>2. /\ Carries(r, s) /\ Told(s) /\ InPlace(s) /\ (Filed(r) => Filed(s))
        /\ s.mission = r.mission /\ Same(r, s)
    BY <1>0, <2>1, DeleteCarries
  <2>3. Wired(s, bus.told)
    BY <2>2, WiredSame DEF Wired
  <2> QED BY <2>2, <2>3 DEF Carries, Goes
<1>11. CASE Filing(r, s)
  BY <1>8, <1>11, FilingCarries
<1>12. CASE Ageing(r, s)
  BY <1>8, <1>12, AgeingCarries
<1> QED BY <1>1, <1>2, <1>3, <1>4, <1>5, <1>6, <1>7, <1>9, <1>10, <1>11, <1>12
        DEF Moves

\* What OBC and HOSTD say.  Without a lost connection OBC asks for another
\* database only in a state that is not recorded.
LEMMA SpeaksCarry ==
  ASSUME NEW r, Sound(r), NEW s, NEW bad, Speaks(r, s, bad), "link" \notin Mishaps,
         r = dhs, bus \in [told: Status, host: Profiles], Wired(r, bus.told)
  PROVE  /\ Goes(r, s) /\ Wired(s, bus'.told)
         /\ Filed(r) /\ Written(bad) => Filed(s)
<1> DEFINE Done == /\ Goes(r, s) /\ Wired(s, bus'.told)
                   /\ Filed(r) /\ Written(bad) => Filed(s)
<1>0. Fits(r) /\ Goes(r, r)
  BY SoundShape, StillCarries DEF Carries, Goes
<1>1. ASSUME NEW status \in Status, Follows(status), bus' = [bus EXCEPT !.told = status],
             r.phase = "down" /\ s = r
      PROVE  Done
  BY <1>0, <1>1 DEF Wired
<1>2. ASSUME NEW status \in Status, Follows(status), bus' = [bus EXCEPT !.told = status],
             Listening, s = Absorb(r, status)
      PROVE  Done
  <2>1. /\ Fits(s) /\ s.phase = r.phase /\ s.path = r.path /\ s.mission = r.mission
        /\ s.persistence = r.persistence /\ s.lapsed = r.lapsed
        /\ s.said = r.said /\ s.buffers = r.buffers /\ s.card = r.card
        /\ s.absorbing # None /\ s.absorbing.status = status
        /\ s.absorbing.stage = "state"
    BY <1>0, <1>2, AbsorbTyped
  <2>2. bus'.told = status
    BY <1>2
  <2>3. r.phase # "down" /\ r.persistence = Recorded(bus.told.profile)
    BY <1>2 DEF Listening, Wired
  <2>4. status.state \in RecordingStates => status.profile = bus.told.profile
    BY <1>2 DEF Follows, RecordingStates
  <2>5. Wired(s, status)
    BY <2>1, <2>3, <2>4 DEF Wired, Told
  <2>6. Goes(r, s)
    BY <2>1, StillCarries DEF Carries, Goes
  <2> QED BY <2>1, <2>2, <2>5, <2>6 DEF Filed
<1>3. ASSUME NEW profile \in Profiles, bus' = [bus EXCEPT !.host = profile],
             s = r \/ s = OnDhsHostStatus(r, profile, bad)
      PROVE  Done
  <2> DEFINE c == CloseMission(r, "PROFILE_CHANGE", bad)
  <2>1. s \in {r, c}
    BY <1>3 DEF OnDhsHostStatus
  <2>2. bus'.told = bus.told
    BY <1>3
  <2>3. /\ Carries(r, c) /\ c.mission = None /\ Same(r, c)
        /\ Filed(r) /\ Written(bad) => Filed(c)
    <3>1. "PROFILE_CHANGE" \in EndReason
      BY DEF EndReason
    <3>2. MissionClosed(r, c, FlushLogs(r, bad), "PROFILE_CHANGE")
      BY <1>0, <3>1, SoundShape, CloseMissionTyped
    <3>3. /\ Carries(r, c) /\ c.mission = None
          /\ Filed(r) /\ Written(bad) => Filed(c)
      BY <1>0, <3>1, CloseCarries
    <3> QED BY <3>2, <3>3 DEF MissionClosed
  <2> HIDE DEF c
  <2>4. Wired(c, bus.told)
    BY <2>3, WiredSame DEF InPlace, Carries
  <2> QED BY <1>0, <2>1, <2>2, <2>3, <2>4 DEF Carries, Goes
<1> QED BY <1>1, <1>2, <1>3 DEF Speaks

(***************************************************************************)
(* The theorems.                                                           *)
(***************************************************************************)
DhsInv == DhsTypeOK /\ Sound(dhs) /\ Wired(dhs, bus.told)

\* As it starts.
LEMMA DhsInitHolds ==
  ASSUME dhs = InitDhs, left = Limits,
         bus = [told |-> [profile |-> Flown, state |-> "STANDBY"], host |-> Flown]
  PROVE  DhsInv /\ Filed(dhs)
<1>1. /\ DhsTypeOK
      /\ dhs.phase = "down" /\ dhs.absorbing = None /\ dhs.persistence = None
      /\ dhs.mission = None /\ dhs.path = None /\ dhs.said.mission = None
      /\ dhs.card = [d \in Dbs |-> EmptyDatabase]
      /\ \A log \in Logs : dhs.buffers[log] = <<>>
  BY DhsInitTyped
<1>2. Fits(dhs)
  BY <1>1, TypeIs
<1>3. \A d \in Dbs : SoundDb(dhs.card[d]) /\ dhs.card[d].samples = {}
  BY <1>1, EmptyIsSound DEF SoundDb
<1>4. Sound(dhs)
  BY <1>1, <1>2, <1>3 DEF Sound, CardIsSound, IsOnCard, IsAlone, SaidIsIssued
<1>5. Wired(dhs, bus.told)
  BY <1>1 DEF Wired
<1>6. Filed(dhs)
  BY <1>1, <1>3 DEF Filed
<1> QED BY <1>1, <1>4, <1>5, <1>6 DEF DhsInv

\* And at every step.
LEMMA StepGoes ==
  ASSUME "link" \notin Mishaps, DhsInv, [NextDhs]_dhsVars
  PROVE  /\ DhsInv' /\ Goes(dhs, dhs')
         /\ Filed(dhs) /\ "attitude" \notin Mishaps /\ "radio" \notin Mishaps
              => Filed(dhs')
<1>1. /\ Fits(dhs) /\ bus \in [told: Status, host: Profiles] /\ bus.told \in Status
      /\ left \in [Kinds -> Nat] /\ Sound(dhs) /\ Wired(dhs, bus.told)
  BY TypeIs DEF DhsInv
<1>2. CASE UNCHANGED dhsVars
  <2>1. DhsInv'
    BY <1>2 DEF dhsVars, DhsInv, DhsTypeOK
  <2>2. Goes(dhs, dhs)
    BY <1>1, StillCarries DEF Carries, Goes
  <2> QED BY <1>2, <2>1, <2>2 DEF dhsVars
<1>3. CASE NextDhs
  <2>1. left' \in [Kinds -> Nat]
    BY <1>3, NextIs DEF DhsInv
  <2>2. PICK bad \in Fails : \/ Moves(dhs, dhs', bad) /\ UNCHANGED bus
                             \/ Speaks(dhs, dhs', bad)
    BY <1>3, NextIs DEF DhsInv
  <2>3. "attitude" \notin Mishaps /\ "radio" \notin Mishaps => Written(bad)
    BY DEF Fails, Written
  <2>4. /\ Goes(dhs, dhs') /\ Wired(dhs', bus'.told)
        /\ bus' \in [told: Status, host: Profiles]
        /\ Filed(dhs) /\ Written(bad) => Filed(dhs')
    <3>1. CASE Moves(dhs, dhs', bad) /\ UNCHANGED bus
      BY <1>1, <3>1, MovesCarry
    <3>2. CASE Speaks(dhs, dhs', bad)
      BY <1>1, <3>2, SpeaksCarry, SpeaksTyped
    <3> QED BY <2>2, <3>1, <3>2
  <2>5. Fits(dhs') /\ Sound(dhs')
    BY <2>4 DEF Goes, Sound
  <2>6. DhsInv'
    BY <2>1, <2>4, <2>5
       DEF DhsInv, DhsTypeOK, Fits, Sound, CardIsSound, IsOnCard, IsAlone,
           SaidIsIssued, Wired, Told
  <2> QED BY <2>3, <2>4, <2>6
<1> QED BY <1>2, <1>3

\* The invariant holds, and every step goes on.
LEMMA DhsInvHolds ==
  ASSUME "link" \notin Mishaps
  PROVE  SpecDhs => []DhsInv
<1>1. dhs = InitDhs /\ left = Limits
      /\ bus = [told |-> [profile |-> Flown, state |-> "STANDBY"], host |-> Flown]
        => DhsInv
  BY DhsInitHolds
<1>2. DhsInv /\ [NextDhs]_dhsVars => DhsInv'
  BY StepGoes
<1> QED BY <1>1, <1>2, PTL DEF SpecDhs

\* The mission DHS records is on the card, in the database that is open, and has
\* not ended, whatever is deleted, purged or recovered: dhs/service.py _reconcile,
\* _ensure_database, _delete_mission.
THEOREM OpenStaysOnCard ==
  ASSUME "link" \notin Mishaps
  PROVE  SpecDhs => []OpenIsOnCard
<1>1. DhsInv => OpenIsOnCard
  BY DEF DhsInv, Sound, IsOnCard, OpenIsOnCard
<1> QED BY <1>1, DhsInvHolds, PTL

\* Every other mission of the open database has ended, unless the card refused
\* an end: dhs/missions.py recover_orphans, dhs/service.py _ensure_database.
THEOREM OpenIsAlone ==
  ASSUME "link" \notin Mishaps
  PROVE  SpecDhs => []OneMissionIsOpen
<1>1. DhsInv => OneMissionIsOpen
  BY DEF DhsInv, Sound, IsAlone, OneMissionIsOpen
<1> QED BY <1>1, DhsInvHolds, PTL

\* The summary of a mission that has ended counts the rows that are there:
\* dhs/missions.py close and recover_orphans, dhs/recorder.py write.
THEOREM SummariesAgree ==
  ASSUME "link" \notin Mishaps
  PROVE  SpecDhs => []SummaryAgrees
<1>1. DhsInv => SummaryAgrees
  BY DEF DhsInv, Sound, CardIsSound, SoundDb, Agrees, SummaryAgrees
<1> QED BY <1>1, DhsInvHolds, PTL

\* A mission has one end for good: dhs/missions.py close, recover_orphans.
THEOREM EndIsFinal ==
  ASSUME "link" \notin Mishaps
  PROVE  SpecDhs => EndsOnce
<1> DEFINE Kept == \A d \in Dbs :
                      \A id \in Ended(dhs.card[d]) \cap MissionsOf(dhs'.card[d]) :
                        dhs'.card[d].missions[id].end = dhs.card[d].missions[id].end
<1>1. ASSUME DhsInv, [NextDhs]_dhsVars
      PROVE  Kept
  <2> SUFFICES ASSUME NEW d \in Dbs,
                      NEW id \in Ended(dhs.card[d]) \cap MissionsOf(dhs'.card[d])
               PROVE  dhs'.card[d].missions[id].end = dhs.card[d].missions[id].end
    OBVIOUS
  <2>1. Onward(dhs.card[d], dhs'.card[d])
    BY <1>1, StepGoes DEF Goes
  <2>2. id \in MissionsOf(dhs.card[d]) /\ dhs.card[d].missions[id].end # None
    BY DEF Ended, Unended
  <2> QED BY <2>1, <2>2 DEF Onward
<1>2. DhsInv /\ [NextDhs]_dhsVars => [Kept]_dhsVars
  BY <1>1
<1> QED BY <1>2, DhsInvHolds, PTL DEF SpecDhs, EndsOnce

\* A mission begins with nothing on the card under its id, after any number of
\* deletions, purges and restarts: dhs/missions.py open, with AUTOINCREMENT.
THEOREM MissionBeginsEmpty ==
  ASSUME "link" \notin Mishaps
  PROVE  SpecDhs => BeginsEmpty
<1> DEFINE Begins == dhs'.mission \notin {dhs.mission, None}
                     => LET d == dhs'.mission.db
                            id == dhs'.mission.id
                        IN  /\ id \notin MissionsOf(dhs.card[d])
                            /\ id \notin dhs.card[d].photos
                            /\ \A s \in dhs.card[d].samples : s.id # id
<1>1. ASSUME DhsInv, [NextDhs]_dhsVars
      PROVE  Begins
  <2> SUFFICES ASSUME dhs'.mission \notin {dhs.mission, None}
               PROVE  LET d == dhs'.mission.db
                          id == dhs'.mission.id
                      IN  /\ id \notin MissionsOf(dhs.card[d])
                          /\ id \notin dhs.card[d].photos
                          /\ \A s \in dhs.card[d].samples : s.id # id
    OBVIOUS
  <2> DEFINE d == dhs'.mission.db
             id == dhs'.mission.id
             db == dhs.card[d]
  <2>1. d \in Dbs /\ db.next <= id /\ Sound(dhs')
    BY <1>1, StepGoes DEF Goes
  <2>2. SoundDb(db) /\ db \in Database
    BY <1>1, <2>1, SoundShape DEF DhsInv, SoundDb
  <2>3. id \in Nat
    BY <2>1, SoundShape
  <2>4. /\ db.next \in Nat /\ MissionsOf(db) \subseteq Nat /\ db.photos \subseteq Nat
        /\ \A s \in db.samples : s.id \in Nat
    BY <2>2, DatabaseShape DEF Sample
  <2> HIDE DEF id, db
  <2>5. /\ id \notin MissionsOf(db) /\ id \notin db.photos
        /\ \A s \in db.samples : s.id # id
    BY <2>1, <2>2, <2>3, <2>4 DEF SoundDb, Issued
  <2> QED BY <2>5 DEF id, db
<1>2. DhsInv /\ [NextDhs]_dhsVars => [Begins]_dhsVars
  BY <1>1
<1> QED BY <1>2, DhsInvHolds, PTL DEF SpecDhs, BeginsEmpty

\* Photographs leave the card only with their own mission's rows:
\* dhs/retention.py purge, dhs/service.py _purge and _erase.
THEOREM PhotosLeaveWithTheirMission ==
  ASSUME "link" \notin Mishaps
  PROVE  SpecDhs => PhotosAreFenced
<1> DEFINE Fenced ==
      \A d \in Dbs : \A id \in dhs.card[d].photos \ dhs'.card[d].photos :
        \/ id \notin MissionsOf(dhs'.card[d])
        \/ LET row == dhs'.card[d].missions[id]
           IN  row.end # None /\ row.purged /\ row.rows = 0
               /\ ~dhs.card[d].missions[id].purged
<1>1. ASSUME DhsInv, [NextDhs]_dhsVars
      PROVE  Fenced
  <2>1. \A d \in Dbs : Onward(dhs.card[d], dhs'.card[d])
    BY <1>1, StepGoes DEF Goes
  <2> QED BY <2>1 DEF Onward
<1>2. DhsInv /\ [NextDhs]_dhsVars => [Fenced]_dhsVars
  BY <1>1
<1> QED BY <1>2, DhsInvHolds, PTL DEF SpecDhs, PhotosAreFenced

\* Where the samples' own writes do not fail, what is buffered belongs to the
\* open mission.
LEMMA FiledHolds ==
  ASSUME Mishaps \cap {"link", "attitude", "radio"} = {}
  PROVE  SpecDhs => [](DhsInv /\ Filed(dhs))
<1>1. dhs = InitDhs /\ left = Limits
      /\ bus = [told |-> [profile |-> Flown, state |-> "STANDBY"], host |-> Flown]
        => DhsInv /\ Filed(dhs)
  BY DhsInitHolds
<1>2. DhsInv /\ Filed(dhs) /\ [NextDhs]_dhsVars => DhsInv' /\ Filed(dhs)'
  <2>1. ASSUME DhsInv, Filed(dhs), [NextDhs]_dhsVars
        PROVE  DhsInv' /\ Filed(dhs')
    BY <2>1, StepGoes
  <2>2. Filed(dhs') => Filed(dhs)'
    BY DEF Filed
  <2> QED BY <2>1, <2>2
<1> QED BY <1>1, <1>2, PTL DEF SpecDhs

\* Then a sample is on record only in the database that was open when it was
\* taken: dhs/service.py _offer_attitude, _flush_attitude, _close_mission.
THEOREM SamplesStayWhereTheyBelong ==
  ASSUME Mishaps \cap {"link", "attitude", "radio"} = {}
  PROVE  SpecDhs => []SamplesBelong
<1>1. DhsInv /\ Filed(dhs) => SamplesBelong
  BY DEF Filed, SamplesBelong
<1> QED BY <1>1, FiledHolds, PTL

\* And what DHS says of recording, which a poweroff waits for, is true, with
\* nothing left in memory: dhs/service.py _close_mission, _publish_status.
THEOREM NothingIsLeftBehind ==
  ASSUME Mishaps \cap {"link", "attitude", "radio"} = {}
  PROVE  SpecDhs => []NothingIsHeldBack
<1>1. DhsInv /\ Filed(dhs) => NothingIsHeldBack
  <2> SUFFICES ASSUME DhsInv, Filed(dhs), dhs.phase \in {"serving", "stopping"}
               PROVE  /\ dhs.said.mission = None <=> dhs.mission = None
                      /\ dhs.mission = None =>
                           \A log \in Logs : dhs.buffers[log] = <<>>
    BY DEF NothingIsHeldBack
  <2>1. dhs.said.mission = None <=> dhs.mission = None
    BY DEF DhsInv, Wired, Told
  <2>2. ASSUME dhs.mission = None, NEW log \in Logs
        PROVE  dhs.buffers[log] = <<>>
    <3>1. dhs.buffers[log] \in Seq(Sample)
      BY SoundShape, StateShape DEF DhsInv
    <3>2. 1 \notin DOMAIN dhs.buffers[log]
      BY <2>2 DEF Filed
    <3> QED BY <3>1, <3>2
  <2> QED BY <2>1, <2>2
<1> QED BY <1>1, FiledHolds, PTL
===============================================================================
