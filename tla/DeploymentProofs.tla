-------------------------- MODULE DeploymentProofs --------------------------
(***************************************************************************)
(* Proofs about Deployment: the releases stay sound through deployments,   *)
(* rollbacks, restores and killed scripts, for every number of releases,   *)
(* of backups kept and taken, and of kills.                                *)
(***************************************************************************)
EXTENDS Deployment, SequenceTheorems, TLAPS

Slots == {"current", "previous"}
Writes == [slot : Slots, field : Fields, to : 0..MaxRelease]
Dumps == [id : 1..MaxBackups, of : Databases]
Scripts == [op : {"none", "deploy", "rollback", "restore"},
            at : {"none", "backup", "migrate", "start", "return", "record", "recording",
                  "import", "replay"},
            tag : 0..MaxRelease, loaded : [Fields -> 0..MaxRelease], chosen : 0..MaxBackups,
            writes : Seq(Writes)]

Shaped == DeploymentTypeOK /\ script \in Scripts /\ dumps \in Seq(Dumps)

Places(op) ==
    CASE op = "none" -> {"none"}
      [] op = "deploy" -> {"backup", "migrate", "start", "return", "record", "recording"}
      [] op = "rollback" -> {"record", "recording"}
      [] op = "restore" -> {"backup", "import", "replay", "migrate", "start"}

Untorn == "torn" \notin marks
Whole(record) == record = NoRecord \/ \E r \in proven : record = Record(r)

\* What a script that is under way knows of the records and the images.
Loaded ==
    /\ script.at \in Places(script.op)
    /\ script.op # "none" /\ script.at # "recording" => script.loaded = current
    /\ script.op \in {"deploy", "rollback"} => script.tag \in images
    /\ script.op = "deploy" =>
        /\ script.loaded = NoRecord \/ Complete(script.loaded)
        /\ script.loaded.tag <= script.tag
    /\ script.op = "rollback" => script.loaded.tag # 0
    /\ script.op = "restore" => app = All(0) /\ script.tag = current.tag /\ script.tag # 0
    /\ script.loaded.tag \in images \cup {0}
    /\ current.tag = 0 => previous = NoRecord

\* What is still to be written of a field, and to which release.
Goal(slot) == IF slot = "current" THEN script.tag ELSE script.loaded.tag
InSlot(slot) == IF slot = "current" THEN current ELSE previous
Pending(slot, f) ==
    \E i \in DOMAIN script.writes : script.writes[i].slot = slot /\ script.writes[i].field = f

\* Amid the renames: a field is still to be written or has its new value.
Renaming ==
    script.at \in {"record", "recording"} =>
        /\ "adrift" \notin marks => app = All(script.tag)
        /\ current.tag \in {script.loaded.tag, script.tag}
        /\ script.loaded.tag = 0 =>
            /\ previous = NoRecord
            /\ \A i \in DOMAIN script.writes : script.writes[i].slot # "previous"
        /\ \A i \in DOMAIN script.writes : script.writes[i].field = "tag" \/ Untorn =>
            script.writes[i].to = Goal(script.writes[i].slot)
        /\ \A slot \in Slots, f \in Fields :
            (slot = "current" \/ script.loaded.tag # 0) /\ (f = "tag" \/ Untorn) =>
                Pending(slot, f) \/ InSlot(slot)[f] = Goal(slot)

Recorded ==
    Untorn =>
        /\ script.at # "recording" => Whole(current) /\ Whole(previous)
        /\ script.at \in {"record", "recording"} =>
            script.tag \in proven /\ script.loaded.tag \in proven \cup {0}
        /\ "again" \notin marks =>
            /\ script.at # "recording" /\ current.tag # 0 => current.tag # previous.tag
            /\ script.op \in {"deploy", "rollback"} => script.tag # script.loaded.tag

\* The containers and the records.
Serving ==
    script.at \notin {"record", "recording", "return"} /\ "adrift" \notin marks =>
        current = NoRecord \/ \A c \in Containers : app[c] \in {0, current.tag}

\* The database and what runs on it.
Migrated ==
    /\ script.at \in {"start", "return"} => database.schema = script.tag
    /\ script.at = "return" => script.loaded.tag # 0
    /\ "leapt" \notin marks => \A c \in Containers : app[c] <= database.schema
    /\ "broken" \in marks => "restored" \in marks
    /\ "broken" \notin marks =>
        /\ script.at # "replay" => database.data = "whole"
        /\ \A i \in DOMAIN dumps : dumps[i].of.data = "whole"
    /\ "restored" \notin marks =>
        /\ script.op # "restore"
        /\ current.tag <= database.schema /\ previous.tag <= database.schema
        /\ script.at \in {"record", "recording"} =>
            script.tag <= database.schema /\ script.loaded.tag <= database.schema

DeploymentInv ==
    /\ Shaped /\ Loaded /\ ImagesAreKept /\ Renaming /\ Recorded /\ Serving /\ Migrated

-----------------------------------------------------------------------------
\* A record of one release, and none.
LEMMA Records ==
    /\ NoRecord \in [Fields -> 0..MaxRelease]
    /\ \A r \in 0..MaxRelease :
           /\ Record(r) \in [Fields -> 0..MaxRelease]
           /\ \A f \in Fields : Record(r)[f] = r
           /\ Record(r) = NoRecord <=> r = 0
    /\ \A f \in Fields : NoRecord[f] = 0
BY DeploymentAssumption DEF NoRecord, Record, Fields

\* What a command on the containers leaves of each, and all of one release.
LEMMA RecreatedAre ==
    ASSUME app \in [Containers -> 0..MaxRelease], NEW r \in 0..MaxRelease, NEW here,
           NEW f \in Recreated(r, here) \cup InTurn(r, here) \cup Between(r)
    PROVE  f \in [Containers -> 0..MaxRelease] /\ \A c \in Containers : f[c] \in {app[c], 0, r}
BY DEF Recreated, InTurn, Between

LEMMA AllAre ==
    ASSUME NEW r \in 0..MaxRelease
    PROVE  All(r) \in [Containers -> 0..MaxRelease] /\ \A c \in Containers : All(r)[c] = r
BY DEF All

\* The files of a record: each field once, each written from the record.
LEMMA FilesOf ==
    ASSUME NEW slot \in Slots, NEW record \in [Fields -> 0..MaxRelease]
    PROVE  /\ Files(slot, record) \in Seq(Writes) /\ Len(Files(slot, record)) = 3
           /\ \A i \in 1..3 : /\ Files(slot, record)[i].slot = slot
                              /\ Files(slot, record)[i].to = record[Files(slot, record)[i].field]
           /\ \A f \in Fields : \E i \in 1..3 : Files(slot, record)[i].field = f
BY DEF Files, Fields, Writes

\* What is written of a list of writes.
Covers(w, slot, record) ==
    /\ \A i \in DOMAIN w : w[i].slot = slot => w[i].to = record[w[i].field]
    /\ \A f \in Fields : \E i \in DOMAIN w : w[i].slot = slot /\ w[i].field = f

\* The files of two records, one after the other.
LEMMA TwoFiles ==
    ASSUME NEW s \in Slots, NEW t \in Slots, s # t,
           NEW a \in [Fields -> 0..MaxRelease], NEW b \in [Fields -> 0..MaxRelease]
    PROVE  /\ Files(s, a) \o Files(t, b) \in Seq(Writes)
           /\ Covers(Files(s, a) \o Files(t, b), s, a)
           /\ Covers(Files(s, a) \o Files(t, b), t, b)
<1> DEFINE x == Files(s, a)
           y == Files(t, b)
           w == x \o y
<1>1. /\ x \in Seq(Writes) /\ Len(x) = 3
      /\ \A i \in 1..3 : x[i].slot = s /\ x[i].to = a[x[i].field]
      /\ \A f \in Fields : \E i \in 1..3 : x[i].field = f
  BY FilesOf
<1>2. /\ y \in Seq(Writes) /\ Len(y) = 3
      /\ \A i \in 1..3 : y[i].slot = t /\ y[i].to = b[y[i].field]
      /\ \A f \in Fields : \E i \in 1..3 : y[i].field = f
  BY FilesOf
<1> HIDE DEF x, y
<1>3. /\ w \in Seq(Writes) /\ Len(w) = 6
      /\ \A i \in 1..6 : w[i] = IF i <= 3 THEN x[i] ELSE y[i - 3]
  <2>1. /\ w \in Seq(Writes) /\ Len(w) = Len(x) + Len(y)
        /\ \A i \in 1..Len(x) + Len(y) :
               w[i] = IF i <= Len(x) THEN x[i] ELSE y[i - Len(x)]
    <3>1. x \in Seq(Writes) /\ y \in Seq(Writes)
      BY <1>1, <1>2
    <3> QED BY <3>1, ConcatProperties, Zenon
  <2> HIDE DEF w
  <2> QED BY <1>1, <1>2, <2>1
<1>4. DOMAIN w = 1..6
  BY <1>3
<1> HIDE DEF w
<1>5. \A i \in 1..3 : w[i] = x[i] /\ w[i + 3] = y[i] /\ i \in 1..6 /\ i + 3 \in 1..6
  BY <1>3
<1>6. \A i \in 1..6 : (i \in 1..3 /\ w[i] = x[i]) \/ (i - 3 \in 1..3 /\ w[i] = y[i - 3])
  BY <1>3
<1>7. Covers(w, s, a)
  <2>1. \A i \in 1..6 : w[i].slot = s => w[i].to = a[w[i].field]
    <3>1. SUFFICES ASSUME NEW i \in 1..6, w[i].slot = s
                   PROVE  w[i].to = a[w[i].field]
      OBVIOUS
    <3>2. i \in 1..3 /\ w[i] = x[i]
      <4>1. CASE i - 3 \in 1..3 /\ w[i] = y[i - 3]
        BY <1>2, <3>1, <4>1
      <4> QED BY <1>6, <4>1
    <3> QED BY <1>1, <3>2
  <2>2. \A f \in Fields : \E i \in 1..6 : w[i].slot = s /\ w[i].field = f
    <3>1. SUFFICES ASSUME NEW f \in Fields
                   PROVE  \E i \in 1..6 : w[i].slot = s /\ w[i].field = f
      OBVIOUS
    <3>2. PICK i \in 1..3 : x[i].field = f
      BY <1>1
    <3>3. i \in 1..6 /\ w[i] = x[i] /\ x[i].slot = s
      BY <1>1, <1>5, <3>2
    <3> QED BY <3>2, <3>3
  <2> QED BY <1>4, <2>1, <2>2 DEF Covers
<1>8. Covers(w, t, b)
  <2>1. \A i \in 1..6 : w[i].slot = t => w[i].to = b[w[i].field]
    BY <1>1, <1>2, <1>6
  <2>2. \A f \in Fields : \E i \in 1..6 : w[i].slot = t /\ w[i].field = f
    <3>1. SUFFICES ASSUME NEW f \in Fields
                   PROVE  \E i \in 1..6 : w[i].slot = t /\ w[i].field = f
      OBVIOUS
    <3>2. PICK i \in 1..3 : y[i].field = f
      BY <1>2
    <3>3. i + 3 \in 1..6 /\ w[i + 3] = y[i] /\ y[i].slot = t
      BY <1>2, <1>5, <3>2
    <3> QED BY <3>2, <3>3
  <2> QED BY <1>4, <2>1, <2>2 DEF Covers
<1> QED BY <1>3, <1>7, <1>8 DEF w, x, y

\* Dropping the oldest dump keeps the others.
LEMMA RotatedKeeps ==
    ASSUME NEW all \in Seq(Dumps), Len(all) <= Retention + 1
    PROVE  /\ Rotated(all) \in Seq(Dumps) /\ Len(Rotated(all)) <= Retention
           /\ \A i \in DOMAIN Rotated(all) : \E j \in DOMAIN all : Rotated(all)[i] = all[j]
<1>0. Retention \in Nat
  BY DeploymentAssumption
<1>1. CASE Len(all) > Retention
  <2>1. all # <<>>
    BY <1>0, <1>1
  <2>2. /\ Tail(all) \in Seq(Dumps) /\ Len(Tail(all)) = Len(all) - 1
        /\ \A i \in 1..Len(Tail(all)) : Tail(all)[i] = all[i + 1]
    BY <2>1, HeadTailProperties
  <2>3. \A i \in 1..Len(Tail(all)) : i + 1 \in 1..Len(all)
    BY <2>2
  <2> QED BY <1>0, <1>1, <2>2, <2>3 DEF Rotated
<1>2. CASE ~(Len(all) > Retention)
  BY <1>0, <1>2 DEF Rotated
<1> QED BY <1>1, <1>2

\* The script that is none.
LEMMA NoScriptIs ==
    /\ NoScript \in Scripts
    /\ NoScript.op = "none" /\ NoScript.at = "none" /\ NoScript.tag = 0
    /\ NoScript.loaded = NoRecord /\ NoScript.chosen = 0 /\ NoScript.writes = <<>>
<1>1. <<>> \in Seq(Writes)
  BY EmptySeq
<1>2. 0 \in 0..MaxRelease /\ 0 \in 0..MaxBackups
  BY DeploymentAssumption
<1> QED BY <1>1, <1>2, Records DEF NoScript, Scripts

-----------------------------------------------------------------------------
\* The dumps after a backup: those there were, but for the oldest, and the new one.
LEMMA TakeBackupKeeps ==
    ASSUME DeploymentInv, TakeBackup
    PROVE  DeploymentInv'
<1> DEFINE new == [id |-> taken + 1, of |-> database]
<1>1. dumps \in Seq(Dumps) /\ Len(dumps) <= Retention /\ new \in Dumps
  BY DeploymentAssumption DEF DeploymentInv, Shaped, DeploymentTypeOK, TakeBackup, Dumps
<1>2. /\ dumps' \in Seq(Dumps) /\ Len(dumps') <= Retention
      /\ \A i \in DOMAIN dumps' : dumps'[i] = new \/ \E j \in DOMAIN dumps : dumps'[i] = dumps[j]
  <2>1. /\ Append(dumps, new) \in Seq(Dumps) /\ Len(Append(dumps, new)) = Len(dumps) + 1
        /\ \A i \in 1..Len(dumps) : Append(dumps, new)[i] = dumps[i]
        /\ Append(dumps, new)[Len(dumps) + 1] = new
    BY <1>1, AppendProperties
  <2>2. Len(Append(dumps, new)) <= Retention + 1
    BY <1>1, <2>1, DeploymentAssumption
  <2>3. dumps' = Rotated(Append(dumps, new))
    BY DEF TakeBackup
  <2>4. \A j \in DOMAIN Append(dumps, new) : j \in DOMAIN dumps \/ j = Len(dumps) + 1
    BY <1>1, <2>1
  <2>5. /\ dumps' \in Seq(Dumps) /\ Len(dumps') <= Retention
        /\ \A i \in DOMAIN dumps' :
               \E j \in DOMAIN Append(dumps, new) : dumps'[i] = Append(dumps, new)[j]
    BY <2>1, <2>2, <2>3, RotatedKeeps
  <2>6. \A j \in DOMAIN Append(dumps, new) :
            Append(dumps, new)[j] = new \/ \E k \in DOMAIN dumps : Append(dumps, new)[j] = dumps[k]
    BY <1>1, <2>1, <2>4
  <2> HIDE DEF new
  <2> QED BY <2>5, <2>6
<1>3. /\ script.op \in {"deploy", "restore"} /\ script' \in Scripts
      /\ script'.op = script.op /\ script'.tag = script.tag /\ script'.loaded = script.loaded
      /\ script'.at = IF script.op = "deploy" THEN "migrate" ELSE "import"
  BY DEF DeploymentInv, Shaped, Scripts, Loaded, Places, TakeBackup, GoOn
<1>4. Shaped'
  <2>1. taken' \in 0..MaxBackups
    BY DeploymentAssumption DEF DeploymentInv, Shaped, DeploymentTypeOK, TakeBackup
  <2>2. \A i \in DOMAIN dumps' : dumps'[i] \in Dumps
    BY <1>2
  <2>3. /\ current' = current /\ previous' = previous /\ app' = app /\ database' = database
        /\ images' = images /\ kills' = kills /\ proven' = proven /\ marks' = marks
    BY DEF TakeBackup
  <2> QED
    BY <1>2, <1>3, <2>1, <2>2, <2>3 DEF DeploymentInv, Shaped, DeploymentTypeOK, Dumps
<1>5. Loaded'
  BY <1>3 DEF DeploymentInv, Loaded, Places, TakeBackup
<1>6. ImagesAreKept'
  BY DEF DeploymentInv, ImagesAreKept, TakeBackup
<1>7. Renaming'
  BY <1>3 DEF Renaming
<1>8. Recorded'
  BY <1>3 DEF DeploymentInv, Recorded, Untorn, Whole, TakeBackup
<1>9. Serving'
  BY <1>3 DEF DeploymentInv, Serving, TakeBackup
<1>10. Migrated'
  <2>1. "broken" \notin marks => \A i \in DOMAIN dumps' : dumps'[i].of.data = "whole"
    BY <1>2 DEF DeploymentInv, Migrated, TakeBackup
  <2> QED BY <1>3, <2>1 DEF DeploymentInv, Migrated, TakeBackup
<1> QED BY <1>4, <1>5, <1>6, <1>7, <1>8, <1>9, <1>10 DEF DeploymentInv

\* A whole record has its tag in every field.
LEMMA WholeHasOneRelease ==
    ASSUME DeploymentInv, NEW record \in [Fields -> 0..MaxRelease], Whole(record),
           NEW f \in Fields
    PROVE  record[f] = record.tag
BY Records DEF DeploymentInv, Shaped, DeploymentTypeOK, Whole, Releases, Fields, Record, NoRecord

\* What persist_success_state is to write.
LEMMA SuccessWritesAre ==
    ASSUME DeploymentInv, Running("deploy", "start")
    PROVE  /\ SuccessWrites \in Seq(Writes)
           /\ Covers(SuccessWrites, "current", Record(script.tag))
           /\ IF script.loaded.tag = 0
                THEN \A i \in DOMAIN SuccessWrites : SuccessWrites[i].slot # "previous"
                ELSE Covers(SuccessWrites, "previous", script.loaded)
<1>1. /\ script.loaded \in [Fields -> 0..MaxRelease]
      /\ script.tag \in 0..MaxRelease /\ Record(script.tag) \in [Fields -> 0..MaxRelease]
  BY Records DEF DeploymentInv, Shaped, Scripts
<1>2. CASE script.loaded.tag = 0
  <2> DEFINE w == Files("current", Record(script.tag))
  <2>1. /\ w \in Seq(Writes) /\ Len(w) = 3
        /\ \A i \in 1..3 : w[i].slot = "current" /\ w[i].to = Record(script.tag)[w[i].field]
        /\ \A f \in Fields : \E i \in 1..3 : w[i].field = f
    BY <1>1, FilesOf DEF Slots
  <2>2. SuccessWrites = w
    BY <1>2, <2>1, ConcatEmptySeq DEF SuccessWrites
  <2>3. DOMAIN w = 1..3
    BY <2>1
  <2> HIDE DEF w
  <2> QED BY <1>2, <2>1, <2>2, <2>3 DEF Covers
<1>3. CASE script.loaded.tag # 0
  BY <1>1, <1>3, TwoFiles DEF SuccessWrites, Slots
<1> QED BY <1>2, <1>3
LEMMA BeginDeploymentKeeps ==
    ASSUME DeploymentInv, NEW r \in Releases, BeginDeployment(r)
    PROVE  DeploymentInv'
<1>1. Shaped'
  <2>1. script' \in Scripts
    <3>1. current \in [Fields -> 0..MaxRelease] /\ r \in 0..MaxRelease
      BY DEF DeploymentInv, Shaped, DeploymentTypeOK, Releases
    <3> QED BY <3>1, NoScriptIs DEF BeginDeployment, Scripts
  <2>2. marks' \subseteq {"again", "adrift", "restored", "broken", "torn", "leapt"}
    BY DEF DeploymentInv, Shaped, DeploymentTypeOK, BeginDeployment, Mark
  <2> QED
    BY <2>1, <2>2 DEF DeploymentInv, Shaped, DeploymentTypeOK, BeginDeployment
<1>2. Loaded'
  BY Records, NoScriptIs
     DEF DeploymentInv, BeginDeployment, Loaded, Places, ImagesAreKept, Complete, Fields,
         Migrated, Shaped, DeploymentTypeOK, Releases
<1>3. ImagesAreKept'
  BY DEF DeploymentInv, BeginDeployment, ImagesAreKept
<1>4. Renaming'
  BY DEF BeginDeployment, Renaming
<1>5. Recorded'
  BY DEF DeploymentInv, BeginDeployment, Mark, Loaded, Places, Recorded, Whole, Untorn
<1>6. Serving'
  BY DEF DeploymentInv, BeginDeployment, Mark, Loaded, Places, Serving
<1>7. Migrated'
  BY NoScriptIs DEF DeploymentInv, BeginDeployment, Mark, Migrated, Loaded, Places, Shaped, Scripts
<1> QED BY <1>1, <1>2, <1>3, <1>4, <1>5, <1>6, <1>7 DEF DeploymentInv

LEMMA BackupFailsKeeps ==
    ASSUME DeploymentInv, BackupFails
    PROVE  DeploymentInv'
<1>1. Shaped'
  BY NoScriptIs DEF DeploymentInv, BackupFails, Exit, Shaped, DeploymentTypeOK
<1>2. Loaded'
  BY Records, NoScriptIs DEF DeploymentInv, BackupFails, Exit, Loaded, Places, Fields
<1>3. ImagesAreKept'
  BY DEF DeploymentInv, BackupFails, ImagesAreKept
<1>4. Renaming'
  BY NoScriptIs DEF BackupFails, Exit, Renaming
<1>5. Recorded'
  BY NoScriptIs DEF DeploymentInv, BackupFails, Exit, Recorded, Whole, Untorn
<1>6. Serving'
  BY DEF DeploymentInv, BackupFails, Serving
<1>7. Migrated'
  BY NoScriptIs DEF DeploymentInv, BackupFails, Exit, Migrated
<1> QED BY <1>1, <1>2, <1>3, <1>4, <1>5, <1>6, <1>7 DEF DeploymentInv

LEMMA MigrateKeeps ==
    ASSUME DeploymentInv, Migrate
    PROVE  DeploymentInv'
<1>1. Shaped'
  BY DEF DeploymentInv, Migrate, MigratedTo, GoOn, Shaped, DeploymentTypeOK, Scripts, Databases
<1>2. Loaded'
  BY DEF DeploymentInv, Migrate, GoOn, Shaped, Scripts, Loaded, Places
<1>3. ImagesAreKept'
  BY DEF DeploymentInv, Migrate, ImagesAreKept
<1>4. Renaming'
  BY DEF Migrate, GoOn, Renaming
<1>5. Recorded'
  BY DEF DeploymentInv, Migrate, GoOn, Recorded, Whole, Untorn
<1>6. Serving'
  BY DEF DeploymentInv, Migrate, Serving
<1>7. Migrated'
  <2>1. /\ script'.op = script.op /\ script'.at = "start" /\ script'.tag = script.tag
        /\ script'.loaded = script.loaded /\ database'.schema = script.tag
        /\ database.schema \in Nat /\ script.at = "migrate" /\ script.op \in {"deploy", "restore"}
        /\ marks' = marks /\ dumps' = dumps /\ app' = app
        /\ current' = current /\ previous' = previous
        /\ database'.data = IF database.data = "empty" THEN "bare" ELSE database.data
        /\ database.schema <= script.tag
    BY DEF DeploymentInv, Migrate, MigratedTo, Shaped, DeploymentTypeOK, Databases, Loaded, Places,
           MayMigrate, GoOn
  <2>2. /\ \A c \in Containers : app[c] \in Nat
        /\ current.tag \in Nat /\ previous.tag \in Nat /\ script.tag \in Nat
    BY DeploymentAssumption DEF DeploymentInv, Shaped, DeploymentTypeOK, Scripts, Fields
  <2>4. "leapt" \notin marks => \A c \in Containers : app[c] <= database'.schema
    BY <2>1, <2>2 DEF DeploymentInv, Migrated
  <2>5. "broken" \notin marks => database'.data = "whole" /\ \A i \in DOMAIN dumps : dumps[i].of.data = "whole"
    BY <2>1 DEF DeploymentInv, Migrated
  <2>6. "restored" \notin marks => /\ script.op # "restore" /\ current.tag <= database'.schema
                                  /\ previous.tag <= database'.schema
    BY <2>1, <2>2 DEF DeploymentInv, Migrated
  <2>7. "broken" \in marks => "restored" \in marks
    BY DEF DeploymentInv, Migrated
  <2> QED BY <2>1, <2>4, <2>5, <2>6, <2>7 DEF Migrated
<1> QED BY <1>1, <1>2, <1>3, <1>4, <1>5, <1>6, <1>7 DEF DeploymentInv

LEMMA MigrationFailsKeeps ==
    ASSUME DeploymentInv, MigrationFails
    PROVE  DeploymentInv'
<1>1. Shaped'
  <2>1. script' \in Scripts /\ script'.op = "none"
    BY NoScriptIs DEF MigrationFails, Exit
  <2>2. database' \in Databases
    <3>1. CASE UNCHANGED database
      BY <3>1 DEF DeploymentInv, Shaped, DeploymentTypeOK
    <3>2. CASE MayMigrate /\ \E schema \in database.schema..script.tag : MigratedTo(schema)
      BY <3>2, DeploymentAssumption
         DEF DeploymentInv, Shaped, DeploymentTypeOK, Scripts, Databases, MigratedTo
    <3> QED BY <3>1, <3>2 DEF MigrationFails
  <2> QED BY <2>1, <2>2 DEF DeploymentInv, Shaped, DeploymentTypeOK, MigrationFails
<1>2. Loaded'
  BY Records, NoScriptIs DEF DeploymentInv, MigrationFails, Exit, Loaded, Places, Fields
<1>3. ImagesAreKept'
  BY DEF DeploymentInv, MigrationFails, ImagesAreKept
<1>4. Renaming'
  BY NoScriptIs DEF MigrationFails, Exit, Renaming
<1>5. Recorded'
  BY NoScriptIs DEF DeploymentInv, MigrationFails, Exit, Recorded, Whole, Untorn
<1>6. Serving'
  BY DEF DeploymentInv, MigrationFails, Serving
<1>7. Migrated'
  <2>1. /\ script'.op = "none" /\ script'.at = "none" /\ script.tag \in Nat
        /\ database.data # "empty" => database'.data = database.data
        /\ database'.data # "whole" => database.data # "whole"
        /\ database'.schema \in Nat /\ database.schema <= database'.schema
    BY NoScriptIs DEF DeploymentInv, Shaped, DeploymentTypeOK, Scripts, MigrationFails, Exit,
                      MigratedTo, Databases
  <2>2. database.schema \in Nat /\ \A c \in Containers : app[c] \in Nat
    BY DEF DeploymentInv, Shaped, DeploymentTypeOK, Databases
  <2>3. current.tag \in Nat /\ previous.tag \in Nat
    BY DEF DeploymentInv, Shaped, DeploymentTypeOK, Fields
  <2>4. "leapt" \notin marks => \A c \in Containers : app[c] <= database'.schema
    BY <2>1, <2>2 DEF DeploymentInv, Migrated
  <2>5. "broken" \notin marks => database'.data = "whole"
    BY <2>1 DEF DeploymentInv, Migrated, MigrationFails
  <2>6. "restored" \notin marks =>
            current.tag <= database'.schema /\ previous.tag <= database'.schema
    BY <2>1, <2>2, <2>3 DEF DeploymentInv, Migrated
  <2> QED BY <2>1, <2>4, <2>5, <2>6 DEF DeploymentInv, Migrated, MigrationFails
<1> QED BY <1>1, <1>2, <1>3, <1>4, <1>5, <1>6, <1>7 DEF DeploymentInv

-----------------------------------------------------------------------------
\* With nothing left to write, the records are those of the two releases.
LEMMA WrittenOut ==
    ASSUME DeploymentInv, Untorn, script.at = "recording", script.writes = <<>>
    PROVE  /\ Whole(current) /\ Whole(previous)
           /\ current.tag = script.tag /\ previous.tag = script.loaded.tag
           /\ script.op \in {"deploy", "rollback"}
<1>1. ASSUME NEW slot \in Slots, NEW f \in Fields, slot = "current" \/ script.loaded.tag # 0
      PROVE  InSlot(slot)[f] = Goal(slot)
  BY <1>1 DEF DeploymentInv, Renaming, Pending
<1>2. current = Record(script.tag)
  BY <1>1 DEF Slots, InSlot, Goal, Record, DeploymentInv, Shaped, DeploymentTypeOK
<1>3. ASSUME script.loaded.tag # 0
      PROVE  previous = Record(script.loaded.tag)
  BY <1>3, <1>1 DEF Slots, InSlot, Goal, Record, DeploymentInv, Shaped, DeploymentTypeOK
<1>4. script.loaded.tag = 0 => previous = NoRecord
  BY DEF DeploymentInv, Renaming
<1>5. script.tag \in 0..MaxRelease /\ script.loaded.tag \in 0..MaxRelease /\ "tag" \in Fields
  BY DEF DeploymentInv, Shaped, Scripts, Fields
<1>6. script.tag \in proven /\ script.loaded.tag \in proven \cup {0}
  BY DEF DeploymentInv, Recorded
<1>7. Whole(current) /\ Whole(previous)
  BY <1>2, <1>3, <1>4, <1>6 DEF Whole
<1>8. current.tag = script.tag /\ previous.tag = script.loaded.tag
  BY <1>2, <1>3, <1>4, <1>5, Records
<1>9. script.op \in {"deploy", "rollback"}
  BY DEF DeploymentInv, Loaded, Places, Shaped, Scripts
<1> QED BY <1>7, <1>8, <1>9

LEMMA ReturnToCurrentKeeps ==
    ASSUME DeploymentInv, ReturnToCurrent
    PROVE  DeploymentInv'
<1>1. Shaped'
  <2>1. script' \in Scripts /\ script'.op = "none"
    BY NoScriptIs DEF ReturnToCurrent, Exit
  <2>2. script.loaded.tag \in 0..MaxRelease /\ script.loaded.tag # 0
    BY DEF DeploymentInv, Shaped, Scripts, Fields, ReturnToCurrent, Running, Migrated
  <2>3. app' \in [Containers -> 0..MaxRelease]
    BY <2>2, RecreatedAre DEF DeploymentInv, Shaped, DeploymentTypeOK, ReturnToCurrent
  <2>4. images' \subseteq Releases /\ marks' \subseteq marks \cup {"adrift"}
    BY <2>2 DEF DeploymentInv, Shaped, DeploymentTypeOK, Releases, ReturnToCurrent, Pulled, Sets
  <2> QED BY <2>1, <2>3, <2>4 DEF DeploymentInv, Shaped, DeploymentTypeOK, ReturnToCurrent
<1>2. Loaded'
  BY Records, NoScriptIs DEF DeploymentInv, ReturnToCurrent, Exit, Loaded, Places, Fields
<1>3. ImagesAreKept'
  BY DEF DeploymentInv, ReturnToCurrent, Pulled, ImagesAreKept
<1>4. Renaming'
  BY NoScriptIs DEF ReturnToCurrent, Exit, Renaming
<1>5. Recorded'
  BY NoScriptIs DEF DeploymentInv, ReturnToCurrent, Running, Exit, Recorded, Whole, Untorn, Sets
<1>6. Serving'
  <2>1. script.op = "deploy" /\ script.loaded = current
    BY DEF DeploymentInv, Loaded, ReturnToCurrent, Running
  <2>2. "adrift" \notin marks' => app' = All(current.tag)
    BY <2>1 DEF ReturnToCurrent, Sets
  <2>3. current.tag \in 0..MaxRelease
    BY DEF DeploymentInv, Shaped, DeploymentTypeOK, Fields
  <2> QED BY <2>2, <2>3, AllAre DEF ReturnToCurrent, Serving
<1>7. Migrated'
  <2>1. /\ script'.op = "none" /\ script'.at = "none" /\ script.op = "deploy"
        /\ \A m : m # "adrift" => (m \in marks' <=> m \in marks)
    BY NoScriptIs DEF ReturnToCurrent, Running, Exit, Sets
  <2>2. "leapt" \notin marks => \A c \in Containers : app'[c] <= database.schema
    <3>1. /\ script.loaded.tag \in 0..MaxRelease /\ script.tag \in 0..MaxRelease
          /\ script.loaded.tag <= database.schema /\ database.schema \in 0..MaxRelease
      BY <2>1 DEF DeploymentInv, Shaped, DeploymentTypeOK, Databases, Scripts, Fields, Loaded, Migrated,
                  ReturnToCurrent, Running
    <3>2. \A c \in Containers : app'[c] \in {app[c], 0, script.loaded.tag}
      <4>1. app \in [Containers -> 0..MaxRelease]
        BY DEF DeploymentInv, Shaped, DeploymentTypeOK
      <4>2. app' \in Recreated(script.loaded.tag, images')
        BY DEF ReturnToCurrent
      <4> QED BY <3>1, <4>1, <4>2, RecreatedAre
    <3> QED BY <3>1, <3>2 DEF DeploymentInv, Migrated
  <2>3. /\ current' = current /\ previous' = previous /\ database' = database /\ dumps' = dumps
    BY DEF ReturnToCurrent
  <2>4. "leapt" \notin marks' => \A c \in Containers : app'[c] <= database'.schema
    BY <2>1, <2>2, <2>3
  <2>5. "broken" \in marks' => "restored" \in marks'
    BY <2>1 DEF DeploymentInv, Migrated
  <2>6. "broken" \notin marks' => /\ database'.data = "whole"
                                 /\ \A i \in DOMAIN dumps' : dumps'[i].of.data = "whole"
    BY <2>1, <2>3 DEF DeploymentInv, Migrated, ReturnToCurrent, Running
  <2>7. "restored" \notin marks' =>
            current'.tag <= database'.schema /\ previous'.tag <= database'.schema
    BY <2>1, <2>3 DEF DeploymentInv, Migrated
  <2> QED BY <2>1, <2>4, <2>5, <2>6, <2>7 DEF Migrated
<1> QED BY <1>1, <1>2, <1>3, <1>4, <1>5, <1>6, <1>7 DEF DeploymentInv

LEMMA FinishKeeps ==
    ASSUME DeploymentInv, Finish
    PROVE  DeploymentInv'
<1>1. Shaped'
  BY NoScriptIs DEF DeploymentInv, Finish, Exit, Shaped, DeploymentTypeOK
<1>2. Loaded'
  BY Records, NoScriptIs DEF DeploymentInv, Finish, Exit, Loaded, Places, Fields
<1>3. ImagesAreKept'
  <2>1. previous.tag \in {0, script.loaded.tag}
    <3>1. Pending("previous", "tag") => FALSE
      BY DEF Finish, Pending
    <3> QED
      BY <3>1, Records DEF DeploymentInv, Renaming, Finish, InSlot, Goal, Slots, Fields
  <2>2. current.tag \in {script.loaded.tag, script.tag}
    BY DEF DeploymentInv, Renaming, Finish
  <2>3. images \cap {script.tag, script.loaded.tag} \subseteq images'
    BY DEF Finish
  <2> QED BY <2>1, <2>2, <2>3 DEF DeploymentInv, ImagesAreKept, Finish
<1>4. Renaming'
  BY NoScriptIs DEF Finish, Exit, Renaming
<1>5. Recorded'
  <2>1. /\ script'.op = "none" /\ script'.at = "none"
        /\ proven' = proven /\ marks' = marks
    BY NoScriptIs DEF Finish, Exit
  <2>2. Untorn => /\ Whole(current)' /\ Whole(previous)'
                  /\ current.tag = script.tag /\ previous.tag = script.loaded.tag
                  /\ script.op \in {"deploy", "rollback"}
    BY <2>1, WrittenOut DEF Finish, Whole
  <2> QED BY <2>1, <2>2 DEF DeploymentInv, Recorded, Untorn, Finish
<1>6. Serving'
  <2>1. current.tag = script.tag
    BY DEF DeploymentInv, Finish, Renaming, Fields, Goal, InSlot, Pending, Slots
  <2>2. "adrift" \notin marks => app = All(current.tag)
    BY <2>1 DEF DeploymentInv, Finish, Renaming
  <2>3. current.tag \in 0..MaxRelease
    BY DEF DeploymentInv, Shaped, DeploymentTypeOK, Fields
  <2> QED BY <2>2, <2>3, AllAre DEF Finish, Serving
<1>7. Migrated'
  BY NoScriptIs DEF DeploymentInv, Finish, Exit, Migrated
<1> QED BY <1>1, <1>2, <1>3, <1>4, <1>5, <1>6, <1>7 DEF DeploymentInv

LEMMA BeginRestoreKeeps ==
    ASSUME DeploymentInv, NEW i \in 1..Retention, BeginRestore(i)
    PROVE  DeploymentInv'
<1>0. 0 \in 0..MaxRelease /\ app \in [Containers -> 0..MaxRelease]
  BY DeploymentAssumption DEF DeploymentInv, Shaped, DeploymentTypeOK
<1>1. CASE /\ app' = All(0) /\ Mark("restored", TRUE)
           /\ script' = [NoScript EXCEPT !.op = "restore", !.at = "backup", !.tag = current.tag,
                         !.loaded = current, !.chosen = dumps[i].id]
  <2>1. Shaped'
    <3>1. script' \in Scripts
      <4>1. current \in [Fields -> 0..MaxRelease] /\ current.tag \in 0..MaxRelease
        BY DEF DeploymentInv, Shaped, DeploymentTypeOK, Fields
      <4>2. dumps[i].id \in 0..MaxBackups
        BY DEF DeploymentInv, Shaped, DeploymentTypeOK, BeginRestore
      <4> QED BY <1>1, <4>1, <4>2, NoScriptIs DEF Scripts
    <3>2. /\ marks' \subseteq {"again", "adrift", "restored", "broken", "torn", "leapt"}
          /\ app' \in [Containers -> 0..MaxRelease]
      BY <1>0, <1>1, AllAre DEF DeploymentInv, Shaped, DeploymentTypeOK, Mark
    <3>3. script'.op = "restore"
      BY <1>1, NoScriptIs DEF Scripts
    <3> QED BY <3>1, <3>2, <3>3 DEF DeploymentInv, Shaped, DeploymentTypeOK, BeginRestore
  <2>2. /\ script'.op = "restore" /\ script'.at = "backup" /\ script'.tag = current.tag
        /\ script'.loaded = current
    BY <1>1, NoScriptIs DEF Scripts
  <2>3. Loaded'
    BY <1>1, <2>2 DEF DeploymentInv, BeginRestore, Complete, Loaded, Places, ImagesAreKept, Fields
  <2>4. ImagesAreKept'
    BY DEF DeploymentInv, BeginRestore, ImagesAreKept
  <2>5. Renaming'
    BY <2>2 DEF Renaming
  <2>6. Recorded'
    BY <1>1, <2>2
       DEF DeploymentInv, BeginRestore, Mark, Loaded, Places, Recorded, Whole, Untorn
  <2>7. Serving'
    BY <1>0, <1>1, AllAre DEF Serving
  <2>8. Migrated'
    <3>a. database.schema \in Nat
      BY DEF DeploymentInv, Shaped, DeploymentTypeOK, Databases
    <3>1. \A c \in Containers : app'[c] <= database.schema
      BY <1>0, <1>1, <3>a, AllAre
    <3> QED BY <1>1, <2>2, <3>1 DEF DeploymentInv, BeginRestore, Mark, Migrated, Loaded, Places
  <2> QED BY <2>1, <2>3, <2>4, <2>5, <2>6, <2>7, <2>8 DEF DeploymentInv
<1>2. CASE app' \in Between(0) /\ UNCHANGED <<script, marks>>
  <2>1. app' \in [Containers -> 0..MaxRelease] /\ \A c \in Containers : app'[c] \in {app[c], 0}
    BY <1>0, <1>2, RecreatedAre
  <2>2. Shaped'
    BY <1>2, <2>1 DEF DeploymentInv, Shaped, DeploymentTypeOK, BeginRestore
  <2>3. script.op = "none" /\ script.at = "none"
    BY DEF DeploymentInv, Loaded, Places, BeginRestore
  <2>4. Loaded' /\ ImagesAreKept'
    BY <1>2, <2>3 DEF DeploymentInv, BeginRestore, Loaded, ImagesAreKept
  <2>5. Renaming' /\ Recorded'
    BY <1>2, <2>3 DEF DeploymentInv, BeginRestore, Renaming, Recorded, Whole, Untorn
  <2>6. Serving'
    BY <1>2, <2>1, <2>3 DEF DeploymentInv, BeginRestore, Serving
  <2>7. Migrated'
    <3>1. database.schema \in Nat
      BY DEF DeploymentInv, Shaped, DeploymentTypeOK, Databases
    <3>2. "leapt" \notin marks => \A c \in Containers : app'[c] <= database.schema
      BY <2>1, <3>1 DEF DeploymentInv, Migrated
    <3> QED BY <1>2, <2>3, <3>2 DEF DeploymentInv, BeginRestore, Migrated
  <2> QED BY <2>2, <2>4, <2>5, <2>6, <2>7 DEF DeploymentInv
<1> QED BY <1>1, <1>2 DEF BeginRestore

LEMMA RefuseDumpKeeps ==
    ASSUME DeploymentInv, RefuseDump
    PROVE  DeploymentInv'
<1>1. Shaped'
  BY NoScriptIs DEF DeploymentInv, RefuseDump, Exit, Shaped, DeploymentTypeOK
<1>2. Loaded'
  BY Records, NoScriptIs DEF DeploymentInv, RefuseDump, Exit, Loaded, Places, Fields
<1>3. ImagesAreKept'
  BY DEF DeploymentInv, RefuseDump, ImagesAreKept
<1>4. Renaming'
  BY NoScriptIs DEF RefuseDump, Exit, Renaming
<1>5. Recorded'
  BY NoScriptIs DEF DeploymentInv, RefuseDump, Running, Exit, Recorded, Whole, Untorn
<1>6. Serving'
  BY DEF DeploymentInv, RefuseDump, Running, Serving
<1>7. Migrated'
  BY NoScriptIs DEF DeploymentInv, RefuseDump, Running, Exit, Migrated
<1> QED BY <1>1, <1>2, <1>3, <1>4, <1>5, <1>6, <1>7 DEF DeploymentInv

LEMMA DropObjectsKeeps ==
    ASSUME DeploymentInv, DropObjects
    PROVE  DeploymentInv'
<1>1. Shaped'
  BY NoScriptIs
     DEF DeploymentInv, DropObjects, GoOn, Shaped, DeploymentTypeOK, Scripts, Databases
<1>2. Loaded'
  BY DEF DeploymentInv, DropObjects, Running, GoOn, Loaded, Places
<1>3. ImagesAreKept'
  BY DEF DeploymentInv, DropObjects, ImagesAreKept
<1>4. Renaming'
  BY DEF DropObjects, GoOn, Renaming
<1>5. Recorded'
  BY DEF DeploymentInv, DropObjects, Running, GoOn, Recorded, Whole, Untorn
<1>6. Serving'
  BY DEF DeploymentInv, DropObjects, Running, Serving
<1>7. Migrated'
  <2>1. \A c \in Containers : app'[c] <= database'.schema
    BY AllAre, DeploymentAssumption DEF DeploymentInv, DropObjects, Running, Loaded
  <2> QED BY <2>1 DEF DeploymentInv, DropObjects, Running, GoOn, Loaded, Migrated
<1> QED BY <1>1, <1>2, <1>3, <1>4, <1>5, <1>6, <1>7 DEF DeploymentInv

LEMMA DropFailsKeeps ==
    ASSUME DeploymentInv, DropFails
    PROVE  DeploymentInv'
<1>1. Shaped'
  <2>1. script' \in Scripts /\ script'.op = "none"
    BY NoScriptIs DEF DropFails, Exit
  <2>2. database' \in Databases
    BY DeploymentAssumption DEF DeploymentInv, Shaped, DeploymentTypeOK, DropFails, Databases
  <2>3. marks' \subseteq {"again", "adrift", "restored", "broken", "torn", "leapt"}
    BY DEF DeploymentInv, Shaped, DeploymentTypeOK, DropFails, Mark
  <2> QED BY <2>1, <2>2, <2>3 DEF DeploymentInv, Shaped, DeploymentTypeOK, DropFails
<1>2. Loaded'
  BY Records, NoScriptIs DEF DeploymentInv, DropFails, Exit, Loaded, Places, Fields
<1>3. ImagesAreKept'
  BY DEF DeploymentInv, DropFails, ImagesAreKept
<1>4. Renaming'
  BY NoScriptIs DEF DropFails, Exit, Renaming
<1>5. Recorded'
  BY NoScriptIs DEF DeploymentInv, DropFails, Running, Exit, Mark, Recorded, Whole, Untorn
<1>6. Serving'
  BY AllAre, DeploymentAssumption DEF DeploymentInv, DropFails, Running, Loaded, Serving
<1>7. Migrated'
  <2>1. \A c \in Containers : app'[c] <= database'.schema
    <3>1. database'.schema \in Nat
      BY DEF DeploymentInv, Shaped, DeploymentTypeOK, Databases, DropFails
    <3> QED BY <3>1, AllAre, DeploymentAssumption DEF DeploymentInv, DropFails, Running, Loaded
  <2> QED
    BY <2>1, NoScriptIs DEF DeploymentInv, DropFails, Running, Exit, Mark, Loaded, Migrated
<1> QED BY <1>1, <1>2, <1>3, <1>4, <1>5, <1>6, <1>7 DEF DeploymentInv

LEMMA ReplayKeeps ==
    ASSUME DeploymentInv, Replay
    PROVE  DeploymentInv'
<1>1. Shaped'
  <2>1. script' \in Scripts /\ script'.op = script.op
    BY DEF DeploymentInv, Shaped, Replay, GoOn, Scripts
  <2>2. database' \in Databases
    BY DEF DeploymentInv, Shaped, DeploymentTypeOK, Replay
  <2> QED BY <2>1 DEF DeploymentInv, Shaped, DeploymentTypeOK, Replay
<1>2. Loaded'
  BY DEF DeploymentInv, Replay, Running, GoOn, Loaded, Places
<1>3. ImagesAreKept'
  BY DEF DeploymentInv, Replay, ImagesAreKept
<1>4. Renaming'
  BY DEF Replay, GoOn, Renaming
<1>5. Recorded'
  BY DEF DeploymentInv, Replay, Running, GoOn, Recorded, Whole, Untorn
<1>6. Serving'
  BY DEF DeploymentInv, Replay, Running, Serving
<1>7. Migrated'
  <2>1. /\ script'.op = "restore" /\ script'.at = "migrate"
        /\ app' = All(0) /\ marks' = marks /\ dumps' = dumps /\ "restored" \in marks
        /\ database'.schema \in Nat
    BY DEF DeploymentInv, Shaped, DeploymentTypeOK, Databases, Replay, Running, GoOn, Loaded, Migrated
  <2>2. "broken" \notin marks => database'.data = "whole"
    BY DEF DeploymentInv, Migrated, Replay
  <2>3. \A c \in Containers : app'[c] <= database'.schema
    BY <2>1, AllAre, DeploymentAssumption
  <2> QED BY <2>1, <2>2, <2>3 DEF DeploymentInv, Migrated
<1> QED BY <1>1, <1>2, <1>3, <1>4, <1>5, <1>6, <1>7 DEF DeploymentInv

LEMMA ReplayFailsKeeps ==
    ASSUME DeploymentInv, ReplayFails
    PROVE  DeploymentInv'
<1>1. Shaped'
  <2>1. script' \in Scripts /\ script'.op = "none"
    BY NoScriptIs DEF ReplayFails, Exit
  <2>2. database' \in Databases
    <3>1. PICK i \in DOMAIN dumps :
              \/ UNCHANGED database
              \/ \E schema \in 0..dumps[i].of.schema :
                     database' = [schema |-> schema, data |-> "half"]
      BY DEF ReplayFails
    <3>2. dumps[i].of.schema \in 0..MaxRelease /\ database \in Databases
      BY DEF DeploymentInv, Shaped, DeploymentTypeOK, Databases
    <3> QED BY <3>1, <3>2, DeploymentAssumption DEF Databases
  <2>3. marks' \subseteq {"again", "adrift", "restored", "broken", "torn", "leapt"}
    BY DEF DeploymentInv, Shaped, DeploymentTypeOK, ReplayFails, Mark
  <2> QED BY <2>1, <2>2, <2>3 DEF DeploymentInv, Shaped, DeploymentTypeOK, ReplayFails
<1>2. Loaded'
  BY Records, NoScriptIs DEF DeploymentInv, ReplayFails, Exit, Loaded, Places, Fields
<1>3. ImagesAreKept'
  BY DEF DeploymentInv, ReplayFails, ImagesAreKept
<1>4. Renaming'
  BY NoScriptIs DEF ReplayFails, Exit, Renaming
<1>5. Recorded'
  BY NoScriptIs DEF DeploymentInv, ReplayFails, Running, Exit, Mark, Recorded, Whole, Untorn
<1>6. Serving'
  BY AllAre, DeploymentAssumption DEF DeploymentInv, ReplayFails, Running, Loaded, Serving
<1>7. Migrated'
  <2>1. \A c \in Containers : app'[c] <= database'.schema
    <3>1. database'.schema \in Nat
      BY DEF DeploymentInv, Shaped, DeploymentTypeOK, Databases, ReplayFails
    <3> QED BY <3>1, AllAre, DeploymentAssumption DEF DeploymentInv, ReplayFails, Running, Loaded
  <2> QED
    BY <2>1, NoScriptIs DEF DeploymentInv, ReplayFails, Running, Exit, Mark, Loaded, Migrated
<1> QED BY <1>1, <1>2, <1>3, <1>4, <1>5, <1>6, <1>7 DEF DeploymentInv

LEMMA RestartServicesKeeps ==
    ASSUME DeploymentInv, RestartServices
    PROVE  DeploymentInv'
<1>0. /\ script.op = "restore" /\ script.at = "start" /\ app = All(0) /\ script.tag = current.tag
      /\ script'.op = "none" /\ script'.at = "none" /\ script' \in Scripts
      /\ marks' = marks \ {"adrift"} /\ script.tag \in 0..MaxRelease
      /\ database.schema = script.tag
  BY NoScriptIs
     DEF DeploymentInv, Shaped, Scripts, Loaded, Migrated, RestartServices, Running, Exit
<1>a. /\ app' \in [Containers -> 0..MaxRelease]
      /\ \A c \in Containers : app'[c] \in {0, current.tag}
  <2>1. /\ app' \in [Containers -> 0..MaxRelease]
        /\ \A c \in Containers : app'[c] \in {app[c], 0, script.tag}
    BY <1>0, RecreatedAre DEF DeploymentInv, Shaped, DeploymentTypeOK, RestartServices
  <2> QED BY <1>0, <2>1, AllAre, DeploymentAssumption
<1>1. Shaped'
  BY <1>0, <1>a DEF DeploymentInv, RestartServices, Shaped, DeploymentTypeOK
<1>2. Loaded'
  BY Records, NoScriptIs DEF DeploymentInv, RestartServices, Exit, Loaded, Places, Fields
<1>3. ImagesAreKept'
  BY DEF DeploymentInv, RestartServices, ImagesAreKept
<1>4. Renaming'
  BY <1>0 DEF Renaming
<1>5. Recorded'
  BY <1>0 DEF DeploymentInv, RestartServices, Recorded, Whole, Untorn
<1>6. Serving'
  BY <1>0, <1>a DEF RestartServices, Serving
<1>7. Migrated'
  <2>1. \A c \in Containers : app'[c] <= database.schema
    BY <1>0, <1>a
  <2> QED BY <1>0, <2>1 DEF DeploymentInv, RestartServices, Migrated
<1> QED BY <1>1, <1>2, <1>3, <1>4, <1>5, <1>6, <1>7 DEF DeploymentInv

LEMMA KillKeeps ==
    ASSUME DeploymentInv, Kill
    PROVE  DeploymentInv'
<1>0. /\ app' \in [Containers -> 0..MaxRelease]
      /\ \/ app' = app
         \/ /\ script.at = "start" /\ \A c \in Containers : app'[c] \in {app[c], 0, script.tag}
         \/ /\ script.at = "return"
            /\ \A c \in Containers : app'[c] \in {app[c], 0, script.loaded.tag}
  <2>1. /\ app \in [Containers -> 0..MaxRelease] /\ script.tag \in 0..MaxRelease
        /\ script.loaded.tag \in 0..MaxRelease
    BY DEF DeploymentInv, Shaped, DeploymentTypeOK, Scripts, Fields
  <2>2. CASE script.at = "start"
    <3>1. app' \in Recreated(script.tag, images)
      BY <2>2 DEF Kill
    <3> QED BY <2>1, <2>2, <3>1, RecreatedAre
  <2>3. CASE script.at = "return"
    <3>1. app' \in Recreated(script.loaded.tag, images)
      BY <2>3 DEF Kill
    <3> QED BY <2>1, <2>3, <3>1, RecreatedAre
  <2>4. CASE script.at \notin {"start", "return"}
    BY <2>1, <2>4 DEF Kill
  <2> QED BY <2>2, <2>3, <2>4
<1>1. Shaped'
  <2>1. script' \in Scripts /\ script'.op = "none"
    BY NoScriptIs DEF Kill, Exit
  <2>3. marks' \subseteq {"again", "adrift", "restored", "broken", "torn", "leapt"}
    BY DEF DeploymentInv, Shaped, DeploymentTypeOK, Kill
  <2>4. kills' \in 0..MaxKills
    BY DeploymentAssumption DEF DeploymentInv, Shaped, DeploymentTypeOK, Kill
  <2> QED BY <1>0, <2>1, <2>3, <2>4 DEF DeploymentInv, Shaped, DeploymentTypeOK, Kill
<1>2. Loaded'
  BY Records, NoScriptIs DEF DeploymentInv, Kill, Exit, Loaded, Places, Fields
<1>3. ImagesAreKept'
  BY DEF DeploymentInv, Kill, ImagesAreKept
<1>4. Renaming'
  BY NoScriptIs DEF Kill, Exit, Renaming
<1>5. Recorded'
  <2>1. /\ script'.op = "none" /\ script'.at = "none" /\ marks \subseteq marks'
        /\ proven' = proven /\ current' = current /\ previous' = previous
        /\ "again" \notin marks' => "again" \notin marks
    BY NoScriptIs DEF Kill, Exit
  <2>2. "torn" \notin marks' =>
            Untorn /\ (script.at # "recording" \/ script.writes = <<>>)
    BY DEF Kill, Untorn
  <2>3. "torn" \notin marks' =>
            /\ Whole(current) /\ Whole(previous)
            /\ \/ script.at # "recording"
               \/ /\ current.tag = script.tag /\ previous.tag = script.loaded.tag
                  /\ script.op \in {"deploy", "rollback"}
    BY <2>2, WrittenOut DEF DeploymentInv, Recorded
  <2>4. "torn" \notin marks' => Whole(current)' /\ Whole(previous)'
    BY <2>1, <2>3 DEF Whole
  <2>5. ASSUME "torn" \notin marks', "again" \notin marks', current.tag # 0
        PROVE  current.tag # previous.tag
    BY <2>1, <2>2, <2>3, <2>5 DEF DeploymentInv, Recorded
  <2> QED BY <2>1, <2>4, <2>5 DEF Recorded, Untorn
<1>6. Serving'
  <2>1. "adrift" \notin marks' =>
            script.at \notin {"start", "return", "record", "recording"} /\ "adrift" \notin marks
    BY DEF Kill
  <2> QED BY <1>0, <2>1 DEF DeploymentInv, Kill, Serving
<1>7. Migrated'
  <2>1. /\ script'.op = "none" /\ script'.at = "none" /\ marks \subseteq marks'
        /\ database' = database /\ dumps' = dumps /\ current' = current /\ previous' = previous
        /\ "leapt" \in marks' => "leapt" \in marks
        /\ "broken" \in marks' <=> "broken" \in marks \/ Running("restore", "replay")
        /\ "restored" \in marks' <=> "restored" \in marks
    BY NoScriptIs DEF Kill, Exit
  <2>2. /\ script.at \in {"start", "return"} => database.schema = script.tag
        /\ script.at = "return" => script.loaded.tag <= script.tag
    BY DEF DeploymentInv, Migrated, Loaded, Places, Shaped, Scripts
  <2>3. /\ database.schema \in Nat /\ script.tag \in Nat /\ script.loaded.tag \in Nat
    BY DEF DeploymentInv, Shaped, DeploymentTypeOK, Databases, Scripts, Fields
  <2>4. script.at = "replay" => script.op = "restore"
    BY DEF DeploymentInv, Loaded, Places, Shaped, Scripts
  <2>5. script.op = "restore" => "restored" \in marks
    BY DEF DeploymentInv, Migrated
  <2>6. "leapt" \notin marks' => \A c \in Containers : app'[c] <= database.schema
    <3>1. "leapt" \notin marks' => \A c \in Containers : app[c] <= database.schema
      BY DEF DeploymentInv, Migrated, Kill
    <3> QED BY <1>0, <2>2, <2>3, <3>1
  <2>7. "broken" \notin marks' => /\ database.data = "whole"
                                 /\ \A i \in DOMAIN dumps : dumps[i].of.data = "whole"
    BY <2>1, <2>4 DEF DeploymentInv, Migrated, Running
  <2>8. "restored" \notin marks' =>
            current.tag <= database.schema /\ previous.tag <= database.schema
    BY <2>1 DEF DeploymentInv, Migrated
  <2>9. "broken" \in marks' => "restored" \in marks'
    BY <2>1, <2>5 DEF DeploymentInv, Migrated, Running
  <2> QED BY <2>1, <2>6, <2>7, <2>8, <2>9 DEF Migrated
<1> QED BY <1>1, <1>2, <1>3, <1>4, <1>5, <1>6, <1>7 DEF DeploymentInv


LEMMA StartReleaseKeeps ==
    ASSUME DeploymentInv, StartRelease
    PROVE  DeploymentInv'
<1>1. /\ Running("deploy", "start") /\ script \in Scripts /\ script.loaded = current
      /\ database.schema = script.tag
      /\ script.tag \in images /\ script.tag \in 1..MaxRelease
      /\ script.loaded.tag <= script.tag
  BY DEF DeploymentInv, Shaped, DeploymentTypeOK, Loaded, Migrated, StartRelease, Running,
         Releases
<1>a. /\ app' \in [Containers -> 0..MaxRelease]
      /\ "leapt" \notin marks => \A c \in Containers : app'[c] <= database.schema
  <2>1. script.tag \in 0..MaxRelease /\ app \in [Containers -> 0..MaxRelease]
    BY <1>1 DEF DeploymentInv, Shaped, DeploymentTypeOK
  <2>2. /\ app' \in [Containers -> 0..MaxRelease]
        /\ \A c \in Containers : app'[c] \in {app[c], 0, script.tag}
    BY <2>1, RecreatedAre DEF StartRelease
  <2> QED BY <1>1, <2>1, <2>2 DEF DeploymentInv, Migrated
<1>b. /\ marks' \subseteq marks \cup {"adrift"} /\ marks \subseteq marks' \cup {"adrift"}
      /\ "adrift" \notin marks' => app' = All(script.tag)
  BY DEF StartRelease, Sets
<1>2. CASE script' = [script EXCEPT !.at = "record", !.writes = SuccessWrites]
           /\ proven' = proven \cup {script.tag}
  <2>1. /\ script' \in Scripts /\ script'.op = "deploy" /\ script'.at = "record"
        /\ script'.tag = script.tag /\ script'.loaded = current
        /\ script'.writes = SuccessWrites
    BY <1>1, <1>2, SuccessWritesAre DEF Scripts, Running
  <2>2. /\ current' = current /\ previous' = previous /\ images' = images
        /\ database' = database /\ dumps' = dumps /\ taken' = taken /\ kills' = kills
    BY DEF StartRelease
  <2>3. Shaped'
    BY <1>1, <1>a, <1>b, <1>2, <2>1, <2>2 DEF DeploymentInv, Shaped, DeploymentTypeOK
  <2>4. Loaded'
    BY <1>1, <2>1, <2>2 DEF DeploymentInv, Loaded, Places, Running
  <2>5. ImagesAreKept'
    BY <2>2 DEF DeploymentInv, ImagesAreKept
  <2>6. Renaming'
    <3>1. script'.loaded.tag = 0 =>
              /\ previous' = NoRecord
              /\ \A i \in DOMAIN script'.writes : script'.writes[i].slot # "previous"
      BY <1>1, <2>1, <2>2, SuccessWritesAre DEF DeploymentInv, Loaded
    <3>2. \A i \in DOMAIN SuccessWrites : SuccessWrites[i] \in Writes
      BY <1>1, SuccessWritesAre
    <3>3. \A f \in Fields : f = "tag" \/ Untorn => current[f] = current.tag
      BY WholeHasOneRelease, <1>1
         DEF DeploymentInv, Shaped, DeploymentTypeOK, Recorded, Running
    <3>4. ASSUME NEW i \in DOMAIN SuccessWrites, SuccessWrites[i].field = "tag" \/ Untorn
          PROVE  SuccessWrites[i].to =
                     IF SuccessWrites[i].slot = "current" THEN script.tag ELSE current.tag
      <4>1. /\ SuccessWrites[i].slot \in Slots /\ SuccessWrites[i].field \in Fields
            /\ script.tag \in 0..MaxRelease
        BY <1>1, <3>2 DEF Writes
      <4>2. CASE SuccessWrites[i].slot = "current"
        BY <1>1, <4>1, <4>2, SuccessWritesAre, Records DEF Covers
      <4>3. CASE SuccessWrites[i].slot = "previous"
        <5>1. script.loaded.tag # 0
          BY <4>3, <1>1, SuccessWritesAre
        <5>2. SuccessWrites[i].to = current[SuccessWrites[i].field]
          BY <1>1, <4>3, <5>1, SuccessWritesAre DEF Covers
        <5> QED BY <4>1, <4>3, <5>2, <3>3, <3>4
      <4> QED BY <4>1, <4>2, <4>3 DEF Slots
    <3>5. \A slot \in Slots, f \in Fields :
              slot = "current" \/ script'.loaded.tag # 0 => Pending(slot, f)'
      BY <1>1, <2>1, SuccessWritesAre DEF Covers, Slots, Pending
    <3>6. "torn" \notin marks' => Untorn
      BY <1>b DEF Untorn
    <3>7. ASSUME NEW i \in DOMAIN SuccessWrites,
                 SuccessWrites[i].field = "tag" \/ "torn" \notin marks'
          PROVE  SuccessWrites[i].to =
                     IF SuccessWrites[i].slot = "current" THEN script.tag ELSE current.tag
      BY <3>4, <3>6, <3>7
    <3>8. /\ "adrift" \notin marks' => app' = All(script.tag)
          /\ current.tag \in {script'.loaded.tag, script.tag}
      BY <1>b, <2>1
    <3> QED BY <2>1, <2>2, <3>1, <3>5, <3>7, <3>8 DEF Renaming, Goal, Untorn
  <2>7. Recorded'
    <3>1. Untorn => /\ Whole(current)' /\ Whole(previous)'
                    /\ current.tag \in proven \cup {0}
      BY <1>1, <1>2, <2>2, Records
         DEF DeploymentInv, Shaped, DeploymentTypeOK, Recorded, Running, Whole, Releases, Fields
    <3> QED BY <1>1, <1>b, <1>2, <2>2, <3>1 DEF DeploymentInv, Recorded, Untorn, Running
  <2>8. Serving'
    BY <2>1 DEF Serving
  <2>9. Migrated'
    BY <1>1, <1>a, <1>b, <2>1, <2>2 DEF DeploymentInv, Migrated, Running
  <2> QED BY <2>3, <2>4, <2>5, <2>6, <2>7, <2>8, <2>9 DEF DeploymentInv
<1>3. CASE (IF script.loaded.tag = 0 THEN Exit ELSE GoOn("return")) /\ UNCHANGED proven
  <2>1. /\ script' \in Scripts
        /\ \/ current.tag = 0 /\ script' = NoScript
           \/ /\ current.tag # 0 /\ script'.op = "deploy" /\ script'.at = "return"
              /\ script'.tag = script.tag /\ script'.loaded = current
    BY <1>1, <1>3, NoScriptIs DEF Exit, GoOn, Running, Scripts
  <2>2. /\ current' = current /\ previous' = previous /\ images' = images
        /\ database' = database /\ dumps' = dumps /\ taken' = taken /\ kills' = kills
        /\ proven' = proven
    BY <1>3 DEF StartRelease
  <2>3. Shaped'
    BY <1>1, <1>a, <1>b, <2>1, <2>2, NoScriptIs DEF DeploymentInv, Shaped, DeploymentTypeOK
  <2>4. Loaded'
    BY <1>1, <2>1, <2>2, NoScriptIs, Records DEF DeploymentInv, Loaded, Places, Running, Fields
  <2>5. ImagesAreKept'
    BY <2>2 DEF DeploymentInv, ImagesAreKept
  <2>6. Renaming'
    BY <2>1, NoScriptIs DEF Renaming
  <2>7. Recorded'
    BY <1>1, <1>b, <2>1, <2>2, NoScriptIs DEF DeploymentInv, Recorded, Untorn, Whole, Running
  <2>8. Serving'
    <3>1. current.tag = 0 => current = NoRecord
      BY <1>1 DEF DeploymentInv, Loaded, Running, Complete, Fields
    <3> QED BY <2>1, <2>2, <3>1, NoScriptIs DEF Serving
  <2>9. Migrated'
    BY <1>1, <1>a, <1>b, <2>1, <2>2, NoScriptIs DEF DeploymentInv, Migrated, Running
  <2> QED BY <2>3, <2>4, <2>5, <2>6, <2>7, <2>8, <2>9 DEF DeploymentInv
<1> QED BY <1>2, <1>3 DEF StartRelease

LEMMA RollBackKeeps ==
    ASSUME DeploymentInv, RollBack
    PROVE  DeploymentInv'
<1>1. /\ script.op = "none" /\ script.at = "none" /\ script \in Scripts
      /\ current.tag \in 1..MaxRelease /\ previous.tag \in 1..MaxRelease
      /\ current \in [Fields -> 0..MaxRelease] /\ previous \in [Fields -> 0..MaxRelease]
      /\ previous.tag \in images /\ current.tag \in images
      /\ current.tag # 0 /\ previous.tag # 0
  BY DEF DeploymentInv, Shaped, DeploymentTypeOK, Loaded, Places, Complete, Fields, ImagesAreKept,
         RollBack
<1>2. /\ images \subseteq images' /\ images' \subseteq Releases
      /\ current' = current /\ previous' = previous /\ database' = database /\ dumps' = dumps
      /\ taken' = taken /\ kills' = kills /\ proven' = proven
  BY <1>1 DEF DeploymentInv, Shaped, DeploymentTypeOK, RollBack, Pulled
<1>3. /\ marks \subseteq marks' \cup {"adrift"} /\ marks' \subseteq marks \cup {"leapt", "adrift"}
      /\ "restored" \in marks => "leapt" \in marks'
  BY DEF RollBack, Leap
<1>a. /\ app' \in [Containers -> 0..MaxRelease]
      /\ \A c \in Containers : app'[c] \in {app[c], 0, previous.tag}
  <2>1. app \in [Containers -> 0..MaxRelease] /\ previous.tag \in 0..MaxRelease
    BY <1>1 DEF DeploymentInv, Shaped, DeploymentTypeOK
  <2>2. app' = All(previous.tag) \/ app' \in InTurn(previous.tag, images')
    BY DEF RollBack
  <2> QED BY <2>1, <2>2, AllAre, RecreatedAre
<1>4. "leapt" \notin marks' => \A c \in Containers : app'[c] <= database.schema
  <2>2. "leapt" \notin marks' => "leapt" \notin marks /\ "restored" \notin marks
    BY <1>3
  <2>3. "restored" \notin marks => previous.tag <= database.schema
    BY <1>1 DEF DeploymentInv, Migrated
  <2>4. database.schema \in Nat
    BY DEF DeploymentInv, Shaped, DeploymentTypeOK, Databases
  <2> QED BY <1>a, <2>2, <2>3, <2>4 DEF DeploymentInv, Migrated
<1>5. ImagesAreKept'
  BY <1>2 DEF DeploymentInv, ImagesAreKept
<1>6. CASE UNCHANGED script /\ marks' = marks \cup Leap \cup {"adrift"}
  <2>1. Shaped'
    <3>2. marks' \subseteq {"again", "adrift", "restored", "broken", "torn", "leapt"}
      BY <1>3 DEF DeploymentInv, Shaped, DeploymentTypeOK
    <3> QED BY <1>2, <1>6, <1>a, <3>2 DEF DeploymentInv, Shaped, DeploymentTypeOK
  <2>2. Loaded'
    BY <1>1, <1>2, <1>6 DEF DeploymentInv, Loaded, Places
  <2>3. Renaming' /\ Serving'
    BY <1>1, <1>6 DEF Renaming, Serving
  <2>4. Recorded'
    BY <1>2, <1>6 DEF DeploymentInv, Recorded, Whole, Untorn
  <2>5. Migrated'
    BY <1>2, <1>3, <1>4, <1>6 DEF DeploymentInv, Migrated
  <2> QED BY <1>5, <2>1, <2>2, <2>3, <2>4, <2>5 DEF DeploymentInv
<1> DEFINE w == Files("current", previous) \o Files("previous", current)
<1>7. CASE /\ app' = All(previous.tag)
           /\ script' = [NoScript EXCEPT
                !.op = "rollback", !.at = "record", !.tag = previous.tag, !.loaded = current,
                !.writes = w]
           /\ marks' = (marks \ {"adrift"}) \cup Leap
  <2>1. /\ w \in Seq(Writes) /\ Covers(w, "current", previous) /\ Covers(w, "previous", current)
    BY <1>1, TwoFiles DEF Slots
  <2> HIDE DEF w
  <2>2. script' \in Scripts
    <3>1. previous.tag \in 0..MaxRelease
      BY <1>1
    <3> QED BY <1>1, <1>7, <2>1, <3>1, NoScriptIs DEF Scripts
  <2>3. /\ script'.op = "rollback" /\ script'.at = "record" /\ script'.tag = previous.tag
        /\ script'.loaded = current /\ script'.writes = w
    BY <1>7, NoScriptIs DEF Scripts
  <2>4. Shaped'
    <3>1. marks' \subseteq {"again", "adrift", "restored", "broken", "torn", "leapt"}
      BY <1>3 DEF DeploymentInv, Shaped, DeploymentTypeOK
    <3> QED BY <1>1, <1>2, <1>a, <2>2, <2>3, <3>1 DEF DeploymentInv, Shaped, DeploymentTypeOK
  <2>5. Loaded'
    BY <1>1, <1>2, <2>3 DEF DeploymentInv, Loaded, Places
  <2>6. Renaming'
    <3>1. \A i \in DOMAIN w : w[i].slot \in Slots /\ w[i].field \in Fields
      <4>1. \A i \in DOMAIN w : w[i] \in Writes
        BY <2>1
      <4> QED BY <4>1 DEF Writes
    <3>2. \A f \in Fields : f = "tag" \/ Untorn =>
              current[f] = current.tag /\ previous[f] = previous.tag
      BY <1>1, WholeHasOneRelease DEF DeploymentInv, Recorded
    <3>3. ASSUME NEW i \in DOMAIN w, w[i].field = "tag" \/ Untorn
          PROVE  w[i].to = IF w[i].slot = "current" THEN previous.tag ELSE current.tag
      BY <2>1, <3>1, <3>2, <3>3 DEF Covers, Slots
    <3>4. \A slot \in Slots, f \in Fields : Pending(slot, f)'
      BY <2>1, <2>3 DEF Covers, Slots, Pending
    <3>5. "torn" \notin marks' => Untorn
      BY <1>3 DEF Untorn
    <3>6. ASSUME NEW i \in DOMAIN w, w[i].field = "tag" \/ "torn" \notin marks'
          PROVE  w[i].to = IF w[i].slot = "current" THEN previous.tag ELSE current.tag
      BY <3>3, <3>5, <3>6
    <3> QED BY <1>1, <1>2, <1>7, <2>3, <3>4, <3>6 DEF Renaming, Goal, Untorn
  <2>7. Recorded'
    <3>1. Untorn => current.tag \in proven /\ previous.tag \in proven
      <4>1. "tag" \in Fields /\ proven \subseteq 0..MaxRelease
        BY DEF Fields, DeploymentInv, Shaped, DeploymentTypeOK, Releases
      <4>2. Untorn => Whole(current) /\ Whole(previous)
        BY <1>1 DEF DeploymentInv, Recorded
      <4> QED BY <1>1, <4>1, <4>2, Records DEF Whole
    <3> QED
      BY <1>1, <1>2, <1>7, <3>1 DEF DeploymentInv, Recorded, Whole, Untorn
  <2>8. Serving'
    BY <2>3 DEF Serving
  <2>9. Migrated'
    <3>1. /\ "broken" \in marks' <=> "broken" \in marks
          /\ "restored" \in marks' <=> "restored" \in marks
      BY <1>7 DEF Leap
    <3> QED BY <1>1, <1>2, <1>4, <2>3, <3>1 DEF DeploymentInv, Migrated
  <2> QED BY <1>5, <2>4, <2>5, <2>6, <2>7, <2>8, <2>9 DEF DeploymentInv
<1> QED BY <1>6, <1>7 DEF RollBack

\* One file: what it holds, and what is left to write.
LEMMA WriteFileMoves ==
    ASSUME DeploymentInv, WriteFile, NEW w, w = Head(script.writes)
    PROVE  /\ script \in Scripts /\ script.op \in {"deploy", "rollback"}
           /\ script.at \in {"record", "recording"} /\ w \in Writes
           /\ script' = [script EXCEPT !.at = "recording", !.writes = Tail(script.writes)]
           /\ script' \in Scripts
           /\ current' \in [Fields -> 0..MaxRelease] /\ previous' \in [Fields -> 0..MaxRelease]
           /\ \A slot \in Slots, f \in Fields :
                  InSlot(slot)'[f] =
                      IF slot = w.slot /\ f = w.field THEN w.to ELSE InSlot(slot)[f]
           /\ w.field = "tag" \/ Untorn => w.to = Goal(w.slot)
           /\ \A i \in DOMAIN script'.writes :
                  \E j \in DOMAIN script.writes : script'.writes[i] = script.writes[j]
           /\ \A slot \in Slots, f \in Fields :
                  Pending(slot, f) => Pending(slot, f)' \/ (slot = w.slot /\ f = w.field)
           /\ script.loaded.tag = 0 => w.slot = "current"
<1>1. /\ script \in Scripts /\ script.writes \in Seq(Writes) /\ script.writes # <<>>
      /\ script.at \in {"record", "recording"} /\ script.op \in {"deploy", "rollback"}
  BY DEF DeploymentInv, Shaped, Scripts, Loaded, Places, WriteFile
<1>2. /\ w \in Writes /\ Tail(script.writes) \in Seq(Writes)
      /\ Len(Tail(script.writes)) = Len(script.writes) - 1
      /\ \A i \in 1..Len(Tail(script.writes)) : Tail(script.writes)[i] = script.writes[i + 1]
  BY <1>1, HeadTailProperties
<1>3. w = script.writes[1] /\ 1 \in DOMAIN script.writes
  BY <1>1
<1>4. /\ script' = [script EXCEPT !.at = "recording", !.writes = Tail(script.writes)]
      /\ script' \in Scripts /\ script'.writes = Tail(script.writes)
  BY <1>1, <1>2 DEF WriteFile, Scripts
<1>5. /\ w.slot \in Slots /\ w.field \in Fields /\ w.to \in 0..MaxRelease
      /\ current \in [Fields -> 0..MaxRelease] /\ previous \in [Fields -> 0..MaxRelease]
  BY <1>2 DEF Writes, DeploymentInv, Shaped, DeploymentTypeOK
<1>6. /\ current' = IF w.slot = "current" THEN [current EXCEPT ![w.field] = w.to] ELSE current
      /\ previous' = IF w.slot = "current" THEN previous ELSE [previous EXCEPT ![w.field] = w.to]
  BY DEF WriteFile
<1>7. /\ current' \in [Fields -> 0..MaxRelease] /\ previous' \in [Fields -> 0..MaxRelease]
  BY <1>5, <1>6
<1>8. ASSUME NEW slot \in Slots, NEW f \in Fields
      PROVE  InSlot(slot)'[f] =
                 IF slot = w.slot /\ f = w.field THEN w.to ELSE InSlot(slot)[f]
  BY <1>5, <1>6 DEF Slots, InSlot
<1>9. /\ w.field = "tag" \/ Untorn => w.to = Goal(w.slot)
      /\ script.loaded.tag = 0 => w.slot # "previous"
  BY <1>1, <1>3 DEF DeploymentInv, Renaming
<1>10. \A i \in DOMAIN script'.writes :
           i + 1 \in DOMAIN script.writes /\ script'.writes[i] = script.writes[i + 1]
  BY <1>1, <1>2, <1>4
<1>11. ASSUME NEW slot \in Slots, NEW f \in Fields, Pending(slot, f),
              ~(slot = w.slot /\ f = w.field)
       PROVE  Pending(slot, f)'
  <2>1. PICK i \in DOMAIN script.writes : script.writes[i].slot = slot /\ script.writes[i].field = f
    BY <1>11 DEF Pending
  <2>2. i # 1
    BY <2>1, <1>3, <1>11
  <2>3. i - 1 \in DOMAIN script'.writes /\ script'.writes[i - 1] = script.writes[i]
    BY <1>1, <1>2, <1>4, <2>2
  <2> QED BY <2>1, <2>3 DEF Pending
<1> QED BY <1>1, <1>2, <1>4, <1>5, <1>7, <1>8, <1>9, <1>10, <1>11 DEF Slots

LEMMA WriteFileKeeps ==
    ASSUME DeploymentInv, WriteFile
    PROVE  DeploymentInv'
<1> DEFINE w == Head(script.writes)
<1>1. /\ script \in Scripts /\ script.op \in {"deploy", "rollback"}
      /\ script.at \in {"record", "recording"} /\ w \in Writes
      /\ script' = [script EXCEPT !.at = "recording", !.writes = Tail(script.writes)]
      /\ script' \in Scripts
      /\ current' \in [Fields -> 0..MaxRelease] /\ previous' \in [Fields -> 0..MaxRelease]
      /\ w.field = "tag" \/ Untorn => w.to = Goal(w.slot)
      /\ script.loaded.tag = 0 => w.slot = "current"
  BY WriteFileMoves
<1>2. \A slot \in Slots, f \in Fields :
          InSlot(slot)'[f] = IF slot = w.slot /\ f = w.field THEN w.to ELSE InSlot(slot)[f]
  BY WriteFileMoves
<1>3. /\ \A i \in DOMAIN script'.writes :
             \E j \in DOMAIN script.writes : script'.writes[i] = script.writes[j]
      /\ \A slot \in Slots, f \in Fields :
             Pending(slot, f) => Pending(slot, f)' \/ (slot = w.slot /\ f = w.field)
  BY WriteFileMoves
<1> HIDE DEF w
<1>4. /\ app' = app /\ images' = images /\ database' = database /\ dumps' = dumps
      /\ taken' = taken /\ kills' = kills /\ proven' = proven /\ marks' = marks
  BY DEF WriteFile
<1>5. /\ script'.op = script.op /\ script'.at = "recording" /\ script'.tag = script.tag
      /\ script'.loaded = script.loaded
  BY <1>1 DEF Scripts
<1>6. /\ current.tag' \in {script.loaded.tag, script.tag}
      /\ previous.tag' \in {previous.tag, script.loaded.tag}
  <2>1. "tag" \in Fields /\ "current" \in Slots /\ "previous" \in Slots
    BY DEF Fields, Slots
  <2>2. current.tag \in {script.loaded.tag, script.tag}
    BY <1>1 DEF DeploymentInv, Renaming
  <2> QED BY <1>1, <1>2, <2>1, <2>2 DEF InSlot, Goal
<1>7. script.loaded.tag = 0 => previous = NoRecord /\ previous' = NoRecord
  BY <1>1 DEF DeploymentInv, Renaming, WriteFile, w
<1>8. /\ script.tag \in images /\ script.tag # 0 /\ script.loaded.tag \in images \cup {0}
  BY <1>1 DEF DeploymentInv, Loaded, Shaped, DeploymentTypeOK, Releases
<1>9. Shaped'
  BY <1>1, <1>4 DEF DeploymentInv, Shaped, DeploymentTypeOK
<1>10. Loaded'
  BY <1>1, <1>4, <1>6, <1>7, <1>8 DEF DeploymentInv, Loaded, Places
<1>11. ImagesAreKept'
  BY <1>4, <1>6, <1>8 DEF DeploymentInv, ImagesAreKept
<1>12. Renaming'
  <2>1. \A i \in DOMAIN script'.writes :
            /\ script.loaded.tag = 0 => script'.writes[i].slot # "previous"
            /\ script'.writes[i].field = "tag" \/ Untorn =>
                   script'.writes[i].to = Goal(script'.writes[i].slot)
    BY <1>1, <1>3 DEF DeploymentInv, Renaming
  <2>2. ASSUME NEW slot \in Slots, NEW f \in Fields,
               slot = "current" \/ script.loaded.tag # 0, f = "tag" \/ Untorn
        PROVE  Pending(slot, f)' \/ InSlot(slot)'[f] = Goal(slot)
    <3>1. Pending(slot, f) \/ InSlot(slot)[f] = Goal(slot)
      BY <1>1, <2>2 DEF DeploymentInv, Renaming
    <3> QED BY <1>1, <1>2, <1>3, <2>2, <3>1
  <2>3. \A slot : Goal(slot)' = Goal(slot)
    BY <1>5 DEF Goal
  <2>4. "adrift" \notin marks' => app' = All(script'.tag)
    BY <1>1, <1>4, <1>5 DEF DeploymentInv, Renaming
  <2>5. Untorn' = Untorn
    BY <1>4 DEF Untorn
  <2> HIDE DEF w
  <2> QED BY <1>5, <1>6, <1>7, <2>1, <2>2, <2>3, <2>4, <2>5 DEF Renaming
<1>13. Recorded'
  BY <1>1, <1>4, <1>5 DEF DeploymentInv, Recorded, Untorn
<1>14. Serving'
  BY <1>5 DEF Serving
<1>15. Migrated'
  BY <1>1, <1>4, <1>5, <1>6 DEF DeploymentInv, Migrated
<1> QED BY <1>9, <1>10, <1>11, <1>12, <1>13, <1>14, <1>15 DEF DeploymentInv

-----------------------------------------------------------------------------
LEMMA DeploymentInvHolds ==
    DeploymentSpec => []DeploymentInv
<1>1. DeploymentInit => DeploymentInv
  <2> SUFFICES ASSUME DeploymentInit
               PROVE  DeploymentInv
    OBVIOUS
  <2>1. <<>> \in Seq(Dumps) /\ Len(<<>>) = 0
    BY EmptySeq
  <2>2. Shaped
    BY NoScriptIs, Records, AllAre, DeploymentAssumption
       DEF DeploymentInit, Shaped, DeploymentTypeOK, Databases
  <2>3. Loaded /\ ImagesAreKept
    BY NoScriptIs, Records DEF DeploymentInit, Loaded, Places, ImagesAreKept, Fields
  <2>4. Renaming /\ Serving
    BY NoScriptIs DEF DeploymentInit, Renaming, Serving
  <2>5. Recorded
    BY NoScriptIs, Records DEF DeploymentInit, Recorded, Whole, Fields
  <2>6. Migrated
    BY NoScriptIs, Records, AllAre, DeploymentAssumption DEF DeploymentInit, Migrated, Fields
  <2> QED BY <2>2, <2>3, <2>4, <2>5, <2>6 DEF DeploymentInv
<1>2. DeploymentInv /\ [DeploymentNext]_deploymentVars => DeploymentInv'
  <2>1. ASSUME DeploymentInv, DeploymentNext
        PROVE  DeploymentInv'
    BY <2>1, BeginDeploymentKeeps, TakeBackupKeeps, BackupFailsKeeps, MigrateKeeps,
       MigrationFailsKeeps, StartReleaseKeeps, ReturnToCurrentKeeps, WriteFileKeeps,
       FinishKeeps, RollBackKeeps, BeginRestoreKeeps, RefuseDumpKeeps, DropObjectsKeeps,
       DropFailsKeeps, ReplayKeeps, ReplayFailsKeeps, RestartServicesKeeps, KillKeeps
       DEF DeploymentNext
  <2>2. ASSUME DeploymentInv, UNCHANGED deploymentVars
        PROVE  DeploymentInv'
    BY <2>2 DEF deploymentVars, DeploymentInv, Shaped, DeploymentTypeOK, Loaded, ImagesAreKept,
                Renaming, Pending, Goal, InSlot, Recorded, Whole, Untorn, Serving, Migrated
  <2> QED BY <2>1, <2>2
<1> QED BY <1>1, <1>2, PTL DEF DeploymentSpec

\* The kinds of what the scripts keep, of every number of releases and backups
\* (deploy.sh, restore-database.sh).
THEOREM DeploymentTypes ==
    DeploymentSpec => []DeploymentTypeOK
<1>1. DeploymentInv => DeploymentTypeOK
  BY DEF DeploymentInv, Shaped
<1> QED BY <1>1, DeploymentInvHolds, PTL

\* The releases of the server stay sound: the records whole, the images of both
\* kept, the containers those recorded, the database ready for what runs on it,
\* and a rollback away from the release it leaves (deploy.sh, restore-database.sh).
THEOREM SoundReleases ==
    DeploymentSpec => []ReleasesAreSound
<1>1. ASSUME DeploymentInv
      PROVE  ReleasesAreSound
  <2>1. script \in Scripts /\ database.schema \in Nat /\ "api" \in Containers
    BY <1>1, DeploymentAssumption DEF DeploymentInv, Shaped, DeploymentTypeOK, Databases
  <2>2. script.op = "none" => script.at = "none"
    BY <1>1 DEF DeploymentInv, Loaded, Places
  <2>3. RecordsAreWhole
    BY <1>1, <2>2 DEF RecordsAreWhole, DeploymentInv, Recorded, Untorn, Whole
  <2>4. ContainersAreRecorded
    BY <1>1, <2>2 DEF ContainersAreRecorded, DeploymentInv, Serving
  <2>5. DatabaseIsReady
    <3>1. script.at = "replay" => app["api"] = 0
      BY <1>1, <2>1, AllAre, DeploymentAssumption DEF DeploymentInv, Loaded, Places, Scripts
    <3> QED BY <1>1, <2>1, <3>1 DEF DatabaseIsReady, DeploymentInv, Migrated
  <2>6. RollbackMovesOn
    BY <1>1 DEF RollbackMovesOn, DeploymentInv, Recorded, Untorn
  <2> QED BY <1>1, <2>3, <2>4, <2>5, <2>6 DEF ReleasesAreSound, DeploymentInv
<1> QED BY <1>1, DeploymentInvHolds, PTL
=============================================================================
