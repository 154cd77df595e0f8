---------------------------- MODULE Deployment ----------------------------
(***************************************************************************)
(* The releases of the production server: deploy.sh and its --rollback,    *)
(* restore-database.sh, and the scripts of packages/db they run, as the    *)
(* workflows start them.  One script runs at a time (flock), and may be    *)
(* killed between any two of its steps.                                    *)
(*                                                                         *)
(* Abstracted: a release is the number of its commit in the history of     *)
(* main and stands for its tag, its environment file, its manifest and     *)
(* the last migration its image knows; 0 is none.  Checks of arguments,    *)
(* memory and disk precede every change and are left out.  Whether a       *)
(* container is recreated, and healthy then, is a choice.  The containers  *)
(* are those of the release; redis has an image of its own.                *)
(***************************************************************************)
EXTENDS Integers, Sequences, FiniteSets

CONSTANTS Containers,    \* what is recreated of a release: api, web, admin
          MaxRelease,    \* bound: releases
          Retention,     \* BACKUP_RETENTION_COUNT
          MaxBackups,    \* bound: backups taken
          MaxKills       \* bound: scripts that are killed

ASSUME DeploymentAssumption ==
    /\ MaxRelease \in Nat \ {0} /\ MaxBackups \in Nat /\ MaxKills \in Nat
    /\ Retention \in Nat /\ Retention >= 2
    /\ {"api", "web"} \subseteq Containers

VARIABLES current,     \* .env, .compose.yml and .current-tag
          previous,    \* .previous.env, .previous.compose.yml and .previous-tag
          app,         \* the release of each container, 0 when it is stopped
          database,    \* the last migration applied, and what there is of the data
          dumps,       \* deploy/backups, oldest first
          images,      \* the releases whose images are on the server
          script,      \* the script that holds .deploy.lock, and where it is
          taken, kills,
          proven,      \* history: releases that once passed the last check of a start
          marks        \* history: what has happened that undoes a promise

deploymentVars == <<current, previous, app, database, dumps, images, script, taken, kills,
                    proven, marks>>

Releases == 1..MaxRelease
Fields == {"env", "manifest", "tag"}
Record(r) == [f \in Fields |-> r]
NoRecord == Record(0)
All(r) == [c \in Containers |-> r]
NoScript == [op |-> "none", at |-> "none", tag |-> 0, loaded |-> NoRecord, chosen |-> 0,
             writes |-> <<>>]

DeploymentInit ==
    /\ current = NoRecord /\ previous = NoRecord
    /\ app = All(0)
    /\ database = [schema |-> 0, data |-> "whole"]
    /\ dumps = <<>> /\ images = {} /\ script = NoScript
    /\ taken = 0 /\ kills = 0 /\ proven = {} /\ marks = {}

Running(op, at) == script.op = op /\ script.at = at
GoOn(at) == script' = [script EXCEPT !.at = at]
Exit == script' = NoScript
Mark(m, when) == marks' = IF when THEN marks \cup {m} ELSE marks

\* Every file of a record is there.
Complete(record) == \A f \in Fields : record[f] # 0

\* A command on the containers may fail at each of them: one keeps the release
\* it had, is stopped, or has the new one.
Between(r) ==
    {f \in [Containers -> 0..MaxRelease] : \A c \in Containers : f[c] \in {app[c], 0, r}}
Recreated(r, here) == IF r \in here THEN Between(r) ELSE {app}

\* With errexit on, the first command that fails is the last: web and admin are
\* not touched before the API is the new one.
InTurn(r, here) ==
    {f \in Recreated(r, here) :
        f["api"] = r \/ \A c \in Containers \ {"api"} : f[c] = app[c]}

\* History: adrift from a start that did not recreate every container, whatever
\* the script made of it, to one that did.
Sets(r) == marks' = IF app' = All(r) THEN marks \ {"adrift"} ELSE marks \cup {"adrift"}

-----------------------------------------------------------------------------
\* deploy.sh of the commit the workflow was started for, which is the newest of
\* main: a record of which a part is missing ends it (load_current_state).
BeginDeployment(r) ==
    /\ script.op = "none"
    /\ Complete(current) \/ current = NoRecord
    /\ \A q \in images \cup {current.tag} : q <= r
    /\ images' = images \cup {r}
    /\ script' = [NoScript EXCEPT !.op = "deploy", !.at = "backup", !.tag = r,
                  !.loaded = current]
    /\ Mark("again", r = current.tag)
    /\ UNCHANGED <<current, previous, app, database, dumps, taken, kills, proven>>

\* backup-database.cjs dumps the database and then drops the oldest dumps.
Rotated(all) == IF Len(all) > Retention THEN Tail(all) ELSE all

TakeBackup ==
    /\ script.at = "backup" /\ taken < MaxBackups
    /\ taken' = taken + 1
    /\ dumps' = Rotated(Append(dumps, [id |-> taken + 1, of |-> database]))
    /\ GoOn(IF script.op = "deploy" THEN "migrate" ELSE "import")
    /\ UNCHANGED <<current, previous, app, database, images, kills, proven, marks>>

\* A deployment ends before it has changed a thing, a restore with its services stopped.
BackupFails ==
    /\ script.at = "backup"
    /\ Exit
    /\ UNCHANGED <<current, previous, app, database, dumps, images, taken, kills, proven,
                   marks>>

\* prepare-baseline-database.cjs lets a database pass that is empty or whose
\* journal is a prefix of the image's, and not one with tables but no journal,
\* as one half dropped, half imported or half set up may be.
MayMigrate ==
    /\ database.schema <= script.tag
    /\ database.data \in {"half", "bare"} => database.schema # 0

\* What the migrations make of a database: one that was empty has no data.
MigratedTo(schema) ==
    database' = [schema |-> schema,
                 data |-> IF database.data = "empty" THEN "bare" ELSE database.data]

Migrate ==
    /\ script.at = "migrate" /\ MayMigrate
    /\ MigratedTo(script.tag)
    /\ GoOn("start")
    /\ UNCHANGED <<current, previous, app, dumps, images, taken, kills, proven, marks>>

\* The migration is refused or breaks off, with some of the migrations applied
\* (DDL is not transactional), and the script exits.
MigrationFails ==
    /\ script.at = "migrate"
    /\ \/ UNCHANGED database
       \/ MayMigrate /\ \E schema \in database.schema..script.tag : MigratedTo(schema)
    /\ Exit
    /\ UNCHANGED <<current, previous, app, dumps, images, taken, kills, proven, marks>>

-----------------------------------------------------------------------------
\* The files of a release, one rename at a time.
Files(slot, record) == <<[slot |-> slot, field |-> "env", to |-> record.env],
                         [slot |-> slot, field |-> "manifest", to |-> record.manifest],
                         [slot |-> slot, field |-> "tag", to |-> record.tag]>>

\* persist_success_state.
SuccessWrites ==
    (IF script.loaded.tag = 0 THEN <<>> ELSE Files("previous", script.loaded))
        \o Files("current", Record(script.tag))

\* Slip: the result of start_application is not asked for.
MutantStartRelease ==
    /\ Running("deploy", "start")
    /\ app' \in Recreated(script.tag, images) /\ Sets(script.tag)
    /\ script' = [script EXCEPT !.at = "record", !.writes = SuccessWrites]
    /\ proven' \in {proven, proven \cup {script.tag}}
    /\ UNCHANGED <<current, previous, database, dumps, images, taken, kills>>

\* start_application as the condition of an if: errexit is off inside it, so that
\* a container that is not recreated, or not healthy, is passed over.  Only the
\* last command decides, which asks whatever API runs through whatever web.
StartRelease ==
    /\ Running("deploy", "start")
    /\ app' \in Recreated(script.tag, images) /\ Sets(script.tag)
    /\ \/ /\ app'["api"] # 0 /\ app'["web"] # 0
          /\ script' = [script EXCEPT !.at = "record", !.writes = SuccessWrites]
          /\ proven' = proven \cup {script.tag}
       \/ /\ IF script.loaded.tag = 0 THEN Exit ELSE GoOn("return")
          /\ UNCHANGED proven
    /\ UNCHANGED <<current, previous, database, dumps, images, taken, kills>>

\* The images of a release to be restored: from the registry or, should that
\* fail, those on the server.
Pulled(r) == {images, images \cup {r}}

\* restore_application after a failed start, with errexit off (|| true): what of
\* it fails is passed over too.
ReturnToCurrent ==
    /\ Running("deploy", "return")
    /\ images' \in Pulled(script.loaded.tag)
    /\ app' \in Recreated(script.loaded.tag, images') /\ Sets(script.loaded.tag)
    /\ Exit
    /\ UNCHANGED <<current, previous, database, dumps, taken, kills, proven>>

WriteFile ==
    /\ script.at \in {"record", "recording"} /\ script.writes # <<>>
    /\ LET w == Head(script.writes)
       IN  IF w.slot = "current"
             THEN current' = [current EXCEPT ![w.field] = w.to] /\ UNCHANGED previous
             ELSE previous' = [previous EXCEPT ![w.field] = w.to] /\ UNCHANGED current
    /\ script' = [script EXCEPT !.at = "recording", !.writes = Tail(@)]
    /\ UNCHANGED <<app, database, dumps, images, taken, kills, proven, marks>>

\* cleanup_old_images ends a deployment, and an image it cannot remove stays (|| true);
\* a rollback keeps them all.
Finish ==
    /\ script.at = "recording" /\ script.writes = <<>>
    /\ \/ script.op = "rollback" /\ UNCHANGED images
       \/ /\ script.op = "deploy" /\ images' \in SUBSET images
          /\ images \cap {script.tag, script.loaded.tag} \subseteq images'
    /\ Exit
    /\ UNCHANGED <<current, previous, app, database, dumps, taken, kills, proven, marks>>

-----------------------------------------------------------------------------
Leap == IF "restored" \in marks THEN {"leapt"} ELSE {}

\* deploy.sh --rollback, by the workflow after a failed smoke test or by hand:
\* every check of the start counts, and the two records change places.
RollBack ==
    /\ script.op = "none" /\ Complete(current) /\ Complete(previous)
    /\ images' \in Pulled(previous.tag)
    /\ \/ /\ previous.tag \in images'
          /\ app' = All(previous.tag)
          /\ script' = [NoScript EXCEPT
                        !.op = "rollback", !.at = "record", !.tag = previous.tag, !.loaded = current,
                        !.writes = Files("current", previous) \o Files("previous", current)]
          /\ marks' = (marks \ {"adrift"}) \cup Leap
       \/ /\ app' \in InTurn(previous.tag, images')
          /\ UNCHANGED script
          /\ marks' = marks \cup Leap \cup {"adrift"}
    /\ UNCHANGED <<current, previous, database, dumps, taken, kills, proven>>

\* restore-database.sh of a chosen dump: the services are stopped first, and if
\* one does not stop the script ends.
BeginRestore(i) ==
    /\ script.op = "none" /\ Complete(current) /\ i \in DOMAIN dumps
    /\ \/ /\ app' = All(0)
          /\ script' = [NoScript EXCEPT !.op = "restore", !.at = "backup", !.tag = current.tag,
                        !.loaded = current, !.chosen = dumps[i].id]
          /\ Mark("restored", TRUE)
       \/ app' \in Between(0) /\ UNCHANGED <<script, marks>>
    /\ UNCHANGED <<current, previous, database, dumps, images, taken, kills, proven>>

\* restore-database.cjs: a dump that is gone or does not match its checksum is
\* refused before anything is dropped, as is any when MySQL does not answer.
RefuseDump ==
    /\ Running("restore", "import")
    /\ Exit
    /\ UNCHANGED <<current, previous, app, database, dumps, images, taken, kills, proven,
                   marks>>

\* Every object is dropped, and then the statements of the dump are replayed.
DropObjects ==
    /\ Running("restore", "import")
    /\ \E i \in DOMAIN dumps : dumps[i].id = script.chosen
    /\ database' = [schema |-> 0, data |-> "empty"]
    /\ GoOn("replay")
    /\ UNCHANGED <<current, previous, app, dumps, images, taken, kills, proven, marks>>

\* Some objects are dropped, the journal among them or not.
DropFails ==
    /\ Running("restore", "import")
    /\ \E i \in DOMAIN dumps : dumps[i].id = script.chosen
    /\ \E schema \in {0, database.schema} : database' = [schema |-> schema, data |-> "half"]
    /\ Exit /\ Mark("broken", TRUE)
    /\ UNCHANGED <<current, previous, app, dumps, images, taken, kills, proven>>

Replay ==
    /\ Running("restore", "replay")
    /\ \E i \in DOMAIN dumps : dumps[i].id = script.chosen /\ database' = dumps[i].of
    /\ GoOn("migrate")
    /\ UNCHANGED <<current, previous, app, dumps, images, taken, kills, proven, marks>>

ReplayFails ==
    /\ Running("restore", "replay")
    /\ \E i \in DOMAIN dumps :
           /\ dumps[i].id = script.chosen
           /\ \/ UNCHANGED database
              \/ \E schema \in 0..dumps[i].of.schema :
                     database' = [schema |-> schema, data |-> "half"]
    /\ Exit /\ Mark("broken", TRUE)
    /\ UNCHANGED <<current, previous, app, dumps, images, taken, kills, proven>>

\* The services of the current release again; a command that fails ends the
\* script, with some of them still stopped.
RestartServices ==
    /\ Running("restore", "start")
    /\ app' \in InTurn(script.tag, images)
    /\ Exit /\ marks' = marks \ {"adrift"}
    /\ UNCHANGED <<current, previous, database, dumps, images, taken, kills, proven>>

-----------------------------------------------------------------------------
\* The script is killed: a step in which containers are recreated may be half
\* done.  DropFails and ReplayFails stand for a kill amid them too.
Kill ==
    /\ script.op # "none" /\ kills < MaxKills
    /\ kills' = kills + 1
    /\ CASE script.at = "start" -> app' \in Recreated(script.tag, images)
         [] script.at = "return" -> app' \in Recreated(script.loaded.tag, images)
         [] OTHER -> UNCHANGED app
    /\ marks' = marks
                  \cup {m \in {"adrift"} : script.at \in {"start", "return", "record", "recording"}}
                  \cup {m \in {"torn"} : script.at = "recording" /\ script.writes # <<>>}
                  \cup {m \in {"broken"} : Running("restore", "replay")}
    /\ Exit
    /\ UNCHANGED <<current, previous, database, dumps, images, taken, proven>>

DeploymentNext ==
    \/ \E r \in Releases : BeginDeployment(r)
    \/ TakeBackup \/ BackupFails \/ Migrate \/ MigrationFails
    \/ StartRelease \/ ReturnToCurrent \/ WriteFile \/ Finish
    \/ RollBack
    \/ \E i \in 1..Retention : BeginRestore(i)
    \/ RefuseDump \/ DropObjects \/ DropFails \/ Replay \/ ReplayFails \/ RestartServices
    \/ Kill

DeploymentSpec == DeploymentInit /\ [][DeploymentNext]_deploymentVars

-----------------------------------------------------------------------------
Databases == [schema : 0..MaxRelease, data : {"whole", "empty", "half", "bare"}]

\* The kinds of what the scripts keep.
DeploymentTypeOK ==
    /\ current \in [Fields -> 0..MaxRelease] /\ previous \in [Fields -> 0..MaxRelease]
    /\ app \in [Containers -> 0..MaxRelease]
    /\ database \in Databases
    /\ Len(dumps) <= Retention
    /\ \A i \in DOMAIN dumps : dumps[i] \in [id : 1..MaxBackups, of : Databases]
    /\ images \subseteq Releases /\ proven \subseteq Releases
    /\ script.op \in {"none", "deploy", "rollback", "restore"} /\ taken \in 0..MaxBackups
    /\ kills \in 0..MaxKills
    /\ marks \subseteq {"again", "adrift", "restored", "broken", "torn", "leapt"}

\* With no script under way and none killed amid its renames, each record is of
\* one release, and of one that passed the check a deployment asks for
\* (persist_success_state, rollback_active_release).
RecordsAreWhole ==
    script.op = "none" /\ "torn" \notin marks =>
        {current, previous} \subseteq {NoRecord} \cup {Record(r) : r \in proven}

\* The images of both recorded releases are on the server, so that a rollback
\* works when the registry does not (cleanup_old_images).
ImagesAreKept == {current.tag, previous.tag} \ {0} \subseteq images

\* Every container that runs is of the recorded release, after deployments that
\* failed their checks too.  A start that did not recreate every container ends
\* that, until one does: the check a deployment asks for does not show it.
ContainersAreRecorded ==
    script.op = "none" /\ "adrift" \notin marks =>
        current = NoRecord \/ \A c \in Containers : app[c] \in {0, current.tag}

\* No API, old or new, meets a database that lacks a migration it knows, unless a
\* release was rolled back after a restore; nor, unless a restore broke off,
\* one whose data is not whole.
DatabaseIsReady ==
    app["api"] # 0 =>
        /\ "leapt" \notin marks => app["api"] <= database.schema
        /\ "broken" \notin marks => database.data = "whole"

\* A rollback leaves the release it is to leave, unless that one was deployed
\* twice in a row, which makes it its own predecessor.
RollbackMovesOn ==
    script.op = "rollback" /\ marks \cap {"again", "torn"} = {} =>
        script.tag # script.loaded.tag

\* The releases of the server through deployments, rollbacks and restores, and
\* scripts that fail or are killed between any two steps.
ReleasesAreSound ==
    /\ RecordsAreWhole /\ ImagesAreKept /\ ContainersAreRecorded
    /\ DatabaseIsReady /\ RollbackMovesOn
=============================================================================
