---------------------------- MODULE StudentRoster ----------------------------
(***************************************************************************)
(* Who is a student, under which number, and who may open an account.      *)
(*                                                                         *)
(* A student has a current number, a standing and, for a school year, an   *)
(* enrolment with the number of that year.  An uploaded roster is planned  *)
(* from what the database holds and applied in a later transaction; the    *)
(* graduates it finds are then deactivated one by one.  Administrators     *)
(* correct and add single students, end their standing and issue codes;    *)
(* students complete their registration with a code; a daily job erases    *)
(* old graduates.  Every student here has a user row of the same number.   *)
(***************************************************************************)
EXTENDS Integers, Sequences, FiniteSets

CONSTANTS
    Enrollees,     \* student ids: those there are and those to come
    Nos,           \* student numbers
    FirstNo,       \* FirstNo[s]: the number s begins with, 0 when s is yet to come
    SchoolYears,   \* school years
    Imports,       \* uploads of a roster
    FileOf,        \* FileOf[i]: year, whether it activates the year, rows in file order
    Corrections,   \* edits of one student
    CorrectTo,     \* CorrectTo[c]: whom it edits, and the number, 0 when not given
    Additions,     \* students added by hand
    AddNo,         \* AddNo[a]: the number the addition gives
    Retirable,     \* students whose standing an administrator may end
    Erasable       \* students the daily job may find graduated for a year

\* A row gives a number, when they are not 0 the number before and the user id,
\* and a name and phone: those of the students alike, until they are erased.
RosterRows == [no : Nos, prev : {0} \cup Nos, known : {0} \cup Enrollees, alike : SUBSET Enrollees]

ASSUME RosterAssumption ==
    /\ Enrollees \subseteq Nat \ {0} /\ Nos \subseteq Nat \ {0} /\ SchoolYears \subseteq Nat \ {0}
    /\ IsFiniteSet(Enrollees) /\ FirstNo \in [Enrollees -> {0} \cup Nos]
    /\ FileOf \in [Imports -> [year : SchoolYears, activates : BOOLEAN, rows : Seq(RosterRows)]]
    /\ \A i \in Imports : \A j, k \in DOMAIN FileOf[i].rows :
          j # k => FileOf[i].rows[j].no # FileOf[i].rows[k].no
    /\ CorrectTo \in [Corrections -> [who : Enrollees, no : {0} \cup Nos]]
    /\ AddNo \in [Additions -> Nos]

VARIABLES
    activeYear,    \* the active row of school_years
    number,        \* number[s]: students.student_no and users.student_no
    standing,      \* standing[s]: users.user_status
    deactivated,   \* deactivated[s]: users.deactivated_at is set
    enrolled,      \* enrolled[y][s]: the student_enrollments row of s in y
    code,          \* code[n]: the account_activation_codes row of number n
    username,      \* username[s]: the Cognito username s is linked to, 0 when none
    import,        \* import[i]: where the application of i is, and its plan
    correction,    \* correction[c]: where it is, the year and number it read
    addition,      \* addition[a]: where it is and the year it read
    leaving,       \* leaving[s]: the number a deactivation of s read, 0 when none runs
    erasing,       \* erasing[s]: what the daily job has selected of s to erase
    crossed        \* (history) students written from what another write had overtaken,
                   \* or by a roster of a past year, or whom a rollover overlooked

people == <<number, standing, deactivated, enrolled>>
errands == <<import, correction, addition, leaving, erasing>>
rosterVars == <<activeYear, people, code, username, errands, crossed>>

NotEnrolled == [no |-> 0, active |-> FALSE]
Enrolment(n) == [no |-> n, active |-> TRUE]
NoCodeYet == [year |-> 0, used |-> 0]
NoPlanYet == [base |-> 0, rows |-> <<>>, leavers |-> {}]

\* Only the calls of S are made; the others are refused at the door.
RosterInitWith(S) ==
    /\ activeYear \in SchoolYears /\ \A y \in SchoolYears : activeYear <= y
    /\ number = FirstNo
    /\ standing = [s \in Enrollees |-> IF FirstNo[s] = 0 THEN "absent" ELSE "active"]
    /\ deactivated = [s \in Enrollees |-> FALSE]
    /\ enrolled = [y \in SchoolYears |-> [s \in Enrollees |->
                      IF y = activeYear /\ FirstNo[s] # 0 THEN Enrolment(FirstNo[s]) ELSE NotEnrolled]]
    /\ code = [n \in Nos |-> NoCodeYet]
    /\ username = [s \in Enrollees |-> 0]
    /\ import = [i \in Imports |-> [stage |-> IF i \in S THEN "new" ELSE "barred", plan |-> NoPlanYet]]
    /\ correction = [c \in Corrections |-> [stage |-> IF c \in S THEN "new" ELSE "barred", year |-> 0, no |-> 0]]
    /\ addition = [a \in Additions |-> [stage |-> IF a \in S THEN "new" ELSE "barred", year |-> 0]]
    /\ leaving = [s \in Enrollees |-> 0]
    /\ erasing = [s \in Enrollees |-> {}]
    /\ crossed = {}

-----------------------------------------------------------------------------
(* Planning an upload: match the rows to students, find the graduates.     *)

Studying(y) == {s \in Enrollees : enrolled[y][s].active}
Under(y, n) == {s \in Enrollees : enrolled[y][s].no = n}

Syncs(f) == f.activates \/ f.year = activeYear

Named(r) == {s \in Enrollees : s = r.known /\ standing[s] # "absent"}

\* By user id, by the number in the year of the file, by the previous number.
Identified(f, r) ==
    Named(r) \cup Under(f.year, r.no)
        \cup (Under(activeYear, r.prev) \cap Studying(activeYear))

\* Whoever has the name and phone of the row, when nothing else tells who it is.
Matches(f, r) ==
    IF Identified(f, r) # {} THEN Identified(f, r)
    ELSE {s \in r.alike : standing[s] # "absent" /\ number[s] >= 0}

RowConflicts(f, r) ==
    \/ Cardinality(Matches(f, r)) > 1
    \/ r.known # 0 /\ Named(r) = {}
    \/ r.prev # 0 /\ Under(activeYear, r.prev) \cap Studying(activeYear) = {}

RowChanges(f, r, s) ==
    \/ enrolled[f.year][s] # Enrolment(r.no)
    \/ Syncs(f) /\ (number[s] # r.no \/ standing[s] # "active")

PlannedRows(f, r) ==
    IF Matches(f, r) = {}
    THEN {[who |-> 0, no |-> r.no, changes |-> TRUE]}
    ELSE {[who |-> s, no |-> r.no, changes |-> RowChanges(f, r, s)] : s \in Matches(f, r)}

PlanOf(i) ==
    LET f == FileOf[i]
        matched == UNION {Matches(f, f.rows[k]) : k \in DOMAIN f.rows}
    IN  [base |-> activeYear,
         rows |-> [k \in DOMAIN f.rows |-> CHOOSE p \in PlannedRows(f, f.rows[k]) : TRUE],
         leavers |-> IF f.activates THEN Studying(activeYear) \ matched ELSE {}]

\* previous numbers of 0 match nobody: no enrolment that exists has the number 0
Plannable(i) ==
    \A k \in DOMAIN FileOf[i].rows : ~ RowConflicts(FileOf[i], FileOf[i].rows[k])

\* applyStudentRoster plans again from the database before its transaction.
PlanImport(i) ==
    /\ import[i].stage = "new" /\ Plannable(i)
    /\ import' = [import EXCEPT ![i] = [stage |-> "planned", plan |-> PlanOf(i)]]
    /\ UNCHANGED <<activeYear, people, code, username,
                   correction, addition, leaving, erasing, crossed>>

-----------------------------------------------------------------------------
(* Writing rows.  db holds the tables as the transaction sees them; ok is   *)
(* FALSE once a unique index refused a statement, room once the ids to come *)
(* have run out, which is a bound of the model.                             *)

Tables == [number |-> number, standing |-> standing, deactivated |-> deactivated,
           enrolled |-> enrolled, ok |-> TRUE, room |-> TRUE]
Refuse(db) == [db EXCEPT !.ok = FALSE]

\* students_student_no_idx and users_student_no_idx: graduates keep their number.
Free(db, n, s) == \A t \in Enrollees \ {s} : db.number[t] # n

Absent(db) == {s \in Enrollees : db.standing[s] = "absent"}
NextId(db) == CHOOSE s \in Absent(db) : \A t \in Absent(db) : s <= t

\* INSERT ... ON DUPLICATE KEY UPDATE: the student's own row of the year, or
\* else the row that holds the number, whosever it is.
Enrol(db, y, s, n) ==
    LET others == {t \in Enrollees \ {s} : db.enrolled[y][t].no = n} IN
    IF others = {} THEN [db EXCEPT !.enrolled[y][s] = Enrolment(n)]
    ELSE IF db.enrolled[y][s] # NotEnrolled THEN Refuse(db)
    ELSE [db EXCEPT !.enrolled[y] = [t \in Enrollees |->
              IF t \in others THEN Enrolment(n) ELSE db.enrolled[y][t]]]

CreateRow(db, y, n) ==
    LET s == NextId(db) IN
    IF Absent(db) = {} THEN [db EXCEPT !.ok = FALSE, !.room = FALSE]
    ELSE IF ~ Free(db, n, s) \/ \E t \in Enrollees : db.enrolled[y][t].no = n THEN Refuse(db)
    ELSE [db EXCEPT !.number[s] = n, !.standing[s] = "active", !.enrolled[y][s] = Enrolment(n)]

UpdateRow(db, y, s, n, sync) ==
    IF ~ sync THEN Enrol(db, y, s, n)
    ELSE IF ~ Free(db, n, s) THEN Refuse(db)
    ELSE Enrol([db EXCEPT !.number[s] = n, !.standing[s] = "active", !.deactivated[s] = FALSE],
               y, s, n)

Graduate(db, base, leavers) ==
    [db EXCEPT !.enrolled[base] = [s \in Enrollees |-> IF s \in leavers
                                      THEN [@[s] EXCEPT !.active = FALSE] ELSE @[s]],
               !.standing = [s \in Enrollees |-> IF s \in leavers THEN "graduated" ELSE @[s]]]

\* A planned row is written; the numbers in use change with a roster that starts its
\* year or is of the active one.
Put(i, db, r) ==
    LET f == FileOf[i] IN
    IF ~ db.ok \/ ~ r.changes THEN db
    ELSE IF r.who = 0 THEN CreateRow(db, f.year, r.no)
    ELSE UpdateRow(db, f.year, r.who, r.no, f.activates \/ f.year = import[i].plan.base)

\* The tables after the first k rows, in the order of the file.
Puts(i) ==
    LET rows == import[i].plan.rows
        put[k \in 0 .. Len(rows)] == IF k = 0 THEN Tables ELSE Put(i, put[k - 1], rows[k])
    IN  put

\* The loop over the planned rows, graduates last.
Applied(i) ==
    LET p == import[i].plan
        db == Puts(i)[Len(p.rows)]
    IN  IF db.ok THEN Graduate(db, p.base, p.leavers) ELSE db

Store(db) ==
    /\ number' = db.number /\ standing' = db.standing
    /\ deactivated' = db.deactivated /\ enrolled' = db.enrolled

\* Slip: the years are not compared.
MutantYearHolds(i) == import[i].plan.base # 0

\* The transaction holds the active school year; it is refused when another
\* year has become active since the plan.
YearHolds(i) == activeYear = import[i].plan.base

EndImport(i, stage) ==
    /\ import' = [import EXCEPT ![i] = [stage |-> stage, plan |-> NoPlanYet]]
    /\ UNCHANGED <<activeYear, people, code, username,
                   correction, addition, leaving, erasing, crossed>>

StaleImport(i) ==
    /\ import[i].stage = "planned" /\ ~ YearHolds(i)
    /\ EndImport(i, "stale")

RefusedImport(i) ==
    /\ import[i].stage = "planned" /\ YearHolds(i) /\ ~ Applied(i).ok /\ Applied(i).room
    /\ EndImport(i, "refused")

\* Students that tables db have otherwise.
Changed(db) ==
    {s \in Enrollees : \/ <<db.number[s], db.standing[s]>> # <<number[s], standing[s]>>
                       \/ \E y \in SchoolYears : db.enrolled[y][s] # enrolled[y][s]}

\* Rows that would be planned otherwise now, because somebody wrote in the same year
\* after the plan: their students, and those who have the number by now.
Overtaken(i) ==
    LET f == FileOf[i]
        rows == import[i].plan.rows
        outdated == {k \in DOMAIN rows : /\ activeYear = import[i].plan.base
                                         /\ \/ RowConflicts(f, f.rows[k])
                                            \/ rows[k] \notin PlannedRows(f, f.rows[k])}
    IN  UNION {{s \in Enrollees : s = rows[k].who} \cup Under(f.year, rows[k].no) : k \in outdated}

\* Active students whom the roster that starts a year neither names nor graduates:
\* newcomers of a roster prepared ahead, and who was added after the plan.
Overlooked(i) ==
    LET p == import[i].plan IN
    {s \in Enrollees \ ({p.rows[k].who : k \in DOMAIN p.rows} \cup p.leavers) :
        FileOf[i].activates /\ standing[s] = "active"}

\* A roster of a past year creates active students, too.
Outlived(i) ==
    IF ~ FileOf[i].activates /\ FileOf[i].year < import[i].plan.base
    THEN Changed(Applied(i)) ELSE {}

ApplyImport(i) ==
    /\ import[i].stage = "planned" /\ YearHolds(i)
    /\ LET db == Applied(i) IN db.ok /\ Store(db)
    /\ activeYear' = IF FileOf[i].activates THEN FileOf[i].year ELSE activeYear
    /\ import' = [import EXCEPT ![i].stage = "graduating"]
    /\ crossed' = crossed \cup Overtaken(i) \cup Overlooked(i) \cup Outlived(i)
    /\ UNCHANGED <<code, username, correction, addition, leaving, erasing>>

\* The call ends after its last graduate; a crash ends it before.
LeaveImport(i) ==
    /\ import[i].stage = "graduating"
    /\ EndImport(i, "applied")

-----------------------------------------------------------------------------
(* Ending a standing: changeStatus reads who it is, then writes.            *)

\* Already graduated and deactivated: nothing to do.
Settled(s) == standing[s] = "graduated" /\ deactivated[s]

GraduateOf(i, s) ==
    /\ import[i].stage = "graduating" /\ s \in import[i].plan.leavers
    /\ import' = [import EXCEPT ![i].plan.leavers = @ \ {s}]
    /\ leaving[s] = 0
    /\ leaving' = IF Settled(s) THEN leaving ELSE [leaving EXCEPT ![s] = number[s]]
    /\ UNCHANGED <<activeYear, people, code, username, correction, addition, erasing, crossed>>

\* updateUserStatus: also completes what a crash left after a roster.
Retire(s) ==
    /\ s \in Retirable /\ standing[s] # "absent" /\ ~ Settled(s) /\ leaving[s] = 0
    /\ leaving' = [leaving EXCEPT ![s] = number[s]]
    /\ UNCHANGED <<activeYear, people, code, username,
                   import, correction, addition, erasing, crossed>>

\* All enrolments end, and the code of the number that was read is deleted.
Deactivate(s) ==
    /\ leaving[s] # 0
    /\ leaving' = [leaving EXCEPT ![s] = 0]
    /\ standing' = [standing EXCEPT ![s] = "graduated"]
    /\ deactivated' = [deactivated EXCEPT ![s] = TRUE]
    /\ enrolled' = [y \in SchoolYears |-> [enrolled[y] EXCEPT ![s].active = FALSE]]
    /\ code' = [n \in Nos |-> IF n = leaving[s] THEN NoCodeYet ELSE code[n]]
    /\ UNCHANGED <<activeYear, number, username, import, correction, addition, erasing, crossed>>

-----------------------------------------------------------------------------
(* Single students: the row and the active year are read before the         *)
(* transaction, which does not look at them again.                          *)

ReadForCorrection(c) ==
    LET s == CorrectTo[c].who IN
    /\ correction[c].stage = "new" /\ standing[s] # "absent"
    /\ LET n == IF CorrectTo[c].no = 0 THEN number[s] ELSE CorrectTo[c].no IN
       /\ n \in Nos
       /\ correction' = [correction EXCEPT ![c] = [stage |-> "read", year |-> activeYear, no |-> n]]
    /\ UNCHANGED <<activeYear, people, code, username, import, addition, leaving, erasing, crossed>>

\* The enrolment becomes active whatever the standing is.
WriteCorrection(c) ==
    LET s == CorrectTo[c].who
        r == correction[c]
        db == IF Free(Tables, r.no, s)
              THEN Enrol([Tables EXCEPT !.number[s] = r.no], r.year, s, r.no)
              ELSE Refuse(Tables)
    IN
    /\ r.stage = "read"
    /\ correction' = [correction EXCEPT ![c].stage = IF db.ok THEN "written" ELSE "refused"]
    /\ Store(IF db.ok THEN db ELSE Tables)
    /\ crossed' = IF r.year # activeYear \/ Under(r.year, r.no) \ {s} # {}
                  THEN crossed \cup {s} \cup Changed(db) ELSE crossed
    /\ UNCHANGED <<activeYear, code, username, import, addition, leaving, erasing>>

ReadForAddition(a) ==
    /\ addition[a].stage = "new" /\ Absent(Tables) # {}
    /\ addition' = [addition EXCEPT ![a] = [stage |-> "read", year |-> activeYear]]
    /\ UNCHANGED <<activeYear, people, code, username,
                   import, correction, leaving, erasing, crossed>>

WriteAddition(a) ==
    LET s == NextId(Tables)
        n == AddNo[a]
        y == addition[a].year
        db == IF Free(Tables, n, s)
              THEN Enrol([Tables EXCEPT !.number[s] = n, !.standing[s] = "active"], y, s, n)
              ELSE Refuse(Tables)
    IN
    /\ addition[a].stage = "read" /\ Absent(Tables) # {}
    /\ addition' = [addition EXCEPT ![a].stage = IF db.ok THEN "written" ELSE "refused"]
    /\ Store(IF db.ok THEN db ELSE Tables)
    /\ crossed' = IF db.ok /\ (y # activeYear \/ Under(y, n) # {})
                  THEN crossed \cup Changed(db) ELSE crossed
    /\ UNCHANGED <<activeYear, code, username, import, correction, leaving, erasing>>

-----------------------------------------------------------------------------
(* Codes and registrations; both lock the active school year.               *)

Holders(n) == Under(activeYear, n) \cap Studying(activeYear)

\* issue with or without force: refused once the code of the number was used.
IssueCode(n) ==
    /\ code[n].used = 0 /\ Holders(n) # {}
    /\ code' = [code EXCEPT ![n] = [year |-> activeYear, used |-> 0]]
    /\ UNCHANGED <<activeYear, people, username, errands, crossed>>

\* issueBulkStudents: an unused code counts as available whatever its year.
Eligible ==
    {n \in Nos : code[n] = NoCodeYet /\ \E s \in Holders(n) : username[s] = 0}

IssueCodes ==
    /\ Eligible # {}
    /\ code' = [n \in Nos |-> IF n \in Eligible THEN [year |-> activeYear, used |-> 0] ELSE code[n]]
    /\ UNCHANGED <<activeYear, people, username, errands, crossed>>

\* complete: the number of the code becomes the student's, and the Cognito user
\* of that name his; a user of that name linked to another student refuses it.
Register(n, s) ==
    /\ code[n] = [year |-> activeYear, used |-> 0]
    /\ s \in Holders(n) /\ Free(Tables, n, s)
    /\ username[s] \in {0, n} /\ \A t \in Enrollees \ {s} : username[t] # n
    /\ number' = [number EXCEPT ![s] = n]
    /\ standing' = [standing EXCEPT ![s] = "active"]
    /\ username' = [username EXCEPT ![s] = n]
    /\ code' = [code EXCEPT ![n].used = s]
    /\ UNCHANGED <<activeYear, deactivated, enrolled, errands, crossed>>

-----------------------------------------------------------------------------
(* The daily job selects its candidates first and does not look again: the   *)
(* record of who graduated a year ago, the login deactivated a month ago.    *)

Due(s) ==
    {d \in {"record", "login"} : IF d = "record" THEN number[s] > 0
                                 ELSE deactivated[s] /\ username[s] # 0}

\* A month passes before a year does.
SelectForErasure(s) ==
    /\ s \in Erasable /\ standing[s] = "graduated" /\ erasing[s] = {}
    /\ \E d \in {Due(s), Due(s) \cap {"login"}} :
          d # {} /\ erasing' = [erasing EXCEPT ![s] = d]
    /\ UNCHANGED <<activeYear, people, code, username,
                   import, correction, addition, leaving, crossed>>

EraseRecord(s) ==
    /\ "record" \in erasing[s]
    /\ erasing' = [erasing EXCEPT ![s] = @ \ {"record"}]
    /\ number' = [number EXCEPT ![s] = - s]
    /\ enrolled' = [y \in SchoolYears |->
                      [enrolled[y] EXCEPT ![s].no = IF @ = 0 THEN 0 ELSE - s]]
    /\ crossed' = IF standing[s] = "active" THEN crossed \cup {s} ELSE crossed
    /\ UNCHANGED <<activeYear, standing, deactivated, code, username,
                   import, correction, addition, leaving>>

DeleteLogin(s) ==
    /\ erasing[s] = {"login"}
    /\ erasing' = [erasing EXCEPT ![s] = {}]
    /\ username' = [username EXCEPT ![s] = 0]
    /\ UNCHANGED <<activeYear, people, code, import, correction, addition, leaving, crossed>>

-----------------------------------------------------------------------------
RosterNext ==
    \/ \E i \in Imports : PlanImport(i) \/ StaleImport(i) \/ RefusedImport(i) \/ ApplyImport(i)
                            \/ LeaveImport(i) \/ \E s \in Enrollees : GraduateOf(i, s)
    \/ \E s \in Enrollees : Retire(s) \/ Deactivate(s) \/ SelectForErasure(s)
                              \/ EraseRecord(s) \/ DeleteLogin(s)
    \/ \E c \in Corrections : ReadForCorrection(c) \/ WriteCorrection(c)
    \/ \E a \in Additions : ReadForAddition(a) \/ WriteAddition(a)
    \/ IssueCodes
    \/ \E n \in Nos : IssueCode(n) \/ \E s \in Enrollees : Register(n, s)

RosterInit == RosterInitWith(Imports \cup Corrections \cup Additions)

RosterSpec == RosterInit /\ [][RosterNext]_rosterVars

-----------------------------------------------------------------------------
EnrolmentRows == [no : {0} \cup Nos \cup {- s : s \in Enrollees}, active : BOOLEAN]

\* Every table and every call under way is of its kind.
RosterTypeOK ==
    /\ activeYear \in SchoolYears
    /\ number \in [Enrollees -> {0} \cup Nos \cup {- s : s \in Enrollees}]
    /\ standing \in [Enrollees -> {"absent", "active", "graduated"}]
    /\ deactivated \in [Enrollees -> BOOLEAN]
    /\ enrolled \in [SchoolYears -> [Enrollees -> EnrolmentRows]]
    /\ code \in [Nos -> [year : {0} \cup SchoolYears, used : {0} \cup Enrollees]]
    /\ username \in [Enrollees -> {0} \cup Nos]
    /\ crossed \subseteq Enrollees

\* The current number of a student is that of his enrolment of the active year,
\* through corrections, rosters, restored graduates and registrations, unless a
\* write of what another write had overtaken touched him (admin.service.ts
\* applyStudentRoster, updateStudent; account-activation.service.ts complete).
NumbersAgree ==
    \A s \in Enrollees \ crossed :
        standing[s] = "active" /\ enrolled[activeYear][s].active
            => number[s] = enrolled[activeYear][s].no

\* Nobody stays an active student whom no roster since the active year names:
\* a rollover leaves no one behind (applyStudentRoster, changeStatus).
ActiveAreEnrolled ==
    \A s \in Enrollees \ crossed :
        standing[s] = "active"
            => \E y \in SchoolYears : y >= activeYear /\ enrolled[y][s].active

\* Two students never sign in with one Cognito user, even after a number passed
\* from one to the other (assertCognitoLinkAllowed).
LoginsAreOnesOwn ==
    \A s, t \in Enrollees : username[s] = username[t] /\ username[s] # 0 => s = t

\* The three together, with the types: who a student is, is one thing in every table.
IdentitiesAreSound == RosterTypeOK /\ NumbersAgree /\ ActiveAreEnrolled /\ LoginsAreOnesOwn

\* A roster whose preview still stands when it is applied is applied: "the number
\* of the roster is used as it is" (docs/operations/
\* account-activation-and-password-reset.md).
ApplicableImportsAreApplied ==
    [][\A i \in Imports :
         import[i].stage = "planned" /\ import'[i].stage = "refused"
            => PlanOf(i) # import[i].plan]_rosterVars
=============================================================================
