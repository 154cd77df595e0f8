---------------------------- MODULE PointsLedger ----------------------------
(***************************************************************************)
(* apps/api/src/modules/points: a ledger of merit and penalty points per   *)
(* student.  Records are never deleted, only canceled and restored; the    *)
(* row of a student carries the running total.                             *)
(*                                                                         *)
(* A student at the departure threshold leaves the dormitory: a case is    *)
(* completed, and a system record brings the total to zero.  At the start  *)
(* of a semester merit and penalty of everybody else are halved, by two    *)
(* more system records.                                                    *)
(*                                                                         *)
(* Batches and halves are idempotent by a key: a table in the memory of a  *)
(* process joins calls that overlap, an audit row committed with the       *)
(* records recognises those that come later.                               *)
(*                                                                         *)
(* Locks are those of the rows read FOR UPDATE or written early in a long  *)
(* transaction: a student and a case by a completion, the system user who  *)
(* signs system records by a half.                                         *)
(***************************************************************************)
EXTENDS Integers, Sequences, FiniteSets, FiniteSetsExt

CONSTANTS
    Students,
    Items,          \* what can be recorded: a student, points and a reason
    StudentOf,      \* the student of an item
    PointOf,        \* its points
    ReasonOf,       \* its reason
    Reasons,        \* point reasons; they have a type that can be edited
    FirstType,      \* the type a reason was created with
    Grants,         \* calls of createRecord
    Batches,        \* calls of createRecordBatch
    Halves,         \* calls of applySemesterHalf
    ItemsOf,        \* the items a grant or a batch records
    KeyOf,          \* the idempotency key of a batch, the semester of a half
    Keys,
    Syncs,          \* calls of syncDepartureCandidates
    Departures,     \* calls of approveDepartureStudent or completeDepartureCase
    Dismissals,     \* calls of dismissDepartureCase
    ReasonEdits,    \* calls of updateReason
    Processes,      \* API processes
    ProcessOf,      \* the process a batch or a half runs in
    Threshold,      \* DEPARTURE_POINT_THRESHOLD
    MaxCases,       \* bound on departure cases
    MaxCrashes,     \* bound on crashes
    None            \* no running call, no case

VARIABLES
    ledger,         \* point_records
    canceled,       \* those of them that are canceled
    total,          \* total[s]: currentPoint of student s
    reasonType,     \* reasonType[r]: the type of reason r
    cases,          \* point_award_cases by id
    marks,          \* batches and halves whose audit row is committed
    inFlight,       \* inFlight[p][k]: the call process p runs for key k
    snap,           \* snap[o]: the active records a half read, the records a batch builds
    found,          \* found[y]: the students without an open case that a sync read,
                    \* and how many cases there were then, which is history
    caseOf,         \* caseOf[d]: the case a departure is about
    seen,           \* seen[d]: the total a departure read
    pc,             \* pc[c]: where call c is
    crashes         \* crashes so far

vars == <<ledger, canceled, total, reasonType, cases, marks, inFlight, snap, found,
          caseOf, seen, pc, crashes>>

recordVars == <<ledger, canceled, total>>
operationVars == <<marks, inFlight, snap>>
caseVars == <<cases, found, caseOf, seen>>

Operations == Batches \cup Halves
Calls == Grants \cup Operations \cup Syncs \cup Departures \cup Dismissals \cup ReasonEdits
Types == {"PLUS", "MINUS", "ETC"}
SystemItems == {"merit half", "penalty half", "reset"}

ASSUME CallAssumption ==
    /\ Grants \cap Operations = {} /\ Batches \cap Halves = {}
    /\ (Syncs \cup Departures \cup Dismissals \cup ReasonEdits)
          \cap (Grants \cup Operations) = {}
    /\ Syncs \cap (Departures \cup Dismissals \cup ReasonEdits) = {}
    /\ Departures \cap (Dismissals \cup ReasonEdits) = {}
    /\ Dismissals \cap ReasonEdits = {}
    /\ None \notin Operations

ASSUME StudentAssumption == IsFiniteSet(Students)

ASSUME MapAssumption ==
    /\ StudentOf \in [Items -> Students] /\ PointOf \in [Items -> Int]
    /\ ReasonOf \in [Items -> Reasons] /\ FirstType \in [Reasons -> Types]
    /\ ItemsOf \in [Grants \cup Batches -> SUBSET Items]
    /\ \A c \in Grants \cup Batches : IsFiniteSet(ItemsOf[c])
    /\ KeyOf \in [Operations -> Keys] /\ ProcessOf \in [Operations -> Processes]
    /\ SystemItems \cap Items = {}

ASSUME ValueAssumption ==
    Threshold \in Int /\ Threshold < 0 /\ MaxCases \in Nat /\ MaxCrashes \in Nat

\* A record names the call that made it and the item it stands for; a case names the
\* call that opened it, which is history.
Record == [by : Calls, item : Items \cup SystemItems, student : Students,
           type : Types, point : Int]

Case == [student : Students, status : {"pending", "completed", "dismissed"},
         by : Syncs \cup Departures]

TypeOK ==
    /\ ledger \subseteq Record
    /\ canceled \subseteq ledger
    /\ total \in [Students -> Int]
    /\ reasonType \in [Reasons -> Types]
    /\ cases \in Seq(Case)
    /\ marks \subseteq Operations
    /\ inFlight \in [Processes -> [Keys -> Operations \cup {None}]]
    /\ snap \in [Operations -> SUBSET Record]
    /\ found \in [Syncs -> [students : SUBSET Students, upTo : Nat]]
    /\ caseOf \in [Departures -> Nat]
    /\ \A d \in Departures : caseOf[d] <= Len(cases)
    /\ seen \in [Departures -> Int]
    /\ pc \in [Calls -> {"idle", "started", "read", "signing", "settling", "prepared",
                         "resetting", "done"}]
    /\ crashes \in Nat

Init ==
    /\ ledger = {} /\ canceled = {}
    /\ total = [s \in Students |-> 0]
    /\ reasonType = FirstType
    /\ cases = <<>>
    /\ marks = {}
    /\ inFlight = [p \in Processes |-> [k \in Keys |-> None]]
    /\ snap = [o \in Operations |-> {}]
    /\ found = [y \in Syncs |-> [students |-> {}, upTo |-> 0]]
    /\ caseOf = [d \in Departures |-> 0]
    /\ seen = [d \in Departures |-> 0]
    /\ pc = [c \in Calls |-> "idle"]
    /\ crashes = 0

-----------------------------------------------------------------------------
(* The ledger.                                                             *)
(* An operator whose name starts with Mutant is a plausible slip in the    *)
(* definition that follows it; no action uses it.                          *)

Goto(c, l) == pc' = [pc EXCEPT ![c] = l]

Active == ledger \ canceled
Of(records, s) == {r \in records : r.student = s}
Points(records) == MapThenSumSet(LAMBDA r : r.point, records)

\* calculateCurrentPointCategoryBalances, as signed sums.
Merits(records) == {r \in records : r.type = "PLUS" \/ r.item = "merit half"}
Penalties(records) == {r \in records : r.type = "MINUS" \/ r.item = "penalty half"}

AtLeastZero(n) == IF n < 0 THEN 0 ELSE n
Merit(records) == AtLeastZero(Points(Merits(records)))
Penalty(records) == AtLeastZero(-Points(Penalties(records)))

\* Slip: the remainder of an odd sum is rounded away from zero, in the adjustment.
MutantHalved(n) == n - (n \div 2)

\* calculateSemesterHalfAdjustment: floor of the half.
Halved(n) == n \div 2

IsSystem(r) == r.item \in SystemItems

\* Slip: completeDepartureCase reads the student without FOR UPDATE.
MutantStudentLocked(s) == FALSE

\* A completion holds the row of its student and of its case.
StudentLocked(s) ==
    \E d \in Departures : pc[d] = "resetting" /\ cases[caseOf[d]].student = s

CaseLocked(c) == \E d \in Departures : pc[d] = "resetting" /\ caseOf[d] = c

\* A half has updated the row of the system user.
ActorLocked == \E h \in Halves : pc[h] = "signing"

Unlocked(S) == \A s \in S : ~StudentLocked(s)

StudentsOf(records) == {r.student : r \in records}

\* The totals of students are updated in the database, relative to what they are.
AddToTotals(records, sign) ==
    /\ Unlocked(StudentsOf(records))
    /\ total' = [s \in Students |->
                   IF s \in StudentsOf(records)
                   THEN total[s] + sign * Points(Of(records, s)) ELSE total[s]]

Insert(records) ==
    /\ ledger' = ledger \cup records
    /\ AddToTotals(records, 1)
    /\ UNCHANGED canceled

\* assertPointMatchesReasonType
Matches(i) ==
    CASE reasonType[ReasonOf[i]] = "PLUS" -> PointOf[i] > 0
      [] reasonType[ReasonOf[i]] = "MINUS" -> PointOf[i] < 0
      [] OTHER -> TRUE

Granted(c) ==
    {[by |-> c, item |-> i, student |-> StudentOf[i],
      type |-> reasonType[ReasonOf[i]], point |-> PointOf[i]] : i \in ItemsOf[c]}

CreateRecord(g) ==
    /\ pc[g] = "idle"
    /\ \A i \in ItemsOf[g] : Matches(i)
    /\ Insert(Granted(g))
    /\ Goto(g, "done")
    /\ UNCHANGED <<reasonType, operationVars, caseVars, crashes>>

\* cancelRecord, and cancelRecords: all of them or none.
CancelRecords(records) ==
    /\ \A r \in records : ~IsSystem(r)
    /\ canceled' = canceled \cup records
    /\ AddToTotals(records, -1)
    /\ UNCHANGED <<ledger, reasonType, operationVars, caseVars, pc, crashes>>

RestoreRecord(r) ==
    /\ r \in canceled
    /\ ~IsSystem(r)
    /\ canceled' = canceled \ {r}
    /\ AddToTotals({r}, 1)
    /\ UNCHANGED <<ledger, reasonType, operationVars, caseVars, pc, crashes>>

\* Whether the reason was ever used is not asked.
UpdateReason(e) ==
    /\ pc[e] = "idle"
    /\ \E r \in Reasons, t \in Types : reasonType' = [reasonType EXCEPT ![r] = t]
    /\ Goto(e, "done")
    /\ UNCHANGED <<recordVars, operationVars, caseVars, crashes>>

-----------------------------------------------------------------------------
(* Batches and halves. *)

Running(o) == inFlight[ProcessOf[o]][KeyOf[o]]
SetRunning(o, x) == inFlight' = [inFlight EXCEPT ![ProcessOf[o]][KeyOf[o]] = x]

\* Slip: calls that overlap are not joined.
MutantRunIdempotent(o) ==
    /\ pc[o] = "idle"
    /\ SetRunning(o, o)
    /\ Goto(o, "started")
    /\ UNCHANGED <<recordVars, reasonType, marks, snap, caseVars, crashes>>

\* A call that joins shares the answer of the running one and changes nothing.
RunIdempotent(o) ==
    /\ pc[o] = "idle"
    /\ IF Running(o) = None
       THEN SetRunning(o, o) /\ Goto(o, "started")
       ELSE Goto(o, "done") /\ UNCHANGED inFlight
    /\ UNCHANGED <<recordVars, reasonType, marks, snap, caseVars, crashes>>

Applied(k) == \E o \in marks : KeyOf[o] = k

Departed(s) ==
    \E c \in DOMAIN cases : cases[c].student = s /\ cases[c].status = "completed"

\* Slip: students whose departure is completed are halved like the others.
MutantReadEntries == Active

\* What a half reads: the active records of students that have not departed.
ReadEntries == {r \in Active : ~Departed(r.student)}

\* The first statement of the transaction looks for the audit row, without a lock;
\* it fixes the snapshot all later plain reads see.
ReadSnapshot(o) ==
    /\ pc[o] = "started"
    /\ IF Applied(KeyOf[o])
       THEN Goto(o, "settling") /\ UNCHANGED snap
       ELSE /\ Goto(o, "read")
            /\ \/ /\ o \in Halves
                  /\ snap' = [snap EXCEPT ![o] = ReadEntries]
               \/ /\ o \in Batches
                  /\ \A i \in ItemsOf[o] : Matches(i)
                  /\ snap' = [snap EXCEPT ![o] = Granted(o)]
    /\ UNCHANGED <<recordVars, reasonType, marks, inFlight, caseVars, crashes>>

CommitBatch(b) ==
    /\ b \in Batches
    /\ pc[b] = "read"
    /\ Insert(snap[b])
    /\ marks' = marks \cup {b}
    /\ Goto(b, "settling")
    /\ UNCHANGED <<reasonType, inFlight, snap, caseVars, crashes>>

\* ensureSystemPointActor updates the row of the system user.
LockActor(h) ==
    /\ h \in Halves
    /\ pc[h] = "read"
    /\ ~ActorLocked
    /\ Goto(h, "signing")
    /\ UNCHANGED <<recordVars, reasonType, operationVars, caseVars, crashes>>

HalfRecord(h, s, item, n) ==
    IF n = 0 THEN {}
    ELSE {[by |-> h, item |-> item, student |-> s, type |-> "ETC", point |-> n]}

\* The adjustments follow from the snapshot.
HalfRecords(h) ==
    UNION {LET merit == Merit(Of(snap[h], s))
               penalty == Penalty(Of(snap[h], s))
           IN HalfRecord(h, s, "merit half", Halved(merit) - merit)
              \cup HalfRecord(h, s, "penalty half", penalty - Halved(penalty))
           : s \in StudentsOf(snap[h])}

CommitHalf(h) ==
    /\ pc[h] = "signing"
    /\ Insert(HalfRecords(h))
    /\ marks' = marks \cup {h}
    /\ Goto(h, "settling")
    /\ UNCHANGED <<reasonType, inFlight, snap, caseVars, crashes>>

\* A refusal, an error of the database, or the victim of a deadlock.
OperationFails(o) ==
    /\ pc[o] \in {"started", "read", "signing"}
    /\ Goto(o, "settling")
    /\ UNCHANGED <<recordVars, reasonType, operationVars, caseVars, crashes>>

\* The finally of runIdempotent.
Settle(o) ==
    /\ pc[o] = "settling"
    /\ SetRunning(o, None)
    /\ Goto(o, "done")
    /\ UNCHANGED <<recordVars, reasonType, marks, snap, caseVars, crashes>>

\* A process dies: its transactions are rolled back, its table is lost.
Crash(p) ==
    /\ crashes < MaxCrashes
    /\ crashes' = crashes + 1
    /\ inFlight' = [inFlight EXCEPT ![p] = [k \in Keys |-> None]]
    /\ pc' = [c \in Calls |-> IF c \in Operations /\ pc[c] # "idle" /\ ProcessOf[c] = p
                              THEN "done" ELSE pc[c]]
    /\ UNCHANGED <<recordVars, reasonType, marks, snap, caseVars>>

-----------------------------------------------------------------------------
(* Departure cases. *)

OpenCases(s) ==
    {c \in DOMAIN cases : cases[c].student = s /\ cases[c].status = "pending"}

NewCase(s, by) == [student |-> s, status |-> "pending", by |-> by]

\* Candidates and open cases are read without locks.
ReadCandidates(y) ==
    /\ pc[y] = "idle"
    /\ found' = [found EXCEPT ![y] =
         [students |-> {s \in Students : total[s] <= Threshold /\ OpenCases(s) = {}},
          upTo |-> Len(cases)]]
    /\ Goto(y, "read")
    /\ UNCHANGED <<recordVars, reasonType, operationVars, cases, caseOf, seen, crashes>>

\* One row per candidate; nobody looks for open cases again.  The foreign key to the
\* student waits for a lock on it.
InsertCandidates(y) ==
    LET candidates == found[y].students IN
    /\ pc[y] = "read"
    /\ Unlocked(candidates)
    /\ Len(cases) + Cardinality(candidates) <= MaxCases
    /\ \E order \in [1 .. Cardinality(candidates) -> candidates] :
         /\ \A i, j \in DOMAIN order : order[i] = order[j] => i = j
         /\ cases' = cases \o [i \in DOMAIN order |-> NewCase(order[i], y)]
    /\ Goto(y, "done")
    /\ UNCHANGED <<recordVars, reasonType, operationVars, found, caseOf, seen, crashes>>

\* Slip: a case that waits already is not looked for.
MutantApprove(d) ==
    /\ pc[d] = "idle"
    /\ \E s \in Students :
         /\ ~StudentLocked(s)
         /\ total[s] <= Threshold
         /\ Len(cases) < MaxCases
         /\ cases' = Append(cases, NewCase(s, d))
         /\ caseOf' = [caseOf EXCEPT ![d] = Len(cases) + 1]
    /\ Goto(d, "prepared")
    /\ UNCHANGED <<recordVars, reasonType, operationVars, found, seen, crashes>>

\* approveDepartureStudent: a first transaction, under the lock of the student,
\* takes the latest open case or opens one.
Approve(d) ==
    /\ pc[d] = "idle"
    /\ \E s \in Students :
         /\ ~StudentLocked(s)
         /\ total[s] <= Threshold
         /\ IF OpenCases(s) # {}
            THEN /\ \E c \in OpenCases(s) :
                      /\ \A b \in OpenCases(s) : b <= c
                      /\ caseOf' = [caseOf EXCEPT ![d] = c]
                 /\ UNCHANGED cases
            ELSE /\ Len(cases) < MaxCases
                 /\ cases' = Append(cases, NewCase(s, d))
                 /\ caseOf' = [caseOf EXCEPT ![d] = Len(cases) + 1]
    /\ Goto(d, "prepared")
    /\ UNCHANGED <<recordVars, reasonType, operationVars, found, seen, crashes>>

\* completeDepartureCase is called with any case of the list.
ChooseCase(d) ==
    /\ pc[d] = "idle"
    /\ \E c \in DOMAIN cases : caseOf' = [caseOf EXCEPT ![d] = c]
    /\ Goto(d, "prepared")
    /\ UNCHANGED <<recordVars, reasonType, operationVars, cases, found, seen, crashes>>

\* Slip: the threshold was checked when the departure was approved.
MutantLockCase(d) ==
    /\ pc[d] = "prepared"
    /\ LET case == cases[caseOf[d]] IN
         /\ ~CaseLocked(caseOf[d]) /\ ~StudentLocked(case.student)
         /\ case.status # "completed"
         /\ seen' = [seen EXCEPT ![d] = total[case.student]]
    /\ Goto(d, "resetting")
    /\ UNCHANGED <<recordVars, reasonType, operationVars, cases, found, caseOf, crashes>>

\* Case and student are read FOR UPDATE and checked.
LockCase(d) ==
    /\ pc[d] = "prepared"
    /\ LET case == cases[caseOf[d]] IN
         /\ ~CaseLocked(caseOf[d]) /\ ~StudentLocked(case.student)
         /\ case.status # "completed"
         /\ total[case.student] <= Threshold
         /\ seen' = [seen EXCEPT ![d] = total[case.student]]
    /\ Goto(d, "resetting")
    /\ UNCHANGED <<recordVars, reasonType, operationVars, cases, found, caseOf, crashes>>

\* The reset is signed by the system user, and written as an absolute zero.
CompleteDeparture(d) ==
    /\ pc[d] = "resetting"
    /\ ~ActorLocked
    /\ LET s == cases[caseOf[d]].student IN
         /\ ledger' = ledger \cup {[by |-> d, item |-> "reset", student |-> s,
                                    type |-> "ETC", point |-> -seen[d]]}
         /\ total' = [total EXCEPT ![s] = 0]
    /\ cases' = [cases EXCEPT ![caseOf[d]].status = "completed"]
    /\ Goto(d, "done")
    /\ UNCHANGED <<canceled, reasonType, operationVars, found, caseOf, seen, crashes>>

\* A refusal, an error of the database, or the victim of a deadlock.
DepartureFails(d) ==
    /\ pc[d] \in {"prepared", "resetting"}
    /\ Goto(d, "done")
    /\ UNCHANGED <<recordVars, reasonType, operationVars, caseVars, crashes>>

\* Whatever the status of the case is.
Dismiss(x) ==
    /\ pc[x] = "idle"
    /\ \E c \in DOMAIN cases :
         /\ ~CaseLocked(c)
         /\ cases' = [cases EXCEPT ![c].status = "dismissed"]
    /\ Goto(x, "done")
    /\ UNCHANGED <<recordVars, reasonType, operationVars, found, caseOf, seen, crashes>>

-----------------------------------------------------------------------------

OperationStep(o) ==
    \/ RunIdempotent(o)
    \/ ReadSnapshot(o)
    \/ CommitBatch(o)
    \/ LockActor(o)
    \/ CommitHalf(o)
    \/ OperationFails(o)
    \/ Settle(o)

DepartureStep(d) ==
    \/ Approve(d)
    \/ ChooseCase(d)
    \/ LockCase(d)
    \/ CompleteDeparture(d)
    \/ DepartureFails(d)

Next ==
    \/ \E g \in Grants : CreateRecord(g)
    \/ \E records \in SUBSET Active \ {{}} : CancelRecords(records)
    \/ \E r \in ledger : RestoreRecord(r)
    \/ \E e \in ReasonEdits : UpdateReason(e)
    \/ \E o \in Operations : OperationStep(o)
    \/ \E p \in Processes : Crash(p)
    \/ \E y \in Syncs : ReadCandidates(y) \/ InsertCandidates(y)
    \/ \E d \in Departures : DepartureStep(d)
    \/ \E x \in Dismissals : Dismiss(x)

Spec == Init /\ [][Next]_vars

-----------------------------------------------------------------------------
(* Properties. *)

\* The running total of a student is the sum of the records that count, although
\* it is maintained by increments and by the absolute zero of a departure.
TotalIsSumOfRecords == \A s \in Students : total[s] = Points(Of(Active, s))

\* The ledger adds up: what it is made of is of its type, and totals are sums.
LedgerAddsUp == TypeOK /\ TotalIsSumOfRecords

FromOperation(r) == r.by \in Operations
SameKey(q, r) == FromOperation(q) /\ FromOperation(r) /\ KeyOf[q.by] = KeyOf[r.by]

\* A batch or a half leaves its records once per key, although calls overlap and are
\* repeated after failures and crashes, as long as they reach the same process.
AppliedOncePerProcess ==
    \A q, r \in ledger :
        SameKey(q, r) /\ ProcessOf[q.by] = ProcessOf[r.by] => q.by = r.by

\* A half whose snapshot of a student is still true when it commits leaves the
\* floor of half the merit and of half the penalty.
HalvingIsExact ==
    [][\A h \in marks' \ marks : h \in Halves =>
         \A s \in Students :
            Of(snap[h], s) = Of(Active, s) =>
                /\ Merit(Of(Active', s)) = Merit(Of(Active, s)) \div 2
                /\ Penalty(Of(Active', s)) = Penalty(Of(Active, s)) \div 2]_vars

\* A departure is completed only at the threshold, and leaves a total of zero.
CompletionResets ==
    [][\A c \in DOMAIN cases :
         cases[c].status # "completed" /\ cases'[c].status = "completed" =>
            /\ total[cases[c].student] <= Threshold
            /\ total'[cases[c].student] = 0]_vars

IsHalf(r) == r.item \in {"merit half", "penalty half"}
Resets(s) == {r \in ledger : r.item = "reset" /\ r.student = s}

\* A departed student is halved only by a half that did not see the departure, or
\* after somebody dismissed the completed case.
DepartedAreHalvedInARace ==
    [][\A r \in ledger' \ ledger :
         IsHalf(r) => \/ Resets(r.student) \cap snap[r.by] = {}
                      \/ \E x \in Dismissals : pc[x] = "done"]_vars

\* A student has a second open case only by a sync that read the cases before the
\* first was opened: approvals share an open case whoever opened it, and a sync
\* leaves out those it could see.
OneOpenCase ==
    \A s \in Students : \A b, c \in OpenCases(s) :
        b < c => cases[c].by \in Syncs /\ found[cases[c].by].upTo < b

\* What the architecture says: a completed departure is not halved any more.
DepartedAreNotHalved ==
    [][\A r \in ledger' \ ledger : IsHalf(r) => Resets(r.student) = {}]_vars

=============================================================================
