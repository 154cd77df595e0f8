------------------------- MODULE PointsLedgerProofs -------------------------
(***************************************************************************)
(* Proofs about PointsLedger for any students, calls and processes, and    *)
(* about AwardForm, the page that awards, for any awards, rows and calls.  *)
(*                                                                         *)
(* The first part depends on who wrote a record, on the cases, and on      *)
(* totals that stay as they are while their row is locked.  The second     *)
(* adds the sums: what MapThenSumSet computes is shown by induction over   *)
(* finite sets, with the least set of a set of sets for its induction.     *)
(***************************************************************************)
EXTENDS PointsLedger, AwardForm, FiniteSetTheorems, SequenceTheorems, TLAPS

Places == {"idle", "started", "read", "signing", "settling", "prepared",
           "resetting", "done"}

\* What TypeOK says without records and their points.
Shape ==
    /\ DOMAIN total = Students
    /\ cases \in Seq(Case)
    /\ marks \subseteq Operations
    /\ inFlight \in [Processes -> [Keys -> Operations \cup {None}]]
    /\ snap = [o \in Operations |-> snap[o]]
    /\ found \in [Syncs -> [students : SUBSET Students, upTo : Nat]]
    /\ caseOf \in [Departures -> Nat]
    /\ \A d \in Departures : pc[d] \in {"prepared", "resetting"} => caseOf[d] \in DOMAIN cases
    /\ pc \in [Calls -> Places]

-----------------------------------------------------------------------------
(* Cases. *)

\* A case that is opened goes behind the others.
LEMMA OpenedCase ==
    ASSUME NEW q \in Seq(Case), NEW s \in Students, NEW by \in Syncs \cup Departures,
           NEW r, r = Append(q, NewCase(s, by))
    PROVE  /\ r \in Seq(Case)
           /\ Len(q) + 1 \in DOMAIN r
           /\ DOMAIN q \subseteq DOMAIN r
           /\ \A c \in DOMAIN q : r[c] = q[c]
<1>1. NewCase(s, by) \in Case
  BY DEF NewCase, Case
<1> QED
  BY <1>1

\* A case that is settled keeps its student and who opened it.
LEMMA SettledCase ==
    ASSUME NEW q \in Seq(Case), NEW c \in DOMAIN q,
           NEW v \in {"pending", "completed", "dismissed"}
    PROVE  LET r == [q EXCEPT ![c].status = v] IN
           /\ r \in Seq(Case)
           /\ DOMAIN r = DOMAIN q
           /\ \A b \in DOMAIN q : /\ r[b].student = q[b].student /\ r[b].by = q[b].by
                               /\ r[b].status = IF b = c THEN v ELSE q[b].status
<1>1. q[c] \in Case
  OBVIOUS
<1>2. [q[c] EXCEPT !.status = v] \in Case
  BY <1>1 DEF Case
<1>3. [q EXCEPT ![c].status = v] = [q EXCEPT ![c] = [q[c] EXCEPT !.status = v]]
  OBVIOUS
<1>4. [q EXCEPT ![c] = [q[c] EXCEPT !.status = v]] \in Seq(Case)
  BY <1>2
<1>5. /\ [q[c] EXCEPT !.status = v].student = q[c].student
      /\ [q[c] EXCEPT !.status = v].by = q[c].by
      /\ [q[c] EXCEPT !.status = v].status = v
  BY <1>1 DEF Case
<1> QED
  BY <1>3, <1>4, <1>5

\* Candidates are added behind the cases there are.
LEMMA CandidateSequence ==
    ASSUME NEW q \in Seq(Case), NEW n \in Nat, NEW new \in [1 .. n -> Case]
    PROVE  /\ q \o new \in Seq(Case)
           /\ DOMAIN q \subseteq DOMAIN (q \o new)
           /\ Len(q \o new) = Len(q) + n
           /\ \A c \in DOMAIN q : (q \o new)[c] = q[c]
           /\ \A c \in DOMAIN (q \o new) \ DOMAIN q :
                c - Len(q) \in 1 .. n /\ (q \o new)[c] = new[c - Len(q)]
<1>1. new \in Seq(Case) /\ Len(new) = n
  OBVIOUS
<1>2. /\ q \o new \in Seq(Case)
      /\ Len(q \o new) = Len(q) + Len(new)
      /\ \A i \in 1 .. Len(q) + Len(new) :
           (q \o new)[i] = IF i <= Len(q) THEN q[i] ELSE new[i - Len(q)]
  BY <1>1, ConcatProperties
<1>3. DOMAIN q = 1 .. Len(q) /\ DOMAIN (q \o new) = 1 .. Len(q \o new)
  BY <1>2
<1>4. Len(q) \in Nat /\ Len(new) \in Nat
  BY <1>1
<1> QED
  BY <1>2, <1>3, <1>4

LEMMA InsertedCases ==
    ASSUME Shape, NEW y \in Syncs, InsertCandidates(y)
    PROVE  /\ cases' \in Seq(Case)
           /\ DOMAIN cases \subseteq DOMAIN cases'
           /\ Len(cases) <= Len(cases')
           /\ \A c \in DOMAIN cases : cases'[c] = cases[c]
           /\ \A c \in DOMAIN cases' \ DOMAIN cases :
                cases'[c].by = y /\ cases'[c].student \in found[y].students
           /\ \A b, c \in DOMAIN cases' \ DOMAIN cases :
                cases'[b].student = cases'[c].student => b = c
<1> DEFINE candidates == found[y].students
           n == Cardinality(candidates)
<1>1. PICK order \in [1 .. n -> candidates] :
         /\ \A i, j \in DOMAIN order : order[i] = order[j] => i = j
         /\ cases' = cases \o [i \in DOMAIN order |-> NewCase(order[i], y)]
  BY DEF InsertCandidates
<1>2. candidates \in SUBSET Students
  BY DEF Shape
<1>3. n \in Nat
  BY <1>2, StudentAssumption, FS_Subset, FS_CardinalityType
<1> DEFINE new == [i \in DOMAIN order |-> NewCase(order[i], y)]
<1>4. new \in [1 .. n -> Case]
  BY <1>2 DEF NewCase, Case
<1>5. cases' = cases \o new /\ cases \in Seq(Case)
  BY <1>1 DEF Shape
<1>6. \A i \in 1 .. n : /\ new[i].by = y /\ new[i].student = order[i]
                       /\ order[i] \in candidates
  BY DEF NewCase
<1> HIDE DEF new, candidates, n
<1>7. /\ cases \o new \in Seq(Case)
      /\ DOMAIN cases \subseteq DOMAIN (cases \o new)
      /\ Len(cases \o new) = Len(cases) + n
      /\ \A c \in DOMAIN cases : (cases \o new)[c] = cases[c]
      /\ \A c \in DOMAIN (cases \o new) \ DOMAIN cases :
           c - Len(cases) \in 1 .. n /\ (cases \o new)[c] = new[c - Len(cases)]
  BY <1>3, <1>4, <1>5, CandidateSequence
<1>8. /\ cases' \in Seq(Case)
      /\ DOMAIN cases \subseteq DOMAIN cases'
      /\ Len(cases') = Len(cases) + n
      /\ \A c \in DOMAIN cases : cases'[c] = cases[c]
      /\ \A c \in DOMAIN cases' \ DOMAIN cases :
           c - Len(cases) \in 1 .. n /\ cases'[c] = new[c - Len(cases)]
  BY <1>5, <1>7
<1>9. Len(cases) \in Nat /\ DOMAIN cases' \subseteq Nat
  BY <1>5, <1>8
<1>10. \A c \in DOMAIN cases' \ DOMAIN cases :
        cases'[c].by = y /\ cases'[c].student \in candidates
  BY <1>6, <1>8
<1>11. ASSUME NEW b \in DOMAIN cases' \ DOMAIN cases, NEW c \in DOMAIN cases' \ DOMAIN cases,
              cases'[b].student = cases'[c].student
       PROVE  b = c
  <2>1. order[b - Len(cases)] = order[c - Len(cases)]
    BY <1>6, <1>8, <1>11
  <2>2. b - Len(cases) = c - Len(cases)
    BY <1>1, <1>8, <2>1
  <2> QED
    BY <1>8, <1>9, <2>2
<1> QED
  BY <1>3, <1>8, <1>9, <1>10, <1>11 DEF candidates

-----------------------------------------------------------------------------
(* The inductive invariant. *)

SameKeyAndProcess(o, m) == KeyOf[o] = KeyOf[m] /\ ProcessOf[o] = ProcessOf[m]

\* A running operation is the one its process knows of, and its key has not been
\* applied there; records of an operation come with its audit row.
Once ==
    /\ \A o \in Operations :
         pc[o] \in {"started", "read", "signing", "settling"} => Running(o) = o
    /\ \A r \in ledger : FromOperation(r) => r.by \in marks
    /\ \A m \in marks : pc[m] \in {"settling", "done"}
    /\ \A o \in Operations :
         pc[o] \in {"read", "signing"} => \A m \in marks : ~SameKeyAndProcess(o, m)
    /\ \A m, n \in marks : SameKeyAndProcess(m, n) => m = n
    /\ \A o \in Operations : pc[o] = "signing" => o \in Halves
    /\ \A b \in Batches : \A r \in snap[b] : r.by = b /\ r.item \in Items

\* While a student is locked its total stays where the completion found it.
Locked ==
    /\ \A d \in Departures :
         pc[d] = "resetting" => total[cases[caseOf[d]].student] <= Threshold
    /\ \A d, e \in Departures :
         pc[d] = "resetting" /\ pc[e] = "resetting"
            /\ cases[caseOf[d]].student = cases[caseOf[e]].student => d = e

Dismissed == \E x \in Dismissals : pc[x] = "done"

\* A reset is visible as a completed case, until somebody dismisses one.
Remembered ==
    /\ \A r \in ledger : r.item = "reset" => Departed(r.student) \/ Dismissed
    /\ \A h \in Halves : \A r \in snap[h] : r.item = "reset" => Dismissed

\* No open case of a student a sync has found was there when it read, and only syncs
\* that are done have opened cases.
OneOpen ==
    /\ OneOpenCase
    /\ \A y \in Syncs : pc[y] = "read" =>
         /\ found[y].upTo <= Len(cases)
         /\ \A s \in found[y].students : \A c \in OpenCases(s) : found[y].upTo < c
    /\ \A c \in DOMAIN cases : cases[c].by \in Syncs => pc[cases[c].by] = "done"

IInv == Shape /\ Once /\ Locked /\ Remembered /\ OneOpen

-----------------------------------------------------------------------------
(* What the parts of a step write. *)

\* A granted record names the call, and is no system record.
LEMMA GrantedRecords ==
    ASSUME NEW c \in Grants \cup Batches, NEW r \in Granted(c)
    PROVE  r.by = c /\ r.item \in Items /\ r.item # "reset" /\ ~IsHalf(r)
<1>1. PICK i \in ItemsOf[c] : r.by = c /\ r.item = i
  BY DEF Granted
<1>2. i \in Items
  BY MapAssumption
<1>3. i \notin SystemItems
  BY <1>2, MapAssumption
<1> QED
  BY <1>1, <1>2, <1>3 DEF SystemItems, IsHalf

\* A half writes its own adjustments, of students it has read.
LEMMA HalfRecordsBy ==
    ASSUME NEW h, NEW r \in HalfRecords(h)
    PROVE  r.by = h /\ r.item # "reset" /\ r.student \in StudentsOf(snap[h])
<1> DEFINE merit(s) == Merit(Of(snap[h], s))
           penalty(s) == Penalty(Of(snap[h], s))
<1>1. PICK s \in StudentsOf(snap[h]) :
        \/ r \in HalfRecord(h, s, "merit half", Halved(merit(s)) - merit(s))
        \/ r \in HalfRecord(h, s, "penalty half", penalty(s) - Halved(penalty(s)))
  BY DEF HalfRecords
<1>2. \A item, n : r \in HalfRecord(h, s, item, n) => r.by = h /\ r.item = item /\ r.student = s
  BY DEF HalfRecord
<1>3. r.by = h /\ r.item \in {"merit half", "penalty half"} /\ r.student = s
  BY <1>1, <1>2
<1> QED
  BY <1>3

\* One slot of the table is written.
LEMMA RunningSlot ==
    ASSUME Shape, NEW o \in Operations, NEW x \in Operations \cup {None}, SetRunning(o, x)
    PROVE  /\ inFlight' \in [Processes -> [Keys -> Operations \cup {None}]]
           /\ Running(o)' = x
           /\ \A q \in Operations : ~SameKeyAndProcess(q, o) => Running(q)' = Running(q)
<1>1. ProcessOf[o] \in Processes /\ KeyOf[o] \in Keys
  BY MapAssumption
<1>2. inFlight' = [inFlight EXCEPT ![ProcessOf[o]] =
                                  [inFlight[ProcessOf[o]] EXCEPT ![KeyOf[o]] = x]]
  BY DEF SetRunning
<1> QED
  BY <1>1, <1>2, MapAssumption DEF Shape, Running, SameKeyAndProcess

\* Those who add to totals wait for the locks on them.
LEMMA LockedTotals ==
    ASSUME Shape, NEW records, NEW sign, AddToTotals(records, sign),
           NEW s \in Students, StudentLocked(s)
    PROVE  total'[s] = total[s]
BY DEF Shape, AddToTotals, Unlocked

\* A completion locks the student of its case.
LEMMA LockedStudents ==
    ASSUME Shape, NEW d \in Departures, pc[d] = "resetting"
    PROVE  /\ cases[caseOf[d]].student \in Students
           /\ StudentLocked(cases[caseOf[d]].student)
<1>1. caseOf[d] \in DOMAIN cases
  BY DEF Shape
<1>2. cases[caseOf[d]] \in Case
  BY <1>1 DEF Shape
<1> QED
  BY <1>2 DEF Case, StudentLocked

\* What Locked depends on.
LEMMA KeepsLocked ==
    ASSUME Shape, Locked, UNCHANGED caseOf,
           \A c \in DOMAIN cases : cases'[c].student = cases[c].student,
           \A d \in Departures : pc'[d] = "resetting" => pc[d] = "resetting",
           \A d \in Departures : pc'[d] = "resetting" =>
              total'[cases[caseOf[d]].student] = total[cases[caseOf[d]].student]
    PROVE  Locked'
<1>1. \A d \in Departures : pc'[d] = "resetting" =>
         /\ pc[d] = "resetting"
         /\ caseOf[d] \in DOMAIN cases
         /\ cases'[caseOf'[d]].student = cases[caseOf[d]].student
  BY DEF Shape
<1>2. ASSUME NEW d \in Departures, pc'[d] = "resetting"
      PROVE  total'[cases'[caseOf'[d]].student] <= Threshold
  BY <1>1, <1>2 DEF Locked
<1>3. ASSUME NEW d \in Departures, NEW e \in Departures,
             pc'[d] = "resetting", pc'[e] = "resetting",
             cases'[caseOf'[d]].student = cases'[caseOf'[e]].student
      PROVE  d = e
  BY <1>1, <1>3 DEF Locked
<1> QED
  BY <1>2, <1>3 DEF Locked

\* What Remembered depends on.
LEMMA KeepsRemembered ==
    ASSUME Remembered, \A r \in ledger' : r \in ledger \/ r.item # "reset",
           \A s : Departed(s) => Departed(s)', Dismissed => Dismissed', snap' = snap
    PROVE  Remembered'
BY DEF Remembered

\* What OneOpen depends on.
LEMMA KeepsOneOpen ==
    ASSUME Shape, OneOpen, UNCHANGED found, \A y \in Syncs : pc'[y] = pc[y],
           DOMAIN cases' = DOMAIN cases, Len(cases') = Len(cases),
           \A c \in DOMAIN cases :
              /\ cases'[c].student = cases[c].student /\ cases'[c].by = cases[c].by
              /\ cases'[c].status = "pending" => cases[c].status = "pending"
    PROVE  OneOpen'
<1>1. \A s : OpenCases(s)' \subseteq OpenCases(s)
  BY DEF OpenCases
<1>2. \A s : \A c \in OpenCases(s)' : c \in DOMAIN cases
  BY <1>1 DEF OpenCases
<1>3. OneOpenCase'
  BY <1>1, <1>2 DEF OneOpen, OneOpenCase
<1> QED
  BY <1>1, <1>3 DEF OneOpen

\* The step of another call does not move a sync.
LEMMA SyncsAreStill ==
    ASSUME Shape, NEW c \in Calls \ Syncs, NEW l, pc' = [pc EXCEPT ![c] = l]
    PROVE  \A y \in Syncs : pc'[y] = pc[y]
BY DEF Shape, Calls

\* What a half reads is all there is; everybody else keeps the snapshots of halves.
LEMMA SnapshotsOfHalves ==
    ASSUME Shape, NEW o \in Operations, ReadSnapshot(o), NEW h \in Halves
    PROVE  snap'[h] = snap[h] \/ snap'[h] = ReadEntries
<1>1. h \in Operations /\ (o \in Batches => o # h)
  BY CallAssumption DEF Operations
<1>2. h \in DOMAIN snap
  BY <1>1 DEF Shape
<1>3. CASE UNCHANGED snap
  BY <1>3
<1>4. CASE o \in Halves /\ snap' = [snap EXCEPT ![o] = ReadEntries]
  BY <1>2, <1>4
<1>5. CASE o \in Batches /\ snap' = [snap EXCEPT ![o] = Granted(o)]
  BY <1>1, <1>5
<1> QED
  BY <1>3, <1>4, <1>5 DEF ReadSnapshot

\* Every step keeps the shape of the state.
LEMMA ShapeKept ==
    ASSUME IInv, Next PROVE Shape'
<1> USE CallAssumption, MapAssumption
    DEF IInv, Shape, Goto, Calls, Operations, Places, recordVars, operationVars, caseVars
<1>1. ASSUME NEW g \in Grants, CreateRecord(g) PROVE Shape'
  BY <1>1 DEF CreateRecord, Insert, AddToTotals
<1>2. ASSUME NEW records \in SUBSET Active, CancelRecords(records) PROVE Shape'
  BY <1>2 DEF CancelRecords, AddToTotals
<1>3. ASSUME NEW r \in ledger, RestoreRecord(r) PROVE Shape'
  BY <1>3 DEF RestoreRecord, AddToTotals
<1>4. ASSUME NEW e \in ReasonEdits, UpdateReason(e) PROVE Shape'
  BY <1>4 DEF UpdateReason
<1>5. ASSUME NEW o \in Operations, RunIdempotent(o) PROVE Shape'
  <2>1. inFlight' \in [Processes -> [Keys -> Operations \cup {None}]]
    BY <1>5, RunningSlot DEF RunIdempotent
  <2>2. pc' = [pc EXCEPT ![o] = "started"] \/ pc' = [pc EXCEPT ![o] = "done"]
    BY <1>5 DEF RunIdempotent
  <2>3. UNCHANGED <<total, cases, marks, snap, found, caseOf>>
    BY <1>5 DEF RunIdempotent
  <2>4. pc' \in [Calls -> Places]
    BY <2>2
  <2>5. \A d \in Departures : pc'[d] = pc[d]
    BY <2>2
  <2> HIDE DEF Calls, Operations, Places
  <2> QED
    BY <2>1, <2>3, <2>4, <2>5
<1>6. ASSUME NEW o \in Operations, ReadSnapshot(o) PROVE Shape'
  <2>1. UNCHANGED <<total, cases, marks, inFlight, found, caseOf>>
    BY <1>6 DEF ReadSnapshot
  <2>2. PICK l \in {"read", "settling"} : pc' = [pc EXCEPT ![o] = l]
    BY <1>6 DEF ReadSnapshot
  <2>3. pc' \in [Calls -> Places]
    BY <2>2
  <2>4. \A d \in Departures : pc'[d] = pc[d]
    BY <2>2
  <2>5. UNCHANGED snap \/ \E records : snap' = [snap EXCEPT ![o] = records]
    BY <1>6 DEF ReadSnapshot
  <2>6. snap' = [q \in Operations |-> snap'[q]]
    BY <2>5
  <2> HIDE DEF Calls, Operations, Places
  <2> QED
    BY <2>1, <2>3, <2>4, <2>6
<1>7. ASSUME NEW o \in Operations, CommitBatch(o) PROVE Shape'
  BY <1>7 DEF CommitBatch, Insert, AddToTotals
<1>8. ASSUME NEW o \in Operations, LockActor(o) PROVE Shape'
  BY <1>8 DEF LockActor
<1>9. ASSUME NEW o \in Operations, CommitHalf(o) PROVE Shape'
  BY <1>9 DEF CommitHalf, Insert, AddToTotals
<1>10. ASSUME NEW o \in Operations, OperationFails(o) PROVE Shape'
  BY <1>10 DEF OperationFails
<1>11. ASSUME NEW o \in Operations, Settle(o) PROVE Shape'
  BY <1>11 DEF Settle, SetRunning
<1>12. ASSUME NEW p \in Processes, Crash(p) PROVE Shape'
  BY <1>12 DEF Crash
<1>13. ASSUME NEW y \in Syncs, ReadCandidates(y) PROVE Shape'
  BY <1>13 DEF ReadCandidates
<1>14. ASSUME NEW y \in Syncs, InsertCandidates(y) PROVE Shape'
  <2>1. cases' \in Seq(Case) /\ DOMAIN cases \subseteq DOMAIN cases'
    BY <1>14, InsertedCases
  <2>2. UNCHANGED <<total, marks, inFlight, snap, found, caseOf>> /\ pc' = [pc EXCEPT ![y] = "done"]
    BY <1>14 DEF InsertCandidates
  <2> QED
    BY <2>1, <2>2
<1>15. ASSUME NEW d \in Departures, Approve(d) PROVE Shape'
  <2> HIDE DEF Shape
  <2>1. PICK s \in Students :
          IF OpenCases(s) # {}
          THEN (\E c \in OpenCases(s) : caseOf' = [caseOf EXCEPT ![d] = c]) /\ UNCHANGED cases
          ELSE /\ cases' = Append(cases, NewCase(s, d))
               /\ caseOf' = [caseOf EXCEPT ![d] = Len(cases) + 1]
    BY <1>15 DEF Approve
  <2> USE DEF Shape
  <2>2. UNCHANGED <<total, marks, inFlight, snap, found>> /\ pc' = [pc EXCEPT ![d] = "prepared"]
    BY <1>15 DEF Approve
  <2>3. CASE OpenCases(s) # {}
    <3>1. PICK c \in OpenCases(s) : caseOf' = [caseOf EXCEPT ![d] = c] /\ UNCHANGED cases
      BY <2>1, <2>3
    <3>2. c \in DOMAIN cases
      BY DEF OpenCases
    <3> QED
      BY <2>2, <3>1, <3>2
  <2>4. CASE OpenCases(s) = {}
    <3>1. /\ cases' = Append(cases, NewCase(s, d))
          /\ caseOf' = [caseOf EXCEPT ![d] = Len(cases) + 1]
      BY <2>1, <2>4
    <3>2. cases \in Seq(Case)
      OBVIOUS
    <3> HIDE DEF Shape
    <3>3. /\ cases' \in Seq(Case) /\ DOMAIN cases \subseteq DOMAIN cases'
          /\ Len(cases) + 1 \in DOMAIN cases'
      BY <3>1, <3>2, OpenedCase
    <3> USE DEF Shape
    <3> QED
      BY <2>2, <3>1, <3>3
  <2> QED
    BY <2>3, <2>4
<1>16. ASSUME NEW d \in Departures, ChooseCase(d) PROVE Shape'
  BY <1>16 DEF ChooseCase
<1>17. ASSUME NEW d \in Departures, LockCase(d) PROVE Shape'
  BY <1>17 DEF LockCase
<1>18. ASSUME NEW d \in Departures, CompleteDeparture(d) PROVE Shape'
  <2>1. caseOf[d] \in DOMAIN cases /\ cases' = [cases EXCEPT ![caseOf[d]].status = "completed"]
    BY <1>18 DEF CompleteDeparture
  <2>2. cases' \in Seq(Case) /\ DOMAIN cases' = DOMAIN cases
    BY <2>1, SettledCase
  <2>3. UNCHANGED <<marks, inFlight, snap, found, caseOf>> /\ pc' = [pc EXCEPT ![d] = "done"]
    BY <1>18 DEF CompleteDeparture
  <2>4. \E s : total' = [total EXCEPT ![s] = 0]
    BY <1>18 DEF CompleteDeparture
  <2>5. DOMAIN total' = Students
    BY <2>4
  <2>6. pc' \in [Calls -> Places] /\ \A e \in Departures : pc'[e] = pc[e] \/ pc'[e] = "done"
    BY <2>3
  <2> HIDE DEF Calls, Operations, Places
  <2> QED
    BY <2>2, <2>3, <2>5, <2>6
<1>19. ASSUME NEW d \in Departures, DepartureFails(d) PROVE Shape'
  BY <1>19 DEF DepartureFails
<1>20. ASSUME NEW x \in Dismissals, Dismiss(x) PROVE Shape'
  <2>1. PICK c \in DOMAIN cases : cases' = [cases EXCEPT ![c].status = "dismissed"]
    BY <1>20 DEF Dismiss
  <2>2. cases' \in Seq(Case) /\ DOMAIN cases' = DOMAIN cases
    BY <2>1, SettledCase
  <2>3. UNCHANGED <<total, marks, inFlight, snap, found, caseOf>> /\ pc' = [pc EXCEPT ![x] = "done"]
    BY <1>20 DEF Dismiss
  <2> QED
    BY <2>2, <2>3
<1> QED
  BY <1>1, <1>2, <1>3, <1>4, <1>5, <1>6, <1>7, <1>8, <1>9, <1>10, <1>11, <1>12,
     <1>13, <1>14, <1>15, <1>16, <1>17, <1>18, <1>19, <1>20
  DEF Next, OperationStep, DepartureStep

\* No step applies a key twice in a process.
LEMMA OnceKept ==
    ASSUME IInv, Next PROVE Once'
<1> USE CallAssumption, MapAssumption
    DEF IInv, Shape, Once, Goto, Calls, Operations, Running, SameKeyAndProcess, FromOperation,
        recordVars, operationVars, caseVars
<1>1. ASSUME NEW g \in Grants, CreateRecord(g) PROVE Once'
  <2>1. \A r \in Granted(g) : r.by = g
    BY GrantedRecords
  <2> QED
    BY <1>1, <2>1 DEF CreateRecord, Insert
<1>2. ASSUME NEW records \in SUBSET Active, CancelRecords(records) PROVE Once'
  BY <1>2 DEF CancelRecords, AddToTotals
<1>3. ASSUME NEW r \in ledger, RestoreRecord(r) PROVE Once'
  BY <1>3 DEF RestoreRecord, AddToTotals
<1>4. ASSUME NEW e \in ReasonEdits, UpdateReason(e) PROVE Once'
  BY <1>4 DEF UpdateReason
<1>5. ASSUME NEW o \in Operations, RunIdempotent(o) PROVE Once'
  <2>1. pc[o] = "idle" /\ UNCHANGED <<ledger, marks, snap>>
    BY <1>5 DEF RunIdempotent
  <2>2. CASE Running(o) # None
    <3>1. pc' = [pc EXCEPT ![o] = "done"] /\ UNCHANGED inFlight
      BY <1>5, <2>2 DEF RunIdempotent
    <3> QED
      BY <2>1, <3>1
  <2>3. CASE Running(o) = None
    <3>1. pc' = [pc EXCEPT ![o] = "started"] /\ SetRunning(o, o)
      BY <1>5, <2>3 DEF RunIdempotent
    <3>2. /\ Running(o)' = o
          /\ \A q \in Operations : ~SameKeyAndProcess(q, o) => Running(q)' = Running(q)
      BY <3>1, RunningSlot
    <3>3. \A q \in Operations : SameKeyAndProcess(q, o) => Running(q) = None
      BY <2>3
    <3> HIDE DEF Running, SameKeyAndProcess
    <3>4. \A q \in Operations :
             pc'[q] \in {"started", "read", "signing", "settling"} => Running(q)' = q
      BY <3>1, <3>2, <3>3
    <3> QED
      BY <2>1, <3>1, <3>4
  <2> QED
    BY <2>2, <2>3
<1>6. ASSUME NEW o \in Operations, ReadSnapshot(o) PROVE Once'
  <2>1. pc'[o] = "read" => \A m \in marks : ~SameKeyAndProcess(o, m)
    BY <1>6 DEF ReadSnapshot, Applied
  <2>2. pc[o] = "started" /\ UNCHANGED <<inFlight, marks, ledger>>
    BY <1>6 DEF ReadSnapshot
  <2>3. pc' = [pc EXCEPT ![o] = "read"] \/ pc' = [pc EXCEPT ![o] = "settling"]
    BY <1>6 DEF ReadSnapshot
  <2>4. \A b \in Batches : \A r \in snap'[b] : r.by = b /\ r.item \in Items
    <3>1. CASE UNCHANGED snap
      BY <3>1
    <3>2. CASE o \in Halves /\ snap' = [snap EXCEPT ![o] = ReadEntries]
      BY <3>2
    <3>3. CASE o \in Batches /\ snap' = [snap EXCEPT ![o] = Granted(o)]
      BY <3>3, GrantedRecords
    <3> QED
      BY <1>6, <3>1, <3>2, <3>3 DEF ReadSnapshot
  <2>5. \A q \in Operations : Running(q)' = Running(q)
    BY <2>2
  <2> HIDE DEF Running, SameKeyAndProcess
  <2>6. \A q \in Operations \ {o} : pc'[q] = pc[q]
    BY <2>3
  <2>7. \A q \in Operations :
           pc'[q] \in {"started", "read", "signing", "settling"} => Running(q)' = q
    BY <2>2, <2>5, <2>6
  <2>8. \A m \in marks' : pc'[m] \in {"settling", "done"}
    BY <2>2, <2>6
  <2>9. ASSUME NEW q \in Operations, pc'[q] \in {"read", "signing"}
        PROVE  \A m \in marks' : ~SameKeyAndProcess(q, m)
    <3>1. CASE q = o
      <4>1. pc'[o] = "read"
        BY <2>3, <2>9, <3>1
      <4> QED
        BY <2>1, <2>2, <3>1, <4>1
    <3>2. CASE q # o
      <4>1. pc[q] \in {"read", "signing"}
        BY <2>6, <2>9, <3>2
      <4> QED
        BY <2>2, <4>1
    <3> QED
      BY <3>1, <3>2
  <2>10. \A q \in Operations : pc'[q] = "signing" => q \in Halves
    <3>1. pc'[o] # "signing"
      BY <2>3
    <3> QED
      BY <2>6, <3>1
  <2> QED
    BY <2>2, <2>4, <2>7, <2>8, <2>9, <2>10
<1>7. ASSUME NEW o \in Operations, CommitBatch(o) PROVE Once'
  BY <1>7 DEF CommitBatch, Insert, AddToTotals
<1>8. ASSUME NEW o \in Operations, LockActor(o) PROVE Once'
  BY <1>8 DEF LockActor
<1>9. ASSUME NEW o \in Operations, CommitHalf(o) PROVE Once'
  <2>1. \A r \in HalfRecords(o) : r.by = o
    BY HalfRecordsBy
  <2>2. ledger' = ledger \cup HalfRecords(o) /\ marks' = marks \cup {o}
    BY <1>9 DEF CommitHalf, Insert
  <2>3. /\ pc[o] = "signing" /\ pc' = [pc EXCEPT ![o] = "settling"]
        /\ UNCHANGED <<inFlight, snap>>
    BY <1>9 DEF CommitHalf
  <2>4. \A q \in Operations : pc'[q] \in {"read", "signing"} => ~SameKeyAndProcess(q, o)
    BY <2>3
  <2> QED
    BY <2>1, <2>2, <2>3, <2>4
<1>10. ASSUME NEW o \in Operations, OperationFails(o) PROVE Once'
  BY <1>10 DEF OperationFails
<1>11. ASSUME NEW o \in Operations, Settle(o) PROVE Once'
  BY <1>11 DEF Settle, SetRunning
<1>12. ASSUME NEW p \in Processes, Crash(p) PROVE Once'
  BY <1>12 DEF Crash
<1>13. ASSUME NEW y \in Syncs, ReadCandidates(y) PROVE Once'
  BY <1>13 DEF ReadCandidates
<1>14. ASSUME NEW y \in Syncs, InsertCandidates(y) PROVE Once'
  BY <1>14 DEF InsertCandidates
<1>15. ASSUME NEW d \in Departures, Approve(d) PROVE Once'
  BY <1>15 DEF Approve
<1>16. ASSUME NEW d \in Departures, ChooseCase(d) PROVE Once'
  BY <1>16 DEF ChooseCase
<1>17. ASSUME NEW d \in Departures, LockCase(d) PROVE Once'
  BY <1>17 DEF LockCase
<1>18. ASSUME NEW d \in Departures, CompleteDeparture(d) PROVE Once'
  BY <1>18 DEF CompleteDeparture
<1>19. ASSUME NEW d \in Departures, DepartureFails(d) PROVE Once'
  BY <1>19 DEF DepartureFails
<1>20. ASSUME NEW x \in Dismissals, Dismiss(x) PROVE Once'
  BY <1>20 DEF Dismiss
<1> QED
  BY <1>1, <1>2, <1>3, <1>4, <1>5, <1>6, <1>7, <1>8, <1>9, <1>10, <1>11, <1>12,
     <1>13, <1>14, <1>15, <1>16, <1>17, <1>18, <1>19, <1>20
  DEF Next, OperationStep, DepartureStep

\* No step changes the total of a locked student.
LEMMA LockedKept ==
    ASSUME IInv, Next PROVE Locked'
<1> USE CallAssumption, MapAssumption
    DEF IInv, Shape, Locked, Goto, Calls, Operations, recordVars, operationVars, caseVars
<1>1. ASSUME NEW g \in Grants, CreateRecord(g) PROVE Locked'
  <2>1. \A s \in Students : StudentLocked(s) => total'[s] = total[s]
    BY <1>1, LockedTotals DEF CreateRecord, Insert
  <2> QED
    BY <1>1, <2>1, LockedStudents DEF CreateRecord, Insert
<1>2. ASSUME NEW records \in SUBSET Active, CancelRecords(records) PROVE Locked'
  <2>1. \A s \in Students : StudentLocked(s) => total'[s] = total[s]
    BY <1>2, LockedTotals DEF CancelRecords
  <2> QED
    BY <1>2, <2>1, LockedStudents DEF CancelRecords
<1>3. ASSUME NEW r \in ledger, RestoreRecord(r) PROVE Locked'
  <2>1. \A s \in Students : StudentLocked(s) => total'[s] = total[s]
    BY <1>3, LockedTotals DEF RestoreRecord
  <2> QED
    BY <1>3, <2>1, LockedStudents DEF RestoreRecord
<1>4. ASSUME NEW e \in ReasonEdits, UpdateReason(e) PROVE Locked'
  BY <1>4 DEF UpdateReason
<1>5. ASSUME NEW o \in Operations, RunIdempotent(o) PROVE Locked'
  <2>1. UNCHANGED <<total, cases, caseOf>> /\ \A d \in Departures : pc'[d] = pc[d]
    BY <1>5 DEF RunIdempotent
  <2> QED
    BY <2>1, KeepsLocked
<1>6. ASSUME NEW o \in Operations, ReadSnapshot(o) PROVE Locked'
  <2>1. UNCHANGED <<total, cases, caseOf>> /\ \A d \in Departures : pc'[d] = pc[d]
    BY <1>6 DEF ReadSnapshot
  <2> QED
    BY <2>1, KeepsLocked
<1>7. ASSUME NEW o \in Operations, CommitBatch(o) PROVE Locked'
  <2>1. \A s \in Students : StudentLocked(s) => total'[s] = total[s]
    BY <1>7, LockedTotals DEF CommitBatch, Insert
  <2> QED
    BY <1>7, <2>1, LockedStudents DEF CommitBatch, Insert
<1>8. ASSUME NEW o \in Operations, LockActor(o) PROVE Locked'
  BY <1>8 DEF LockActor
<1>9. ASSUME NEW o \in Operations, CommitHalf(o) PROVE Locked'
  <2>1. \A s \in Students : StudentLocked(s) => total'[s] = total[s]
    BY <1>9, LockedTotals DEF CommitHalf, Insert
  <2> QED
    BY <1>9, <2>1, LockedStudents DEF CommitHalf, Insert
<1>10. ASSUME NEW o \in Operations, OperationFails(o) PROVE Locked'
  BY <1>10 DEF OperationFails
<1>11. ASSUME NEW o \in Operations, Settle(o) PROVE Locked'
  BY <1>11 DEF Settle
<1>12. ASSUME NEW p \in Processes, Crash(p) PROVE Locked'
  BY <1>12 DEF Crash
<1>13. ASSUME NEW y \in Syncs, ReadCandidates(y) PROVE Locked'
  BY <1>13 DEF ReadCandidates
<1>14. ASSUME NEW y \in Syncs, InsertCandidates(y) PROVE Locked'
  <2>1. \A c \in DOMAIN cases : cases'[c] = cases[c]
    BY <1>14, InsertedCases
  <2> QED
    BY <1>14, <2>1 DEF InsertCandidates
<1>15. ASSUME NEW d \in Departures, Approve(d) PROVE Locked'
  <2>1. UNCHANGED cases \/ \E s \in Students : cases' = Append(cases, NewCase(s, d))
    BY <1>15 DEF Approve
  <2>2. \A c \in DOMAIN cases : cases'[c] = cases[c]
    BY <2>1, OpenedCase
  <2>3. pc' = [pc EXCEPT ![d] = "prepared"] /\ UNCHANGED total
    BY <1>15 DEF Approve
  <2>4. \A e \in Departures \ {d} : caseOf'[e] = caseOf[e]
    BY <1>15 DEF Approve
  <2> QED
    BY <2>2, <2>3, <2>4
<1>16. ASSUME NEW d \in Departures, ChooseCase(d) PROVE Locked'
  BY <1>16 DEF ChooseCase
<1>17. ASSUME NEW d \in Departures, LockCase(d) PROVE Locked'
  <2>1. ~StudentLocked(cases[caseOf[d]].student) /\ total[cases[caseOf[d]].student] <= Threshold
    BY <1>17 DEF LockCase
  <2>2. pc' = [pc EXCEPT ![d] = "resetting"] /\ UNCHANGED <<cases, caseOf, total>>
    BY <1>17 DEF LockCase
  <2> QED
    BY <2>1, <2>2, LockedStudents
<1>18. ASSUME NEW d \in Departures, CompleteDeparture(d) PROVE Locked'
  <2> HIDE DEF Goto, recordVars, operationVars, caseVars, Locked, Calls, Operations
  <2>1. pc[d] = "resetting" /\ pc' = [pc EXCEPT ![d] = "done"] /\ UNCHANGED caseOf
    BY <1>18 DEF CompleteDeparture, Goto
  <2>2. total' = [total EXCEPT ![cases[caseOf[d]].student] = 0]
    BY <1>18 DEF CompleteDeparture
  <2>3. \A c \in DOMAIN cases : cases'[c].student = cases[c].student
    <3>1. cases' = [cases EXCEPT ![caseOf[d]].status = "completed"] /\ caseOf[d] \in DOMAIN cases
      BY <1>18, <2>1 DEF CompleteDeparture
    <3> QED
      BY <3>1, SettledCase
  <2>4. ASSUME NEW e \in Departures, pc'[e] = "resetting"
        PROVE  pc[e] = "resetting" /\ e # d
    BY <2>1, <2>4, CallAssumption DEF Calls
  <2>5. ASSUME NEW e \in Departures, pc'[e] = "resetting"
        PROVE  total'[cases[caseOf[e]].student] = total[cases[caseOf[e]].student]
    <3>1. cases[caseOf[e]].student # cases[caseOf[d]].student
      BY <2>1, <2>4, <2>5 DEF Locked
    <3> QED
      BY <2>2, <2>4, <2>5, <3>1, LockedStudents
  <2> QED
    BY <2>1, <2>3, <2>4, <2>5, KeepsLocked
<1>19. ASSUME NEW d \in Departures, DepartureFails(d) PROVE Locked'
  BY <1>19 DEF DepartureFails
<1>20. ASSUME NEW x \in Dismissals, Dismiss(x) PROVE Locked'
  BY <1>20 DEF Dismiss
<1> QED
  BY <1>1, <1>2, <1>3, <1>4, <1>5, <1>6, <1>7, <1>8, <1>9, <1>10, <1>11, <1>12,
     <1>13, <1>14, <1>15, <1>16, <1>17, <1>18, <1>19, <1>20
  DEF Next, OperationStep, DepartureStep

\* No step forgets a departure.
LEMMA RememberedKept ==
    ASSUME IInv, Next PROVE Remembered'
<1> USE CallAssumption, MapAssumption
    DEF IInv, Shape, Goto, Calls, Operations, recordVars, operationVars, caseVars
<1>1. ASSUME NEW g \in Grants, CreateRecord(g) PROVE Remembered'
  <2>1. \A r \in Granted(g) : r.item # "reset"
    BY GrantedRecords
  <2> QED
    BY <1>1, <2>1, KeepsRemembered DEF CreateRecord, Insert, Departed, Dismissed
<1>2. ASSUME NEW records \in SUBSET Active, CancelRecords(records) PROVE Remembered'
  BY <1>2, KeepsRemembered DEF CancelRecords, Departed, Dismissed
<1>3. ASSUME NEW r \in ledger, RestoreRecord(r) PROVE Remembered'
  BY <1>3, KeepsRemembered DEF RestoreRecord, Departed, Dismissed
<1>4. ASSUME NEW e \in ReasonEdits, UpdateReason(e) PROVE Remembered'
  BY <1>4, KeepsRemembered DEF UpdateReason, Departed, Dismissed
<1>5. ASSUME NEW o \in Operations, RunIdempotent(o) PROVE Remembered'
  BY <1>5, KeepsRemembered DEF RunIdempotent, Departed, Dismissed
<1>6. ASSUME NEW o \in Operations, ReadSnapshot(o) PROVE Remembered'
  <2>1. ledger' = ledger /\ cases' = cases /\ Dismissed' = Dismissed
    BY <1>6 DEF ReadSnapshot, Dismissed
  <2> HIDE DEF Shape, Goto, Calls, Operations
  <2>2. \A r \in ReadEntries : r.item = "reset" => Dismissed
    BY DEF ReadEntries, Active, Remembered
  <2>3. \A h \in Halves : snap'[h] = snap[h] \/ snap'[h] = ReadEntries
    BY <1>6, SnapshotsOfHalves
  <2> QED
    BY <2>1, <2>2, <2>3 DEF Remembered, Departed
<1>7. ASSUME NEW o \in Operations, CommitBatch(o) PROVE Remembered'
  <2>1. \A r \in snap[o] : r.item # "reset"
    BY <1>7 DEF CommitBatch, Once, SystemItems
  <2> QED
    BY <1>7, <2>1, KeepsRemembered DEF CommitBatch, Insert, Departed, Dismissed
<1>8. ASSUME NEW o \in Operations, LockActor(o) PROVE Remembered'
  BY <1>8, KeepsRemembered DEF LockActor, Departed, Dismissed
<1>9. ASSUME NEW o \in Operations, CommitHalf(o) PROVE Remembered'
  <2>1. \A r \in HalfRecords(o) : r.item # "reset"
    BY HalfRecordsBy
  <2> QED
    BY <1>9, <2>1, KeepsRemembered DEF CommitHalf, Insert, Departed, Dismissed
<1>10. ASSUME NEW o \in Operations, OperationFails(o) PROVE Remembered'
  BY <1>10, KeepsRemembered DEF OperationFails, Departed, Dismissed
<1>11. ASSUME NEW o \in Operations, Settle(o) PROVE Remembered'
  BY <1>11, KeepsRemembered DEF Settle, Departed, Dismissed
<1>12. ASSUME NEW p \in Processes, Crash(p) PROVE Remembered'
  BY <1>12, KeepsRemembered DEF Crash, Departed, Dismissed
<1>13. ASSUME NEW y \in Syncs, ReadCandidates(y) PROVE Remembered'
  BY <1>13, KeepsRemembered DEF ReadCandidates, Departed, Dismissed
<1>14. ASSUME NEW y \in Syncs, InsertCandidates(y) PROVE Remembered'
  <2>1. DOMAIN cases \subseteq DOMAIN cases' /\ \A c \in DOMAIN cases : cases'[c] = cases[c]
    BY <1>14, InsertedCases
  <2>2. \A s : Departed(s) => Departed(s)'
    BY <2>1 DEF Departed
  <2>3. ledger' = ledger /\ snap' = snap /\ Dismissed' = Dismissed
    BY <1>14 DEF InsertCandidates, Dismissed
  <2> QED
    BY <2>2, <2>3, KeepsRemembered
<1>15. ASSUME NEW d \in Departures, Approve(d) PROVE Remembered'
  <2>0. UNCHANGED cases \/ \E s \in Students : cases' = Append(cases, NewCase(s, d))
    BY <1>15 DEF Approve
  <2>1. \A c \in DOMAIN cases : c \in DOMAIN cases' /\ cases'[c] = cases[c]
    <3>1. cases \in Seq(Case)
      BY DEF Shape
    <3>2. ASSUME NEW s \in Students, cases' = Append(cases, NewCase(s, d))
          PROVE  \A c \in DOMAIN cases : c \in DOMAIN cases' /\ cases'[c] = cases[c]
      BY <3>1, <3>2, OpenedCase
    <3> QED
      BY <2>0, <3>2
  <2>2. \A s : Departed(s) => Departed(s)'
    BY <2>1 DEF Departed
  <2>3. ledger' = ledger /\ snap' = snap /\ Dismissed' = Dismissed
    BY <1>15 DEF Approve, Dismissed
  <2> QED
    BY <2>2, <2>3, KeepsRemembered
<1>16. ASSUME NEW d \in Departures, ChooseCase(d) PROVE Remembered'
  BY <1>16, KeepsRemembered DEF ChooseCase, Departed, Dismissed
<1>17. ASSUME NEW d \in Departures, LockCase(d) PROVE Remembered'
  BY <1>17, KeepsRemembered DEF LockCase, Departed, Dismissed
<1>18. ASSUME NEW d \in Departures, CompleteDeparture(d) PROVE Remembered'
  <2>1. caseOf[d] \in DOMAIN cases /\ cases' = [cases EXCEPT ![caseOf[d]].status = "completed"]
    BY <1>18 DEF CompleteDeparture
  <2>2. /\ DOMAIN cases' = DOMAIN cases
        /\ \A c \in DOMAIN cases :
             /\ cases'[c].student = cases[c].student
             /\ cases'[c].status = IF c = caseOf[d] THEN "completed" ELSE cases[c].status
    BY <2>1, SettledCase
  <2>3. PICK s : s = cases[caseOf[d]].student
    OBVIOUS
  <2>4. Departed(s)' /\ \A t : Departed(t) => Departed(t)'
    BY <2>1, <2>2, <2>3 DEF Departed
  <2>5. \A r \in ledger' : r \in ledger \/ r.student = s
    BY <1>18, <2>3 DEF CompleteDeparture
  <2>6. Dismissed' = Dismissed /\ snap' = snap
    BY <1>18 DEF CompleteDeparture, Dismissed
  <2> QED
    BY <2>4, <2>5, <2>6 DEF Remembered
<1>19. ASSUME NEW d \in Departures, DepartureFails(d) PROVE Remembered'
  BY <1>19, KeepsRemembered DEF DepartureFails, Departed, Dismissed
<1>20. ASSUME NEW x \in Dismissals, Dismiss(x) PROVE Remembered'
  <2>1. Dismissed'
    BY <1>20 DEF Dismiss, Dismissed
  <2> QED
    BY <2>1 DEF Remembered
<1> QED
  BY <1>1, <1>2, <1>3, <1>4, <1>5, <1>6, <1>7, <1>8, <1>9, <1>10, <1>11, <1>12,
     <1>13, <1>14, <1>15, <1>16, <1>17, <1>18, <1>19, <1>20
  DEF Next, OperationStep, DepartureStep

\* A step opens a second case for a student only from an old reading.
LEMMA OneOpenKept ==
    ASSUME IInv, Next PROVE OneOpen'
<1> USE DEF IInv
<1>0. /\ \A c \in (Grants \cup Operations \cup Departures \cup Dismissals \cup ReasonEdits) :
           c \in Calls \ Syncs
      /\ cases \in Seq(Case)
  BY CallAssumption DEF Calls, Shape
<1>1. ASSUME NEW g \in Grants, CreateRecord(g) PROVE OneOpen'
  <2>1. UNCHANGED <<cases, found>> /\ \E l : pc' = [pc EXCEPT ![g] = l]
    BY <1>1 DEF CreateRecord, Goto, caseVars
  <2> QED
    BY <1>0, <2>1, SyncsAreStill, KeepsOneOpen
<1>2. ASSUME NEW e \in ReasonEdits, UpdateReason(e) PROVE OneOpen'
  <2>1. UNCHANGED <<cases, found>> /\ \E l : pc' = [pc EXCEPT ![e] = l]
    BY <1>2 DEF UpdateReason, Goto, caseVars
  <2> QED
    BY <1>0, <2>1, SyncsAreStill, KeepsOneOpen
<1>3. ASSUME NEW o \in Operations, RunIdempotent(o) PROVE OneOpen'
  <2>1. UNCHANGED <<cases, found>> /\ \E l : pc' = [pc EXCEPT ![o] = l]
    BY <1>3 DEF RunIdempotent, Goto, caseVars
  <2> QED
    BY <1>0, <2>1, SyncsAreStill, KeepsOneOpen
<1>4. ASSUME NEW o \in Operations, ReadSnapshot(o) PROVE OneOpen'
  <2>1. UNCHANGED <<cases, found>> /\ \E l : pc' = [pc EXCEPT ![o] = l]
    BY <1>4 DEF ReadSnapshot, Goto, caseVars
  <2> QED
    BY <1>0, <2>1, SyncsAreStill, KeepsOneOpen
<1>5. ASSUME NEW o \in Operations, CommitBatch(o) PROVE OneOpen'
  <2>1. UNCHANGED <<cases, found>> /\ \E l : pc' = [pc EXCEPT ![o] = l]
    BY <1>5 DEF CommitBatch, Goto, caseVars
  <2> QED
    BY <1>0, <2>1, SyncsAreStill, KeepsOneOpen
<1>6. ASSUME NEW o \in Operations, LockActor(o) PROVE OneOpen'
  <2>1. UNCHANGED <<cases, found>> /\ \E l : pc' = [pc EXCEPT ![o] = l]
    BY <1>6 DEF LockActor, Goto, caseVars
  <2> QED
    BY <1>0, <2>1, SyncsAreStill, KeepsOneOpen
<1>7. ASSUME NEW o \in Operations, CommitHalf(o) PROVE OneOpen'
  <2>1. UNCHANGED <<cases, found>> /\ \E l : pc' = [pc EXCEPT ![o] = l]
    BY <1>7 DEF CommitHalf, Goto, caseVars
  <2> QED
    BY <1>0, <2>1, SyncsAreStill, KeepsOneOpen
<1>8. ASSUME NEW o \in Operations, OperationFails(o) PROVE OneOpen'
  <2>1. UNCHANGED <<cases, found>> /\ \E l : pc' = [pc EXCEPT ![o] = l]
    BY <1>8 DEF OperationFails, Goto, caseVars
  <2> QED
    BY <1>0, <2>1, SyncsAreStill, KeepsOneOpen
<1>9. ASSUME NEW o \in Operations, Settle(o) PROVE OneOpen'
  <2>1. UNCHANGED <<cases, found>> /\ \E l : pc' = [pc EXCEPT ![o] = l]
    BY <1>9 DEF Settle, Goto, caseVars
  <2> QED
    BY <1>0, <2>1, SyncsAreStill, KeepsOneOpen
<1>10. ASSUME NEW d \in Departures, ChooseCase(d) PROVE OneOpen'
  <2>1. UNCHANGED <<cases, found>> /\ \E l : pc' = [pc EXCEPT ![d] = l]
    BY <1>10 DEF ChooseCase, Goto, caseVars
  <2> QED
    BY <1>0, <2>1, SyncsAreStill, KeepsOneOpen
<1>11. ASSUME NEW d \in Departures, LockCase(d) PROVE OneOpen'
  <2>1. UNCHANGED <<cases, found>> /\ \E l : pc' = [pc EXCEPT ![d] = l]
    BY <1>11 DEF LockCase, Goto, caseVars
  <2> QED
    BY <1>0, <2>1, SyncsAreStill, KeepsOneOpen
<1>12. ASSUME NEW d \in Departures, DepartureFails(d) PROVE OneOpen'
  <2>1. UNCHANGED <<cases, found>> /\ \E l : pc' = [pc EXCEPT ![d] = l]
    BY <1>12 DEF DepartureFails, Goto, caseVars
  <2> QED
    BY <1>0, <2>1, SyncsAreStill, KeepsOneOpen
<1>13. ASSUME NEW records \in SUBSET Active, CancelRecords(records) PROVE OneOpen'
  BY <1>13, KeepsOneOpen DEF CancelRecords, caseVars
<1>14. ASSUME NEW r \in ledger, RestoreRecord(r) PROVE OneOpen'
  BY <1>14, KeepsOneOpen DEF RestoreRecord, caseVars
<1>15. ASSUME NEW p \in Processes, Crash(p) PROVE OneOpen'
  <2>1. UNCHANGED <<cases, found>>
    BY <1>15 DEF Crash, caseVars
  <2>2. \A y \in Syncs : pc'[y] = pc[y]
    BY <1>15, CallAssumption DEF Crash, Calls
  <2> QED
    BY <2>1, <2>2, KeepsOneOpen
<1>16. ASSUME NEW d \in Departures, CompleteDeparture(d) PROVE OneOpen'
  <2>1. PICK c \in DOMAIN cases : cases' = [cases EXCEPT ![c].status = "completed"]
    BY <1>16 DEF CompleteDeparture, Shape
  <2>2. /\ DOMAIN cases' = DOMAIN cases
        /\ \A b \in DOMAIN cases :
             /\ cases'[b].student = cases[b].student /\ cases'[b].by = cases[b].by
             /\ cases'[b].status = IF b = c THEN "completed" ELSE cases[b].status
    BY <2>1, SettledCase DEF Shape
  <2>3. UNCHANGED found /\ pc' = [pc EXCEPT ![d] = "done"]
    BY <1>16 DEF CompleteDeparture, Goto
  <2>4. Len(cases') = Len(cases)
    BY <1>0, <2>1
  <2> QED
    BY <1>0, <2>2, <2>3, <2>4, SyncsAreStill, KeepsOneOpen
<1>17. ASSUME NEW x \in Dismissals, Dismiss(x) PROVE OneOpen'
  <2>1. PICK c \in DOMAIN cases : cases' = [cases EXCEPT ![c].status = "dismissed"]
    BY <1>17 DEF Dismiss, Shape
  <2>2. /\ DOMAIN cases' = DOMAIN cases
        /\ \A b \in DOMAIN cases :
             /\ cases'[b].student = cases[b].student /\ cases'[b].by = cases[b].by
             /\ cases'[b].status = IF b = c THEN "dismissed" ELSE cases[b].status
    BY <2>1, SettledCase DEF Shape
  <2>3. UNCHANGED found /\ pc' = [pc EXCEPT ![x] = "done"]
    BY <1>17 DEF Dismiss, Goto
  <2>4. Len(cases') = Len(cases)
    BY <1>0, <2>1
  <2> QED
    BY <1>0, <2>2, <2>3, <2>4, SyncsAreStill, KeepsOneOpen
<1>18. ASSUME NEW y \in Syncs, ReadCandidates(y) PROVE OneOpen'
  <2> DEFINE f == [students |-> {s \in Students : total[s] <= Threshold /\ OpenCases(s) = {}},
                   upTo |-> Len(cases)]
  <2>0. f.upTo = Len(cases) /\ \A s \in f.students : OpenCases(s) = {}
    OBVIOUS
  <2>1. /\ pc[y] = "idle" /\ UNCHANGED cases /\ pc' = [pc EXCEPT ![y] = "read"]
        /\ found' = [found EXCEPT ![y] = f]
    BY <1>18 DEF ReadCandidates, Goto
  <2> HIDE DEF f
  <2>2. /\ pc'[y] = "read" /\ found'[y].upTo = Len(cases)
        /\ \A s \in found'[y].students : OpenCases(s) = {}
        /\ \A z \in Syncs \ {y} : pc'[z] = pc[z] /\ found'[z] = found[z]
    BY <2>0, <2>1 DEF Shape, Calls
  <2>3. \A c \in DOMAIN cases : cases[c].by # y
    BY <2>1 DEF OneOpen
  <2>4. \A s : OpenCases(s)' = OpenCases(s)
    BY <2>1 DEF OpenCases
  <2>5. \A s : \A c \in OpenCases(s) : c \in DOMAIN cases
    BY DEF OpenCases
  <2>6. OneOpenCase'
    BY <2>1, <2>2, <2>3, <2>4, <2>5 DEF OneOpen, OneOpenCase
  <2>7. Len(cases) \in Nat
    BY <1>0
  <2>8. \A c \in DOMAIN cases : cases[c].by \in Syncs => pc'[cases[c].by] = "done"
    BY <2>2, <2>3 DEF OneOpen
  <2> QED
    BY <2>1, <2>2, <2>4, <2>6, <2>7, <2>8 DEF OneOpen
<1>19. ASSUME NEW y \in Syncs, InsertCandidates(y) PROVE OneOpen'
  <2>1. pc[y] = "read" /\ UNCHANGED found /\ pc' = [pc EXCEPT ![y] = "done"]
    BY <1>19 DEF InsertCandidates, Goto
  <2>2. pc'[y] = "done" /\ \A z \in Syncs \ {y} : pc'[z] = pc[z]
    BY <2>1 DEF Shape, Calls
  <2>3. /\ cases' \in Seq(Case) /\ Len(cases) <= Len(cases')
        /\ DOMAIN cases \subseteq DOMAIN cases'
        /\ \A c \in DOMAIN cases : cases'[c] = cases[c]
        /\ \A c \in DOMAIN cases' \ DOMAIN cases :
             cases'[c].by = y /\ cases'[c].student \in found[y].students
        /\ \A b, c \in DOMAIN cases' \ DOMAIN cases :
             cases'[b].student = cases'[c].student => b = c
    BY <1>19, InsertedCases
  <2>4. /\ Len(cases) \in Nat /\ Len(cases') \in Nat
        /\ DOMAIN cases = 1 .. Len(cases) /\ DOMAIN cases' = 1 .. Len(cases')
    BY <1>0, <2>3
  <2>5. \A s : \A c \in OpenCases(s)' : c \in DOMAIN cases => c \in OpenCases(s)
    BY <2>3 DEF OpenCases
  <2>6. \A s : \A c \in OpenCases(s)' : c \in DOMAIN cases' /\ cases'[c].student = s
    BY DEF OpenCases
  <2>7. \A z \in Syncs : found[z].upTo \in Nat
    BY DEF Shape
  <2>8. ASSUME NEW s \in Students, NEW b \in OpenCases(s)', NEW c \in OpenCases(s)', b < c
        PROVE  cases'[c].by \in Syncs /\ found[cases'[c].by].upTo < b
    <3>1. CASE c \in DOMAIN cases
      <4>1. b \in DOMAIN cases
        BY <2>4, <2>6, <2>8, <3>1
      <4>2. cases[c].by \in Syncs /\ found[cases[c].by].upTo < b
        BY <2>5, <2>8, <3>1, <4>1 DEF OneOpen, OneOpenCase
      <4> QED
        BY <2>3, <3>1, <4>2
    <3>2. CASE c \notin DOMAIN cases
      <4>1. cases'[c].by = y /\ s \in found[y].students
        BY <2>3, <2>6, <3>2
      <4>2. b \in DOMAIN cases
        BY <2>3, <2>4, <2>6, <2>8, <3>2
      <4>3. found[y].upTo < b
        BY <2>1, <2>5, <4>1, <4>2 DEF OneOpen
      <4> QED
        BY <4>1, <4>3
    <3> QED
      BY <3>1, <3>2
  <2>9. OneOpenCase'
    BY <2>1, <2>8 DEF OneOpenCase
  <2>10. ASSUME NEW z \in Syncs, pc'[z] = "read"
         PROVE  /\ found[z].upTo <= Len(cases')
                /\ \A s \in found[z].students : \A c \in OpenCases(s)' : found[z].upTo < c
    <3>1. z # y /\ pc[z] = "read"
      BY <2>2, <2>10
    <3>2. /\ found[z].upTo <= Len(cases)
          /\ \A s \in found[z].students : \A c \in OpenCases(s) : found[z].upTo < c
      BY <3>1 DEF OneOpen
    <3>3. \A s : \A c \in OpenCases(s)' : c \in OpenCases(s) \/ c > Len(cases)
      BY <2>4, <2>5, <2>6
    <3>4. \A s : \A c \in OpenCases(s)' : c \in Nat
      BY <2>4, <2>6
    <3> QED
      BY <2>3, <2>4, <2>7, <3>2, <3>3, <3>4
  <2>11. \A c \in DOMAIN cases' : cases'[c].by \in Syncs => pc'[cases'[c].by] = "done"
    BY <2>2, <2>3 DEF OneOpen
  <2> QED
    BY <2>1, <2>9, <2>10, <2>11 DEF OneOpen
<1>20. ASSUME NEW d \in Departures, Approve(d) PROVE OneOpen'
  <2>1. PICK s \in Students :
          \/ UNCHANGED cases
          \/ OpenCases(s) = {} /\ cases' = Append(cases, NewCase(s, d))
    BY <1>20 DEF Approve
  <2>2. UNCHANGED found /\ pc' = [pc EXCEPT ![d] = "prepared"]
    BY <1>20 DEF Approve, Goto
  <2>3. \A y \in Syncs : pc'[y] = pc[y]
    BY <1>0, <2>2, SyncsAreStill
  <2>4. CASE UNCHANGED cases
    BY <2>2, <2>3, <2>4, KeepsOneOpen
  <2>5. CASE OpenCases(s) = {} /\ cases' = Append(cases, NewCase(s, d))
    <3>1. /\ DOMAIN cases' = 1 .. Len(cases) + 1 /\ Len(cases') = Len(cases) + 1
          /\ Len(cases) \in Nat /\ DOMAIN cases = 1 .. Len(cases)
          /\ cases'[Len(cases) + 1] = NewCase(s, d)
      BY <1>0, <2>5
    <3>2. \A c \in DOMAIN cases : cases'[c] = cases[c]
      BY <1>0, <2>5, OpenedCase
    <3>3. \A c \in DOMAIN cases' : c \in DOMAIN cases \/ c = Len(cases) + 1
      BY <3>1
    <3>4. \A t : OpenCases(t)' \subseteq OpenCases(t) \cup {Len(cases) + 1}
      BY <3>2, <3>3 DEF OpenCases
    <3>5. \A t : Len(cases) + 1 \in OpenCases(t)' => t = s
      BY <3>1 DEF OpenCases, NewCase
    <3>6. d \notin Syncs /\ cases'[Len(cases) + 1].by = d
      BY <1>0, <3>1 DEF NewCase
    <3>7. \A t : \A c \in OpenCases(t) : c \in DOMAIN cases
      BY DEF OpenCases
    <3>8. ASSUME NEW t \in Students, NEW b \in OpenCases(t)', NEW c \in OpenCases(t)', b < c
          PROVE  cases'[c].by \in Syncs /\ found[cases'[c].by].upTo < b
      <4>1. b \in OpenCases(t)
        <5>1. CASE t = s
          <6>1. b = Len(cases) + 1 /\ c = Len(cases) + 1
            BY <2>5, <3>4, <5>1
          <6> QED
            BY <3>1, <3>8, <6>1
        <5>2. CASE t # s
          BY <3>4, <3>5, <5>2
        <5> QED
          BY <5>1, <5>2
      <4>2. c \in OpenCases(t)
        BY <2>5, <3>4, <3>5, <4>1
      <4> QED
        BY <3>2, <3>7, <3>8, <4>1, <4>2 DEF OneOpen, OneOpenCase
    <3>9. OneOpenCase'
      BY <2>2, <3>8 DEF OneOpenCase
    <3>10. ASSUME NEW y \in Syncs, pc'[y] = "read"
           PROVE  /\ found[y].upTo <= Len(cases')
                  /\ \A t \in found[y].students : \A c \in OpenCases(t)' : found[y].upTo < c
      <4>1. /\ found[y].upTo <= Len(cases)
            /\ \A t \in found[y].students : \A c \in OpenCases(t) : found[y].upTo < c
        BY <2>3, <3>10 DEF OneOpen
      <4>2. found[y].upTo \in Nat
        BY DEF Shape
      <4> QED
        BY <3>1, <3>4, <4>1, <4>2
    <3>11. \A c \in DOMAIN cases' : cases'[c].by \in Syncs => pc'[cases'[c].by] = "done"
      BY <2>3, <3>2, <3>3, <3>6 DEF OneOpen
    <3> QED
      BY <2>2, <3>9, <3>10, <3>11 DEF OneOpen
  <2> QED
    BY <2>1, <2>4, <2>5
<1> QED
  BY <1>1, <1>2, <1>3, <1>4, <1>5, <1>6, <1>7, <1>8, <1>9, <1>10, <1>11, <1>12, <1>13, <1>14, <1>15, <1>16, <1>17, <1>18, <1>19, <1>20
  DEF Next, OperationStep, DepartureStep

\* The first state satisfies the invariant.
LEMMA InitInductive == Init => IInv
<1> SUFFICES ASSUME Init PROVE IInv
  OBVIOUS
<1> USE CallAssumption, MapAssumption DEF Init, Operations, Calls
<1>1. Shape
  BY DEF Shape, Places
<1>2. Once
  BY DEF Once
<1>3. Locked
  BY DEF Locked
<1>4. Remembered
  BY DEF Remembered
<1>5. OneOpen
  BY DEF OneOpen, OneOpenCase, OpenCases
<1> QED
  BY <1>1, <1>2, <1>3, <1>4, <1>5 DEF IInv

\* Every step, and every step of somebody else, keeps it.
LEMMA NextInductive == IInv /\ [Next]_vars => IInv'
<1> SUFFICES ASSUME IInv, [Next]_vars PROVE IInv'
  OBVIOUS
<1>1. CASE Next
  BY <1>1, ShapeKept, OnceKept, LockedKept, RememberedKept, OneOpenKept DEF IInv
<1>2. CASE UNCHANGED vars
  <2> USE <1>2 DEF vars, IInv
  <2>1. Shape'
    BY DEF Shape
  <2>2. Once'
    BY DEF Once, Running
  <2>3. Locked'
    BY DEF Locked
  <2>4. Remembered'
    BY DEF Remembered, Departed, Dismissed
  <2>5. OneOpen'
    BY DEF OneOpen, OneOpenCase, OpenCases
  <2> QED
    BY <2>1, <2>2, <2>3, <2>4, <2>5
<1> QED
  BY <1>1, <1>2

\* It holds in every state the specification reaches.
LEMMA Invariance == Spec => []IInv
BY InitInductive, NextInductive, PTL DEF Spec

-----------------------------------------------------------------------------
(* What follows. *)

\* A batch or a half leaves its records once per key in each process: only calls
\* whose audit row is committed have records, and those of one key and process are
\* one, because the table of running calls keeps a second one from starting and the
\* audit row keeps a later one from reading.
THEOREM AppliedOnce == Spec => []AppliedOncePerProcess
<1>1. IInv => AppliedOncePerProcess
  BY DEF IInv, Once, AppliedOncePerProcess, SameKey, SameKeyAndProcess, FromOperation
<1> QED
  BY <1>1, Invariance, PTL

\* A student has a second open case only by a sync that read before the first was
\* opened: an approval looks for the open case and opens one under the lock of the
\* student, and no open case of a student a sync has found was there when it read.
THEOREM OpenCaseIsShared == Spec => []OneOpenCase
<1>1. IInv => OneOpenCase
  BY DEF IInv, OneOpen
<1> QED
  BY <1>1, Invariance, PTL

\* A step that completes a case is a completion.
LEMMA CompletedByCompletion ==
    ASSUME IInv, Next, NEW c \in DOMAIN cases,
           cases[c].status # "completed", cases'[c].status = "completed"
    PROVE  \E d \in Departures : CompleteDeparture(d)
<1>1. CASE UNCHANGED cases
  BY <1>1
<1>2. ASSUME NEW y \in Syncs, InsertCandidates(y) PROVE FALSE
  BY <1>2, InsertedCases DEF IInv
<1>3. ASSUME NEW d \in Departures, Approve(d) PROVE FALSE
  <2>1. UNCHANGED cases \/ \E s \in Students : cases' = Append(cases, NewCase(s, d))
    BY <1>3 DEF Approve
  <2>2. cases \in Seq(Case)
    BY DEF IInv, Shape
  <2>3. ASSUME NEW s \in Students, cases' = Append(cases, NewCase(s, d))
        PROVE  cases'[c] = cases[c]
    BY <2>2, <2>3, OpenedCase
  <2> QED
    BY <2>1, <2>3
<1>4. ASSUME NEW x \in Dismissals, Dismiss(x) PROVE FALSE
  <2>1. PICK b \in DOMAIN cases : cases' = [cases EXCEPT ![b].status = "dismissed"]
    BY <1>4 DEF Dismiss
  <2> QED
    BY <2>1, SettledCase DEF IInv, Shape
<1>5. ASSUME NEW o \in Operations, OperationStep(o) PROVE UNCHANGED cases
  BY <1>5 DEF OperationStep, RunIdempotent, ReadSnapshot, CommitBatch, LockActor, CommitHalf,
              OperationFails, Settle, caseVars
<1>6. ASSUME NEW d \in Departures, DepartureStep(d), ~Approve(d), ~CompleteDeparture(d)
      PROVE  UNCHANGED cases
  BY <1>6 DEF DepartureStep, ChooseCase, LockCase, DepartureFails, caseVars
<1>7. ASSUME NEW records, CancelRecords(records) PROVE UNCHANGED cases
  BY <1>7 DEF CancelRecords, caseVars
<1>8. ASSUME NEW r, RestoreRecord(r) PROVE UNCHANGED cases
  BY <1>8 DEF RestoreRecord, caseVars
<1>9. ASSUME NEW x, CreateRecord(x) \/ UpdateReason(x) \/ Crash(x) \/ ReadCandidates(x)
      PROVE  UNCHANGED cases
  BY <1>9 DEF CreateRecord, UpdateReason, Crash, ReadCandidates, caseVars
<1> QED
  BY <1>1, <1>2, <1>3, <1>4, <1>5, <1>6, <1>7, <1>8, <1>9 DEF Next

\* A departure is completed only at the threshold, and leaves a total of zero: the
\* total was at the threshold when the completion locked the student, and everybody
\* who adds to it waits for that lock.
THEOREM CompletionIsAtThreshold == Spec => CompletionResets
<1> DEFINE Step ==
      \A c \in DOMAIN cases :
         cases[c].status # "completed" /\ cases'[c].status = "completed" =>
            /\ total[cases[c].student] <= Threshold
            /\ total'[cases[c].student] = 0
<1>1. IInv /\ [Next]_vars => [Step]_vars
  <2> SUFFICES ASSUME IInv, Next, NEW c \in DOMAIN cases,
                      cases[c].status # "completed", cases'[c].status = "completed"
               PROVE  /\ total[cases[c].student] <= Threshold
                      /\ total'[cases[c].student] = 0
    OBVIOUS
  <2>1. PICK d \in Departures : CompleteDeparture(d)
    BY CompletedByCompletion
  <2>2. pc[d] = "resetting" /\ caseOf[d] \in DOMAIN cases
    BY <2>1 DEF CompleteDeparture, IInv, Shape
  <2>3. c = caseOf[d]
    <3>1. cases' = [cases EXCEPT ![caseOf[d]].status = "completed"]
      BY <2>1 DEF CompleteDeparture
    <3> QED
      BY <2>2, <3>1, SettledCase DEF IInv, Shape
  <2>4. total[cases[c].student] <= Threshold
    BY <2>2, <2>3 DEF IInv, Locked
  <2>5. total' = [total EXCEPT ![cases[c].student] = 0]
    BY <2>1, <2>3 DEF CompleteDeparture
  <2>6. cases[c].student \in DOMAIN total
    BY <2>2, <2>3, LockedStudents DEF IInv, Shape
  <2> QED
    BY <2>4, <2>5, <2>6
<1> QED
  BY <1>1, Invariance, PTL DEF Spec, CompletionResets

\* A half record is written by a half that commits.
LEMMA HalvedByHalf ==
    ASSUME IInv, Next, NEW r \in ledger', r \notin ledger, IsHalf(r)
    PROVE  \E h \in Halves : r \in HalfRecords(h)
<1>1. CASE UNCHANGED ledger
  BY <1>1
<1>2. ASSUME NEW g \in Grants, CreateRecord(g) PROVE FALSE
  BY <1>2, GrantedRecords DEF CreateRecord, Insert
<1>3. ASSUME NEW o \in Operations, CommitBatch(o) PROVE FALSE
  <2>1. o \in Batches /\ r \in snap[o]
    BY <1>3 DEF CommitBatch, Insert
  <2>2. r.item \in Items
    BY <2>1 DEF IInv, Once
  <2> QED
    BY <2>2, MapAssumption DEF IsHalf, SystemItems
<1>4. ASSUME NEW o \in Operations, CommitHalf(o) PROVE o \in Halves /\ r \in HalfRecords(o)
  BY <1>4 DEF CommitHalf, Insert, IInv, Once
<1>5. ASSUME NEW d \in Departures, CompleteDeparture(d) PROVE FALSE
  <2>1. PICK n, s : ledger' = ledger \cup {[by |-> d, item |-> "reset", student |-> s,
                                           type |-> "ETC", point |-> n]}
    BY <1>5 DEF CompleteDeparture
  <2>2. r.item = "reset"
    BY <2>1
  <2> QED
    BY <2>2 DEF IsHalf
<1>6. ASSUME NEW o \in Operations, OperationStep(o), ~CommitBatch(o), ~CommitHalf(o)
      PROVE  UNCHANGED ledger
  BY <1>6 DEF OperationStep, RunIdempotent, ReadSnapshot, LockActor, OperationFails, Settle,
              recordVars
<1>7. ASSUME NEW d \in Departures, DepartureStep(d), ~CompleteDeparture(d)
      PROVE  UNCHANGED ledger
  BY <1>7 DEF DepartureStep, Approve, ChooseCase, LockCase, DepartureFails, recordVars
<1>8. ASSUME NEW records, CancelRecords(records) PROVE UNCHANGED ledger
  BY <1>8 DEF CancelRecords
<1>9. ASSUME NEW x, \/ RestoreRecord(x) \/ UpdateReason(x) \/ Crash(x)
                    \/ ReadCandidates(x) \/ InsertCandidates(x) \/ Dismiss(x)
      PROVE  UNCHANGED ledger
  BY <1>9 DEF RestoreRecord, UpdateReason, Crash, ReadCandidates, InsertCandidates, Dismiss,
              recordVars
<1> QED
  BY <1>1, <1>2, <1>3, <1>4, <1>5, <1>6, <1>7, <1>8, <1>9 DEF Next

\* A departed student is halved only by a half that did not see the departure, or
\* after somebody dismissed the completed case: a half that reads the record of a
\* reset sees the completed case next to it, and leaves the student out.
THEOREM HalvedOnlyInARace == Spec => DepartedAreHalvedInARace
<1> DEFINE Step ==
      \A r \in ledger' \ ledger :
         IsHalf(r) => \/ Resets(r.student) \cap snap[r.by] = {}
                      \/ \E x \in Dismissals : pc[x] = "done"
<1>1. IInv /\ [Next]_vars => [Step]_vars
  <2> SUFFICES ASSUME IInv, Next, NEW r \in ledger', r \notin ledger, IsHalf(r)
               PROVE  \/ Resets(r.student) \cap snap[r.by] = {}
                      \/ \E x \in Dismissals : pc[x] = "done"
    OBVIOUS
  <2>1. PICK h \in Halves : r \in HalfRecords(h)
    BY HalvedByHalf
  <2>2. r.by = h
    BY <2>1, HalfRecordsBy
  <2>3. (\E q \in snap[h] : q.item = "reset") => Dismissed
    BY DEF IInv, Remembered
  <2> QED
    BY <2>2, <2>3 DEF Resets, Dismissed
<1> QED
  BY <1>1, Invariance, PTL DEF Spec, DepartedAreHalvedInARace

-----------------------------------------------------------------------------
(* Totals are sums. *)

\* What the sums of records are, by induction over finite sets.

Below == {ss \in Nat \X Nat : ss[1] < ss[2]}
LEMMA BelowWF == IsWellFoundedOn(Below, Nat)
<1>1. Below = OpToRel(<, Nat)
  BY DEF OpToRel, Below
<1> QED BY <1>1, NatLessThanWellFounded

\* A set of numbers has a least one.
LEMMA LeastNat ==
    ASSUME NEW T \in SUBSET Nat, T # {}
    PROVE  \E n \in T : \A m \in T : n <= m
<1>1. PICK n \in T : \A m \in T : ~ (<<m, n>> \in Below)
  BY BelowWF, WFMin
<1>2. \A m \in Nat : m < n => <<m, n>> \in Below
  <2> SUFFICES ASSUME NEW m \in Nat, m < n PROVE <<m, n>> \in Below
    OBVIOUS
  <2>1. <<m, n>> \in Nat \X Nat
    OBVIOUS
  <2> QED BY <2>1, Zenon DEF Below
<1>3. \A m \in T : ~ (m < n)
  BY <1>1, <1>2
<1>4. n \in Nat /\ \A m \in T : m \in Nat
  OBVIOUS
<1>5. \A m \in T : n <= m
  BY <1>3, <1>4
<1> QED BY <1>5

\* A set of subsets of a finite set has one that contains no other.
LEMMA LeastSet ==
    ASSUME NEW S, IsFiniteSet(S), NEW T \in SUBSET SUBSET S, T # {}
    PROVE  \E A \in T : \A B \in T : B \subseteq A => B = A
<1>1. IsWellFoundedOn(StrictSubsetOrdering(S), SUBSET S)
  BY FS_FiniteSubsetsOfFinite, FS_StrictSubsetOrderingWellFounded
<1>2. PICK A \in T : \A B \in T : ~ (<<B, A>> \in StrictSubsetOrdering(S))
  BY <1>1, WFMin
<1> QED BY <1>2 DEF StrictSubsetOrdering

\* What has the members of a set when it has those of the smaller ones has them all.
LEMMA SubsetInduction ==
    ASSUME NEW S, IsFiniteSet(S), NEW T,
         \A A \in SUBSET S : (\A B \in SUBSET A : B # A => B \in T) => A \in T
    PROVE  \A A \in SUBSET S : A \in T
<1> DEFINE M == {A \in SUBSET S : A \notin T}
<1> SUFFICES ASSUME M # {} PROVE FALSE
  OBVIOUS
<1>0. M \in SUBSET SUBSET S
  OBVIOUS
<1>1. PICK A \in M : \A B \in M : B \subseteq A => B = A
  <2> HIDE DEF M
  <2> QED BY <1>0, LeastSet
<1>2. \A B \in SUBSET A : B # A => B \in T
  BY <1>1
<1> QED BY <1>2

Pick(s) == CHOOSE x \in s : TRUE
SumsUp(f, S) == f = [s \in SUBSET S |-> IF s = {} THEN 0 ELSE Pick(s).point + f[s \ {Pick(s)}]]

\* The sum picks an element first.
LEMMA PickIn ==
    ASSUME NEW s, s # {}
    PROVE  Pick(s) \in s
BY DEF Pick

\* The recursive function that sums up a finite set exists: it does for the subsets
\* with at most n elements, or there would be a least n for which it does not.
LEMMA SumExists ==
    ASSUME NEW S, IsFiniteSet(S)
    PROVE  \E f : SumsUp(f, S)
<1> DEFINE Body(f, s) == IF s = {} THEN 0 ELSE Pick(s).point + f[s \ {Pick(s)}]
           Small(n) == {s \in SUBSET S : Cardinality(s) <= n}
           T == {n \in Nat : ~ \E f : DOMAIN f = SUBSET S /\ \A s \in Small(n) : f[s] = Body(f, s)}
<1>0. \A s \in SUBSET S :
        IsFiniteSet(s) /\ Cardinality(s) \in Nat /\ Cardinality(s) <= Cardinality(S)
  BY FS_Subset, FS_CardinalityType
<1>1. T = {}
  <2> SUFFICES ASSUME T # {} PROVE FALSE
    OBVIOUS
  <2>1. PICK n \in T : \A m \in T : n <= m
    BY LeastNat
  <2>2. CASE n = 0
    <3> DEFINE f == [s \in SUBSET S |-> 0]
    <3>1. \A s \in Small(0) : s = {}
      BY <1>0, FS_EmptySet
    <3>2. \A s \in Small(0) : f[s] = Body(f, s)
      BY <3>1
    <3>3. DOMAIN f = SUBSET S
      OBVIOUS
    <3> HIDE DEF f
    <3> QED BY <2>2, <3>2, <3>3
  <2>3. CASE n # 0
    <3>1. n - 1 \in Nat /\ n - 1 \notin T
      <4>1. n \in Nat /\ \A m \in T : m \in Nat /\ n <= m
        BY <2>1
      <4> HIDE DEF T
      <4> QED BY <4>1, <2>3
    <3>2. PICK f : DOMAIN f = SUBSET S /\ \A s \in Small(n - 1) : f[s] = Body(f, s)
      BY <3>1
    <3> DEFINE g == [s \in SUBSET S |-> Body(f, s)]
    <3>3. ASSUME NEW s \in Small(n) PROVE g[s] = Body(g, s)
      <4>1. CASE s = {}
        BY <4>1
      <4>2. CASE s # {}
        <5> DEFINE t == s \ {Pick(s)}
        <5>1. Cardinality(t) = Cardinality(s) - 1 /\ t \in SUBSET S
          BY <4>2, <1>0, PickIn, FS_RemoveElement
        <5>2. t \in Small(n - 1)
          BY <5>1, <1>0
        <5> HIDE DEF t
        <5>3. g[t] = f[t]
          BY <5>2, <3>2
        <5> QED BY <5>3, <4>2 DEF t
      <4> QED BY <4>1, <4>2
    <3>4. DOMAIN g = SUBSET S
      OBVIOUS
    <3> HIDE DEF g
    <3> QED BY <3>3, <3>4
  <2> QED BY <2>2, <2>3
<1>2. PICK f : DOMAIN f = SUBSET S /\ \A s \in Small(Cardinality(S)) : f[s] = Body(f, s)
  BY <1>0, <1>1
<1>3. \A s \in SUBSET S : f[s] = Body(f, s)
  BY <1>0, <1>2
<1> DEFINE g == [s \in SUBSET S |-> Body(f, s)]
<1>4. \A s \in SUBSET S : g[s] = f[s]
  BY <1>3
<1>5. \A s \in SUBSET S : Body(g, s) = Body(f, s)
  <2> SUFFICES ASSUME NEW s \in SUBSET S, s # {} PROVE g[s \ {Pick(s)}] = f[s \ {Pick(s)}]
    OBVIOUS
  <2> QED BY <1>4
<1>6. g = [s \in SUBSET S |-> Body(g, s)]
  BY <1>5
<1> QED BY <1>6 DEF SumsUp

\* Points as the function its definition chooses.
LEMMA SumIsChosen ==
    ASSUME NEW S
    PROVE  Points(S) = (CHOOSE f : SumsUp(f, S))[S]
BY DEF Points, MapThenSumSet, MapThenFoldSet, SumsUp, Pick


Integral(S) == \A r \in S : r.point \in Int
Sum(S) == CHOOSE f : SumsUp(f, S)

\* Points are what the recursive function says.
LEMMA SumOf ==
    ASSUME NEW S, IsFiniteSet(S)
    PROVE  SumsUp(Sum(S), S) /\ Points(S) = Sum(S)[S]
BY SumExists, SumIsChosen DEF Sum

\* They do not depend on the set the function was defined for.
LEMMA SumsAgree ==
    ASSUME NEW S, IsFiniteSet(S), NEW A \in SUBSET S
    PROVE  Sum(S)[A] = Points(A)
<1>0. IsFiniteSet(A)
  BY FS_Subset
<1> DEFINE f == Sum(S)  g == Sum(A)
           T == {B \in SUBSET A : f[B] = g[B]}
<1>1. SumsUp(f, S) /\ SumsUp(g, A)
  BY <1>0, SumOf
<1>2. ASSUME NEW B \in SUBSET A, \A C \in SUBSET B : C # B => C \in T PROVE B \in T
  <2>1. f[B] = IF B = {} THEN 0 ELSE Pick(B).point + f[B \ {Pick(B)}]
    <3> HIDE DEF f
    <3> QED BY <1>1 DEF SumsUp
  <2>2. g[B] = IF B = {} THEN 0 ELSE Pick(B).point + g[B \ {Pick(B)}]
    <3> HIDE DEF g
    <3> QED BY <1>1 DEF SumsUp
  <2>3. B # {} => B \ {Pick(B)} \in T
    BY <1>2, PickIn
  <2> HIDE DEF f, g
  <2> QED BY <2>1, <2>2, <2>3
<1>3. A \in T
  <2> HIDE DEF T
  <2> QED BY <1>0, <1>2, SubsetInduction
<1> QED BY <1>3, <1>0, SumOf

\* No records, no points.
LEMMA EmptyIsZero == Points({}) = 0
BY FS_EmptySet, SumOf DEF SumsUp

\* The defining equation of a sum.
LEMMA SumOfPicked ==
    ASSUME NEW S, IsFiniteSet(S), S # {}
    PROVE  Points(S) = Pick(S).point + Points(S \ {Pick(S)})
<1>1. Sum(S)[S] = Pick(S).point + Sum(S)[S \ {Pick(S)}]
  BY SumOf DEF SumsUp
<1>2. Sum(S)[S \ {Pick(S)}] = Points(S \ {Pick(S)})
  BY SumsAgree
<1> QED BY <1>1, <1>2, SumOf

\* A sum of integers is one.
LEMMA PointsInt ==
    ASSUME NEW S, IsFiniteSet(S), Integral(S)
    PROVE  Points(S) \in Int
<1> DEFINE T == {B \in SUBSET S : Points(B) \in Int}
<1>1. ASSUME NEW B \in SUBSET S, \A C \in SUBSET B : C # B => C \in T PROVE B \in T
  <2>1. CASE B = {}
    BY <2>1, EmptyIsZero
  <2>2. CASE B # {}
    <3>1. Points(B) = Pick(B).point + Points(B \ {Pick(B)})
      BY <2>2, FS_Subset, SumOfPicked
    <3>2. Points(B \ {Pick(B)}) \in Int /\ Pick(B).point \in Int
      BY <1>1, <2>2, PickIn DEF Integral
    <3> QED BY <3>1, <3>2
  <2> QED BY <2>1, <2>2
<1>2. S \in T
  <2> HIDE DEF T
  <2> QED BY <1>1, SubsetInduction
<1> QED BY <1>2

\* The order in which the points are added does not matter.
LEMMA WithoutOne ==
    ASSUME NEW S, IsFiniteSet(S), Integral(S), NEW x \in S
    PROVE  Points(S) = x.point + Points(S \ {x})
<1> DEFINE T == {B \in SUBSET S : \A y \in B : Points(B) = y.point + Points(B \ {y})}
<1>1. ASSUME NEW B \in SUBSET S, \A C \in SUBSET B : C # B => C \in T PROVE B \in T
  <2> SUFFICES ASSUME NEW y \in B PROVE Points(B) = y.point + Points(B \ {y})
    OBVIOUS
  <2> DEFINE p == Pick(B)
  <2>1. p \in B
    BY PickIn
  <2>2. Points(B) = p.point + Points(B \ {p})
    BY FS_Subset, SumOfPicked
  <2> HIDE DEF p
  <2>3. CASE p # y
    <3>1. Points(B \ {p}) = y.point + Points((B \ {p}) \ {y})
      BY <1>1, <2>1, <2>3
    <3>2. Points(B \ {y}) = p.point + Points((B \ {y}) \ {p})
      BY <1>1, <2>1, <2>3
    <3>3. (B \ {y}) \ {p} = (B \ {p}) \ {y}
      OBVIOUS
    <3>4. IsFiniteSet((B \ {p}) \ {y}) /\ Integral((B \ {p}) \ {y})
      BY FS_Subset DEF Integral
    <3>5. Points((B \ {p}) \ {y}) \in Int
      BY <3>4, PointsInt
    <3>6. p.point \in Int /\ y.point \in Int
      BY <2>1 DEF Integral
    <3>7. Points(B) = p.point + (y.point + Points((B \ {p}) \ {y}))
      BY <2>2, <3>1
    <3>8. Points(B \ {y}) = p.point + Points((B \ {p}) \ {y})
      BY <3>2, <3>3
    <3> QED BY <3>5, <3>6, <3>7, <3>8
  <2> QED BY <2>2, <2>3
<1>2. S \in T
  <2> HIDE DEF T
  <2> QED BY <1>1, SubsetInduction
<1> QED BY <1>2

\* Records of two sets that are apart.
LEMMA PointsOfBoth ==
    ASSUME NEW R, NEW S, IsFiniteSet(R), IsFiniteSet(S), Integral(R), Integral(S), R \cap S = {}
    PROVE  Points(R \cup S) = Points(R) + Points(S)
<1> DEFINE T == {B \in SUBSET S : Points(R \cup B) = Points(R) + Points(B)}
<1>0. Points(R) \in Int
  BY PointsInt
<1>1. ASSUME NEW B \in SUBSET S, \A C \in SUBSET B : C # B => C \in T PROVE B \in T
  <2>1. CASE B = {}
    BY <2>1, <1>0, EmptyIsZero
  <2>2. CASE B # {}
    <3>1. PICK x : x \in B
      BY <2>2
    <3>2. IsFiniteSet(B) /\ Integral(B) /\ IsFiniteSet(B \ {x}) /\ Integral(B \ {x})
      BY FS_Subset DEF Integral
    <3>3. IsFiniteSet(R \cup B) /\ Integral(R \cup B)
      BY <3>2, FS_Union DEF Integral
    <3>4. Points(R \cup B) = x.point + Points((R \cup B) \ {x})
      BY <3>1, <3>3, WithoutOne
    <3>5. Points(B) = x.point + Points(B \ {x})
      BY <3>1, <3>2, WithoutOne
    <3>6. (R \cup B) \ {x} = R \cup (B \ {x})
      BY <3>1
    <3>7. Points(R \cup (B \ {x})) = Points(R) + Points(B \ {x})
      BY <1>1, <3>1
    <3>8. Points(B \ {x}) \in Int /\ x.point \in Int
      BY <3>1, <3>2, PointsInt DEF Integral
    <3>9. Points(R \cup B) = x.point + (Points(R) + Points(B \ {x}))
      BY <3>4, <3>6, <3>7
    <3>10. Points(R \cup B) = Points(R) + Points(B)
      BY <1>0, <3>5, <3>8, <3>9
    <3> QED BY <3>10
  <2> QED BY <2>1, <2>2
<1>2. S \in T
  <2> HIDE DEF T
  <2> QED BY <1>1, SubsetInduction
<1> QED BY <1>2

-----------------------------------------------------------------------------
\* What totals are sums of.

Sums ==
    /\ ledger \subseteq Record /\ IsFiniteSet(ledger) /\ canceled \subseteq ledger
    /\ total \in [Students -> Int] /\ TotalIsSumOfRecords
    /\ reasonType \in [Reasons -> Types] /\ crashes \in Nat

Snapshots == \A o \in Operations : snap[o] \in SUBSET Record /\ IsFiniteSet(snap[o])

\* Whoever has written a record writes no more.
Written == \A r \in ledger : pc[r.by] \in {"settling", "done"}

\* A reset is of the total that is there.
SeenIsTotal ==
    /\ seen \in [Departures -> Int] /\ \A d \in Departures : caseOf[d] <= Len(cases)
    /\ \A d \in Departures : pc[d] = "resetting" => seen[d] = total[cases[caseOf[d]].student]

SumsInv == Sums /\ Snapshots /\ Written /\ SeenIsTotal

\* Points of records are integers.
LEMMA RecordsAreIntegral ==
    ASSUME NEW S \in SUBSET Record
    PROVE  Integral(S)
BY DEF Integral, Record

\* The update adds to every total the points of its student.
LEMMA NewTotals ==
    ASSUME Sums, NEW records \in SUBSET Record, IsFiniteSet(records), NEW sign \in {1, -1},
           AddToTotals(records, sign)
    PROVE  /\ total' \in [Students -> Int]
           /\ \A s \in Students : total'[s] = total[s] + sign * Points(Of(records, s))
<1>1. \A s \in Students : Points(Of(records, s)) \in Int
  <2> SUFFICES ASSUME NEW s \in Students PROVE Points(Of(records, s)) \in Int
    OBVIOUS
  <2>1. IsFiniteSet(Of(records, s)) /\ Of(records, s) \in SUBSET Record
    BY FS_Subset DEF Of
  <2> QED BY <2>1, RecordsAreIntegral, PointsInt
<1>2. \A s \in Students \ StudentsOf(records) : Points(Of(records, s)) = 0
  <2>1. \A s \in Students \ StudentsOf(records) : Of(records, s) = {}
    BY DEF Of, StudentsOf
  <2> QED BY <2>1, EmptyIsZero
<1>3. total \in [Students -> Int]
  BY DEF Sums
<1>4. total' = [s \in Students |-> IF s \in StudentsOf(records)
                   THEN total[s] + sign * Points(Of(records, s)) ELSE total[s]]
  BY DEF AddToTotals
<1>5. \A s \in Students : total'[s] \in Int /\ total'[s] = total[s] + sign * Points(Of(records, s))
  <2> SUFFICES ASSUME NEW s \in Students
               PROVE  total'[s] \in Int /\ total'[s] = total[s] + sign * Points(Of(records, s))
    OBVIOUS
  <2> DEFINE n == Points(Of(records, s))
  <2>1. n \in Int /\ total[s] \in Int
    BY <1>1, <1>3
  <2>2. s \notin StudentsOf(records) => n = 0
    BY <1>2
  <2>3. total'[s] = IF s \in StudentsOf(records) THEN total[s] + sign * n ELSE total[s]
    BY <1>4
  <2> HIDE DEF n
  <2>4. total'[s] \in Int /\ total'[s] = total[s] + sign * n
    BY <2>1, <2>2, <2>3
  <2> QED BY <2>4 DEF n
<1> QED BY <1>4, <1>5

\* Records that come add their points, records that go take them away.
LEMMA PointsOfMore ==
    ASSUME NEW A, NEW B, IsFiniteSet(A), IsFiniteSet(B), A \subseteq Record, B \subseteq Record,
           A \cap B = {}, NEW s
    PROVE  /\ Points(Of(A \cup B, s)) = Points(Of(A, s)) + Points(Of(B, s))
           /\ Points(Of(A, s)) \in Int /\ Points(Of(B, s)) \in Int
<1>1. /\ IsFiniteSet(Of(A, s)) /\ Integral(Of(A, s)) /\ IsFiniteSet(Of(B, s)) /\ Integral(Of(B, s))
      /\ Of(A \cup B, s) = Of(A, s) \cup Of(B, s) /\ Of(A, s) \cap Of(B, s) = {}
  BY FS_Subset, RecordsAreIntegral DEF Of
<1> QED BY <1>1, PointsOfBoth, PointsInt

\* One record that comes.
LEMMA PointsOfOneMore ==
    ASSUME NEW A, IsFiniteSet(A), A \subseteq Record, NEW r \in Record, r \notin A, NEW s
    PROVE  /\ Points(Of(A \cup {r}, s)) = Points(Of(A, s)) + Points(Of({r}, s))
           /\ Points(Of(A, s)) \in Int /\ Points(Of({r}, s)) \in Int
<1> DEFINE B == {r}
<1>1. IsFiniteSet(B) /\ B \subseteq Record /\ A \cap B = {}
  BY FS_Singleton
<1> HIDE DEF B
<1>2. /\ Points(Of(A \cup B, s)) = Points(Of(A, s)) + Points(Of(B, s))
      /\ Points(Of(A, s)) \in Int /\ Points(Of(B, s)) \in Int
  BY <1>1, PointsOfMore
<1> QED BY <1>2 DEF B

\* Records that are inserted and added to the totals leave totals the sums they were.
LEMMA InsertAddsUp ==
    ASSUME Sums, NEW records \in SUBSET Record, IsFiniteSet(records), records \cap ledger = {},
           Insert(records)
    PROVE  /\ ledger' \subseteq Record /\ IsFiniteSet(ledger') /\ canceled' \subseteq ledger'
           /\ total' \in [Students -> Int] /\ TotalIsSumOfRecords'
           /\ Active' = Active \cup records /\ Active \cap records = {}
<1>1. ledger' = ledger \cup records /\ canceled' = canceled /\ AddToTotals(records, 1)
  BY DEF Insert
<1>2. ledger' \subseteq Record /\ IsFiniteSet(ledger') /\ canceled' \subseteq ledger'
  BY <1>1, FS_Union DEF Sums
<1>3. /\ total' \in [Students -> Int]
      /\ \A s \in Students : total'[s] = total[s] + 1 * Points(Of(records, s))
  BY <1>1, NewTotals
<1>4. Active' = Active \cup records /\ Active \cap records = {}
  BY <1>1 DEF Active, Sums
<1>5. IsFiniteSet(Active) /\ Active \subseteq Record
  BY FS_Subset DEF Active, Sums
<1>6. ASSUME NEW s \in Students PROVE total'[s] = Points(Of(Active', s))
  <2>1. Points(Of(Active \cup records, s)) = Points(Of(Active, s)) + Points(Of(records, s))
        /\ Points(Of(Active, s)) \in Int /\ Points(Of(records, s)) \in Int
    BY <1>4, <1>5, PointsOfMore
  <2>2. total[s] = Points(Of(Active, s)) /\ total'[s] = total[s] + 1 * Points(Of(records, s))
    BY <1>3 DEF Sums, TotalIsSumOfRecords
  <2>3. Points(Of(Active', s)) = Points(Of(Active \cup records, s))
    BY <1>4
  <2> QED BY <2>1, <2>2, <2>3
<1> QED BY <1>2, <1>3, <1>4, <1>6 DEF TotalIsSumOfRecords

\* What a grant or a batch records.
LEMMA GrantedIsFinite ==
    ASSUME Sums, NEW c \in Grants \cup Batches
    PROVE  Granted(c) \in SUBSET Record /\ IsFiniteSet(Granted(c))
<1> DEFINE R(i) == [by |-> c, item |-> i, student |-> StudentOf[i],
                    type |-> reasonType[ReasonOf[i]], point |-> PointOf[i]]
           f == [i \in ItemsOf[c] |-> R(i)]
<1>1. Granted(c) = {R(i) : i \in ItemsOf[c]}
  BY DEF Granted
<1>2. f \in Surjection(ItemsOf[c], Granted(c))
  BY <1>1 DEF Surjection
<1>3. IsFiniteSet(ItemsOf[c]) /\ ItemsOf[c] \subseteq Items
  BY MapAssumption
<1>4. \A i \in ItemsOf[c] : R(i) \in Record
  BY <1>3, MapAssumption DEF Sums, Record, Calls, Operations
<1>5. IsFiniteSet(Granted(c))
  <2> HIDE DEF f
  <2> QED BY <1>2, <1>3, FS_Surjection
<1> QED BY <1>1, <1>4, <1>5

\* Floors of halves.
LEMMA HalfOf ==
    ASSUME NEW n \in Nat
    PROVE  Halved(n) \in Nat /\ Halved(n) <= n /\ Halved(n) = n \div 2
BY DEF Halved

\* Merit and penalty are not negative.
LEMMA AtLeastZeroIsNat ==
    ASSUME NEW n \in Int
    PROVE  AtLeastZero(n) \in Nat
BY DEF AtLeastZero

LEMMA MeritIsNat ==
    ASSUME NEW R \in SUBSET Record, IsFiniteSet(R)
    PROVE  Merit(R) \in Nat /\ Penalty(R) \in Nat
<1>1. /\ IsFiniteSet(Merits(R)) /\ Integral(Merits(R))
      /\ IsFiniteSet(Penalties(R)) /\ Integral(Penalties(R))
  BY FS_Subset, RecordsAreIntegral DEF Merits, Penalties
<1>2. Points(Merits(R)) \in Int /\ Points(Penalties(R)) \in Int
  BY <1>1, PointsInt
<1> QED BY <1>2, AtLeastZeroIsNat DEF Merit, Penalty

HalvesOf(h, s) ==
    LET merit == Merit(Of(snap[h], s))
        penalty == Penalty(Of(snap[h], s))
    IN  HalfRecord(h, s, "merit half", Halved(merit) - merit)
          \cup HalfRecord(h, s, "penalty half", penalty - Halved(penalty))

\* What a half writes.
LEMMA HalfRecordTyped ==
    ASSUME NEW h \in Halves, NEW s \in Students, NEW item \in SystemItems, NEW n \in Int
    PROVE  HalfRecord(h, s, item, n) \in SUBSET Record /\ IsFiniteSet(HalfRecord(h, s, item, n))
<1>1. [by |-> h, item |-> item, student |-> s, type |-> "ETC", point |-> n] \in Record
  BY DEF Record, Calls, Operations, Types
<1> QED BY <1>1, FS_EmptySet, FS_Singleton DEF HalfRecord

LEMMA HalvesOfTyped ==
    ASSUME Snapshots, NEW h \in Halves, NEW s \in Students
    PROVE  HalvesOf(h, s) \in SUBSET Record /\ IsFiniteSet(HalvesOf(h, s))
<1>1. Of(snap[h], s) \in SUBSET Record /\ IsFiniteSet(Of(snap[h], s))
  BY FS_Subset DEF Snapshots, Operations, Of
<1> DEFINE m == Merit(Of(snap[h], s))  p == Penalty(Of(snap[h], s))
<1>2. m \in Nat /\ p \in Nat
  BY <1>1, MeritIsNat
<1> HIDE DEF m, p
<1>3. Halved(m) - m \in Int /\ p - Halved(p) \in Int
  BY <1>2, HalfOf
<1>4. \A item \in {"merit half", "penalty half"}, n \in Int :
        HalfRecord(h, s, item, n) \in SUBSET Record /\ IsFiniteSet(HalfRecord(h, s, item, n))
  BY HalfRecordTyped DEF SystemItems
<1>5. HalvesOf(h, s) = HalfRecord(h, s, "merit half", Halved(m) - m)
                         \cup HalfRecord(h, s, "penalty half", p - Halved(p))
  BY DEF HalvesOf, m, p
<1> DEFINE a == HalfRecord(h, s, "merit half", Halved(m) - m)
           b == HalfRecord(h, s, "penalty half", p - Halved(p))
<1>6. a \in SUBSET Record /\ IsFiniteSet(a) /\ b \in SUBSET Record /\ IsFiniteSet(b)
  BY <1>3, <1>4
<1>7. HalvesOf(h, s) = a \cup b
  BY <1>5
<1> HIDE DEF a, b
<1> QED BY <1>6, <1>7, FS_Union

LEMMA HalfRecordsAre ==
    ASSUME Snapshots, NEW h \in Halves
    PROVE  /\ HalfRecords(h) \in SUBSET Record /\ IsFiniteSet(HalfRecords(h))
           /\ HalfRecords(h) = UNION {HalvesOf(h, s) : s \in StudentsOf(snap[h])}
<1>1. HalfRecords(h) = UNION {HalvesOf(h, s) : s \in StudentsOf(snap[h])}
  BY DEF HalfRecords, HalvesOf
<1>2. snap[h] \in SUBSET Record /\ IsFiniteSet(snap[h])
  BY DEF Snapshots, Operations
<1>3. StudentsOf(snap[h]) \in SUBSET Students
  BY <1>2 DEF StudentsOf, Record
<1>4. IsFiniteSet(StudentsOf(snap[h]))
  BY <1>3, StudentAssumption, FS_Subset
<1> DEFINE f == [s \in StudentsOf(snap[h]) |-> HalvesOf(h, s)]
           Q == {HalvesOf(h, s) : s \in StudentsOf(snap[h])}
<1>5. f \in Surjection(StudentsOf(snap[h]), Q)
  BY DEF Surjection
<1>6. IsFiniteSet(Q)
  <2> HIDE DEF f, Q
  <2> QED BY <1>4, <1>5, FS_Surjection
<1>7. \A x \in Q : x \in SUBSET Record /\ IsFiniteSet(x)
  BY <1>3, HalvesOfTyped
<1>8. IsFiniteSet(UNION Q)
  <2> HIDE DEF Q
  <2> QED BY <1>6, <1>7, FS_UNION
<1>9. HalfRecords(h) = UNION Q
  BY <1>1
<1> HIDE DEF Q
<1>10. UNION Q \in SUBSET Record
  BY <1>7
<1>11. HalfRecords(h) \in SUBSET Record /\ IsFiniteSet(HalfRecords(h))
  BY <1>8, <1>9, <1>10
<1> QED BY <1>1, <1>11

\* What Sums depends on.
LEMMA SumsSame ==
    ASSUME Sums, UNCHANGED recordVars, reasonType' \in [Reasons -> Types], crashes' \in Nat
    PROVE  Sums'
BY DEF Sums, recordVars, TotalIsSumOfRecords, Active

\* Records nobody has written before.
LEMMA NobodysRecords ==
    ASSUME Written, NEW c \in Calls, pc[c] \notin {"settling", "done"},
           NEW records, \A r \in records : r.by = c
    PROVE  records \cap ledger = {}
BY DEF Written

\* A reason keeps a type.
LEMMA ReasonsAreTyped ==
    ASSUME Sums, NEW e, UpdateReason(e)
    PROVE  reasonType' \in [Reasons -> Types]
BY DEF Sums, UpdateReason

\* Records that are canceled are taken from the totals.
LEMMA CancelAddsUp ==
    ASSUME Sums, NEW records \in SUBSET Active, CancelRecords(records)
    PROVE  Sums'
<1>1. ledger' = ledger /\ canceled' = canceled \cup records /\ AddToTotals(records, -1)
      /\ UNCHANGED <<reasonType, crashes>>
  BY DEF CancelRecords
<1>2. IsFiniteSet(Active) /\ Active \subseteq Record
  BY FS_Subset DEF Active, Sums
<1>3. records \in SUBSET Record /\ IsFiniteSet(records)
  BY <1>2, FS_Subset
<1>4. /\ total' \in [Students -> Int]
      /\ \A s \in Students : total'[s] = total[s] + (-1) * Points(Of(records, s))
  BY <1>1, <1>3, NewTotals
<1>5. Active' = Active \ records
  BY <1>1 DEF Active
<1>6. Active = (Active \ records) \cup records /\ IsFiniteSet(Active \ records)
      /\ Active \ records \subseteq Record /\ (Active \ records) \cap records = {}
  BY <1>2, FS_Subset
<1>7. ASSUME NEW s \in Students PROVE total'[s] = Points(Of(Active', s))
  <2>1. Points(Of((Active \ records) \cup records, s))
          = Points(Of(Active \ records, s)) + Points(Of(records, s))
        /\ Points(Of(Active \ records, s)) \in Int /\ Points(Of(records, s)) \in Int
    BY <1>3, <1>6, PointsOfMore
  <2>2. total[s] = Points(Of(Active, s)) /\ total'[s] = total[s] + (-1) * Points(Of(records, s))
    BY <1>4 DEF Sums, TotalIsSumOfRecords
  <2>3. Points(Of(Active', s)) = Points(Of(Active \ records, s))
        /\ Points(Of(Active, s)) = Points(Of((Active \ records) \cup records, s))
    BY <1>5, <1>6
  <2> QED BY <2>1, <2>2, <2>3
<1>8. canceled' \subseteq ledger'
  BY <1>1 DEF Active, Sums
<1> QED BY <1>1, <1>4, <1>7, <1>8 DEF Sums, TotalIsSumOfRecords

\* A record that is restored is added again.
LEMMA RestoreAddsUp ==
    ASSUME Sums, NEW r \in ledger, RestoreRecord(r)
    PROVE  Sums'
<1>1. ledger' = ledger /\ canceled' = canceled \ {r} /\ AddToTotals({r}, 1) /\ r \in canceled
      /\ UNCHANGED <<reasonType, crashes>>
  BY DEF RestoreRecord
<1>2. IsFiniteSet(Active) /\ Active \subseteq Record /\ r \notin Active
  BY <1>1, FS_Subset DEF Active, Sums
<1>3. {r} \in SUBSET Record /\ IsFiniteSet({r})
  BY FS_Singleton DEF Sums
<1>4. /\ total' \in [Students -> Int]
      /\ \A s \in Students : total'[s] = total[s] + 1 * Points(Of({r}, s))
  BY <1>1, <1>3, NewTotals
<1>5. Active' = Active \cup {r}
  BY <1>1 DEF Active
<1>7. ASSUME NEW s \in Students PROVE total'[s] = Points(Of(Active', s))
  <2>1. Points(Of(Active \cup {r}, s)) = Points(Of(Active, s)) + Points(Of({r}, s))
        /\ Points(Of(Active, s)) \in Int /\ Points(Of({r}, s)) \in Int
    BY <1>2, PointsOfOneMore DEF Sums
  <2>2. total[s] = Points(Of(Active, s)) /\ total'[s] = total[s] + 1 * Points(Of({r}, s))
    BY <1>4 DEF Sums, TotalIsSumOfRecords
  <2>3. Points(Of(Active', s)) = Points(Of(Active \cup {r}, s))
    BY <1>5
  <2> QED BY <2>1, <2>2, <2>3
<1>8. canceled' \subseteq ledger'
  BY <1>1 DEF Sums
<1> QED BY <1>1, <1>4, <1>7, <1>8 DEF Sums, TotalIsSumOfRecords

\* What inserts keep.
LEMMA InsertKeeps ==
    ASSUME Sums, NEW records \in SUBSET Record, IsFiniteSet(records), records \cap ledger = {},
           Insert(records), UNCHANGED <<reasonType, crashes>>
    PROVE  Sums'
<1>1. /\ ledger' \subseteq Record /\ IsFiniteSet(ledger') /\ canceled' \subseteq ledger'
      /\ total' \in [Students -> Int] /\ TotalIsSumOfRecords'
  BY InsertAddsUp
<1> QED BY <1>1 DEF Sums

\* The reset brings the sum to the zero that is written.
LEMMA ResetAddsUp ==
    ASSUME Shape, Sums, Written, SeenIsTotal, NEW d \in Departures, CompleteDeparture(d)
    PROVE  Sums'
<1> DEFINE s0 == cases[caseOf[d]].student
           r == [by |-> d, item |-> "reset", student |-> s0, type |-> "ETC", point |-> -seen[d]]
<1>1. /\ pc[d] = "resetting" /\ ledger' = ledger \cup {r} /\ total' = [total EXCEPT ![s0] = 0]
      /\ UNCHANGED <<canceled, reasonType, crashes>>
  BY DEF CompleteDeparture
<1>2. s0 \in Students
  BY <1>1, LockedStudents
<1>3. seen[d] \in Int /\ seen[d] = total[s0]
  BY <1>1 DEF SeenIsTotal
<1>4. r \in Record
  BY <1>2, <1>3 DEF Record, Calls, SystemItems, Types
<1>5. r.by = d /\ r.student = s0 /\ r.point = -seen[d]
  OBVIOUS
<1> HIDE DEF r
<1>6. r \notin ledger
  BY <1>1, <1>5 DEF Written
<1>7. {r} \in SUBSET Record /\ IsFiniteSet({r})
  BY <1>4, FS_Singleton
<1>8. IsFiniteSet(Active) /\ Active \subseteq Record /\ Active \cap {r} = {}
  BY <1>6, FS_Subset DEF Active, Sums
<1>9. Active' = Active \cup {r}
  BY <1>1, <1>6 DEF Active, Sums
<1>10. total \in [Students -> Int]
  BY DEF Sums
<1>11. /\ total' \in [Students -> Int] /\ total'[s0] = 0
       /\ \A s \in Students : s # s0 => total'[s] = total[s]
  BY <1>1, <1>2, <1>10
<1>12. Points({r}) = r.point
  <2>1. Points({r}) = r.point + Points({r} \ {r})
    BY <1>7, RecordsAreIntegral, WithoutOne
  <2>2. {r} \ {r} = {}
    OBVIOUS
  <2>3. r.point \in Int
    BY <1>3, <1>5
  <2> QED BY <2>1, <2>2, <2>3, EmptyIsZero
<1> HIDE DEF s0
<1>13. ASSUME NEW s \in Students PROVE total'[s] = Points(Of(Active', s))
  <2>1. Points(Of(Active \cup {r}, s)) = Points(Of(Active, s)) + Points(Of({r}, s))
        /\ Points(Of(Active, s)) \in Int /\ Points(Of({r}, s)) \in Int
    BY <1>4, <1>6, <1>8, PointsOfOneMore DEF Active
  <2>2. total[s] = Points(Of(Active, s))
    BY DEF Sums, TotalIsSumOfRecords
  <2>3. Points(Of(Active', s)) = Points(Of(Active \cup {r}, s))
    BY <1>9
  <2>4. CASE s = s0
    <3>1. Of({r}, s) = {r}
      BY <1>5, <2>4 DEF Of
    <3>2. Points(Of({r}, s)) = - total[s]
      BY <1>3, <1>5, <1>12, <2>4, <3>1
    <3> QED BY <1>11, <2>1, <2>2, <2>3, <2>4, <3>2
  <2>5. CASE s # s0
    <3>1. Of({r}, s) = {}
      BY <1>5, <2>5 DEF Of
    <3>2. Points(Of({r}, s)) = 0
      BY <3>1, EmptyIsZero
    <3> QED BY <1>11, <2>1, <2>2, <2>3, <2>5, <3>2
  <2> QED BY <2>4, <2>5
<1>14. ledger' \subseteq Record /\ IsFiniteSet(ledger') /\ canceled' \subseteq ledger'
  BY <1>1, <1>4, <1>7, FS_Union DEF Sums
<1> QED BY <1>1, <1>11, <1>13, <1>14 DEF Sums, TotalIsSumOfRecords

\* Every step keeps totals the sums of what counts.
LEMMA SumsKept ==
    ASSUME IInv, SumsInv, Next
    PROVE  Sums'
<1> USE DEF SumsInv
<1>0. reasonType \in [Reasons -> Types] /\ crashes \in Nat
  BY DEF Sums
<1>1. ASSUME NEW g \in Grants, CreateRecord(g) PROVE Sums'
  <2>1. Granted(g) \in SUBSET Record /\ IsFiniteSet(Granted(g))
    BY GrantedIsFinite
  <2>2. \A r \in Granted(g) : r.by = g
    BY GrantedRecords
  <2>3. Granted(g) \cap ledger = {}
    BY <1>1, <2>2, NobodysRecords DEF CreateRecord, Calls
  <2> QED BY <1>1, <2>1, <2>3, InsertKeeps DEF CreateRecord
<1>2. ASSUME NEW o \in Operations, CommitBatch(o) PROVE Sums'
  <2>1. o \in Batches /\ pc[o] = "read" /\ Insert(snap[o]) /\ UNCHANGED <<reasonType, crashes>>
    BY <1>2 DEF CommitBatch
  <2>2. \A r \in snap[o] : r.by = o
    BY <2>1 DEF IInv, Once
  <2>3. snap[o] \cap ledger = {}
    BY <2>1, <2>2, NobodysRecords DEF Calls
  <2>4. snap[o] \in SUBSET Record /\ IsFiniteSet(snap[o])
    BY DEF Snapshots
  <2> QED BY <2>1, <2>3, <2>4, InsertKeeps
<1>3. ASSUME NEW o \in Operations, CommitHalf(o) PROVE Sums'
  <2>1. pc[o] = "signing" /\ Insert(HalfRecords(o)) /\ UNCHANGED <<reasonType, crashes>>
    BY <1>3 DEF CommitHalf
  <2>2. o \in Halves
    BY <2>1 DEF IInv, Once
  <2>3. \A r \in HalfRecords(o) : r.by = o
    BY HalfRecordsBy
  <2>4. HalfRecords(o) \cap ledger = {}
    BY <2>1, <2>3, NobodysRecords DEF Calls
  <2>5. HalfRecords(o) \in SUBSET Record /\ IsFiniteSet(HalfRecords(o))
    BY <2>2, HalfRecordsAre
  <2> QED BY <2>1, <2>4, <2>5, InsertKeeps
<1>4. ASSUME NEW records \in SUBSET Active, CancelRecords(records) PROVE Sums'
  BY <1>4, CancelAddsUp
<1>5. ASSUME NEW r \in ledger, RestoreRecord(r) PROVE Sums'
  BY <1>5, RestoreAddsUp
<1>6. ASSUME NEW e \in ReasonEdits, UpdateReason(e) PROVE Sums'
  BY <1>0, <1>6, ReasonsAreTyped, SumsSame DEF UpdateReason
<1>7. ASSUME NEW p \in Processes, Crash(p) PROVE Sums'
  <2>1. crashes' \in Nat /\ UNCHANGED <<recordVars, reasonType>>
    BY <1>0, <1>7 DEF Crash
  <2> QED BY <1>0, <2>1, SumsSame
<1>8. ASSUME UNCHANGED <<recordVars, reasonType, crashes>> PROVE Sums'
  BY <1>0, <1>8, SumsSame
<1>9. ASSUME NEW d \in Departures, CompleteDeparture(d) PROVE Sums'
  BY <1>9, ResetAddsUp DEF IInv
<1>10. ASSUME NEW o \in Operations,
              \/ RunIdempotent(o) \/ ReadSnapshot(o) \/ LockActor(o)
              \/ OperationFails(o) \/ Settle(o)
       PROVE  UNCHANGED <<recordVars, reasonType, crashes>>
  BY <1>10 DEF RunIdempotent, ReadSnapshot, LockActor, OperationFails, Settle
<1>11. ASSUME NEW y \in Syncs, ReadCandidates(y) \/ InsertCandidates(y)
       PROVE  UNCHANGED <<recordVars, reasonType, crashes>>
  BY <1>11 DEF ReadCandidates, InsertCandidates
<1>12. ASSUME NEW d \in Departures, Approve(d) \/ ChooseCase(d) \/ LockCase(d) \/ DepartureFails(d)
       PROVE  UNCHANGED <<recordVars, reasonType, crashes>>
  BY <1>12 DEF Approve, ChooseCase, LockCase, DepartureFails
<1>13. ASSUME NEW x \in Dismissals, Dismiss(x) PROVE UNCHANGED <<recordVars, reasonType, crashes>>
  BY <1>13 DEF Dismiss
<1> QED BY <1>1, <1>2, <1>3, <1>4, <1>5, <1>6, <1>7, <1>8, <1>9, <1>10, <1>11, <1>12, <1>13
        DEF Next, OperationStep, DepartureStep

Finished(c) == pc[c] \in {"settling", "done"}

\* A call that has finished stays finished, and whoever writes a record has finished.
LEMMA FinishedStays ==
    ASSUME Shape, Next
    PROVE  \A c \in Calls : Finished(c) => Finished(c)'
<1> USE DEF Goto
<1> DEFINE Moves == \E c, l : (pc[c] \notin {"settling", "done"} \/ l = "done")
                              /\ pc' = [pc EXCEPT ![c] = l]
<1>1. pc \in [Calls -> Places]
  BY DEF Shape
<1>2. ASSUME UNCHANGED pc PROVE \A c \in Calls : Finished(c) => Finished(c)'
  BY <1>2 DEF Finished
<1>3. ASSUME Moves PROVE \A c \in Calls : Finished(c) => Finished(c)'
  BY <1>1, <1>3 DEF Finished
<1>4. ASSUME NEW p, Crash(p) PROVE \A c \in Calls : Finished(c) => Finished(c)'
  BY <1>4 DEF Crash, Finished
<1>5. ASSUME NEW x, \/ CreateRecord(x) \/ UpdateReason(x) \/ ReadCandidates(x)
                   \/ InsertCandidates(x) \/ Dismiss(x)
      PROVE  Moves
  BY <1>5 DEF CreateRecord, UpdateReason, ReadCandidates, InsertCandidates, Dismiss
<1>6. ASSUME NEW o \in Operations, OperationStep(o) PROVE Moves
  <2>1. CASE RunIdempotent(o)
    BY <2>1 DEF RunIdempotent
  <2>2. CASE ReadSnapshot(o)
    BY <2>2 DEF ReadSnapshot
  <2>3. CASE CommitBatch(o) \/ LockActor(o) \/ CommitHalf(o) \/ OperationFails(o) \/ Settle(o)
    BY <2>3 DEF CommitBatch, LockActor, CommitHalf, OperationFails, Settle
  <2> QED
    BY <1>6, <2>1, <2>2, <2>3 DEF OperationStep
<1>7. ASSUME NEW d \in Departures, DepartureStep(d) PROVE Moves
  BY <1>7 DEF DepartureStep, Approve, ChooseCase, LockCase, CompleteDeparture, DepartureFails
<1>8. ASSUME NEW x, CancelRecords(x) \/ RestoreRecord(x) PROVE UNCHANGED pc
  BY <1>8 DEF CancelRecords, RestoreRecord
<1> HIDE DEF Moves
<1> QED
  BY <1>2, <1>3, <1>4, <1>5, <1>6, <1>7, <1>8 DEF Next

\* Every step but those that write leaves the ledger as it is, and those finish a call.
LEMMA WrittenKept ==
    ASSUME IInv, SumsInv, Next
    PROVE  Written'
<1> USE DEF IInv, SumsInv
<1>1. \A r \in ledger : r.by \in Calls /\ Finished(r.by)
  BY DEF Sums, Written, Record, Finished
<1>2. ASSUME UNCHANGED ledger PROVE Written'
  BY <1>1, <1>2, FinishedStays DEF Written, Finished
<1>3. ASSUME NEW c \in Calls, NEW records, ledger' = ledger \cup records,
             \A r \in records : r.by = c, Finished(c)'
      PROVE  Written'
  BY <1>1, <1>3, FinishedStays DEF Written, Finished
<1>4. pc \in [Calls -> Places]
  BY DEF Shape
<1>5. ASSUME NEW g \in Grants, CreateRecord(g) PROVE Written'
  <2>1. g \in Calls /\ pc' = [pc EXCEPT ![g] = "done"] /\ ledger' = ledger \cup Granted(g)
    BY <1>5 DEF CreateRecord, Insert, Goto, Calls
  <2>2. Finished(g)'
    BY <1>4, <2>1 DEF Finished
  <2>3. \A r \in Granted(g) : r.by = g
    BY GrantedRecords
  <2> QED BY <1>3, <2>1, <2>2, <2>3
<1>6. ASSUME NEW o \in Operations, CommitBatch(o) PROVE Written'
  <2>1. /\ o \in Batches /\ o \in Calls /\ pc' = [pc EXCEPT ![o] = "settling"]
        /\ ledger' = ledger \cup snap[o]
    BY <1>6 DEF CommitBatch, Insert, Goto, Calls
  <2>2. Finished(o)'
    BY <1>4, <2>1 DEF Finished
  <2>3. \A r \in snap[o] : r.by = o
    BY <2>1 DEF Once
  <2> QED BY <1>3, <2>1, <2>2, <2>3
<1>7. ASSUME NEW o \in Operations, CommitHalf(o) PROVE Written'
  <2>1. o \in Calls /\ pc' = [pc EXCEPT ![o] = "settling"] /\ ledger' = ledger \cup HalfRecords(o)
    BY <1>7 DEF CommitHalf, Insert, Goto, Calls
  <2>2. Finished(o)'
    BY <1>4, <2>1 DEF Finished
  <2>3. \A r \in HalfRecords(o) : r.by = o
    BY HalfRecordsBy
  <2> QED BY <1>3, <2>1, <2>2, <2>3
<1>8. ASSUME NEW d \in Departures, CompleteDeparture(d) PROVE Written'
  <2>1. PICK n, s : ledger' = ledger \cup {[by |-> d, item |-> "reset", student |-> s,
                                           type |-> "ETC", point |-> n]}
    BY <1>8 DEF CompleteDeparture
  <2> DEFINE resets == {[by |-> d, item |-> "reset", student |-> s, type |-> "ETC", point |-> n]}
  <2>2. d \in Calls /\ pc' = [pc EXCEPT ![d] = "done"] /\ ledger' = ledger \cup resets
    BY <1>8, <2>1 DEF CompleteDeparture, Goto, Calls
  <2>3. Finished(d)'
    BY <1>4, <2>2 DEF Finished
  <2>4. \A r \in resets : r.by = d
    OBVIOUS
  <2> HIDE DEF resets
  <2> QED BY <1>3, <2>2, <2>3, <2>4
<1>9. ASSUME NEW o \in Operations, OperationStep(o), ~CommitBatch(o), ~CommitHalf(o)
      PROVE  UNCHANGED ledger
  BY <1>9 DEF OperationStep, RunIdempotent, ReadSnapshot, LockActor, OperationFails, Settle,
              recordVars
<1>10. ASSUME NEW d \in Departures, DepartureStep(d), ~CompleteDeparture(d)
      PROVE  UNCHANGED ledger
  BY <1>10 DEF DepartureStep, Approve, ChooseCase, LockCase, DepartureFails, recordVars
<1>11. ASSUME NEW records, CancelRecords(records) PROVE UNCHANGED ledger
  BY <1>11 DEF CancelRecords
<1>12. ASSUME NEW x, \/ RestoreRecord(x) \/ UpdateReason(x) \/ Crash(x)
                    \/ ReadCandidates(x) \/ InsertCandidates(x) \/ Dismiss(x)
      PROVE  UNCHANGED ledger
  BY <1>12 DEF RestoreRecord, UpdateReason, Crash, ReadCandidates, InsertCandidates, Dismiss,
              recordVars
<1> HIDE DEF IInv, SumsInv
<1> QED
  BY <1>2, <1>5, <1>6, <1>7, <1>8, <1>9, <1>10, <1>11, <1>12 DEF Next

\* What operations build is finite.
LEMMA SnapshotsKept ==
    ASSUME IInv, SumsInv, Next
    PROVE  Snapshots'
<1> USE DEF SumsInv
<1>1. ASSUME UNCHANGED snap PROVE Snapshots'
  BY <1>1 DEF Snapshots
<1>2. ASSUME NEW o \in Operations, NEW records \in SUBSET Record, IsFiniteSet(records),
             snap' = [snap EXCEPT ![o] = records]
      PROVE  Snapshots'
  <2>1. DOMAIN snap = Operations
    BY DEF IInv, Shape
  <2>2. \A q \in Operations : snap'[q] = IF q = o THEN records ELSE snap[q]
    BY <1>2, <2>1
  <2> QED BY <1>2, <2>2 DEF Snapshots
<1>3. ASSUME NEW o \in Operations, ReadSnapshot(o) PROVE Snapshots'
  <2>1. CASE UNCHANGED snap
    BY <1>1, <2>1
  <2>2. CASE snap' = [snap EXCEPT ![o] = ReadEntries]
    <3>1. ReadEntries \in SUBSET Record /\ IsFiniteSet(ReadEntries)
      BY FS_Subset DEF ReadEntries, Active, Sums
    <3> QED BY <1>2, <2>2, <3>1
  <2>3. CASE o \in Batches /\ snap' = [snap EXCEPT ![o] = Granted(o)]
    <3>1. Granted(o) \in SUBSET Record /\ IsFiniteSet(Granted(o))
      BY <2>3, GrantedIsFinite
    <3> QED BY <1>2, <2>3, <3>1
  <2> QED BY <1>3, <2>1, <2>2, <2>3 DEF ReadSnapshot
<1>4. ASSUME NEW o \in Operations, OperationStep(o), ~ReadSnapshot(o) PROVE UNCHANGED snap
  BY <1>4 DEF OperationStep, RunIdempotent, CommitBatch, LockActor, CommitHalf, OperationFails,
              Settle, operationVars
<1>5. ASSUME NEW d \in Departures, DepartureStep(d) PROVE UNCHANGED snap
  BY <1>5 DEF DepartureStep, Approve, ChooseCase, LockCase, CompleteDeparture, DepartureFails,
              operationVars
<1>6. ASSUME NEW x, \/ CancelRecords(x) \/ RestoreRecord(x) \/ UpdateReason(x) \/ Crash(x)
                    \/ CreateRecord(x) \/ ReadCandidates(x) \/ InsertCandidates(x) \/ Dismiss(x)
      PROVE  UNCHANGED snap
  BY <1>6 DEF CancelRecords, RestoreRecord, UpdateReason, Crash, CreateRecord, ReadCandidates,
              InsertCandidates, Dismiss, operationVars
<1> QED BY <1>1, <1>3, <1>4, <1>5, <1>6 DEF Next

\* A case that is settled keeps its student.
LEMMA SettledKeeps ==
    ASSUME cases \in Seq(Case), NEW c \in DOMAIN cases, NEW v \in {"completed", "dismissed"},
           cases' = [cases EXCEPT ![c].status = v]
    PROVE  /\ cases' \in Seq(Case) /\ DOMAIN cases' = DOMAIN cases
           /\ \A b \in DOMAIN cases : cases'[b].student = cases[b].student
<1> DEFINE x == [cases[c] EXCEPT !.status = v]
<1>1. cases[c] \in Case
  OBVIOUS
<1>2. x \in Case /\ x.student = cases[c].student
  BY <1>1 DEF Case
<1>3. cases' = [cases EXCEPT ![c] = x]
  OBVIOUS
<1> HIDE DEF x
<1> QED BY <1>2, <1>3

\* What SeenIsTotal depends on.
LEMMA KeepsSeen ==
    ASSUME Shape, SeenIsTotal, UNCHANGED <<seen, caseOf>>, cases' \in Seq(Case),
           DOMAIN cases \subseteq DOMAIN cases',
           \A c \in DOMAIN cases : cases'[c].student = cases[c].student,
           \A d \in Departures : pc'[d] = "resetting" => pc[d] = "resetting",
           \A d \in Departures : pc'[d] = "resetting" =>
              total'[cases[caseOf[d]].student] = total[cases[caseOf[d]].student]
    PROVE  SeenIsTotal'
<1>1. cases \in Seq(Case) /\ caseOf \in [Departures -> Nat]
  BY DEF Shape
<1>2. Len(cases) <= Len(cases')
  <2>1. Len(cases) \in Nat /\ Len(cases') \in Nat
        /\ DOMAIN cases = 1 .. Len(cases) /\ DOMAIN cases' = 1 .. Len(cases')
    BY <1>1
  <2>2. Len(cases) # 0 => Len(cases) \in DOMAIN cases'
    BY <2>1
  <2> QED BY <2>1, <2>2
<1>3. \A d \in Departures : caseOf'[d] <= Len(cases')
  <2>1. Len(cases) \in Nat /\ Len(cases') \in Nat
    BY <1>1
  <2> QED BY <1>1, <1>2, <2>1 DEF SeenIsTotal
<1>4. ASSUME NEW d \in Departures, pc'[d] = "resetting"
      PROVE  seen'[d] = total'[cases'[caseOf'[d]].student]
  <2>1. pc[d] = "resetting" /\ caseOf[d] \in DOMAIN cases
    BY <1>4 DEF Shape
  <2>2. cases'[caseOf'[d]].student = cases[caseOf[d]].student
    BY <2>1
  <2> QED BY <1>4, <2>1, <2>2 DEF SeenIsTotal
<1> QED BY <1>3, <1>4 DEF SeenIsTotal

\* Nobody changes the total of a student a completion has locked.
LEMMA SeenIsTotalKept ==
    ASSUME IInv, SumsInv, Next
    PROVE  SeenIsTotal'
<1> USE DEF IInv, SumsInv
<1>0. /\ cases \in Seq(Case) /\ caseOf \in [Departures -> Nat] /\ pc \in [Calls -> Places]
      /\ seen \in [Departures -> Int]
  BY DEF Shape, SeenIsTotal
\* Whoever adds to totals waits for the locks on them.
<1>1. ASSUME NEW records, NEW sign, AddToTotals(records, sign), UNCHANGED <<seen, caseOf, cases>>,
             \A d \in Departures : pc'[d] = pc[d]
      PROVE  SeenIsTotal'
  <2>1. \A s \in Students : StudentLocked(s) => total'[s] = total[s]
    BY <1>1, LockedTotals
  <2>2. \A d \in Departures : pc'[d] = "resetting" =>
              total'[cases[caseOf[d]].student] = total[cases[caseOf[d]].student]
    BY <1>1, <2>1, LockedStudents
  <2> QED BY <1>0, <1>1, <2>2, KeepsSeen
<1>2. ASSUME UNCHANGED <<seen, caseOf, total>>, cases' \in Seq(Case),
             DOMAIN cases \subseteq DOMAIN cases',
             \A c \in DOMAIN cases : cases'[c].student = cases[c].student,
             \A d \in Departures : pc'[d] = "resetting" => pc[d] = "resetting"
      PROVE  SeenIsTotal'
  BY <1>2, KeepsSeen
<1>3. ASSUME NEW c \in Calls \ Departures, NEW l, Goto(c, l)
      PROVE  \A d \in Departures : pc'[d] = pc[d]
  BY <1>0, <1>3 DEF Goto
<1>4. \A c \in Grants \cup Operations \cup Syncs \cup Dismissals \cup ReasonEdits :
        c \in Calls \ Departures
  BY CallAssumption DEF Calls
<1> USE DEF recordVars, operationVars, caseVars
<1>5. ASSUME NEW g \in Grants, CreateRecord(g) PROVE SeenIsTotal'
  BY <1>1, <1>3, <1>4, <1>5 DEF CreateRecord, Insert
<1>6. ASSUME NEW records \in SUBSET Active, CancelRecords(records) PROVE SeenIsTotal'
  BY <1>1, <1>6 DEF CancelRecords
<1>7. ASSUME NEW r \in ledger, RestoreRecord(r) PROVE SeenIsTotal'
  BY <1>1, <1>7 DEF RestoreRecord
<1>8. ASSUME NEW e \in ReasonEdits, UpdateReason(e) PROVE SeenIsTotal'
  BY <1>0, <1>2, <1>3, <1>4, <1>8 DEF UpdateReason
<1>9. ASSUME NEW o \in Operations, OperationStep(o) PROVE SeenIsTotal'
  <2>1. PICK l : Goto(o, l)
    BY <1>9 DEF OperationStep, RunIdempotent, ReadSnapshot, CommitBatch, LockActor, CommitHalf,
                OperationFails, Settle
  <2>2. \A d \in Departures : pc'[d] = pc[d]
    BY <1>3, <1>4, <2>1
  <2>3. UNCHANGED <<seen, caseOf, cases>>
    BY <1>9 DEF OperationStep, RunIdempotent, ReadSnapshot, CommitBatch, LockActor, CommitHalf,
                OperationFails, Settle
  <2>4. UNCHANGED total \/ \E records : AddToTotals(records, 1)
    BY <1>9 DEF OperationStep, RunIdempotent, ReadSnapshot, CommitBatch, LockActor, CommitHalf,
                OperationFails, Settle, Insert
  <2> QED BY <1>0, <1>1, <1>2, <2>2, <2>3, <2>4
<1>10. ASSUME NEW p \in Processes, Crash(p) PROVE SeenIsTotal'
  <2>1. \A d \in Departures : pc'[d] = "resetting" => pc[d] = "resetting"
    BY <1>10 DEF Crash, Calls
  <2> QED BY <1>0, <1>2, <1>10, <2>1 DEF Crash
<1>11. ASSUME NEW y \in Syncs, ReadCandidates(y) PROVE SeenIsTotal'
  BY <1>0, <1>2, <1>3, <1>4, <1>11 DEF ReadCandidates
<1>12. ASSUME NEW y \in Syncs, InsertCandidates(y) PROVE SeenIsTotal'
  <2>1. /\ cases' \in Seq(Case) /\ DOMAIN cases \subseteq DOMAIN cases'
        /\ \A c \in DOMAIN cases : cases'[c] = cases[c]
    BY <1>12, InsertedCases
  <2>2. UNCHANGED <<seen, caseOf, total>> /\ Goto(y, "done")
    BY <1>12 DEF InsertCandidates
  <2>3. \A d \in Departures : pc'[d] = pc[d]
    BY <1>3, <1>4, <2>2
  <2> QED BY <1>2, <2>1, <2>2, <2>3
<1>13. ASSUME NEW d \in Departures, Approve(d) PROVE SeenIsTotal'
  <2>1. /\ cases' \in Seq(Case) /\ DOMAIN cases \subseteq DOMAIN cases'
        /\ \A c \in DOMAIN cases : cases'[c] = cases[c]
    <3>1. UNCHANGED cases \/ \E s \in Students : cases' = Append(cases, NewCase(s, d))
      BY <1>13 DEF Approve
    <3> QED BY <1>0, <3>1, OpenedCase
  <2>2. pc' = [pc EXCEPT ![d] = "prepared"] /\ UNCHANGED <<seen, total>> /\ d \in Calls
    BY <1>13 DEF Approve, Goto, Calls
  <2>3. PICK c \in DOMAIN cases' : caseOf' = [caseOf EXCEPT ![d] = c]
    BY <1>0, <1>13, OpenedCase DEF Approve, OpenCases
  <2>4. \A e \in Departures \ {d} : caseOf'[e] = caseOf[e] /\ pc'[e] = pc[e]
    BY <1>0, <2>2, <2>3 DEF Calls
  <2>5. caseOf'[d] = c /\ pc'[d] = "prepared"
    BY <1>0, <2>2, <2>3
  <2>6. /\ Len(cases) \in Nat /\ Len(cases') \in Nat /\ c \in Nat /\ c <= Len(cases')
        /\ Len(cases) <= Len(cases')
    <3>1. Len(cases) \in Nat /\ Len(cases') \in Nat
          /\ DOMAIN cases = 1 .. Len(cases) /\ DOMAIN cases' = 1 .. Len(cases')
      BY <1>0, <2>1
    <3>2. Len(cases) # 0 => Len(cases) \in DOMAIN cases'
      BY <2>1, <3>1
    <3> QED BY <3>1, <3>2, <2>3
  <2>7. \A e \in Departures : caseOf'[e] <= Len(cases')
    <3>1. \A e \in Departures : caseOf[e] \in Nat /\ caseOf[e] <= Len(cases)
      BY <1>0 DEF SeenIsTotal
    <3> QED BY <3>1, <2>4, <2>5, <2>6
  <2>8. ASSUME NEW e \in Departures, pc'[e] = "resetting"
        PROVE  seen'[e] = total'[cases'[caseOf'[e]].student]
    <3>1. e # d
      BY <2>5, <2>8
    <3>2. pc[e] = "resetting" /\ caseOf'[e] = caseOf[e]
      BY <2>4, <2>8, <3>1
    <3>3. caseOf[e] \in DOMAIN cases
      BY <3>2 DEF Shape
    <3> QED BY <2>1, <2>2, <3>2, <3>3 DEF SeenIsTotal
  <2> QED BY <1>0, <2>2, <2>7, <2>8 DEF SeenIsTotal
<1>14. ASSUME NEW d \in Departures, ChooseCase(d) PROVE SeenIsTotal'
  <2>1. PICK c \in DOMAIN cases : caseOf' = [caseOf EXCEPT ![d] = c]
    BY <1>14 DEF ChooseCase
  <2>2. pc' = [pc EXCEPT ![d] = "prepared"] /\ UNCHANGED <<cases, seen, total>> /\ d \in Calls
    BY <1>14 DEF ChooseCase, Goto, Calls
  <2>3. \A e \in Departures \ {d} : caseOf'[e] = caseOf[e] /\ pc'[e] = pc[e]
    BY <1>0, <2>1, <2>2 DEF Calls
  <2>4. caseOf'[d] = c /\ pc'[d] = "prepared" /\ c <= Len(cases)
    BY <1>0, <2>1, <2>2
  <2>5. \A e \in Departures : caseOf'[e] <= Len(cases)
    BY <2>3, <2>4 DEF SeenIsTotal
  <2> QED BY <1>0, <2>2, <2>3, <2>4, <2>5 DEF SeenIsTotal
<1>15. ASSUME NEW d \in Departures, LockCase(d) PROVE SeenIsTotal'
  <2>1. seen' = [seen EXCEPT ![d] = total[cases[caseOf[d]].student]]
        /\ pc' = [pc EXCEPT ![d] = "resetting"] /\ UNCHANGED <<cases, caseOf, total>> /\ d \in Calls
        /\ pc[d] = "prepared"
    BY <1>15 DEF LockCase, Goto, Calls
  <2>2. cases[caseOf[d]].student \in Students
    <3>1. caseOf[d] \in DOMAIN cases
      BY <2>1 DEF Shape
    <3>2. cases[caseOf[d]] \in Case
      BY <1>0, <3>1
    <3> QED BY <3>2 DEF Case
  <2>3. total[cases[caseOf[d]].student] \in Int
    BY <2>2 DEF Sums
  <2>4. \A e \in Departures \ {d} : seen'[e] = seen[e] /\ pc'[e] = pc[e]
    BY <1>0, <2>1 DEF Calls
  <2>5. seen'[d] = total[cases[caseOf[d]].student] /\ seen' \in [Departures -> Int]
    BY <1>0, <2>1, <2>3
  <2> QED BY <2>1, <2>4, <2>5 DEF SeenIsTotal
<1>16. ASSUME NEW d \in Departures, CompleteDeparture(d) PROVE SeenIsTotal'
  <2>1. /\ pc[d] = "resetting" /\ pc' = [pc EXCEPT ![d] = "done"] /\ d \in Calls
        /\ UNCHANGED <<seen, caseOf>>
    BY <1>16 DEF CompleteDeparture, Goto, Calls
  <2>2. total' = [total EXCEPT ![cases[caseOf[d]].student] = 0]
    BY <1>16 DEF CompleteDeparture
  <2>3. /\ cases' \in Seq(Case) /\ DOMAIN cases' = DOMAIN cases
        /\ \A c \in DOMAIN cases : cases'[c].student = cases[c].student
    <3>1. cases' = [cases EXCEPT ![caseOf[d]].status = "completed"] /\ caseOf[d] \in DOMAIN cases
      BY <1>16, <2>1 DEF CompleteDeparture, Shape
    <3> HIDE DEF IInv, SumsInv
    <3> QED BY <1>0, <3>1, SettledKeeps
  <2>4. ASSUME NEW e \in Departures, pc'[e] = "resetting" PROVE pc[e] = "resetting" /\ e # d
    BY <1>0, <2>1, <2>4 DEF Calls
  <2>5. ASSUME NEW e \in Departures, pc'[e] = "resetting"
        PROVE  total'[cases[caseOf[e]].student] = total[cases[caseOf[e]].student]
    <3>1. cases[caseOf[e]].student # cases[caseOf[d]].student
      BY <2>1, <2>4, <2>5 DEF Locked
    <3>2. cases[caseOf[e]].student \in Students /\ total \in [Students -> Int]
      BY <2>4, <2>5, LockedStudents DEF Sums
    <3> QED BY <2>2, <3>1, <3>2
  <2> QED BY <2>1, <2>3, <2>4, <2>5, KeepsSeen
<1>17. ASSUME NEW d \in Departures, DepartureFails(d) PROVE SeenIsTotal'
  <2>1. pc' = [pc EXCEPT ![d] = "done"] /\ UNCHANGED <<cases, caseOf, total, seen>> /\ d \in Calls
    BY <1>17 DEF DepartureFails, Goto, Calls
  <2>2. \A e \in Departures : pc'[e] = "resetting" => pc[e] = "resetting"
    BY <1>0, <2>1 DEF Calls
  <2> QED BY <1>0, <1>2, <2>1, <2>2
<1>18. ASSUME NEW x \in Dismissals, Dismiss(x) PROVE SeenIsTotal'
  <2>1. PICK c \in DOMAIN cases : cases' = [cases EXCEPT ![c].status = "dismissed"]
    BY <1>18 DEF Dismiss
  <2>2. /\ cases' \in Seq(Case) /\ DOMAIN cases' = DOMAIN cases
        /\ \A b \in DOMAIN cases : cases'[b].student = cases[b].student
    <3> HIDE DEF IInv, SumsInv
    <3> QED BY <1>0, <2>1, SettledKeeps
  <2>3. UNCHANGED <<seen, caseOf, total>> /\ Goto(x, "done")
    BY <1>18 DEF Dismiss
  <2>4. \A d \in Departures : pc'[d] = pc[d]
    BY <1>3, <1>4, <2>3
  <2> QED BY <1>2, <2>2, <2>3, <2>4
<1> HIDE DEF IInv, SumsInv
<1> QED
  BY <1>5, <1>6, <1>7, <1>8, <1>9, <1>10, <1>11, <1>12, <1>13, <1>14, <1>15, <1>16, <1>17, <1>18
  DEF Next, DepartureStep

\* It holds in the beginning.
LEMMA SumsBegin == Init => SumsInv
<1> SUFFICES ASSUME Init PROVE SumsInv
  OBVIOUS
<1> USE CallAssumption, MapAssumption, ValueAssumption DEF Init
<1>1. IsFiniteSet({})
  BY FS_EmptySet
<1>2. TotalIsSumOfRecords
  <2>1. \A s \in Students : Of(Active, s) = {}
    BY DEF Of, Active
  <2> QED BY <2>1, EmptyIsZero DEF TotalIsSumOfRecords
<1>3. Sums
  BY <1>1, <1>2 DEF Sums
<1>4. Snapshots
  BY <1>1 DEF Snapshots
<1>5. Written
  BY DEF Written
<1>6. SeenIsTotal
  BY DEF SeenIsTotal, Calls
<1> QED BY <1>3, <1>4, <1>5, <1>6 DEF SumsInv

\* Every step keeps it.
LEMMA SumsStep == IInv /\ SumsInv /\ [Next]_vars => SumsInv'
<1> SUFFICES ASSUME IInv, SumsInv, [Next]_vars PROVE SumsInv'
  OBVIOUS
<1>1. CASE Next
  BY <1>1, SumsKept, SnapshotsKept, WrittenKept, SeenIsTotalKept DEF SumsInv
<1>2. CASE UNCHANGED vars
  <2> USE <1>2 DEF vars, SumsInv
  <2>1. Sums'
    BY DEF Sums, TotalIsSumOfRecords, Active
  <2>2. Snapshots'
    BY DEF Snapshots
  <2>3. Written'
    BY DEF Written
  <2>4. SeenIsTotal'
    BY DEF SeenIsTotal
  <2> QED BY <2>1, <2>2, <2>3, <2>4
<1> QED BY <1>1, <1>2

\* It holds in every state the specification reaches.
LEMMA SumsInvariance == Spec => []SumsInv
BY Invariance, SumsBegin, SumsStep, PTL DEF Spec

\* The ledger adds up, for any students, items, calls and processes: the running total
\* of a student, kept by increments and by the absolute zero of a departure, is the sum
\* of the records that count, because increments wait for the row a departure has
\* locked, so that the zero it writes is the total it has read plus its reset
\* (points.service.ts, completeDepartureCase).
THEOREM LedgerAlwaysAddsUp == Spec => []LedgerAddsUp
<1>1. IInv /\ SumsInv => LedgerAddsUp
  <2> SUFFICES ASSUME IInv, SumsInv PROVE LedgerAddsUp
    OBVIOUS
  <2>1. snap \in [Operations -> SUBSET Record]
    <3>1. snap = [o \in Operations |-> snap[o]]
      BY DEF IInv, Shape
    <3> QED BY <3>1 DEF SumsInv, Snapshots
  <2>2. TypeOK
    BY <2>1 DEF TypeOK, IInv, Shape, Places, SumsInv, Sums, SeenIsTotal
  <2> QED BY <2>2 DEF LedgerAddsUp, SumsInv, Sums
<1> QED BY <1>1, Invariance, SumsInvariance, PTL

\* What an adjustment says.
LEMMA HalfRecordIs ==
    ASSUME NEW h, NEW s, NEW item, NEW n, NEW r \in HalfRecord(h, s, item, n)
    PROVE  r.student = s /\ r.type = "ETC" /\ r.item = item
BY DEF HalfRecord

\* The points of one adjustment, none of which is written when it is zero.
LEMMA PointsOfHalf ==
    ASSUME NEW h \in Halves, NEW s \in Students, NEW item \in SystemItems, NEW n \in Int
    PROVE  Points(HalfRecord(h, s, item, n)) = n
<1>1. CASE n = 0
  BY <1>1, EmptyIsZero DEF HalfRecord
<1>2. CASE n # 0
  <2> DEFINE r == [by |-> h, item |-> item, student |-> s, type |-> "ETC", point |-> n]
             R == HalfRecord(h, s, item, n)
  <2>1. R = {r} /\ r.point = n
    BY <1>2 DEF HalfRecord
  <2>2. IsFiniteSet(R) /\ Integral(R) /\ r \in R /\ R \ {r} = {}
    BY <2>1, FS_Singleton DEF Integral
  <2> HIDE DEF r, R
  <2>3. Points(R) = r.point + Points(R \ {r})
    BY <2>2, WithoutOne
  <2>4. Points(R) = n
    BY <2>1, <2>2, <2>3, EmptyIsZero
  <2> QED BY <2>4 DEF R
<1> QED BY <1>1, <1>2

\* The adjustments of a half are those of each student it has read.
LEMMA HalvesAreOf ==
    ASSUME Snapshots, NEW h \in Halves, NEW s \in Students
    PROVE  Of(HalfRecords(h), s) = HalvesOf(h, s)
<1>1. HalfRecords(h) = UNION {HalvesOf(h, q) : q \in StudentsOf(snap[h])}
  BY HalfRecordsAre
<1>2. ASSUME NEW q, NEW r \in HalvesOf(h, q) PROVE r.student = q
  <2>1. PICK item, n : r \in HalfRecord(h, q, item, n)
    BY <1>2 DEF HalvesOf
  <2> QED BY <2>1, HalfRecordIs
<1>3. ASSUME s \notin StudentsOf(snap[h]) PROVE HalvesOf(h, s) = {}
  <2>1. Of(snap[h], s) = {}
    BY <1>3 DEF Of, StudentsOf
  <2>2. Merits({}) = {} /\ Penalties({}) = {}
    BY DEF Merits, Penalties
  <2>3. Merit({}) = 0 /\ Penalty({}) = 0
    BY <2>2, EmptyIsZero DEF Merit, Penalty, AtLeastZero
  <2>4. Halved(0) = 0
    BY HalfOf
  <2>5. HalvesOf(h, s) = HalfRecord(h, s, "merit half", Halved(0) - 0)
                           \cup HalfRecord(h, s, "penalty half", 0 - Halved(0))
    BY <2>1, <2>3 DEF HalvesOf
  <2>6. Halved(0) - 0 = 0 /\ 0 - Halved(0) = 0
    BY <2>4
  <2>7. \A item : HalfRecord(h, s, item, 0) = {}
    BY DEF HalfRecord
  <2> QED BY <2>5, <2>6, <2>7
<1> QED BY <1>1, <1>2, <1>3 DEF Of

\* The two adjustments bring merit and penalty to the floors of their halves.
LEMMA HalvesAreExact ==
    ASSUME Snapshots, NEW h \in Halves, NEW s \in Students,
           Of(snap[h], s) \cap HalvesOf(h, s) = {}
    PROVE  LET R == Of(snap[h], s)
               S == R \cup HalvesOf(h, s)
           IN  Merit(S) = Merit(R) \div 2 /\ Penalty(S) = Penalty(R) \div 2
<1> DEFINE R == Of(snap[h], s)
           m == Merit(R)
           p == Penalty(R)
           M == HalfRecord(h, s, "merit half", Halved(m) - m)
           P == HalfRecord(h, s, "penalty half", p - Halved(p))
           S == R \cup (M \cup P)
           x == Points(Merits(R))
           y == Points(Penalties(R))
<1>1. R \in SUBSET Record /\ IsFiniteSet(R)
  BY FS_Subset DEF Snapshots, Operations, Of
<1>2. HalvesOf(h, s) = M \cup P
  BY DEF HalvesOf
<1>3. /\ \A r \in M : r.type = "ETC" /\ r.item = "merit half"
      /\ \A r \in P : r.type = "ETC" /\ r.item = "penalty half"
  <2>1. \A item, n : \A r \in HalfRecord(h, s, item, n) : r.type = "ETC" /\ r.item = item
    BY HalfRecordIs
  <2> QED BY <2>1
<1>4. R \cap (M \cup P) = {}
  BY <1>2
<1> HIDE DEF R, m, p
<1>5. /\ IsFiniteSet(Merits(R)) /\ Integral(Merits(R))
      /\ IsFiniteSet(Penalties(R)) /\ Integral(Penalties(R))
  BY <1>1, FS_Subset, RecordsAreIntegral DEF Merits, Penalties
<1>6. x \in Int /\ y \in Int
  BY <1>5, PointsInt
<1>7. m = AtLeastZero(x) /\ p = AtLeastZero(-y)
  BY DEF m, p, Merit, Penalty
<1>8. m \in Nat /\ p \in Nat
  BY <1>6, <1>7, AtLeastZeroIsNat
<1>9. Halved(m) \in Nat /\ Halved(p) \in Nat /\ Halved(m) = m \div 2 /\ Halved(p) = p \div 2
  BY <1>8, HalfOf
<1>10. /\ M \in SUBSET Record /\ IsFiniteSet(M) /\ Points(M) = Halved(m) - m
       /\ P \in SUBSET Record /\ IsFiniteSet(P) /\ Points(P) = p - Halved(p)
  <2>1. Halved(m) - m \in Int /\ p - Halved(p) \in Int
    BY <1>8, <1>9
  <2>2. \A item \in SystemItems, n \in Int :
           LET A == HalfRecord(h, s, item, n)
           IN  A \in SUBSET Record /\ IsFiniteSet(A) /\ Points(A) = n
    BY HalfRecordTyped, PointsOfHalf
  <2> QED BY <2>1, <2>2 DEF SystemItems
<1> HIDE DEF M, P
<1>11. Merits(S) = Merits(R) \cup M /\ Penalties(S) = Penalties(R) \cup P
  BY <1>3 DEF Merits, Penalties
<1>12. Merits(R) \cap M = {} /\ Penalties(R) \cap P = {}
  BY <1>4 DEF Merits, Penalties
<1>13. Points(Merits(R) \cup M) = x + Points(M) /\ Points(Penalties(R) \cup P) = y + Points(P)
  BY <1>5, <1>10, <1>12, PointsOfBoth, RecordsAreIntegral
<1>14. Points(Merits(S)) = x + (Halved(m) - m) /\ Points(Penalties(S)) = y + (p - Halved(p))
  BY <1>10, <1>11, <1>13
<1> HIDE DEF S, x, y
<1>15. AtLeastZero(x + (Halved(m) - m)) = m \div 2
  <2>1. CASE x < 0
    <3>1. m = 0 /\ Halved(m) = 0
      BY <1>6, <1>7, <1>9, <2>1 DEF AtLeastZero, Halved
    <3> QED BY <1>6, <1>9, <2>1, <3>1 DEF AtLeastZero
  <2>2. CASE ~(x < 0)
    <3>1. m = x
      BY <1>7, <2>2 DEF AtLeastZero
    <3>2. x + (Halved(m) - m) = Halved(m)
      BY <1>6, <1>9, <3>1
    <3>3. ~(Halved(m) < 0)
      BY <1>9
    <3> QED BY <1>9, <3>2, <3>3 DEF AtLeastZero
  <2> QED BY <2>1, <2>2
<1>16. AtLeastZero(-(y + (p - Halved(p)))) = p \div 2
  <2>1. CASE -y < 0
    <3>1. p = 0 /\ Halved(p) = 0
      BY <1>6, <1>7, <1>9, <2>1 DEF AtLeastZero, Halved
    <3>2. -(y + (p - Halved(p))) < 0
      BY <1>6, <2>1, <3>1
    <3> QED BY <1>9, <3>1, <3>2 DEF AtLeastZero
  <2>2. CASE ~(-y < 0)
    <3>1. p = -y
      BY <1>7, <2>2 DEF AtLeastZero
    <3>2. -(y + (p - Halved(p))) = Halved(p)
      BY <1>6, <1>9, <3>1
    <3>3. ~(Halved(p) < 0)
      BY <1>9
    <3> QED BY <1>9, <3>2, <3>3 DEF AtLeastZero
  <2> QED BY <2>1, <2>2
<1>17. Merit(S) = m \div 2 /\ Penalty(S) = p \div 2
  BY <1>14, <1>15, <1>16 DEF Merit, Penalty
<1> QED BY <1>2, <1>17 DEF R, S, m, p

\* The audit row of a half is written by its commit.
LEMMA MarkedByCommit ==
    ASSUME Next, NEW h \in Halves, h \in marks', h \notin marks
    PROVE  CommitHalf(h)
<1>1. h \notin Batches
  BY CallAssumption
<1>2. ASSUME NEW o \in Operations, CommitHalf(o) PROVE o = h
  BY <1>2 DEF CommitHalf
<1>3. ASSUME NEW o \in Operations, CommitBatch(o) PROVE FALSE
  BY <1>1, <1>3 DEF CommitBatch
<1>4. ASSUME NEW o \in Operations, OperationStep(o), ~CommitBatch(o), ~CommitHalf(o)
      PROVE  UNCHANGED marks
  BY <1>4 DEF OperationStep, RunIdempotent, ReadSnapshot, LockActor, OperationFails, Settle,
              operationVars
<1>5. ASSUME NEW d \in Departures, DepartureStep(d) PROVE UNCHANGED marks
  BY <1>5 DEF DepartureStep, Approve, ChooseCase, LockCase, CompleteDeparture, DepartureFails,
              operationVars
<1>6. ASSUME NEW x, \/ CancelRecords(x) \/ RestoreRecord(x) \/ UpdateReason(x) \/ Crash(x)
                    \/ CreateRecord(x) \/ ReadCandidates(x) \/ InsertCandidates(x) \/ Dismiss(x)
      PROVE  UNCHANGED marks
  BY <1>6 DEF CancelRecords, RestoreRecord, UpdateReason, Crash, CreateRecord, ReadCandidates,
              InsertCandidates, Dismiss, operationVars
<1> QED BY <1>2, <1>3, <1>4, <1>5, <1>6 DEF Next

\* A half whose snapshot of a student is still true when it commits leaves the floor of
\* half the merit and of half the penalty, whatever the points are: its two adjustments
\* count as merit and as penalty, and bring each sum to its half (applySemesterHalf).
THEOREM HalvingIsAlwaysExact == Spec => HalvingIsExact
<1> DEFINE Step ==
      \A h \in marks' \ marks : h \in Halves =>
         \A s \in Students :
            Of(snap[h], s) = Of(Active, s) =>
                /\ Merit(Of(Active', s)) = Merit(Of(Active, s)) \div 2
                /\ Penalty(Of(Active', s)) = Penalty(Of(Active, s)) \div 2
<1>1. IInv /\ SumsInv /\ [Next]_vars => [Step]_vars
  <2> SUFFICES ASSUME IInv, SumsInv, Next, NEW h \in Halves, h \in marks', h \notin marks,
                      NEW s \in Students, Of(snap[h], s) = Of(Active, s)
               PROVE  /\ Merit(Of(Active', s)) = Merit(Of(Active, s)) \div 2
                      /\ Penalty(Of(Active', s)) = Penalty(Of(Active, s)) \div 2
    OBVIOUS
  <2>1. CommitHalf(h)
    BY MarkedByCommit
  <2>2. pc[h] = "signing" /\ ledger' = ledger \cup HalfRecords(h) /\ canceled' = canceled
    BY <2>1 DEF CommitHalf, Insert
  <2>3. HalfRecords(h) \cap ledger = {}
    <3>1. \A r \in HalfRecords(h) : r.by = h
      BY HalfRecordsBy
    <3> QED BY <2>2, <3>1, NobodysRecords DEF Calls, Operations, SumsInv
  <2>4. Active' = Active \cup HalfRecords(h) /\ Active \cap HalfRecords(h) = {}
    BY <2>2, <2>3 DEF Active, SumsInv, Sums
  <2>5. Of(HalfRecords(h), s) = HalvesOf(h, s)
    BY HalvesAreOf DEF SumsInv
  <2>6. Of(Active', s) = Of(snap[h], s) \cup HalvesOf(h, s)
    <3>1. Of(Active \cup HalfRecords(h), s) = Of(Active, s) \cup Of(HalfRecords(h), s)
      BY DEF Of
    <3> QED BY <2>4, <2>5, <3>1
  <2>7. Of(snap[h], s) \cap HalvesOf(h, s) = {}
    <3>1. Of(Active, s) \cap Of(HalfRecords(h), s) = {}
      BY <2>4 DEF Of
    <3> QED BY <2>5, <3>1
  <2> QED BY <2>6, <2>7, HalvesAreExact DEF SumsInv
<1> QED BY <1>1, Invariance, SumsInvariance, PTL DEF Spec, HalvingIsExact

-----------------------------------------------------------------------------
\* The page that awards points. The server knows no repetition, so nothing is
\* awarded twice because an award has one row in the list and one call carries
\* it, for any number of awards, rows and calls.

ListRows == [key : Nat \ {0}, award : Awards, wording : Nat]
Answers == {"none", "sent", "committed", "refused"}

ListShapes ==
    /\ queue \in SUBSET ListRows /\ rows \in Nat /\ \A r \in queue : r.key <= rows
    /\ calls \in [Submissions -> [rows : SUBSET ListRows, status : Answers]]
    /\ pending \in {0} \cup Submissions
    /\ wording \in [Awards -> Nat]

\* A row of the list has a number and an award of its own, and the wording its
\* award was given last.
RowsAreApart ==
    \A r \in queue :
        /\ wording[r.award] > 0 /\ r.wording = wording[r.award]
        /\ \A s \in queue : s.key = r.key \/ s.award = r.award => s = r

\* What a spreadsheet or the form brings is new, but for a row that was being
\* edited when a success emptied the list.
FormIsApart ==
    /\ chosen \in Awards \cup {NoAward} /\ importing \in Awards \cup {NoAward} /\ editKey \in Nat
    /\ importing # NoAward => wording[importing] = 0 /\ chosen # importing
    /\ editKey # 0 => \E r \in queue : r.key = editKey /\ r.award = chosen
    /\ chosen # NoAward /\ editKey = 0 =>
        chosen \notin AwardsOf(queue) /\ (wording[chosen] = 0 \/ chosen \in straddled)

CallsAreApart ==
    \A n \in Submissions : \A r \in calls[n].rows :
        /\ wording[r.award] > 0
        /\ \A s \in calls[n].rows : s.award = r.award => s = r

\* The call awards a, or may do so yet.
Carries(n, a) == calls[n].status \in {"sent", "committed"} /\ a \in AwardsOf(calls[n].rows)

\* One call carries an award: the one the page waits for, or one whose success
\* emptied the list.
CarriedOnce ==
    \A a \in Awards \ (unsure \cup straddled), n \in Submissions : Carries(n, a) =>
        /\ n = pending \/ (calls[n].status = "committed" /\ a \notin AwardsOf(queue))
        /\ \A m \in Submissions : Carries(m, a) => m = n

RecordsOfCall(n) == {[call |-> n, row |-> r] : r \in calls[n].rows}
RecordsAreOfCalls ==
    awarded = UNION {RecordsOfCall(n) : n \in {m \in Submissions : calls[m].status = "committed"}}

\* What is in the list during a call is in the call, or came meanwhile.
CallHasTheList ==
    pending # 0 =>
        /\ calls[pending].status # "none"
        /\ \A r \in queue : r.award \in meanwhile \/ r \in calls[pending].rows

ListInv ==
    /\ ListShapes /\ RowsAreApart /\ CallsAreApart /\ CarriedOnce /\ RecordsAreOfCalls
    /\ CallHasTheList /\ NothingIsDropped /\ LastWordingIsAwarded

AwardInv == ListInv /\ FormIsApart

\* Records of an award are those of the rows of a call that was carried out.
LEMMA RecordsAre ==
    ASSUME RecordsAreOfCalls, NEW a \in Awards
    PROVE  /\ \A x \in RecordsOf(a) : \E n \in Submissions : \E r \in calls[n].rows :
                calls[n].status = "committed" /\ r.award = a /\ x = [call |-> n, row |-> r]
           /\ \A n \in Submissions : \A r \in calls[n].rows :
                calls[n].status = "committed" /\ r.award = a => [call |-> n, row |-> r] \in RecordsOf(a)
<1>1. ASSUME NEW x \in RecordsOf(a)
      PROVE  \E n \in Submissions : \E r \in calls[n].rows :
                calls[n].status = "committed" /\ r.award = a /\ x = [call |-> n, row |-> r]
  <2>1. x \in awarded /\ x.row.award = a
    BY DEF RecordsOf
  <2>2. PICK n \in Submissions : calls[n].status = "committed" /\ x \in RecordsOfCall(n)
    BY <2>1 DEF RecordsAreOfCalls
  <2>3. PICK r \in calls[n].rows : x = [call |-> n, row |-> r]
    BY <2>2 DEF RecordsOfCall
  <2> QED BY <2>1, <2>2, <2>3
<1>2. ASSUME NEW n \in Submissions, NEW r \in calls[n].rows,
             calls[n].status = "committed", r.award = a
      PROVE  [call |-> n, row |-> r] \in RecordsOf(a)
  <2>1. [call |-> n, row |-> r] \in RecordsOfCall(n)
    BY DEF RecordsOfCall
  <2>2. [call |-> n, row |-> r] \in awarded
    BY <1>2, <2>1 DEF RecordsAreOfCalls
  <2> QED BY <1>2, <2>2 DEF RecordsOf
<1> QED BY <1>1, <1>2

\* What the form and the spreadsheet do by themselves: list, calls and records stay.
LEMMA FormKeeps ==
    ASSUME AwardInv, UNCHANGED <<queue, rows, calls, pending, awarded, wording,
                                 withdrawn, meanwhile, straddled, unsure>>,
           FormIsApart'
    PROVE  AwardInv'
BY DEF AwardInv, ListInv, ListShapes, RowsAreApart, CallsAreApart, CarriedOnce, Carries,
       RecordsAreOfCalls, RecordsOfCall, CallHasTheList, NothingIsDropped,
       LastWordingIsAwarded, RecordsOf, AwardsOf

LEMMA ChooseKeeps ==
    ASSUME AwardInv, NEW a \in Awards, Choose(a)
    PROVE  AwardInv'
<1>1. editKey = 0
  BY AwardAssumption DEF AwardInv, ListInv, ListShapes, FormIsApart, Choose, ListRows
<1>2. a \notin AwardsOf(queue)
  BY DEF AwardInv, ListInv, ListShapes, RowsAreApart, Choose, AwardsOf, ListRows
<1>3. FormIsApart'
  BY <1>1, <1>2, AwardAssumption DEF AwardInv, ListInv, ListShapes, FormIsApart, Choose, AwardsOf
<1> QED BY <1>1, <1>3, FormKeeps DEF Choose, AwardInv, ListInv, ListShapes

LEMMA ImportFileKeeps ==
    ASSUME AwardInv, NEW a \in Awards, ImportFile(a)
    PROVE  AwardInv'
<1>1. FormIsApart'
  BY AwardAssumption DEF AwardInv, ListInv, ListShapes, FormIsApart, ImportFile, AwardsOf
<1> QED BY <1>1, FormKeeps DEF ImportFile, AwardInv, ListInv, ListShapes

LEMMA RefuseImportKeeps ==
    ASSUME AwardInv, RefuseImport
    PROVE  AwardInv'
<1>1. FormIsApart'
  BY AwardAssumption DEF AwardInv, ListInv, ListShapes, FormIsApart, RefuseImport, AwardsOf
<1> QED BY <1>1, FormKeeps DEF RefuseImport, AwardInv, ListInv, ListShapes

LEMMA EditRowKeeps ==
    ASSUME AwardInv, NEW r \in queue, EditRow(r)
    PROVE  AwardInv'
<1>1. r \in ListRows /\ wording[r.award] > 0 /\ r.award \in Awards /\ r.key \in Nat \ {0}
  BY DEF AwardInv, ListInv, ListShapes, RowsAreApart, ListRows
<1>2. FormIsApart'
  BY <1>1, AwardAssumption DEF AwardInv, ListInv, ListShapes, FormIsApart, EditRow, AwardsOf
<1> QED BY <1>1, <1>2, FormKeeps DEF EditRow, AwardInv, ListInv, ListShapes

LEMMA CancelEditKeeps ==
    ASSUME AwardInv, CancelEdit
    PROVE  AwardInv'
<1>1. FormIsApart'
  BY AwardAssumption DEF AwardInv, ListInv, ListShapes, FormIsApart, CancelEdit, ClearForm, AwardsOf
<1> QED BY <1>1, FormKeeps DEF CancelEdit, ClearForm, AwardInv, ListInv, ListShapes

\* What an award that comes into the list, or is worded anew there, leaves of the
\* calls and records: it was in no call, or in one that is not asked about.
LEMMA WordingKeeps ==
    ASSUME ListInv, NEW a \in Awards, Worded(a), a \in AwardsOf(queue'),
           \A b \in Awards \ {a} : b \in AwardsOf(queue') <=> b \in AwardsOf(queue),
           a \in AwardsOf(queue) \/ wording[a] = 0 \/ a \in straddled,
           UNCHANGED <<calls, pending, awarded, withdrawn, straddled, unsure>>
    PROVE  /\ wording' \in [Awards -> Nat] /\ wording'[a] > 0
           /\ \A b \in Awards \ {a} : wording'[b] = wording[b]
           /\ CallsAreApart' /\ CarriedOnce' /\ RecordsAreOfCalls'
           /\ NothingIsDropped' /\ LastWordingIsAwarded'
<1>1. /\ wording \in [Awards -> Nat] /\ wording' = [wording EXCEPT ![a] = @ + 1]
      /\ meanwhile \subseteq meanwhile' /\ meanwhile' \subseteq meanwhile \cup {a}
  BY DEF ListInv, ListShapes, Worded
<1>2. /\ wording' \in [Awards -> Nat] /\ wording'[a] > 0
      /\ \A b \in Awards \ {a} : wording'[b] = wording[b]
      /\ \A b \in Awards : wording[b] > 0 => wording'[b] > 0
  BY <1>1
<1>3. \A n \in Submissions : \A r \in calls[n].rows : r.award \in Awards
  BY DEF ListInv, ListShapes, ListRows
<1>4. CallsAreApart'
  BY <1>2, <1>3 DEF ListInv, CallsAreApart
<1>5. \A n \in Submissions, b \in Awards : Carries(n, b)' <=> Carries(n, b)
  BY DEF Carries, AwardsOf
<1>6. CarriedOnce'
  <2> SUFFICES ASSUME NEW b \in Awards \ (unsure \cup straddled), NEW n \in Submissions, Carries(n, b)
               PROVE  /\ n = pending \/ (calls[n].status = "committed" /\ b \notin AwardsOf(queue)')
                      /\ \A m \in Submissions : Carries(m, b) => m = n
    BY <1>5 DEF CarriedOnce
  <2>1. /\ n = pending \/ (calls[n].status = "committed" /\ b \notin AwardsOf(queue))
        /\ \A m \in Submissions : Carries(m, b) => m = n
    BY DEF ListInv, CarriedOnce
  <2>2. CASE b # a
    BY <2>1, <2>2 DEF AwardsOf
  <2>3. CASE b = a
    <3>1. wording[a] > 0
      BY <2>3 DEF Carries, AwardsOf, ListInv, CallsAreApart
    <3> QED BY <2>1, <2>3, <3>1
  <2> QED BY <2>2, <2>3
<1>7. RecordsAreOfCalls'
  BY DEF ListInv, RecordsAreOfCalls, RecordsOfCall
<1>8. \A b \in Awards : RecordsOf(b)' = RecordsOf(b)
  BY DEF RecordsOf
<1>9. NothingIsDropped' /\ LastWordingIsAwarded'
  <2>1. NothingIsDropped'
    BY <1>1, <1>2, <1>8 DEF ListInv, NothingIsDropped, AwardsOf
  <2>2. LastWordingIsAwarded'
    BY <1>1, <1>2, <1>8 DEF ListInv, LastWordingIsAwarded, AwardsOf
  <2> QED BY <2>1, <2>2
<1> QED BY <1>2, <1>4, <1>6, <1>7, <1>9

LEMMA NewRowKeeps ==
    ASSUME ListInv, NEW a \in Awards, Worded(a), NewRow(a), a \notin AwardsOf(queue),
           wording[a] = 0 \/ a \in straddled,
           UNCHANGED <<calls, pending, awarded, withdrawn, straddled, unsure>>
    PROVE  /\ ListInv' /\ AwardsOf(queue)' = AwardsOf(queue) \cup {a}
           /\ queue \subseteq queue'
           /\ \A b \in Awards \ {a} : wording'[b] = wording[b]
<1> DEFINE new == [key |-> rows', award |-> a, wording |-> wording'[a]]
<1>1. /\ queue' = queue \cup {new} /\ rows' = rows + 1 /\ rows \in Nat
      /\ \A r \in queue : r \in ListRows /\ r.key <= rows
  BY DEF NewRow, ListInv, ListShapes
<1>2. AwardsOf(queue)' = AwardsOf(queue) \cup {a}
  <2>1. new.award = a
    OBVIOUS
  <2> HIDE DEF new
  <2>2. \A b : (\E r \in queue' : b = r.award) <=> (\E r \in queue : b = r.award) \/ b = a
    BY <1>1, <2>1
  <2> QED BY <2>2 DEF AwardsOf
<1>3. /\ wording' \in [Awards -> Nat] /\ wording'[a] > 0
      /\ \A b \in Awards \ {a} : wording'[b] = wording[b]
      /\ CallsAreApart' /\ CarriedOnce' /\ RecordsAreOfCalls'
      /\ NothingIsDropped' /\ LastWordingIsAwarded'
  <2>1. AwardsOf(queue') = AwardsOf(queue) \cup {a}
    BY <1>2 DEF AwardsOf
  <2> QED BY <2>1, WordingKeeps
<1>4. new \in ListRows /\ new.key = rows + 1 /\ new.award = a /\ new.wording = wording'[a]
  BY <1>1, <1>3 DEF ListRows
<1>5. ListShapes'
  <2>1. queue' \in SUBSET ListRows
    BY <1>1, <1>4
  <2>2. \A r \in queue' : r.key <= rows'
    BY <1>1, <1>4 DEF ListRows
  <2> QED BY <1>1, <1>3, <2>1, <2>2 DEF ListInv, ListShapes
<1>6. RowsAreApart'
  <2>1. \A r \in queue : r.award \in Awards \ {a} /\ r.key # new.key /\ r.key \in Nat
    BY <1>1, <1>4 DEF AwardsOf, ListRows
  <2>2. ASSUME NEW r \in queue'
        PROVE  /\ wording'[r.award] > 0 /\ r.wording = wording'[r.award]
               /\ \A s \in queue' : s.key = r.key \/ s.award = r.award => s = r
    <3>1. CASE r = new
      BY <1>1, <1>3, <1>4, <2>1, <3>1
    <3>2. CASE r \in queue
      <4>1. /\ wording[r.award] > 0 /\ r.wording = wording[r.award]
            /\ \A s \in queue : s.key = r.key \/ s.award = r.award => s = r
        BY <3>2 DEF ListInv, RowsAreApart
      <4> QED BY <1>1, <1>3, <1>4, <2>1, <3>2, <4>1
    <3> QED BY <1>1, <3>1, <3>2
  <2> QED BY <2>2 DEF RowsAreApart
<1>7. CallHasTheList'
  BY <1>1, <1>4 DEF CallHasTheList, ListInv, Worded
<1> QED BY <1>1, <1>2, <1>3, <1>5, <1>6, <1>7 DEF ListInv

LEMMA FinishImportKeeps ==
    ASSUME AwardInv, FinishImport
    PROVE  AwardInv'
<1> DEFINE a == importing
<1>1. a \in Awards /\ wording[a] = 0 /\ chosen # a
  BY DEF AwardInv, FormIsApart, FinishImport
<1>2. a \notin AwardsOf(queue)
  BY <1>1 DEF AwardInv, ListInv, RowsAreApart, AwardsOf
<1>3. /\ ListInv' /\ AwardsOf(queue)' = AwardsOf(queue) \cup {a} /\ queue \subseteq queue'
      /\ \A b \in Awards \ {a} : wording'[b] = wording[b]
  BY <1>1, <1>2, NewRowKeeps DEF AwardInv, FinishImport
<1>4. /\ importing' = NoAward
      /\ UNCHANGED <<chosen, editKey, straddled>>
  BY DEF FinishImport
<1>5. FormIsApart'
  BY <1>1, <1>3, <1>4 DEF AwardInv, FormIsApart
<1> QED BY <1>3, <1>5 DEF AwardInv

LEMMA AddToQueueKeeps ==
    ASSUME AwardInv, AddToQueue
    PROVE  AwardInv'
<1> DEFINE a == chosen
<1>1. a \in Awards /\ Worded(a) /\ ClearForm
      /\ UNCHANGED <<importing, calls, pending, awarded, withdrawn, straddled, unsure>>
      /\ wording \in [Awards -> Nat]
  BY DEF AwardInv, ListInv, ListShapes, FormIsApart, AddToQueue
<1>2. importing # NoAward => wording[importing] = 0 /\ a # importing /\ importing \in Awards
  BY DEF AwardInv, FormIsApart
<1>3. /\ ListInv'
      /\ \A b \in Awards \ {a} : wording'[b] = wording[b]
  <2>1. CASE editKey = 0
    <3>1. NewRow(a)
      BY <2>1 DEF AddToQueue
    <3>2. a \notin AwardsOf(queue) /\ (wording[a] = 0 \/ a \in straddled)
      BY <2>1, <1>1, AwardAssumption DEF AwardInv, FormIsApart
    <3> QED BY <1>1, <3>1, <3>2, NewRowKeeps DEF AwardInv
  <2>2. CASE editKey # 0
    <3>1. PICK e \in queue : e.key = editKey /\ e.award = a
      BY <2>2 DEF AwardInv, FormIsApart
    <3> DEFINE new == [e EXCEPT !.wording = wording'[a]]
    <3>2. /\ e \in ListRows /\ wording'[a] \in Nat
          /\ \A r \in queue : r \in ListRows /\ (r.key = editKey \/ r.award = a => r = e)
      BY <1>1, <3>1 DEF AwardInv, ListInv, ListShapes, RowsAreApart, Worded
    <3>3. /\ new \in ListRows /\ new.key = e.key /\ new.award = a /\ new.wording = wording'[a]
      BY <3>1, <3>2 DEF ListRows
    <3>4. queue' = (queue \ {e}) \cup {new} /\ rows' = rows
      <4>1. queue' = {IF r.key = editKey THEN [r EXCEPT !.wording = wording'[a]] ELSE r : r \in queue}
            /\ rows' = rows
        BY <2>2 DEF AddToQueue
      <4> QED BY <3>1, <3>2, <4>1
    <3> HIDE DEF new
    <3>5. \A b : b \in AwardsOf(queue') <=> b \in AwardsOf(queue)
      BY <3>1, <3>3, <3>4 DEF AwardsOf
    <3>6. a \in AwardsOf(queue)
      BY <3>1 DEF AwardsOf
    <3>7. /\ wording' \in [Awards -> Nat] /\ wording'[a] > 0
          /\ \A b \in Awards \ {a} : wording'[b] = wording[b]
          /\ CallsAreApart' /\ CarriedOnce' /\ RecordsAreOfCalls'
          /\ NothingIsDropped' /\ LastWordingIsAwarded'
      BY <1>1, <3>5, <3>6, WordingKeeps DEF AwardInv
    <3>8. ListShapes'
      BY <1>1, <3>1, <3>2, <3>3, <3>4, <3>7 DEF AwardInv, ListInv, ListShapes
    <3>9. RowsAreApart'
      <4>1. \A r \in queue \ {e} : r.award \in Awards \ {a} /\ r.key # e.key
        BY <3>1, <3>2 DEF ListRows
      <4>2. \A r \in queue : /\ wording[r.award] > 0 /\ r.wording = wording[r.award]
                             /\ \A s \in queue : s.key = r.key \/ s.award = r.award => s = r
        BY DEF AwardInv, ListInv, RowsAreApart
      <4>3. ASSUME NEW r \in queue'
            PROVE  /\ wording'[r.award] > 0 /\ r.wording = wording'[r.award]
                   /\ \A s \in queue' : s.key = r.key \/ s.award = r.award => s = r
        <5>1. CASE r = new
          BY <3>3, <3>4, <3>7, <4>1, <5>1
        <5>2. CASE r \in queue \ {e}
          BY <3>3, <3>4, <3>7, <4>1, <4>2, <5>2
        <5> QED BY <3>4, <5>1, <5>2
      <4> QED BY <4>3 DEF RowsAreApart
    <3>10. CallHasTheList'
      BY <1>1, <3>3, <3>4 DEF CallHasTheList, AwardInv, ListInv, Worded
    <3> QED BY <3>7, <3>8, <3>9, <3>10 DEF ListInv
  <2> QED BY <2>1, <2>2
<1>4. FormIsApart'
  BY <1>1, <1>2, <1>3 DEF AwardInv, FormIsApart, ClearForm
<1> QED BY <1>3, <1>4 DEF AwardInv

LEMMA DeleteRowKeeps ==
    ASSUME AwardInv, NEW r \in queue, DeleteRow(r)
    PROVE  AwardInv'
<1>1. /\ queue' = queue \ {r} /\ withdrawn' = withdrawn \cup {r.award}
      /\ UNCHANGED <<rows, importing, calls, pending, awarded, wording, meanwhile, straddled, unsure>>
      /\ r \in ListRows
  BY DEF DeleteRow, AwardInv, ListInv, ListShapes
<1>2. /\ AwardsOf(queue)' \subseteq AwardsOf(queue)
      /\ \A b \in Awards \ {r.award} : b \in AwardsOf(queue)' <=> b \in AwardsOf(queue)
  BY <1>1 DEF AwardsOf
<1>3. ListShapes' /\ RowsAreApart' /\ CallsAreApart' /\ RecordsAreOfCalls' /\ CallHasTheList'
  BY <1>1 DEF AwardInv, ListInv, ListShapes, RowsAreApart, CallsAreApart, RecordsAreOfCalls,
              RecordsOfCall, CallHasTheList
<1>4. CarriedOnce'
  BY <1>1, <1>2 DEF AwardInv, ListInv, CarriedOnce, Carries, AwardsOf
<1>5. \A b \in Awards : RecordsOf(b)' = RecordsOf(b)
  BY <1>1 DEF RecordsOf
<1>6. NothingIsDropped' /\ LastWordingIsAwarded'
  BY <1>1, <1>2, <1>5 DEF AwardInv, ListInv, NothingIsDropped, LastWordingIsAwarded
<1>7. FormIsApart'
  <2>1. CASE editKey = r.key
    BY <1>1, <2>1 DEF AwardInv, FormIsApart, DeleteRow, ClearForm
  <2>2. CASE editKey # r.key
    BY <1>1, <1>2, <2>2 DEF AwardInv, FormIsApart, DeleteRow
  <2> QED BY <2>1, <2>2
<1> QED BY <1>3, <1>4, <1>6, <1>7 DEF AwardInv, ListInv

LEMMA SubmitBatchKeeps ==
    ASSUME AwardInv, NEW n \in Submissions, SubmitBatch(n)
    PROVE  AwardInv'
<1>1. /\ pending = 0 /\ pending' = n /\ calls[n].status = "none" /\ n # 0
      /\ calls' = [calls EXCEPT ![n] = [rows |-> queue, status |-> "sent"]]
      /\ UNCHANGED <<queue, rows, chosen, editKey, importing, awarded, wording, withdrawn,
                     meanwhile, straddled, unsure>>
      /\ queue \in SUBSET ListRows
      /\ calls \in [Submissions -> [rows : SUBSET ListRows, status : Answers]]
  BY AwardAssumption DEF SubmitBatch, AwardInv, ListInv, ListShapes, Submissions
<1>2. /\ calls'[n].rows = queue /\ calls'[n].status = "sent"
      /\ \A m \in Submissions \ {n} : calls'[m] = calls[m]
      /\ calls' \in [Submissions -> [rows : SUBSET ListRows, status : Answers]]
  BY <1>1 DEF Answers
<1>3. ListShapes'
  BY <1>1, <1>2 DEF AwardInv, ListInv, ListShapes
<1>4. RowsAreApart' /\ CallHasTheList'
  BY <1>1, <1>2 DEF AwardInv, ListInv, RowsAreApart, CallHasTheList
<1>5. CallsAreApart'
  BY <1>1, <1>2 DEF AwardInv, ListInv, RowsAreApart, CallsAreApart
<1>6. CarriedOnce'
  <2> SUFFICES ASSUME NEW b \in Awards \ (unsure \cup straddled), NEW m \in Submissions, Carries(m, b)'
               PROVE  /\ m = n \/ (calls'[m].status = "committed" /\ b \notin AwardsOf(queue))
                      /\ \A k \in Submissions : Carries(k, b)' => k = m
    BY <1>1 DEF CarriedOnce, AwardsOf
  <2>1. \A k \in Submissions \ {n} : Carries(k, b)' => Carries(k, b)
    BY <1>2 DEF Carries, AwardsOf
  <2>2. Carries(n, b)' => b \in AwardsOf(queue)
    BY <1>2 DEF Carries, AwardsOf
  <2>3. \A k \in Submissions : Carries(k, b) =>
            b \notin AwardsOf(queue) /\ calls[k].status = "committed"
            /\ \A j \in Submissions : Carries(j, b) => j = k
    BY <1>1 DEF AwardInv, ListInv, CarriedOnce, Submissions
  <2>4. CASE m = n
    BY <2>1, <2>2, <2>3, <2>4
  <2>5. CASE m # n
    BY <1>2, <2>1, <2>2, <2>3, <2>5
  <2> QED BY <2>4, <2>5
<1>7. RecordsAreOfCalls'
  <2>1. {m \in Submissions : calls[m].status = "committed"}'
            = {m \in Submissions : calls[m].status = "committed"}
    BY <1>1, <1>2
  <2>2. \A m \in {k \in Submissions : calls[k].status = "committed"} : RecordsOfCall(m)' = RecordsOfCall(m)
    BY <1>1, <1>2 DEF RecordsOfCall
  <2> QED BY <1>1, <2>1, <2>2 DEF AwardInv, ListInv, RecordsAreOfCalls
<1>8. NothingIsDropped' /\ LastWordingIsAwarded'
  BY <1>1 DEF AwardInv, ListInv, NothingIsDropped, LastWordingIsAwarded, RecordsOf, AwardsOf
<1>9. FormIsApart'
  BY <1>1 DEF AwardInv, FormIsApart, AwardsOf
<1> QED BY <1>3, <1>4, <1>5, <1>6, <1>7, <1>8, <1>9 DEF AwardInv, ListInv

LEMMA AwardRowsKeeps ==
    ASSUME AwardInv, NEW n \in Submissions, AwardRows(n)
    PROVE  AwardInv'
<1>1. /\ calls[n].status = "sent" /\ calls' = [calls EXCEPT ![n].status = "committed"]
      /\ awarded' = awarded \cup RecordsOfCall(n)
      /\ UNCHANGED <<queue, rows, chosen, editKey, importing, pending, wording, withdrawn,
                     meanwhile, straddled, unsure>>
      /\ calls \in [Submissions -> [rows : SUBSET ListRows, status : Answers]]
  BY DEF AwardRows, RecordsOfCall, AwardInv, ListInv, ListShapes
<1>2. /\ calls'[n].rows = calls[n].rows /\ calls'[n].status = "committed"
      /\ \A m \in Submissions \ {n} : calls'[m] = calls[m]
      /\ \A m \in Submissions : calls'[m].rows = calls[m].rows
      /\ calls' \in [Submissions -> [rows : SUBSET ListRows, status : Answers]]
  BY <1>1 DEF Answers
<1>3. ListShapes' /\ RowsAreApart' /\ CallsAreApart' /\ CallHasTheList' /\ FormIsApart'
  <2>1. ListShapes' /\ RowsAreApart' /\ FormIsApart'
    BY <1>1, <1>2 DEF AwardInv, ListInv, ListShapes, RowsAreApart, FormIsApart, AwardsOf
  <2>2. CallsAreApart'
    BY <1>1, <1>2 DEF AwardInv, ListInv, CallsAreApart
  <2>3. CallHasTheList'
    BY <1>1, <1>2 DEF AwardInv, ListInv, ListShapes, CallHasTheList
  <2> QED BY <2>1, <2>2, <2>3
<1>4. CarriedOnce'
  <2>1. \A m \in Submissions, b \in Awards : Carries(m, b)' <=> Carries(m, b)
    BY <1>1, <1>2 DEF Carries, AwardsOf
  <2>2. \A m \in Submissions : calls[m].status = "committed" => calls'[m].status = "committed"
    BY <1>2
  <2>3. AwardsOf(queue)' = AwardsOf(queue)
    BY <1>1 DEF AwardsOf
  <2>4. CarriedOnce
    BY DEF AwardInv, ListInv
  <2> QED BY <1>1, <2>1, <2>2, <2>3, <2>4 DEF CarriedOnce
<1>5. RecordsAreOfCalls'
  <2>1. {m \in Submissions : calls[m].status = "committed"}'
            = {m \in Submissions : calls[m].status = "committed"} \cup {n}
    BY <1>1, <1>2
  <2>2. \A m \in Submissions : RecordsOfCall(m)' = RecordsOfCall(m)
    BY <1>1, <1>2 DEF RecordsOfCall
  <2> QED BY <1>1, <2>1, <2>2 DEF AwardInv, ListInv, RecordsAreOfCalls
<1>6. ASSUME NEW b \in Awards
      PROVE  /\ RecordsOf(b) \subseteq RecordsOf(b)'
             /\ RecordsOf(b)' # {} /\ RecordsOf(b) = {} => b \in AwardsOf(calls[n].rows)
  <2>1. \A x \in RecordsOfCall(n) : x.row \in calls[n].rows
    BY DEF RecordsOfCall
  <2> QED BY <1>1, <2>1 DEF RecordsOf, AwardsOf
<1>7. NothingIsDropped'
  BY <1>1, <1>6 DEF AwardInv, ListInv, NothingIsDropped, AwardsOf
<1>8. LastWordingIsAwarded'
  <2> SUFFICES ASSUME NEW b \in Awards \ (withdrawn \cup meanwhile), RecordsOf(b)' # {},
                      b \notin AwardsOf(queue)
               PROVE  \E x \in RecordsOf(b)' : x.row.wording = wording[b]
    BY <1>1 DEF LastWordingIsAwarded, AwardsOf
  <2>1. RecordsOf(b) # {}
    <3>1. SUFFICES ASSUME b \in AwardsOf(calls[n].rows)
                   PROVE  RecordsOf(b) # {}
      BY <1>6
    <3>2. wording[b] > 0
      BY <3>1 DEF AwardsOf, AwardInv, ListInv, CallsAreApart
    <3> QED BY <3>2 DEF AwardInv, ListInv, NothingIsDropped
  <2>2. \E x \in RecordsOf(b) : x.row.wording = wording[b]
    BY <2>1 DEF AwardInv, ListInv, LastWordingIsAwarded
  <2> QED BY <2>2, <1>6
<1> QED BY <1>3, <1>4, <1>5, <1>7, <1>8 DEF AwardInv, ListInv

LEMMA RefuseRowsKeeps ==
    ASSUME AwardInv, NEW n \in Submissions, RefuseRows(n)
    PROVE  AwardInv'
<1>1. /\ calls[n].status = "sent" /\ calls' = [calls EXCEPT ![n].status = "refused"]
      /\ UNCHANGED <<queue, rows, chosen, editKey, importing, pending, awarded, wording,
                     withdrawn, meanwhile, straddled, unsure>>
      /\ calls \in [Submissions -> [rows : SUBSET ListRows, status : Answers]]
  BY DEF RefuseRows, AwardInv, ListInv, ListShapes
<1>2. /\ calls'[n].status = "refused"
      /\ \A m \in Submissions \ {n} : calls'[m] = calls[m]
      /\ \A m \in Submissions : calls'[m].rows = calls[m].rows
      /\ calls' \in [Submissions -> [rows : SUBSET ListRows, status : Answers]]
  BY <1>1 DEF Answers
<1>3. ListShapes' /\ RowsAreApart' /\ CallsAreApart' /\ CallHasTheList' /\ FormIsApart'
  <2>1. ListShapes' /\ RowsAreApart' /\ FormIsApart'
    BY <1>1, <1>2 DEF AwardInv, ListInv, ListShapes, RowsAreApart, FormIsApart, AwardsOf
  <2>2. CallsAreApart'
    BY <1>1, <1>2 DEF AwardInv, ListInv, CallsAreApart
  <2>3. CallHasTheList'
    BY <1>1, <1>2 DEF AwardInv, ListInv, ListShapes, CallHasTheList
  <2> QED BY <2>1, <2>2, <2>3
<1>4. CarriedOnce'
  <2>1. \A m \in Submissions, b \in Awards : Carries(m, b)' => m # n /\ Carries(m, b)
    BY <1>1, <1>2 DEF Carries, AwardsOf
  <2>2. AwardsOf(queue)' = AwardsOf(queue)
    BY <1>1 DEF AwardsOf
  <2>3. CarriedOnce
    BY DEF AwardInv, ListInv
  <2> QED BY <1>1, <1>2, <2>1, <2>2, <2>3 DEF CarriedOnce
<1>5. RecordsAreOfCalls'
  <2>1. {m \in Submissions : calls[m].status = "committed"}'
            = {m \in Submissions : calls[m].status = "committed"}
    BY <1>1, <1>2
  <2>2. \A m \in Submissions : RecordsOfCall(m)' = RecordsOfCall(m)
    BY <1>1, <1>2 DEF RecordsOfCall
  <2> QED BY <1>1, <2>1, <2>2 DEF AwardInv, ListInv, RecordsAreOfCalls
<1>6. NothingIsDropped' /\ LastWordingIsAwarded'
  BY <1>1 DEF AwardInv, ListInv, NothingIsDropped, LastWordingIsAwarded, RecordsOf, AwardsOf
<1> QED BY <1>3, <1>4, <1>5, <1>6 DEF AwardInv, ListInv

LEMMA SubmissionSucceedsKeeps ==
    ASSUME AwardInv, SubmissionSucceeds
    PROVE  AwardInv'
<1>1. /\ pending \in Submissions /\ calls[pending].status = "committed" /\ pending' = 0
      /\ queue' = {} /\ editKey' = 0
      /\ straddled' = IF editKey # 0 THEN straddled \cup {chosen} ELSE straddled
      /\ UNCHANGED <<rows, chosen, importing, calls, awarded, wording, withdrawn, meanwhile, unsure>>
  BY DEF SubmissionSucceeds, AwardInv, ListInv, ListShapes
<1>2. ListShapes' /\ RowsAreApart' /\ CallsAreApart' /\ RecordsAreOfCalls' /\ CallHasTheList'
  BY <1>1 DEF AwardInv, ListInv, ListShapes, RowsAreApart, CallsAreApart, RecordsAreOfCalls,
              RecordsOfCall, CallHasTheList
<1>3. CarriedOnce'
  <2>1. \A m \in Submissions, b \in Awards : Carries(m, b)' <=> Carries(m, b)
    BY <1>1 DEF Carries, AwardsOf
  <2>2. AwardsOf(queue)' = {}
    BY <1>1 DEF AwardsOf
  <2>3. CarriedOnce
    BY DEF AwardInv, ListInv
  <2> QED BY <1>1, <2>1, <2>2, <2>3 DEF CarriedOnce
<1>4. \A b \in Awards : RecordsOf(b)' = RecordsOf(b)
  BY <1>1 DEF RecordsOf
\* What leaves the list has been awarded, in its last wording.
<1>5. ASSUME NEW b \in Awards \ (withdrawn \cup meanwhile), b \in AwardsOf(queue)
      PROVE  \E x \in RecordsOf(b) : x.row.wording = wording[b]
  <2>1. PICK r \in queue : r.award = b
    BY <1>5 DEF AwardsOf
  <2>2. r \in calls[pending].rows /\ r.wording = wording[b]
    BY <1>1, <1>5, <2>1, AwardAssumption DEF AwardInv, ListInv, CallHasTheList, RowsAreApart, Submissions
  <2>3. [call |-> pending, row |-> r] \in RecordsOf(b)
    BY <1>1, <2>1, <2>2, RecordsAre DEF AwardInv, ListInv
  <2> QED BY <2>2, <2>3
<1>6. NothingIsDropped'
  BY <1>1, <1>4, <1>5 DEF AwardInv, ListInv, NothingIsDropped
<1>7. LastWordingIsAwarded'
  BY <1>1, <1>4, <1>5 DEF AwardInv, ListInv, LastWordingIsAwarded
<1>8. FormIsApart'
  <2>1. AwardsOf(queue)' = {}
    BY <1>1 DEF AwardsOf
  <2> QED BY <1>1, <2>1 DEF AwardInv, FormIsApart
<1> QED BY <1>2, <1>3, <1>6, <1>7, <1>8 DEF AwardInv, ListInv

LEMMA SubmissionIsInErrorKeeps ==
    ASSUME AwardInv, SubmissionIsInError
    PROVE  AwardInv'
<1>1. /\ pending \in Submissions /\ pending' = 0
      /\ IF calls[pending].status = "refused" THEN unsure' = unsure
         ELSE unsure' = unsure \cup AwardsOf(calls[pending].rows)
      /\ UNCHANGED <<queue, rows, chosen, editKey, importing, calls, awarded, wording,
                     withdrawn, meanwhile, straddled>>
  BY DEF SubmissionIsInError, AwardInv, ListInv, ListShapes
<1>2. ListShapes' /\ RowsAreApart' /\ CallsAreApart' /\ RecordsAreOfCalls' /\ CallHasTheList'
  BY <1>1 DEF AwardInv, ListInv, ListShapes, RowsAreApart, CallsAreApart, RecordsAreOfCalls,
              RecordsOfCall, CallHasTheList
<1>3. CarriedOnce'
  <2>1. \A m \in Submissions, b \in Awards : Carries(m, b)' <=> Carries(m, b)
    BY <1>1 DEF Carries, AwardsOf
  <2>2. AwardsOf(queue)' = AwardsOf(queue)
    BY <1>1 DEF AwardsOf
  <2>3. \A b \in Awards \ unsure' : ~Carries(pending, b)
    BY <1>1 DEF Carries
  <2>4. CarriedOnce /\ unsure \subseteq unsure'
    BY <1>1 DEF AwardInv, ListInv
  <2> QED BY <1>1, <2>1, <2>2, <2>3, <2>4 DEF CarriedOnce
<1>4. NothingIsDropped' /\ LastWordingIsAwarded'
  BY <1>1 DEF AwardInv, ListInv, NothingIsDropped, LastWordingIsAwarded, RecordsOf, AwardsOf
<1>5. FormIsApart'
  BY <1>1 DEF AwardInv, FormIsApart, AwardsOf
<1> QED BY <1>2, <1>3, <1>4, <1>5 DEF AwardInv, ListInv

LEMMA AwardBegins == AwardInit => AwardInv
<1> SUFFICES ASSUME AwardInit PROVE AwardInv
  OBVIOUS
<1>1. \A n \in Submissions : calls[n] = [rows |-> {}, status |-> "none"]
  BY DEF AwardInit
<1>2. ListShapes /\ RowsAreApart /\ FormIsApart /\ CallHasTheList /\ CallsAreApart
  <2>1. calls \in [Submissions -> [rows : SUBSET ListRows, status : Answers]]
    BY DEF AwardInit, Answers
  <2> QED BY <1>1, <2>1 DEF AwardInit, ListShapes, RowsAreApart, FormIsApart, CallHasTheList, CallsAreApart
<1>3. CarriedOnce
  BY <1>1 DEF CarriedOnce, Carries
<1>4. RecordsAreOfCalls
  <2>1. {m \in Submissions : calls[m].status = "committed"} = {}
    BY <1>1
  <2> QED BY <2>1 DEF AwardInit, RecordsAreOfCalls
<1>5. NothingIsDropped /\ LastWordingIsAwarded
  BY DEF AwardInit, NothingIsDropped, LastWordingIsAwarded, RecordsOf
<1> QED BY <1>2, <1>3, <1>4, <1>5 DEF AwardInv, ListInv

LEMMA AwardInvHolds == AwardSpec => []AwardInv
<1>1. AwardInv /\ [AwardNext]_awardVars => AwardInv'
  <2> SUFFICES ASSUME AwardInv, [AwardNext]_awardVars PROVE AwardInv'
    OBVIOUS
  <2>1. CASE AwardNext
    <3>1. ASSUME NEW a \in Awards, Choose(a) \/ ImportFile(a) PROVE AwardInv'
      BY <3>1, ChooseKeeps, ImportFileKeeps
    <3>2. CASE AddToQueue \/ CancelEdit \/ FinishImport \/ RefuseImport
      BY <3>2, AddToQueueKeeps, CancelEditKeeps, FinishImportKeeps, RefuseImportKeeps
    <3>3. ASSUME NEW r \in queue, EditRow(r) \/ DeleteRow(r) PROVE AwardInv'
      BY <3>3, EditRowKeeps, DeleteRowKeeps
    <3>4. ASSUME NEW n \in Submissions, SubmitBatch(n) \/ AwardRows(n) \/ RefuseRows(n)
          PROVE  AwardInv'
      BY <3>4, SubmitBatchKeeps, AwardRowsKeeps, RefuseRowsKeeps
    <3>5. CASE SubmissionSucceeds \/ SubmissionIsInError
      BY <3>5, SubmissionSucceedsKeeps, SubmissionIsInErrorKeeps
    <3> QED BY <2>1, <3>1, <3>2, <3>3, <3>4, <3>5 DEF AwardNext
  <2>2. CASE UNCHANGED awardVars
    BY <2>2 DEF awardVars, AwardInv, ListInv, ListShapes, RowsAreApart, FormIsApart,
                CallsAreApart, CarriedOnce, Carries, RecordsAreOfCalls, RecordsOfCall,
                CallHasTheList, NothingIsDropped, LastWordingIsAwarded, RecordsOf, AwardsOf
  <2> QED BY <2>1, <2>2
<1> QED BY <1>1, AwardBegins, PTL DEF AwardSpec

\* What the page awards is what was entered: once, nothing left out, and in its last
\* wording, for any number of awards, rows and submissions and however answers are lost,
\* but for the cases AwardForm names (PointAwardPage.tsx, createRecordBatch).
THEOREM AwardsExplained == AwardSpec => []AwardsAreExplained
<1>1. ASSUME AwardInv
      PROVE  AwardedOnce
  <2> SUFFICES ASSUME NEW a \in Awards \ (unsure \cup straddled)
               PROVE  Cardinality(RecordsOf(a)) <= 1
    BY DEF AwardedOnce
  <2>1. ASSUME NEW x \in RecordsOf(a), NEW y \in RecordsOf(a)
        PROVE  x = y
    <3>1. PICK n \in Submissions : \E r \in calls[n].rows :
                calls[n].status = "committed" /\ r.award = a /\ x = [call |-> n, row |-> r]
      BY <1>1, RecordsAre DEF AwardInv, ListInv
    <3>2. PICK r \in calls[n].rows :
                calls[n].status = "committed" /\ r.award = a /\ x = [call |-> n, row |-> r]
      BY <3>1
    <3>3. PICK m \in Submissions : \E s \in calls[m].rows :
                calls[m].status = "committed" /\ s.award = a /\ y = [call |-> m, row |-> s]
      BY <1>1, RecordsAre DEF AwardInv, ListInv
    <3>4. PICK s \in calls[m].rows :
                calls[m].status = "committed" /\ s.award = a /\ y = [call |-> m, row |-> s]
      BY <3>3
    <3>5. m = n
      BY <1>1, <3>2, <3>4 DEF AwardInv, ListInv, CarriedOnce, Carries, AwardsOf
    <3>6. r = s
      BY <1>1, <3>2, <3>4, <3>5 DEF AwardInv, ListInv, CallsAreApart
    <3> QED BY <3>2, <3>4, <3>5, <3>6
  <2>2. CASE RecordsOf(a) = {}
    BY <2>2, FS_EmptySet
  <2>3. CASE RecordsOf(a) # {}
    <3>1. PICK x : x \in RecordsOf(a)
      BY <2>3
    <3>2. RecordsOf(a) = {x}
      BY <2>1, <3>1
    <3> QED BY <3>2, FS_Singleton
  <2> QED BY <2>2, <2>3
<1>2. ASSUME AwardInv
      PROVE  AwardTypeOK
  <2>1. \A r \in queue : r.key \in 1 .. rows /\ r.award \in Awards
    BY <1>2 DEF AwardInv, ListInv, ListShapes, ListRows
  <2>2. /\ chosen \in Awards \cup {NoAward} /\ editKey \in 0 .. rows
        /\ pending \in {0} \cup Submissions
    BY <1>2, <2>1 DEF AwardInv, ListInv, ListShapes, FormIsApart
  <2>3. ASSUME NEW x \in awarded PROVE x.row.award \in Awards
    <3>1. PICK n \in Submissions : x \in RecordsOfCall(n)
      BY <1>2, <2>3 DEF AwardInv, ListInv, RecordsAreOfCalls
    <3>2. x.row \in calls[n].rows
      BY <3>1 DEF RecordsOfCall
    <3> QED BY <1>2, <3>2 DEF AwardInv, ListInv, ListShapes, ListRows
  <2>4. AwardsOf({x.row : x \in awarded}) \subseteq Awards
    BY <2>3 DEF AwardsOf
  <2> QED BY <2>1, <2>2, <2>4 DEF AwardTypeOK
<1>3. AwardInv => AwardsAreExplained
  BY <1>1, <1>2 DEF AwardsAreExplained, AwardInv, ListInv
<1> QED BY <1>3, AwardInvHolds, PTL
=============================================================================
