-------------------------- MODULE WakeSongsProofs --------------------------
(***************************************************************************)
(* Proofs about WakeSongs for any requests, edits, conversions and         *)
(* processes: types, the cap on pending requests, what is recorded of      *)
(* which request, and that a process converts a request once at a time.    *)
(***************************************************************************)
EXTENDS WakeSongs, FiniteSetTheorems, TLAPS

Places == {"idle", "locked", "counted", "committed", "listed", "read", "checked", "joined",
           "rendering", "stored", "settling", "done"}

Converting == {"read", "checked", "joined", "rendering"}
Busy == {"rendering", "stored", "settling"}

\* A creation under way holds the row of its student, and no request of that
\* student has become pending since it counted.
Creating ==
    /\ \A r \in Songs :
         pc[r] \in {"locked", "counted"} =>
            userLock[RequesterOf[r]] = r /\ status[r] = "none"
    /\ \A r \in Songs :
         pc[r] = "counted" => Cardinality(Pending(RequesterOf[r])) <= pendingSeen[r]

\* What was read or stored was approved, and approvals are not taken back.
Approved ==
    /\ RecordingsAreOfApprovedSongs
    /\ \A g \in Conversions : pc[g] \in Converting => Convertible(SongOf[g])

\* The table lists exactly the conversions that are busy, each in its place.
Tasks ==
    /\ \A p \in Processes, r \in Songs :
         inFlight[p][r] # None =>
            ProcessOf[inFlight[p][r]] = p /\ SongOf[inFlight[p][r]] = r
    /\ \A g \in Conversions : pc[g] \in Busy <=> Running(g) = g
    /\ \A g \in Conversions : pc[g] = "joined" => joined[g] # None

\* What is stored was read by a conversion that is past its rendering; while it
\* renders, an edit is noted.
Fresh ==
    /\ \A g \in Conversions : pc[g] \in {"idle"} \cup Converting => store[g] = "absent"
    /\ faults = 0 =>
         \A g \in Conversions :
            pc[g] \in Converting /\ read[g] # segment[SongOf[g]] => g \in raced
    /\ StaleRecordingsWereRaced

IInv == TypeOK /\ Creating /\ PendingCapHeld /\ Approved /\ Tasks /\ Fresh

-----------------------------------------------------------------------------
(* What the parts of a step do. *)

\* The statuses a request moves between without being created or edited.
Moves(r) ==
    \/ Transition(r, {"PENDING"}, "CANCELED")
    \/ Transition(r, {"PENDING"}, "APPROVED")
    \/ Transition(r, {"PENDING"}, "REJECTED")
    \/ Transition(r, {"APPROVED", "SCHEDULED"}, "SCHEDULED")
    \/ Transition(r, {"SCHEDULED"}, "PLAYED")

\* What a request does is to be created, to be updated or to move.
LEMMA RequestSteps ==
    ASSUME NEW r \in Songs, RequestStep(r)
    PROVE  BeginCreate(r) \/ CountPending(r) \/ FinishCreate(r) \/ UpdateRequest(r) \/ Moves(r)
BY DEF RequestStep, Moves, Cancel, Review, Schedule, MarkPlayed

\* Nothing becomes pending or unapproved by a move.
LEMMA MovesForward ==
    ASSUME TypeOK, NEW r \in Songs, Moves(r)
    PROVE  /\ status' \in [Songs -> Statuses]
           /\ \A q \in Songs : /\ status'[q] = "PENDING" => status[q] = "PENDING"
                               /\ status[q] = "none" => status'[q] = "none"
                               /\ Convertible(q) => Convertible(q)'
           /\ UNCHANGED <<segment, userLock, pendingSeen, store, parent, read, raced, inFlight,
                          joined, answer, rows, pc, faults>>
<1>1. PICK from, to :
        /\ Transition(r, from, to)
        /\ \/ from = {"PENDING"} /\ to \in {"CANCELED", "APPROVED", "REJECTED"}
           \/ from = {"APPROVED", "SCHEDULED"} /\ to = "SCHEDULED"
           \/ from = {"SCHEDULED"} /\ to = "PLAYED"
  BY DEF Moves
<1>2. status[r] \in from /\ status' = [status EXCEPT ![r] = to]
  BY <1>1 DEF Transition
<1>3. UNCHANGED <<segment, userLock, pendingSeen, store, parent, read, raced, inFlight,
                  joined, answer, rows, pc, faults>>
  BY <1>1 DEF Transition, createVars, fileVars, conversionVars, NoFault
<1>4. \A q \in Songs : status'[q] = IF q = r THEN to ELSE status[q]
  BY <1>2 DEF TypeOK
<1>5. status' \in [Songs -> Statuses]
  BY <1>1, <1>2 DEF TypeOK, Statuses
<1> QED
  BY <1>1, <1>2, <1>3, <1>4, <1>5 DEF Convertible

\* One slot of the table is written.
LEMMA SlotWritten ==
    ASSUME TypeOK, NEW g \in Conversions, NEW x \in Conversions \cup {None}, SetRunning(g, x)
    PROVE  /\ inFlight' \in [Processes -> [Songs -> Conversions \cup {None}]]
           /\ \A p \in Processes, r \in Songs :
                inFlight'[p][r] = IF p = ProcessOf[g] /\ r = SongOf[g] THEN x ELSE inFlight[p][r]
<1>1. ProcessOf[g] \in Processes /\ SongOf[g] \in Songs
  BY CallAssumption DEF Calls
<1>2. inFlight' = [inFlight EXCEPT ![ProcessOf[g]] =
                                  [inFlight[ProcessOf[g]] EXCEPT ![SongOf[g]] = x]]
  BY DEF SetRunning
<1> QED
  BY <1>1, <1>2 DEF TypeOK

\* The number of pending requests follows their set.
LEMMA FewerPending ==
    ASSUME NEW S, NEW T, S \subseteq T, T \subseteq Songs
    PROVE  /\ Cardinality(S) \in Nat /\ Cardinality(T) \in Nat
           /\ Cardinality(S) <= Cardinality(T)
<1>1. IsFiniteSet(T)
  BY CallAssumption, FS_Subset
<1> QED
  BY <1>1, FS_Subset, FS_CardinalityType

\* One request more is one more to count.
LEMMA OneMorePending ==
    ASSUME NEW S, NEW T, NEW r, S \subseteq T \cup {r}, T \subseteq Songs
    PROVE  /\ Cardinality(S) \in Nat /\ Cardinality(T) \in Nat
           /\ Cardinality(S) <= Cardinality(T) + 1
<1>1. IsFiniteSet(T) /\ Cardinality(T) \in Nat
  BY CallAssumption, FS_Subset, FS_CardinalityType
<1>2. /\ IsFiniteSet(T \cup {r})
      /\ Cardinality(T \cup {r}) = IF r \in T THEN Cardinality(T) ELSE Cardinality(T) + 1
  BY <1>1, FS_AddElement
<1>3. Cardinality(S) \in Nat /\ Cardinality(S) <= Cardinality(T \cup {r})
  BY <1>2, FS_Subset, FS_CardinalityType
<1> QED
  BY <1>1, <1>2, <1>3

\* Requests that do not become pending leave the cap and the counts alone.
LEMMA KeepsCounts ==
    ASSUME TypeOK, Creating, PendingCapHeld,
           \A q \in Songs : status'[q] = "PENDING" => status[q] = "PENDING"
    PROVE  /\ \A s : /\ Cardinality(Pending(s)') <= Cardinality(Pending(s))
                     /\ Cardinality(Pending(s)') \in Nat
                     /\ Cardinality(Pending(s)) \in Nat
           /\ PendingCapHeld'
<1>1. \A s : Pending(s)' \subseteq Pending(s) /\ Pending(s) \subseteq Songs
  BY DEF Pending
<1>2. \A s : /\ Cardinality(Pending(s)') <= Cardinality(Pending(s))
             /\ Cardinality(Pending(s)') \in Nat /\ Cardinality(Pending(s)) \in Nat
  BY <1>1, FewerPending
<1> QED
  BY <1>2, ValueAssumption DEF PendingCapHeld

\* What Creating and PendingCapHeld depend on.
LEMMA KeepsCreating ==
    ASSUME TypeOK, Creating, PendingCapHeld, UNCHANGED <<userLock, pendingSeen>>,
           \A q \in Songs : /\ status'[q] = "PENDING" => status[q] = "PENDING"
                            /\ status[q] = "none" => status'[q] = "none"
                            /\ pc'[q] = pc[q]
    PROVE  (Creating /\ PendingCapHeld)'
<1>1. /\ \A s : /\ Cardinality(Pending(s)') <= Cardinality(Pending(s))
                /\ Cardinality(Pending(s)') \in Nat
                /\ Cardinality(Pending(s)) \in Nat
      /\ PendingCapHeld'
  BY KeepsCounts
<1>2. ASSUME NEW q \in Songs, pc'[q] = "counted"
      PROVE  Cardinality(Pending(RequesterOf[q])') <= pendingSeen'[q]
  <2>1. Cardinality(Pending(RequesterOf[q])) <= pendingSeen[q] /\ pendingSeen[q] \in Nat
    BY <1>2 DEF Creating, TypeOK
  <2> QED
    BY <1>1, <2>1
<1>3. ASSUME NEW q \in Songs, pc'[q] \in {"locked", "counted"}
      PROVE  userLock'[RequesterOf[q]] = q /\ status'[q] = "none"
  BY <1>3 DEF Creating
<1> QED
  BY <1>1, <1>2, <1>3 DEF Creating

\* What Approved depends on.
LEMMA KeepsApproved ==
    ASSUME Approved, \A q \in Songs : Convertible(q) => Convertible(q)',
           \A g \in Conversions :
              /\ store'[g] \in {"live", "doomed"} => store[g] \in {"live", "doomed"}
              /\ pc'[g] \in Converting => pc[g] \in Converting
    PROVE  Approved'
<1>1. \A g \in Conversions : SongOf[g] \in Songs
  BY CallAssumption DEF Calls
<1> QED
  BY <1>1 DEF Approved, RecordingsAreOfApprovedSongs

\* What Tasks depends on.
LEMMA KeepsTasks ==
    ASSUME Tasks, UNCHANGED <<inFlight, joined>>,
           \A g \in Conversions : pc'[g] \in Busy <=> pc[g] \in Busy,
           \A g \in Conversions : pc'[g] = "joined" => pc[g] = "joined"
    PROVE  Tasks'
BY DEF Tasks, Running

Waiting == {"idle"} \cup Converting

\* What Fresh depends on.
LEMMA KeepsFresh ==
    ASSUME Fresh, UNCHANGED <<read, raced>>,
           faults' = 0 => faults = 0,
           \A g \in Conversions : pc'[g] \in Waiting => pc[g] \in Waiting,
           \A g \in Conversions : pc'[g] \in Waiting => store'[g] = store[g],
           \A g \in Conversions : pc'[g] \in Converting => pc[g] \in Converting,
           \A g \in Conversions : store'[g] = "live" => store[g] = "live",
           \A g \in Conversions : pc'[g] \in Converting \/ store'[g] = "live" =>
              segment'[SongOf[g]] = segment[SongOf[g]],
           faults' = 0 => \A g \in Conversions :
              store'[g] = "live" /\ Invalidating(g) => Invalidating(g)'
    PROVE  Fresh'
<1>1. \A g \in Conversions : pc'[g] \in Waiting => store'[g] = "absent"
  BY DEF Fresh, Waiting
<1>2. ASSUME faults' = 0, NEW g \in Conversions,
             pc'[g] \in Converting, read'[g] # segment'[SongOf[g]]
      PROVE  g \in raced'
  BY <1>2 DEF Fresh
<1>3. ASSUME faults' = 0, NEW g \in Conversions,
             store'[g] = "live", read'[g] # segment'[SongOf[g]]
      PROVE  g \in raced' \/ Invalidating(g)'
  <2>1. g \in raced \/ Invalidating(g)
    BY <1>3 DEF Fresh, StaleRecordingsWereRaced
  <2> QED
    BY <1>3, <2>1
<1> QED
  BY <1>1, <1>2, <1>3 DEF Fresh, Waiting, StaleRecordingsWereRaced

\* Steps that touch neither segments nor recordings nor edits.
LEMMA QuietKeepsFresh ==
    ASSUME Fresh, UNCHANGED <<segment, store, read, raced, rows>>,
           faults' = 0 => faults = 0,
           \A e \in Editors : pc'[e] = pc[e],
           \A g \in Conversions : pc'[g] \in Waiting => pc[g] \in Waiting,
           \A g \in Conversions : pc'[g] \in Converting => pc[g] \in Converting
    PROVE  Fresh'
<1>1. \A g \in Conversions : Invalidating(g) => Invalidating(g)'
  BY DEF Invalidating
<1> QED
  BY <1>1, KeepsFresh

\* What is in conversion or recorded is of no request that a student may still change.
LEMMA NothingOfPending ==
    ASSUME Approved, NEW r \in Songs, status[r] \in {"none", "PENDING"},
           NEW g \in Conversions, pc[g] \in Converting \/ store[g] = "live"
    PROVE  SongOf[g] # r
BY DEF Approved, RecordingsAreOfApprovedSongs, Convertible

\* A call goes on, the others stay where they are.
LEMMA OnlyOneGoes ==
    ASSUME TypeOK, NEW x \in Songs \cup Calls, NEW l, Goto(x, l)
    PROVE  \A c \in Songs \cup Calls : pc'[c] = IF c = x THEN l ELSE pc[c]
BY DEF TypeOK, Goto

\* Requests, edits and conversions are different things.
LEMMA Different ==
    /\ \A e \in Editors : e \notin Songs /\ e \notin Conversions
    /\ \A g \in Conversions : g \notin Songs /\ SongOf[g] \in Songs
    /\ \A e \in Editors : SongOf[e] \in Songs
BY CallAssumption DEF Calls

-----------------------------------------------------------------------------
(* Every step keeps the invariant. *)

\* Every step keeps the types.
LEMMA TypeKept ==
    ASSUME IInv, Next PROVE TypeOK'
<1> USE CallAssumption, ValueAssumption DEF Calls
<1>0. TypeOK
  BY DEF IInv
<1>1. ASSUME NEW r \in Songs, BeginCreate(r) PROVE TypeOK'
  <2>1. userLock' \in [Students -> Songs \cup {None}]
    BY <1>1, <1>0 DEF BeginCreate, TypeOK
  <2>2. pc' \in [Songs \cup Calls -> Places]
    BY <1>1, <1>0 DEF BeginCreate, Goto, Places, TypeOK
  <2>3. UNCHANGED <<status, segment, pendingSeen, store, read, inFlight, joined, answer, rows,
                    faults, parent, raced>>
    BY <1>1 DEF BeginCreate, requestVars, createVars, fileVars, conversionVars, NoFault
  <2> QED
    BY <2>1, <2>2, <2>3, <1>0 DEF TypeOK, Places
<1>2. ASSUME NEW r \in Songs, CountPending(r) PROVE TypeOK'
  <2>1. Cardinality(Pending(RequesterOf[r])) \in Nat
    BY FewerPending DEF Pending
  <2>2. pendingSeen' \in [Songs -> Nat]
    BY <1>2, <1>0, <2>1 DEF CountPending, TypeOK
  <2>3. pc' \in [Songs \cup Calls -> Places]
    BY <1>2, <1>0 DEF CountPending, Goto, Places, TypeOK
  <2>4. UNCHANGED <<status, segment, userLock, store, read, inFlight, joined, answer, rows,
                    faults, parent, raced>>
    BY <1>2 DEF CountPending, requestVars, createVars, fileVars, conversionVars, NoFault
  <2> QED
    BY <2>2, <2>3, <2>4, <1>0 DEF TypeOK, Places
<1>3. ASSUME NEW r \in Songs, FinishCreate(r) PROVE TypeOK'
  <2>1. status' \in [Songs -> Statuses]
    BY <1>3, <1>0 DEF FinishCreate, Statuses, requestVars, TypeOK
  <2>2. segment' \in [Songs -> Segments \cup {None}]
    BY <1>3, <1>0 DEF FinishCreate, requestVars, TypeOK
  <2>3. userLock' \in [Students -> Songs \cup {None}]
    BY <1>3, <1>0 DEF FinishCreate, TypeOK
  <2>4. pc' \in [Songs \cup Calls -> Places]
    <3>1. PICK l \in {"done", "idle"} : pc' = [pc EXCEPT ![r] = l]
      BY <1>3 DEF FinishCreate, Goto
    <3> QED
      BY <1>0, <3>1 DEF TypeOK, Places
  <2>5. UNCHANGED <<pendingSeen, store, read, inFlight, joined, answer, rows, faults, parent,
                    raced>>
    BY <1>3 DEF FinishCreate, requestVars, createVars, fileVars, conversionVars, NoFault
  <2> QED
    BY <2>1, <2>2, <2>3, <2>4, <2>5, <1>0 DEF TypeOK, Places
<1>4. ASSUME NEW r \in Songs, UpdateRequest(r) PROVE TypeOK'
  <2>1. segment' \in [Songs -> Segments \cup {None}]
    BY <1>4, <1>0 DEF UpdateRequest, TypeOK
  <2>2. UNCHANGED <<status, userLock, pendingSeen, store, read, inFlight, joined, answer, rows,
                    pc, faults, parent, raced>>
    BY <1>4 DEF UpdateRequest, requestVars, createVars, fileVars, conversionVars, NoFault
  <2> QED
    BY <2>1, <2>2, <1>0 DEF TypeOK, Places
<1>5. ASSUME NEW r \in Songs, Moves(r) PROVE TypeOK'
  BY <1>5, <1>0, MovesForward DEF TypeOK
<1>6. ASSUME NEW e \in Editors, EditRequest(e) PROVE TypeOK'
  <2>1. segment' \in [Songs -> Segments \cup {None}]
    BY <1>6, <1>0 DEF EditRequest, TypeOK
  <2>2. raced' \subseteq Conversions
    BY <1>6, <1>0 DEF EditRequest, Overtaken, TypeOK
  <2>3. pc' \in [Songs \cup Calls -> Places]
    BY <1>6, <1>0 DEF EditRequest, Goto, Places, TypeOK
  <2>4. UNCHANGED <<status, userLock, pendingSeen, store, read, inFlight, joined, answer, rows,
                    faults, parent>>
    BY <1>6 DEF EditRequest, requestVars, createVars, fileVars, conversionVars, NoFault
  <2> QED
    BY <2>1, <2>2, <2>3, <2>4, <1>0 DEF TypeOK, Places
<1>7. ASSUME NEW e \in Editors, ListRecordings(e) PROVE TypeOK'
  <2>1. Recordings(SongOf[e]) \in SUBSET Conversions
    BY DEF Recordings
  <2>2. rows' \in [Editors -> SUBSET Conversions]
    BY <1>7, <1>0, <2>1 DEF ListRecordings, TypeOK
  <2>3. pc' \in [Songs \cup Calls -> Places]
    BY <1>7, <1>0 DEF ListRecordings, Goto, Places, TypeOK
  <2>4. UNCHANGED <<status, segment, userLock, pendingSeen, store, read, inFlight, joined,
                    answer, faults, parent, raced>>
    BY <1>7 DEF ListRecordings, requestVars, createVars, fileVars, conversionVars, NoFault
  <2> QED
    BY <2>2, <2>3, <2>4, <1>0 DEF TypeOK, Places
<1>8. ASSUME NEW e \in Editors, DiscardRecording(e) PROVE TypeOK'
  <2>1. rows' \in [Editors -> SUBSET Conversions]
    BY <1>8, <1>0 DEF DiscardRecording, TypeOK
  <2>2. store' \in [Conversions -> Files!Status]
    <3>1. UNCHANGED store \/ \E x : store' = [store EXCEPT ![x] = "doomed"]
      BY <1>8 DEF DiscardRecording, Files!Condemn, fileVars
    <3> QED
      BY <1>0, <3>1 DEF TypeOK, Files!Status
  <2>3. UNCHANGED <<status, segment, userLock, pendingSeen, read, inFlight, joined, answer, pc,
                    faults, parent, raced>>
    BY <1>8 DEF DiscardRecording, Files!Condemn, requestVars, createVars, fileVars,
       conversionVars, NoFault
  <2> QED
    BY <2>1, <2>2, <2>3, <1>0 DEF TypeOK, Places
<1>9. ASSUME NEW e \in Editors, EndInvalidation(e) PROVE TypeOK'
  <2>1. pc' \in [Songs \cup Calls -> Places]
    BY <1>9, <1>0 DEF EndInvalidation, Goto, Places, TypeOK
  <2>2. UNCHANGED <<status, segment, userLock, pendingSeen, store, read, inFlight, joined,
                    answer, rows, faults, parent, raced>>
    BY <1>9 DEF EndInvalidation, requestVars, createVars, fileVars, conversionVars, NoFault
  <2> QED
    BY <2>1, <2>2, <1>0 DEF TypeOK, Places
<1>10. ASSUME NEW e \in Editors, InvalidationFails(e) PROVE TypeOK'
  <2>1. rows' \in [Editors -> SUBSET Conversions]
    BY <1>10, <1>0 DEF InvalidationFails, TypeOK
  <2>2. pc' \in [Songs \cup Calls -> Places]
    BY <1>10, <1>0 DEF InvalidationFails, Goto, Places, TypeOK
  <2>3. faults' \in Nat
    BY <1>10, <1>0 DEF InvalidationFails, Fault, TypeOK
  <2>4. UNCHANGED <<status, segment, userLock, pendingSeen, store, read, inFlight, joined,
                    answer, parent, raced>>
    BY <1>10 DEF InvalidationFails, Fault, requestVars, createVars, fileVars, conversionVars,
       NoFault
  <2> QED
    BY <2>1, <2>2, <2>3, <2>4, <1>0 DEF TypeOK, Places
<1>11. ASSUME NEW g \in Conversions, ReadRequest(g) PROVE TypeOK'
  <2>1. read' \in [Conversions -> Segments \cup {None}]
    BY <1>11, <1>0 DEF ReadRequest, TypeOK
  <2>2. pc' \in [Songs \cup Calls -> Places]
    BY <1>11, <1>0 DEF ReadRequest, Goto, Places, TypeOK
  <2>3. UNCHANGED <<status, segment, userLock, pendingSeen, store, inFlight, joined, answer,
                    rows, faults, parent, raced>>
    BY <1>11 DEF ReadRequest, requestVars, createVars, fileVars, conversionVars, NoFault
  <2> QED
    BY <2>1, <2>2, <2>3, <1>0 DEF TypeOK, Places
<1>12. ASSUME NEW g \in Conversions, ListExisting(g) PROVE TypeOK'
  <2>1. answer' \in [Conversions -> Conversions \cup {None}]
    <3>1. UNCHANGED answer \/ \E h \in Recordings(SongOf[g]) : answer' = [answer EXCEPT ![g] = h]
      BY <1>12 DEF ListExisting, Offer
    <3>2. Recordings(SongOf[g]) \in SUBSET Conversions
      BY DEF Recordings
    <3> QED
      BY <1>0, <3>1, <3>2 DEF TypeOK
  <2>2. pc' \in [Songs \cup Calls -> Places]
    <3>1. PICK l \in {"checked", "done"} : pc' = [pc EXCEPT ![g] = l]
      BY <1>12 DEF ListExisting, Goto
    <3> QED
      BY <1>0, <3>1 DEF TypeOK, Places
  <2>3. UNCHANGED <<status, segment, userLock, pendingSeen, store, read, inFlight, joined,
                    rows, faults, parent, raced>>
    BY <1>12 DEF ListExisting, requestVars, createVars, fileVars, conversionVars, NoFault
  <2> QED
    BY <2>1, <2>2, <2>3, <1>0 DEF TypeOK, Places
<1>13. ASSUME NEW g \in Conversions, JoinOrStart(g) PROVE TypeOK'
  <2>1. Running(g) \in Conversions \cup {None}
    BY <1>0 DEF Running, TypeOK
  <2>2. joined' \in [Conversions -> Conversions \cup {None}]
    <3>1. UNCHANGED joined \/ joined' = [joined EXCEPT ![g] = Running(g)]
      BY <1>13 DEF JoinOrStart
    <3> HIDE DEF Running
    <3> QED
      BY <1>0, <2>1, <3>1 DEF TypeOK
  <2>3. inFlight' \in [Processes -> [Songs -> Conversions \cup {None}]]
    BY <1>13, <1>0, SlotWritten DEF JoinOrStart, TypeOK
  <2>4. pc' \in [Songs \cup Calls -> Places]
    <3>1. PICK l \in {"joined", "rendering"} : pc' = [pc EXCEPT ![g] = l]
      BY <1>13 DEF JoinOrStart, Goto
    <3> QED
      BY <1>0, <3>1 DEF TypeOK, Places
  <2>5. UNCHANGED <<status, segment, userLock, pendingSeen, store, read, answer, rows, faults,
                    parent, raced>>
    BY <1>13 DEF JoinOrStart, requestVars, createVars, fileVars, conversionVars, NoFault
  <2> QED
    BY <2>2, <2>3, <2>4, <2>5, <1>0 DEF TypeOK, Places
<1>14. ASSUME NEW g \in Conversions, RenderFails(g) PROVE TypeOK'
  <2>1. pc' \in [Songs \cup Calls -> Places]
    BY <1>14, <1>0 DEF RenderFails, Goto, Places, TypeOK
  <2>2. UNCHANGED <<status, segment, userLock, pendingSeen, store, read, inFlight, joined,
                    answer, rows, faults, parent, raced>>
    BY <1>14 DEF RenderFails, requestVars, createVars, fileVars, conversionVars, NoFault
  <2> QED
    BY <2>1, <2>2, <1>0 DEF TypeOK, Places
<1>15. ASSUME NEW g \in Conversions, StoreRecording(g) PROVE TypeOK'
  <2>1. store' \in [Conversions -> Files!Status]
    BY <1>15, <1>0 DEF StoreRecording, Files!Attach, Files!Status, TypeOK
  <2>2. pc' \in [Songs \cup Calls -> Places]
    <3>1. PICK l \in {"stored", "settling"} : pc' = [pc EXCEPT ![g] = l]
      BY <1>15 DEF StoreRecording, Goto
    <3> QED
      BY <1>0, <3>1 DEF TypeOK, Places
  <2>3. faults' \in Nat
    BY <1>15, <1>0 DEF StoreRecording, Fault, NoFault, TypeOK
  <2>4. UNCHANGED <<status, segment, userLock, pendingSeen, read, inFlight, joined, answer,
                    rows, parent, raced>>
    BY <1>15 DEF StoreRecording, Fault, Files!Attach, requestVars, createVars, fileVars,
       conversionVars, NoFault
  <2> QED
    BY <2>1, <2>2, <2>3, <2>4, <1>0 DEF TypeOK, Places
<1>16. ASSUME NEW g \in Conversions, ReadStored(g) PROVE TypeOK'
  <2>1. answer' \in [Conversions -> Conversions \cup {None}]
    BY <1>16, <1>0 DEF ReadStored, Offer, TypeOK
  <2>2. pc' \in [Songs \cup Calls -> Places]
    BY <1>16, <1>0 DEF ReadStored, Goto, Places, TypeOK
  <2>3. UNCHANGED <<status, segment, userLock, pendingSeen, store, read, inFlight, joined,
                    rows, faults, parent, raced>>
    BY <1>16 DEF ReadStored, requestVars, createVars, fileVars, conversionVars, NoFault
  <2> QED
    BY <2>1, <2>2, <2>3, <1>0 DEF TypeOK, Places
<1>17. ASSUME NEW g \in Conversions, Settle(g) PROVE TypeOK'
  <2>1. inFlight' \in [Processes -> [Songs -> Conversions \cup {None}]]
    BY <1>17, <1>0, SlotWritten DEF Settle, TypeOK
  <2>2. pc' \in [Songs \cup Calls -> Places]
    BY <1>17, <1>0 DEF Settle, Goto, Places, TypeOK
  <2>3. UNCHANGED <<status, segment, userLock, pendingSeen, store, read, joined, answer, rows,
                    faults, parent, raced>>
    BY <1>17 DEF Settle, requestVars, createVars, fileVars, conversionVars, NoFault
  <2> QED
    BY <2>1, <2>2, <2>3, <1>0 DEF TypeOK, Places
<1>18. ASSUME NEW g \in Conversions, JoinedSettles(g) PROVE TypeOK'
  <2>1. answer[joined[g]] \in Conversions \cup {None}
    BY <1>0, <1>18 DEF IInv, Tasks, TypeOK, JoinedSettles
  <2>2. answer' \in [Conversions -> Conversions \cup {None}]
    BY <1>18, <1>0, <2>1 DEF JoinedSettles, Offer, TypeOK
  <2>3. pc' \in [Songs \cup Calls -> Places]
    BY <1>18, <1>0 DEF JoinedSettles, Goto, Places, TypeOK
  <2>4. UNCHANGED <<status, segment, userLock, pendingSeen, store, read, inFlight, joined,
                    rows, faults, parent, raced>>
    BY <1>18 DEF JoinedSettles, requestVars, createVars, fileVars, conversionVars, NoFault
  <2> QED
    BY <2>2, <2>3, <2>4, <1>0 DEF TypeOK, Places
<1>19. ASSUME NEW g \in Conversions, EraseRecording(g) PROVE TypeOK'
  <2>1. store' \in [Conversions -> Files!Status]
    BY <1>19, <1>0 DEF EraseRecording, Files!Vanish, Files!Status, TypeOK
  <2>2. UNCHANGED <<status, segment, userLock, pendingSeen, read, inFlight, joined, answer,
                    rows, pc, faults, parent, raced>>
    BY <1>19 DEF EraseRecording, Files!Vanish, requestVars, createVars, fileVars,
       conversionVars, NoFault
  <2> QED
    BY <2>1, <2>2, <1>0 DEF TypeOK, Places
<1>20. ASSUME NEW p \in Processes, Crash(p) PROVE TypeOK'
  <2>1. pc' \in [Songs \cup Calls -> Places]
    BY <1>20, <1>0 DEF Crash, Goto, Places, TypeOK
  <2>2. rows' \in [Editors -> SUBSET Conversions]
    BY <1>20, <1>0 DEF Crash, TypeOK
  <2>3. inFlight' \in [Processes -> [Songs -> Conversions \cup {None}]]
    BY <1>20, <1>0 DEF Crash, TypeOK
  <2>4. faults' \in Nat
    BY <1>20, <1>0 DEF Crash, Fault, TypeOK
  <2>5. UNCHANGED <<status, segment, userLock, pendingSeen, store, read, joined, answer,
                    parent, raced>>
    BY <1>20 DEF Crash, Fault, requestVars, createVars, fileVars, conversionVars, NoFault
  <2> QED
    BY <2>1, <2>2, <2>3, <2>4, <2>5, <1>0 DEF TypeOK, Places
<1> QED
  BY <1>1, <1>2, <1>3, <1>4, <1>5, <1>6, <1>7, <1>8, <1>9, <1>10, <1>11, <1>12,
     <1>13, <1>14, <1>15, <1>16, <1>17, <1>18, <1>19, <1>20, RequestSteps
  DEF Next, EditStep, ConversionStep

\* No step lets the count of a creation grow old.
LEMMA CreatingKept ==
    ASSUME IInv, Next PROVE (Creating /\ PendingCapHeld)'
<1> USE CallAssumption DEF Calls
<1>0. TypeOK /\ Creating /\ PendingCapHeld
  BY DEF IInv
<1>1. ASSUME NEW r \in Songs, BeginCreate(r) PROVE (Creating /\ PendingCapHeld)'
  <2>1. /\ UNCHANGED <<status, pendingSeen>> /\ Goto(r, "locked")
        /\ status[r] = "none" /\ userLock[RequesterOf[r]] = None
        /\ userLock' = [userLock EXCEPT ![RequesterOf[r]] = r]
    BY <1>1 DEF BeginCreate, requestVars
  <2>2. \A q \in Songs : pc'[q] = IF q = r THEN "locked" ELSE pc[q]
    BY <2>1, <1>0, OnlyOneGoes
  <2>3. \A q \in Songs : RequesterOf[q] \in Students
    BY CallAssumption
  <2>4. \A s \in Students : userLock'[s] = IF s = RequesterOf[r] THEN r ELSE userLock[s]
    BY <2>1, <1>0 DEF TypeOK
  <2>5. ASSUME NEW q \in Songs, pc'[q] \in {"locked", "counted"}
        PROVE  userLock'[RequesterOf[q]] = q /\ status'[q] = "none"
    BY <2>1, <2>2, <2>3, <2>4, <2>5, <1>0, ValueAssumption DEF Creating
  <2>6. \A s : Pending(s)' = Pending(s)
    BY <2>1 DEF Pending
  <2>7. \A q \in Songs :
          pc'[q] = "counted" => Cardinality(Pending(RequesterOf[q])') <= pendingSeen'[q]
    BY <2>1, <2>2, <2>6, <1>0 DEF Creating
  <2> QED
    BY <2>5, <2>6, <2>7, <1>0 DEF Creating, PendingCapHeld
<1>2. ASSUME NEW r \in Songs, CountPending(r) PROVE (Creating /\ PendingCapHeld)'
  <2>1. /\ UNCHANGED <<status, userLock>> /\ Goto(r, "counted") /\ pc[r] = "locked"
        /\ pendingSeen' = [pendingSeen EXCEPT ![r] = Cardinality(Pending(RequesterOf[r]))]
    BY <1>2 DEF CountPending, requestVars
  <2>2. \A q \in Songs : pc'[q] = IF q = r THEN "counted" ELSE pc[q]
    BY <2>1, <1>0, OnlyOneGoes
  <2>3. \A q \in Songs :
          pendingSeen'[q] = IF q = r THEN Cardinality(Pending(RequesterOf[r])) ELSE pendingSeen[q]
    BY <2>1, <1>0 DEF TypeOK
  <2>4. \A s : /\ Pending(s)' = Pending(s) /\ Cardinality(Pending(s)) \in Nat
    BY <2>1, FewerPending DEF Pending
  <2>5. ASSUME NEW q \in Songs, pc'[q] = "counted"
        PROVE  Cardinality(Pending(RequesterOf[q])') <= pendingSeen'[q]
    BY <2>2, <2>3, <2>4, <2>5, <1>0 DEF Creating
  <2>6. ASSUME NEW q \in Songs, pc'[q] \in {"locked", "counted"}
        PROVE  userLock'[RequesterOf[q]] = q /\ status'[q] = "none"
    BY <2>1, <2>2, <2>6, <1>0 DEF Creating
  <2> QED
    BY <2>4, <2>5, <2>6, <1>0 DEF Creating, PendingCapHeld
<1>3. ASSUME NEW r \in Songs, FinishCreate(r) PROVE (Creating /\ PendingCapHeld)'
  <2>1. /\ pc[r] = "counted" /\ UNCHANGED pendingSeen
        /\ userLock' = [userLock EXCEPT ![RequesterOf[r]] = None]
    BY <1>3 DEF FinishCreate
  <2>2. PICK l \in {"done", "idle"} : Goto(r, l)
    BY <1>3 DEF FinishCreate
  <2>3. \A q \in Songs : pc'[q] = IF q = r THEN l ELSE pc[q]
    BY <2>2, <1>0, OnlyOneGoes
  <2>4. \A q \in Songs : RequesterOf[q] \in Students
    BY CallAssumption
  <2>5. ASSUME NEW q \in Songs, pc'[q] \in {"locked", "counted"}
        PROVE  q # r /\ RequesterOf[q] # RequesterOf[r] /\ pc[q] = pc'[q]
    BY <2>1, <2>2, <2>3, <2>5, <1>0 DEF Creating
  <2>6. ASSUME NEW q \in Songs, pc'[q] \in {"locked", "counted"}
        PROVE  userLock'[RequesterOf[q]] = q
    <3>1. userLock[RequesterOf[q]] = q
      BY <2>5, <2>6, <1>0 DEF Creating
    <3> QED
      BY <2>1, <2>4, <2>5, <2>6, <3>1, <1>0 DEF TypeOK
  <2>7. \/ UNCHANGED status
        \/ pendingSeen[r] < MaxPending /\ status' = [status EXCEPT ![r] = "PENDING"]
    BY <1>3 DEF FinishCreate, requestVars
  <2>8. \A q \in Songs \ {r} : status'[q] = status[q]
    BY <2>7, <1>0 DEF TypeOK
  <2>9. \A s : /\ Pending(s) \subseteq Songs
               /\ Pending(s)' \subseteq Pending(s) \cup {r}
               /\ s # RequesterOf[r] => Pending(s)' \subseteq Pending(s)
               /\ UNCHANGED status => Pending(s)' = Pending(s)
    BY <2>8 DEF Pending
  <2>10. \A s : s # RequesterOf[r] =>
             Cardinality(Pending(s)') <= Cardinality(Pending(s)) /\ Cardinality(Pending(s)) \in Nat
                /\ Cardinality(Pending(s)') \in Nat
    BY <2>9, FewerPending
  <2>11. ASSUME NEW q \in Songs, pc'[q] = "counted"
         PROVE  Cardinality(Pending(RequesterOf[q])') <= pendingSeen'[q]
    <3>1. Cardinality(Pending(RequesterOf[q])) <= pendingSeen[q] /\ pendingSeen[q] \in Nat
      BY <2>5, <2>11, <1>0 DEF Creating, TypeOK
    <3> QED
      BY <2>1, <2>5, <2>10, <2>11, <3>1
  <2>12. ASSUME NEW s \in Students PROVE Cardinality(Pending(s)') <= MaxPending
    <3>1. Cardinality(Pending(s)) <= MaxPending
      BY <1>0 DEF PendingCapHeld
    <3>2. CASE UNCHANGED status
      BY <2>9, <3>1, <3>2
    <3>3. CASE s # RequesterOf[r]
      BY <2>10, <3>1, <3>3, ValueAssumption
    <3>4. CASE s = RequesterOf[r] /\ pendingSeen[r] < MaxPending
      <4>1. Cardinality(Pending(s)) <= pendingSeen[r] /\ pendingSeen[r] \in Nat
        BY <2>1, <3>4, <1>0 DEF Creating, TypeOK
      <4>2. /\ Cardinality(Pending(s)') \in Nat /\ Cardinality(Pending(s)) \in Nat
            /\ Cardinality(Pending(s)') <= Cardinality(Pending(s)) + 1
        BY <2>9, OneMorePending
      <4> QED
        BY <3>4, <4>1, <4>2, ValueAssumption
    <3> QED
      BY <2>7, <3>2, <3>3, <3>4
  <2>13. ASSUME NEW q \in Songs, pc'[q] \in {"locked", "counted"} PROVE status'[q] = "none"
    BY <2>5, <2>8, <2>13, <1>0 DEF Creating
  <2> QED
    BY <2>6, <2>11, <2>12, <2>13 DEF Creating, PendingCapHeld
<1>4. ASSUME NEW r \in Songs, UpdateRequest(r) PROVE (Creating /\ PendingCapHeld)'
  <2>1. UNCHANGED <<status, userLock, pendingSeen>>
    BY <1>4 DEF UpdateRequest, requestVars, createVars
  <2>3. \A q \in Songs : pc'[q] = pc[q]
    BY <1>4 DEF UpdateRequest
  <2> QED
    BY <2>1, <2>3, <1>0, KeepsCreating
<1>5. ASSUME NEW r \in Songs, Moves(r) PROVE (Creating /\ PendingCapHeld)'
  BY <1>5, <1>0, MovesForward, KeepsCreating
<1>6. ASSUME NEW e \in Editors, EditRequest(e) PROVE (Creating /\ PendingCapHeld)'
  <2>1. UNCHANGED <<status, userLock, pendingSeen>>
    BY <1>6 DEF EditRequest, requestVars, createVars
  <2>2. \E l : Goto(e, l)
    BY <1>6 DEF EditRequest
  <2>3. \A q \in Songs : pc'[q] = pc[q]
    BY <2>2, <1>0, OnlyOneGoes, Different DEF Calls
  <2> QED
    BY <2>1, <2>3, <1>0, KeepsCreating
<1>7. ASSUME NEW e \in Editors, ListRecordings(e) PROVE (Creating /\ PendingCapHeld)'
  <2>1. UNCHANGED <<status, userLock, pendingSeen>>
    BY <1>7 DEF ListRecordings, requestVars, createVars
  <2>2. \E l : Goto(e, l)
    BY <1>7 DEF ListRecordings
  <2>3. \A q \in Songs : pc'[q] = pc[q]
    BY <2>2, <1>0, OnlyOneGoes, Different DEF Calls
  <2> QED
    BY <2>1, <2>3, <1>0, KeepsCreating
<1>8. ASSUME NEW e \in Editors, DiscardRecording(e) PROVE (Creating /\ PendingCapHeld)'
  <2>1. UNCHANGED <<status, userLock, pendingSeen>>
    BY <1>8 DEF DiscardRecording, requestVars, createVars
  <2>3. \A q \in Songs : pc'[q] = pc[q]
    BY <1>8 DEF DiscardRecording
  <2> QED
    BY <2>1, <2>3, <1>0, KeepsCreating
<1>9. ASSUME NEW e \in Editors, EndInvalidation(e) PROVE (Creating /\ PendingCapHeld)'
  <2>1. UNCHANGED <<status, userLock, pendingSeen>>
    BY <1>9 DEF EndInvalidation, requestVars, createVars
  <2>2. \E l : Goto(e, l)
    BY <1>9 DEF EndInvalidation
  <2>3. \A q \in Songs : pc'[q] = pc[q]
    BY <2>2, <1>0, OnlyOneGoes, Different DEF Calls
  <2> QED
    BY <2>1, <2>3, <1>0, KeepsCreating
<1>10. ASSUME NEW e \in Editors, InvalidationFails(e) PROVE (Creating /\ PendingCapHeld)'
  <2>1. UNCHANGED <<status, userLock, pendingSeen>>
    BY <1>10 DEF InvalidationFails, requestVars, createVars
  <2>2. \E l : Goto(e, l)
    BY <1>10 DEF InvalidationFails
  <2>3. \A q \in Songs : pc'[q] = pc[q]
    BY <2>2, <1>0, OnlyOneGoes, Different DEF Calls
  <2> QED
    BY <2>1, <2>3, <1>0, KeepsCreating
<1>11. ASSUME NEW g \in Conversions, ReadRequest(g) PROVE (Creating /\ PendingCapHeld)'
  <2>1. UNCHANGED <<status, userLock, pendingSeen>>
    BY <1>11 DEF ReadRequest, requestVars, createVars
  <2>2. \E l : Goto(g, l)
    BY <1>11 DEF ReadRequest
  <2>3. \A q \in Songs : pc'[q] = pc[q]
    BY <2>2, <1>0, OnlyOneGoes, Different DEF Calls
  <2> QED
    BY <2>1, <2>3, <1>0, KeepsCreating
<1>12. ASSUME NEW g \in Conversions, ListExisting(g) PROVE (Creating /\ PendingCapHeld)'
  <2>1. UNCHANGED <<status, userLock, pendingSeen>>
    BY <1>12 DEF ListExisting, requestVars, createVars
  <2>2. PICK l \in {"checked", "done"} : Goto(g, l)
    BY <1>12 DEF ListExisting
  <2>3. \A q \in Songs : pc'[q] = pc[q]
    BY <2>2, <1>0, OnlyOneGoes, Different DEF Calls
  <2> QED
    BY <2>1, <2>3, <1>0, KeepsCreating
<1>13. ASSUME NEW g \in Conversions, JoinOrStart(g) PROVE (Creating /\ PendingCapHeld)'
  <2>1. UNCHANGED <<status, userLock, pendingSeen>>
    BY <1>13 DEF JoinOrStart, requestVars, createVars
  <2>2. PICK l \in {"joined", "rendering"} : Goto(g, l)
    BY <1>13 DEF JoinOrStart
  <2>3. \A q \in Songs : pc'[q] = pc[q]
    BY <2>2, <1>0, OnlyOneGoes, Different DEF Calls
  <2> QED
    BY <2>1, <2>3, <1>0, KeepsCreating
<1>14. ASSUME NEW g \in Conversions, RenderFails(g) PROVE (Creating /\ PendingCapHeld)'
  <2>1. UNCHANGED <<status, userLock, pendingSeen>>
    BY <1>14 DEF RenderFails, requestVars, createVars
  <2>2. \E l : Goto(g, l)
    BY <1>14 DEF RenderFails
  <2>3. \A q \in Songs : pc'[q] = pc[q]
    BY <2>2, <1>0, OnlyOneGoes, Different DEF Calls
  <2> QED
    BY <2>1, <2>3, <1>0, KeepsCreating
<1>15. ASSUME NEW g \in Conversions, StoreRecording(g) PROVE (Creating /\ PendingCapHeld)'
  <2>1. UNCHANGED <<status, userLock, pendingSeen>>
    BY <1>15 DEF StoreRecording, requestVars, createVars
  <2>2. PICK l \in {"stored", "settling"} : Goto(g, l)
    BY <1>15 DEF StoreRecording
  <2>3. \A q \in Songs : pc'[q] = pc[q]
    BY <2>2, <1>0, OnlyOneGoes, Different DEF Calls
  <2> QED
    BY <2>1, <2>3, <1>0, KeepsCreating
<1>16. ASSUME NEW g \in Conversions, ReadStored(g) PROVE (Creating /\ PendingCapHeld)'
  <2>1. UNCHANGED <<status, userLock, pendingSeen>>
    BY <1>16 DEF ReadStored, requestVars, createVars
  <2>2. \E l : Goto(g, l)
    BY <1>16 DEF ReadStored
  <2>3. \A q \in Songs : pc'[q] = pc[q]
    BY <2>2, <1>0, OnlyOneGoes, Different DEF Calls
  <2> QED
    BY <2>1, <2>3, <1>0, KeepsCreating
<1>17. ASSUME NEW g \in Conversions, Settle(g) PROVE (Creating /\ PendingCapHeld)'
  <2>1. UNCHANGED <<status, userLock, pendingSeen>>
    BY <1>17 DEF Settle, requestVars, createVars
  <2>2. \E l : Goto(g, l)
    BY <1>17 DEF Settle
  <2>3. \A q \in Songs : pc'[q] = pc[q]
    BY <2>2, <1>0, OnlyOneGoes, Different DEF Calls
  <2> QED
    BY <2>1, <2>3, <1>0, KeepsCreating
<1>18. ASSUME NEW g \in Conversions, JoinedSettles(g) PROVE (Creating /\ PendingCapHeld)'
  <2>1. UNCHANGED <<status, userLock, pendingSeen>>
    BY <1>18 DEF JoinedSettles, requestVars, createVars
  <2>2. \E l : Goto(g, l)
    BY <1>18 DEF JoinedSettles
  <2>3. \A q \in Songs : pc'[q] = pc[q]
    BY <2>2, <1>0, OnlyOneGoes, Different DEF Calls
  <2> QED
    BY <2>1, <2>3, <1>0, KeepsCreating
<1>19. ASSUME NEW g \in Conversions, EraseRecording(g) PROVE (Creating /\ PendingCapHeld)'
  <2>1. UNCHANGED <<status, userLock, pendingSeen>>
    BY <1>19 DEF EraseRecording, requestVars, createVars
  <2>3. \A q \in Songs : pc'[q] = pc[q]
    BY <1>19 DEF EraseRecording
  <2> QED
    BY <2>1, <2>3, <1>0, KeepsCreating
<1>20. ASSUME NEW p \in Processes, Crash(p) PROVE (Creating /\ PendingCapHeld)'
  <2>1. UNCHANGED <<status, userLock, pendingSeen>>
    BY <1>20 DEF Crash, requestVars, createVars
  <2>3. \A q \in Songs : pc'[q] = pc[q]
    BY <1>20, <1>0, Different DEF Crash, TypeOK
  <2> QED
    BY <2>1, <2>3, <1>0, KeepsCreating
<1> QED
  BY <1>1, <1>2, <1>3, <1>4, <1>5, <1>6, <1>7, <1>8, <1>9, <1>10, <1>11, <1>12,
     <1>13, <1>14, <1>15, <1>16, <1>17, <1>18, <1>19, <1>20, RequestSteps
  DEF Next, EditStep, ConversionStep

\* No step takes an approval back.
LEMMA ApprovedKept ==
    ASSUME IInv, Next PROVE Approved'
<1> USE CallAssumption
<1>0. TypeOK /\ Creating /\ Approved
  BY DEF IInv
<1>1. ASSUME NEW r \in Songs, BeginCreate(r) PROVE Approved'
  <2>1. UNCHANGED status
    BY <1>1 DEF BeginCreate, requestVars
  <2>2. UNCHANGED store
    BY <1>1 DEF BeginCreate, fileVars
  <2>3. Goto(r, "locked")
    BY <1>1 DEF BeginCreate
  <2>4. \A c \in Songs \cup Calls : pc'[c] = IF c = r THEN "locked" ELSE pc[c]
    BY <2>3, <1>0, OnlyOneGoes DEF Calls
  <2>5. \A h \in Conversions : pc'[h] \in Converting => pc[h] \in Converting
    BY <2>3, <2>4, Different DEF Converting, Calls
  <2> QED
    BY <2>1, <2>2, <2>5, <1>0, KeepsApproved DEF Convertible
<1>2. ASSUME NEW r \in Songs, CountPending(r) PROVE Approved'
  <2>1. UNCHANGED status
    BY <1>2 DEF CountPending, requestVars
  <2>2. UNCHANGED store
    BY <1>2 DEF CountPending, fileVars
  <2>3. Goto(r, "counted")
    BY <1>2 DEF CountPending
  <2>4. \A c \in Songs \cup Calls : pc'[c] = IF c = r THEN "counted" ELSE pc[c]
    BY <2>3, <1>0, OnlyOneGoes DEF Calls
  <2>5. \A h \in Conversions : pc'[h] \in Converting => pc[h] \in Converting
    BY <2>3, <2>4, Different DEF Converting, Calls
  <2> QED
    BY <2>1, <2>2, <2>5, <1>0, KeepsApproved DEF Convertible
<1>3. ASSUME NEW r \in Songs, FinishCreate(r) PROVE Approved'
  <2>1. UNCHANGED store /\ pc[r] = "counted" /\ status[r] = "none"
    BY <1>3, <1>0 DEF FinishCreate, fileVars, Creating
  <2>2. PICK l \in {"done", "idle"} : Goto(r, l)
    BY <1>3 DEF FinishCreate
  <2>3. \A c \in Songs \cup Calls : pc'[c] = IF c = r THEN l ELSE pc[c]
    BY <2>2, <1>0, OnlyOneGoes DEF Calls
  <2>4. UNCHANGED status \/ status' = [status EXCEPT ![r] = "PENDING"]
    BY <1>3 DEF FinishCreate, requestVars
  <2>5. \A q \in Songs : Convertible(q) => Convertible(q)'
    BY <2>1, <2>4, <1>0 DEF Convertible, TypeOK
  <2>6. \A h \in Conversions : pc'[h] = pc[h]
    BY <2>3, Different DEF Calls
  <2> QED
    BY <2>1, <2>5, <2>6, <1>0, KeepsApproved
<1>4. ASSUME NEW r \in Songs, UpdateRequest(r) PROVE Approved'
  <2>1. UNCHANGED status
    BY <1>4 DEF UpdateRequest, requestVars
  <2>2. UNCHANGED store
    BY <1>4 DEF UpdateRequest, fileVars
  <2>3. UNCHANGED pc
    BY <1>4 DEF UpdateRequest
  <2> QED
    BY <2>1, <2>2, <2>3, <1>0, KeepsApproved DEF Convertible
<1>5. ASSUME NEW r \in Songs, Moves(r) PROVE Approved'
  BY <1>5, <1>0, MovesForward, KeepsApproved
<1>6. ASSUME NEW e \in Editors, EditRequest(e) PROVE Approved'
  <2>1. UNCHANGED status
    BY <1>6 DEF EditRequest, requestVars
  <2>2. UNCHANGED store
    BY <1>6 DEF EditRequest, fileVars
  <2>3. Goto(e, "committed")
    BY <1>6 DEF EditRequest
  <2>4. \A c \in Songs \cup Calls : pc'[c] = IF c = e THEN "committed" ELSE pc[c]
    BY <2>3, <1>0, OnlyOneGoes DEF Calls
  <2>5. \A h \in Conversions : pc'[h] \in Converting => pc[h] \in Converting
    BY <2>3, <2>4, Different DEF Converting, Calls
  <2> QED
    BY <2>1, <2>2, <2>5, <1>0, KeepsApproved DEF Convertible
<1>7. ASSUME NEW e \in Editors, ListRecordings(e) PROVE Approved'
  <2>1. UNCHANGED status
    BY <1>7 DEF ListRecordings, requestVars
  <2>2. UNCHANGED store
    BY <1>7 DEF ListRecordings, fileVars
  <2>3. Goto(e, "listed")
    BY <1>7 DEF ListRecordings
  <2>4. \A c \in Songs \cup Calls : pc'[c] = IF c = e THEN "listed" ELSE pc[c]
    BY <2>3, <1>0, OnlyOneGoes DEF Calls
  <2>5. \A h \in Conversions : pc'[h] \in Converting => pc[h] \in Converting
    BY <2>3, <2>4, Different DEF Converting, Calls
  <2> QED
    BY <2>1, <2>2, <2>5, <1>0, KeepsApproved DEF Convertible
<1>8. ASSUME NEW e \in Editors, DiscardRecording(e) PROVE Approved'
  <2>1. UNCHANGED status
    BY <1>8 DEF DiscardRecording, requestVars
  <2>2. \A h \in Conversions : store'[h] \in {"live", "doomed"} => store[h] \in {"live", "doomed"}
    BY <1>8, <1>0 DEF DiscardRecording, Files!Condemn, fileVars, TypeOK
  <2>3. UNCHANGED pc
    BY <1>8 DEF DiscardRecording
  <2> QED
    BY <2>1, <2>2, <2>3, <1>0, KeepsApproved DEF Convertible
<1>9. ASSUME NEW e \in Editors, EndInvalidation(e) PROVE Approved'
  <2>1. UNCHANGED status
    BY <1>9 DEF EndInvalidation, requestVars
  <2>2. UNCHANGED store
    BY <1>9 DEF EndInvalidation, fileVars
  <2>3. Goto(e, "done")
    BY <1>9 DEF EndInvalidation
  <2>4. \A c \in Songs \cup Calls : pc'[c] = IF c = e THEN "done" ELSE pc[c]
    BY <2>3, <1>0, OnlyOneGoes DEF Calls
  <2>5. \A h \in Conversions : pc'[h] \in Converting => pc[h] \in Converting
    BY <2>3, <2>4, Different DEF Converting, Calls
  <2> QED
    BY <2>1, <2>2, <2>5, <1>0, KeepsApproved DEF Convertible
<1>10. ASSUME NEW e \in Editors, InvalidationFails(e) PROVE Approved'
  <2>1. UNCHANGED status
    BY <1>10 DEF InvalidationFails, requestVars
  <2>2. UNCHANGED store
    BY <1>10 DEF InvalidationFails, fileVars
  <2>3. Goto(e, "done")
    BY <1>10 DEF InvalidationFails
  <2>4. \A c \in Songs \cup Calls : pc'[c] = IF c = e THEN "done" ELSE pc[c]
    BY <2>3, <1>0, OnlyOneGoes DEF Calls
  <2>5. \A h \in Conversions : pc'[h] \in Converting => pc[h] \in Converting
    BY <2>3, <2>4, Different DEF Converting, Calls
  <2> QED
    BY <2>1, <2>2, <2>5, <1>0, KeepsApproved DEF Convertible
<1>11. ASSUME NEW g \in Conversions, ReadRequest(g) PROVE Approved'
  <2>1. UNCHANGED <<status, store>> /\ Convertible(SongOf[g])
    BY <1>11 DEF ReadRequest, requestVars, fileVars
  <2>2. Goto(g, "read")
    BY <1>11 DEF ReadRequest
  <2>3. \A c \in Songs \cup Calls : pc'[c] = IF c = g THEN "read" ELSE pc[c]
    BY <2>2, <1>0, OnlyOneGoes DEF Calls
  <2>4. \A h \in Conversions : pc'[h] \in Converting => Convertible(SongOf[h])
    BY <2>1, <2>3, <1>0 DEF Approved, Calls
  <2> QED
    BY <2>1, <2>4, <1>0 DEF Approved, RecordingsAreOfApprovedSongs, Convertible
<1>12. ASSUME NEW g \in Conversions, ListExisting(g) PROVE Approved'
  <2>1. UNCHANGED status
    BY <1>12 DEF ListExisting, requestVars
  <2>2. UNCHANGED store
    BY <1>12 DEF ListExisting, fileVars
  <2>3. PICK l \in {"checked", "done"} : Goto(g, l) /\ pc[g] \in {"read"}
    BY <1>12 DEF ListExisting
  <2>4. \A c \in Songs \cup Calls : pc'[c] = IF c = g THEN l ELSE pc[c]
    BY <2>3, <1>0, OnlyOneGoes DEF Calls
  <2>5. \A h \in Conversions : pc'[h] \in Converting => pc[h] \in Converting
    BY <2>3, <2>4, Different DEF Converting, Calls
  <2> QED
    BY <2>1, <2>2, <2>5, <1>0, KeepsApproved DEF Convertible
<1>13. ASSUME NEW g \in Conversions, JoinOrStart(g) PROVE Approved'
  <2>1. UNCHANGED status
    BY <1>13 DEF JoinOrStart, requestVars
  <2>2. UNCHANGED store
    BY <1>13 DEF JoinOrStart, fileVars
  <2>3. PICK l \in {"joined", "rendering"} : Goto(g, l) /\ pc[g] \in {"checked"}
    BY <1>13 DEF JoinOrStart
  <2>4. \A c \in Songs \cup Calls : pc'[c] = IF c = g THEN l ELSE pc[c]
    BY <2>3, <1>0, OnlyOneGoes DEF Calls
  <2>5. \A h \in Conversions : pc'[h] \in Converting => pc[h] \in Converting
    BY <2>3, <2>4, Different DEF Converting, Calls
  <2> QED
    BY <2>1, <2>2, <2>5, <1>0, KeepsApproved DEF Convertible
<1>14. ASSUME NEW g \in Conversions, RenderFails(g) PROVE Approved'
  <2>1. UNCHANGED status
    BY <1>14 DEF RenderFails, requestVars
  <2>2. UNCHANGED store
    BY <1>14 DEF RenderFails, fileVars
  <2>3. Goto(g, "settling") /\ pc[g] \in {"rendering"}
    BY <1>14 DEF RenderFails
  <2>4. \A c \in Songs \cup Calls : pc'[c] = IF c = g THEN "settling" ELSE pc[c]
    BY <2>3, <1>0, OnlyOneGoes DEF Calls
  <2>5. \A h \in Conversions : pc'[h] \in Converting => pc[h] \in Converting
    BY <2>3, <2>4, Different DEF Converting, Calls
  <2> QED
    BY <2>1, <2>2, <2>5, <1>0, KeepsApproved DEF Convertible
<1>15. ASSUME NEW g \in Conversions, StoreRecording(g) PROVE Approved'
  <2>1. UNCHANGED status /\ Convertible(SongOf[g]) /\ store' = [store EXCEPT ![g] = "live"]
    BY <1>15 DEF StoreRecording, requestVars, Files!Attach
  <2>2. PICK l \in {"stored", "settling"} : Goto(g, l) /\ pc[g] \in {"rendering"}
    BY <1>15 DEF StoreRecording
  <2>3. \A c \in Songs \cup Calls : pc'[c] = IF c = g THEN l ELSE pc[c]
    BY <2>2, <1>0, OnlyOneGoes DEF Calls
  <2>4. \A h \in Conversions : pc'[h] \in Converting => pc[h] \in Converting
    BY <2>2, <2>3 DEF Converting, Calls
  <2>5. \A h \in Conversions : h # g => store'[h] = store[h]
    BY <2>1, <1>0 DEF TypeOK
  <2> QED
    BY <2>1, <2>4, <2>5, <1>0 DEF Approved, RecordingsAreOfApprovedSongs, Convertible
<1>16. ASSUME NEW g \in Conversions, ReadStored(g) PROVE Approved'
  <2>1. UNCHANGED status
    BY <1>16 DEF ReadStored, requestVars
  <2>2. UNCHANGED store
    BY <1>16 DEF ReadStored, fileVars
  <2>3. Goto(g, "settling") /\ pc[g] \in {"stored"}
    BY <1>16 DEF ReadStored
  <2>4. \A c \in Songs \cup Calls : pc'[c] = IF c = g THEN "settling" ELSE pc[c]
    BY <2>3, <1>0, OnlyOneGoes DEF Calls
  <2>5. \A h \in Conversions : pc'[h] \in Converting => pc[h] \in Converting
    BY <2>3, <2>4, Different DEF Converting, Calls
  <2> QED
    BY <2>1, <2>2, <2>5, <1>0, KeepsApproved DEF Convertible
<1>17. ASSUME NEW g \in Conversions, Settle(g) PROVE Approved'
  <2>1. UNCHANGED status
    BY <1>17 DEF Settle, requestVars
  <2>2. UNCHANGED store
    BY <1>17 DEF Settle, fileVars
  <2>3. Goto(g, "done") /\ pc[g] \in {"settling"}
    BY <1>17 DEF Settle
  <2>4. \A c \in Songs \cup Calls : pc'[c] = IF c = g THEN "done" ELSE pc[c]
    BY <2>3, <1>0, OnlyOneGoes DEF Calls
  <2>5. \A h \in Conversions : pc'[h] \in Converting => pc[h] \in Converting
    BY <2>3, <2>4, Different DEF Converting, Calls
  <2> QED
    BY <2>1, <2>2, <2>5, <1>0, KeepsApproved DEF Convertible
<1>18. ASSUME NEW g \in Conversions, JoinedSettles(g) PROVE Approved'
  <2>1. UNCHANGED status
    BY <1>18 DEF JoinedSettles, requestVars
  <2>2. UNCHANGED store
    BY <1>18 DEF JoinedSettles, fileVars
  <2>3. Goto(g, "done") /\ pc[g] \in {"joined"}
    BY <1>18 DEF JoinedSettles
  <2>4. \A c \in Songs \cup Calls : pc'[c] = IF c = g THEN "done" ELSE pc[c]
    BY <2>3, <1>0, OnlyOneGoes DEF Calls
  <2>5. \A h \in Conversions : pc'[h] \in Converting => pc[h] \in Converting
    BY <2>3, <2>4, Different DEF Converting, Calls
  <2> QED
    BY <2>1, <2>2, <2>5, <1>0, KeepsApproved DEF Convertible
<1>19. ASSUME NEW g \in Conversions, EraseRecording(g) PROVE Approved'
  <2>1. UNCHANGED status
    BY <1>19 DEF EraseRecording, requestVars
  <2>2. \A h \in Conversions : store'[h] \in {"live", "doomed"} => store[h] \in {"live", "doomed"}
    BY <1>19, <1>0 DEF EraseRecording, Files!Vanish, TypeOK
  <2>3. UNCHANGED pc
    BY <1>19 DEF EraseRecording
  <2> QED
    BY <2>1, <2>2, <2>3, <1>0, KeepsApproved DEF Convertible
<1>20. ASSUME NEW p \in Processes, Crash(p) PROVE Approved'
  <2>1. UNCHANGED <<status, store>>
    BY <1>20 DEF Crash, requestVars, fileVars
  <2>2. \A h \in Conversions : pc'[h] = pc[h] \/ pc'[h] = "done"
    BY <1>20 DEF Crash, Calls
  <2> QED
    BY <2>1, <2>2, <1>0, KeepsApproved DEF Convertible, Converting
<1> QED
  BY <1>1, <1>2, <1>3, <1>4, <1>5, <1>6, <1>7, <1>8, <1>9, <1>10, <1>11, <1>12,
     <1>13, <1>14, <1>15, <1>16, <1>17, <1>18, <1>19, <1>20, RequestSteps
  DEF Next, EditStep, ConversionStep

\* Every step keeps the table of running conversions right.
LEMMA TasksKept ==
    ASSUME IInv, Next PROVE Tasks'
<1> USE CallAssumption, ValueAssumption
<1>0. TypeOK /\ Tasks
  BY DEF IInv
<1>1. ASSUME NEW r \in Songs, BeginCreate(r) PROVE Tasks'
  <2>1. UNCHANGED <<inFlight, joined>>
    BY <1>1 DEF BeginCreate, conversionVars
  <2>2. Goto(r, "locked")
    BY <1>1 DEF BeginCreate
  <2>3. \A c \in Songs \cup Calls : pc'[c] = IF c = r THEN "locked" ELSE pc[c]
    BY <2>2, <1>0, OnlyOneGoes DEF Calls
  <2>4. \A h \in Conversions : pc'[h] \in Busy <=> pc[h] \in Busy
    BY <2>3, Different DEF Calls
  <2>5. \A h \in Conversions : pc'[h] = "joined" => pc[h] = "joined"
    BY <2>3, Different DEF Calls
  <2> QED
    BY <2>1, <2>4, <2>5, <1>0, KeepsTasks
<1>2. ASSUME NEW r \in Songs, CountPending(r) PROVE Tasks'
  <2>1. UNCHANGED <<inFlight, joined>>
    BY <1>2 DEF CountPending, conversionVars
  <2>2. Goto(r, "counted")
    BY <1>2 DEF CountPending
  <2>3. \A c \in Songs \cup Calls : pc'[c] = IF c = r THEN "counted" ELSE pc[c]
    BY <2>2, <1>0, OnlyOneGoes DEF Calls
  <2>4. \A h \in Conversions : pc'[h] \in Busy <=> pc[h] \in Busy
    BY <2>3, Different DEF Calls
  <2>5. \A h \in Conversions : pc'[h] = "joined" => pc[h] = "joined"
    BY <2>3, Different DEF Calls
  <2> QED
    BY <2>1, <2>4, <2>5, <1>0, KeepsTasks
<1>3. ASSUME NEW r \in Songs, FinishCreate(r) PROVE Tasks'
  <2>1. UNCHANGED <<inFlight, joined>>
    BY <1>3 DEF FinishCreate, conversionVars
  <2>2. PICK l \in {"done", "idle"} : Goto(r, l)
    BY <1>3 DEF FinishCreate
  <2>3. \A c \in Songs \cup Calls : pc'[c] = IF c = r THEN l ELSE pc[c]
    BY <2>2, <1>0, OnlyOneGoes DEF Calls
  <2>4. \A h \in Conversions : pc'[h] \in Busy <=> pc[h] \in Busy
    BY <2>3, Different DEF Calls
  <2>5. \A h \in Conversions : pc'[h] = "joined" => pc[h] = "joined"
    BY <2>3, Different DEF Calls
  <2> QED
    BY <2>1, <2>4, <2>5, <1>0, KeepsTasks
<1>4. ASSUME NEW r \in Songs, UpdateRequest(r) PROVE Tasks'
  <2>1. UNCHANGED <<inFlight, joined>>
    BY <1>4 DEF UpdateRequest, conversionVars
  <2>2. UNCHANGED pc
    BY <1>4 DEF UpdateRequest
  <2> QED
    BY <2>1, <2>2, <1>0, KeepsTasks
<1>5. ASSUME NEW r \in Songs, Moves(r) PROVE Tasks'
  BY <1>5, <1>0, MovesForward, KeepsTasks
<1>6. ASSUME NEW e \in Editors, EditRequest(e) PROVE Tasks'
  <2>1. UNCHANGED <<inFlight, joined>>
    BY <1>6 DEF EditRequest, conversionVars
  <2>2. Goto(e, "committed")
    BY <1>6 DEF EditRequest
  <2>3. \A c \in Songs \cup Calls : pc'[c] = IF c = e THEN "committed" ELSE pc[c]
    BY <2>2, <1>0, OnlyOneGoes DEF Calls
  <2>4. \A h \in Conversions : pc'[h] \in Busy <=> pc[h] \in Busy
    BY <2>3, Different DEF Calls
  <2>5. \A h \in Conversions : pc'[h] = "joined" => pc[h] = "joined"
    BY <2>3, Different DEF Calls
  <2> QED
    BY <2>1, <2>4, <2>5, <1>0, KeepsTasks
<1>7. ASSUME NEW e \in Editors, ListRecordings(e) PROVE Tasks'
  <2>1. UNCHANGED <<inFlight, joined>>
    BY <1>7 DEF ListRecordings, conversionVars
  <2>2. Goto(e, "listed")
    BY <1>7 DEF ListRecordings
  <2>3. \A c \in Songs \cup Calls : pc'[c] = IF c = e THEN "listed" ELSE pc[c]
    BY <2>2, <1>0, OnlyOneGoes DEF Calls
  <2>4. \A h \in Conversions : pc'[h] \in Busy <=> pc[h] \in Busy
    BY <2>3, Different DEF Calls
  <2>5. \A h \in Conversions : pc'[h] = "joined" => pc[h] = "joined"
    BY <2>3, Different DEF Calls
  <2> QED
    BY <2>1, <2>4, <2>5, <1>0, KeepsTasks
<1>8. ASSUME NEW e \in Editors, DiscardRecording(e) PROVE Tasks'
  <2>1. UNCHANGED <<inFlight, joined>>
    BY <1>8 DEF DiscardRecording, conversionVars
  <2>2. UNCHANGED pc
    BY <1>8 DEF DiscardRecording
  <2> QED
    BY <2>1, <2>2, <1>0, KeepsTasks
<1>9. ASSUME NEW e \in Editors, EndInvalidation(e) PROVE Tasks'
  <2>1. UNCHANGED <<inFlight, joined>>
    BY <1>9 DEF EndInvalidation, conversionVars
  <2>2. Goto(e, "done")
    BY <1>9 DEF EndInvalidation
  <2>3. \A c \in Songs \cup Calls : pc'[c] = IF c = e THEN "done" ELSE pc[c]
    BY <2>2, <1>0, OnlyOneGoes DEF Calls
  <2>4. \A h \in Conversions : pc'[h] \in Busy <=> pc[h] \in Busy
    BY <2>3, Different DEF Calls
  <2>5. \A h \in Conversions : pc'[h] = "joined" => pc[h] = "joined"
    BY <2>3, Different DEF Calls
  <2> QED
    BY <2>1, <2>4, <2>5, <1>0, KeepsTasks
<1>10. ASSUME NEW e \in Editors, InvalidationFails(e) PROVE Tasks'
  <2>1. UNCHANGED <<inFlight, joined>>
    BY <1>10 DEF InvalidationFails, conversionVars
  <2>2. Goto(e, "done")
    BY <1>10 DEF InvalidationFails
  <2>3. \A c \in Songs \cup Calls : pc'[c] = IF c = e THEN "done" ELSE pc[c]
    BY <2>2, <1>0, OnlyOneGoes DEF Calls
  <2>4. \A h \in Conversions : pc'[h] \in Busy <=> pc[h] \in Busy
    BY <2>3, Different DEF Calls
  <2>5. \A h \in Conversions : pc'[h] = "joined" => pc[h] = "joined"
    BY <2>3, Different DEF Calls
  <2> QED
    BY <2>1, <2>4, <2>5, <1>0, KeepsTasks
<1>11. ASSUME NEW g \in Conversions, ReadRequest(g) PROVE Tasks'
  <2>1. UNCHANGED <<inFlight, joined>>
    BY <1>11 DEF ReadRequest, conversionVars
  <2>2. Goto(g, "read") /\ pc[g] = "idle"
    BY <1>11 DEF ReadRequest
  <2>3. \A c \in Songs \cup Calls : pc'[c] = IF c = g THEN "read" ELSE pc[c]
    BY <2>2, <1>0, OnlyOneGoes DEF Calls
  <2>4. \A h \in Conversions : pc'[h] \in Busy <=> pc[h] \in Busy
    BY <2>2, <2>3 DEF Busy, Calls
  <2>5. \A h \in Conversions : pc'[h] = "joined" => pc[h] = "joined"
    BY <2>2, <2>3 DEF Busy, Calls
  <2> QED
    BY <2>1, <2>4, <2>5, <1>0, KeepsTasks
<1>12. ASSUME NEW g \in Conversions, ListExisting(g) PROVE Tasks'
  <2>1. UNCHANGED <<inFlight, joined>>
    BY <1>12 DEF ListExisting, conversionVars
  <2>2. PICK l \in {"checked", "done"} : Goto(g, l) /\ pc[g] \in {"read"}
    BY <1>12 DEF ListExisting
  <2>3. \A c \in Songs \cup Calls : pc'[c] = IF c = g THEN l ELSE pc[c]
    BY <2>2, <1>0, OnlyOneGoes DEF Calls
  <2>4. \A h \in Conversions : pc'[h] \in Busy <=> pc[h] \in Busy
    BY <2>2, <2>3 DEF Busy, Calls
  <2>5. \A h \in Conversions : pc'[h] = "joined" => pc[h] = "joined"
    BY <2>2, <2>3 DEF Busy, Calls
  <2> QED
    BY <2>1, <2>4, <2>5, <1>0, KeepsTasks
<1>13. ASSUME NEW g \in Conversions, JoinOrStart(g) PROVE Tasks'
  <2>1. pc[g] = "checked" /\ SongOf[g] \in Songs /\ ProcessOf[g] \in Processes
    BY <1>13, Different DEF JoinOrStart, Calls
  <2>2. CASE Running(g) # None
    <3>1. /\ joined' = [joined EXCEPT ![g] = Running(g)] /\ Goto(g, "joined")
          /\ UNCHANGED inFlight
      BY <1>13, <2>2 DEF JoinOrStart
    <3>2. \A c \in Songs \cup Calls : pc'[c] = IF c = g THEN "joined" ELSE pc[c]
      BY <3>1, <1>0, OnlyOneGoes DEF Calls
    <3>3. \A h \in Conversions : joined'[h] = IF h = g THEN Running(g) ELSE joined[h]
      BY <3>1, <1>0 DEF TypeOK
    <3>4. \A h \in Conversions : Running(h)' = Running(h)
      BY <3>1 DEF Running
    <3>5. \A h \in Conversions : pc'[h] \in Busy <=> pc[h] \in Busy
      BY <2>1, <3>2 DEF Busy, Calls
    <3>6. \A h \in Conversions : pc'[h] = "joined" => joined'[h] # None
      BY <2>2, <3>2, <3>3, <1>0 DEF Tasks, Calls
    <3>7. \A q \in Processes, r \in Songs :
            inFlight'[q][r] # None => ProcessOf[inFlight'[q][r]] = q /\ SongOf[inFlight'[q][r]] = r
      BY <3>1, <1>0 DEF Tasks
    <3> QED
      BY <3>4, <3>5, <3>6, <3>7, <1>0 DEF Tasks
  <2>3. CASE Running(g) = None
    <3>1. SetRunning(g, g) /\ Goto(g, "rendering") /\ UNCHANGED joined
      BY <1>13, <2>3 DEF JoinOrStart
    <3>2. \A c \in Songs \cup Calls : pc'[c] = IF c = g THEN "rendering" ELSE pc[c]
      BY <3>1, <1>0, OnlyOneGoes DEF Calls
    <3>3. \A q \in Processes, r \in Songs :
            inFlight'[q][r] = IF q = ProcessOf[g] /\ r = SongOf[g] THEN g ELSE inFlight[q][r]
      BY <3>1, <1>0, SlotWritten
    <3>4. ASSUME NEW h \in Conversions PROVE pc'[h] \in Busy <=> Running(h)' = h
      <4>1. ProcessOf[h] \in Processes /\ SongOf[h] \in Songs /\ h # None
        BY Different, ValueAssumption DEF Calls
      <4>2. CASE h = g
        BY <2>1, <3>2, <3>3, <4>2 DEF Running, Busy, Calls
      <4>3. CASE h # g
        <5>1. pc'[h] = pc[h]
          BY <3>2, <4>3 DEF Calls
        <5>2. CASE ProcessOf[h] = ProcessOf[g] /\ SongOf[h] = SongOf[g]
          <6>1. Running(h) = None /\ Running(h)' = g
            BY <2>1, <2>3, <3>3, <5>2 DEF Running
          <6> QED
            BY <4>1, <4>3, <5>1, <6>1, <1>0 DEF Tasks
        <5>3. CASE ~(ProcessOf[h] = ProcessOf[g] /\ SongOf[h] = SongOf[g])
          <6>1. Running(h)' = Running(h)
            BY <3>3, <4>1, <5>3 DEF Running
          <6> QED
            BY <5>1, <6>1, <1>0 DEF Tasks
        <5> QED
          BY <5>2, <5>3
      <4> QED
        BY <4>2, <4>3
    <3>5. \A q \in Processes, r \in Songs :
            inFlight'[q][r] # None => ProcessOf[inFlight'[q][r]] = q /\ SongOf[inFlight'[q][r]] = r
      BY <3>3, <1>0 DEF Tasks
    <3>6. \A h \in Conversions : pc'[h] = "joined" => joined'[h] # None
      BY <3>1, <3>2, <1>0 DEF Tasks, Calls
    <3> QED
      BY <3>4, <3>5, <3>6 DEF Tasks
  <2> QED
    BY <2>2, <2>3
<1>14. ASSUME NEW g \in Conversions, RenderFails(g) PROVE Tasks'
  <2>1. UNCHANGED <<inFlight, joined>>
    BY <1>14 DEF RenderFails, conversionVars
  <2>2. Goto(g, "settling") /\ pc[g] \in {"rendering"}
    BY <1>14 DEF RenderFails
  <2>3. \A c \in Songs \cup Calls : pc'[c] = IF c = g THEN "settling" ELSE pc[c]
    BY <2>2, <1>0, OnlyOneGoes DEF Calls
  <2>4. \A h \in Conversions : pc'[h] \in Busy <=> pc[h] \in Busy
    BY <2>2, <2>3 DEF Busy, Calls
  <2>5. \A h \in Conversions : pc'[h] = "joined" => pc[h] = "joined"
    BY <2>2, <2>3 DEF Busy, Calls
  <2> QED
    BY <2>1, <2>4, <2>5, <1>0, KeepsTasks
<1>15. ASSUME NEW g \in Conversions, StoreRecording(g) PROVE Tasks'
  <2>1. UNCHANGED <<inFlight, joined>>
    BY <1>15 DEF StoreRecording, conversionVars
  <2>2. PICK l \in {"stored", "settling"} : Goto(g, l) /\ pc[g] \in {"rendering"}
    BY <1>15 DEF StoreRecording
  <2>3. \A c \in Songs \cup Calls : pc'[c] = IF c = g THEN l ELSE pc[c]
    BY <2>2, <1>0, OnlyOneGoes DEF Calls
  <2>4. \A h \in Conversions : pc'[h] \in Busy <=> pc[h] \in Busy
    BY <2>2, <2>3 DEF Busy, Calls
  <2>5. \A h \in Conversions : pc'[h] = "joined" => pc[h] = "joined"
    BY <2>2, <2>3 DEF Busy, Calls
  <2> QED
    BY <2>1, <2>4, <2>5, <1>0, KeepsTasks
<1>16. ASSUME NEW g \in Conversions, ReadStored(g) PROVE Tasks'
  <2>1. UNCHANGED <<inFlight, joined>>
    BY <1>16 DEF ReadStored, conversionVars
  <2>2. Goto(g, "settling") /\ pc[g] \in {"stored"}
    BY <1>16 DEF ReadStored
  <2>3. \A c \in Songs \cup Calls : pc'[c] = IF c = g THEN "settling" ELSE pc[c]
    BY <2>2, <1>0, OnlyOneGoes DEF Calls
  <2>4. \A h \in Conversions : pc'[h] \in Busy <=> pc[h] \in Busy
    BY <2>2, <2>3 DEF Busy, Calls
  <2>5. \A h \in Conversions : pc'[h] = "joined" => pc[h] = "joined"
    BY <2>2, <2>3 DEF Busy, Calls
  <2> QED
    BY <2>1, <2>4, <2>5, <1>0, KeepsTasks
<1>17. ASSUME NEW g \in Conversions, Settle(g) PROVE Tasks'
  <2>1. pc[g] = "settling" /\ Goto(g, "done") /\ UNCHANGED joined
    BY <1>17 DEF Settle
  <2>2. Running(g) = g /\ SetRunning(g, None)
    <3>1. Running(g) = g
      BY <2>1, <1>0 DEF Tasks, Busy
    <3> QED
      BY <1>17, <3>1 DEF Settle
  <2>3. \A c \in Songs \cup Calls : pc'[c] = IF c = g THEN "done" ELSE pc[c]
    BY <2>1, <1>0, OnlyOneGoes DEF Calls
  <2>4. \A q \in Processes, r \in Songs :
          inFlight'[q][r] = IF q = ProcessOf[g] /\ r = SongOf[g] THEN None ELSE inFlight[q][r]
    BY <2>2, <1>0, SlotWritten
  <2>5. ASSUME NEW h \in Conversions PROVE pc'[h] \in Busy <=> Running(h)' = h
    <3>1. ProcessOf[h] \in Processes /\ SongOf[h] \in Songs /\ h # None
      BY Different, ValueAssumption DEF Calls
    <3>2. CASE h = g
      BY <2>3, <2>4, <3>1, <3>2 DEF Running, Busy, Calls
    <3>3. CASE h # g
      <4>1. pc'[h] = pc[h]
        BY <2>3, <3>3 DEF Calls
      <4>2. CASE ProcessOf[h] = ProcessOf[g] /\ SongOf[h] = SongOf[g]
        <5>1. Running(h) = g /\ Running(h)' = None
          BY <2>2, <2>4, <3>1, <4>2 DEF Running
        <5> QED
          BY <3>1, <3>3, <4>1, <5>1, <1>0 DEF Tasks
      <4>3. CASE ~(ProcessOf[h] = ProcessOf[g] /\ SongOf[h] = SongOf[g])
        <5>1. Running(h)' = Running(h)
          BY <2>4, <3>1, <4>3 DEF Running
        <5> QED
          BY <4>1, <5>1, <1>0 DEF Tasks
      <4> QED
        BY <4>2, <4>3
    <3> QED
      BY <3>2, <3>3
  <2>6. \A q \in Processes, r \in Songs :
          inFlight'[q][r] # None => ProcessOf[inFlight'[q][r]] = q /\ SongOf[inFlight'[q][r]] = r
    BY <2>4, <1>0 DEF Tasks
  <2>7. \A h \in Conversions : pc'[h] = "joined" => joined'[h] # None
    BY <2>1, <2>3, <1>0 DEF Tasks, Calls
  <2> QED
    BY <2>5, <2>6, <2>7 DEF Tasks
<1>18. ASSUME NEW g \in Conversions, JoinedSettles(g) PROVE Tasks'
  <2>1. UNCHANGED <<inFlight, joined>>
    BY <1>18 DEF JoinedSettles, conversionVars
  <2>2. Goto(g, "done") /\ pc[g] \in {"joined"}
    BY <1>18 DEF JoinedSettles
  <2>3. \A c \in Songs \cup Calls : pc'[c] = IF c = g THEN "done" ELSE pc[c]
    BY <2>2, <1>0, OnlyOneGoes DEF Calls
  <2>4. \A h \in Conversions : pc'[h] \in Busy <=> pc[h] \in Busy
    BY <2>2, <2>3 DEF Busy, Calls
  <2>5. \A h \in Conversions : pc'[h] = "joined" => pc[h] = "joined"
    BY <2>2, <2>3 DEF Busy, Calls
  <2> QED
    BY <2>1, <2>4, <2>5, <1>0, KeepsTasks
<1>19. ASSUME NEW g \in Conversions, EraseRecording(g) PROVE Tasks'
  <2>1. UNCHANGED <<inFlight, joined>>
    BY <1>19 DEF EraseRecording, conversionVars
  <2>2. UNCHANGED pc
    BY <1>19 DEF EraseRecording
  <2> QED
    BY <2>1, <2>2, <1>0, KeepsTasks
<1>20. ASSUME NEW p \in Processes, Crash(p) PROVE Tasks'
  <2>1. \A q \in Processes, r \in Songs : inFlight'[q][r] = IF q = p THEN None ELSE inFlight[q][r]
    BY <1>20, <1>0 DEF Crash, TypeOK
  <2>2. /\ UNCHANGED joined
        /\ \A h \in Conversions :
             pc'[h] = IF ProcessOf[h] = p /\ pc[h] # "idle" THEN "done" ELSE pc[h]
    BY <1>20 DEF Crash, Calls
  <2>3. ASSUME NEW h \in Conversions PROVE pc'[h] \in Busy <=> Running(h)' = h
    <3>1. ProcessOf[h] \in Processes /\ SongOf[h] \in Songs /\ h # None
      BY Different, ValueAssumption DEF Calls
    <3>2. CASE ProcessOf[h] = p
      BY <2>1, <2>2, <3>1, <3>2 DEF Running, Busy
    <3>3. CASE ProcessOf[h] # p
      <4>1. Running(h)' = Running(h) /\ pc'[h] = pc[h]
        BY <2>1, <2>2, <3>1, <3>3 DEF Running
      <4> QED
        BY <4>1, <1>0 DEF Tasks
    <3> QED
      BY <3>2, <3>3
  <2>4. \A q \in Processes, r \in Songs :
          inFlight'[q][r] # None => ProcessOf[inFlight'[q][r]] = q /\ SongOf[inFlight'[q][r]] = r
    BY <2>1, <1>0 DEF Tasks
  <2>5. \A h \in Conversions : pc'[h] = "joined" => joined'[h] # None
    BY <2>2, <1>0 DEF Tasks
  <2> QED
    BY <2>3, <2>4, <2>5 DEF Tasks
<1> QED
  BY <1>1, <1>2, <1>3, <1>4, <1>5, <1>6, <1>7, <1>8, <1>9, <1>10, <1>11, <1>12,
     <1>13, <1>14, <1>15, <1>16, <1>17, <1>18, <1>19, <1>20, RequestSteps
  DEF Next, EditStep, ConversionStep

\* No step leaves an outdated recording unnoticed.
LEMMA FreshKept ==
    ASSUME IInv, Next PROVE Fresh'
<1> USE CallAssumption
<1>0. TypeOK /\ Creating /\ Approved /\ Fresh
  BY DEF IInv
<1>1. ASSUME NEW r \in Songs, BeginCreate(r) PROVE Fresh'
  <2>1. UNCHANGED <<segment, store, read, raced, rows, faults>>
    BY <1>1 DEF BeginCreate, requestVars, fileVars, conversionVars, NoFault
  <2>2. Goto(r, "locked")
    BY <1>1 DEF BeginCreate
  <2>3. \A c \in Songs \cup Calls : pc'[c] = IF c = r THEN "locked" ELSE pc[c]
    BY <2>2, <1>0, OnlyOneGoes DEF Calls
  <2>4. \A e \in Editors : pc'[e] = pc[e]
    BY <2>3, Different DEF Calls
  <2>5. \A h \in Conversions : pc'[h] \in Waiting => pc[h] \in Waiting
    BY <2>2, <2>3, Different DEF Waiting, Converting, Calls
  <2>6. \A h \in Conversions : pc'[h] \in Converting => pc[h] \in Converting
    BY <2>2, <2>3, Different DEF Waiting, Converting, Calls
  <2> QED
    BY <2>1, <2>4, <2>5, <2>6, <1>0, QuietKeepsFresh
<1>2. ASSUME NEW r \in Songs, CountPending(r) PROVE Fresh'
  <2>1. UNCHANGED <<segment, store, read, raced, rows, faults>>
    BY <1>2 DEF CountPending, requestVars, fileVars, conversionVars, NoFault
  <2>2. Goto(r, "counted")
    BY <1>2 DEF CountPending
  <2>3. \A c \in Songs \cup Calls : pc'[c] = IF c = r THEN "counted" ELSE pc[c]
    BY <2>2, <1>0, OnlyOneGoes DEF Calls
  <2>4. \A e \in Editors : pc'[e] = pc[e]
    BY <2>3, Different DEF Calls
  <2>5. \A h \in Conversions : pc'[h] \in Waiting => pc[h] \in Waiting
    BY <2>2, <2>3, Different DEF Waiting, Converting, Calls
  <2>6. \A h \in Conversions : pc'[h] \in Converting => pc[h] \in Converting
    BY <2>2, <2>3, Different DEF Waiting, Converting, Calls
  <2> QED
    BY <2>1, <2>4, <2>5, <2>6, <1>0, QuietKeepsFresh
<1>3. ASSUME NEW r \in Songs, FinishCreate(r) PROVE Fresh'
  <2>1. /\ UNCHANGED <<store, read, raced, rows, faults>>
        /\ pc[r] = "counted" /\ status[r] = "none"
    BY <1>3, <1>0 DEF FinishCreate, fileVars, conversionVars, NoFault, Creating
  <2>2. PICK l \in {"done", "idle"} : Goto(r, l)
    BY <1>3 DEF FinishCreate
  <2>3. \A c \in Songs \cup Calls : pc'[c] = IF c = r THEN l ELSE pc[c]
    BY <2>2, <1>0, OnlyOneGoes DEF Calls
  <2>4. \A c \in Calls : pc'[c] = pc[c]
    BY <2>3, Different DEF Calls
  <2>5. \A q \in Songs : q # r => segment'[q] = segment[q]
    BY <1>3, <1>0 DEF FinishCreate, requestVars, TypeOK
  <2>6. \A h \in Conversions : pc'[h] \in Converting \/ store'[h] = "live" =>
           segment'[SongOf[h]] = segment[SongOf[h]]
    BY <2>1, <2>4, <2>5, <1>0, NothingOfPending, Different DEF Calls
  <2>7. \A h \in Conversions : Invalidating(h) => Invalidating(h)'
    BY <2>1, <2>4 DEF Invalidating, Calls
  <2> QED
    BY <2>1, <2>4, <2>6, <2>7, <1>0, KeepsFresh DEF Calls
<1>4. ASSUME NEW r \in Songs, UpdateRequest(r) PROVE Fresh'
  <2>1. UNCHANGED <<store, read, raced, rows, pc, faults>> /\ status[r] = "PENDING"
    BY <1>4 DEF UpdateRequest, fileVars, conversionVars, NoFault
  <2>2. \A q \in Songs : q # r => segment'[q] = segment[q]
    BY <1>4, <1>0 DEF UpdateRequest, TypeOK
  <2>3. \A h \in Conversions : pc'[h] \in Converting \/ store'[h] = "live" =>
           segment'[SongOf[h]] = segment[SongOf[h]]
    BY <2>1, <2>2, <1>0, NothingOfPending, Different
  <2>4. \A h \in Conversions : Invalidating(h) => Invalidating(h)'
    BY <2>1 DEF Invalidating
  <2> QED
    BY <2>1, <2>3, <2>4, <1>0, KeepsFresh
<1>5. ASSUME NEW r \in Songs, Moves(r) PROVE Fresh'
  <2>1. UNCHANGED <<segment, store, read, raced, rows, pc, faults>>
    BY <1>5, <1>0, MovesForward
  <2> QED
    BY <2>1, <1>0, QuietKeepsFresh
<1>6. ASSUME NEW e \in Editors, EditRequest(e) PROVE Fresh'
  <2>1. /\ UNCHANGED <<store, read, rows, faults>> /\ pc[e] = "idle"
        /\ raced' = raced \cup Overtaken(e)
        /\ \E x \in Segments : segment' = [segment EXCEPT ![SongOf[e]] = x]
    BY <1>6 DEF EditRequest, fileVars, NoFault
  <2>2. Goto(e, "committed")
    BY <1>6 DEF EditRequest
  <2>3. \A c \in Songs \cup Calls : pc'[c] = IF c = e THEN "committed" ELSE pc[c]
    BY <2>2, <1>0, OnlyOneGoes DEF Calls
  <2>4. \A h \in Conversions : pc'[h] = pc[h]
    BY <2>3, Different DEF Calls
  <2>5. \A q \in Songs : q # SongOf[e] => segment'[q] = segment[q]
    BY <2>1, <1>0 DEF TypeOK
  <2>6. \A h \in Conversions : Invalidating(h) => Invalidating(h)'
    BY <2>1, <2>3 DEF Invalidating, Calls
  <2>7. \A h \in Conversions : pc'[h] \in Waiting => store'[h] = "absent"
    BY <2>1, <2>4, <1>0 DEF Fresh, Waiting
  <2>8. ASSUME faults' = 0, NEW h \in Conversions,
               pc'[h] \in Converting, read'[h] # segment'[SongOf[h]]
        PROVE  h \in raced'
    <3>1. CASE SongOf[h] = SongOf[e]
      BY <2>1, <2>4, <2>8, <3>1 DEF Overtaken, Converting
    <3>2. CASE SongOf[h] # SongOf[e]
      BY <2>1, <2>4, <2>5, <2>8, <3>2, <1>0, Different DEF Fresh
    <3> QED
      BY <3>1, <3>2
  <2>9. ASSUME faults' = 0, NEW h \in Conversions,
               store'[h] = "live", read'[h] # segment'[SongOf[h]]
        PROVE  h \in raced' \/ Invalidating(h)'
    <3>1. CASE SongOf[h] = SongOf[e]
      <4>1. pc'[e] = "committed"
        BY <2>3 DEF Calls
      <4> QED
        BY <3>1, <4>1 DEF Invalidating
    <3>2. CASE SongOf[h] # SongOf[e]
      <4>1. h \in raced \/ Invalidating(h)
        BY <2>1, <2>5, <2>9, <3>2, <1>0, Different DEF Fresh, StaleRecordingsWereRaced
      <4> QED
        BY <2>1, <2>6, <4>1
    <3> QED
      BY <3>1, <3>2
  <2> QED
    BY <2>7, <2>8, <2>9 DEF Fresh, Waiting, StaleRecordingsWereRaced
<1>7. ASSUME NEW e \in Editors, ListRecordings(e) PROVE Fresh'
  <2>1. /\ UNCHANGED <<segment, store, read, raced, faults>>
        /\ rows' = [rows EXCEPT ![e] = Recordings(SongOf[e])]
    BY <1>7 DEF ListRecordings, requestVars, fileVars, conversionVars, NoFault
  <2>2. Goto(e, "listed")
    BY <1>7 DEF ListRecordings
  <2>3. \A c \in Songs \cup Calls : pc'[c] = IF c = e THEN "listed" ELSE pc[c]
    BY <2>2, <1>0, OnlyOneGoes DEF Calls
  <2>4. \A h \in Conversions : pc'[h] = pc[h]
    BY <2>3, Different DEF Calls
  <2>5. \A d \in Editors : rows'[d] = IF d = e THEN Recordings(SongOf[e]) ELSE rows[d]
    BY <2>1, <1>0 DEF TypeOK
  <2>6. ASSUME NEW h \in Conversions, store'[h] = "live", Invalidating(h)
        PROVE  Invalidating(h)'
    <3>1. PICK d \in Editors : SongOf[d] = SongOf[h] /\ (pc[d] = "committed" \/ h \in rows[d])
      BY <2>6 DEF Invalidating
    <3>2. CASE d = e
      <4>1. h \in rows'[e]
        <5>1. h \in Recordings(SongOf[e])
          BY <2>1, <2>6, <3>1, <3>2 DEF Recordings
        <5> QED
          BY <2>5, <5>1
      <4> QED
        BY <3>1, <3>2, <4>1 DEF Invalidating
    <3>3. CASE d # e
      <4>1. pc'[d] = pc[d] /\ rows'[d] = rows[d]
        BY <2>3, <2>5, <3>3 DEF Calls
      <4> QED
        BY <3>1, <4>1 DEF Invalidating
    <3> QED
      BY <3>2, <3>3
  <2> QED
    BY <2>1, <2>4, <2>6, <1>0, KeepsFresh
<1>8. ASSUME NEW e \in Editors, DiscardRecording(e) PROVE Fresh'
  <2>1. UNCHANGED <<segment, read, raced, pc, faults>>
    BY <1>8 DEF DiscardRecording, requestVars, conversionVars, NoFault
  <2>2. PICK x \in rows[e] : /\ rows' = [rows EXCEPT ![e] = rows[e] \ {x}]
                             /\ IF store[x] = "live" THEN Files!Condemn(x) ELSE UNCHANGED fileVars
    BY <1>8 DEF DiscardRecording
  <2>3. x \in Conversions
    BY <2>2, <1>0 DEF TypeOK
  <2>4. \A h \in Conversions :
          store'[h] = IF h = x /\ store[x] = "live" THEN "doomed" ELSE store[h]
    BY <2>2, <2>3, <1>0 DEF TypeOK, Files!Condemn, fileVars
  <2>5. \A d \in Editors : rows'[d] = IF d = e THEN rows[e] \ {x} ELSE rows[d]
    <3>1. rows' = [rows EXCEPT ![e] = rows[e] \ {x}]
      BY <2>2
    <3> QED
      BY <3>1, <1>0 DEF TypeOK
  <2>6. \A h \in Conversions : pc'[h] \in Waiting => store'[h] = store[h]
    BY <2>1, <2>4, <1>0 DEF Fresh, Waiting
  <2>7. \A h \in Conversions : store'[h] = "live" => store[h] = "live" /\ h # x
    BY <2>4
  <2>8. ASSUME NEW h \in Conversions, store'[h] = "live", Invalidating(h)
        PROVE  Invalidating(h)'
    <3>1. PICK d \in Editors : SongOf[d] = SongOf[h] /\ (pc[d] = "committed" \/ h \in rows[d])
      BY <2>8 DEF Invalidating
    <3>2. h \in rows[d] => h \in rows'[d]
      BY <2>5, <2>7, <2>8
    <3> QED
      BY <2>1, <3>1, <3>2 DEF Invalidating
  <2> QED
    BY <2>1, <2>6, <2>7, <2>8, <1>0, KeepsFresh
<1>9. ASSUME NEW e \in Editors, EndInvalidation(e) PROVE Fresh'
  <2>1. /\ UNCHANGED <<segment, store, read, raced, rows, faults>>
        /\ pc[e] = "listed" /\ rows[e] = {}
    BY <1>9 DEF EndInvalidation, requestVars, fileVars, conversionVars, NoFault
  <2>2. Goto(e, "done")
    BY <1>9 DEF EndInvalidation
  <2>3. \A c \in Songs \cup Calls : pc'[c] = IF c = e THEN "done" ELSE pc[c]
    BY <2>2, <1>0, OnlyOneGoes DEF Calls
  <2>4. \A h \in Conversions : pc'[h] = pc[h]
    BY <2>3, Different DEF Calls
  <2>5. \A h \in Conversions : Invalidating(h) => Invalidating(h)'
    BY <2>1, <2>3 DEF Invalidating, Calls
  <2> QED
    BY <2>1, <2>4, <2>5, <1>0, KeepsFresh
<1>10. ASSUME NEW e \in Editors, InvalidationFails(e) PROVE Fresh'
  <2>1. UNCHANGED <<segment, store, read, raced>> /\ faults' = faults + 1
    BY <1>10 DEF InvalidationFails, requestVars, fileVars, conversionVars, Fault
  <2>2. Goto(e, "done")
    BY <1>10 DEF InvalidationFails
  <2>3. \A c \in Songs \cup Calls : pc'[c] = IF c = e THEN "done" ELSE pc[c]
    BY <2>2, <1>0, OnlyOneGoes DEF Calls
  <2>4. \A h \in Conversions : pc'[h] = pc[h]
    BY <2>3, Different DEF Calls
  <2>5. faults' # 0
    BY <2>1, <1>0 DEF TypeOK
  <2> QED
    BY <2>1, <2>4, <2>5, <1>0, KeepsFresh
<1>11. ASSUME NEW g \in Conversions, ReadRequest(g) PROVE Fresh'
  <2>1. /\ UNCHANGED <<segment, store, raced, rows, faults>> /\ pc[g] = "idle"
        /\ read' = [read EXCEPT ![g] = segment[SongOf[g]]]
    BY <1>11 DEF ReadRequest, requestVars, fileVars, NoFault
  <2>2. Goto(g, "read")
    BY <1>11 DEF ReadRequest
  <2>3. \A c \in Songs \cup Calls : pc'[c] = IF c = g THEN "read" ELSE pc[c]
    BY <2>2, <1>0, OnlyOneGoes DEF Calls
  <2>4. \A h \in Conversions : read'[h] = IF h = g THEN segment[SongOf[g]] ELSE read[h]
    BY <2>1, <1>0 DEF TypeOK
  <2>5. \A h \in Conversions : pc'[h] \in Waiting => store'[h] = "absent"
    BY <2>1, <2>3, <1>0 DEF Fresh, Waiting, Calls
  <2>6. ASSUME faults' = 0, NEW h \in Conversions,
               pc'[h] \in Converting, read'[h] # segment'[SongOf[h]]
        PROVE  h \in raced'
    BY <2>1, <2>3, <2>4, <2>6, <1>0 DEF Fresh, Calls
  <2>7. \A h \in Conversions : Invalidating(h) => Invalidating(h)'
    BY <2>1, <2>3, Different DEF Invalidating, Calls
  <2>8. ASSUME faults' = 0, NEW h \in Conversions,
               store'[h] = "live", read'[h] # segment'[SongOf[h]]
        PROVE  h \in raced' \/ Invalidating(h)'
    BY <2>1, <2>4, <2>7, <2>8, <1>0 DEF Fresh, StaleRecordingsWereRaced
  <2> QED
    BY <2>5, <2>6, <2>8 DEF Fresh, Waiting, StaleRecordingsWereRaced
<1>12. ASSUME NEW g \in Conversions, ListExisting(g) PROVE Fresh'
  <2>1. UNCHANGED <<segment, store, read, raced, rows, faults>>
    BY <1>12 DEF ListExisting, requestVars, fileVars, conversionVars, NoFault
  <2>2. PICK l \in {"checked", "done"} : Goto(g, l) /\ pc[g] \in {"read"}
    BY <1>12 DEF ListExisting
  <2>3. \A c \in Songs \cup Calls : pc'[c] = IF c = g THEN l ELSE pc[c]
    BY <2>2, <1>0, OnlyOneGoes DEF Calls
  <2>4. \A e \in Editors : pc'[e] = pc[e]
    BY <2>3, Different DEF Calls
  <2>5. \A h \in Conversions : pc'[h] \in Waiting => pc[h] \in Waiting
    BY <2>2, <2>3, Different DEF Waiting, Converting, Calls
  <2>6. \A h \in Conversions : pc'[h] \in Converting => pc[h] \in Converting
    BY <2>2, <2>3, Different DEF Waiting, Converting, Calls
  <2> QED
    BY <2>1, <2>4, <2>5, <2>6, <1>0, QuietKeepsFresh
<1>13. ASSUME NEW g \in Conversions, JoinOrStart(g) PROVE Fresh'
  <2>1. UNCHANGED <<segment, store, read, raced, rows, faults>>
    BY <1>13 DEF JoinOrStart, requestVars, fileVars, conversionVars, NoFault
  <2>2. PICK l \in {"joined", "rendering"} : Goto(g, l) /\ pc[g] \in {"checked"}
    BY <1>13 DEF JoinOrStart
  <2>3. \A c \in Songs \cup Calls : pc'[c] = IF c = g THEN l ELSE pc[c]
    BY <2>2, <1>0, OnlyOneGoes DEF Calls
  <2>4. \A e \in Editors : pc'[e] = pc[e]
    BY <2>3, Different DEF Calls
  <2>5. \A h \in Conversions : pc'[h] \in Waiting => pc[h] \in Waiting
    BY <2>2, <2>3, Different DEF Waiting, Converting, Calls
  <2>6. \A h \in Conversions : pc'[h] \in Converting => pc[h] \in Converting
    BY <2>2, <2>3, Different DEF Waiting, Converting, Calls
  <2> QED
    BY <2>1, <2>4, <2>5, <2>6, <1>0, QuietKeepsFresh
<1>14. ASSUME NEW g \in Conversions, RenderFails(g) PROVE Fresh'
  <2>1. UNCHANGED <<segment, store, read, raced, rows, faults>>
    BY <1>14 DEF RenderFails, requestVars, fileVars, conversionVars, NoFault
  <2>2. Goto(g, "settling") /\ pc[g] \in {"rendering"}
    BY <1>14 DEF RenderFails
  <2>3. \A c \in Songs \cup Calls : pc'[c] = IF c = g THEN "settling" ELSE pc[c]
    BY <2>2, <1>0, OnlyOneGoes DEF Calls
  <2>4. \A e \in Editors : pc'[e] = pc[e]
    BY <2>3, Different DEF Calls
  <2>5. \A h \in Conversions : pc'[h] \in Waiting => pc[h] \in Waiting
    BY <2>2, <2>3, Different DEF Waiting, Converting, Calls
  <2>6. \A h \in Conversions : pc'[h] \in Converting => pc[h] \in Converting
    BY <2>2, <2>3, Different DEF Waiting, Converting, Calls
  <2> QED
    BY <2>1, <2>4, <2>5, <2>6, <1>0, QuietKeepsFresh
<1>15. ASSUME NEW g \in Conversions, StoreRecording(g) PROVE Fresh'
  <2>1. /\ UNCHANGED <<segment, read, raced, rows>> /\ store' = [store EXCEPT ![g] = "live"]
        /\ faults' = faults \/ faults' = faults + 1
    BY <1>15 DEF StoreRecording, requestVars, conversionVars, Files!Attach, NoFault, Fault
  <2>2. PICK l \in {"stored", "settling"} : Goto(g, l) /\ pc[g] \in {"rendering"}
    BY <1>15 DEF StoreRecording
  <2>3. \A c \in Songs \cup Calls : pc'[c] = IF c = g THEN l ELSE pc[c]
    BY <2>2, <1>0, OnlyOneGoes DEF Calls
  <2>4. \A h \in Conversions : store'[h] = IF h = g THEN "live" ELSE store[h]
    BY <2>1, <1>0 DEF TypeOK
  <2>5. faults' = 0 => faults = 0
    BY <2>1, <1>0 DEF TypeOK
  <2>6. \A h \in Conversions : pc'[h] \in Waiting => h # g /\ pc'[h] = pc[h]
    BY <2>2, <2>3 DEF Waiting, Converting, Calls
  <2>7. \A h \in Conversions : pc'[h] \in Waiting => store'[h] = "absent"
    BY <2>4, <2>6, <1>0 DEF Fresh, Waiting
  <2>8. ASSUME faults' = 0, NEW h \in Conversions,
               pc'[h] \in Converting, read'[h] # segment'[SongOf[h]]
        PROVE  h \in raced'
    BY <2>1, <2>5, <2>6, <2>8, <1>0 DEF Fresh, Waiting
  <2>9. \A h \in Conversions : Invalidating(h) => Invalidating(h)'
    BY <2>1, <2>3, Different DEF Invalidating, Calls
  <2>10. ASSUME faults' = 0, NEW h \in Conversions,
                store'[h] = "live", read'[h] # segment'[SongOf[h]]
         PROVE  h \in raced' \/ Invalidating(h)'
    <3>1. CASE h = g
      BY <2>1, <2>2, <2>5, <2>10, <3>1, <1>0 DEF Fresh, Converting
    <3>2. CASE h # g
      BY <2>1, <2>4, <2>5, <2>9, <2>10, <3>2, <1>0 DEF Fresh, StaleRecordingsWereRaced
    <3> QED
      BY <3>1, <3>2
  <2> QED
    BY <2>7, <2>8, <2>10 DEF Fresh, Waiting, StaleRecordingsWereRaced
<1>16. ASSUME NEW g \in Conversions, ReadStored(g) PROVE Fresh'
  <2>1. UNCHANGED <<segment, store, read, raced, rows, faults>>
    BY <1>16 DEF ReadStored, requestVars, fileVars, conversionVars, NoFault
  <2>2. Goto(g, "settling") /\ pc[g] \in {"stored"}
    BY <1>16 DEF ReadStored
  <2>3. \A c \in Songs \cup Calls : pc'[c] = IF c = g THEN "settling" ELSE pc[c]
    BY <2>2, <1>0, OnlyOneGoes DEF Calls
  <2>4. \A e \in Editors : pc'[e] = pc[e]
    BY <2>3, Different DEF Calls
  <2>5. \A h \in Conversions : pc'[h] \in Waiting => pc[h] \in Waiting
    BY <2>2, <2>3, Different DEF Waiting, Converting, Calls
  <2>6. \A h \in Conversions : pc'[h] \in Converting => pc[h] \in Converting
    BY <2>2, <2>3, Different DEF Waiting, Converting, Calls
  <2> QED
    BY <2>1, <2>4, <2>5, <2>6, <1>0, QuietKeepsFresh
<1>17. ASSUME NEW g \in Conversions, Settle(g) PROVE Fresh'
  <2>1. UNCHANGED <<segment, store, read, raced, rows, faults>>
    BY <1>17 DEF Settle, requestVars, fileVars, conversionVars, NoFault
  <2>2. Goto(g, "done") /\ pc[g] \in {"settling"}
    BY <1>17 DEF Settle
  <2>3. \A c \in Songs \cup Calls : pc'[c] = IF c = g THEN "done" ELSE pc[c]
    BY <2>2, <1>0, OnlyOneGoes DEF Calls
  <2>4. \A e \in Editors : pc'[e] = pc[e]
    BY <2>3, Different DEF Calls
  <2>5. \A h \in Conversions : pc'[h] \in Waiting => pc[h] \in Waiting
    BY <2>2, <2>3, Different DEF Waiting, Converting, Calls
  <2>6. \A h \in Conversions : pc'[h] \in Converting => pc[h] \in Converting
    BY <2>2, <2>3, Different DEF Waiting, Converting, Calls
  <2> QED
    BY <2>1, <2>4, <2>5, <2>6, <1>0, QuietKeepsFresh
<1>18. ASSUME NEW g \in Conversions, JoinedSettles(g) PROVE Fresh'
  <2>1. UNCHANGED <<segment, store, read, raced, rows, faults>>
    BY <1>18 DEF JoinedSettles, requestVars, fileVars, conversionVars, NoFault
  <2>2. Goto(g, "done") /\ pc[g] \in {"joined"}
    BY <1>18 DEF JoinedSettles
  <2>3. \A c \in Songs \cup Calls : pc'[c] = IF c = g THEN "done" ELSE pc[c]
    BY <2>2, <1>0, OnlyOneGoes DEF Calls
  <2>4. \A e \in Editors : pc'[e] = pc[e]
    BY <2>3, Different DEF Calls
  <2>5. \A h \in Conversions : pc'[h] \in Waiting => pc[h] \in Waiting
    BY <2>2, <2>3, Different DEF Waiting, Converting, Calls
  <2>6. \A h \in Conversions : pc'[h] \in Converting => pc[h] \in Converting
    BY <2>2, <2>3, Different DEF Waiting, Converting, Calls
  <2> QED
    BY <2>1, <2>4, <2>5, <2>6, <1>0, QuietKeepsFresh
<1>19. ASSUME NEW g \in Conversions, EraseRecording(g) PROVE Fresh'
  <2>1. /\ UNCHANGED <<segment, read, raced, rows, pc, faults>>
        /\ store[g] = "doomed" /\ store' = [store EXCEPT ![g] = "gone"]
    BY <1>19 DEF EraseRecording, requestVars, conversionVars, Files!Vanish, NoFault
  <2>2. \A h \in Conversions : store'[h] = IF h = g THEN "gone" ELSE store[h]
    BY <2>1, <1>0 DEF TypeOK
  <2>3. \A h \in Conversions : pc'[h] \in Waiting => store'[h] = store[h]
    BY <2>1, <2>2, <1>0 DEF Fresh, Waiting
  <2>4. \A h \in Conversions : store'[h] = "live" => store[h] = "live"
    BY <2>2
  <2>5. \A h \in Conversions : Invalidating(h) => Invalidating(h)'
    BY <2>1 DEF Invalidating
  <2> QED
    BY <2>1, <2>3, <2>4, <2>5, <1>0, KeepsFresh
<1>20. ASSUME NEW p \in Processes, Crash(p) PROVE Fresh'
  <2>1. UNCHANGED <<segment, store, read, raced>> /\ faults' = faults + 1
    BY <1>20 DEF Crash, requestVars, fileVars, Fault
  <2>2. \A h \in Conversions : pc'[h] = pc[h] \/ pc'[h] = "done"
    BY <1>20 DEF Crash, Calls
  <2>3. faults' # 0
    BY <2>1, <1>0 DEF TypeOK
  <2>4. \A h \in Conversions : pc'[h] \in Waiting => pc[h] \in Waiting
    BY <2>2 DEF Waiting, Converting
  <2>5. \A h \in Conversions : pc'[h] \in Converting => pc[h] \in Converting
    BY <2>2 DEF Waiting, Converting
  <2> QED
    BY <2>1, <2>3, <2>4, <2>5, <1>0, KeepsFresh
<1> QED
  BY <1>1, <1>2, <1>3, <1>4, <1>5, <1>6, <1>7, <1>8, <1>9, <1>10, <1>11, <1>12,
     <1>13, <1>14, <1>15, <1>16, <1>17, <1>18, <1>19, <1>20, RequestSteps
  DEF Next, EditStep, ConversionStep

-----------------------------------------------------------------------------
(* The invariant and what follows from it. *)

\* The first state satisfies the invariant.
LEMMA InitInductive == Init => IInv
<1> SUFFICES ASSUME Init PROVE IInv
  OBVIOUS
<1> USE DEF Init, Files!Init, Calls
<1>1. TypeOK
  BY DEF TypeOK, Statuses, Files!Status
<1>2. Creating
  BY DEF Creating
<1>3. PendingCapHeld
  <2>1. \A s : Pending(s) = {}
    BY DEF Pending
  <2>2. Cardinality({}) = 0
    BY FS_EmptySet
  <2>3. \A s : Cardinality(Pending(s)) = 0
    BY <2>1, <2>2
  <2>4. MaxPending >= 0
    BY ValueAssumption
  <2> QED
    BY <2>3, <2>4 DEF PendingCapHeld
<1>4. Approved
  BY DEF Approved, RecordingsAreOfApprovedSongs, Converting
<1>5. Tasks
  <2>1. \A g \in Conversions : ProcessOf[g] \in Processes /\ SongOf[g] \in Songs /\ g # None
    BY CallAssumption, ValueAssumption
  <2> QED
    BY <2>1 DEF Tasks, Running, Busy
<1>6. Fresh
  BY DEF Fresh, Converting, StaleRecordingsWereRaced
<1> QED
  BY <1>1, <1>2, <1>3, <1>4, <1>5, <1>6 DEF IInv

\* Every step, and every step of somebody else, keeps it.
LEMMA NextInductive == IInv /\ [Next]_vars => IInv'
<1> SUFFICES ASSUME IInv, [Next]_vars PROVE IInv'
  OBVIOUS
<1>1. CASE Next
  BY <1>1, TypeKept, CreatingKept, ApprovedKept, TasksKept, FreshKept DEF IInv
<1>2. CASE UNCHANGED vars
  <2> USE <1>2 DEF vars, IInv
  <2>1. TypeOK'
    BY DEF TypeOK
  <2>2. Creating' /\ PendingCapHeld'
    BY DEF Creating, PendingCapHeld, Pending
  <2>3. Approved'
    BY DEF Approved, RecordingsAreOfApprovedSongs, Convertible
  <2>4. Tasks'
    BY DEF Tasks, Running
  <2>5. Fresh'
    BY DEF Fresh, StaleRecordingsWereRaced, Invalidating
  <2> QED
    BY <2>1, <2>2, <2>3, <2>4, <2>5
<1> QED
  BY <1>1, <1>2

\* It holds in every state the specification reaches.
LEMMA Invariance == Spec => []IInv
BY InitInductive, NextInductive, PTL DEF Spec

\* Every variable keeps its type.
THEOREM TypeCorrect == Spec => []TypeOK
<1>1. IInv => TypeOK
  BY DEF IInv
<1> QED
  BY <1>1, Invariance, PTL

\* A student never has more pending requests than MAX_PENDING_WAKE_SONG_REQUESTS,
\* however many are sent at once: whoever has counted holds the row of the student,
\* and nothing becomes pending but under that lock.
THEOREM CapIsHeld == Spec => []PendingCapHeld
<1>1. IInv => PendingCapHeld
  BY DEF IInv
<1> QED
  BY <1>1, Invariance, PTL

\* A recording is only ever there for a request that was approved: what a conversion
\* read minutes ago is still true, because no transition takes an approval back.
THEOREM RecordedWasApproved == Spec => []RecordingsAreOfApprovedSongs
<1>1. IInv => RecordingsAreOfApprovedSongs
  BY DEF IInv, Approved
<1> QED
  BY <1>1, Invariance, PTL

\* A process renders one recording per request at a time, and its table lists just
\* those conversions, through failures, joins and crashes.
THEOREM OneTaskAtATime == Spec => []OneTaskPerSong
<1>1. IInv => OneTaskPerSong
  <2> SUFFICES ASSUME IInv, NEW p \in Processes, NEW r \in Songs
               PROVE  {g \in Conversions : /\ ProcessOf[g] = p /\ SongOf[g] = r
                                           /\ pc[g] \in {"rendering", "stored", "settling"}}
                         = IF inFlight[p][r] = None THEN {} ELSE {inFlight[p][r]}
    BY DEF OneTaskPerSong
  <2>1. inFlight[p][r] \in Conversions \cup {None}
    BY DEF IInv, TypeOK
  <2>2. \A g \in Conversions :
          ProcessOf[g] = p /\ SongOf[g] = r =>
             (pc[g] \in {"rendering", "stored", "settling"} <=> inFlight[p][r] = g)
    BY DEF IInv, Tasks, Running, Busy
  <2>3. inFlight[p][r] # None =>
           ProcessOf[inFlight[p][r]] = p /\ SongOf[inFlight[p][r]] = r
    BY DEF IInv, Tasks
  <2>4. None \notin Conversions
    BY ValueAssumption
  <2> QED
    BY <2>1, <2>2, <2>3, <2>4
<1> QED
  BY <1>1, Invariance, PTL

\* Without faults, a recording that does not render the request any more is about to
\* be discarded, unless its conversion was under way when the edit was made.
THEOREM StaleOnlyInARace == Spec => []StaleRecordingsWereRaced
<1>1. IInv => StaleRecordingsWereRaced
  BY DEF IInv, Fresh
<1> QED
  BY <1>1, Invariance, PTL

=============================================================================
