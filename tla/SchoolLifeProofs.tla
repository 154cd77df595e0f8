-------------------------- MODULE SchoolLifeProofs --------------------------
(***************************************************************************)
(* What the small services promise whoever uses them, for every number of  *)
(* users and calls: candidate weeks, petitions, rooms, device schedules,   *)
(* activity requests, menus and the calendar. Each part has the inductive  *)
(* invariant of its module first, a lemma for each action, and its         *)
(* theorems last.                                                          *)
(***************************************************************************)
EXTENDS CandidateWeek, Petitions, Dormitory, DeviceCases, ActivityRequests,
        SchoolData, FiniteSetTheorems, WellFoundedInduction, TLAPS

\* The candidate week of a request, for every instant since 1970.

\* Midnight in Korea is where the Korean date changes.
LEMMA DayOfMidnight ==
    ASSUME NEW day \in Int
    PROVE  KoreanDay(Midnight(day)) = day
BY WeekAssumption DEF KoreanDay, Midnight

\* An instant lies on its Korean day.
LEMMA DayBounds ==
    ASSUME NEW t \in Int
    PROVE  /\ KoreanDay(t) \in Int
           /\ Midnight(KoreanDay(t)) <= t
           /\ t < Midnight(KoreanDay(t) + 1)
BY WeekAssumption DEF KoreanDay, Midnight

\* The day found is a Monday, one to seven days ahead.
LEMMA NextMonday ==
    ASSUME NEW day \in Int
    PROVE  /\ DaysUntilNextMonday(day) \in 1 .. 7
           /\ Weekday(day + DaysUntilNextMonday(day)) = 1
BY DEF DaysUntilNextMonday, Weekday

\* Mondays are a week apart.
LEMMA OneMondayAWeek ==
    ASSUME NEW d1 \in Int, NEW d2 \in Int, Weekday(d1) = 1, Weekday(d2) = 1,
           d1 - 7 < d2, d2 < d1 + 7
    PROVE  d1 = d2
BY DEF Weekday

\* Instants are counted from the first hour on.
THEOREM Instants == WeekSpec => []WeekTypeOK
<1>1. WeekInit => WeekTypeOK
  BY WeekAssumption DEF WeekInit, WeekTypeOK
<1>2. WeekTypeOK /\ [WeekNext]_createdAt => WeekTypeOK'
  BY DEF WeekNext, WeekTypeOK
<1> QED BY <1>1, <1>2, PTL DEF WeekSpec

\* Where the candidate week of an instant starts.
LEMMA StartOfWeek ==
    ASSUME NEW t \in Nat
    PROVE  /\ StartDate(t) \in Int
           /\ Weekday(StartDate(t)) = 1
           /\ WeekStart(t) = Midnight(StartDate(t))
           /\ t < WeekStart(t)
           /\ WeekStart(t) <= t + 7 * 24
<1> DEFINE thisDay == KoreanDay(t)
           days == DaysUntilNextMonday(thisDay)
<1>1. thisDay \in Int /\ Midnight(thisDay) <= t /\ t < Midnight(thisDay + 1)
  BY DayBounds
<1>2. days \in 1 .. 7 /\ Weekday(thisDay + days) = 1
  BY <1>1, NextMonday
<1>3. WeekStart(t) = Midnight(thisDay + days)
  BY DEF WeekStart
<1> HIDE DEF thisDay, days
<1>4. StartDate(t) = thisDay + days
  BY <1>1, <1>2, <1>3, DayOfMidnight DEF StartDate
<1>5. t < Midnight(thisDay + days) /\ Midnight(thisDay + days) <= t + 7 * 24
  BY <1>1, <1>2, WeekAssumption DEF Midnight
<1> QED BY <1>1, <1>2, <1>3, <1>4, <1>5

\* The candidate week is the first Korean week that begins after the request,
\* whenever the request is made.
THEOREM NextWeek == WeekSpec => []IsTheNextWeek
<1>1. WeekTypeOK => IsTheNextWeek
  BY StartOfWeek DEF WeekTypeOK, IsTheNextWeek
<1> QED BY <1>1, Instants, PTL

\* The list of a week and the schedule of its requests agree, whenever a request
\* is made.
THEOREM ListMatchesSchedule == WeekSpec => []ListedUnderItsWeek
<1>1. WeekTypeOK => ListedUnderItsWeek
  <2> SUFFICES ASSUME WeekTypeOK,
                      NEW day \in KoreanDay(createdAt) .. KoreanDay(createdAt) + 14,
                      Weekday(day) = 1
               PROVE  createdAt \in CreatedAtRange(day)
                          <=> MaySchedule(createdAt, Midnight(day))
    BY DEF ListedUnderItsWeek
  <2> DEFINE start == StartDate(createdAt)
  <2>1. createdAt \in Nat /\ day \in Int
    BY DayBounds DEF WeekTypeOK
  <2>2. /\ start \in Int /\ Weekday(start) = 1
        /\ WeekStart(createdAt) = Midnight(start)
        /\ createdAt < Midnight(start) /\ Midnight(start) <= createdAt + 7 * 24
    BY <2>1, StartOfWeek
  <2> HIDE DEF start
  <2>3. ASSUME createdAt \in CreatedAtRange(day)
        PROVE  day = start
    <3>1. day - 7 < start /\ start < day + 7
      BY <2>1, <2>2, <2>3, WeekAssumption DEF CreatedAtRange, Midnight
    <3> QED BY <2>1, <2>2, <3>1, OneMondayAWeek
  <2>4. ASSUME MaySchedule(createdAt, Midnight(day))
        PROVE  day = start
    <3>1. day - 7 < start /\ start < day + 7
      BY <2>1, <2>2, <2>4, WeekAssumption DEF MaySchedule, WeekEnd, Midnight
    <3> QED BY <2>1, <2>2, <3>1, OneMondayAWeek
  <2>5. ASSUME day = start
        PROVE  /\ createdAt \in CreatedAtRange(day)
               /\ MaySchedule(createdAt, Midnight(day))
    BY <2>1, <2>2, <2>5, WeekAssumption DEF CreatedAtRange, MaySchedule, WeekEnd, Midnight
  <2> QED BY <2>3, <2>4, <2>5
<1> QED BY <1>1, Instants, PTL

\* A request belongs to the next week and is listed under it, for every instant
\* (getCandidateRange, wakeSongWeek).
THEOREM WeekAndList == WeekSpec => []WeekIsSound
<1>1. IsTheNextWeek /\ ListedUnderItsWeek => WeekIsSound
  BY DEF WeekIsSound
<1> QED BY <1>1, NextWeek, ListMatchesSchedule, PTL

-----------------------------------------------------------------------------
\* What a petition promises its signers, for any set of signers and any
\* threshold.

PetitionRows ==
    [status : {"absent", "open", "awaiting_answer", "answered", "hidden"}, count : Nat, text : Nat]

PetitionShapes ==
    /\ petition \in PetitionRows
    /\ signed \subseteq Signers /\ IsFiniteSet(signed)
    /\ answers \in Nat
    /\ screen \in [Signers -> PetitionRows]
    /\ textSigned \in [Signers -> Nat]

\* A text somebody has read with signatures under it is the text that stands:
\* of every signer, not only of those who signed already.
ScreensWithSignatures ==
    \A v \in Signers : screen[v].count > 0 => screen[v].text = petition.text /\ petition.count > 0

AllSignedThis == \A v \in signed : textSigned[v] = petition.text

PetitionInv == PetitionShapes /\ StatusFollowsSignatures /\ ScreensWithSignatures /\ AllSignedThis

LEMMA PetitionBegins == PetitionInit => PetitionInv
BY PetitionAssumption, FS_EmptySet, SMT
DEF PetitionInit, PetitionInv, PetitionShapes, PetitionRows, NoPetition,
    StatusFollowsSignatures, ScreensWithSignatures, AllSignedThis

\* No signature yet, no signer.
LEMMA NobodySigned ==
    ASSUME PetitionInv, petition.count = 0
    PROVE  signed = {}
BY FS_EmptySet DEF PetitionInv, PetitionShapes, StatusFollowsSignatures

LEMMA PetitionParticipatePreserves ==
    ASSUME PetitionInv, NEW v \in Signers, Participate(v)
    PROVE  PetitionInv'
<1>1. CASE v \in signed
  <2>1. signed' = signed /\ petition' = petition /\ textSigned' = textSigned
    BY <1>1 DEF Participate
  <2> QED
    BY <2>1 DEF Participate, PetitionInv, PetitionShapes, StatusFollowsSignatures,
                ScreensWithSignatures, AllSignedThis
<1>2. CASE v \notin signed
  <2> DEFINE n == petition.count + 1
             s == IF n >= Threshold THEN "awaiting_answer" ELSE "open"
  <2>1. /\ petition \in PetitionRows /\ petition.status = "open"
        /\ petition.count < Threshold /\ answers = 0
    BY DEF Participate, PetitionInv, PetitionShapes, StatusFollowsSignatures
  <2>2. petition' = [status |-> s, count |-> n, text |-> petition.text]
    BY <1>2, <2>1 DEF Participate, PetitionRows
  <2>3. petition' \in PetitionRows /\ n > 0
    BY <2>1, <2>2 DEF PetitionRows
  <2>4. signed' = signed \cup {v} /\ answers' = answers /\ screen' = screen
    BY DEF Participate
  <2>5. IsFiniteSet(signed') /\ Cardinality(signed') = n
    BY <1>2, <2>4, FS_AddElement DEF PetitionInv, PetitionShapes, StatusFollowsSignatures
  <2>6. textSigned' = [textSigned EXCEPT ![v] = petition.text]
    BY <1>2 DEF Participate
  <2>7. PetitionShapes'
    BY <2>1, <2>3, <2>4, <2>5, <2>6 DEF PetitionInv, PetitionShapes, PetitionRows
  <2>8. StatusFollowsSignatures'
    BY <2>1, <2>2, <2>4, <2>5, PetitionAssumption DEF StatusFollowsSignatures, PetitionRows
  <2>9. ScreensWithSignatures'
    BY <2>2, <2>3, <2>4 DEF PetitionInv, ScreensWithSignatures
  <2>10. AllSignedThis'
    BY <2>2, <2>4, <2>6 DEF PetitionInv, PetitionShapes, AllSignedThis
  <2> QED BY <2>7, <2>8, <2>9, <2>10 DEF PetitionInv
<1> QED BY <1>1, <1>2

LEMMA PetitionCreatePreserves ==
    ASSUME PetitionInv, CreatePetition
    PROVE  PetitionInv'
<1>1. signed = {} /\ petition = NoPetition
  BY NobodySigned DEF CreatePetition, NoPetition
<1>2. petition' = [status |-> "open", count |-> 0, text |-> 1]
  BY DEF CreatePetition
<1>3. \A v \in Signers : ~ (screen[v].count > 0)
  BY <1>1 DEF PetitionInv, ScreensWithSignatures, NoPetition
<1> QED
  BY <1>1, <1>2, <1>3, PetitionAssumption
  DEF CreatePetition, PetitionInv, PetitionShapes, PetitionRows, StatusFollowsSignatures,
      ScreensWithSignatures, AllSignedThis, NoPetition

LEMMA PetitionUpdatePreserves ==
    ASSUME PetitionInv, UpdatePetition
    PROVE  PetitionInv'
<1>1. signed = {}
  BY NobodySigned DEF UpdatePetition, Untouched
<1>2. petition' = [petition EXCEPT !.text = @ + 1] /\ petition \in PetitionRows
  BY DEF UpdatePetition, PetitionInv, PetitionShapes
<1>3. /\ petition' \in PetitionRows
      /\ petition'.status = petition.status /\ petition'.count = petition.count
  BY <1>2 DEF PetitionRows
<1>4. \A v \in Signers : ~ (screen[v].count > 0)
  BY DEF PetitionInv, ScreensWithSignatures, UpdatePetition, Untouched
<1> QED
  BY <1>1, <1>3, <1>4
  DEF UpdatePetition, PetitionInv, PetitionShapes, StatusFollowsSignatures,
      ScreensWithSignatures, AllSignedThis

\* The two changes of the status alone.
LEMMA PetitionStatusPreserves ==
    ASSUME PetitionInv, AnswerPetition \/ \E manages \in BOOLEAN : DeletePetition(manages)
    PROVE  PetitionInv'
<1>1. /\ signed' = signed /\ screen' = screen /\ textSigned' = textSigned
      /\ petition \in PetitionRows
  BY DEF AnswerPetition, DeletePetition, PetitionInv, PetitionShapes
<1>2. CASE AnswerPetition
  <2>1. petition' = [petition EXCEPT !.status = "answered"] /\ answers' = answers + 1
    BY <1>2 DEF AnswerPetition
  <2>2. /\ petition' \in PetitionRows /\ petition'.status = "answered"
        /\ petition'.count = petition.count /\ petition'.text = petition.text
    BY <1>1, <2>1 DEF PetitionRows
  <2>3. answers = 0 /\ petition.count = Threshold
    BY <1>2 DEF AnswerPetition, PetitionInv, StatusFollowsSignatures
  <2> QED
    BY <1>1, <2>1, <2>2, <2>3 DEF PetitionInv, PetitionShapes, StatusFollowsSignatures,
                                  ScreensWithSignatures, AllSignedThis
<1>3. CASE \E manages \in BOOLEAN : DeletePetition(manages)
  <2>1. petition' = [petition EXCEPT !.status = "hidden"] /\ answers' = answers
    BY <1>3 DEF DeletePetition
  <2>2. /\ petition' \in PetitionRows /\ petition'.status = "hidden"
        /\ petition'.count = petition.count /\ petition'.text = petition.text
    BY <1>1, <2>1 DEF PetitionRows
  <2> QED
    BY <1>1, <2>1, <2>2 DEF PetitionInv, PetitionShapes, StatusFollowsSignatures,
                            ScreensWithSignatures, AllSignedThis
<1> QED BY <1>2, <1>3

LEMMA PetitionReadPreserves ==
    ASSUME PetitionInv, NEW v \in Signers, ReadPetition(v)
    PROVE  PetitionInv'
<1>1. /\ screen' = [screen EXCEPT ![v] = petition]
      /\ petition' = petition /\ signed' = signed /\ answers' = answers /\ textSigned' = textSigned
  BY DEF ReadPetition
<1>2. screen' \in [Signers -> PetitionRows]
  BY <1>1 DEF PetitionInv, PetitionShapes
<1>3. ASSUME NEW w \in Signers, screen'[w].count > 0
      PROVE  screen'[w].text = petition.text /\ petition.count > 0
  BY <1>1, <1>3 DEF PetitionInv, PetitionShapes, ScreensWithSignatures
<1> QED
  BY <1>1, <1>2, <1>3 DEF PetitionInv, PetitionShapes, StatusFollowsSignatures,
                          ScreensWithSignatures, AllSignedThis

\* What every order of signatures, edits, answers and deletions keeps, with what the
\* screens show: a text somebody has seen signed stands (update, participate).
THEOREM PetitionInvAlways == PetitionSpec => []PetitionInv
<1>1. PetitionInv /\ [PetitionNext]_petitionVars => PetitionInv'
  <2> SUFFICES ASSUME PetitionInv, [PetitionNext]_petitionVars PROVE PetitionInv'
    OBVIOUS
  <2>1. CASE CreatePetition
    BY <2>1, PetitionCreatePreserves
  <2>2. CASE UpdatePetition
    BY <2>2, PetitionUpdatePreserves
  <2>3. CASE AnswerPetition \/ \E manages \in BOOLEAN : DeletePetition(manages)
    BY <2>3, PetitionStatusPreserves
  <2>4. CASE EndPetition \/ UNCHANGED petitionVars
    BY <2>4 DEF EndPetition, petitionVars, PetitionInv, PetitionShapes, StatusFollowsSignatures,
                ScreensWithSignatures, AllSignedThis
  <2>5. CASE \E v \in Signers : ReadPetition(v)
    BY <2>5, PetitionReadPreserves
  <2>6. CASE \E v \in Signers : Participate(v)
    BY <2>6, PetitionParticipatePreserves
  <2> QED BY <2>1, <2>2, <2>3, <2>4, <2>5, <2>6 DEF PetitionNext
<1> QED BY <1>1, PetitionBegins, PTL DEF PetitionSpec

\* Whoever signs, taps twice, reads an old text or edits: the status is that of
\* the signatures, and all of them are for the text that stands (petitions.service.ts).
THEOREM PetitionsAreHonest == PetitionSpec => []PetitionIsHonest
<1>1. PetitionInv => PetitionIsHonest
  BY DEF PetitionInv, PetitionShapes, PetitionIsHonest, SignedTextStands, ScreensWithSignatures, AllSignedThis
<1> QED BY <1>1, PetitionInvAlways, PTL

\* What a petition keeps is of its kind, for any signers and any threshold.
THEOREM PetitionTypes == PetitionSpec => []PetitionTypeOK
<1>1. PetitionInv => PetitionTypeOK
  BY DEF PetitionInv, PetitionShapes, PetitionRows, PetitionTypeOK
<1> QED BY <1>1, PetitionInvAlways, PTL

-----------------------------------------------------------------------------
\* Why the rooms stay right although nothing in the database says so: for any
\* students, rooms and calls. A call writes what it validated and leaves the
\* others where they are; whoever shares a room with a student it places was
\* validated with him.

RowsRead == UNION {[D -> DormCalls \cup {NoBed}] : D \in SUBSET Students}

CallRecords ==
    [step : {"idle", "planned", "locked", "done"}, plan : Plans, targets : SUBSET Students,
     rows : RowsRead, blocks : SUBSET Blocks]

DormShapes ==
    /\ bed \in [Students -> Beds \cup {NoBed}]
    /\ row \in [Students -> DormCalls \cup {NoBed}]
    /\ dorm \in [DormCalls -> CallRecords]
    /\ blocks \subseteq Blocks

\* A move and a swap place all whom they replace.
ReplacedArePlaced == \A c \in Moves \cup Swaps : dorm[c].targets \subseteq DOMAIN dorm[c].plan

\* A block a transaction does not know of, and that concerns it, is forgiven.
LateBlocksAreForgiven ==
    \A c \in DormCalls : dorm[c].step = "locked" =>
        \A p \in blocks :
            p \cap DOMAIN dorm[c].plan # {} => p \in dorm[c].blocks \cup forgiven

DormInv ==
    /\ DormShapes /\ ReplacedArePlaced /\ LateBlocksAreForgiven
    /\ RoomsAreRight /\ BlockedStudentsAreApart

LEMMA EmptyFunction == \A S : <<>> \in [{} -> S] /\ DOMAIN <<>> = {}
BY SMT

LEMMA IdleCall == Idle \in CallRecords /\ DOMAIN Idle.plan = {} /\ Idle.targets = {}
<1>1. <<>> \in Plans /\ <<>> \in RowsRead
  BY EmptyFunction DEF Plans, RowsRead
<1> QED BY <1>1, EmptyFunction DEF Idle, CallRecords

LEMMA DormBegins == DormInit => DormInv
<1> SUFFICES ASSUME DormInit PROVE DormInv
  OBVIOUS
<1>1. DormShapes
  BY IdleCall DEF DormInit, DormShapes
<1>2. ReplacedArePlaced
  BY IdleCall DEF DormInit, ReplacedArePlaced, DormCalls
<1>3. LateBlocksAreForgiven
  BY DEF DormInit, LateBlocksAreForgiven, Idle
<1>4. RoomsAreRight /\ BlockedStudentsAreApart
  BY DEF DormInit, RoomsAreRight, BlockedStudentsAreApart, Apart
<1> QED BY <1>1, <1>2, <1>3, <1>4 DEF DormInv

\* A call that plans, or locks its rooms, or ends, and moves nobody.
LEMMA CallMovesOn ==
    ASSUME DormInv, NEW c \in DormCalls, NEW r \in CallRecords,
           dorm' = [dorm EXCEPT ![c] = r],
           c \in Moves \cup Swaps => r.targets \subseteq DOMAIN r.plan,
           r.step = "locked" => r.blocks = blocks,
           UNCHANGED <<bed, row, blocks, forgiven>>
    PROVE  DormInv'
<1>1. dorm' \in [DormCalls -> CallRecords] /\ \A d \in DormCalls : dorm'[d] = IF d = c THEN r ELSE dorm[d]
  BY DEF DormInv, DormShapes
<1>2. DormShapes'
  BY <1>1 DEF DormInv, DormShapes
<1>3. ReplacedArePlaced'
  BY <1>1 DEF DormInv, ReplacedArePlaced, DormCalls
<1>4. LateBlocksAreForgiven'
  BY <1>1 DEF DormInv, LateBlocksAreForgiven
<1> QED
  BY <1>2, <1>3, <1>4
  DEF DormInv, RoomsAreRight, RoomsFit, Share, BlockedStudentsAreApart, Apart

LEMMA PlanMovesOn ==
    ASSUME DormInv, NEW c \in DormCalls, NEW p \in Plans, NEW targets \in SUBSET Students,
           Plan(c, p, targets),
           c \in Moves \cup Swaps => targets \subseteq DOMAIN p,
           UNCHANGED <<bed, row, blocks, forgiven>>
    PROVE  DormInv'
<1> DEFINE rows == [s \in targets |-> row[s]]
           r == [dorm[c] EXCEPT !.step = "planned", !.plan = p, !.targets = targets, !.rows = rows]
<1>1. dorm \in [DormCalls -> CallRecords] /\ dorm[c] \in CallRecords
  BY DEF DormInv, DormShapes
<1>2. rows \in RowsRead
  BY DEF DormInv, DormShapes, RowsRead
<1>3. dorm' = [dorm EXCEPT ![c].step = "planned", ![c].plan = p, ![c].targets = targets,
                           ![c].rows = rows]
  BY DEF Plan
<1> HIDE DEF rows
<1>4. r \in CallRecords /\ r.step = "planned" /\ r.plan = p /\ r.targets = targets
  BY <1>1, <1>2 DEF CallRecords
<1>5. dorm' = [dorm EXCEPT ![c] = r]
  BY <1>1, <1>3 DEF CallRecords
<1> HIDE DEF r
<1> QED BY <1>4, <1>5, CallMovesOn

LEMMA RequestPreserves ==
    ASSUME DormInv, NEW c \in DormCalls, RequestBed(c)
    PROVE  DormInv'
<1> DEFINE p == [s \in About[c] |-> To[c]]
           r == [dorm[c] EXCEPT !.step = "planned", !.plan = p]
<1>1. dorm \in [DormCalls -> CallRecords] /\ dorm[c] \in CallRecords
  BY DEF DormInv, DormShapes
<1>2. p \in Plans
  BY DormAssumption DEF RequestBed, Plans, DormCalls
<1>3. r \in CallRecords /\ r.step = "planned" /\ r.plan = p /\ r.targets = dorm[c].targets
  BY <1>1, <1>2 DEF CallRecords
<1>4. dorm' = [dorm EXCEPT ![c] = r]
  <2>1. dorm' = [dorm EXCEPT ![c].step = "planned", ![c].plan = p]
    BY DEF RequestBed
  <2> HIDE DEF p
  <2> QED BY <1>1, <2>1 DEF CallRecords
<1>5. c \notin Moves \cup Swaps
  BY DormAssumption DEF RequestBed
<1> HIDE DEF r
<1> QED BY <1>3, <1>4, <1>5, CallMovesOn DEF RequestBed

LEMMA ReadPreserves ==
    ASSUME DormInv, NEW c \in DormCalls,
           \/ ReadMoved(c)
           \/ ReadSwapped(c)
           \/ \E drawn \in SUBSET About[c] : \E p \in [drawn -> Beds] : PreviewDraw(c, p)
    PROVE  DormInv'
<1>1. About[c] \in SUBSET Students
  BY DormAssumption
<1>2. CASE ReadMoved(c)
  <2>1. [s \in About[c] |-> To[c]] \in Plans
    BY <1>1, <1>2, DormAssumption DEF ReadMoved, Plans
  <2> QED BY <1>1, <1>2, <2>1, PlanMovesOn DEF ReadMoved
<1>3. CASE ReadSwapped(c)
  <2>1. PICK s, t \in About[c] :
          Plan(c, [x \in {s, t} |-> IF x = s THEN bed[t] ELSE bed[s]], {s, t})
    BY <1>3 DEF ReadSwapped
  <2> DEFINE p == [x \in {s, t} |-> IF x = s THEN bed[t] ELSE bed[s]]
  <2>2. p \in Plans
    <3>1. bed[s] \in Beds /\ bed[t] \in Beds /\ {s, t} \in SUBSET Students
      BY <1>1, <1>3 DEF ReadSwapped, DormInv, DormShapes
    <3>2. p \in [{s, t} -> Beds]
      BY <3>1
    <3> HIDE DEF p
    <3> QED BY <3>1, <3>2 DEF Plans
  <2>3. {s, t} \in SUBSET Students /\ DOMAIN p = {s, t}
    BY <1>1
  <2> HIDE DEF p
  <2> QED BY <1>3, <2>1, <2>2, <2>3, PlanMovesOn DEF ReadSwapped, p
<1>4. CASE \E drawn \in SUBSET About[c] : \E p \in [drawn -> Beds] : PreviewDraw(c, p)
  <2>1. PICK drawn \in SUBSET About[c] : \E p \in [drawn -> Beds] : PreviewDraw(c, p)
    BY <1>4
  <2>2. PICK p \in [drawn -> Beds] : PreviewDraw(c, p)
    BY <2>1
  <2>3. p \in Plans
    BY <1>1 DEF Plans
  <2>4. c \notin Moves \cup Swaps
    BY <2>2, DormAssumption DEF PreviewDraw
  <2> QED BY <1>1, <2>2, <2>3, <2>4, PlanMovesOn DEF PreviewDraw
<1> QED BY <1>2, <1>3, <1>4

LEMMA LockPreserves ==
    ASSUME DormInv, NEW c \in DormCalls, LockRooms(c)
    PROVE  DormInv'
<1> DEFINE r == [dorm[c] EXCEPT !.step = "locked", !.blocks = blocks]
<1>1. dorm \in [DormCalls -> CallRecords] /\ dorm[c] \in CallRecords /\ blocks \subseteq Blocks
  BY DEF DormInv, DormShapes
<1>2. /\ r \in CallRecords /\ r.blocks = blocks
      /\ r.plan = dorm[c].plan /\ r.targets = dorm[c].targets
  BY <1>1 DEF CallRecords
<1>3. dorm' = [dorm EXCEPT ![c] = r]
  BY <1>1 DEF LockRooms, CallRecords
<1>4. c \in Moves \cup Swaps => r.targets \subseteq DOMAIN r.plan
  BY <1>2 DEF DormInv, ReplacedArePlaced
<1> HIDE DEF r
<1> QED BY <1>2, <1>3, <1>4, CallMovesOn DEF LockRooms

\* What a call writes: those it does not place keep what they had, if they keep
\* a bed; those it places get what was validated.
LEMMA WhatIsWritten ==
    ASSUME DormInv, NEW c \in DormCalls, Valid(c), NEW s \in Students, Result(c)[s] # NoBed
    PROVE  IF s \in DOMAIN dorm[c].plan
           THEN /\ Result(c)[s] = Validated(c)[s]
                /\ Result(c)[s].room \in Affected(c)
           ELSE /\ Result(c)[s] = bed[s]
                /\ bed[s].room \in Affected(c) => Validated(c)[s] = bed[s]
<1>1. CASE s \in DOMAIN dorm[c].plan
  <2>1. Result(c)[s] = dorm[c].plan[s]
    BY <1>1 DEF Result, Valid
  <2> QED BY <1>1, <2>1 DEF Validated, Affected
<1>2. CASE s \notin DOMAIN dorm[c].plan
  <2>1. c \in Moves \cup Swaps => s \notin Replaced(c)
    BY <1>2 DEF DormInv, ReplacedArePlaced, Replaced
  <2>2. Result(c)[s] = bed[s]
    BY <1>2, <2>1 DEF Result
  <2>3. s \notin Replaced(c)
    BY <1>2, <2>1 DEF Result, Replaced
  <2> QED BY <1>2, <2>2, <2>3 DEF Validated
<1> QED BY <1>1, <1>2

\* Two who share a room afterwards shared it before, or were validated together.
LEMMA WhoShares ==
    ASSUME DormInv, NEW c \in DormCalls, Valid(c), NEW s \in Students, NEW t \in Students,
           Share(Result(c), s, t)
    PROVE  \/ /\ Share(bed, s, t)
              /\ Result(c)[s] = bed[s] /\ Result(c)[t] = bed[t]
           \/ /\ Share(Validated(c), s, t)
              /\ Result(c)[s] = Validated(c)[s] /\ Result(c)[t] = Validated(c)[t]
              /\ {s, t} \cap DOMAIN dorm[c].plan # {}
<1> DEFINE placed == DOMAIN dorm[c].plan
<1>1. s # t /\ Result(c)[s] # NoBed /\ Result(c)[t] # NoBed /\ Result(c)[s].room = Result(c)[t].room
  BY DEF Share
<1> HIDE DEF placed
<1>2. CASE s \notin placed /\ t \notin placed
  BY <1>1, <1>2, WhatIsWritten DEF Share, placed
<1>3. CASE s \in placed \/ t \in placed
  <2>1. Result(c)[s] = Validated(c)[s] /\ Result(c)[t] = Validated(c)[t]
    BY <1>1, <1>3, WhatIsWritten DEF placed
  <2> QED BY <1>1, <1>3, <2>1 DEF Share, placed
<1> QED BY <1>2, <1>3

LEMMA WritePreserves ==
    ASSUME DormInv, NEW c \in DormCalls, Write(c)
    PROVE  DormInv'
<1>1. dorm' = [dorm EXCEPT ![c] = [Idle EXCEPT !.step = "done"]] /\ UNCHANGED <<blocks, forgiven>>
  BY DEF Write
<1>2. /\ [Idle EXCEPT !.step = "done"] \in CallRecords
      /\ [Idle EXCEPT !.step = "done"].step = "done" /\ [Idle EXCEPT !.step = "done"].targets = {}
  BY IdleCall DEF Idle, CallRecords
<1>3. /\ dorm' \in [DormCalls -> CallRecords]
      /\ \A d \in DormCalls : dorm'[d] = IF d = c THEN [Idle EXCEPT !.step = "done"] ELSE dorm[d]
  BY <1>1, <1>2 DEF DormInv, DormShapes
<1>4. ReplacedArePlaced' /\ LateBlocksAreForgiven'
  BY <1>1, <1>2, <1>3 DEF DormInv, ReplacedArePlaced, LateBlocksAreForgiven, DormCalls
<1>5. CASE ~ Valid(c)
  BY <1>1, <1>3, <1>4, <1>5
  DEF Write, DormInv, DormShapes, RoomsAreRight, RoomsFit, Share, BlockedStudentsAreApart, Apart
<1>6. CASE Valid(c)
  <2>1. /\ bed' = Result(c)
        /\ row' = [s \in Students |-> IF bed'[s] = NoBed THEN NoBed
                      ELSE IF c \notin Moves \cup Swaps /\ s \in DOMAIN dorm[c].plan THEN c
                      ELSE row[s]]
    BY <1>6 DEF Write
  <2>2. bed \in [Students -> Beds \cup {NoBed}] /\ dorm[c].plan \in Plans
    BY DEF DormInv, DormShapes, CallRecords
  <2>3. ASSUME NEW s \in Students PROVE Validated(c)[s] \in Beds \cup {NoBed}
    BY <2>2 DEF Validated, Plans
  <2>4. ASSUME NEW s \in Students, Result(c)[s] # NoBed
        PROVE  Result(c)[s] = bed[s] \/ Result(c)[s] = Validated(c)[s]
    BY <1>6, <2>4, WhatIsWritten
  <2>5. bed' \in [Students -> Beds \cup {NoBed}]
    BY <2>1, <2>2, <2>3, <2>4 DEF Result
  <2>6. row' \in [Students -> DormCalls \cup {NoBed}]
    BY <2>1 DEF DormInv, DormShapes
  <2>7. RoomsFit(bed) /\ RoomsFit(Validated(c)) /\ Apart(Validated(c), dorm[c].blocks)
    BY <1>6 DEF DormInv, RoomsAreRight, Valid
  <2>8. RoomsFit(Result(c))
    <3>1. ASSUME NEW s \in Students, Result(c)[s] # NoBed
          PROVE  /\ Result(c)[s].room \in Suits[s]
                 /\ Result(c)[s].position \in 1 .. Capacity[Result(c)[s].room]
      BY <2>4, <2>7, <3>1 DEF RoomsFit
    <3>2. ASSUME NEW s \in Students, NEW t \in Students, Share(Result(c), s, t)
          PROVE  Result(c)[s].position # Result(c)[t].position /\ ClassOf[s] # ClassOf[t]
      BY <1>6, <2>7, <3>2, WhoShares DEF RoomsFit
    <3> QED BY <3>1, <3>2 DEF RoomsFit
  <2>9. Apart(Result(c), blocks \ forgiven)
    <3> SUFFICES ASSUME NEW s \in Students, NEW t \in Students, Share(Result(c), s, t),
                        {s, t} \in blocks \ forgiven
                 PROVE  FALSE
      BY DEF Apart
    <3>1. ~ Share(bed, s, t)
      BY DEF DormInv, BlockedStudentsAreApart, Apart
    <3>2. Share(Validated(c), s, t) /\ {s, t} \cap DOMAIN dorm[c].plan # {}
      BY <1>6, <3>1, WhoShares
    <3>3. {s, t} \in dorm[c].blocks
      BY <3>2 DEF DormInv, LateBlocksAreForgiven, Write
    <3> QED BY <2>7, <3>2, <3>3 DEF Apart
  <2> QED
    BY <1>1, <1>3, <1>4, <2>1, <2>5, <2>6, <2>8, <2>9
    DEF DormInv, DormShapes, RoomsAreRight, BlockedStudentsAreApart
<1> QED BY <1>5, <1>6

\* An assignment that ends takes nobody's place.
LEMMA CancelPreserves ==
    ASSUME DormInv, NEW c \in DormCalls, CancelAssignment(c)
    PROVE  DormInv'
<1> DEFINE r == [dorm[c] EXCEPT !.step = "done"]
<1>1. dorm \in [DormCalls -> CallRecords] /\ dorm[c] \in CallRecords
  BY DEF DormInv, DormShapes
<1>2. r \in CallRecords /\ r.step = "done" /\ r.plan = dorm[c].plan /\ r.targets = dorm[c].targets
  BY <1>1 DEF CallRecords
<1>3. dorm' = [dorm EXCEPT ![c] = r]
  BY <1>1 DEF CancelAssignment, CallRecords
<1>4. /\ bed' = [s \in Students |-> IF s \in About[c] THEN NoBed ELSE bed[s]]
      /\ row' = [s \in Students |-> IF s \in About[c] THEN NoBed ELSE row[s]]
      /\ UNCHANGED <<blocks, forgiven>>
  BY DEF CancelAssignment
<1> HIDE DEF r
<1>5. \A d \in DormCalls : dorm'[d] = IF d = c THEN r ELSE dorm[d]
  BY <1>1, <1>3
<1>6. DormShapes'
  BY <1>1, <1>2, <1>3, <1>4 DEF DormInv, DormShapes
<1>7. ReplacedArePlaced' /\ LateBlocksAreForgiven'
  BY <1>2, <1>4, <1>5 DEF DormInv, ReplacedArePlaced, LateBlocksAreForgiven, DormCalls
<1>8. RoomsAreRight'
  BY <1>4 DEF DormInv, RoomsAreRight, RoomsFit, Share
<1>9. BlockedStudentsAreApart'
  BY <1>4 DEF DormInv, BlockedStudentsAreApart, Apart, Share
<1> QED BY <1>6, <1>7, <1>8, <1>9 DEF DormInv

LEMMA BlockPreserves ==
    ASSUME DormInv, NEW p \in Enterable, CreateRoommateBlock(p) \/ DeleteRoommateBlock(p)
    PROVE  DormInv'
<1>1. bed' = bed /\ row' = row /\ dorm' = dorm /\ p \in Blocks
  BY DormAssumption DEF CreateRoommateBlock, DeleteRoommateBlock
<1>2. DormShapes' /\ ReplacedArePlaced' /\ RoomsAreRight'
  BY <1>1 DEF DormInv, DormShapes, ReplacedArePlaced, RoomsAreRight, RoomsFit, Share,
              CreateRoommateBlock, DeleteRoommateBlock
<1>3. CASE CreateRoommateBlock(p)
  <2>1. /\ blocks' = blocks \cup {p} /\ forgiven \subseteq forgiven'
        /\ (\E r \in Rooms : p \subseteq Occupants(r)) => p \in forgiven'
        /\ \A c \in DormCalls : dorm[c].step = "locked" /\ p \cap DOMAIN dorm[c].plan # {}
                                => p \in forgiven'
    BY <1>3 DEF CreateRoommateBlock
  <2>2. LateBlocksAreForgiven'
    BY <1>1, <2>1 DEF DormInv, LateBlocksAreForgiven
  <2>3. ASSUME NEW s \in Students, NEW t \in Students, Share(bed, s, t), {s, t} = p
        PROVE  p \in forgiven'
    <3>1. bed[s] \in Beds /\ bed[s].room \in Rooms
      BY <2>3 DEF DormInv, DormShapes, Share, Beds
    <3>2. p \subseteq Occupants(bed[s].room)
      BY <2>3 DEF Share, Occupants
    <3> QED BY <2>1, <3>1, <3>2
  <2>4. BlockedStudentsAreApart'
    BY <1>1, <2>1, <2>3 DEF DormInv, BlockedStudentsAreApart, Apart, Share
  <2> QED BY <1>2, <2>2, <2>4 DEF DormInv
<1>4. CASE DeleteRoommateBlock(p)
  <2>1. blocks' = blocks \ {p} /\ forgiven' = forgiven \ {p}
    BY <1>4 DEF DeleteRoommateBlock
  <2>2. LateBlocksAreForgiven'
    BY <1>1, <2>1 DEF DormInv, LateBlocksAreForgiven
  <2>3. BlockedStudentsAreApart'
    BY <1>1, <2>1 DEF DormInv, BlockedStudentsAreApart, Apart, Share
  <2> QED BY <1>2, <2>2, <2>3 DEF DormInv
<1> QED BY <1>3, <1>4

\* What every order of changes keeps, with what the calls carry between their steps
\* (validateAssignmentChange).
THEOREM DormInvAlways == DormSpec => []DormInv
<1>1. DormInv /\ [DormNext]_dormVars => DormInv'
  <2> SUFFICES ASSUME DormInv, [DormNext]_dormVars PROVE DormInv'
    OBVIOUS
  <2>1. ASSUME NEW c \in DormCalls, RequestBed(c) PROVE DormInv'
    BY <2>1, RequestPreserves
  <2>2. ASSUME NEW c \in DormCalls,
               \/ ReadMoved(c) \/ ReadSwapped(c)
               \/ \E drawn \in SUBSET About[c] : \E p \in [drawn -> Beds] : PreviewDraw(c, p)
        PROVE DormInv'
    BY <2>2, ReadPreserves
  <2>3. ASSUME NEW c \in DormCalls, LockRooms(c) PROVE DormInv'
    BY <2>3, LockPreserves
  <2>4. ASSUME NEW c \in DormCalls, Write(c) PROVE DormInv'
    BY <2>4, WritePreserves
  <2>5. ASSUME NEW c \in DormCalls, CancelAssignment(c) PROVE DormInv'
    BY <2>5, CancelPreserves
  <2>6. ASSUME NEW p \in Enterable, CreateRoommateBlock(p) \/ DeleteRoommateBlock(p) PROVE DormInv'
    BY <2>6, BlockPreserves
  <2>7. CASE UNCHANGED dormVars
    BY <2>7 DEF dormVars, DormInv, DormShapes, ReplacedArePlaced, LateBlocksAreForgiven,
                RoomsAreRight, RoomsFit, Share, BlockedStudentsAreApart, Apart
  <2> QED BY <2>1, <2>2, <2>3, <2>4, <2>5, <2>6, <2>7 DEF DormNext
<1> QED BY <1>1, DormBegins, PTL DEF DormSpec

\* However creations, moves, swaps, draws and cancellations overlap, and whenever
\* blocks are entered, no room becomes wrong and no two students a transaction
\* could know to be blocked share one (dorm.service.ts).
THEOREM BedPlansAreSound == DormSpec => []BedPlanIsSound
<1>1. DormInv => BedPlanIsSound
  BY DEF DormInv, BedPlanIsSound
<1> QED BY <1>1, DormInvAlways, PTL

\* The assignments, the blocks and the plans of the calls are of their kind, and only
\* blocks that stand are forgiven, for any rooms, students and calls (dorm.service.ts).
THEOREM DormTypes == DormSpec => []DormTypeOK
<1>1. ASSUME forgiven \subseteq blocks, [DormNext]_dormVars
      PROVE  (forgiven \subseteq blocks)'
  BY <1>1 DEF DormNext, dormVars, RequestBed, ReadMoved, ReadSwapped, PreviewDraw, LockRooms, Write,
              CancelAssignment, CreateRoommateBlock, DeleteRoommateBlock
<1>2. DormInit => forgiven \subseteq blocks
  BY DEF DormInit
<1>3. ASSUME DormInv, forgiven \subseteq blocks
      PROVE  DormTypeOK
  <2>1. \A c \in DormCalls : dorm[c] \in CallRecords
    BY <1>3 DEF DormInv, DormShapes
  <2> QED BY <1>3, <2>1 DEF DormInv, DormShapes, CallRecords, DormTypeOK
<1> QED BY <1>1, <1>2, <1>3, DormInvAlways, PTL DEF DormSpec

-----------------------------------------------------------------------------
\* Why a schedule acts at most once and is only passed over for a reason. A
\* worker holds the rows it selected in its hand; what was due and is not
\* acted yet is in the hand of a running worker, or was overruled by a later
\* row of its case.

\* The row of a schedule that was not created is of no case.
ScheduleRows == [case : Cases \cup {CHOOSE c \in Cases : TRUE}, time : Nat, opens : BOOLEAN]

DeviceShapes ==
    /\ created \in 0 .. MaxSchedules /\ clock \in Nat
    /\ schedule \in [Schedules -> ScheduleRows]
    /\ \A s \in 1 .. created : schedule[s].case \in Cases
    /\ open \subseteq Cases
    /\ present \subseteq 1 .. created
    /\ batch \in [Workers -> SUBSET (1 .. created)]
    /\ carried \subseteq {w \in Workers : batch[w] # {}}
    /\ acted \in [Schedules -> Nat]
    /\ \A s \in Schedules : acted[s] > 0 => s <= created
    /\ last \in [Cases -> 0 .. created]
    /\ repeated \subseteq Nat /\ inHand \subseteq Nat

InHandOf(w, s) == w \in carried /\ s = Min(batch[w])

\* Two workers have a row in hand only if the second reading was noticed.
HandsAreApart ==
    \A w, v \in Workers : \A s \in batch[w] \cap batch[v] : w # v => s \in repeated

\* A row in hand that was carried out is the one its worker has just carried out.
ActedInHand ==
    \A w \in Workers : \A s \in batch[w] : acted[s] > 0 => s \in repeated \/ InHandOf(w, s)

CarriedIsActed == \A w \in carried : acted[Min(batch[w])] > 0

\* A row in hand is there, or was carried out, or was deleted meanwhile.
HandsAreExplained ==
    \A w \in Workers : \A s \in batch[w] : s \in present \/ acted[s] > 0 \/ s \in inHand

\* s was entered before t and is due before it.
Precedes(s, t) == s < t /\ schedule[s].time < schedule[t].time

\* What precedes a row in hand, or one that was carried out, is in hand with it,
\* was carried out, or is gone.
NoneIsSkipped ==
    \A w \in Workers : \A t \in batch[w], s \in Schedules :
        Precedes(s, t) => s \in batch[w] \/ acted[s] > 0 \/ s \notin present
NoneWasSkipped ==
    \A s, t \in Schedules : acted[t] > 0 /\ Precedes(s, t) => acted[s] > 0 \/ s \notin present

DeviceInv ==
    /\ DeviceShapes /\ HandsAreApart /\ ActedInHand /\ CarriedIsActed /\ HandsAreExplained
    /\ NoneIsSkipped /\ NoneWasSkipped /\ ActsOnce /\ ActedIsGone
    /\ LaterScheduleWins

LEMMA MinIsSmallest ==
    ASSUME NEW S \in SUBSET Nat, S # {}
    PROVE  Min(S) \in S /\ \A y \in S : Min(S) <= y
<1> DEFINE Less == {p \in Nat \X Nat : p[1] < p[2]}
<1>0. IsWellFoundedOn(Less, Nat)
  <2>1. IsWellFoundedOn(OpToRel(<, Nat), Nat)
    BY NatLessThanWellFounded, Zenon
  <2> QED BY <2>1, Zenon DEF OpToRel
<1>1. \E x \in S : \A y \in S : ~(<<y, x>> \in Less)
  <2> HIDE DEF Less
  <2> QED BY <1>0, WFMin
<1>2. PICK x \in S : \A y \in S : ~(<<y, x>> \in Less)
  BY <1>1
<1>3. ASSUME NEW y \in S
      PROVE  x <= y
  <2>1. <<y, x>> \in Nat \X Nat /\ <<y, x>>[1] = y /\ <<y, x>>[2] = x
    OBVIOUS
  <2>2. ~(y < x)
    BY <1>2, <2>1
  <2>3. x \in Nat /\ y \in Nat
    OBVIOUS
  <2> QED BY <2>2, <2>3
<1> QED BY <1>3 DEF Min

\* Of the rows due, an earlier one is among the first if a later one is.
LEMMA FirstRowsAreFirst ==
    ASSUME NEW n \in Nat, NEW S \in SUBSET (1 .. n), NEW t \in FirstRows(S), NEW s \in S, s < t
    PROVE  s \in FirstRows(S)
<1>1. IsFiniteSet(1 .. n)
  BY FS_Interval
<1>2. IsFiniteSet({u \in S : u < t})
  BY <1>1, FS_Subset
<1>3. {u \in S : u < s} \in SUBSET {u \in S : u < t}
  <2>1. s \in Nat /\ t \in Nat /\ \A u \in S : u \in Nat
    BY DEF FirstRows
  <2>2. \A u \in S : u < s => u < t
    BY <2>1
  <2> QED BY <2>2
<1>4. Cardinality({u \in S : u < s}) <= Cardinality({u \in S : u < t})
  BY <1>2, <1>3, FS_Subset
<1>5. Cardinality({u \in S : u < s}) \in Nat /\ Cardinality({u \in S : u < t}) \in Nat
  BY <1>2, <1>3, FS_Subset, FS_CardinalityType
<1>6. Cardinality({u \in S : u < t}) < BatchLimit
  BY DEF FirstRows
<1> QED BY <1>4, <1>5, <1>6, DeviceAssumption DEF FirstRows

\* The numbers of the rows, and the row a worker takes next.
LEMMA Rows ==
    ASSUME DeviceShapes
    PROVE  /\ Schedules \subseteq Nat /\ 1 .. created \subseteq Schedules
           /\ \A w \in Workers : batch[w] \subseteq 1 .. created
           /\ \A w \in Workers : batch[w] # {} =>
                  Min(batch[w]) \in batch[w] /\ \A s \in batch[w] : Min(batch[w]) <= s
<1>1. Schedules \subseteq Nat /\ 1 .. created \subseteq Schedules
  BY DeviceAssumption DEF DeviceShapes, Schedules
<1>2. \A w \in Workers : batch[w] \subseteq 1 .. created /\ batch[w] \in SUBSET Nat
  BY <1>1 DEF DeviceShapes
<1> QED BY <1>1, <1>2, MinIsSmallest

LEMMA CreateScheduleKeeps ==
    ASSUME DeviceInv, NEW c \in Cases, NEW d \in 0 .. MaxTime, NEW opens \in BOOLEAN,
           CreateSchedule(c, d, opens)
    PROVE  DeviceInv'
<1>1. DeviceShapes'
  <2>1. created' = created + 1 /\ created' \in Schedules /\ created' \in 0 .. MaxSchedules
    BY DeviceAssumption DEF CreateSchedule, DeviceInv, DeviceShapes, Schedules
  <2>2. [case |-> c, time |-> d, opens |-> opens] \in ScheduleRows
    BY DeviceAssumption DEF ScheduleRows
  <2>3. schedule' \in [Schedules -> ScheduleRows] /\ schedule'[created'].case = c
    BY <2>1, <2>2 DEF CreateSchedule, DeviceInv, DeviceShapes
  <2>4. \A s \in Schedules : s # created' => schedule'[s] = schedule[s]
    BY DEF CreateSchedule, DeviceInv, DeviceShapes
  <2>5. 1 .. created' = (1 .. created) \cup {created'} /\ 1 .. created \subseteq Schedules
    BY <2>1, Rows DEF DeviceInv, DeviceShapes
  <2>6. \A s \in 1 .. created' : schedule'[s].case \in Cases
    BY <2>1, <2>3, <2>4, <2>5 DEF DeviceInv, DeviceShapes
  <2>7. 0 .. created \subseteq 0 .. created'
    BY <2>1 DEF DeviceInv, DeviceShapes
  <2>8. batch' \in [Workers -> SUBSET (1 .. created')]
    BY <2>5 DEF CreateSchedule, DeviceInv, DeviceShapes
  <2>9. last' \in [Cases -> 0 .. created']
    BY <2>7 DEF CreateSchedule, DeviceInv, DeviceShapes
  <2>10. /\ clock' \in Nat /\ open' \subseteq Cases /\ acted' \in [Schedules -> Nat]
         /\ repeated' \subseteq Nat /\ inHand' \subseteq Nat
         /\ carried' \subseteq {w \in Workers : batch'[w] # {}}
    BY DEF CreateSchedule, DeviceInv, DeviceShapes
  <2>11. present' \subseteq 1 .. created'
    BY <2>5 DEF CreateSchedule, DeviceInv, DeviceShapes
  <2>12. \A s \in Schedules : acted'[s] > 0 => s <= created'
    BY <2>1, DeviceAssumption DEF CreateSchedule, DeviceInv, DeviceShapes, Schedules
  <2> QED
    BY <2>1, <2>3, <2>6, <2>8, <2>9, <2>10, <2>11, <2>12 DEF DeviceShapes
<1>2. HandsAreApart'
  BY DEF CreateSchedule, DeviceInv, HandsAreApart
<1>3. ActedInHand'
  BY DEF CreateSchedule, DeviceInv, ActedInHand, InHandOf
<1>4. CarriedIsActed'
  BY DEF CreateSchedule, DeviceInv, CarriedIsActed
<1>5. HandsAreExplained'
  BY DEF CreateSchedule, DeviceInv, HandsAreExplained
<1>6. NoneIsSkipped'
  BY DEF CreateSchedule, DeviceInv, DeviceShapes, NoneIsSkipped, Precedes
<1>7. NoneWasSkipped'
  BY Rows DEF CreateSchedule, DeviceInv, DeviceShapes, NoneWasSkipped, Precedes
<1>8. ActsOnce'
  BY DEF CreateSchedule, DeviceInv, ActsOnce
<1>9. ActedIsGone'
  BY DeviceAssumption DEF CreateSchedule, DeviceInv, DeviceShapes, ActedIsGone, Schedules
<1>10. LaterScheduleWins'
  BY DEF CreateSchedule, DeviceInv, DeviceShapes, LaterScheduleWins
<1> QED BY <1>1, <1>2, <1>3, <1>4, <1>5, <1>6, <1>7, <1>8, <1>9, <1>10 DEF DeviceInv

LEMMA DeleteScheduleKeeps ==
    ASSUME DeviceInv, NEW x \in Schedules, DeleteSchedule(x)
    PROVE  DeviceInv'
<1>1. DeviceShapes'
  BY DEF DeleteSchedule, DeviceInv, DeviceShapes
<1>2. HandsAreApart'
  BY DEF DeleteSchedule, DeviceInv, HandsAreApart
<1>3. ActedInHand'
  BY DEF DeleteSchedule, DeviceInv, ActedInHand, InHandOf
<1>4. CarriedIsActed'
  BY DEF DeleteSchedule, DeviceInv, CarriedIsActed
<1>5. HandsAreExplained'
  BY DEF DeleteSchedule, DeviceInv, HandsAreExplained
<1>6. NoneIsSkipped'
  BY DEF DeleteSchedule, DeviceInv, NoneIsSkipped, Precedes
<1>7. NoneWasSkipped'
  BY DEF DeleteSchedule, DeviceInv, NoneWasSkipped, Precedes
<1>8. ActsOnce'
  BY DEF DeleteSchedule, DeviceInv, ActsOnce
<1>9. ActedIsGone'
  BY DEF DeleteSchedule, DeviceInv, ActedIsGone
<1>10. LaterScheduleWins'
  BY DEF DeleteSchedule, DeviceInv, LaterScheduleWins
<1> QED BY <1>1, <1>2, <1>3, <1>4, <1>5, <1>6, <1>7, <1>8, <1>9, <1>10 DEF DeviceInv

LEMMA CommandKeeps ==
    ASSUME DeviceInv, NEW cs \in SUBSET Cases, NEW opens \in BOOLEAN, Command(cs, opens)
    PROVE  DeviceInv'
<1>1. DeviceShapes'
  <2>1. open' \subseteq Cases
    BY DEF Command, Set, DeviceInv, DeviceShapes
  <2>2. last' \in [Cases -> 0 .. created]
    BY DEF Command, Manual, DeviceInv, DeviceShapes
  <2> QED BY <2>1, <2>2 DEF Command, DeviceInv, DeviceShapes
<1>2. HandsAreApart'
  BY DEF Command, DeviceInv, HandsAreApart
<1>3. ActedInHand'
  BY DEF Command, DeviceInv, ActedInHand, InHandOf
<1>4. CarriedIsActed'
  BY DEF Command, DeviceInv, CarriedIsActed
<1>5. HandsAreExplained'
  BY DEF Command, DeviceInv, HandsAreExplained
<1>6. NoneIsSkipped'
  BY DEF Command, DeviceInv, NoneIsSkipped, Precedes
<1>7. NoneWasSkipped'
  BY DEF Command, DeviceInv, NoneWasSkipped, Precedes
<1>8. ActsOnce'
  BY DEF Command, DeviceInv, ActsOnce
<1>9. ActedIsGone'
  BY DEF Command, DeviceInv, ActedIsGone
<1>10. LaterScheduleWins'
  BY DEF Command, DeviceInv, LaterScheduleWins, Schedules, Manual
<1> QED BY <1>1, <1>2, <1>3, <1>4, <1>5, <1>6, <1>7, <1>8, <1>9, <1>10 DEF DeviceInv

LEMMA ReadDueKeeps ==
    ASSUME DeviceInv, NEW x \in Workers, ReadDue(x)
    PROVE  DeviceInv'
<1>a. /\ FirstRows(Due) \subseteq present /\ present \subseteq 1 .. created
      /\ batch' = [batch EXCEPT ![x] = FirstRows(Due)] /\ batch[x] = {} /\ x \notin carried
      /\ \A v \in Workers : batch'[v] = IF v = x THEN FirstRows(Due) ELSE batch[v]
      /\ \A v \in Workers : \A s \in batch[v] : s \in FirstRows(Due) => s \in repeated'
      /\ repeated \subseteq repeated'
      /\ UNCHANGED <<open, schedule, present, created, clock, carried, acted, last, inHand>>
  BY DEF ReadDue, FirstRows, Due, DeviceInv, DeviceShapes
<1>1. DeviceShapes'
  <2>1. batch' \in [Workers -> SUBSET (1 .. created)]
    BY <1>a DEF DeviceInv, DeviceShapes
  <2>2. repeated' \subseteq Nat
    BY <1>a, Rows DEF ReadDue, DeviceInv, DeviceShapes
  <2> QED BY <1>a, <2>1, <2>2 DEF DeviceInv, DeviceShapes
<1>2. HandsAreApart'
  BY DEF ReadDue, DeviceInv, HandsAreApart
<1>3. ActedInHand'
  <2>1. ASSUME NEW s \in FirstRows(Due), acted[s] > 0
        PROVE  s \in repeated'
    <3>1. s \in repeated \/ \E v \in carried : s = Min(batch[v])
      BY <1>a, <2>1 DEF DeviceInv, ActedIsGone
    <3>2. ASSUME NEW v \in carried, s = Min(batch[v])
          PROVE  s \in batch[v] /\ v \in Workers
      BY <3>2, Rows DEF DeviceInv, DeviceShapes
    <3> QED BY <1>a, <3>1, <3>2
  <2> QED BY <1>a, <2>1 DEF DeviceInv, ActedInHand, InHandOf
<1>4. CarriedIsActed'
  BY DEF ReadDue, DeviceInv, DeviceShapes, CarriedIsActed
<1>5. HandsAreExplained'
  BY <1>a DEF DeviceInv, HandsAreExplained
<1>6. NoneIsSkipped'
  <2>1. ASSUME NEW t \in FirstRows(Due), NEW s \in present, Precedes(s, t)
        PROVE  s \in FirstRows(Due)
    <3>1. Due \in SUBSET (1 .. created) /\ created \in Nat /\ t \in Due
      <4>1. Due \subseteq present /\ created \in Nat
        BY DEF Due, DeviceInv, DeviceShapes
      <4>2. t \in Due
        BY DEF FirstRows
      <4> QED BY <1>a, <4>1, <4>2
    <3>2. schedule[t].time <= clock /\ schedule[s].time < schedule[t].time /\ s < t
      BY <2>1, <3>1 DEF Due, Precedes
    <3>3. s \in Schedules /\ t \in Schedules
      BY <1>a, Rows DEF DeviceInv, FirstRows, Due
    <3>4. schedule[s].time \in Nat /\ schedule[t].time \in Nat /\ clock \in Nat
      BY <3>3 DEF DeviceInv, DeviceShapes, ScheduleRows
    <3>5. s \in Due
      BY <3>2, <3>4 DEF Due
    <3> HIDE DEF Due
    <3> QED BY <3>1, <3>2, <3>5, FirstRowsAreFirst
  <2>2. ASSUME NEW v \in Workers, NEW t \in batch'[v], NEW s \in Schedules, Precedes(s, t)
        PROVE  s \in batch'[v] \/ acted[s] > 0 \/ s \notin present
    <3>1. CASE v = x
      BY <1>a, <2>1, <2>2, <3>1
    <3>2. CASE v # x
      BY <1>a, <2>2, <3>2 DEF DeviceInv, NoneIsSkipped
    <3> QED BY <3>1, <3>2
  <2> QED BY <1>a, <2>2 DEF NoneIsSkipped, Precedes
<1>7. NoneWasSkipped'
  BY DEF ReadDue, DeviceInv, NoneWasSkipped, Precedes
<1>8. ActsOnce'
  BY DEF ReadDue, DeviceInv, ActsOnce
<1>9. ActedIsGone'
  BY <1>a DEF DeviceInv, DeviceShapes, ActedIsGone
<1>10. LaterScheduleWins'
  BY DEF ReadDue, DeviceInv, LaterScheduleWins
<1> QED BY <1>1, <1>2, <1>3, <1>4, <1>5, <1>6, <1>7, <1>8, <1>9, <1>10 DEF DeviceInv

LEMMA CarryOutKeeps ==
    ASSUME DeviceInv, NEW x \in Workers, CarryOut(x)
    PROVE  DeviceInv'
<1> DEFINE now == Min(batch[x])
<1>a. /\ now \in batch[x] /\ now \in 1 .. created /\ now \in Schedules /\ x \notin carried
      /\ \A s \in batch[x] : now <= s
      /\ carried' = carried \cup {x} /\ batch[x] # {}
      /\ \A s \in Schedules : acted'[s] = IF s = now THEN acted[s] + 1 ELSE acted[s]
      /\ \A c \in Cases : last'[c] = IF c = schedule[now].case THEN now ELSE last[c]
      /\ UNCHANGED <<schedule, present, created, clock, batch, repeated, inHand>>
  BY Rows DEF CarryOut, DeviceInv, DeviceShapes
<1>b. /\ \A s \in Schedules : acted[s] \in Nat /\ s \in Nat
       /\ \A v \in Workers : batch[v] \subseteq Schedules
       /\ carried \subseteq Workers
  BY Rows DEF DeviceInv, DeviceShapes
<1>c. acted[now] > 0 => now \in repeated
  BY <1>a DEF DeviceInv, ActedInHand, InHandOf
<1>1. DeviceShapes'
  <2>1. acted' \in [Schedules -> Nat] /\ last' \in [Cases -> 0 .. created]
    <3>1. now \in 0 .. created
      BY <1>a DEF DeviceInv, DeviceShapes
    <3>2. /\ acted' = [acted EXCEPT ![now] = @ + 1]
          /\ last' = [last EXCEPT ![schedule[now].case] = now]
      BY DEF CarryOut
    <3> HIDE DEF now
    <3>3. now \in Schedules
      BY <1>a
    <3>4. acted \in [Schedules -> Nat] /\ last \in [Cases -> 0 .. created]
      BY DEF DeviceInv, DeviceShapes
    <3>5. acted[now] + 1 \in Nat
      BY <3>3, <3>4
    <3> QED BY <3>1, <3>2, <3>4, <3>5
  <2>2. open' \subseteq Cases
    BY <1>a DEF CarryOut, Set, DeviceInv, DeviceShapes
  <2> QED BY <1>a, <2>1, <2>2 DEF DeviceInv, DeviceShapes
<1>2. HandsAreApart'
  BY DEF CarryOut, DeviceInv, HandsAreApart
<1>3. ActedInHand'
  <2>1. ASSUME NEW v \in Workers, NEW s \in batch[v], acted'[s] > 0
        PROVE  s \in repeated \/ (v \in carried' /\ s = Min(batch[v]))
    <3>1. CASE s = now /\ v # x
      BY <1>a, <3>1 DEF DeviceInv, HandsAreApart
    <3>2. CASE s = now /\ v = x
      BY <1>a, <3>2
    <3>3. CASE s # now
      BY <1>a, <1>b, <2>1, <3>3 DEF DeviceInv, ActedInHand, InHandOf
    <3> QED BY <3>1, <3>2, <3>3
  <2> QED BY <1>a, <2>1 DEF ActedInHand, InHandOf
<1>4. CarriedIsActed'
  <2>1. \A v \in carried : Min(batch[v]) \in Schedules
    BY <1>b, Rows DEF DeviceInv, DeviceShapes
  <2> QED BY <1>a, <1>b, <2>1 DEF DeviceInv, CarriedIsActed
<1>5. HandsAreExplained'
  BY <1>a, <1>b DEF DeviceInv, HandsAreExplained
<1>6. NoneIsSkipped'
  BY <1>a, <1>b DEF DeviceInv, NoneIsSkipped, Precedes
<1>7. NoneWasSkipped'
  <2>1. ASSUME NEW s \in Schedules, Precedes(s, now)
        PROVE  acted[s] > 0 \/ s \notin present
    <3>1. s \notin batch[x]
      BY <1>a, <1>b, <2>1 DEF Precedes
    <3> QED BY <1>a, <2>1, <3>1 DEF DeviceInv, NoneIsSkipped
  <2> QED BY <1>a, <1>b, <2>1 DEF DeviceInv, NoneWasSkipped, Precedes
<1>8. ActsOnce'
  BY <1>a, <1>b, <1>c DEF DeviceInv, ActsOnce
<1>9. ActedIsGone'
  BY DEF CarryOut, DeviceInv, ActedIsGone
<1>10. LaterScheduleWins'
  <2>1. ASSUME NEW t \in Schedules, acted[t] > 0, t # now, schedule[now].time < schedule[t].time
        PROVE  now > t \/ now \in repeated \cup inHand
    <3>1. CASE now > t
      BY <3>1
    <3>2. CASE ~(now > t)
      <4>1. Precedes(now, t)
        BY <1>a, <1>b, <2>1, <3>2 DEF Precedes
      <4>2. acted[now] > 0 \/ now \notin present
        BY <1>a, <2>1, <4>1 DEF DeviceInv, NoneWasSkipped
      <4> QED BY <1>a, <1>c, <4>2 DEF DeviceInv, HandsAreExplained
    <3> QED BY <3>1, <3>2
  <2>2. \A t \in Schedules : schedule[t].time \in Nat
    BY DEF DeviceInv, DeviceShapes, ScheduleRows
  <2> QED BY <1>a, <1>b, <2>1, <2>2 DEF DeviceInv, LaterScheduleWins
<1> QED BY <1>1, <1>2, <1>3, <1>4, <1>5, <1>6, <1>7, <1>8, <1>9, <1>10 DEF DeviceInv

LEMMA DeleteCarriedOutKeeps ==
    ASSUME DeviceInv, NEW x \in Workers, DeleteCarriedOut(x)
    PROVE  DeviceInv'
<1>1. DeviceShapes'
  BY DEF DeleteCarriedOut, DeviceInv, DeviceShapes
<1>2. HandsAreApart'
  BY DEF DeleteCarriedOut, DeviceInv, HandsAreApart
<1>3. ActedInHand'
  BY Rows DEF DeleteCarriedOut, DeviceInv, DeviceShapes, ActedInHand, InHandOf
<1>4. CarriedIsActed'
  BY DEF DeleteCarriedOut, DeviceInv, CarriedIsActed
<1>5. HandsAreExplained'
  <2>1. x \in Workers /\ acted[Min(batch[x])] > 0
    BY DEF DeleteCarriedOut, DeviceInv, CarriedIsActed
  <2>2. \A v \in Workers : batch'[v] \subseteq batch[v]
    BY DEF DeleteCarriedOut, DeviceInv, DeviceShapes
  <2> QED BY <2>1, <2>2 DEF DeleteCarriedOut, DeviceInv, HandsAreExplained
<1>6. NoneIsSkipped'
  BY DEF DeleteCarriedOut, DeviceInv, NoneIsSkipped, Precedes
<1>7. NoneWasSkipped'
  BY DEF DeleteCarriedOut, DeviceInv, NoneWasSkipped, Precedes
<1>8. ActsOnce'
  BY DEF DeleteCarriedOut, DeviceInv, ActsOnce
<1>9. ActedIsGone'
  BY DEF DeleteCarriedOut, DeviceInv, ActedIsGone
<1>10. LaterScheduleWins'
  BY DEF DeleteCarriedOut, DeviceInv, LaterScheduleWins
<1> QED BY <1>1, <1>2, <1>3, <1>4, <1>5, <1>6, <1>7, <1>8, <1>9, <1>10 DEF DeviceInv

LEMMA InterruptKeeps ==
    ASSUME DeviceInv, NEW x \in Workers, Interrupt(x)
    PROVE  DeviceInv'
<1>1. DeviceShapes'
  BY Rows DEF Interrupt, DeviceInv, DeviceShapes
<1>2. HandsAreApart'
  BY DEF Interrupt, DeviceInv, HandsAreApart
<1>3. ActedInHand'
  BY Rows DEF Interrupt, DeviceInv, DeviceShapes, ActedInHand, InHandOf
<1>4. CarriedIsActed'
  BY DEF Interrupt, DeviceInv, CarriedIsActed
<1>5. HandsAreExplained'
  BY DEF Interrupt, DeviceInv, HandsAreExplained
<1>6. NoneIsSkipped'
  BY DEF Interrupt, DeviceInv, NoneIsSkipped, Precedes
<1>7. NoneWasSkipped'
  BY DEF Interrupt, DeviceInv, NoneWasSkipped, Precedes
<1>8. ActsOnce'
  BY DEF Interrupt, DeviceInv, ActsOnce
<1>9. ActedIsGone'
  BY Rows DEF Interrupt, DeviceInv, DeviceShapes, ActedIsGone
<1>10. LaterScheduleWins'
  BY DEF Interrupt, DeviceInv, LaterScheduleWins
<1> QED BY <1>1, <1>2, <1>3, <1>4, <1>5, <1>6, <1>7, <1>8, <1>9, <1>10 DEF DeviceInv

LEMMA TickKeeps ==
    ASSUME DeviceInv, Tick
    PROVE  DeviceInv'
<1>1. DeviceShapes'
  <2>1. clock' \in Nat
    BY DEF Tick, DeviceInv, DeviceShapes
  <2> QED BY <2>1 DEF Tick, DeviceInv, DeviceShapes
<1>2. HandsAreApart'
  BY DEF Tick, DeviceInv, HandsAreApart
<1>3. ActedInHand'
  BY DEF Tick, DeviceInv, ActedInHand, InHandOf
<1>4. CarriedIsActed'
  BY DEF Tick, DeviceInv, CarriedIsActed
<1>5. HandsAreExplained'
  BY DEF Tick, DeviceInv, HandsAreExplained
<1>6. NoneIsSkipped'
  BY DEF Tick, DeviceInv, NoneIsSkipped, Precedes
<1>7. NoneWasSkipped'
  BY DEF Tick, DeviceInv, NoneWasSkipped, Precedes
<1>8. ActsOnce'
  BY DEF Tick, DeviceInv, ActsOnce
<1>9. ActedIsGone'
  BY DEF Tick, DeviceInv, ActedIsGone
<1>10. LaterScheduleWins'
  BY DEF Tick, DeviceInv, LaterScheduleWins
<1> QED BY <1>1, <1>2, <1>3, <1>4, <1>5, <1>6, <1>7, <1>8, <1>9, <1>10 DEF DeviceInv

LEMMA DeviceInvHolds ==
    DeviceSpec => []DeviceInv
<1>1. DeviceInit => DeviceInv
  <2> SUFFICES ASSUME DeviceInit
               PROVE  DeviceInv
    OBVIOUS
  <2>1. DeviceShapes
    BY DeviceAssumption DEF DeviceInit, DeviceShapes, ScheduleRows, Manual
  <2>2. \A w \in Workers : batch[w] = {}
    BY DEF DeviceInit
  <2> QED
    BY <2>1
       DEF DeviceInit, DeviceInv, HandsAreApart, ActedInHand, CarriedIsActed, HandsAreExplained,
           NoneIsSkipped, NoneWasSkipped, ActsOnce, ActedIsGone, LaterScheduleWins
<1>2. DeviceInv /\ [DeviceNext]_deviceVars => DeviceInv'
  <2>1. ASSUME DeviceInv, DeviceNext
        PROVE  DeviceInv'
    BY <2>1, CreateScheduleKeeps, DeleteScheduleKeeps, CommandKeeps, ReadDueKeeps, CarryOutKeeps,
       DeleteCarriedOutKeeps, InterruptKeeps, TickKeeps DEF DeviceNext
  <2>2. ASSUME DeviceInv, UNCHANGED deviceVars
        PROVE  DeviceInv'
    BY <2>2 DEF deviceVars, DeviceInv, DeviceShapes, HandsAreApart, ActedInHand, InHandOf,
                CarriedIsActed, HandsAreExplained, NoneIsSkipped, NoneWasSkipped, Precedes,
                ActsOnce, ActedIsGone, LaterScheduleWins
  <2> QED BY <2>1, <2>2
<1> QED BY <1>1, <1>2, PTL DEF DeviceSpec

\* A schedule acts once and is gone, and the later of two stands, whoever interferes and
\* for any number of cases, workers and schedules (runDueSchedules).
THEOREM OneShotSchedules ==
    DeviceSpec => []SchedulesAreOneShot
<1>1. DeviceInv => SchedulesAreOneShot
  BY DEF DeviceInv, SchedulesAreOneShot
<1> QED BY <1>1, DeviceInvHolds, PTL

\* The schedules, and the rows the workers have in hand, are of their kind, for any
\* number of cases, workers and schedules (runDueSchedules).
THEOREM DeviceTypes == DeviceSpec => []DeviceTypeOK
<1>1. ASSUME DeviceInv
      PROVE  DeviceTypeOK
  <2>1. \A c \in Cases : last[c] \in Schedules \cup {Manual}
    BY <1>1, DeviceAssumption DEF DeviceInv, DeviceShapes, Schedules, Manual
  <2> QED BY <1>1, <2>1 DEF DeviceInv, DeviceShapes, DeviceTypeOK
<1> QED BY <1>1, DeviceInvHolds, PTL

-----------------------------------------------------------------------------
\* Why a request never shows a decision nobody made. Its notices are in the
\* order of its reviews, so the newest one of a member tells what the last
\* review decided.

Notices == [kind : Reviewed, nth : Nat, expires : Nat]
Statuses == Reviewed \cup {"absent", "submitted", "canceled", "gone"}
Requests == [status : Statuses, representative : Pupils, version : Nat,
             issued : BOOLEAN, reason : BOOLEAN]

ActivityShapes ==
    /\ request \in Requests /\ members \subseteq Pupils
    /\ notices \in [Pupils -> SUBSET Notices]
    /\ today \in Nat /\ reviews \in Nat

\* The notices of a user were told in turn, none for longer than a week from now.
NoticesAreInTurn ==
    \A u \in Pupils : \A n \in notices[u] :
        /\ n.nth <= reviews /\ n.expires <= today + Week
        /\ \A m \in notices[u] : m.nth > n.nth => m.expires >= n.expires

NothingWasTold == request.status = "absent" => request = NoRequest /\ \A u \in Pupils : notices[u] = {}

\* A notice of another outcome than the one that stands is followed by a notice of
\* this one, or has expired; unless this one could not be told.
OthersAreOverruled ==
    request.status \in Reviewed =>
        \/ <<request.representative, request.status>> \in twice
        \/ \A n \in notices[request.representative] :
               \/ n.kind = request.status \/ n.expires <= today
               \/ \E m \in notices[request.representative] :
                      m.kind = request.status /\ m.nth > n.nth

ActivityInv ==
    /\ ActivityShapes /\ NoticesAreInTurn /\ NothingWasTold /\ OthersAreOverruled
    /\ DecisionFitsStatus /\ IssuedDocumentStands /\ RepresentativeTakesPart

\* After an outcome was told, or could not be, it overrules the others.
LEMMA TellMoves ==
    ASSUME ActivityShapes, NoticesAreInTurn, NEW u \in Pupils, NEW outcome \in Reviewed,
           Tell(u, outcome), today' = today, reviews' \in Nat,
           reviews' > reviews \/ (reviews' = reviews /\ notices[u] = {})
    PROVE  /\ notices' \in [Pupils -> SUBSET Notices] /\ NoticesAreInTurn'
           /\ \/ <<u, outcome>> \in twice'
              \/ \A n \in notices'[u] :
                     n.kind = outcome \/ \E m \in notices'[u] : m.kind = outcome /\ m.nth > n.nth
<1> DEFINE told == [kind |-> outcome, nth |-> reviews', expires |-> today + Week]
<1>0. /\ \A v \in Pupils : \A n \in notices[v] :
             n.nth \in Nat /\ n.expires \in Nat /\ n.nth <= reviews /\ n.expires <= today + Week
      /\ reviews \in Nat /\ reviews <= reviews' /\ today \in Nat /\ today + Week \in Nat
      /\ \A n \in notices[u] : n.nth < reviews'
  BY ActivityAssumption DEF ActivityShapes, Notices, NoticesAreInTurn
<1>1. CASE \E n \in notices[u] : n.kind = outcome
  <2>1. notices' = notices /\ <<u, outcome>> \in twice'
    BY <1>1 DEF Tell
  <2>2. NoticesAreInTurn'
    BY <1>0, <2>1 DEF NoticesAreInTurn
  <2> QED BY <2>1, <2>2 DEF ActivityShapes
<1>2. CASE ~\E n \in notices[u] : n.kind = outcome
  <2>1. notices' = [notices EXCEPT ![u] = notices[u] \cup {told}]
    BY <1>2 DEF Tell
  <2>2. told \in Notices /\ told.nth = reviews' /\ told.expires = today + Week /\ told.kind = outcome
    BY <1>0 DEF Notices
  <2> HIDE DEF told
  <2>3. notices' \in [Pupils -> SUBSET Notices]
    BY <2>1, <2>2 DEF ActivityShapes
  <2>4. /\ \A v \in Pupils : \A n \in notices'[v] : n \in notices[v] \/ (v = u /\ n = told)
        /\ notices'[u] = notices[u] \cup {told}
    BY <2>1 DEF ActivityShapes
  <2>5. NoticesAreInTurn'
    <3> SUFFICES ASSUME NEW v \in Pupils, NEW n \in notices'[v]
                 PROVE  /\ n.nth <= reviews' /\ n.expires <= today + Week
                        /\ \A m \in notices'[v] : m.nth > n.nth => m.expires >= n.expires
      BY DEF NoticesAreInTurn
    <3>1. n.nth <= reviews' /\ n.expires <= today + Week /\ n.nth \in Nat /\ n.expires \in Nat
      BY <1>0, <2>2, <2>4
    <3>2. ASSUME NEW m \in notices'[v], m.nth > n.nth
          PROVE  m.expires >= n.expires
      <4>1. CASE v = u /\ m = told
        BY <2>2, <3>1, <4>1, <1>0
      <4>2. CASE m \in notices[v] /\ n \in notices[v]
        BY <3>2, <4>2 DEF NoticesAreInTurn
      <4>3. CASE m \in notices[v] /\ v = u /\ n = told
        BY <1>0, <2>2, <3>2, <4>3
      <4> QED BY <2>4, <4>1, <4>2, <4>3
    <3> QED BY <3>1, <3>2
  <2>6. \A n \in notices'[u] :
            n.kind = outcome \/ \E m \in notices'[u] : m.kind = outcome /\ m.nth > n.nth
    BY <1>0, <2>2, <2>4
  <2> QED BY <2>3, <2>5, <2>6
<1> QED BY <1>1, <1>2

LEMMA ToldAndInTurn ==
    ASSUME ActivityInv, NEW u \in Pupils, NEW outcome \in Reviewed, Tell(u, outcome),
           request' \in Requests, members' \subseteq Pupils,
           request'.representative = u, request'.status = outcome,
           today' = today, reviews' \in Nat,
           reviews' > reviews \/ (reviews' = reviews /\ notices[u] = {})
    PROVE  ActivityShapes' /\ NoticesAreInTurn' /\ NothingWasTold' /\ OthersAreOverruled'
<1>1. ActivityShapes /\ NoticesAreInTurn
  BY DEF ActivityInv
<1>2. /\ notices' \in [Pupils -> SUBSET Notices] /\ NoticesAreInTurn'
      /\ \/ <<u, outcome>> \in twice'
         \/ \A n \in notices'[u] :
                n.kind = outcome \/ \E m \in notices'[u] : m.kind = outcome /\ m.nth > n.nth
  BY <1>1, TellMoves
<1>3. ActivityShapes'
  BY <1>1, <1>2 DEF ActivityShapes
<1>4. NothingWasTold'
  BY DEF NothingWasTold, Reviewed
<1>5. OthersAreOverruled'
  BY <1>2 DEF OthersAreOverruled
<1> QED BY <1>2, <1>3, <1>4, <1>5

LEMMA CreateRequestKeeps ==
    ASSUME ActivityInv, NEW rep \in Pupils, CreateRequest(rep)
    PROVE  ActivityInv'
<1>a. /\ request \in Requests /\ request' \in Requests
      /\ request'.status = "submitted" /\ request'.representative = rep
  BY ActivityAssumption DEF CreateRequest, Requests, Statuses, NoRequest
<1>1. ActivityShapes'
  BY ActivityAssumption, <1>a DEF CreateRequest, ActivityInv, ActivityShapes
<1>2. NoticesAreInTurn'
  BY DEF CreateRequest, ActivityInv, NoticesAreInTurn
<1>3. NothingWasTold'
  BY <1>a DEF NothingWasTold
<1>4. OthersAreOverruled'
  BY <1>a DEF OthersAreOverruled, Reviewed
<1>5. DecisionFitsStatus'
  BY DEF CreateRequest, DecisionFitsStatus, NoRequest
<1>6. IssuedDocumentStands'
  BY <1>a DEF IssuedDocumentStands
<1>7. RepresentativeTakesPart'
  BY DEF CreateRequest, RepresentativeTakesPart
<1> QED BY <1>1, <1>2, <1>3, <1>4, <1>5, <1>6, <1>7 DEF ActivityInv

LEMMA AdminCreateRequestKeeps ==
    ASSUME ActivityInv, NEW rep \in Pupils, AdminCreateRequest(rep)
    PROVE  ActivityInv'
<1>a. /\ request \in Requests /\ request' \in Requests
      /\ request'.status = "approved" /\ request'.representative = rep
  BY ActivityAssumption DEF AdminCreateRequest, Requests, Statuses, Reviewed, NoRequest
<1>b. /\ Tell(rep, "approved") /\ today' = today /\ reviews' \in Nat /\ members' \subseteq Pupils
      /\ reviews' > reviews \/ (reviews' = reviews /\ notices[rep] = {})
  BY DEF AdminCreateRequest, ActivityInv, ActivityShapes, NothingWasTold, NoRequest
<1>c. rep \in Pupils /\ "approved" \in Reviewed
  BY <1>a DEF Requests, Reviewed
<1>1. ActivityShapes' /\ NoticesAreInTurn' /\ NothingWasTold' /\ OthersAreOverruled'
  BY <1>a, <1>b, <1>c, ToldAndInTurn
<1>5. DecisionFitsStatus'
  BY DEF AdminCreateRequest, DecisionFitsStatus, NoRequest
<1>6. IssuedDocumentStands'
  BY DEF AdminCreateRequest, IssuedDocumentStands, NoRequest
<1>7. RepresentativeTakesPart'
  BY DEF AdminCreateRequest, RepresentativeTakesPart
<1> QED BY <1>1, <1>5, <1>6, <1>7 DEF ActivityInv

LEMMA UpdateRequestKeeps ==
    ASSUME ActivityInv, NEW rep \in Pupils, UpdateRequest(rep)
    PROVE  ActivityInv'
<1>a. /\ request \in Requests /\ request' \in Requests
      /\ request'.status = "submitted" /\ request'.representative = rep
      /\ request'.issued = request.issued /\ request'.reason = request.reason
  <2>1. request \in Requests /\ request.version + 1 \in Nat
    BY DEF ActivityInv, ActivityShapes, Requests
  <2>2. request' = [request EXCEPT !.representative = rep, !.version = request.version + 1]
    BY DEF UpdateRequest
  <2> QED BY <2>1, <2>2 DEF UpdateRequest, Requests
<1>1. ActivityShapes'
  BY ActivityAssumption, <1>a DEF UpdateRequest, ActivityInv, ActivityShapes
<1>2. NoticesAreInTurn'
  BY DEF UpdateRequest, ActivityInv, NoticesAreInTurn
<1>3. NothingWasTold'
  BY <1>a DEF NothingWasTold
<1>4. OthersAreOverruled'
  BY <1>a DEF OthersAreOverruled, Reviewed
<1>5. DecisionFitsStatus'
  BY DEF UpdateRequest, ActivityInv, DecisionFitsStatus
<1>6. IssuedDocumentStands'
  BY <1>a DEF IssuedDocumentStands
<1>7. RepresentativeTakesPart'
  BY DEF UpdateRequest, RepresentativeTakesPart
<1> QED BY <1>1, <1>2, <1>3, <1>4, <1>5, <1>6, <1>7 DEF ActivityInv

LEMMA CancelRequestKeeps ==
    ASSUME ActivityInv, CancelRequest
    PROVE  ActivityInv'
<1>a. /\ request \in Requests /\ request' \in Requests
      /\ request'.status = "canceled" /\ request'.representative = request.representative
  BY DEF CancelRequest, ActivityInv, ActivityShapes, Requests, Statuses
<1>1. ActivityShapes'
  BY <1>a DEF CancelRequest, ActivityInv, ActivityShapes
<1>2. NoticesAreInTurn'
  BY DEF CancelRequest, ActivityInv, NoticesAreInTurn
<1>3. NothingWasTold'
  BY <1>a DEF NothingWasTold
<1>4. OthersAreOverruled'
  BY <1>a DEF OthersAreOverruled, Reviewed
<1>5. DecisionFitsStatus'
  BY DEF CancelRequest, ActivityInv, DecisionFitsStatus
<1>6. IssuedDocumentStands'
  BY <1>a DEF IssuedDocumentStands
<1>7. RepresentativeTakesPart'
  BY DEF CancelRequest, ActivityInv, RepresentativeTakesPart
<1> QED BY <1>1, <1>2, <1>3, <1>4, <1>5, <1>6, <1>7 DEF ActivityInv

LEMMA DeleteRequestKeeps ==
    ASSUME ActivityInv, DeleteRequest
    PROVE  ActivityInv'
<1>a. /\ request \in Requests /\ request' \in Requests
      /\ request'.status = "gone"
  BY ActivityAssumption
     DEF DeleteRequest, ActivityInv, ActivityShapes, Requests, Statuses, NoRequest
<1>1. ActivityShapes'
  BY <1>a DEF DeleteRequest, ActivityInv, ActivityShapes
<1>2. NoticesAreInTurn'
  BY DEF DeleteRequest, ActivityInv, NoticesAreInTurn
<1>3. NothingWasTold'
  BY <1>a DEF NothingWasTold
<1>4. OthersAreOverruled'
  BY <1>a DEF OthersAreOverruled, Reviewed
<1>5. DecisionFitsStatus'
  BY DEF DeleteRequest, DecisionFitsStatus, NoRequest
<1>6. IssuedDocumentStands'
  BY <1>a DEF IssuedDocumentStands
<1>7. RepresentativeTakesPart'
  BY <1>a DEF RepresentativeTakesPart
<1> QED BY <1>1, <1>2, <1>3, <1>4, <1>5, <1>6, <1>7 DEF ActivityInv

LEMMA ApproveKeeps ==
    ASSUME ActivityInv, Approve
    PROVE  ActivityInv'
<1>a. /\ request \in Requests /\ request' \in Requests
      /\ request'.status = "approved" /\ request'.representative = request.representative
  BY DEF Approve, ActivityInv, ActivityShapes, Requests, Statuses, Reviewed
<1>b. /\ Tell(request.representative, "approved") /\ today' = today /\ reviews' \in Nat /\ members' \subseteq Pupils
      /\ reviews' > reviews \/ (reviews' = reviews /\ notices[request.representative] = {})
  BY DEF Approve, Review, ActivityInv, ActivityShapes
<1>c. request.representative \in Pupils /\ "approved" \in Reviewed
  BY <1>a DEF Requests, Reviewed
<1>1. ActivityShapes' /\ NoticesAreInTurn' /\ NothingWasTold' /\ OthersAreOverruled'
  BY <1>a, <1>b, <1>c, ToldAndInTurn
<1>5. DecisionFitsStatus'
  BY DEF Approve, DecisionFitsStatus
<1>6. IssuedDocumentStands'
  BY DEF Approve, IssuedDocumentStands
<1>7. RepresentativeTakesPart'
  BY DEF Approve, ActivityInv, RepresentativeTakesPart
<1> QED BY <1>1, <1>5, <1>6, <1>7 DEF ActivityInv

LEMMA RejectKeeps ==
    ASSUME ActivityInv, Reject
    PROVE  ActivityInv'
<1>a. /\ request \in Requests /\ request' \in Requests
      /\ request'.status = "rejected" /\ request'.representative = request.representative
  BY DEF Reject, ActivityInv, ActivityShapes, Requests, Statuses, Reviewed
<1>b. /\ Tell(request.representative, "rejected") /\ today' = today /\ reviews' \in Nat /\ members' \subseteq Pupils
      /\ reviews' > reviews \/ (reviews' = reviews /\ notices[request.representative] = {})
  BY DEF Reject, Review, ActivityInv, ActivityShapes
<1>c. request.representative \in Pupils /\ "rejected" \in Reviewed
  BY <1>a DEF Requests, Reviewed
<1>1. ActivityShapes' /\ NoticesAreInTurn' /\ NothingWasTold' /\ OthersAreOverruled'
  BY <1>a, <1>b, <1>c, ToldAndInTurn
<1>5. DecisionFitsStatus'
  BY DEF Reject, ActivityInv, DecisionFitsStatus
<1>6. IssuedDocumentStands'
  BY <1>a DEF IssuedDocumentStands
<1>7. RepresentativeTakesPart'
  BY DEF Reject, ActivityInv, RepresentativeTakesPart
<1> QED BY <1>1, <1>5, <1>6, <1>7 DEF ActivityInv

LEMMA UpdateAdminStatusKeeps ==
    ASSUME ActivityInv, NEW s \in Reviewed \cup {"submitted"},
           UpdateAdminStatus(s)
    PROVE  ActivityInv'
<1>a. /\ request \in Requests /\ request' \in Requests
      /\ request'.status = s /\ request'.representative = request.representative
  BY DEF UpdateAdminStatus, ActivityInv, ActivityShapes, Requests, Statuses
<1>b. request.representative \in Pupils /\ members' \subseteq Pupils
      /\ today' = today /\ reviews' \in Nat /\ reviews' > reviews
  BY DEF UpdateAdminStatus, Review, Requests, ActivityInv, ActivityShapes
<1>1. ActivityShapes' /\ NoticesAreInTurn' /\ NothingWasTold' /\ OthersAreOverruled'
  <2>1. CASE s \in Reviewed
    BY <1>a, <1>b, <2>1, ToldAndInTurn DEF UpdateAdminStatus
  <2>2. CASE s = "submitted"
    <3>1. notices' = notices
      BY <2>2 DEF UpdateAdminStatus, Untold, Reviewed
    <3>2. NoticesAreInTurn'
      BY <1>b, <3>1 DEF ActivityInv, ActivityShapes, Notices, NoticesAreInTurn
    <3> QED
      BY <1>a, <1>b, <2>2, <3>1, <3>2
         DEF ActivityInv, ActivityShapes, NothingWasTold, OthersAreOverruled, Reviewed
  <2> QED BY <2>1, <2>2
<1>5. DecisionFitsStatus'
  BY <1>a DEF UpdateAdminStatus, DecisionFitsStatus, Requests
<1>6. IssuedDocumentStands'
  BY DEF UpdateAdminStatus, IssuedDocumentStands
<1>7. RepresentativeTakesPart'
  BY DEF UpdateAdminStatus, ActivityInv, RepresentativeTakesPart, Reviewed
<1> QED BY <1>1, <1>5, <1>6, <1>7 DEF ActivityInv

LEMMA NextDayKeeps ==
    ASSUME ActivityInv, NextDay
    PROVE  ActivityInv'
<1>1. ActivityShapes'
  BY DEF NextDay, ActivityInv, ActivityShapes
<1>2. NoticesAreInTurn'
  BY ActivityAssumption DEF NextDay, ActivityInv, ActivityShapes, NoticesAreInTurn, Notices
<1>3. NothingWasTold'
  BY DEF NextDay, ActivityInv, NothingWasTold
<1>4. OthersAreOverruled'
  BY DEF NextDay, ActivityInv, ActivityShapes, OthersAreOverruled, Requests, Notices
<1>5. DecisionFitsStatus'
  BY DEF NextDay, ActivityInv, DecisionFitsStatus
<1>6. IssuedDocumentStands'
  BY DEF NextDay, ActivityInv, IssuedDocumentStands
<1>7. RepresentativeTakesPart'
  BY DEF NextDay, ActivityInv, RepresentativeTakesPart
<1> QED BY <1>1, <1>2, <1>3, <1>4, <1>5, <1>6, <1>7 DEF ActivityInv

LEMMA DeleteExpiredKeeps ==
    ASSUME ActivityInv, DeleteExpired
    PROVE  ActivityInv'
<1>1. ActivityShapes'
  BY DEF DeleteExpired, ActivityInv, ActivityShapes
<1>2. NoticesAreInTurn'
  BY DEF DeleteExpired, ActivityInv, NoticesAreInTurn
<1>3. NothingWasTold'
  BY DEF DeleteExpired, ActivityInv, NothingWasTold
<1>4. OthersAreOverruled'
  <2>1. \A u \in Pupils : \A n : n \in notices'[u] <=> n \in notices[u] /\ n.expires > today
    BY DEF DeleteExpired
  <2>2. request.representative \in Pupils
    BY DEF ActivityInv, ActivityShapes, Requests
  <2>3. \A n \in notices[request.representative] :
            /\ n.expires \in Nat
            /\ \A m \in notices[request.representative] : m.nth > n.nth => m.expires >= n.expires
    BY <2>2 DEF ActivityInv, ActivityShapes, Notices, NoticesAreInTurn
  <2>4. \A n \in notices[request.representative] : n.expires <= today => ~(n.expires > today)
    BY <2>3 DEF ActivityInv, ActivityShapes
  <2>5. today \in Nat /\ UNCHANGED <<request, today, twice>>
    BY DEF DeleteExpired, ActivityInv, ActivityShapes
  <2>6. ASSUME NEW n \in notices[request.representative], NEW m \in notices[request.representative],
               m.nth > n.nth, n.expires > today
        PROVE  m.expires > today
    BY <2>3, <2>5, <2>6
  <2> QED BY <2>1, <2>2, <2>4, <2>5, <2>6 DEF ActivityInv, OthersAreOverruled
<1>5. DecisionFitsStatus'
  BY DEF DeleteExpired, ActivityInv, DecisionFitsStatus
<1>6. IssuedDocumentStands'
  BY DEF DeleteExpired, ActivityInv, IssuedDocumentStands
<1>7. RepresentativeTakesPart'
  BY DEF DeleteExpired, ActivityInv, RepresentativeTakesPart
<1> QED BY <1>1, <1>2, <1>3, <1>4, <1>5, <1>6, <1>7 DEF ActivityInv

LEMMA ActivityInvHolds ==
    ActivitySpec => []ActivityInv
<1>1. ActivityInit => ActivityInv
  BY ActivityAssumption
     DEF ActivityInit, NoRequest, ActivityInv, ActivityShapes, Requests, Statuses,
         NoticesAreInTurn, NothingWasTold, OthersAreOverruled, DecisionFitsStatus,
         IssuedDocumentStands, RepresentativeTakesPart
<1>2. ActivityInv /\ [ActivityNext]_activityVars => ActivityInv'
  <2>1. ASSUME ActivityInv, ActivityNext
        PROVE  ActivityInv'
    BY <2>1, CreateRequestKeeps, AdminCreateRequestKeeps, UpdateRequestKeeps, CancelRequestKeeps,
       DeleteRequestKeeps, ApproveKeeps, RejectKeeps, UpdateAdminStatusKeeps, NextDayKeeps,
       DeleteExpiredKeeps DEF ActivityNext
  <2>2. ASSUME ActivityInv, UNCHANGED activityVars
        PROVE  ActivityInv'
    BY <2>2 DEF activityVars, ActivityInv, ActivityShapes, NoticesAreInTurn, NothingWasTold,
                OthersAreOverruled, DecisionFitsStatus, IssuedDocumentStands,
                RepresentativeTakesPart
  <2> QED BY <2>1, <2>2
<1> QED BY <1>1, <1>2, PTL DEF ActivitySpec

\* What a request tells its students is true, for any students and any life of a
\* notice (activity-requests.service.ts, notifications.service.ts).
THEOREM TruthfulRequests ==
    ActivitySpec => []RequestIsTruthful
<1>1. ASSUME ActivityInv
      PROVE  RequestIsTruthful
  <2> DEFINE mine == notices[request.representative]
  <2>1. \A n, m \in mine : m.nth > n.nth /\ n.expires > today => m.expires > today
    <3>1. request.representative \in Pupils
      BY <1>1 DEF ActivityInv, ActivityShapes, Requests
    <3>2. \A n \in mine : n.expires \in Nat /\ \A m \in mine : m.nth > n.nth => m.expires >= n.expires
      BY <1>1, <3>1 DEF ActivityInv, ActivityShapes, Notices, NoticesAreInTurn
    <3>3. today \in Nat
      BY <1>1 DEF ActivityInv, ActivityShapes
    <3> QED BY <3>2, <3>3
  <2>2. \A n \in mine : n.expires > today => ~(n.expires <= today)
    <3>1. \A n \in mine : n.expires \in Nat
      BY <1>1 DEF ActivityInv, ActivityShapes, Requests, Notices
    <3> QED BY <1>1, <3>1 DEF ActivityInv, ActivityShapes
  <2>3. NewestNoticeIsTrue
    BY <1>1, <2>1, <2>2 DEF ActivityInv, OthersAreOverruled, NewestNoticeIsTrue
  <2> QED BY <1>1, <2>3 DEF ActivityInv, RequestIsTruthful
<1> QED BY <1>1, ActivityInvHolds, PTL

\* What a request keeps, and the notices of its students, are of their kind, for any
\* students and any life of a notice.
THEOREM RequestTypes == ActivitySpec => []ActivityTypeOK
<1>1. ActivityInv => ActivityTypeOK
  BY DEF ActivityInv, ActivityShapes, Requests, Statuses, Notices, ActivityTypeOK
<1> QED BY <1>1, ActivityInvHolds, PTL

-----------------------------------------------------------------------------
\* Menus and the calendar. A menu is only as old as the layers it came
\* through let it become, and what a process has answered from the service
\* stays in its memory as long as there is room for all it was asked.

\* A map that forgets: entries with a turn and an end, one of a key and n at most.
Entries(E) ==
    \A e \in E : e.turn \in Nat /\ e.gone \in Nat /\ \A n \in Nat :
        LET f == [e EXCEPT !.turn = n]
        IN  f \in E /\ f.key = e.key /\ f.gone = e.gone /\ f.turn = n

Stamped(s) == \E n \in Nat : \A e \in s : e.turn <= n

Keys(s, E, n) ==
    /\ s \subseteq E /\ IsFiniteSet(s) /\ Stamped(s)
    /\ \A e, f \in s : e.key = f.key => e = f
    /\ Cardinality(s) <= n

\* The ranges process p has answered from the service.
Asked(p) == {Wants[e] : e \in {f \in Readers : AtProcess[f] = p /\ reader[f].how = "fresh"}}
Room(p) == Cardinality(Asked(p)) <= MaxEntries

MenuEntries == [key : Ranges, of : Nat, fresh : Nat, gone : Nat, turn : Nat]
FailureEntries == [key : Ranges, gone : Nat, turn : Nat]
Loads == [key : Ranges, since : Nat, of : Nat]
Menus == [of : Nat, until : Nat]
MealCalls == [at : {"idle", "redis", "waiting", "writing", "answered", "over"}, began : Nat,
              held : Menus, answer : Menus, how : {"none", "fresh", "stale", "unavailable"}, ended : Nat]

MealShapes ==
    /\ hour \in 0 .. MaxClock /\ outages \in 0 .. MaxOutages
    /\ DOMAIN memory = Processes /\ DOMAIN failures = Processes /\ DOMAIN loading = Processes
    /\ \A p \in Processes :
        /\ Keys(memory[p], MenuEntries, MaxEntries)
        /\ Keys(failures[p], FailureEntries, MaxEntries)
        /\ loading[p] \subseteq Loads /\ IsFiniteSet(loading[p]) /\ Bounded(loading[p], MaxLoads)
    /\ shelf \in [Ranges -> Menus]
    /\ reader \in [Readers -> MealCalls]

\* Entries of the memory, of Redis and loads are of about the time they say.
EntriesAreRecent ==
    \A p \in Processes : \A e \in memory[p] :
        /\ e.of <= hour /\ e.fresh <= e.gone /\ e.gone <= hour + StaleFor
        /\ e.fresh <= e.of + 2 * TTL + 1 /\ e.gone <= e.of + TTL + StaleFor + 1

ShelfIsRecent ==
    \A k \in Ranges : shelf[k].until > hour =>
        shelf[k].of <= hour /\ shelf[k].until <= shelf[k].of + TTL + 2

LoadsAreRecent ==
    \A p \in Processes : \A l \in loading[p] :
        /\ l.since <= hour /\ hour <= l.since + 1
        /\ l.of # NoMenu.of => l.since <= l.of /\ l.of <= hour
        /\ \E c \in Waiting(p, l.key) : TRUE

Recent(r) ==
    /\ r.began <= hour
    /\ r.held = NoMenu \/ (r.held.of <= hour /\ r.began <= r.held.of + TTL + StaleFor)
    /\ r.at \notin {"redis", "waiting"} => r.held = NoMenu
    /\ r.at \notin {"writing", "answered"} => r.answer = NoMenu /\ r.how = "none"
    /\ r.at \in {"writing", "answered"} => r.how # "none"
    /\ r.at = "writing" => r.how = "fresh" /\ r.ended <= r.answer.of + 1 /\ hour <= r.ended + 1
    /\ r.how # "none" => r.ended <= hour
    /\ r.how = "fresh" => r.answer.of <= hour /\ r.began <= r.answer.of + 2 * TTL
    /\ r.how = "stale" => r.answer.of <= hour /\ r.began <= r.answer.of + TTL + StaleFor

CallsAreRecent == \A c \in Readers : Recent(reader[c])

\* What is in the memory of a process was asked of it.
MemoryIsAsked == \A p \in Processes : \A e \in memory[p] : e.key \in Asked(p)

\* An answer that promises to be remembered is, unless there is no room.
Keeps(p, k, u) == u > hour /\ Room(p) => \E e \in memory[p] : e.key = k /\ e.gone >= u

PromisesAreKept ==
    \A c \in Readers :
        /\ Keeps(AtProcess[c], Wants[c], reader[c].held.until)
        /\ Keeps(AtProcess[c], Wants[c], reader[c].answer.until)

\* A call that has nothing to fall back on.
Empty(r) == (r.at \in {"redis", "waiting"} /\ r.held = NoMenu) \/ r.how = "unavailable"

MissesAreExcused ==
    \A c, d \in Readers :
        /\ AtProcess[d] = AtProcess[c] /\ Wants[d] = Wants[c]
        /\ Empty(reader[c]) /\ reader[d].how # "none"
        /\ reader[d].ended < reader[c].began /\ reader[c].began < reader[d].answer.until
        => ~Room(AtProcess[c])

MealInv ==
    /\ MealShapes /\ EntriesAreRecent /\ ShelfIsRecent /\ LoadsAreRecent /\ CallsAreRecent
    /\ MemoryIsAsked /\ PromisesAreKept /\ MissesAreExcused

EventFields == {"startsAt", "endsAt", "category", "isHoliday"}

\* The events an update or deletion may have read have all their fields.
CalendarInv ==
    /\ lastId \in 0 .. MaxEvents /\ DOMAIN calendar \subseteq 1 .. lastId
    /\ \A id \in DOMAIN calendar : DOMAIN calendar[id] = EventFields
    /\ DOMAIN changing = Updates \cup Deletions
    /\ \A u \in Updates \cup Deletions :
        /\ DOMAIN changing[u] = {"at", "id", "read"}
        /\ changing[u].at = "found" => DOMAIN changing[u].read = EventFields
    /\ EventsAreWellFormed

-----------------------------------------------------------------------------
\* A set of numbers below a bound has a largest one.
LEMMA MaxIsLargest ==
    ASSUME NEW S \in SUBSET Nat, 0 \in S, NEW n \in Nat, \A x \in S : x <= n
    PROVE  Max(S) \in S /\ \A y \in S : y <= Max(S)
<1> DEFINE Above == {m \in Nat : \A x \in S : x <= m}
           m == Min(Above)
<1>1. m \in Above /\ \A y \in Above : m <= y
  BY MinIsSmallest
<1>2. m \in S
  <2>1. SUFFICES ASSUME m \notin S PROVE FALSE
    OBVIOUS
  <2>2. m # 0 /\ m \in Nat
    BY <1>1, <2>1
  <2>3. m - 1 \in Nat /\ \A x \in S : x <= m - 1
    <3> HIDE DEF m
    <3>1. \A x \in S : x \in Nat /\ x <= m /\ x # m
      BY <1>1, <2>1
    <3> QED BY <2>2, <3>1
  <2>4. m - 1 \in Above
    BY <2>3
  <2> HIDE DEF m, Above
  <2> QED BY <1>1, <2>2, <2>4
<1>3. \A y \in S : m >= y
  BY <1>1
<1> HIDE DEF m, Above
<1>4. PICK x \in S : \A y \in S : x >= y
  BY <1>2, <1>3
<1> QED BY <1>4 DEF Max

-----------------------------------------------------------------------------
(* Lemmas about maps.                                                       *)

LEMMA TwoKinds == Entries(MenuEntries) /\ Entries(FailureEntries)
BY DEF Entries, MenuEntries, FailureEntries

LEMMA TurnIsNumber ==
    ASSUME NEW E, Entries(E), NEW s \in SUBSET E, Stamped(s)
    PROVE  NextTurn(s) \in Nat /\ \A e \in s : e.turn < NextTurn(s)
<1> DEFINE T == {0} \cup {e.turn : e \in s}
<1>1. T \in SUBSET Nat /\ 0 \in T
  BY DEF Entries
<1>2. PICK n \in Nat : \A e \in s : e.turn <= n
  BY DEF Stamped
<1>3. \A x \in T : x <= n
  BY <1>2
<1>4. Max(T) \in T /\ \A y \in T : y <= Max(T)
  <2> HIDE DEF T
  <2> QED BY <1>1, <1>3, MaxIsLargest
<1>5. NextTurn(s) = 1 + Max(T)
  BY DEF NextTurn
<1>6. \A e \in s : e.turn \in T
  OBVIOUS
<1> HIDE DEF T
<1>7. Max(T) \in Nat /\ NextTurn(s) = 1 + Max(T)
  BY <1>1, <1>4, <1>5
<1>8. ASSUME NEW e \in s PROVE e.turn < NextTurn(s)
  <2>1. e.turn \in Nat /\ e.turn <= Max(T)
    BY <1>1, <1>4, <1>6
  <2> QED BY <1>7, <2>1
<1> QED BY <1>7, <1>8

\* A subset of a map is one.
LEMMA SubMap ==
    ASSUME NEW E, NEW n \in Nat, NEW s, Keys(s, E, n), NEW t \in SUBSET s
    PROVE  Keys(t, E, n) /\ Cardinality(t) <= Cardinality(s)
<1>1. IsFiniteSet(t) /\ Cardinality(t) <= Cardinality(s) /\ Cardinality(t) \in Nat /\ Cardinality(s) \in Nat
  BY FS_Subset, FS_CardinalityType DEF Keys
<1>2. Stamped(t)
  BY DEF Keys, Stamped
<1> QED BY <1>1, <1>2 DEF Keys

\* An entry that is set again is the youngest.
LEMMA RenewedMap ==
    ASSUME NEW E, Entries(E), NEW n \in Nat, NEW s, Keys(s, E, n), NEW e \in E
    PROVE  /\ Keys(Renewed(s, e), E, n + 1)
           /\ NextTurn(s) \in Nat
           /\ Keyed(s, e.key) => Keys(Renewed(s, e), E, n)
<1> DEFINE w == Without(s, e.key)
           f == [e EXCEPT !.turn = NextTurn(s)]
<1>1. NextTurn(s) \in Nat /\ \A g \in s : g.turn < NextTurn(s)
  BY TurnIsNumber DEF Keys
<1>2. f \in E /\ f.key = e.key /\ f.turn = NextTurn(s)
  BY <1>1 DEF Entries
<1>3. w \in SUBSET s /\ \A g \in w : g.key # e.key
  BY DEF Without
<1>4. Renewed(s, e) = w \cup {f}
  BY DEF Renewed
<1> HIDE DEF w, f
<1>5. Keys(w, E, n) /\ Cardinality(w) <= Cardinality(s)
  BY <1>3, SubMap
<1>6. IsFiniteSet(w \cup {f}) /\ Cardinality(w \cup {f}) = Cardinality(w) + 1
  <2>1. f \notin w
    BY <1>2, <1>3
  <2> QED BY <1>5, <2>1, FS_AddElement DEF Keys
<1>7. Stamped(w \cup {f})
  <2>1. \A g \in w \cup {f} : g.turn <= NextTurn(s)
    <3>1. \A g \in w : g.turn \in Nat /\ g.turn < NextTurn(s)
      BY <1>1, <1>3, <1>5 DEF Entries, Keys
    <3> QED BY <1>1, <1>2, <3>1
  <2> QED BY <1>1, <2>1 DEF Stamped
<1>8. \A g, h \in w \cup {f} : g.key = h.key => g = h
  BY <1>2, <1>3, <1>5 DEF Keys
<1>9. Cardinality(w) \in Nat /\ Cardinality(s) \in Nat
  BY <1>5, FS_CardinalityType DEF Keys
<1>10. Keys(w \cup {f}, E, n + 1)
  BY <1>2, <1>5, <1>6, <1>7, <1>8, <1>9 DEF Keys
<1>11. ASSUME Keyed(s, e.key) PROVE Cardinality(w \cup {f}) <= n
  <2>1. PICK g \in s : g.key = e.key
    BY <1>11 DEF Keyed
  <2>2. w \in SUBSET (s \ {g})
    BY <1>3, <2>1
  <2>3. IsFiniteSet(s \ {g}) /\ Cardinality(s \ {g}) = Cardinality(s) - 1
    BY <2>1, FS_RemoveElement DEF Keys
  <2>4. Cardinality(w) <= Cardinality(s) - 1
    BY <2>2, <2>3, FS_Subset
  <2> QED BY <1>6, <1>9, <2>4 DEF Keys
<1> QED BY <1>1, <1>4, <1>10, <1>11 DEF Keys

\* What is put is there, what was of use still is, but for the oldest if there is one
\* too many.
LEMMA PutMap ==
    ASSUME NEW E, Entries(E), NEW s, Keys(s, E, MaxEntries), NEW e \in E,
           MaxEntries \in Nat \ {0}
    PROVE  /\ Keys(Put(s, e), E, MaxEntries)
           /\ Keys(Renewed(Living(s), e), E, MaxEntries + 1)
           /\ Put(s, e) \subseteq Renewed(Living(s), e)
           /\ Cardinality(Renewed(Living(s), e)) <= MaxEntries => Put(s, e) = Renewed(Living(s), e)
           /\ \E n \in Nat : Renewed(Living(s), e) = Without(Living(s), e.key) \cup {[e EXCEPT !.turn = n]}
<1> DEFINE t == Renewed(Living(s), e)
<1>1. Living(s) \in SUBSET s
  BY DEF Living
<1>2. Keys(Living(s), E, MaxEntries)
  BY <1>1, SubMap
<1>3. Keys(t, E, MaxEntries + 1) /\ NextTurn(Living(s)) \in Nat
  BY <1>2, RenewedMap
<1>4. \E n \in Nat : t = Without(Living(s), e.key) \cup {[e EXCEPT !.turn = n]}
  BY <1>3 DEF Renewed
<1>5. Put(s, e) = IF Cardinality(t) > MaxEntries THEN t \ {Oldest(t)} ELSE t
  BY DEF Put
<1> HIDE DEF t
<1>6. Cardinality(t) \in Nat /\ IsFiniteSet(t)
  BY <1>3, FS_CardinalityType DEF Keys
<1>7. CASE Cardinality(t) <= MaxEntries
  <2>1. Put(s, e) = t
    BY <1>5, <1>6, <1>7
  <2> QED BY <1>3, <1>4, <1>7, <2>1 DEF Keys, t
<1>8. CASE Cardinality(t) > MaxEntries
  <2> DEFINE T == {f.turn : f \in t}
  <2>1. t # {}
    BY <1>8, FS_EmptySet
  <2>2. T \in SUBSET Nat /\ T # {}
    BY <1>3, <2>1 DEF Keys, Entries
  <2>3. Min(T) \in T /\ \A y \in T : Min(T) <= y
    <3> HIDE DEF T
    <3> QED BY <2>2, MinIsSmallest
  <2>4. PICK f \in t : f.turn = Min(T)
    BY <2>3
  <2>5. \A g \in t : f.turn <= g.turn
    BY <2>3, <2>4
  <2>6. Oldest(t) \in t
    BY <2>5 DEF Oldest
  <2>7. Put(s, e) = t \ {Oldest(t)}
    BY <1>5, <1>8
  <2>8. Cardinality(t \ {Oldest(t)}) = Cardinality(t) - 1
    BY <1>6, <2>6, FS_RemoveElement
  <2>9. Cardinality(t \ {Oldest(t)}) <= MaxEntries
    BY <1>3, <1>6, <2>8 DEF Keys
  <2>10. t \ {Oldest(t)} \in SUBSET t
    OBVIOUS
  <2>11. Keys(t \ {Oldest(t)}, E, MaxEntries)
    <3>1. Keys(t \ {Oldest(t)}, E, MaxEntries + 1)
      BY <1>3, <2>10, SubMap
    <3> QED BY <2>9, <3>1 DEF Keys
  <2>12. ~(Cardinality(t) <= MaxEntries)
    BY <1>6, <1>8
  <2> QED BY <1>3, <1>4, <2>7, <2>10, <2>11, <2>12 DEF t
<1> QED BY <1>6, <1>7, <1>8

\* The entry of a key is the only one.
LEMMA OfIs ==
    ASSUME NEW E, NEW n, NEW s, Keys(s, E, n), NEW e \in s
    PROVE  Keyed(s, e.key) /\ Of(s, e.key) = e
BY DEF Keys, Keyed, Of

LEMMA UsedMap ==
    ASSUME NEW E, Entries(E), NEW s, Keys(s, E, MaxEntries), NEW k,
           MaxEntries \in Nat \ {0}, hour \in Nat
    PROVE  /\ Keys(Used(s, k), E, MaxEntries)
           /\ \A f \in Used(s, k) : f \in s \/ \E g \in s, n \in Nat : f = [g EXCEPT !.turn = n]
           /\ \A g \in s : g.gone > hour => \E f \in Used(s, k) : f.key = g.key /\ f.gone = g.gone
<1>1. CASE ~Keyed(s, k)
  BY <1>1 DEF Used
<1>2. CASE Keyed(s, k)
  <2>1. PICK e \in s : e.key = k
    BY <1>2 DEF Keyed
  <2>2. Of(s, k) = e
    BY <2>1, OfIs
  <2>3. CASE e.gone <= hour
    <3>1. Used(s, k) = Without(s, k)
      BY <1>2, <2>2, <2>3 DEF Used
    <3>2. Without(s, k) \in SUBSET s /\ \A g \in s : g.key # k => g \in Without(s, k)
      BY DEF Without
    <3>3. \A g \in s : g.gone > hour => g.key # k
      <4>1. SUFFICES ASSUME NEW g \in s, g.gone > hour, g.key = k PROVE FALSE
        OBVIOUS
      <4>0. \A a, b \in s : a.key = b.key => a = b
        BY DEF Keys
      <4>2. g = e
        BY <2>1, <4>0, <4>1
      <4>3. e.gone \in Nat
        BY DEF Keys, Entries
      <4> QED BY <2>3, <4>1, <4>2, <4>3
    <3>4. Keys(Without(s, k), E, MaxEntries)
      BY <3>2, SubMap
    <3> QED BY <3>1, <3>2, <3>3, <3>4
  <2>4. CASE ~(e.gone <= hour)
    <3>1. Used(s, k) = Renewed(s, e) /\ e \in E
      BY <1>2, <2>2, <2>4 DEF Used, Keys
    <3>2. Keys(Renewed(s, e), E, MaxEntries) /\ NextTurn(s) \in Nat
      BY <1>2, <2>1, <3>1, RenewedMap
    <3>3. Renewed(s, e) = Without(s, k) \cup {[e EXCEPT !.turn = NextTurn(s)]}
      BY <2>1 DEF Renewed
    <3>4. \A g \in s : g.key # k \/ g = e
      BY <2>1 DEF Keys
    <3>5. [e EXCEPT !.turn = NextTurn(s)].key = e.key /\ [e EXCEPT !.turn = NextTurn(s)].gone = e.gone
      BY <3>1, <3>2 DEF Entries
    <3>6. \A g \in s : \E f \in Renewed(s, e) : f.key = g.key /\ f.gone = g.gone
      BY <3>3, <3>4, <3>5 DEF Without
    <3>7. \A f \in Renewed(s, e) : f \in s \/ \E g \in s, n \in Nat : f = [g EXCEPT !.turn = n]
      BY <3>2, <3>3 DEF Without
    <3> QED BY <3>1, <3>2, <3>6, <3>7
  <2> QED BY <2>3, <2>4
<1> QED BY <1>1, <1>2

-----------------------------------------------------------------------------
\* A process has been asked for finitely many ranges.
LEMMA AskedIsFinite ==
    ASSUME NEW p \in Processes
    PROVE  IsFiniteSet(Asked(p)) /\ IsFiniteSet(Asked(p)')
<1> DEFINE T == {Wants[e] : e \in Readers}
<1>1. IsFiniteSet(T)
  <2>1. Wants \in Surjection(Readers, T)
    BY SchoolDataAssumption DEF Surjection
  <2>2. IsFiniteSet(Readers)
    BY SchoolDataAssumption
  <2> HIDE DEF T
  <2> QED BY <2>1, <2>2, FS_Surjection
<1>2. Asked(p) \in SUBSET T /\ Asked(p)' \in SUBSET T
  BY DEF Asked
<1> HIDE DEF T
<1> QED BY <1>1, <1>2, FS_Subset

\* As long as no process forgets what it was asked.
Asking == \A p \in Processes : Asked(p) \subseteq Asked(p)'

LEMMA RoomShrinks ==
    ASSUME Asking, NEW p \in Processes
    PROVE  Room(p)' => Room(p)
<1>1. IsFiniteSet(Asked(p)') /\ Asked(p) \in SUBSET Asked(p)' /\ IsFiniteSet(Asked(p))
  BY AskedIsFinite DEF Asking
<1>2. Cardinality(Asked(p)) <= Cardinality(Asked(p)')
  BY <1>1, FS_Subset
<1>3. Cardinality(Asked(p)) \in Nat /\ Cardinality(Asked(p)') \in Nat /\ MaxEntries \in Nat
  BY <1>1, FS_CardinalityType, SchoolDataAssumption
<1> QED BY <1>2, <1>3 DEF Room

\* What a call that moves may have missed.
Excused(c) ==
    \A d \in Readers :
        /\ AtProcess[d] = AtProcess[c] /\ Wants[d] = Wants[c] /\ reader[d].how # "none"
        /\ reader[d].ended < hour /\ hour < reader[d].answer.until
        => ~Room(AtProcess[c])

CallsMove ==
    \A c \in Readers :
        /\ reader[c].how \in {"none", reader'[c].how}
        /\ reader'[c].how # "none" =>
            \/ reader'[c].ended = hour
            \/ /\ reader[c].how # "none" /\ reader'[c].ended = reader[c].ended
               /\ reader'[c].answer.until = reader[c].answer.until
        /\ Empty(reader'[c]) =>
            \/ Empty(reader[c]) /\ reader'[c].began = reader[c].began
            \/ reader'[c].began = hour /\ Excused(c)

LEMMA MovesAsk ==
    ASSUME CallsMove
    PROVE  Asking
<1> SUFFICES ASSUME NEW p \in Processes, NEW k \in Asked(p)
             PROVE  k \in Asked(p)'
  BY DEF Asking
<1>1. PICK e \in Readers : AtProcess[e] = p /\ reader[e].how = "fresh" /\ k = Wants[e]
  BY DEF Asked
<1>2. reader'[e].how = "fresh"
  BY <1>1 DEF CallsMove
<1> QED BY <1>1, <1>2 DEF Asked

LEMMA MovesExcuse ==
    ASSUME MissesAreExcused, CallsMove, CallsAreRecent', hour' = hour, hour \in Nat,
           reader' \in [Readers -> MealCalls]
    PROVE  MissesAreExcused'
<1>0. SUFFICES ASSUME NEW c \in Readers, NEW d \in Readers,
                    AtProcess[d] = AtProcess[c], Wants[d] = Wants[c],
                    Empty(reader'[c]), reader'[d].how # "none",
                    reader'[d].ended < reader'[c].began, reader'[c].began < reader'[d].answer.until
             PROVE  ~Room(AtProcess[c])'
  BY DEF MissesAreExcused, Empty
<1>1. AtProcess[c] \in Processes
  BY SchoolDataAssumption
<1>2. Room(AtProcess[c])' => Room(AtProcess[c])
  BY <1>1, MovesAsk, RoomShrinks
<1>3. reader'[c].began <= hour /\ reader'[c].began \in Nat /\ reader'[d].ended \in Nat /\ hour \in Nat
  <2>1. reader'[c] \in MealCalls /\ reader'[d] \in MealCalls
    OBVIOUS
  <2>2. Recent(reader[c])'
    BY DEF CallsAreRecent
  <2> QED BY <2>1, <2>2 DEF MealCalls, Recent
<1>4. /\ reader[d].how # "none" /\ reader'[d].ended = reader[d].ended
      /\ reader'[d].answer.until = reader[d].answer.until
  <2>1. reader'[d].ended # hour
    <3>1. reader'[d].ended < reader'[c].began
      BY <1>0
    <3>2. reader'[c].began <= hour
      BY <1>3
    <3>3. reader'[c].began \in Nat /\ reader'[d].ended \in Nat
      BY <1>3
    <3>4. hour \in Nat
      BY <1>3
    <3>5. reader'[d].ended < hour
      BY <3>1, <3>2, <3>3, <3>4
    <3> QED BY <3>3, <3>4, <3>5
  <2> QED BY <1>0, <2>1 DEF CallsMove
<1>5. CASE Empty(reader[c]) /\ reader'[c].began = reader[c].began
  BY <1>0, <1>2, <1>4, <1>5 DEF MissesAreExcused
<1>6. CASE reader'[c].began = hour /\ Excused(c)
  BY <1>0, <1>2, <1>4, <1>6 DEF Excused
<1> QED BY <1>0, <1>5, <1>6 DEF CallsMove

\* The memory as the later lemmas know it.
MemoryGoesOn ==
    /\ DOMAIN memory' = Processes
    /\ \A q \in Processes : Keys(memory'[q], MenuEntries, MaxEntries)
    /\ EntriesAreRecent' /\ MemoryIsAsked'
    /\ \A q \in Processes, k \in Ranges, u \in Nat : Keeps(q, k, u) => Keeps(q, k, u)'

LEMMA SameMemory ==
    ASSUME MealShapes, EntriesAreRecent, MemoryIsAsked, Asking, memory' = memory, hour' = hour
    PROVE  MemoryGoesOn
<1>1. EntriesAreRecent'
  BY DEF EntriesAreRecent
<1>2. MemoryIsAsked'
  BY DEF MemoryIsAsked, Asking
<1>3. \A q \in Processes, k \in Ranges, u \in Nat : Keeps(q, k, u) => Keeps(q, k, u)'
  BY RoomShrinks DEF Keeps
<1> QED BY <1>1, <1>2, <1>3 DEF MemoryGoesOn, MealShapes

\* An entry set again says the same.
LEMMA AnotherTurn ==
    ASSUME NEW g \in MenuEntries, NEW n \in Nat, NEW f, f = [g EXCEPT !.turn = n]
    PROVE  /\ f \in MenuEntries /\ f.key = g.key /\ f.of = g.of /\ f.fresh = g.fresh
           /\ f.gone = g.gone /\ f.turn = n
BY DEF MenuEntries

LEMMA MemoryIsRead ==
    ASSUME MealShapes, EntriesAreRecent, MemoryIsAsked, Asking, hour' = hour,
           NEW p \in Processes, NEW k \in Ranges,
           memory' = [memory EXCEPT ![p] = Used(@, k)]
    PROVE  MemoryGoesOn
<1>1. /\ \A q \in Processes : Keys(memory[q], MenuEntries, MaxEntries)
      /\ DOMAIN memory' = Processes
      /\ memory'[p] = Used(memory[p], k)
      /\ \A q \in Processes \ {p} : memory'[q] = memory[q]
      /\ MaxEntries \in Nat \ {0} /\ hour \in Nat
  BY SchoolDataAssumption DEF MealShapes
<1>2. /\ Keys(Used(memory[p], k), MenuEntries, MaxEntries)
      /\ \A f \in Used(memory[p], k) : f \in memory[p] \/ \E g \in memory[p], n \in Nat : f = [g EXCEPT !.turn = n]
      /\ \A g \in memory[p] : g.gone > hour => \E f \in Used(memory[p], k) : f.key = g.key /\ f.gone = g.gone
  BY <1>1, TwoKinds, UsedMap
<1>3. \A f \in memory'[p] : \E g \in memory[p] :
          f.key = g.key /\ f.of = g.of /\ f.fresh = g.fresh /\ f.gone = g.gone
  <2> SUFFICES ASSUME NEW f \in memory'[p], f \notin memory[p]
               PROVE  \E g \in memory[p] :
                          f.key = g.key /\ f.of = g.of /\ f.fresh = g.fresh /\ f.gone = g.gone
    OBVIOUS
  <2>1. PICK g \in memory[p], n \in Nat : f = [g EXCEPT !.turn = n]
    BY <1>1, <1>2
  <2>2. g \in MenuEntries
    BY <1>1 DEF Keys
  <2> QED BY <2>1, <2>2, AnotherTurn
<1>4. EntriesAreRecent'
  BY <1>1, <1>3 DEF EntriesAreRecent
<1>5. MemoryIsAsked'
  BY <1>1, <1>3 DEF MemoryIsAsked, Asking
<1>6. ASSUME NEW q \in Processes, NEW j \in Ranges, NEW u \in Nat, Keeps(q, j, u)
      PROVE  Keeps(q, j, u)'
  <2> SUFFICES ASSUME u > hour, Room(q)' PROVE \E f \in memory'[q] : f.key = j /\ f.gone >= u
    BY DEF Keeps
  <2>1. PICK g \in memory[q] : g.key = j /\ g.gone >= u
    BY <1>6, RoomShrinks DEF Keeps
  <2>2. g.gone \in Nat
    BY <1>1 DEF Keys, MenuEntries
  <2>3. g.gone > hour
    BY <1>1, <2>1, <2>2
  <2> QED BY <1>1, <1>2, <2>1, <2>3
<1> QED BY <1>1, <1>2, <1>4, <1>5, <1>6 DEF MemoryGoesOn

\* What was remembered just now is there, and drives out nothing as long as there is room.
LEMMA MemoryIsFilled ==
    ASSUME MealShapes, EntriesAreRecent, MemoryIsAsked, Asking, hour' = hour,
           NEW p \in Processes, NEW k \in Ranges, NEW of \in Nat, of <= hour, hour <= of + TTL + 1,
           Remember(p, k, of), k \in Asked(p)'
    PROVE  MemoryGoesOn /\ \A u \in Nat : u <= hour + StaleFor => Keeps(p, k, u)'
<1> DEFINE e == [key |-> k, of |-> of, fresh |-> hour + TTL, gone |-> hour + StaleFor, turn |-> 0]
           old == memory[p]
           new == Put(old, e)
           t == Renewed(Living(old), e)
<1>n. /\ hour \in Nat /\ TTL \in Nat /\ StaleFor \in Nat /\ TTL > 0 /\ TTL <= StaleFor
      /\ MaxEntries \in Nat \ {0}
  BY SchoolDataAssumption DEF MealShapes
<1>e. e \in MenuEntries
  BY <1>n DEF MenuEntries
<1>1. /\ \A q \in Processes : Keys(memory[q], MenuEntries, MaxEntries)
      /\ DOMAIN memory' = Processes
      /\ memory'[p] = new
      /\ \A q \in Processes \ {p} : memory'[q] = memory[q]
  BY DEF MealShapes, Remember
<1>f. e.key = k /\ e.of = of /\ e.fresh = hour + TTL /\ e.gone = hour + StaleFor
  OBVIOUS
<1> HIDE DEF e
<1>2. /\ Keys(new, MenuEntries, MaxEntries) /\ Keys(t, MenuEntries, MaxEntries + 1) /\ new \subseteq t
      /\ Cardinality(t) <= MaxEntries => new = t
      /\ \E n \in Nat : t = Without(Living(old), k) \cup {[e EXCEPT !.turn = n]}
  BY <1>1, <1>e, <1>f, <1>n, TwoKinds, PutMap
<1>3. PICK n \in Nat : t = Without(Living(old), k) \cup {[e EXCEPT !.turn = n]}
  BY <1>2
<1> DEFINE f == [e EXCEPT !.turn = n]
<1>4. f.key = k /\ f.of = of /\ f.fresh = hour + TTL /\ f.gone = hour + StaleFor
  BY <1>e, <1>f, AnotherTurn
<1>5. t = Without(Living(old), k) \cup {f}
  BY <1>3
<1> HIDE DEF f, new, t
<1>6. \A g \in t : (g \in old /\ g.gone > hour /\ g.key # k) \/ g = f
  BY <1>5 DEF Without, Living
<1>7. EntriesAreRecent'
  <2>1. ASSUME NEW g \in new
        PROVE  /\ g.of <= hour /\ g.fresh <= g.gone /\ g.gone <= hour + StaleFor
               /\ g.fresh <= g.of + 2 * TTL + 1 /\ g.gone <= g.of + TTL + StaleFor + 1
    <3>1. CASE g = f
      BY <1>4, <1>n, <3>1
    <3>2. CASE g \in old
      BY <3>2 DEF EntriesAreRecent
    <3> QED BY <1>2, <1>6, <3>1, <3>2
  <2> QED BY <1>1, <2>1 DEF EntriesAreRecent
<1>8. \A g \in t : g.key \in Asked(p)'
  BY <1>4, <1>6 DEF MemoryIsAsked, Asking
<1>9. MemoryIsAsked'
  <2>1. \A g \in new : g.key \in Asked(p)'
    BY <1>2, <1>8
  <2>2. \A q \in Processes \ {p} : \A g \in memory[q] : g.key \in Asked(q)'
    BY DEF MemoryIsAsked, Asking
  <2> QED BY <1>1, <2>1, <2>2 DEF MemoryIsAsked
<1>10. Room(p)' => new = t
  <2>1. SUFFICES ASSUME Room(p)' PROVE Cardinality(t) <= MaxEntries
    BY <1>2
  <2> DEFINE keyOf == [g \in t |-> g.key]
  <2>2. \A g, h \in t : g.key = h.key => g = h
    BY <1>2 DEF Keys
  <2>3. keyOf \in Injection(t, Asked(p)')
    <3>1. keyOf \in [t -> Asked(p)']
      BY <1>8
    <3>2. \A g \in t : keyOf[g] = g.key
      OBVIOUS
    <3> HIDE DEF keyOf
    <3>3. DOMAIN keyOf = t
      BY <3>1
    <3> QED BY <2>2, <3>1, <3>2, <3>3 DEF Injection, IsInjective
  <2>4. IsFiniteSet(Asked(p)')
    BY AskedIsFinite
  <2> HIDE DEF keyOf
  <2>5. IsFiniteSet(t) /\ Cardinality(t) <= Cardinality(Asked(p)')
    BY <2>3, <2>4, FS_Injection
  <2>6. Cardinality(t) \in Nat /\ Cardinality(Asked(p)') \in Nat /\ Cardinality(Asked(p)') <= MaxEntries
    BY <2>1, <2>4, <2>5, FS_CardinalityType DEF Room
  <2> QED BY <1>n, <2>5, <2>6
<1>11. ASSUME NEW q \in Processes, NEW j \in Ranges, NEW u \in Nat, Keeps(q, j, u)
       PROVE  Keeps(q, j, u)'
  <2>0. SUFFICES ASSUME u > hour, Room(q)' PROVE \E h \in memory'[q] : h.key = j /\ h.gone >= u
    BY DEF Keeps
  <2>1. PICK g \in memory[q] : g.key = j /\ g.gone >= u
    BY <1>11, <2>0, RoomShrinks DEF Keeps
  <2>2. g.gone \in Nat /\ g.gone <= hour + StaleFor
    BY <1>1 DEF Keys, MenuEntries, EntriesAreRecent
  <2>3. CASE q # p
    BY <1>1, <2>1, <2>3
  <2>4. CASE q = p /\ j = k
    <3>1. f \in memory'[p]
      BY <1>1, <1>5, <1>10, <2>0, <2>4
    <3>2. f.gone >= u
      BY <1>4, <1>n, <2>1, <2>2
    <3> QED BY <1>4, <2>4, <3>1, <3>2
  <2>5. CASE q = p /\ j # k
    <3>1. g.gone > hour
      BY <1>n, <2>0, <2>1, <2>2
    <3>2. g \in t
      BY <1>5, <2>1, <2>5, <3>1 DEF Without, Living
    <3> QED BY <1>1, <1>10, <2>0, <2>1, <2>5, <3>2
  <2> QED BY <2>3, <2>4, <2>5
<1>12. ASSUME NEW u \in Nat, u <= hour + StaleFor PROVE Keeps(p, k, u)'
  <2>1. SUFFICES ASSUME Room(p)' PROVE \E h \in memory'[p] : h.key = k /\ h.gone >= u
    BY DEF Keeps
  <2>2. f \in memory'[p]
    BY <1>1, <1>5, <1>10, <2>1
  <2> QED BY <1>4, <1>12, <1>n, <2>2
<1>13. \A q \in Processes : Keys(memory'[q], MenuEntries, MaxEntries)
  BY <1>1, <1>2
<1> QED BY <1>1, <1>7, <1>9, <1>11, <1>12, <1>13 DEF MemoryGoesOn

-----------------------------------------------------------------------------
LEMMA NoMenuIs ==
    /\ NoMenu \in Menus /\ NoMenu.until = 0 /\ NoMenu.of = MaxClock + 1
    /\ \A m \in Menus : m.of <= MaxClock => m # NoMenu
BY SchoolDataAssumption DEF NoMenu, Menus

LEMMA Clock ==
    ASSUME MealShapes
    PROVE  /\ hour \in Nat /\ hour <= MaxClock /\ MaxClock \in Nat
           /\ TTL \in Nat /\ StaleFor \in Nat /\ Backoff \in Nat /\ TTL >= 1 /\ TTL <= StaleFor
           /\ MaxEntries \in Nat \ {0}
BY SchoolDataAssumption DEF MealShapes

FailuresGoOn ==
    /\ DOMAIN failures' = Processes
    /\ \A q \in Processes : Keys(failures'[q], FailureEntries, MaxEntries)

LoadsGoOn ==
    /\ DOMAIN loading' = Processes
    /\ \A q \in Processes :
           loading'[q] \subseteq Loads /\ IsFiniteSet(loading'[q]) /\ Bounded(loading'[q], MaxLoads)

\* What a call promises was promised before, or is kept.
Promised(c, u) ==
    u \in {0, reader[c].held.until, reader[c].answer.until} \/ Keeps(AtProcess[c], Wants[c], u)'

CallsGoOn ==
    /\ reader' \in [Readers -> MealCalls] /\ CallsMove
    /\ \A c \in Readers : Recent(reader'[c])
    /\ \A c \in Readers, u \in Nat :
           u \in {reader'[c].held.until, reader'[c].answer.until} => Promised(c, u)

LEMMA GoingOn ==
    ASSUME MealInv, hour' = hour, outages' \in 0 .. MaxOutages, MemoryGoesOn, FailuresGoOn,
           LoadsGoOn, LoadsAreRecent', shelf' \in [Ranges -> Menus], ShelfIsRecent', CallsGoOn
    PROVE  MealInv'
<1>0. hour \in Nat /\ MealShapes
  BY Clock DEF MealInv
<1>1. MealShapes'
  BY DEF MealInv, MealShapes, MemoryGoesOn, FailuresGoOn, LoadsGoOn, CallsGoOn
<1>2. CallsAreRecent'
  <2>1. \A c \in Readers : Recent(reader'[c])
    BY DEF CallsGoOn
  <2> QED BY <2>1 DEF CallsAreRecent, Recent
<1>3. MissesAreExcused'
  BY <1>0, <1>2, MovesExcuse DEF MealInv, CallsGoOn
<1>4. PromisesAreKept'
  <2>1. ASSUME NEW c \in Readers, NEW u \in Nat, u \in {reader'[c].held.until, reader'[c].answer.until}
        PROVE  Keeps(AtProcess[c], Wants[c], u)'
    <3>1. AtProcess[c] \in Processes /\ Wants[c] \in Ranges
      BY SchoolDataAssumption
    <3>2. Promised(c, u)
      BY <2>1 DEF CallsGoOn
    <3>3. CASE u = 0
      BY <1>0, <3>3 DEF Keeps
    <3>4. CASE u \in {reader[c].held.until, reader[c].answer.until}
      <4>1. Keeps(AtProcess[c], Wants[c], u)
        BY <3>4 DEF MealInv, PromisesAreKept
      <4> QED BY <3>1, <4>1 DEF MemoryGoesOn
    <3> QED BY <3>2, <3>3, <3>4 DEF Promised
  <2>2. \A c \in Readers : reader'[c].held.until \in Nat /\ reader'[c].answer.until \in Nat
    BY DEF CallsGoOn, MealCalls, Menus
  <2>3. ASSUME NEW c \in Readers
        PROVE  Keeps(AtProcess[c], Wants[c], reader[c].held.until)' /\ Keeps(AtProcess[c], Wants[c], reader[c].answer.until)'
    BY <2>1, <2>2 DEF Keeps
  <2> QED BY <2>3 DEF PromisesAreKept
<1> QED BY <1>1, <1>2, <1>3, <1>4 DEF MealInv, MemoryGoesOn

\* One call moves.
LEMMA OneMoves ==
    ASSUME MealInv, NEW c \in Readers, NEW n \in MealCalls, reader' = [reader EXCEPT ![c] = n],
           reader[c].how \in {"none", n.how},
           n.how # "none" => \/ n.ended = hour
                         \/ /\ reader[c].how # "none" /\ n.ended = reader[c].ended
                            /\ n.answer.until = reader[c].answer.until,
           Empty(n) => (Empty(reader[c]) /\ n.began = reader[c].began) \/ (n.began = hour /\ Excused(c))
    PROVE  CallsMove /\ reader'[c] = n /\ \A d \in Readers \ {c} : reader'[d] = reader[d]
<1>1. reader \in [Readers -> MealCalls]
  BY DEF MealInv, MealShapes
<1>2. /\ reader' \in [Readers -> MealCalls] /\ reader'[c] = n
      /\ \A d \in Readers \ {c} : reader'[d] = reader[d]
  BY <1>1
<1>3. CallsMove
  <2>1. SUFFICES ASSUME NEW d \in Readers
        PROVE  /\ reader[d].how \in {"none", reader'[d].how}
               /\ reader'[d].how # "none" =>
                   \/ reader'[d].ended = hour
                   \/ /\ reader[d].how # "none" /\ reader'[d].ended = reader[d].ended
                      /\ reader'[d].answer.until = reader[d].answer.until
               /\ Empty(reader'[d]) =>
                   \/ Empty(reader[d]) /\ reader'[d].began = reader[d].began
                   \/ reader'[d].began = hour /\ Excused(d)
    BY DEF CallsMove
  <2>2. CASE d = c
    BY <1>2, <2>2
  <2>3. CASE d # c
    <3>1. reader'[d] = reader[d]
      BY <1>2, <2>3
    <3> QED BY <3>1
  <2> QED BY <2>2, <2>3
<1> QED BY <1>2, <1>3

LEMMA OneCall ==
    ASSUME MealInv, CallsMove, NEW c \in Readers, NEW n \in MealCalls,
           reader' = [reader EXCEPT ![c] = n], Recent(n),
           \A u \in Nat : u \in {n.held.until, n.answer.until} => Promised(c, u)
    PROVE  CallsGoOn
<1>1. reader \in [Readers -> MealCalls]
  BY DEF MealInv, MealShapes
<1>2. /\ reader' \in [Readers -> MealCalls] /\ reader'[c] = n
      /\ \A d \in Readers \ {c} : reader'[d] = reader[d]
  BY <1>1
<1>4. \A d \in Readers : Recent(reader'[d])
  BY <1>2 DEF MealInv, CallsAreRecent
<1>5. ASSUME NEW d \in Readers, NEW u \in Nat, u \in {reader'[d].held.until, reader'[d].answer.until}
      PROVE  Promised(d, u)
  <2>1. CASE d = c
    BY <1>2, <1>5, <2>1
  <2>2. CASE d # c
    <3>1. reader'[d] = reader[d]
      BY <1>2, <2>2
    <3> QED BY <1>5, <3>1 DEF Promised
  <2> QED BY <2>1, <2>2
<1> QED BY <1>2, <1>4, <1>5 DEF CallsGoOn

\* No call stops waiting.
LEMMA LoadsAreAwaited ==
    ASSUME MealInv, loading' = loading, hour' = hour,
           \A d \in Readers : reader[d].at = "waiting" => reader'[d].at = "waiting"
    PROVE  LoadsGoOn /\ LoadsAreRecent'
<1>1. LoadsGoOn
  BY DEF MealInv, MealShapes, LoadsGoOn
<1>2. \A q \in Processes, k \in Ranges : (\E d \in Waiting(q, k) : TRUE) => \E d \in Waiting(q, k)' : TRUE
  BY DEF Waiting
<1>3. ASSUME NEW q \in Processes, NEW l \in loading[q]
      PROVE  \E d \in Waiting(q, l.key)' : TRUE
  <2>1. l.key \in Ranges
    BY DEF MealInv, MealShapes, Loads
  <2>2. \E d \in Waiting(q, l.key) : TRUE
    BY DEF MealInv, LoadsAreRecent
  <2> QED BY <1>2, <2>1, <2>2
<1> QED BY <1>1, <1>3 DEF MealInv, LoadsAreRecent, Waiting

LEMMA SameFailures ==
    ASSUME MealInv, failures' = failures
    PROVE  FailuresGoOn
BY DEF MealInv, MealShapes, FailuresGoOn

LEMMA SameShelf ==
    ASSUME MealInv, shelf' = shelf, hour' = hour
    PROVE  shelf' \in [Ranges -> Menus] /\ ShelfIsRecent'
BY DEF MealInv, MealShapes, ShelfIsRecent

LEMMA SameOutages ==
    ASSUME MealInv, UNCHANGED outages \/ (outages < MaxOutages /\ outages' = outages + 1)
    PROVE  outages' \in 0 .. MaxOutages
BY SchoolDataAssumption DEF MealInv, MealShapes

\* What a call falls back on is what it held.
LEMMA FallBackIs ==
    ASSUME MealShapes, NEW r \in MealCalls, Recent(r)
    PROVE  /\ FallBack(r) \in MealCalls /\ Recent(FallBack(r))
           /\ FallBack(r).at = "answered" /\ FallBack(r).began = r.began /\ FallBack(r).ended = hour
           /\ FallBack(r).held = NoMenu /\ FallBack(r).answer = r.held
           /\ FallBack(r).how = IF r.held # NoMenu THEN "stale" ELSE "unavailable"
<1>1. NoMenu \in Menus /\ r.held \in Menus /\ hour \in Nat
  BY NoMenuIs, Clock DEF MealCalls
<1>2. CASE r.held # NoMenu
  <2>1. FallBack(r) = Answered(r, r.held, "stale")
    BY <1>2 DEF FallBack
  <2>2. /\ FallBack(r) \in MealCalls
        /\ FallBack(r).at = "answered" /\ FallBack(r).began = r.began /\ FallBack(r).ended = hour
        /\ FallBack(r).held = NoMenu /\ FallBack(r).answer = r.held /\ FallBack(r).how = "stale"
    BY <1>1, <2>1 DEF Answered, MealCalls
  <2>3. r.began <= hour /\ r.held.of <= hour /\ r.began <= r.held.of + TTL + StaleFor /\ hour <= hour
    BY <1>1, <1>2 DEF Recent
  <2>4. Recent(FallBack(r))
    BY <2>2, <2>3 DEF Recent
  <2> QED BY <1>2, <2>2, <2>4
<1>3. CASE r.held = NoMenu
  <2>1. FallBack(r) = Answered(r, NoMenu, "unavailable")
    BY <1>3 DEF FallBack
  <2>2. /\ FallBack(r) \in MealCalls
        /\ FallBack(r).at = "answered" /\ FallBack(r).began = r.began /\ FallBack(r).ended = hour
        /\ FallBack(r).held = NoMenu /\ FallBack(r).answer = NoMenu /\ FallBack(r).how = "unavailable"
    BY <1>1, <2>1 DEF Answered, MealCalls
  <2>3. r.began <= hour /\ hour <= hour
    BY <1>1 DEF Recent
  <2>4. Recent(FallBack(r))
    BY <2>2, <2>3 DEF Recent
  <2> QED BY <1>3, <2>2, <2>4
<1> QED BY <1>2, <1>3

\* What a call finds in the memory.
LEMMA HeldIs ==
    ASSUME MealShapes, EntriesAreRecent, NEW p \in Processes, NEW k \in Ranges
    PROVE  /\ Held(p, k) \in Menus
           /\ \/ Held(p, k) = NoMenu
              \/ /\ Held(p, k).of <= hour /\ hour <= Held(p, k).of + TTL + StaleFor
                 /\ \E e \in memory[p] : e.key = k /\ e.gone = Held(p, k).until
           /\ Keyed(memory[p], k) /\ Of(memory[p], k).fresh > hour =>
                 Held(p, k) # NoMenu /\ hour <= Held(p, k).of + 2 * TTL
           /\ \A e \in memory[p] : e.key = k /\ e.gone > hour => Held(p, k) # NoMenu
<1>0. /\ hour \in Nat /\ TTL \in Nat /\ StaleFor \in Nat /\ NoMenu \in Menus /\ hour <= MaxClock
      /\ MaxClock \in Nat /\ NoMenu.of = MaxClock + 1
  BY Clock, NoMenuIs
<1>1. Keys(memory[p], MenuEntries, MaxEntries)
  BY DEF MealShapes
<1>2. CASE ~Keyed(memory[p], k)
  BY <1>0, <1>2 DEF Held, Keyed
<1>3. CASE Keyed(memory[p], k)
  <2>1. PICK e \in memory[p] : e.key = k
    BY <1>3 DEF Keyed
  <2>2. Of(memory[p], k) = e /\ \A f \in memory[p] : f.key = k => f = e
    <3>1. Of(memory[p], e.key) = e
      BY <1>1, OfIs
    <3>2. \A f \in memory[p] : f.key = e.key => f = e
      BY <1>1 DEF Keys
    <3> QED BY <2>1, <3>1, <3>2
  <2>3. /\ e \in MenuEntries /\ e.of <= hour /\ e.fresh <= e.gone
        /\ e.fresh <= e.of + 2 * TTL + 1 /\ e.gone <= e.of + TTL + StaleFor + 1
    <3>1. e \in MenuEntries
      BY <1>1 DEF Keys
    <3> QED BY <3>1, Zenon DEF EntriesAreRecent
  <2>4. e.of \in Nat /\ e.gone \in Nat /\ e.fresh \in Nat
    BY <2>3 DEF MenuEntries
  <2>5. CASE e.gone > hour
    <3> DEFINE h == [of |-> e.of, until |-> e.gone]
    <3>1. Held(p, k) = h
      BY <1>3, <2>2, <2>5 DEF Held
    <3>2. h \in Menus /\ h.of = e.of /\ h.until = e.gone
      BY <2>4 DEF Menus
    <3> HIDE DEF h
    <3>3. h # NoMenu
      BY <1>0, <2>3, <2>4, <3>2
    <3>4. hour <= e.of + TTL + StaleFor /\ (e.fresh > hour => hour <= e.of + 2 * TTL)
      BY <1>0, <2>3, <2>4, <2>5
    <3> QED BY <2>1, <2>2, <2>3, <3>1, <3>2, <3>3, <3>4
  <2>6. CASE ~(e.gone > hour)
    <3>1. Held(p, k) = NoMenu
      BY <2>2, <2>6 DEF Held
    <3>2. ~(e.fresh > hour)
      BY <1>0, <2>3, <2>4, <2>6
    <3> QED BY <1>0, <2>2, <2>6, <3>1, <3>2
  <2> QED BY <2>5, <2>6
<1> QED BY <1>2, <1>3

\* Whoever has nothing to fall back on at its start has missed nothing.
LEMMA StartIsExcused ==
    ASSUME MealInv, NEW c \in Readers, Held(AtProcess[c], Wants[c]) = NoMenu
    PROVE  Excused(c)
<1>0. /\ AtProcess[c] \in Processes /\ Wants[c] \in Ranges /\ MealShapes /\ EntriesAreRecent
      /\ hour \in Nat
  BY SchoolDataAssumption, Clock DEF MealInv
<1>1. SUFFICES ASSUME NEW d \in Readers, AtProcess[d] = AtProcess[c], Wants[d] = Wants[c],
                      hour < reader[d].answer.until, Room(AtProcess[c])
               PROVE  FALSE
  BY DEF Excused
<1>2. reader[d].answer.until \in Nat
  BY <1>0 DEF MealShapes, MealCalls, Menus
<1>3. PICK e \in memory[AtProcess[c]] : e.key = Wants[c] /\ e.gone >= reader[d].answer.until
  BY <1>1, <1>2 DEF MealInv, PromisesAreKept, Keeps
<1>4. e.gone \in Nat
  BY <1>0 DEF MealShapes, Keys, MenuEntries
<1>5. e.gone > hour
  BY <1>0, <1>1, <1>2, <1>3, <1>4
<1> QED BY <1>0, <1>3, <1>5, HeldIs

-----------------------------------------------------------------------------
(* The steps of a call of getMeals.                                         *)

LEMMA CallIs ==
    ASSUME MealInv, NEW c \in Readers
    PROVE  /\ AtProcess[c] \in Processes /\ Wants[c] \in Ranges /\ MealShapes /\ EntriesAreRecent
           /\ reader[c] \in MealCalls /\ Recent(reader[c]) /\ reader \in [Readers -> MealCalls]
           /\ MemoryIsAsked /\ memory[AtProcess[c]] \subseteq MenuEntries
BY SchoolDataAssumption DEF MealInv, MealShapes, CallsAreRecent, Keys

LEMMA ReadMemoryKeeps ==
    ASSUME MealInv, NEW c \in Readers, ReadMemory(c)
    PROVE  MealInv'
<1> DEFINE p == AtProcess[c]
           k == Wants[c]
           r == reader[c]
           h == Held(p, k)
<1>0. /\ p \in Processes /\ k \in Ranges /\ MealShapes /\ EntriesAreRecent /\ MemoryIsAsked
      /\ r \in MealCalls /\ Recent(r) /\ r.at = "idle" /\ hour \in Nat /\ NoMenu \in Menus
      /\ NoMenu.until = 0
  BY CallIs, Clock, NoMenuIs DEF ReadMemory
<1>1. /\ h \in Menus
      /\ \/ h = NoMenu
         \/ /\ h.of <= hour /\ hour <= h.of + TTL + StaleFor
            /\ \E e \in memory[p] : e.key = k /\ e.gone = h.until
      /\ Keyed(memory[p], k) /\ Of(memory[p], k).fresh > hour => h # NoMenu /\ hour <= h.of + 2 * TTL
  BY <1>0, HeldIs
<1>2. r.answer = NoMenu /\ r.how = "none" /\ r.held = NoMenu /\ ~Empty(r)
  BY <1>0 DEF Recent, Empty
<1>3. /\ memory' = [memory EXCEPT ![p] = Used(@, k)]
      /\ UNCHANGED <<hour, failures, loading, shelf, outages>>
  BY DEF ReadMemory
<1>4. \E n \in MealCalls :
          /\ reader' = [reader EXCEPT ![c] = n]
          /\ n.began = hour
          /\ \/ /\ n.at = "answered" /\ n.held = NoMenu /\ n.answer = h /\ n.how = "fresh" /\ n.ended = hour
                /\ h # NoMenu /\ hour <= h.of + 2 * TTL
             \/ n.at = "redis" /\ n.held = h /\ n.answer = NoMenu /\ n.how = "none"
  <2>1. CASE Keyed(memory[p], k) /\ Of(memory[p], k).fresh > hour
    <3> DEFINE s == [r EXCEPT !.began = hour]
               n == Answered(s, h, "fresh")
    <3>1. s \in MealCalls /\ s.began = hour
      BY <1>0 DEF MealCalls
    <3>2. reader' = [reader EXCEPT ![c] = n]
      BY <2>1 DEF ReadMemory
    <3> HIDE DEF s
    <3>3. /\ n \in MealCalls /\ n.at = "answered" /\ n.began = hour /\ n.held = NoMenu /\ n.answer = h
          /\ n.how = "fresh" /\ n.ended = hour
      BY <1>0, <1>1, <3>1 DEF Answered, MealCalls
    <3> HIDE DEF n
    <3> QED BY <1>1, <2>1, <3>2, <3>3
  <2>2. CASE ~(Keyed(memory[p], k) /\ Of(memory[p], k).fresh > hour)
    <3> DEFINE n == [r EXCEPT !.at = "redis", !.began = hour, !.held = h]
    <3>1. reader' = [reader EXCEPT ![c] = n]
      BY <2>2 DEF ReadMemory
    <3>2. /\ n \in MealCalls /\ n.at = "redis" /\ n.began = hour /\ n.held = h /\ n.answer = r.answer
          /\ n.how = r.how
      BY <1>0, <1>1 DEF MealCalls
    <3> HIDE DEF n
    <3> QED BY <1>2, <3>1, <3>2
  <2> QED BY <2>1, <2>2
<1>5. PICK n \in MealCalls :
          /\ reader' = [reader EXCEPT ![c] = n]
          /\ n.began = hour
          /\ \/ /\ n.at = "answered" /\ n.held = NoMenu /\ n.answer = h /\ n.how = "fresh" /\ n.ended = hour
                /\ h # NoMenu /\ hour <= h.of + 2 * TTL
             \/ n.at = "redis" /\ n.held = h /\ n.answer = NoMenu /\ n.how = "none"
  BY <1>4
<1>e. h = NoMenu => Excused(c)
  BY StartIsExcused
<1> HIDE DEF h
<1>6. Recent(n)
  <2>1. hour <= hour
    BY <1>0
  <2>2. CASE n.at = "answered"
    <3>1. h.of <= hour
      BY <1>1, <1>5, <2>2
    <3> QED BY <1>5, <2>1, <2>2, <3>1 DEF Recent
  <2>3. CASE n.at = "redis"
    BY <1>1, <1>5, <2>1, <2>3 DEF Recent
  <2> QED BY <1>5, <2>2, <2>3
<1>7. Empty(n) => n.began = hour /\ Excused(c)
  BY <1>5, <1>e DEF Empty
<1>8. CallsMove /\ reader'[c] = n /\ \A d \in Readers \ {c} : reader'[d] = reader[d]
  BY <1>2, <1>5, <1>7, OneMoves
<1>9. MemoryGoesOn
  BY <1>0, <1>3, <1>8, MovesAsk, MemoryIsRead
<1>10. \A u \in Nat : u \in {n.held.until, n.answer.until} => Promised(c, u)
  <2>1. SUFFICES ASSUME NEW u \in Nat, u \in {n.held.until, n.answer.until}, u # 0
        PROVE  Keeps(p, k, u)'
    BY DEF Promised
  <2>2. u = h.until /\ h # NoMenu
    BY <1>0, <1>5, <2>1
  <2>3. Keeps(p, k, u)
    BY <1>1, <2>2, <1>0 DEF Keeps, MealShapes, Keys, MenuEntries, Menus
  <2> QED BY <1>0, <1>9, <2>3 DEF MemoryGoesOn
<1>11. CallsGoOn
  BY <1>5, <1>6, <1>8, <1>10, OneCall
<1>12. LoadsGoOn /\ LoadsAreRecent'
  <2>1. \A d \in Readers : reader[d].at = "waiting" => reader'[d].at = "waiting"
    BY <1>0, <1>8
  <2> QED BY <1>3, <2>1, LoadsAreAwaited
<1>13. FailuresGoOn /\ shelf' \in [Ranges -> Menus] /\ ShelfIsRecent' /\ outages' \in 0 .. MaxOutages
  BY <1>3, SameFailures, SameShelf, SameOutages
<1> QED BY <1>3, <1>9, <1>11, <1>12, <1>13, GoingOn

LEMMA FindOnShelfKeeps ==
    ASSUME MealInv, NEW c \in Readers, FindOnShelf(c)
    PROVE  MealInv'
<1> DEFINE p == AtProcess[c]
           k == Wants[c]
           r == reader[c]
           of == shelf[k].of
<1>0. /\ p \in Processes /\ k \in Ranges /\ MealShapes /\ EntriesAreRecent /\ MemoryIsAsked
      /\ r \in MealCalls /\ Recent(r) /\ r.at = "redis" /\ hour \in Nat /\ NoMenu \in Menus
      /\ NoMenu.until = 0 /\ TTL \in Nat /\ StaleFor \in Nat /\ TTL >= 1
  BY CallIs, Clock, NoMenuIs DEF FindOnShelf
<1>1. of \in Nat /\ of <= hour /\ hour <= of + TTL + 1
  <2>1. shelf[k] \in Menus
    BY <1>0 DEF MealShapes
  <2>2. of \in Nat /\ shelf[k].until \in Nat
    BY <2>1 DEF Menus
  <2>3. shelf[k].until > hour
    BY DEF FindOnShelf
  <2>4. of <= hour /\ shelf[k].until <= of + TTL + 2
    BY <1>0, <2>3 DEF MealInv, ShelfIsRecent
  <2> QED BY <1>0, <2>2, <2>3, <2>4
<1>2. Remember(p, k, of) /\ UNCHANGED <<hour, failures, loading, shelf, outages>>
  BY DEF FindOnShelf
<1> DEFINE m == [of |-> of, until |-> hour + StaleFor]
<1>3. m \in Menus /\ m.of = of /\ m.until = hour + StaleFor
  BY <1>0, <1>1 DEF Menus
<1> DEFINE n == Answered(r, m, "fresh")
<1>4. reader' = [reader EXCEPT ![c] = n]
  BY DEF FindOnShelf
<1> HIDE DEF m
<1>5. /\ n \in MealCalls /\ n.at = "answered" /\ n.began = r.began /\ n.held = NoMenu /\ n.answer = m
      /\ n.how = "fresh" /\ n.ended = hour
  BY <1>0, <1>3 DEF Answered, MealCalls
<1> HIDE DEF n, of
<1>6. r.began <= hour /\ r.began \in Nat /\ r.how = "none"
  BY <1>0 DEF Recent, MealCalls
<1>7. Recent(n)
  <2>1. hour <= hour /\ r.began <= of + 2 * TTL
    BY <1>0, <1>1, <1>6
  <2> QED BY <1>1, <1>3, <1>5, <1>6, <2>1 DEF Recent
<1>8. CallsMove /\ reader'[c] = n /\ \A d \in Readers \ {c} : reader'[d] = reader[d]
  <2>1. ~Empty(n)
    BY <1>5 DEF Empty
  <2> QED BY <1>4, <1>5, <1>6, <2>1, OneMoves
<1>9. MemoryGoesOn /\ \A u \in Nat : u <= hour + StaleFor => Keeps(p, k, u)'
  <2>1. k \in Asked(p)'
    BY <1>5, <1>8 DEF Asked
  <2> HIDE DEF p, k
  <2> QED BY <1>0, <1>1, <1>2, <1>8, <2>1, MovesAsk, MemoryIsFilled
<1>10. \A u \in Nat : u \in {n.held.until, n.answer.until} => Promised(c, u)
  <2>1. hour + StaleFor <= hour + StaleFor
    BY <1>0
  <2> QED BY <1>0, <1>3, <1>5, <1>9, <2>1 DEF Promised
<1>11. CallsGoOn
  BY <1>4, <1>5, <1>7, <1>8, <1>10, OneCall
<1>12. LoadsGoOn /\ LoadsAreRecent'
  <2>1. \A d \in Readers : reader[d].at = "waiting" => reader'[d].at = "waiting"
    BY <1>0, <1>8
  <2> QED BY <1>2, <2>1, LoadsAreAwaited
<1>13. FailuresGoOn /\ shelf' \in [Ranges -> Menus] /\ ShelfIsRecent' /\ outages' \in 0 .. MaxOutages
  BY <1>2, SameFailures, SameShelf, SameOutages
<1> QED BY <1>2, <1>9, <1>11, <1>12, <1>13, GoingOn

LEMMA WriteShelfKeeps ==
    ASSUME MealInv, NEW c \in Readers, WriteShelf(c)
    PROVE  MealInv'
<1> DEFINE k == Wants[c]
           r == reader[c]
           m == [r.answer EXCEPT !.until = hour + TTL]
           n == [r EXCEPT !.at = "answered"]
<1>0. /\ k \in Ranges /\ MealShapes /\ EntriesAreRecent /\ MemoryIsAsked
      /\ r \in MealCalls /\ Recent(r) /\ r.at = "writing" /\ hour \in Nat
      /\ TTL \in Nat /\ UNCHANGED <<hour, memory, failures, loading>>
  BY CallIs, Clock DEF WriteShelf
<1>1. reader' = [reader EXCEPT ![c] = n]
  BY DEF WriteShelf
<1>2. /\ n \in MealCalls /\ n.at = "answered" /\ n.began = r.began /\ n.held = r.held
      /\ n.answer = r.answer /\ n.how = r.how /\ n.ended = r.ended
  BY <1>0 DEF MealCalls
<1>3. r.answer \in Menus /\ m \in Menus /\ m.of = r.answer.of /\ m.until = hour + TTL
  BY <1>0 DEF MealCalls, Menus
<1>4. shelf' \in {shelf, [shelf EXCEPT ![k] = m]} /\ outages' \in 0 .. MaxOutages
  BY SameOutages DEF WriteShelf
<1> HIDE DEF n, m
<1>5. r.how = "fresh" /\ hour <= r.answer.of + 2 /\ r.answer.of <= hour
  <2>1. r.ended \in Nat /\ r.answer.of \in Nat
    BY <1>0 DEF MealCalls, Menus
  <2>2. r.how = "fresh" /\ r.ended <= r.answer.of + 1 /\ hour <= r.ended + 1 /\ r.answer.of <= hour
    BY <1>0 DEF Recent
  <2> QED BY <1>0, <2>1, <2>2
<1>6. Recent(n)
  BY <1>0, <1>2, <1>5 DEF Recent
<1>7. CallsMove /\ reader'[c] = n /\ \A d \in Readers \ {c} : reader'[d] = reader[d]
  <2>1. ~Empty(n)
    BY <1>2, <1>5 DEF Empty
  <2> QED BY <1>1, <1>2, <1>5, <2>1, OneMoves
<1>8. CallsGoOn
  <2>1. \A u \in Nat : u \in {n.held.until, n.answer.until} => Promised(c, u)
    BY <1>2 DEF Promised
  <2> QED BY <1>1, <1>2, <1>6, <1>7, <2>1, OneCall
<1>9. shelf' \in [Ranges -> Menus] /\ ShelfIsRecent'
  <2>1. shelf \in [Ranges -> Menus]
    BY <1>0 DEF MealShapes
  <2>2. ASSUME NEW j \in Ranges, shelf'[j].until > hour
        PROVE  shelf'[j].of <= hour /\ shelf'[j].until <= shelf'[j].of + TTL + 2
    <3>1. CASE shelf'[j] = shelf[j]
      BY <2>2, <3>1 DEF MealInv, ShelfIsRecent
    <3>2. CASE shelf'[j] = m
      <4>1. m.of \in Nat /\ r.answer.of \in Nat
        BY <1>3 DEF Menus
      <4> QED BY <1>0, <1>3, <1>5, <3>2, <4>1
    <3> QED BY <1>4, <2>1, <3>1, <3>2
  <2> QED BY <1>0, <1>3, <1>4, <2>1, <2>2 DEF ShelfIsRecent
<1>10. MemoryGoesOn
  BY <1>0, <1>7, MovesAsk, SameMemory
<1>11. LoadsGoOn /\ LoadsAreRecent' /\ FailuresGoOn
  <2>1. \A d \in Readers : reader[d].at = "waiting" => reader'[d].at = "waiting"
    BY <1>0, <1>7
  <2> QED BY <1>0, <2>1, LoadsAreAwaited, SameFailures
<1> QED BY <1>0, <1>4, <1>8, <1>9, <1>10, <1>11, GoingOn

LEMMA FailuresAreUsed ==
    ASSUME MealInv, NEW p \in Processes, NEW k, failures' = [failures EXCEPT ![p] = Used(@, k)]
    PROVE  FailuresGoOn
<1>1. /\ \A q \in Processes : Keys(failures[q], FailureEntries, MaxEntries)
      /\ DOMAIN failures' = Processes
      /\ failures'[p] = Used(failures[p], k)
      /\ \A q \in Processes \ {p} : failures'[q] = failures[q]
      /\ MaxEntries \in Nat \ {0} /\ hour \in Nat
  BY Clock DEF MealInv, MealShapes
<1>2. Keys(Used(failures[p], k), FailureEntries, MaxEntries)
  BY <1>1, TwoKinds, UsedMap
<1> QED BY <1>1, <1>2 DEF FailuresGoOn

LEMMA MissShelfKeeps ==
    ASSUME MealInv, NEW c \in Readers, MissShelf(c)
    PROVE  MealInv'
<1> DEFINE p == AtProcess[c]
           k == Wants[c]
           r == reader[c]
           w == [r EXCEPT !.at = "waiting"]
           l == [key |-> k, since |-> hour, of |-> NoMenu.of]
<1>0. /\ p \in Processes /\ k \in Ranges /\ MealShapes /\ EntriesAreRecent /\ MemoryIsAsked
      /\ r \in MealCalls /\ Recent(r) /\ r.at = "redis" /\ hour \in Nat
      /\ UNCHANGED <<hour, memory, shelf>>
      /\ NoMenu.of \in Nat /\ NoMenu.until = 0
  BY CallIs, Clock, NoMenuIs DEF MissShelf, Menus
<1>1. outages' \in 0 .. MaxOutages
  BY SameOutages DEF MissShelf
<1>2. FailuresGoOn
  BY <1>0, FailuresAreUsed DEF MissShelf
<1>3. \/ reader' = [reader EXCEPT ![c] = FallBack(r)] /\ loading' = loading
      \/ reader' = [reader EXCEPT ![c] = w] /\ loading' = loading
      \/ /\ ~Shares(c) /\ Cardinality(loading[p]) < MaxLoads
         /\ reader' = [reader EXCEPT ![c] = w]
         /\ loading' = [loading EXCEPT ![p] = @ \cup {l}]
  BY DEF MissShelf
<1>4. /\ w \in MealCalls /\ w.at = "waiting" /\ w.began = r.began /\ w.held = r.held
      /\ w.answer = r.answer /\ w.how = r.how /\ w.ended = r.ended
  BY <1>0 DEF MealCalls
<1>5. /\ FallBack(r) \in MealCalls /\ Recent(FallBack(r))
      /\ FallBack(r).at = "answered" /\ FallBack(r).began = r.began /\ FallBack(r).ended = hour
      /\ FallBack(r).held = NoMenu /\ FallBack(r).answer = r.held
      /\ FallBack(r).how = IF r.held # NoMenu THEN "stale" ELSE "unavailable"
  BY <1>0, FallBackIs
<1> HIDE DEF w
<1>6. Recent(w)
  BY <1>0, <1>4 DEF Recent
<1>7. r.how = "none" /\ r.answer = NoMenu
  BY <1>0 DEF Recent
<1>8. PICK n \in {w, FallBack(r)} : reader' = [reader EXCEPT ![c] = n]
  BY <1>3
<1>9. /\ n \in MealCalls /\ Recent(n) /\ n.began = r.began /\ (n.how # "none" => n.ended = hour)
      /\ Empty(n) => Empty(r)
      /\ \A u \in {n.held.until, n.answer.until} : u \in {0, r.held.until}
  BY <1>0, <1>4, <1>5, <1>6, <1>7, <1>8 DEF Empty
<1>10. CallsMove /\ reader'[c] = n /\ \A d \in Readers \ {c} : reader'[d] = reader[d]
  BY <1>7, <1>8, <1>9, OneMoves
<1>11. CallsGoOn
  <2>1. \A u \in Nat : u \in {n.held.until, n.answer.until} => Promised(c, u)
    BY <1>9 DEF Promised
  <2> QED BY <1>8, <1>9, <1>10, <2>1, OneCall
<1>12. MemoryGoesOn
  BY <1>0, <1>10, MovesAsk, SameMemory
<1>13. shelf' \in [Ranges -> Menus] /\ ShelfIsRecent'
  BY <1>0, SameShelf
<1>14. LoadsGoOn /\ LoadsAreRecent'
  <2>0. \A d \in Readers : reader[d].at = "waiting" => reader'[d].at = "waiting"
    BY <1>0, <1>10
  <2>1. CASE loading' = loading
    BY <1>0, <2>0, <2>1, LoadsAreAwaited
  <2>2. CASE /\ ~Shares(c) /\ Cardinality(loading[p]) < MaxLoads
             /\ reader' = [reader EXCEPT ![c] = w]
             /\ loading' = [loading EXCEPT ![p] = @ \cup {l}]
    <3>0. l \in Loads /\ l.key = k /\ l.since = hour /\ l.of = NoMenu.of
      BY <1>0 DEF Loads
    <3>1. /\ DOMAIN loading = Processes /\ DOMAIN loading' = Processes
          /\ loading'[p] = loading[p] \cup {l}
          /\ \A q \in Processes \ {p} : loading'[q] = loading[q]
      BY <1>0, <2>2 DEF MealShapes
    <3> HIDE DEF l
    <3>2. \A q \in Processes : loading[q] \subseteq Loads /\ IsFiniteSet(loading[q]) /\ Bounded(loading[q], MaxLoads)
      BY <1>0 DEF MealShapes
    <3>3. \A e \in loading[p] : e.key # k
      BY <2>2 DEF Shares, Keyed
    <3>4. IsFiniteSet(loading'[p]) /\ Cardinality(loading'[p]) = Cardinality(loading[p]) + 1
      <4>1. l \notin loading[p]
        BY <3>0, <3>3
      <4>2. IsFiniteSet(loading[p])
        BY <1>0, <3>2
      <4>3. IsFiniteSet(loading[p] \cup {l}) /\ Cardinality(loading[p] \cup {l}) = Cardinality(loading[p]) + 1
        BY <4>1, <4>2, FS_AddElement
      <4> QED BY <3>1, <4>3
    <3>5. Cardinality(loading'[p]) <= MaxLoads
      <4>1. Cardinality(loading[p]) \in Nat /\ MaxLoads \in Nat
        BY <1>0, <3>2, FS_CardinalityType, SchoolDataAssumption
      <4> QED BY <2>2, <3>4, <4>1
    <3>6. Bounded(loading'[p], MaxLoads)
      BY <1>0, <3>0, <3>1, <3>2, <3>3, <3>5 DEF Bounded
    <3>7. LoadsGoOn
      BY <3>0, <3>1, <3>2, <3>4, <3>6 DEF LoadsGoOn
    <3>8. ASSUME NEW q \in Processes, NEW e \in loading'[q]
          PROVE  /\ e.since <= hour /\ hour <= e.since + 1
                 /\ e.of # NoMenu.of => e.since <= e.of /\ e.of <= hour
                 /\ \E d \in Readers : AtProcess[d] = q /\ Wants[d] = e.key /\ reader'[d].at = "waiting"
      <4>1. CASE e \in loading[q]
        BY <2>0, <4>1 DEF MealInv, LoadsAreRecent, Waiting
      <4>2. CASE q = p /\ e = l
        <5>1. reader'[c].at = "waiting"
          BY <1>0, <1>4, <2>2 DEF MealShapes
        <5>2. hour <= hour /\ hour <= hour + 1
          BY <1>0
        <5> QED BY <3>0, <4>2, <5>1, <5>2
      <4> QED BY <3>1, <4>1, <4>2
    <3>9. LoadsAreRecent'
      <4> HIDE DEF p, k, r
      <4> QED BY <1>0, <3>8 DEF LoadsAreRecent, Waiting
    <3> QED BY <3>7, <3>9
  <2> QED BY <1>3, <2>1, <2>2
<1> QED BY <1>0, <1>1, <1>2, <1>11, <1>12, <1>13, <1>14, GoingOn

-----------------------------------------------------------------------------
(* The steps of a load.                                                     *)

LEMMA LoadIs ==
    ASSUME MealInv, NEW p \in Processes, NEW l \in loading[p]
    PROVE  /\ MealShapes /\ EntriesAreRecent /\ MemoryIsAsked /\ reader \in [Readers -> MealCalls]
           /\ l \in Loads /\ l.key \in Ranges /\ l.since \in Nat /\ l.of \in Nat /\ hour \in Nat
           /\ l.since <= hour /\ hour <= l.since + 1
           /\ l.of # NoMenu.of => l.since <= l.of /\ l.of <= hour
           /\ \A e \in loading[p] : e.key = l.key => e = l
           /\ DOMAIN loading = Processes
           /\ \A q \in Processes : loading[q] \subseteq Loads /\ IsFiniteSet(loading[q]) /\ Bounded(loading[q], MaxLoads)
BY Clock DEF MealInv, MealShapes, LoadsAreRecent, Loads, Bounded

\* Fewer loads are as good as before, if those that are left are still awaited.
LEMMA LoadsEnd ==
    ASSUME MealInv, hour' = hour, NEW p \in Processes, NEW l \in loading[p],
           loading' = [loading EXCEPT ![p] = Without(@, l.key)],
           \A d \in Readers \ Waiting(p, l.key) : reader'[d] = reader[d]
    PROVE  LoadsGoOn /\ LoadsAreRecent'
<1>0. /\ \A e \in loading[p] : e.key = l.key => e = l
      /\ DOMAIN loading = Processes /\ MaxLoads \in Nat
      /\ \A q \in Processes : loading[q] \subseteq Loads /\ IsFiniteSet(loading[q]) /\ Bounded(loading[q], MaxLoads)
  BY LoadIs, SchoolDataAssumption
<1>1. /\ DOMAIN loading' = Processes /\ loading'[p] = Without(loading[p], l.key)
      /\ \A q \in Processes \ {p} : loading'[q] = loading[q]
  BY <1>0
<1>2. Without(loading[p], l.key) \in SUBSET loading[p] /\ \A e \in Without(loading[p], l.key) : e.key # l.key
  BY DEF Without
<1>3. IsFiniteSet(loading'[p]) /\ Bounded(loading'[p], MaxLoads)
  <2>1. /\ IsFiniteSet(loading'[p]) /\ Cardinality(loading'[p]) <= Cardinality(loading[p])
        /\ Cardinality(loading'[p]) \in Nat /\ Cardinality(loading[p]) \in Nat
    BY <1>0, <1>1, <1>2, FS_Subset, FS_CardinalityType
  <2> QED BY <1>0, <1>1, <1>2, <2>1 DEF Bounded
<1>4. LoadsGoOn
  BY <1>0, <1>1, <1>2, <1>3 DEF LoadsGoOn
<1>5. ASSUME NEW q \in Processes, NEW e \in loading'[q]
      PROVE  /\ e.since <= hour /\ hour <= e.since + 1
             /\ e.of # NoMenu.of => e.since <= e.of /\ e.of <= hour
             /\ \E d \in Readers : AtProcess[d] = q /\ Wants[d] = e.key /\ reader'[d].at = "waiting"
  <2>1. e \in loading[q] /\ (q # p \/ e.key # l.key)
    BY <1>1, <1>2
  <2>2. PICK d \in Readers : AtProcess[d] = q /\ Wants[d] = e.key /\ reader[d].at = "waiting"
    BY <2>1 DEF MealInv, LoadsAreRecent, Waiting
  <2>3. reader'[d] = reader[d]
    BY <2>1, <2>2 DEF Waiting
  <2> QED BY <2>1, <2>2, <2>3 DEF MealInv, LoadsAreRecent
<1>6. LoadsAreRecent'
  BY <1>5 DEF LoadsAreRecent, Waiting
<1> QED BY <1>4, <1>6

LEMMA FirstPageKeeps ==
    ASSUME MealInv, NEW p \in Processes, NEW l \in loading[p], FirstPage(p, l)
    PROVE  MealInv'
<1> DEFINE m == [l EXCEPT !.of = hour]
<1>0. /\ MealShapes /\ EntriesAreRecent /\ MemoryIsAsked /\ reader \in [Readers -> MealCalls]
      /\ l \in Loads /\ l.key \in Ranges /\ l.since \in Nat /\ hour \in Nat
      /\ l.since <= hour /\ hour <= l.since + 1
      /\ \A e \in loading[p] : e.key = l.key => e = l
      /\ DOMAIN loading = Processes /\ MaxLoads \in Nat
      /\ \A q \in Processes : loading[q] \subseteq Loads /\ IsFiniteSet(loading[q]) /\ Bounded(loading[q], MaxLoads)
  BY LoadIs, SchoolDataAssumption
<1>1. /\ UNCHANGED <<hour, memory, failures, shelf, reader, outages>>
      /\ loading' = [loading EXCEPT ![p] = (@ \ {l}) \cup {m}]
  BY DEF FirstPage
<1>2. m \in Loads /\ m.key = l.key /\ m.since = l.since /\ m.of = hour
  BY <1>0 DEF Loads
<1> HIDE DEF m
<1>3. /\ DOMAIN loading' = Processes /\ loading'[p] = (loading[p] \ {l}) \cup {m}
      /\ \A q \in Processes \ {p} : loading'[q] = loading[q]
  BY <1>0, <1>1
<1>4. IsFiniteSet(loading'[p]) /\ Cardinality(loading'[p]) <= MaxLoads
  <2>1. IsFiniteSet(loading[p] \ {l}) /\ Cardinality(loading[p] \ {l}) = Cardinality(loading[p]) - 1
    BY <1>0, FS_RemoveElement
  <2>2. m \notin loading[p] \ {l}
    BY <1>0, <1>2
  <2>3. IsFiniteSet(loading'[p]) /\ Cardinality(loading'[p]) = Cardinality(loading[p] \ {l}) + 1
    <3> DEFINE s == loading[p] \ {l}
    <3>1. loading'[p] = s \cup {m} /\ IsFiniteSet(s) /\ m \notin s
      BY <1>3, <2>1, <2>2
    <3> HIDE DEF s
    <3>2. IsFiniteSet(s \cup {m}) /\ Cardinality(s \cup {m}) = Cardinality(s) + 1
      BY <3>1, FS_AddElement
    <3> QED BY <3>1, <3>2 DEF s
  <2>4. Cardinality(loading[p]) \in Nat /\ Cardinality(loading[p]) <= MaxLoads
    BY <1>0, FS_CardinalityType DEF Bounded
  <2> QED BY <1>0, <2>1, <2>3, <2>4
<1>5. LoadsGoOn
  <2>1. \A e, f \in loading'[p] : e.key = f.key => e = f
    BY <1>0, <1>2, <1>3 DEF Bounded
  <2> QED BY <1>0, <1>2, <1>3, <1>4, <2>1 DEF LoadsGoOn, Bounded
<1>6. ASSUME NEW q \in Processes, NEW e \in loading'[q]
      PROVE  /\ e.since <= hour /\ hour <= e.since + 1
             /\ e.of # NoMenu.of => e.since <= e.of /\ e.of <= hour
             /\ \E d \in Waiting(q, e.key) : TRUE
  <2>1. CASE e \in loading[q]
    BY <2>1 DEF MealInv, LoadsAreRecent
  <2>2. CASE q = p /\ e = m
    <3>1. \E d \in Waiting(q, e.key) : TRUE
      BY <1>2, <2>2 DEF MealInv, LoadsAreRecent
    <3>2. hour <= hour
      BY <1>0
    <3> QED BY <1>0, <1>2, <2>2, <3>1, <3>2
  <2> QED BY <1>3, <2>1, <2>2
<1>7. LoadsAreRecent'
  BY <1>1, <1>6 DEF LoadsAreRecent, Waiting
<1>8. CallsGoOn
  <2>1. CallsMove
    BY <1>1 DEF CallsMove
  <2>2. \A c \in Readers : Recent(reader'[c])
    BY <1>1 DEF MealInv, CallsAreRecent
  <2> QED BY <1>0, <1>1, <2>1, <2>2 DEF CallsGoOn, Promised
<1>9. MemoryGoesOn
  BY <1>0, <1>1, <1>8, MovesAsk, SameMemory DEF CallsGoOn
<1>10. FailuresGoOn /\ shelf' \in [Ranges -> Menus] /\ ShelfIsRecent' /\ outages' \in 0 .. MaxOutages
  BY <1>1, SameFailures, SameShelf, SameOutages
<1> QED BY <1>1, <1>5, <1>7, <1>8, <1>9, <1>10, GoingOn

\* The calls that wait for a load move with it.
LEMMA WaitersMove ==
    ASSUME MealInv, NEW p \in Processes, NEW k \in Ranges, reader' \in [Readers -> MealCalls],
           \A c \in Readers \ Waiting(p, k) : reader'[c] = reader[c],
           \A c \in Waiting(p, k) :
               /\ Recent(reader'[c]) /\ reader'[c].ended = hour
               /\ Empty(reader'[c]) => Empty(reader[c]) /\ reader'[c].began = reader[c].began
    PROVE  CallsMove /\ \A c \in Readers : Recent(reader'[c])
<1>1. \A c \in Readers : Recent(reader[c])
  BY DEF MealInv, CallsAreRecent
<1>2. CallsMove
  <2>1. SUFFICES ASSUME NEW d \in Readers
        PROVE  /\ reader[d].how \in {"none", reader'[d].how}
               /\ reader'[d].how # "none" =>
                   \/ reader'[d].ended = hour
                   \/ /\ reader[d].how # "none" /\ reader'[d].ended = reader[d].ended
                      /\ reader'[d].answer.until = reader[d].answer.until
               /\ Empty(reader'[d]) =>
                   \/ Empty(reader[d]) /\ reader'[d].began = reader[d].began
                   \/ reader'[d].began = hour /\ Excused(d)
    BY DEF CallsMove
  <2>2. CASE d \in Waiting(p, k)
    <3>1. reader[d].how = "none"
      BY <1>1, <2>2 DEF Waiting, Recent
    <3> QED BY <2>2, <3>1
  <2>3. CASE d \notin Waiting(p, k)
    <3>1. reader'[d] = reader[d]
      BY <2>3
    <3> QED BY <3>1
  <2> QED BY <2>2, <2>3
<1> QED BY <1>1, <1>2

LEMMA LoadSucceedsKeeps ==
    ASSUME MealInv, NEW p \in Processes, NEW l \in loading[p], LoadSucceeds(p, l)
    PROVE  MealInv'
<1> DEFINE k == l.key
           W == Waiting(p, k)
           m == [of |-> l.of, until |-> hour + StaleFor]
           A(c) == Answered(reader[c], m, "fresh")
           N(c) == [A(c) EXCEPT !.at = "writing"]
<1>0. /\ MealShapes /\ EntriesAreRecent /\ MemoryIsAsked /\ reader \in [Readers -> MealCalls]
      /\ k \in Ranges /\ l.since \in Nat /\ l.of \in Nat /\ hour \in Nat
      /\ l.since <= hour /\ hour <= l.since + 1 /\ l.since <= l.of /\ l.of <= hour
      /\ TTL \in Nat /\ StaleFor \in Nat /\ TTL >= 1 /\ NoMenu \in Menus /\ NoMenu.until = 0
  BY LoadIs, Clock, NoMenuIs DEF LoadSucceeds
<1>1. /\ UNCHANGED <<hour, shelf, outages>>
      /\ loading' = [loading EXCEPT ![p] = Without(@, k)]
      /\ failures' = [failures EXCEPT ![p] = Without(@, k)]
      /\ Remember(p, k, l.of)
      /\ reader' = [c \in Readers |-> IF c \in W THEN N(c) ELSE reader[c]]
  BY DEF LoadSucceeds
<1>2. m \in Menus /\ m.of = l.of /\ m.until = hour + StaleFor
  BY <1>0 DEF Menus
<1>3. W \subseteq Readers /\ \A c \in W : AtProcess[c] = p /\ Wants[c] = k /\ reader[c].at = "waiting"
  BY DEF Waiting
<1> HIDE DEF m, W
<1>4. ASSUME NEW c \in W
      PROVE  /\ N(c) \in MealCalls /\ N(c).at = "writing" /\ N(c).began = reader[c].began
             /\ N(c).held = NoMenu /\ N(c).answer = m /\ N(c).how = "fresh" /\ N(c).ended = hour
             /\ Recent(N(c))
  <2>1. reader[c] \in MealCalls /\ reader[c].began \in Nat
    BY <1>0, <1>3 DEF MealCalls
  <2>2. /\ A(c) \in MealCalls /\ A(c).began = reader[c].began
        /\ A(c).held = NoMenu /\ A(c).answer = m /\ A(c).how = "fresh" /\ A(c).ended = hour
    BY <1>0, <1>2, <2>1 DEF Answered, MealCalls
  <2> DEFINE n == N(c)
  <2> HIDE DEF A
  <2>3. /\ n \in MealCalls /\ n.at = "writing" /\ n.began = reader[c].began
        /\ n.held = NoMenu /\ n.answer = m /\ n.how = "fresh" /\ n.ended = hour
    BY <2>2 DEF MealCalls
  <2>4. reader[c].began <= hour
    BY <1>3 DEF MealInv, CallsAreRecent, Recent
  <2>5. hour <= hour /\ hour <= hour + 1 /\ hour <= l.of + 1 /\ reader[c].began <= l.of + 2 * TTL
    BY <1>0, <2>1, <2>4
  <2> HIDE DEF n
  <2>6. Recent(n)
    BY <1>0, <1>2, <2>3, <2>4, <2>5 DEF Recent
  <2> QED BY <2>3, <2>6 DEF n
<1> HIDE DEF N
<1>5. /\ reader' \in [Readers -> MealCalls]
      /\ \A c \in W : reader'[c] = N(c)
      /\ \A c \in Readers \ W : reader'[c] = reader[c]
  BY <1>0, <1>1, <1>3, <1>4
<1>6. CallsMove /\ \A c \in Readers : Recent(reader'[c])
  <2>1. \A c \in W : Recent(reader'[c]) /\ reader'[c].ended = hour /\ ~Empty(reader'[c])
    BY <1>4, <1>5 DEF Empty
  <2> QED BY <1>0, <1>5, <2>1, WaitersMove DEF W
<1>7. MemoryGoesOn /\ \A u \in Nat : u <= hour + StaleFor => Keeps(p, k, u)'
  <2>1. \E c \in W : TRUE
    BY DEF MealInv, LoadsAreRecent, W
  <2>2. k \in Asked(p)'
    BY <1>3, <1>4, <1>5, <2>1 DEF Asked
  <2>3. hour <= l.of + TTL + 1
    BY <1>0
  <2> HIDE DEF k
  <2> QED BY <1>0, <1>1, <1>6, <2>2, <2>3, MovesAsk, MemoryIsFilled
<1>8. CallsGoOn
  <2>1. ASSUME NEW c \in Readers, NEW u \in Nat, u \in {reader'[c].held.until, reader'[c].answer.until}
        PROVE  Promised(c, u)
    <3>1. CASE c \in W
      <4>1. u = 0 \/ u = hour + StaleFor
        BY <1>0, <1>2, <1>4, <1>5, <2>1, <3>1
      <4>2. u = hour + StaleFor => u <= hour + StaleFor
        BY <1>0
      <4>3. u # 0 => Keeps(AtProcess[c], Wants[c], u)'
        BY <1>3, <1>7, <3>1, <4>1, <4>2
      <4> QED BY <4>3 DEF Promised
    <3>2. CASE c \notin W
      BY <1>5, <2>1, <3>2 DEF Promised
    <3> QED BY <3>1, <3>2
  <2> QED BY <1>5, <1>6, <2>1 DEF CallsGoOn
<1>9. FailuresGoOn
  <2>1. /\ DOMAIN failures' = Processes /\ failures'[p] = Without(failures[p], k)
        /\ \A q \in Processes \ {p} : failures'[q] = failures[q]
        /\ \A q \in Processes : Keys(failures[q], FailureEntries, MaxEntries)
        /\ MaxEntries \in Nat
    BY <1>0, <1>1, Clock DEF MealShapes
  <2>2. Without(failures[p], k) \in SUBSET failures[p]
    BY DEF Without
  <2>3. Keys(Without(failures[p], k), FailureEntries, MaxEntries)
    BY <2>1, <2>2, SubMap
  <2> QED BY <2>1, <2>3 DEF FailuresGoOn
<1>10. LoadsGoOn /\ LoadsAreRecent'
  BY <1>1, <1>5, LoadsEnd DEF W
<1>11. shelf' \in [Ranges -> Menus] /\ ShelfIsRecent' /\ outages' \in 0 .. MaxOutages
  BY <1>1, SameShelf, SameOutages
<1> QED BY <1>1, <1>7, <1>8, <1>9, <1>10, <1>11, GoingOn

LEMMA LoadFailsKeeps ==
    ASSUME MealInv, NEW p \in Processes, NEW l \in loading[p], LoadFails(p, l)
    PROVE  MealInv'
<1> DEFINE k == l.key
           W == Waiting(p, k)
           e == [key |-> k, gone |-> hour + Backoff, turn |-> 0]
<1>0. /\ MealShapes /\ EntriesAreRecent /\ MemoryIsAsked /\ reader \in [Readers -> MealCalls]
      /\ k \in Ranges /\ hour \in Nat /\ Backoff \in Nat /\ NoMenu.until = 0
  BY LoadIs, Clock, NoMenuIs
<1>1. /\ UNCHANGED <<hour, memory, shelf>>
      /\ outages < MaxOutages /\ outages' = outages + 1
      /\ loading' = [loading EXCEPT ![p] = Without(@, k)]
      /\ failures' = [failures EXCEPT ![p] = Put(@, e)]
      /\ reader' = [c \in Readers |-> IF c \in W THEN FallBack(reader[c]) ELSE reader[c]]
  BY DEF LoadFails
<1>2. e \in FailureEntries
  BY <1>0 DEF FailureEntries
<1>3. W \subseteq Readers /\ \A c \in W : AtProcess[c] = p /\ Wants[c] = k /\ reader[c].at = "waiting"
  BY DEF Waiting
<1> HIDE DEF e, W
<1>4. ASSUME NEW c \in W
      PROVE  LET n == FallBack(reader[c])
             IN  /\ n \in MealCalls /\ Recent(n) /\ n.began = reader[c].began /\ n.ended = hour
                 /\ n.held = NoMenu /\ n.answer = reader[c].held
                 /\ Empty(n) => Empty(reader[c])
  <2>1. reader[c] \in MealCalls /\ Recent(reader[c])
    BY <1>0, <1>3 DEF MealInv, CallsAreRecent
  <2>2. /\ FallBack(reader[c]) \in MealCalls /\ Recent(FallBack(reader[c]))
        /\ FallBack(reader[c]).at = "answered"
        /\ FallBack(reader[c]).began = reader[c].began /\ FallBack(reader[c]).ended = hour
        /\ FallBack(reader[c]).held = NoMenu /\ FallBack(reader[c]).answer = reader[c].held
        /\ FallBack(reader[c]).how = IF reader[c].held # NoMenu THEN "stale" ELSE "unavailable"
    BY <1>0, <2>1, FallBackIs
  <2> QED BY <1>3, <2>2 DEF Empty
<1>5. /\ reader' \in [Readers -> MealCalls]
      /\ \A c \in W : reader'[c] = FallBack(reader[c])
      /\ \A c \in Readers \ W : reader'[c] = reader[c]
  BY <1>0, <1>1, <1>3, <1>4
<1>6. CallsMove /\ \A c \in Readers : Recent(reader'[c])
  <2>1. \A c \in W : /\ Recent(reader'[c]) /\ reader'[c].ended = hour
                     /\ Empty(reader'[c]) => Empty(reader[c]) /\ reader'[c].began = reader[c].began
    BY <1>4, <1>5
  <2> QED BY <1>0, <1>5, <2>1, WaitersMove DEF W
<1>7. MemoryGoesOn
  BY <1>0, <1>1, <1>6, MovesAsk, SameMemory
<1>8. CallsGoOn
  <2>1. ASSUME NEW c \in Readers, NEW u \in Nat, u \in {reader'[c].held.until, reader'[c].answer.until}
        PROVE  Promised(c, u)
    <3>1. CASE c \in W
      BY <1>0, <1>4, <1>5, <2>1, <3>1 DEF Promised
    <3>2. CASE c \notin W
      BY <1>5, <2>1, <3>2 DEF Promised
    <3> QED BY <3>1, <3>2
  <2> QED BY <1>5, <1>6, <2>1 DEF CallsGoOn
<1>9. FailuresGoOn
  <2>1. /\ DOMAIN failures' = Processes /\ failures'[p] = Put(failures[p], e)
        /\ \A q \in Processes \ {p} : failures'[q] = failures[q]
        /\ \A q \in Processes : Keys(failures[q], FailureEntries, MaxEntries)
        /\ MaxEntries \in Nat \ {0}
    BY <1>0, <1>1, Clock DEF MealShapes
  <2>2. Keys(Put(failures[p], e), FailureEntries, MaxEntries)
    BY <1>2, <2>1, TwoKinds, PutMap
  <2> QED BY <2>1, <2>2 DEF FailuresGoOn
<1>10. LoadsGoOn /\ LoadsAreRecent'
  BY <1>1, <1>5, LoadsEnd DEF W
<1>11. shelf' \in [Ranges -> Menus] /\ ShelfIsRecent' /\ outages' \in 0 .. MaxOutages
  BY <1>1, SameShelf, SameOutages
<1> QED BY <1>1, <1>7, <1>8, <1>9, <1>10, <1>11, GoingOn

-----------------------------------------------------------------------------
(* Restarts and the clock.                                                  *)

LEMMA RestartProcessKeeps ==
    ASSUME MealInv, NEW p \in Processes, RestartProcess(p)
    PROVE  MealInv'
<1>0. /\ MealShapes /\ reader \in [Readers -> MealCalls] /\ hour \in Nat /\ MaxEntries \in Nat \ {0}
      /\ NoMenu \in Menus /\ NoMenu.until = 0 /\ MaxLoads \in Nat /\ hour' = hour /\ shelf' = shelf
  BY Clock, NoMenuIs, SchoolDataAssumption DEF MealInv, MealShapes, RestartProcess
<1>1. /\ DOMAIN memory' = Processes /\ DOMAIN failures' = Processes /\ DOMAIN loading' = Processes
      /\ memory'[p] = {} /\ failures'[p] = {} /\ loading'[p] = {}
      /\ \A q \in Processes \ {p} : memory'[q] = memory[q] /\ failures'[q] = failures[q] /\ loading'[q] = loading[q]
  BY <1>0 DEF MealShapes, RestartProcess
<1>2. reader' = [c \in Readers |->
           IF AtProcess[c] # p \/ reader[c].at \in {"idle", "over"} THEN reader[c]
           ELSE IF reader[c].at = "answered" THEN [reader[c] EXCEPT !.answer.until = 0]
           ELSE [NoMealCall EXCEPT !.at = "over"]]
  BY DEF RestartProcess
<1>3. ASSUME NEW c \in Readers
      PROVE  /\ reader'[c] \in MealCalls /\ Recent(reader'[c])
             /\ AtProcess[c] # p => reader'[c] = reader[c]
             /\ AtProcess[c] = p => reader'[c].held.until = 0 /\ reader'[c].answer.until = 0
  <2>0. reader[c] \in MealCalls /\ Recent(reader[c]) /\ reader[c].answer \in Menus
    BY <1>0 DEF MealInv, CallsAreRecent, MealCalls
  <2>1. CASE AtProcess[c] # p
    BY <1>2, <2>0, <2>1
  <2>2. CASE AtProcess[c] = p /\ reader[c].at \in {"idle", "over"}
    <3>1. reader'[c] = reader[c]
      BY <1>2, <2>2
    <3>2. reader[c].held = NoMenu /\ reader[c].answer = NoMenu
      BY <2>0, <2>2 DEF Recent
    <3> QED BY <1>0, <2>0, <2>2, <3>1, <3>2
  <2>3. CASE AtProcess[c] = p /\ reader[c].at = "answered"
    <3> DEFINE r == reader[c]
               a == [r.answer EXCEPT !.until = 0]
               n == [r EXCEPT !.answer = a]
    <3>1. reader'[c] = n
      BY <1>2, <2>3
    <3>2. a \in Menus /\ a.of = r.answer.of /\ a.until = 0
      BY <2>0 DEF Menus
    <3> HIDE DEF a
    <3>3. /\ n \in MealCalls /\ n.at = r.at /\ n.began = r.began /\ n.held = r.held
          /\ n.answer = a /\ n.how = r.how /\ n.ended = r.ended
      BY <2>0, <3>2 DEF MealCalls
    <3>4. r.held = NoMenu
      BY <2>0, <2>3 DEF Recent
    <3> HIDE DEF n
    <3>5. Recent(n)
      BY <2>0, <2>3, <3>2, <3>3 DEF Recent
    <3> QED BY <1>0, <2>3, <3>1, <3>2, <3>3, <3>4, <3>5
  <2>4. CASE AtProcess[c] = p /\ reader[c].at \notin {"idle", "over", "answered"}
    <3> DEFINE n == [NoMealCall EXCEPT !.at = "over"]
    <3>1. reader'[c] = n
      BY <1>2, <2>4
    <3>2. /\ n \in MealCalls /\ n.at = "over" /\ n.began = 0 /\ n.held = NoMenu
          /\ n.answer = NoMenu /\ n.how = "none"
      BY <1>0 DEF MealCalls, NoMealCall
    <3>3. 0 <= hour
      BY <1>0
    <3> HIDE DEF n
    <3>4. Recent(n)
      BY <3>2, <3>3 DEF Recent
    <3> QED BY <1>0, <2>4, <3>1, <3>2, <3>4
  <2> QED BY <2>1, <2>2, <2>3, <2>4
<1>4. reader' \in [Readers -> MealCalls]
  BY <1>2, <1>3
<1>5. ASSUME NEW q \in Processes \ {p}
      PROVE  Asked(q)' = Asked(q) /\ Room(q)' = Room(q)
  BY <1>3 DEF Asked, Room
<1>6. Keys({}, MenuEntries, MaxEntries) /\ Keys({}, FailureEntries, MaxEntries)
  BY <1>0, FS_EmptySet DEF Keys, Stamped
<1>7. IsFiniteSet({}) /\ Bounded({}, MaxLoads)
  BY <1>0, FS_EmptySet DEF Bounded
<1>8. MealShapes'
  <2>1. outages' \in 0 .. MaxOutages
    BY SameOutages DEF RestartProcess
  <2>2. \A q \in Processes :
        /\ Keys(memory'[q], MenuEntries, MaxEntries)
        /\ Keys(failures'[q], FailureEntries, MaxEntries)
        /\ loading'[q] \subseteq Loads /\ IsFiniteSet(loading'[q]) /\ Bounded(loading'[q], MaxLoads)
    BY <1>0, <1>1, <1>6, <1>7 DEF MealShapes
  <2> QED BY <1>0, <1>1, <1>4, <2>1, <2>2 DEF MealShapes
<1>9. EntriesAreRecent' /\ ShelfIsRecent' /\ CallsAreRecent'
  <2>1. EntriesAreRecent'
    BY <1>0, <1>1 DEF MealInv, EntriesAreRecent
  <2>2. ShelfIsRecent'
    BY <1>0 DEF MealInv, ShelfIsRecent
  <2>3. CallsAreRecent'
    BY <1>0, <1>3 DEF CallsAreRecent, Recent
  <2> QED BY <2>1, <2>2, <2>3
<1>10. LoadsAreRecent'
  <2>1. ASSUME NEW q \in Processes, NEW l \in loading'[q]
        PROVE  /\ l.since <= hour /\ hour <= l.since + 1
               /\ l.of # NoMenu.of => l.since <= l.of /\ l.of <= hour
               /\ \E d \in Readers : AtProcess[d] = q /\ Wants[d] = l.key /\ reader'[d].at = "waiting"
    <3>1. q # p /\ l \in loading[q]
      BY <1>1
    <3> QED BY <1>3, <3>1 DEF MealInv, LoadsAreRecent, Waiting
  <2> QED BY <1>0, <2>1 DEF LoadsAreRecent, Waiting
<1>11. MemoryIsAsked'
  BY <1>1, <1>5 DEF MealInv, MemoryIsAsked
<1>12. PromisesAreKept'
  <2>1. ASSUME NEW c \in Readers, NEW u \in {reader'[c].held.until, reader'[c].answer.until},
               u > hour, Room(AtProcess[c])'
        PROVE  \E e \in memory'[AtProcess[c]] : e.key = Wants[c] /\ e.gone >= u
    <3>1. AtProcess[c] \in Processes /\ AtProcess[c] # p
      BY <1>0, <1>3, <2>1, SchoolDataAssumption
    <3>2. reader'[c] = reader[c] /\ Room(AtProcess[c])
      BY <1>3, <1>5, <2>1, <3>1
    <3> QED BY <1>1, <2>1, <3>1, <3>2 DEF MealInv, PromisesAreKept, Keeps
  <2> QED BY <1>0, <2>1 DEF PromisesAreKept, Keeps
<1>13. MissesAreExcused'
  <2>1. SUFFICES ASSUME NEW c \in Readers, NEW d \in Readers,
                        AtProcess[d] = AtProcess[c], Wants[d] = Wants[c],
                        Empty(reader'[c]), reader'[d].how # "none",
                        reader'[d].ended < reader'[c].began, reader'[c].began < reader'[d].answer.until
                 PROVE  ~Room(AtProcess[c])'
    BY DEF MissesAreExcused, Empty
  <2>2. AtProcess[c] \in Processes
    BY SchoolDataAssumption
  <2>3. reader'[c].began \in Nat
    BY <1>4 DEF MealCalls
  <2>4. AtProcess[c] # p
    BY <1>3, <2>1, <2>3
  <2>5. reader'[c] = reader[c] /\ reader'[d] = reader[d]
    BY <1>3, <2>1, <2>4
  <2> QED BY <1>5, <2>1, <2>2, <2>4, <2>5 DEF MealInv, MissesAreExcused
<1> QED BY <1>8, <1>9, <1>10, <1>11, <1>12, <1>13 DEF MealInv

LEMMA PassTimeKeeps ==
    ASSUME MealInv, PassTime
    PROVE  MealInv'
<1>0. /\ MealShapes /\ hour \in Nat /\ MaxClock \in Nat /\ hour < MaxClock /\ hour' = hour + 1
      /\ UNCHANGED <<memory, failures, loading, shelf, reader, outages>>
      /\ StaleFor \in Nat /\ reader \in [Readers -> MealCalls]
  BY Clock DEF MealInv, MealShapes, PassTime
<1>1. MealShapes'
  <2>1. hour' \in 0 .. MaxClock
    BY <1>0
  <2> QED BY <1>0, <2>1 DEF MealShapes
<1>2. EntriesAreRecent'
  <2>1. ASSUME NEW p \in Processes, NEW e \in memory[p]
        PROVE  e.of <= hour + 1 /\ e.gone <= hour + 1 + StaleFor
    <3>1. e.of \in Nat /\ e.gone \in Nat
      BY <1>0 DEF MealShapes, Keys, MenuEntries
    <3>2. e.of <= hour /\ e.gone <= hour + StaleFor
      BY DEF MealInv, EntriesAreRecent
    <3> QED BY <1>0, <3>1, <3>2
  <2> QED BY <1>0, <2>1 DEF MealInv, EntriesAreRecent
<1>3. ShelfIsRecent'
  <2>1. ASSUME NEW k \in Ranges, shelf[k].until > hour + 1
        PROVE  shelf[k].of <= hour + 1 /\ shelf[k].until <= shelf[k].of + TTL + 2
    <3>1. shelf[k].of \in Nat /\ shelf[k].until \in Nat
      BY <1>0 DEF MealShapes, Menus
    <3>2. shelf[k].until > hour
      BY <1>0, <2>1, <3>1
    <3>3. shelf[k].of <= hour /\ shelf[k].until <= shelf[k].of + TTL + 2
      BY <3>2 DEF MealInv, ShelfIsRecent
    <3> QED BY <1>0, <3>1, <3>3
  <2> QED BY <1>0, <2>1 DEF ShelfIsRecent
<1>4. LoadsAreRecent'
  <2>1. ASSUME NEW p \in Processes, NEW l \in loading[p]
        PROVE  /\ l.since <= hour + 1 /\ hour + 1 <= l.since + 1
               /\ l.of # NoMenu.of => l.since <= l.of /\ l.of <= hour + 1
    <3>1. l.since = hour /\ l.of \in Nat
      BY LoadIs DEF PassTime
    <3>2. l.of # NoMenu.of => l.since <= l.of /\ l.of <= hour
      BY DEF MealInv, LoadsAreRecent
    <3> QED BY <1>0, <3>1, <3>2
  <2> QED BY <1>0, <2>1 DEF MealInv, LoadsAreRecent, Waiting
<1>5. CallsAreRecent'
  <2>1. ASSUME NEW c \in Readers
        PROVE  Recent(reader[c])'
    <3> DEFINE r == reader[c]
    <3>1. r \in MealCalls /\ Recent(r) /\ (r.at = "writing" => r.ended = hour) /\ r' = r
      BY <1>0 DEF MealInv, CallsAreRecent, PassTime
    <3>2. r.began \in Nat /\ r.held.of \in Nat /\ r.answer.of \in Nat /\ r.ended \in Nat
      BY <3>1 DEF MealCalls, Menus
    <3> HIDE DEF r
    <3>3. \A x \in Nat : x <= hour => x <= hour'
      BY <1>0
    <3>4. r.at = "writing" => hour' <= r.ended + 1
      BY <1>0, <3>1
    <3>5. Recent(r)'
      BY <3>1, <3>2, <3>3, <3>4 DEF Recent
    <3> QED BY <3>5 DEF r
  <2> QED BY <2>1 DEF CallsAreRecent
<1>6. MemoryIsAsked'
  BY <1>0 DEF MealInv, MemoryIsAsked, Asked
<1>7. \A q \in Processes : Room(q)' = Room(q)
  BY <1>0 DEF Room, Asked
<1>8. PromisesAreKept'
  <2>1. ASSUME NEW c \in Readers, NEW u \in {reader[c].held.until, reader[c].answer.until},
               u > hour + 1, Room(AtProcess[c])'
        PROVE  \E e \in memory[AtProcess[c]] : e.key = Wants[c] /\ e.gone >= u
    <3>1. u \in Nat /\ AtProcess[c] \in Processes
      BY <1>0, SchoolDataAssumption DEF MealCalls, Menus
    <3>2. u > hour /\ Room(AtProcess[c])
      BY <1>0, <1>7, <2>1, <3>1
    <3> QED BY <2>1, <3>2 DEF MealInv, PromisesAreKept, Keeps
  <2> QED BY <1>0, <2>1 DEF PromisesAreKept, Keeps
<1>9. MissesAreExcused'
  <2>1. \A c \in Readers : AtProcess[c] \in Processes
    BY SchoolDataAssumption
  <2> QED BY <1>0, <1>7, <2>1 DEF MealInv, MissesAreExcused, Empty
<1> QED BY <1>1, <1>2, <1>3, <1>4, <1>5, <1>6, <1>8, <1>9 DEF MealInv

LEMMA MealsBegin ==
    ASSUME SchoolInit
    PROVE  MealInv
<1>0. PICK calls \in SUBSET Readers : SchoolInitWith(calls)
  BY DEF SchoolInit
<1>1. /\ NoMenu \in Menus /\ NoMenu.until = 0 /\ MaxEntries \in Nat \ {0} /\ MaxLoads \in Nat
      /\ MaxClock \in Nat /\ MaxOutages \in Nat /\ hour = 0 /\ outages = 0
  BY <1>0, NoMenuIs, SchoolDataAssumption DEF SchoolInitWith
<1>2. /\ DOMAIN memory = Processes /\ DOMAIN failures = Processes /\ DOMAIN loading = Processes
      /\ \A p \in Processes : memory[p] = {} /\ failures[p] = {} /\ loading[p] = {}
      /\ shelf \in [Ranges -> Menus] /\ \A k \in Ranges : shelf[k] = NoMenu
  BY <1>0, <1>1 DEF SchoolInitWith
<1>3. ASSUME NEW c \in Readers
      PROVE  /\ reader[c] \in MealCalls /\ reader[c].at \in {"idle", "over"} /\ reader[c].began = 0
             /\ reader[c].held = NoMenu /\ reader[c].answer = NoMenu /\ reader[c].how = "none"
  <2>1. reader[c] \in {NoMealCall, [NoMealCall EXCEPT !.at = "over"]}
    BY <1>0 DEF SchoolInitWith
  <2> QED BY <1>1, <2>1 DEF NoMealCall, MealCalls
<1>4. Keys({}, MenuEntries, MaxEntries) /\ Keys({}, FailureEntries, MaxEntries)
  BY <1>1, FS_EmptySet DEF Keys, Stamped
<1>5. IsFiniteSet({}) /\ Bounded({}, MaxLoads)
  BY <1>1, FS_EmptySet DEF Bounded
<1>6. reader \in [Readers -> MealCalls]
  <2>1. reader = [c \in Readers |-> IF c \in calls THEN NoMealCall ELSE [NoMealCall EXCEPT !.at = "over"]]
    BY <1>0 DEF SchoolInitWith
  <2> QED BY <1>3, <2>1
<1>7. MealShapes
  <2>1. hour \in 0 .. MaxClock /\ outages \in 0 .. MaxOutages
    BY <1>1
  <2> QED BY <1>2, <1>4, <1>5, <1>6, <2>1 DEF MealShapes
<1>8. CallsAreRecent
  <2>1. ASSUME NEW c \in Readers PROVE Recent(reader[c])
    <3>1. reader[c].began <= hour
      BY <1>1, <1>3
    <3> QED BY <1>3, <3>1 DEF Recent
  <2> QED BY <2>1 DEF CallsAreRecent
<1>9. EntriesAreRecent /\ LoadsAreRecent /\ MemoryIsAsked
  BY <1>2 DEF EntriesAreRecent, LoadsAreRecent, MemoryIsAsked
<1>10. ShelfIsRecent
  BY <1>1, <1>2 DEF ShelfIsRecent
<1>11. PromisesAreKept
  BY <1>1, <1>3 DEF PromisesAreKept, Keeps
<1>12. MissesAreExcused
  BY <1>3 DEF MissesAreExcused
<1> QED BY <1>7, <1>8, <1>9, <1>10, <1>11, <1>12 DEF MealInv

LEMMA MealsGoOn ==
    ASSUME MealInv, [SchoolNext]_schoolVars
    PROVE  MealInv'
<1>1. CASE \E c \in Readers : ReadMemory(c) \/ FindOnShelf(c) \/ MissShelf(c) \/ WriteShelf(c)
  BY <1>1, ReadMemoryKeeps, FindOnShelfKeeps, MissShelfKeeps, WriteShelfKeeps
<1>2. CASE \E p \in Processes : \E l \in loading[p] :
               FirstPage(p, l) \/ LoadSucceeds(p, l) \/ LoadFails(p, l)
  BY <1>2, FirstPageKeeps, LoadSucceedsKeeps, LoadFailsKeeps
<1>3. CASE \E p \in Processes : RestartProcess(p)
  BY <1>3, RestartProcessKeeps
<1>4. CASE PassTime
  BY <1>4, PassTimeKeeps
<1>5. CASE UNCHANGED mealVars
  <2>1. UNCHANGED <<hour, memory, failures, loading, shelf, reader, outages>>
    BY <1>5 DEF mealVars
  <2>2. MealShapes' /\ EntriesAreRecent' /\ ShelfIsRecent'
    BY <2>1 DEF MealInv, MealShapes, EntriesAreRecent, ShelfIsRecent
  <2>3. LoadsAreRecent' /\ CallsAreRecent'
    BY <2>1 DEF MealInv, LoadsAreRecent, Waiting, CallsAreRecent, Recent
  <2>4. MemoryIsAsked' /\ PromisesAreKept' /\ MissesAreExcused'
    BY <2>1 DEF MealInv, MemoryIsAsked, PromisesAreKept, Keeps, MissesAreExcused, Empty, Room, Asked
  <2> QED BY <2>2, <2>3, <2>4 DEF MealInv
<1>6. CalendarNext => UNCHANGED mealVars
  BY DEF CalendarNext, CreateManagedEvent, FindManagedEvent, UpdateManagedEvent,
         DeleteManagedEvent, ImportManagedEvents
<1>7. UNCHANGED schoolVars => UNCHANGED mealVars
  BY DEF schoolVars
<1> QED BY <1>1, <1>2, <1>3, <1>4, <1>5, <1>6, <1>7 DEF SchoolNext, MealNext

-----------------------------------------------------------------------------
(* The calendar.                                                            *)

\* An event as it is written.
WellFormed(e) ==
    /\ DOMAIN e = EventFields /\ e.startsAt <= e.endsAt /\ e.isHoliday = (e.category = "holiday")

LEMMA EventValuesAreWellFormed ==
    ASSUME NEW e, DOMAIN e = EventFields, ValidEvent(e)
    PROVE  WellFormed(EventValues(e))
<1> DEFINE c == Category(e.category, e.isHoliday)
           v == [e EXCEPT !.category = c, !.isHoliday = (c = "holiday")]
<1>1. EventValues(e) = v
  BY DEF EventValues
<1> HIDE DEF c
<1>2. /\ DOMAIN v = EventFields /\ v.startsAt = e.startsAt /\ v.endsAt = e.endsAt
      /\ v.category = c /\ v.isHoliday = (c = "holiday")
  BY DEF EventFields
<1> HIDE DEF v
<1> QED BY <1>1, <1>2 DEF WellFormed, ValidEvent

LEMMA OverHasFields ==
    ASSUME NEW changes, DOMAIN changes \subseteq EventFields, NEW e, DOMAIN e = EventFields
    PROVE  DOMAIN Over(changes, e) = EventFields
BY DEF Over

LEMMA CalendarBegins ==
    ASSUME SchoolInit
    PROVE  CalendarInv
<1>1. PICK calls \in SUBSET Readers : SchoolInitWith(calls)
  BY DEF SchoolInit
<1>2. DOMAIN calendar = {} /\ lastId = 0 /\ lastId \in 0 .. MaxEvents
  BY <1>1, SchoolDataAssumption DEF SchoolInitWith
<1>3. /\ DOMAIN changing = Updates \cup Deletions
      /\ \A u \in Updates \cup Deletions :
             DOMAIN changing[u] = {"at", "id", "read"} /\ changing[u].at = "idle"
  BY <1>1 DEF SchoolInitWith
<1> QED BY <1>2, <1>3 DEF CalendarInv, EventsAreWellFormed

\* The invariant from its parts.
LEMMA CalendarFrom ==
    ASSUME CalendarInv, lastId' \in 0 .. MaxEvents, DOMAIN calendar' \subseteq 1 .. lastId',
           \A id \in DOMAIN calendar' :
               WellFormed(calendar'[id]) \/ (id \in DOMAIN calendar /\ calendar'[id] = calendar[id]),
           \/ changing' = changing
           \/ \E u \in Updates \cup Deletions : changing' = [changing EXCEPT ![u].at = "over"]
    PROVE  CalendarInv'
<1>1. \A id \in DOMAIN calendar' : WellFormed(calendar'[id])
  BY DEF CalendarInv, EventsAreWellFormed, WellFormed
<1>2. /\ DOMAIN changing' = Updates \cup Deletions
      /\ \A u \in Updates \cup Deletions :
          /\ DOMAIN changing'[u] = {"at", "id", "read"}
          /\ changing'[u].at = "found" => DOMAIN changing'[u].read = EventFields
  <2>1. CASE changing' = changing
    BY <2>1 DEF CalendarInv
  <2>2. CASE \E u \in Updates \cup Deletions : changing' = [changing EXCEPT ![u].at = "over"]
    BY <2>2 DEF CalendarInv
  <2> QED BY <2>1, <2>2
<1> QED BY <1>1, <1>2 DEF CalendarInv, EventsAreWellFormed, WellFormed

LEMMA CalendarGoesOn ==
    ASSUME CalendarInv, [SchoolNext]_schoolVars
    PROVE  CalendarInv'
<1>0. lastId \in Nat /\ lastId <= MaxEvents /\ MaxEvents \in Nat /\ DOMAIN calendar \subseteq 1 .. lastId
  BY SchoolDataAssumption DEF CalendarInv
<1>1. ASSUME NEW e \in Drafts, CreateManagedEvent(e)
      PROVE  CalendarInv'
  <2>1. DOMAIN e = EventFields
    BY SchoolDataAssumption DEF Events, EventFields
  <2>2. WellFormed(EventValues(e))
    BY <1>1, <2>1, EventValuesAreWellFormed DEF CreateManagedEvent
  <2>3. /\ lastId' = lastId + 1 /\ lastId < MaxEvents /\ changing' = changing
        /\ DOMAIN calendar' = DOMAIN calendar \cup {lastId'}
        /\ \A id \in DOMAIN calendar' :
               calendar'[id] = IF id = lastId' THEN EventValues(e) ELSE calendar[id]
    BY <1>1 DEF CreateManagedEvent
  <2>4. lastId' \in 0 .. MaxEvents /\ DOMAIN calendar' \subseteq 1 .. lastId'
    BY <1>0, <2>3
  <2> QED BY <2>2, <2>3, <2>4, CalendarFrom
<1>2. ASSUME NEW u \in Updates \cup Deletions, NEW id \in 1 .. MaxEvents, FindManagedEvent(u, id)
      PROVE  CalendarInv'
  <2> DEFINE n == [at |-> "found", id |-> id, read |-> calendar[id]]
  <2>1. DOMAIN n = {"at", "id", "read"} /\ n.read = calendar[id]
    OBVIOUS
  <2>2. changing' = [changing EXCEPT ![u] = n] /\ calendar' = calendar /\ lastId' = lastId /\ id \in DOMAIN calendar
    BY <1>2 DEF FindManagedEvent
  <2> HIDE DEF n
  <2>3. DOMAIN n.read = EventFields
    BY <2>1, <2>2 DEF CalendarInv
  <2> QED BY <2>1, <2>2, <2>3 DEF CalendarInv, EventsAreWellFormed
<1>3. ASSUME NEW u \in Updates, UpdateManagedEvent(u)
      PROVE  CalendarInv'
  <2> DEFINE id == changing[u].id
             e == Over(ChangesOf[u], changing[u].read)
  <2>1. DOMAIN e = EventFields
    <3>1. DOMAIN changing[u].read = EventFields
      BY <1>3 DEF CalendarInv, UpdateManagedEvent
    <3>2. DOMAIN ChangesOf[u] \subseteq EventFields
      BY SchoolDataAssumption DEF EventFields
    <3> QED BY <3>1, <3>2, OverHasFields
  <2>2. /\ changing' = [changing EXCEPT ![u].at = "over"] /\ lastId' = lastId
        /\ \/ ValidEvent(e) /\ calendar' = [calendar EXCEPT ![id] = EventValues(e)]
           \/ calendar' = calendar
    BY <1>3 DEF UpdateManagedEvent, Merged
  <2> HIDE DEF e
  <2>3. \A i \in DOMAIN calendar' :
            WellFormed(calendar'[i]) \/ (i \in DOMAIN calendar /\ calendar'[i] = calendar[i])
    BY <2>1, <2>2, EventValuesAreWellFormed
  <2>4. DOMAIN calendar' = DOMAIN calendar
    BY <2>2
  <2> QED BY <1>0, <2>2, <2>3, <2>4, CalendarFrom DEF CalendarInv
<1>4. ASSUME NEW u \in Deletions, DeleteManagedEvent(u)
      PROVE  CalendarInv'
  <2>1. /\ changing' = [changing EXCEPT ![u].at = "over"] /\ lastId' = lastId
        /\ DOMAIN calendar' = DOMAIN calendar \ {changing[u].id}
        /\ \A i \in DOMAIN calendar' : calendar'[i] = calendar[i]
    BY <1>4 DEF DeleteManagedEvent
  <2> QED BY <1>0, <2>1, CalendarFrom DEF CalendarInv
<1>5. ASSUME NEW file \in ImportFiles, NEW replaceRange \in BOOLEAN, ImportManagedEvents(file, replaceRange)
      PROVE  CalendarInv'
  <2> DEFINE kept == DOMAIN calendar \ (IF replaceRange THEN Overlapping(file) ELSE {})
             new == lastId + 1 .. lastId + Len(file)
  <2>1. file \in Seq(Events) /\ Len(file) \in Nat /\ DOMAIN file = 1 .. Len(file)
    BY SchoolDataAssumption
  <2>2. /\ lastId' = lastId + Len(file) /\ lastId + Len(file) <= MaxEvents /\ changing' = changing
        /\ \A i \in DOMAIN file : ValidEvent(file[i])
        /\ DOMAIN calendar' = kept \cup new
        /\ \A id \in kept \cup new :
               calendar'[id] = IF id \in kept THEN calendar[id] ELSE EventValues(file[id - lastId])
    BY <1>5 DEF ImportManagedEvents
  <2>3. kept \subseteq DOMAIN calendar
    OBVIOUS
  <2> HIDE DEF kept
  <2>4. lastId' \in 0 .. MaxEvents /\ DOMAIN calendar' \subseteq 1 .. lastId'
    BY <1>0, <2>1, <2>2, <2>3
  <2>5. ASSUME NEW id \in new
        PROVE  WellFormed(EventValues(file[id - lastId]))
    <3>1. id - lastId \in 1 .. Len(file)
      BY <1>0, <2>1
    <3>2. file[id - lastId] \in Events /\ ValidEvent(file[id - lastId])
      BY <2>1, <2>2, <3>1
    <3>3. DOMAIN file[id - lastId] = EventFields
      BY <3>2 DEF Events, EventFields
    <3> QED BY <3>2, <3>3, EventValuesAreWellFormed
  <2> HIDE DEF new
  <2>6. \A id \in DOMAIN calendar' :
            WellFormed(calendar'[id]) \/ (id \in DOMAIN calendar /\ calendar'[id] = calendar[id])
    BY <2>2, <2>3, <2>5
  <2> QED BY <2>2, <2>4, <2>6, CalendarFrom
<1>6. CASE UNCHANGED eventVars
  <2>1. UNCHANGED <<calendar, lastId, changing>>
    BY <1>6 DEF eventVars
  <2> QED BY <2>1 DEF CalendarInv, EventsAreWellFormed
<1>7. MealNext => UNCHANGED eventVars
  <2>1. PassTime => UNCHANGED eventVars
    BY DEF PassTime
  <2> QED BY <2>1 DEF MealNext, ReadMemory, FindOnShelf, MissShelf, WriteShelf, FirstPage, LoadSucceeds,
                      LoadFails, RestartProcess
<1>8. UNCHANGED schoolVars => UNCHANGED eventVars
  BY DEF schoolVars
<1> QED BY <1>1, <1>2, <1>3, <1>4, <1>5, <1>6, <1>7, <1>8 DEF SchoolNext, CalendarNext

-----------------------------------------------------------------------------
LEMMA SoundFromInv ==
    ASSUME MealInv, CalendarInv
    PROVE  SchoolDataIsSound
<1>0. /\ MealShapes /\ hour \in Nat /\ hour <= MaxClock /\ reader \in [Readers -> MealCalls]
      /\ MaxEntries \in Nat
  BY Clock DEF MealInv, MealShapes
<1>1. SchoolDataTypeOK
  <2>1. \A p \in Processes :
        /\ Bounded(memory[p], MaxEntries) /\ Bounded(failures[p], MaxEntries)
        /\ Bounded(loading[p], MaxLoads)
        /\ \A e \in memory[p] : e.key \in Ranges /\ e.of <= hour /\ e.fresh <= e.gone
    BY <1>0 DEF MealInv, MealShapes, Keys, Bounded, MenuEntries, EntriesAreRecent
  <2>2. \A c \in Readers : reader[c].at \in {"idle", "redis", "waiting", "writing", "answered", "over"}
    BY <1>0 DEF MealCalls
  <2> QED BY <1>0, <2>1, <2>2 DEF MealShapes, CalendarInv, SchoolDataTypeOK
<1>2. MealsAreRecent
  <2>1. ASSUME NEW c \in Readers
        PROVE  LET r == reader[c]
               IN  r.at = "answered" =>
                /\ r.how = "fresh" => r.answer # NoMenu /\ r.began <= r.answer.of + 2 * TTL
                /\ r.how = "stale" => r.answer # NoMenu /\ r.began <= r.answer.of + TTL + StaleFor
    <3> DEFINE r == reader[c]
    <3>1. r.answer \in Menus /\ r.answer.of \in Nat /\ MaxClock \in Nat
      BY <1>0, Clock DEF MealCalls, Menus
    <3>2. r.answer.of <= hour => r.answer # NoMenu
      BY <1>0, <3>1, NoMenuIs
    <3>3. Recent(r)
      BY DEF MealInv, CallsAreRecent
    <3> QED BY <3>2, <3>3 DEF Recent
  <2> QED BY <2>1 DEF MealsAreRecent
<1>3. OutagesAreBridged
  <2>1. SUFFICES ASSUME NEW c \in Readers, NEW d \in Readers,
                        AtProcess[d] = AtProcess[c], Wants[d] = Wants[c],
                        reader[c].at = "answered", reader[d].at = "answered",
                        reader[d].ended < reader[c].began, reader[c].began < reader[d].answer.until,
                        Cardinality(Asked(AtProcess[c]) \cup {Wants[c]}) <= MaxEntries,
                        reader[c].how = "unavailable"
                 PROVE  FALSE
    BY DEF OutagesAreBridged, Asked
  <2> DEFINE asked == Asked(AtProcess[c])
  <2>2. reader[d].how # "none"
    BY <2>1 DEF MealInv, CallsAreRecent, Recent
  <2>3. ~Room(AtProcess[c])
    BY <2>1, <2>2 DEF MealInv, MissesAreExcused, Empty
  <2>4. IsFiniteSet(asked)
    BY AskedIsFinite, SchoolDataAssumption
  <2>5. ~(Cardinality(asked) <= MaxEntries)
    BY <2>3 DEF Room
  <2> HIDE DEF asked
  <2>6. /\ IsFiniteSet(asked \cup {Wants[c]}) /\ asked \in SUBSET (asked \cup {Wants[c]})
    BY <2>4, FS_AddElement
  <2>7. Cardinality(asked) <= Cardinality(asked \cup {Wants[c]})
    BY <2>6, FS_Subset
  <2>8. Cardinality(asked) \in Nat /\ Cardinality(asked \cup {Wants[c]}) \in Nat
    BY <2>4, <2>6, FS_CardinalityType
  <2>9. Cardinality(asked \cup {Wants[c]}) <= MaxEntries
    BY <2>1 DEF asked
  <2> QED BY <1>0, <2>5, <2>7, <2>8, <2>9
<1> QED BY <1>1, <1>2, <1>3 DEF CalendarInv, SchoolDataIsSound

\* Menus are as recent as the code promises and an outage reaches no call that could be
\* bridged, whatever the processes, restarts and failures do; and events of the calendar
\* stay well formed under interleaved updates, deletions and imports.
THEOREM SchoolDataSound == SchoolSpec => []SchoolDataIsSound
<1>1. SchoolInit => MealInv /\ CalendarInv
  BY MealsBegin, CalendarBegins
<1>2. MealInv /\ CalendarInv /\ [SchoolNext]_schoolVars => (MealInv /\ CalendarInv)'
  BY MealsGoOn, CalendarGoesOn
<1>3. MealInv /\ CalendarInv => SchoolDataIsSound
  BY SoundFromInv
<1> QED BY <1>1, <1>2, <1>3, PTL DEF SchoolSpec
=============================================================================
