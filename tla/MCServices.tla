----------------------------- MODULE MCServices -----------------------------
(***************************************************************************)
(* Small instances of the services that share no state: the beds of a      *)
(* term, petitions, activity requests, device cases, posts, notices, the   *)
(* resetting of a password, the candidate week, menus, the calendar and    *)
(* the releases of the server.  A behaviour is one of one of them, so the  *)
(* run explores the sum of their state spaces.                             *)
(***************************************************************************)
EXTENDS BoardPosts, Dormitory, DeviceCases, ActivityRequests, Petitions, PasswordReset,
        CandidateWeek, Submissions, Deployment, SchoolData

CONSTANTS ann, ben, eve, roomA, roomB, ask, move, swap, draw, cancel,
          tab1, tab2, image, blank, first, second, edit, voter, yes, no,
          p1, p2, p3, i1, i2, e1, m1, m2, m3, m4, pa, pb, may, june, u1, u2, u3

VARIABLE part   \* the service this behaviour is of

-----------------------------------------------------------------------------
\* Two beds and one bed; ann and eve are in one class.
MCCapacity == [r \in Rooms |-> IF r = roomA THEN 2 ELSE 1]
MCSuits == [s \in Students |-> Rooms]
MCClassOf == [s \in Students |-> IF s = ben THEN 2 ELSE 1]
MCAbout ==
    [c \in DormCalls |-> CASE c = swap -> {ann, ben} [] c = draw -> {ben, eve} [] c = move -> {ben}
                           [] OTHER -> {ann}]
MCTo == [c \in Creations \cup Moves |-> [room |-> IF c = ask THEN roomA ELSE roomB, position |-> 1]]
MCEnterable == {{ann, ben}}

\* One tab submits an image, the other writes on the same draft; the poll of the
\* first document has an option less in the second.
MCPollOf ==
    [d \in Documents \cup {NoDocument} |->
        IF d = first THEN {yes, no} ELSE IF d = second THEN {no} ELSE {}]
MCImagesOf == [t \in Tabs |-> IF t = tab1 THEN {image} ELSE {}]
MCMaxTyped == [t \in Tabs |-> 1]
MCEditedTo == [e \in Edits |-> second]
MCChoice == [v \in Voters |-> yes]

\* In the part "drafts" the pages save as they please and nobody votes or corrects;
\* in the part "posts" a page saves what it has typed, until it submits.
OnlyDrafts ==
    /\ voting' = voting
    /\ \A e \in Edits : sent'[<<"edit", e>>] = NoCall /\ <<e, e, 0>> \notin uploads'
SavesWhatIsTyped ==
    \A t \in Tabs :
        sent[<<"autosave", t>>] = NoCall /\ sent'[<<"autosave", t>>] # NoCall =>
            page[t].step = "editing" /\ page[t].typed > 0

\* A notice with an image and an attachment, one of text only, and a corrector
\* who adds an image.
MCPictures == [p \in FormPages |-> IF p = p1 THEN {i1} ELSE IF p = p3 THEN {i2} ELSE {}]
MCEnclosures == [p \in FormPages |-> IF p = p1 THEN {e1} ELSE {}]

\* Three calls for one range, two of them in one process, or two and one for another
\* range in that process.
MCAtProcess == [c \in Readers |-> IF c = m3 THEN pb ELSE pa]
MCWants == [c \in Readers |-> IF c = m4 THEN june ELSE may]
MealCalls == {{m1, m2, m3}, {m1, m2, m4}}

\* Two that are alike begin in this order.
InOrder == reader'[m2].at # "idle" => reader'[m1].at # "idle"

\* Two changes that each give one end of an event, and one that ends a holiday.
Event(from, to, category, isHoliday) ==
    [startsAt |-> from, endsAt |-> to, category |-> category, isHoliday |-> isHoliday]
MCDrafts == {Event(1, 2, "school", FALSE), Event(2, 2, "observance", TRUE)}
MCFiles == {<<Event(2, 3, "holiday", FALSE), Event(3, 3, "other", FALSE)>>}
MCChangesOf ==
    [u \in Updates |-> CASE u = u1 -> [endsAt |-> 1] [] u = u2 -> [startsAt |-> 2]
                         [] OTHER -> [isHoliday |-> FALSE]]

-----------------------------------------------------------------------------
MCInit ==
    /\ part \in {"drafts", "posts", "beds", "cases", "requests", "petitions", "reset", "week",
                "notices", "releases", "menus", "calendar"}
    /\ BoardInit /\ DeviceInit /\ ActivityInit /\ PetitionInit /\ ResetInit /\ WeekInit
    /\ SubmissionInit /\ DeploymentInit
    /\ \E S \in IF part = "menus" THEN MealCalls ELSE {{}} : SchoolInitWith(S)
    /\ part # "week" => createdAt = 0
    /\ DormInit /\ (part # "beds" => bed = [s \in Students |-> NoBed])

MCNext ==
    \/ /\ part \in {"drafts", "posts"} /\ BoardNext
       /\ IF part = "drafts" THEN OnlyDrafts ELSE SavesWhatIsTyped
       /\ UNCHANGED <<part, dormVars, deviceVars, activityVars, petitionVars, resetVars,
                      createdAt, submissionVars, deploymentVars, schoolVars>>
    \/ /\ part = "beds" /\ DormNext
       /\ UNCHANGED <<part, boardVars, deviceVars, activityVars, petitionVars, resetVars,
                      createdAt, submissionVars, deploymentVars, schoolVars>>
    \/ /\ part = "cases" /\ DeviceNext
       /\ UNCHANGED <<part, boardVars, dormVars, activityVars, petitionVars, resetVars,
                      createdAt, submissionVars, deploymentVars, schoolVars>>
    \/ /\ part = "requests" /\ ActivityNext
       /\ UNCHANGED <<part, boardVars, dormVars, deviceVars, petitionVars, resetVars,
                      createdAt, submissionVars, deploymentVars, schoolVars>>
    \/ /\ part = "petitions" /\ PetitionNext
       /\ UNCHANGED <<part, boardVars, dormVars, deviceVars, activityVars, resetVars,
                      createdAt, submissionVars, deploymentVars, schoolVars>>
    \/ /\ part = "reset" /\ ResetNext
       /\ UNCHANGED <<part, boardVars, dormVars, deviceVars, activityVars, petitionVars,
                      createdAt, submissionVars, deploymentVars, schoolVars>>
    \/ /\ part = "week" /\ WeekNext
       /\ UNCHANGED <<part, boardVars, dormVars, deviceVars, activityVars, petitionVars,
                      resetVars, submissionVars, deploymentVars, schoolVars>>
    \/ /\ part = "notices" /\ SubmissionNext
       /\ UNCHANGED <<part, boardVars, dormVars, deviceVars, activityVars, petitionVars,
                      resetVars, createdAt, deploymentVars, schoolVars>>
    \/ /\ part = "releases" /\ DeploymentNext
       /\ UNCHANGED <<part, boardVars, dormVars, deviceVars, activityVars, petitionVars,
                      resetVars, createdAt, submissionVars, schoolVars>>
    \/ /\ part \in {"menus", "calendar"}
       /\ IF part = "menus" THEN MealNext /\ InOrder ELSE CalendarNext
       /\ UNCHANGED <<part, boardVars, dormVars, deviceVars, activityVars, petitionVars,
                      resetVars, createdAt, submissionVars, deploymentVars>>

MCVars == <<part, boardVars, dormVars, deviceVars, activityVars, petitionVars, resetVars,
                    createdAt, submissionVars, deploymentVars, schoolVars>>

MCSpec == MCInit /\ [][MCNext]_MCVars

\* What every service keeps is of its kind.
ServicesTypeOK ==
    /\ BoardTypeOK /\ DormTypeOK /\ DeviceTypeOK /\ ActivityTypeOK /\ PetitionTypeOK
    /\ ResetTypeOK /\ WeekTypeOK /\ SubmissionTypeOK /\ DeploymentTypeOK
=============================================================================
