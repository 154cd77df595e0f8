----------------------------- MODULE WakeSongs -----------------------------
(***************************************************************************)
(* apps/api/src/modules/wake-songs: students ask for a segment of a video  *)
(* to be played in the morning; reviewers approve, edit and schedule the   *)
(* requests, and have the approved ones converted to a recording.          *)
(*                                                                         *)
(* A conversion runs for minutes and works on the request as it was read   *)
(* when the conversion was ordered.  An edit meanwhile commits the new     *)
(* segment first and then discards the recordings it finds.                *)
(*                                                                         *)
(* Recordings are files: each conversion draws a key of its own, and the   *)
(* files module is taken at its word (FileStore).                          *)
(***************************************************************************)
EXTENDS Naturals, FiniteSets

CONSTANTS
    Songs,          \* wake song requests
    Students,       \* who asks for them
    RequesterOf,    \* the student of a request
    Segments,       \* what can be asked for: video, start, end and rate
    Editors,        \* calls of adminUpdate
    Conversions,    \* calls of generateAudio, and the keys they store under
    SongOf,         \* the request an edit or a conversion is about
    Processes,      \* API processes
    ProcessOf,      \* the process an edit or a conversion runs in
    MaxPending,     \* MAX_PENDING_WAKE_SONG_REQUESTS
    MaxFaults,      \* bound on failed invalidations, lost answers and crashes
    None            \* no lock holder, no segment, no conversion, no recording

VARIABLES
    status,         \* status[r]: the status of request r, "none" before it exists
    segment,        \* segment[r]: the segment of request r
    userLock,       \* userLock[s]: the request whose creation locked the row of s
    pendingSeen,    \* pendingSeen[r]: PENDING requests counted by the creation of r
    store,          \* store[g]: the life of the recording of conversion g
    parent,         \* the parent rows of recordings; requests are never deleted
    read,           \* read[g]: the segment conversion g read and renders
    raced,          \* conversions whose request was edited under them (history)
    inFlight,       \* inFlight[p][r]: the conversion of r that process p runs
    joined,         \* joined[g]: the conversion whose result g waits for
    answer,         \* answer[g]: the recording offered to the caller of g
    rows,           \* rows[e]: recordings edit e read and has yet to discard
    pc,             \* pc[c]: where creation, edit or conversion c is
    faults          \* faults injected so far

vars == <<status, segment, userLock, pendingSeen, store, parent, read, raced,
          inFlight, joined, answer, rows, pc, faults>>

requestVars == <<status, segment>>
createVars == <<userLock, pendingSeen>>
fileVars == <<store, parent>>
conversionVars == <<read, raced, inFlight, joined, answer>>

Calls == Editors \cup Conversions
Statuses == {"none", "PENDING", "APPROVED", "REJECTED", "SCHEDULED", "PLAYED",
             "CANCELED"}

ASSUME CallAssumption ==
    /\ Songs \cap Calls = {} /\ Editors \cap Conversions = {}
    /\ IsFiniteSet(Songs)
    /\ RequesterOf \in [Songs -> Students]
    /\ SongOf \in [Calls -> Songs]
    /\ ProcessOf \in [Calls -> Processes]

ASSUME ValueAssumption ==
    /\ None \notin Songs \cup Conversions \cup Segments
    /\ MaxPending \in Nat /\ MaxFaults \in Nat

Files == INSTANCE FileStore WITH
    Uploads <- Conversions, Targets <- Songs,
    TargetOf <- [g \in Conversions |-> SongOf[g]], status <- store

TypeOK ==
    /\ status \in [Songs -> Statuses]
    /\ segment \in [Songs -> Segments \cup {None}]
    /\ userLock \in [Students -> Songs \cup {None}]
    /\ pendingSeen \in [Songs -> Nat]
    /\ store \in [Conversions -> Files!Status]
    /\ parent = [r \in Songs |-> "live"]
    /\ read \in [Conversions -> Segments \cup {None}]
    /\ raced \subseteq Conversions
    /\ inFlight \in [Processes -> [Songs -> Conversions \cup {None}]]
    /\ joined \in [Conversions -> Conversions \cup {None}]
    /\ answer \in [Conversions -> Conversions \cup {None}]
    /\ rows \in [Editors -> SUBSET Conversions]
    /\ pc \in [Songs \cup Calls ->
                 {"idle", "locked", "counted", "committed", "listed", "read",
                  "checked", "joined", "rendering", "stored", "settling", "done"}]
    /\ faults \in Nat

Init ==
    /\ Files!Init
    /\ status = [r \in Songs |-> "none"]
    /\ segment = [r \in Songs |-> None]
    /\ userLock = [s \in Students |-> None]
    /\ pendingSeen = [r \in Songs |-> 0]
    /\ read = [g \in Conversions |-> None]
    /\ raced = {}
    /\ inFlight = [p \in Processes |-> [r \in Songs |-> None]]
    /\ joined = [g \in Conversions |-> None]
    /\ answer = [g \in Conversions |-> None]
    /\ rows = [e \in Editors |-> {}]
    /\ pc = [c \in Songs \cup Calls |-> "idle"]
    /\ faults = 0

-----------------------------------------------------------------------------
(* An operator whose name starts with Mutant is a plausible slip in the     *)
(* definition that follows it; no action uses it.                           *)

Goto(c, l) == pc' = [pc EXCEPT ![c] = l]

NoFault == UNCHANGED faults

Fault ==
    /\ faults < MaxFaults
    /\ faults' = faults + 1

\* A recording may exist of a request that was approved, whatever came later.
Convertible(r) == status[r] \in {"APPROVED", "SCHEDULED", "PLAYED"}

Pending(s) == {r \in Songs : RequesterOf[r] = s /\ status[r] = "PENDING"}

\* The file rows of a request, those on their way out included.
Recordings(r) == {g \in Conversions : SongOf[g] = r /\ store[g] \in {"live", "doomed"}}

-----------------------------------------------------------------------------
(* Requests. *)

\* Slip: the row of the student is not locked.
MutantBeginCreate(r) ==
    /\ status[r] = "none"
    /\ pc[r] = "idle"
    /\ Goto(r, "locked")
    /\ UNCHANGED <<requestVars, createVars, fileVars, conversionVars, rows>>
    /\ NoFault

\* create() is one transaction of several statements: it locks the row of the
\* student, counts the pending requests without locking them, and inserts.
BeginCreate(r) ==
    /\ status[r] = "none"
    /\ pc[r] = "idle"
    /\ userLock[RequesterOf[r]] = None
    /\ userLock' = [userLock EXCEPT ![RequesterOf[r]] = r]
    /\ Goto(r, "locked")
    /\ UNCHANGED <<requestVars, pendingSeen, fileVars, conversionVars, rows>>
    /\ NoFault

CountPending(r) ==
    /\ pc[r] = "locked"
    /\ pendingSeen' = [pendingSeen EXCEPT ![r] = Cardinality(Pending(RequesterOf[r]))]
    /\ Goto(r, "counted")
    /\ UNCHANGED <<requestVars, userLock, fileVars, conversionVars, rows>>
    /\ NoFault

\* A refused request may be sent again.
FinishCreate(r) ==
    /\ pc[r] = "counted"
    /\ \/ /\ pendingSeen[r] < MaxPending
          /\ status' = [status EXCEPT ![r] = "PENDING"]
          /\ \E s \in Segments : segment' = [segment EXCEPT ![r] = s]
          /\ Goto(r, "done")
       \/ /\ pendingSeen[r] >= MaxPending
          /\ Goto(r, "idle")
          /\ UNCHANGED requestVars
    /\ userLock' = [userLock EXCEPT ![RequesterOf[r]] = None]
    /\ UNCHANGED <<pendingSeen, fileVars, conversionVars, rows>>
    /\ NoFault

\* A transition of the status machine, one transaction under the row lock.
Transition(r, from, to) ==
    /\ status[r] \in from
    /\ status' = [status EXCEPT ![r] = to]
    /\ UNCHANGED <<segment, createVars, fileVars, conversionVars, rows, pc>>
    /\ NoFault

\* update() by the student.
UpdateRequest(r) ==
    /\ status[r] = "PENDING"
    /\ \E s \in Segments : segment' = [segment EXCEPT ![r] = s]
    /\ UNCHANGED <<status, createVars, fileVars, conversionVars, rows, pc>>
    /\ NoFault

Cancel(r) == Transition(r, {"PENDING"}, "CANCELED")

\* Slip: an approval can be taken back.
MutantReview(r) ==
    \/ Transition(r, {"PENDING"}, "APPROVED")
    \/ Transition(r, {"PENDING", "APPROVED"}, "REJECTED")

Review(r) ==
    \/ Transition(r, {"PENDING"}, "APPROVED")
    \/ Transition(r, {"PENDING"}, "REJECTED")

Schedule(r) == Transition(r, {"APPROVED", "SCHEDULED"}, "SCHEDULED")

MarkPlayed(r) == Transition(r, {"SCHEDULED"}, "PLAYED")

-----------------------------------------------------------------------------
(* adminUpdate(): the edit, then the invalidation of what was recorded. *)

\* Conversions that read the request of edit e and have not stored yet.
Overtaken(e) ==
    {g \in Conversions : SongOf[g] = SongOf[e]
                         /\ pc[g] \in {"read", "checked", "joined", "rendering"}}

\* Slip: only requests that wait for their schedule are taken to have recordings.
MutantEditRequest(e) ==
    LET r == SongOf[e] IN
    /\ pc[e] = "idle"
    /\ status[r] \notin {"none", "PLAYED", "CANCELED"}
    /\ \E s \in Segments : segment' = [segment EXCEPT ![r] = s]
    /\ raced' = raced \cup Overtaken(e)
    /\ Goto(e, IF status[r] = "APPROVED" THEN "committed" ELSE "done")
    /\ UNCHANGED <<status, createVars, fileVars, read, inFlight, joined, answer, rows>>
    /\ NoFault

EditRequest(e) ==
    LET r == SongOf[e] IN
    /\ pc[e] = "idle"
    /\ status[r] \notin {"none", "PLAYED", "CANCELED"}
    /\ \E s \in Segments : segment' = [segment EXCEPT ![r] = s]
    /\ raced' = raced \cup Overtaken(e)
    /\ Goto(e, "committed")
    /\ UNCHANGED <<status, createVars, fileVars, read, inFlight, joined, answer, rows>>
    /\ NoFault

ListRecordings(e) ==
    /\ pc[e] = "committed"
    /\ rows' = [rows EXCEPT ![e] = Recordings(SongOf[e])]
    /\ Goto(e, "listed")
    /\ UNCHANGED <<requestVars, createVars, fileVars, conversionVars>>
    /\ NoFault

DiscardRecording(e) ==
    /\ pc[e] = "listed"
    /\ \E g \in rows[e] :
         /\ rows' = [rows EXCEPT ![e] = @ \ {g}]
         /\ IF store[g] = "live" THEN Files!Condemn(g) ELSE UNCHANGED fileVars
    /\ UNCHANGED <<requestVars, createVars, conversionVars, pc>>
    /\ NoFault

EndInvalidation(e) ==
    /\ pc[e] = "listed"
    /\ rows[e] = {}
    /\ Goto(e, "done")
    /\ UNCHANGED <<requestVars, createVars, fileVars, conversionVars, rows>>
    /\ NoFault

\* invalidateGeneratedAudio() logs every error and drops it.
InvalidationFails(e) ==
    /\ pc[e] \in {"committed", "listed"}
    /\ Fault
    /\ rows' = [rows EXCEPT ![e] = {}]
    /\ Goto(e, "done")
    /\ UNCHANGED <<requestVars, createVars, fileVars, conversionVars>>

-----------------------------------------------------------------------------
(* generateAudio() and WakeSongAudioService.generate(). *)

Offer(g, h) == answer' = [answer EXCEPT ![g] = h]

\* The request is read without a lock, and refused unless it is convertible.
ReadRequest(g) ==
    /\ pc[g] = "idle"
    /\ Convertible(SongOf[g])
    /\ read' = [read EXCEPT ![g] = segment[SongOf[g]]]
    /\ Goto(g, "read")
    /\ UNCHANGED <<requestVars, createVars, fileVars, raced, inFlight, joined, answer, rows>>
    /\ NoFault

\* A recording that has a row is offered as it is.
ListExisting(g) ==
    /\ pc[g] = "read"
    /\ IF Recordings(SongOf[g]) = {}
       THEN Goto(g, "checked") /\ UNCHANGED answer
       ELSE /\ Goto(g, "done")
            /\ \E h \in Recordings(SongOf[g]) : Offer(g, h)
    /\ UNCHANGED <<requestVars, createVars, fileVars, read, raced, inFlight, joined, rows>>
    /\ NoFault

Running(g) == inFlight[ProcessOf[g]][SongOf[g]]
SetRunning(g, h) == inFlight' = [inFlight EXCEPT ![ProcessOf[g]][SongOf[g]] = h]

\* Slip: the table of running conversions was consulted before the await.
MutantJoinOrStart(g) ==
    /\ pc[g] = "checked"
    /\ Goto(g, "rendering")
    /\ SetRunning(g, g)
    /\ UNCHANGED <<requestVars, createVars, fileVars, read, raced, joined, answer, rows>>
    /\ NoFault

\* No await separates the look into inFlight from the entry made there.
JoinOrStart(g) ==
    /\ pc[g] = "checked"
    /\ \/ /\ Running(g) # None
          /\ joined' = [joined EXCEPT ![g] = Running(g)]
          /\ Goto(g, "joined")
          /\ UNCHANGED inFlight
       \/ /\ Running(g) = None
          /\ SetRunning(g, g)
          /\ Goto(g, "rendering")
          /\ UNCHANGED joined
    /\ UNCHANGED <<requestVars, createVars, fileVars, read, raced, answer, rows>>
    /\ NoFault

\* yt-dlp, ffmpeg or the storage fails; the failure reaches the finally block.
RenderFails(g) ==
    /\ pc[g] = "rendering"
    /\ Goto(g, "settling")
    /\ UNCHANGED <<requestVars, createVars, fileVars, conversionVars, rows>>
    /\ NoFault

\* storeGeneratedFile(): the status is checked again under the row lock; the
\* caller may not learn of the commit.
StoreRecording(g) ==
    /\ pc[g] = "rendering"
    /\ Convertible(SongOf[g])
    /\ Files!Attach(g)
    /\ \/ Goto(g, "stored") /\ NoFault
       \/ Goto(g, "settling") /\ Fault
    /\ UNCHANGED <<requestVars, createVars, conversionVars, rows>>

\* getById: the row may be gone again.
ReadStored(g) ==
    /\ pc[g] = "stored"
    /\ Offer(g, IF store[g] = "gone" THEN None ELSE g)
    /\ Goto(g, "settling")
    /\ UNCHANGED <<requestVars, createVars, fileVars, read, raced, inFlight, joined, rows>>
    /\ NoFault

\* The finally block takes the entry out.
Settle(g) ==
    /\ pc[g] = "settling"
    /\ IF Running(g) = g THEN SetRunning(g, None) ELSE UNCHANGED inFlight
    /\ Goto(g, "done")
    /\ UNCHANGED <<requestVars, createVars, fileVars, read, raced, joined, answer, rows>>
    /\ NoFault

\* Slip: a failure is not passed on.
MutantJoinedSettles(g) ==
    /\ pc[g] = "joined"
    /\ answer[joined[g]] # None
    /\ Offer(g, answer[joined[g]])
    /\ Goto(g, "done")
    /\ UNCHANGED <<requestVars, createVars, fileVars, read, raced, inFlight, joined, rows>>
    /\ NoFault

\* Those who joined get the same answer, or the same error.
JoinedSettles(g) ==
    /\ pc[g] = "joined"
    /\ pc[joined[g]] \in {"settling", "done"}
    /\ Offer(g, answer[joined[g]])
    /\ Goto(g, "done")
    /\ UNCHANGED <<requestVars, createVars, fileVars, read, raced, inFlight, joined, rows>>
    /\ NoFault

-----------------------------------------------------------------------------

\* The cleanup outbox erases what was discarded.
EraseRecording(g) ==
    /\ Files!Vanish(g)
    /\ UNCHANGED <<requestVars, createVars, conversionVars, rows, pc>>
    /\ NoFault

\* A process dies: its calls end where they are, its table of running
\* conversions is empty when it is back.
Crash(p) ==
    LET Dead == {c \in Calls : ProcessOf[c] = p /\ pc[c] # "idle"} IN
    /\ Fault
    /\ pc' = [c \in Songs \cup Calls |-> IF c \in Dead THEN "done" ELSE pc[c]]
    /\ rows' = [e \in Editors |-> IF e \in Dead THEN {} ELSE rows[e]]
    /\ inFlight' = [inFlight EXCEPT ![p] = [r \in Songs |-> None]]
    /\ UNCHANGED <<requestVars, createVars, fileVars, read, raced, joined, answer>>

RequestStep(r) ==
    \/ BeginCreate(r)
    \/ CountPending(r)
    \/ FinishCreate(r)
    \/ UpdateRequest(r)
    \/ Cancel(r)
    \/ Review(r)
    \/ Schedule(r)
    \/ MarkPlayed(r)

EditStep(e) ==
    \/ ListRecordings(e)
    \/ DiscardRecording(e)
    \/ EndInvalidation(e)

ConversionStep(g) ==
    \/ ListExisting(g)
    \/ JoinOrStart(g)
    \/ RenderFails(g)
    \/ StoreRecording(g)
    \/ ReadStored(g)
    \/ Settle(g)
    \/ JoinedSettles(g)

Next ==
    \/ \E r \in Songs : RequestStep(r)
    \/ \E e \in Editors : EditRequest(e) \/ EditStep(e) \/ InvalidationFails(e)
    \/ \E g \in Conversions : ReadRequest(g) \/ ConversionStep(g) \/ EraseRecording(g)
    \/ \E p \in Processes : Crash(p)

Spec == Init /\ [][Next]_vars

\* A call that was made runs on: edits are invalidated, conversions end by
\* success, failure or WAKE_SONG_AUDIO_TIMEOUT_MS, discarded files are erased.
Fairness ==
    /\ \A e \in Editors : WF_vars(EditStep(e))
    /\ \A g \in Conversions : WF_vars(ConversionStep(g)) /\ WF_vars(EraseRecording(g))

FairSpec == Spec /\ Fairness

-----------------------------------------------------------------------------
(* Properties. *)

\* Concurrent requests of one student never exceed MAX_PENDING_WAKE_SONG_REQUESTS:
\* the lock on the student's row orders the unlocked count.
PendingCapHeld == \A s \in Students : Cardinality(Pending(s)) <= MaxPending

\* A recording is only ever there for a request that was approved, although the
\* conversion decided on a status it had read long before.
RecordingsAreOfApprovedSongs ==
    \A g \in Conversions : store[g] \in {"live", "doomed"} => Convertible(SongOf[g])

\* A process renders one recording per request at a time, and its table lists
\* just those conversions: a caller never joins one that has ended, and none is
\* started next to a running one.
OneTaskPerSong ==
    \A p \in Processes, r \in Songs :
        {g \in Conversions : /\ ProcessOf[g] = p /\ SongOf[g] = r
                             /\ pc[g] \in {"rendering", "stored", "settling"}}
            = IF inFlight[p][r] = None THEN {} ELSE {inFlight[p][r]}

\* The request is edited and this recording is still going to be discarded.
Invalidating(g) ==
    \E e \in Editors : /\ SongOf[e] = SongOf[g]
                       /\ pc[e] = "committed" \/ g \in rows[e]

\* A recording that does not render the request any more is about to be discarded,
\* unless its conversion was under way when the edit was made: what was recorded
\* before an edit does not survive it.
StaleRecordingsWereRaced ==
    faults = 0 =>
        \A g \in Conversions :
            store[g] = "live" /\ read[g] # segment[SongOf[g]]
                => g \in raced \/ Invalidating(g)

\* What the architecture says of an edit: recordings of the previous segment go.
NoStaleRecording ==
    \A g \in Conversions :
        store[g] = "live" /\ read[g] # segment[SongOf[g]] => Invalidating(g)

\* Whoever orders a conversion is answered, also by joining somebody else's,
\* unless the process dies.
OrdersAreAnswered ==
    \A g \in Conversions : pc[g] = "read" ~> pc[g] = "done"

=============================================================================
