# Verification of the JSHS portal

The repository holds the web platform of a boarding school: two React portals
(students in `apps/jshsus`, administrators in `apps/admin`), one NestJS API
(`apps/api`), the Drizzle/MySQL schema (`packages/db`), shared types and UI
primitives, and deployment scripts.  The state that must stay right lives behind
the API: in MySQL, in Redis, in S3 and, for a few caches, in the memory of an API
process.  This directory holds TLA+ modules of that part of the system, the TLC
runs over small instances of them, and proofs that TLAPS checks.

Contents: [the system](#the-system) · [how the code is abstracted](#how-the-code-is-abstracted)
· [modules](#modules) · [runs](#runs) · [proofs](#proofs) · [findings](#findings)
· [what is not modelled](#what-is-not-modelled) · [plan](#plan)

## The system

Paths below are relative to `src/apps/api/src/modules/` unless they start with
`src/`.  A request runs through guards (session, permission, CSRF, rate limit) into
one service method; a service method is a sequence of awaited statements, some of
them grouped in a MySQL transaction.  Two requests interleave at every await.  Three
background workers (file cleanup, notification cleanup, device schedules) run on
intervals in each API process.  In production one API process runs, but the code is
written for several ("a second API instance", leases, `SKIP LOCKED`).

| Component | State | Operations | Talks to | What is hard about it | Module |
|---|---|---|---|---|---|
| **Files and cleanup outbox** `files/` | rows of `files` and `file_cleanup_jobs`, S3 objects | upload, storeGeneratedFile, uploadProfile, deleteForTarget, processCleanupBatch | every content service; S3 | no transaction spans S3 and MySQL; lost commit acknowledgements; leases; crashes | `FileOutbox` implements `FileStore` |
| **Wake songs** `wake-songs/` | `wake_song_requests`, in-flight audio jobs in memory, generated files | create, update, cancel, review, schedule, markPlayed, generateAudio | files, notifications, YouTube, ffmpeg | long-running generation racing edits and reviews; per-student cap | `WakeSongs` (uses `FileStore`), `CandidateWeek` |
| **Points ledger** `points/` and its page | `point_records`, `point_reasons`, `point_departure_cases`, idempotency keys | createRecord(s), cancel, restore, reasons, departure cases, semester half | admin, notifications | totals decided from snapshots, overlapping half/reset/cancel, idempotent retries | `PointsLedger`, `AwardForm` (partly) |
| **Dormitory** `dorm/` | rooms, assignments, roommate blocks, reports | assign, move, swap, cancel, draw | points (departure), files | capacity and blocks under concurrent moves; draw applied to a changed world | `Dormitory` (partly) |
| **Petitions** `petitions/` | petitions, participants, answers | create, update, participate, answer, end, delete | notifications, view counts | threshold and deadline against concurrent participation; edits under the eyes of signers | `Petitions` |
| **Activity requests** `activity-requests/` | requests, participants, status history, print snapshots | create, update, cancel, review, revoke, print | notifications | multi-step status machine, participant conflicts, dedupe of notifications | `ActivityRequests` (partly) |
| **Device cases** `device-cases/` | cases, commands, schedules | command, schedule, delete, worker runDueSchedules | the cases students' phones are locked in | worker racing commands and deletions; crash between command and mark | `DeviceCases` |
| **Notifications** `notifications/` | `notifications` with a dedupe key, read marks | notify, list, markRead, cleanup worker | all domain services | deduplication over a retention window | `ActivityRequests` (partly) |
| **Sessions** `auth/auth.service.ts` | Redis session documents, a per-user index set | login, issueSession, getSession, logout, invalidateUserSessions | admin, lifecycle, password reset | index and document written separately; revocation racing login | `Sessions` (partly) |
| **SSO hand-over** `auth/sso.service.ts` | Redis request, code | start, continue, exchange | sessions | single-use values | `Sessions` |
| **Password reset** `auth/auth.service.ts` | Redis flow, attempt counter, one-time token | request, verify, confirm | Cognito, messaging | read-modify-write on Redis without atomicity | `PasswordReset` |
| **Account activation** `auth/account-activation.service.ts` | `account_activation_codes`, Redis verification flow | issue, bulk issue, lookup, verify, complete | Cognito, sessions | Cognito call inside a transaction, attempts and single use | `AccountActivation`, `StudentRoster` (partly) |
| **Account lifecycle, roles, roster** `admin/` | users, students, staff, roles, school years, erasure jobs | changeStatus, assignUserRoles, assignRolePermissions, applyStudentRoster | sessions, files, Cognito | a sequence of stores with no common transaction; last administrator | `StudentRoster`, `Sessions` (partly) |
| **Boards** `boards/` and the pages that write | posts, comments, likes, polls | create, draft, publish, delete, vote, like, comment | files | draft publication versus private attachments; two tabs; double votes | `BoardPosts` (partly) |
| **Notices, lost items, reports, thanks** and their pages | rows of their tables | CRUD, hide, discard, status | files | several calls make one public row; retries; parent deletion together with attachments | `Submissions`, `FileOutbox` (partly) |
| **School data** `school-data/` | managed events, NEIS responses cached in memory and Redis | meals, calendar, event CRUD, import | NEIS | cache and negative cache expiry, shared loads; merged updates | `SchoolData` |
| **Deployment** `src/deploy`, `src/packages/db/scripts` | release links, tags, backups | deploy, rollback, backup, restore | Docker, MySQL | a kill between the writes of the release state; a half-restored database | `Deployment` (partly) |
| **Schema and data scripts** `src/packages/db` | migrations, provisioning, retention, imports | command-line jobs | MySQL, Cognito | retention job racing the API; resumable imports | `StudentRoster`, `Deployment` (partly) |
| **Portals** `src/apps/jshsus`, `src/apps/admin`, `src/packages/ui` | browser state | pages | API | pages whose order of calls the server relies on | `BoardPosts`, `Submissions`, `AwardForm` (partly) |
| **JBS posts** `jbs/` | broadcast posts | CRUD, comments, likes | files | nothing beyond Boards | – |
| **View counts** `redis/view-count.service.ts` | Redis claims, counters in rows | recordView | boards, notices, petitions | claim and increment are separate | – |
| **Redis access, gateways, read models, shared types** | none, or caches | wrappers, outside calls, reads | outside services | delivery is at most once | – |

What makes each modelled part correct is stated with its module below, and
`PROJECT.json` lists the hazards of the code line by line.

How the parts interact: content services call `files` inside and after their
transactions (`FileOutbox` has both, for every kind of parent); `points` decides who
may stay in the dormitory by the departure case only, on paper; `admin`, lifecycle and
password reset end sessions through `invalidateUserSessions` (`Sessions`); the roster
decides whom an activation code may make an account for (`StudentRoster` has the
numbers, `AccountActivation` the contacts and the identity provider); reviews send
notices (`ActivityRequests`); the pages turn one submission into several calls
(`BoardPosts`, `Submissions`, `AwardForm`).

## How the code is abstracted

* **Granularity.**  One action is one awaited statement outside a transaction, or
  one whole transaction.  Statements that only read and whose result is used inside
  the same transaction are part of it; a read whose result is used *after* it was
  released (a check before a transaction, a list of rows worked off one by one) is
  a step of its own and its result is kept in a variable of the thread.
* **Transactions.**  MySQL runs at its default REPEATABLE READ.  A `SELECT ... FOR
  UPDATE` reads the latest committed version; the snapshot of a transaction is taken
  at its first *non-locking* read.  Where a transaction locks the row it decides
  about before it reads anything else, it is one atomic action.  Where it reads
  without locks first, the module has a step for the snapshot and one for the commit.
* **Failures.**  A call may fail, a commit may succeed although its caller sees an
  error, a process may die between two steps and come up again.  Failures are
  bounded by constants (`MaxFaults`, `MaxOverruns`, `MaxMishaps`, `MaxKills`, ...): a
  bound on how many are injected in one behaviour, not on where.
* **Time** is reduced to what it enables (a lease runs out, a backoff elapses, a key
  of Redis lapses), or to a clock of a few units where several lifetimes compare.
* **Data** is reduced to what the properties tell apart: names, texts and payloads
  are model values or absent.
* **History variables** (`raced`, `twice`, `textSigned`, `approvedTo`, ...) are read by
  properties only; each module marks them.

## Modules

Every module names its source at its head, and `PROJECT.json` gives the lines of each
definition.  Operators `MutantX` stand before the definition `X` they replace: a slip a
programmer could make there, which the property listed with it must notice.

### FileStore, FileOutbox, FileOutboxProofs — attachments

`FileStore` is the promise: per key a life `absent → live → doomed → gone`; a file
is attached only while its parent row exists; deleting a parent condemns all its
files at the same instant.

`FileOutbox` is the code.  A *thread* is an upload request, a deletion request or a
background worker; `pc`, `rows`, `batch` and `current` are its local variables,
`objects` is S3, `files` and `jobs` are the two tables, `parent` stands for the
content row files are attached to.

| Code (`files.service.ts`) | Actions |
|---|---|
| `upload`, `storeGeneratedFile` | `BeginUpload`, `PutObject`, `PutObjectFails`, `CommitUpload`, `CommitUploadUnacked`, `RejectUpload`, `QueueUploadCompensation(Fails)` |
| `uploadProfile`, `removeSupersededProfileImages` | `ReadUploadedProfile`, then `ListRows` .. and the batch of its target |
| `notices.delete`, `boards.deleteDraft`, `lost-items.discard` | `DeleteParent`, then `deleteForTarget` |
| `deleteForTarget`, `deleteProfile` | `BeginDeleteForTarget`, `ListRows`, `EnqueueRow(Fails)`, `EnqueuedAll` |
| `processCleanupBatch` and its helpers | `ClaimCleanupJobs`, `ClaimNothing`, `NextJob`, `FileObjectExists`, `ConsumeJob`, `DeleteStoredObject`, `SettleJob`, `ProcessJobFails`, `RecordCleanupFailure(Fails)`, `EndBatch` |
| lease timeout, backoff, restart | `LeaseExpires`, `BackoffElapses`, `Crash` |

The outbox has one row per key because `object_key` is unique: `EnqueueCleanup`
models `INSERT .. ON DUPLICATE KEY UPDATE`, which keeps the id, the reason and the
lease of an existing job and overwrites its `file_id`.  `locked_by` is the random id
of a *process*, so two threads of one process cannot be told apart by it; the model
has it so.  Reasons other than `upload_compensation` are treated alike by the code,
and are one value, `target_delete`, here.  Sizes are reduced to one unit per file.

Correctness: bytes of a live file are never erased (`LiveFilesKeepTheirObject`); no
row is left behind by a deleted parent unrecorded (`OrphanedRowsAreDoomed`); a
recorded deletion is not forgotten (`IntentsSurvive`, with the one exception under
[findings](#findings)); every object has somebody answering for it
(`ObjectsAreAccountedFor`); rows and jobs leave after the object
(`RowOutlivesObject`); claims are exclusive until a lease runs out under its holder
(`ClaimsAreExclusive`); the quota of an account holds (`QuotaHeld`); a profile image
is only ever replaced by a committed one (`ProfileImageIsReplaced`); jobs are worked
off (`OutboxDrains`); the store's promise is kept, with and without fairness.

Fairness (`Fairness`): a started request continues, the worker's interval keeps
firing, leases and backoffs run out.  That is what a running Node process and the
clock give; nothing is assumed of new uploads or deletions, and injected failures
are never required.  `Crash` restarts the worker at once: the container is restarted
by Docker, and the time in between is covered by steps that are simply not taken.

### WakeSongs, WakeSongsProofs — requests and their recordings

A student asks for a segment of a video to be played; an administrator may edit the
segment, reviews, schedules; anybody who wants to listen orders a conversion that
downloads and renders for minutes and stores the result as a file of the request.

| Code (`wake-songs.service.ts`, `wake-song-audio.service.ts`, `files.service.ts`) | Actions |
|---|---|
| `create` | `BeginCreate` (locks the student), `CountPending` (not locked), `FinishCreate` |
| `update`, `cancel`, `review`, `schedule`, `markPlayed` | `UpdateRequest`, `Cancel`, `Review`, `Schedule`, `MarkPlayed` |
| `adminUpdate`, `invalidateGeneratedAudio` | `EditRequest` (transaction), `ListRecordings`, `DiscardRecording`, `EndInvalidation`, `InvalidationFails` |
| `generateAudio`, `generate`, `generateFresh` | `ReadRequest`, `ListExisting`, `JoinOrStart`, `RenderFails`, `StoreRecording`, `ReadStored`, `Settle`, `JoinedSettles` |
| `processCleanupBatch` | `EraseRecording` |
| death of a process | `Crash` |

The recordings are the keys of an instance of `FileStore` (`Files`): `StoreRecording`
attaches one, `DiscardRecording` condemns it, `EraseRecording` lets it vanish.  The
module thus composes with the outbox through its abstract specification: whatever
`FileOutbox` does in between is a stutter of the store.  `inFlight` is the `Map` of
running conversions, one per process.  `raced` remembers, for the properties
only, which conversions had read the request before it was edited.

Correctness: `RecordingsAreOfApprovedSongs`, `OneTaskPerSong` (the map lists exactly
the conversions that run), `PendingCapHeld`, `OrdersAreAnswered`, and
`StaleRecordingsWereRaced`: a recording of a segment the request no longer has is on
its way out, or its conversion overlapped the edit.  The stronger `NoStaleRecording`,
which the documents state, does not hold (see [findings](#findings)).

Fairness: calls that were made run on, conversions end (there is a timeout), the
outbox erases.  No fairness for new requests, edits or crashes.

### CandidateWeek, SchoolLifeProofs — which week a request belongs to

A pure calculation with dates, as one variable (the instant) that runs through the
hours of three weeks.  `WeekStart` is `getWakeSongCandidateWeek`, `CreatedAtRange` the
converse the administrators' list filters by.  Properties: the candidate week is the
first Monday-to-Sunday week after the request, and the two directions agree.  Both are
proved for every instant and offset.

### PointsLedger, PointsLedgerProofs — merit and penalty points

Records are inserted, canceled and restored; `currentPoint` of the student's row is
the running total, moved relative to what it is by everything except the departure,
which writes zero.

| Code (`points.service.ts`) | Actions |
|---|---|
| `createRecord` | `CreateRecord` |
| `createRecordBatch` | `RunIdempotent`, `ReadSnapshot`, `CommitBatch`, `Settle` |
| `applySemesterHalf` | `RunIdempotent`, `ReadSnapshot`, `LockActor`, `CommitHalf`, `Settle` |
| `cancelRecord(s)`, `restoreRecord` | `CancelRecords`, `RestoreRecord` |
| `updateReason` | `UpdateReason` |
| `syncDepartureCandidates` | `ReadCandidates`, `InsertCandidates` |
| `approveDepartureStudent` | `Approve`, then as a completion |
| `completeDepartureCase` | `ChooseCase`, `LockCase`, `CompleteDeparture` |
| `dismissDepartureCase` | `Dismiss` |
| refusals, database errors, deadlock victims | `OperationFails`, `DepartureFails` |
| death of a process | `Crash` |

A transaction is one action where it locks or updates the row it decides about at
once, and several where it reads first: a half fixes its snapshot with the first
plain read (`ReadSnapshot` keeps it in `snap`) and then waits for the row of the
system user (`LockActor`); a completion locks case and student (`LockCase`) and then
needs the same row.  A record carries the call that made it (`by`) and what it stands
for (`item`), so that two records of the same kind remain two members of a set.
The system user and the system reasons are taken to exist.

Correctness: `TotalIsSumOfRecords` (checked with the types as `LedgerAddsUp`);
`HalvingIsExact` (floor of half the merit and of
half the penalty, when the snapshot was still true); `CompletionResets`;
`AppliedOncePerProcess`; `OneOpenCase`: a second open case of a student comes only from
a sync that read the cases before the first was opened (cases carry who opened them, and
a sync how many cases there were when it read, as history);
`DepartedAreHalvedInARace`, which says exactly when a departed student is halved
nevertheless.

### AwardForm, PointsLedgerProofs — the page that awards points

The administrator's page against `createRecordBatch`.  Each call carries a new
idempotency key, so the server cannot know a repetition; the form stays usable while
the call is under way and its success empties the list.

| Code (`PointAwardPage.tsx`) | Actions |
|---|---|
| form | `Choose`, `AddToQueue`, `EditRow`, `CancelEdit`, `DeleteRow` |
| spreadsheet | `ImportFile`, `FinishImport`, `RefuseImport` |
| submission and answer | `SubmitBatch`, `AwardRows`, `RefuseRows` (server), `SubmissionSucceeds`, `SubmissionIsInError` |

Correctness, together `AwardsAreExplained`: every record is explained by what was
entered (`AwardedOnce`), nothing entered is dropped (`NothingIsDropped`), and what was
awarded has the last wording (`LastWordingIsAwarded`); each with the exact
circumstances under which the page does not keep it (a lost answer followed by a second
submission, rows added or edited during a call).

### Sessions, SessionsProofs — who may act

A session is a copy of the roles and permissions of its user, made when it is issued;
no request reads the database again.  Whoever changes a grant ends the sessions, by way
of an index in Redis.  Token, index and database change in separate steps.

| Code | Actions |
|---|---|
| `login`, `issueSession`, `persistSession` | `FindAccount`, `ReadRoles`, `ReadPermissions`, `StoreSession`, `IndexSession`, `ExpireIndex` |
| `sso.continue` | `ReadRequest`, `TakeRequest`, `StoreCode` |
| `sso.exchange`, `issueDelegatedSession` | `ReadCode`, `ReadCentralSession`, `TakeCode`, `StoreDelegatedSession`, `IndexSession`, `ExpireIndex` |
| `assignUserRoles` | `ReadTarget`, `CheckRoles`, `AssignUserRoles` |
| `updateUserStatus`, `changeStatus` | `ReadTarget`, `CheckStatus`, `LoadIdentity`, `ChangeStatus` |
| `assignRolePermissions` | `ReadHolders`, `AssignRolePermissions` |
| `logout`, `invalidateUserSessions` | `Logout`, `ListTokens`, `DeleteTokens`, `DeleteIndex` |
| expiry, death of the process of a change | `Tick`, `Crash` |

A session carries the permissions of its user's roles corrected by the user's own
(`Given`, `Withheld`), and system_admin for whom the environment lists (`LegacyAdmins`).
Users' own permissions go with the account and do not change otherwise: no operation of
the API writes them.  A login reads roles and permissions in two steps; its two queries
for permissions are one of them.

Correctness: `StaleSessionsAreExplained` lists the only ways a session survives a
change of what it carries.  One of them came out of its proof: a
delegated session that is issued wholly between the listing of the tokens and their
deletion is in nobody's list; if it is handed over once more before the index is deleted,
its copy is neither listed nor dropped (`InTheAct`).  `LogoutEndsItsSession`; `HandoversAreUsedOnce`;
`AnAdministratorRemains`, unless two removals overlapped (both read the holders before
their transactions).  `GrantChangesEndSessions`, what architecture.md says, is violated
(see [findings](#findings)).

### StudentRoster, SessionsProofs — who is a student, under which number

| Code | Actions |
|---|---|
| `previewStudentRoster`, `applyStudentRoster` | `PlanImport`, `ApplyImport`, `StaleImport`, `RefusedImport` |
| the graduates of an import, `changeStatus` | `GraduateOf` (each → `Deactivate`), `LeaveImport`, `Retire`, `Deactivate` |
| `updateStudent`, `createStudent` | `ReadForCorrection`, `WriteCorrection`; `ReadForAddition`, `WriteAddition` |
| `issue`, `issueBulk`, `complete` | `IssueCode`, `IssueCodes`, `Register` |
| `privacy-retention.cjs`, erasure jobs | `SelectForErasure`, `EraseRecord`, `DeleteLogin` |

A row of a file finds its student by user id, number or previous number (`Identified`),
and by name and phone when none of these is known (`alike`, `Matches`).

A student has a number in three tables (his own row, the enrolment of a year, the name
of his login) and a standing.  Correctness, together `IdentitiesAreSound`: number and
enrolment agree (`NumbersAgree`), a rollover leaves nobody behind
(`ActiveAreEnrolled`), and no login serves two (`LoginsAreOnesOwn`).  `crossed`
remembers the exceptions of the first two: `Overtaken` (of rows that would be planned
otherwise by the time they are written), `Overlooked` (active students the roster that
starts a year neither names nor graduates), `Outlived` (a roster of a past year), and those
of single writes whose read is out of date.  A write that needs one more student than the instance has (`room`) is no step.
`ApplicableImportsAreApplied` is violated (see [findings](#findings)).

### AccountActivation, AccountsProofs — registering an account

| Code (`account-activation.service.ts`) | Actions |
|---|---|
| `issue` | `Issue` |
| `findActivation` of every call | `FindActivation`, `FillLookup` |
| `requestPhone-`, `requestEmailVerification` | `StoreDigits`, `Deliver`, `DeliveryFails` |
| `verifyPhone-`, `verifyEmailVerification` | `ReadProof`, `NoProof`, `Mismatch`, `MarkVerified` |
| `complete` before its transaction | `Complete`, `ReadProof`, `PassChannel` (or `NoProof`, `Mismatch`) |
| its transaction, with the identity provider inside | `LockActivation`, `RefuseCompletion`, `WriteUser`, `SetUserPassword`, `UpdateContacts`, `EnsureStaffIdentity`, `Commit`, `CommitUnacked`, `DropProofs` |
| failures | `CompletionFails`, `LoseConnection`, `NoticeLoss`, `Restart` |
| expiry | `CodeExpires`, `DigitsExpire` |

A code of a school year that is over is still found, and refused in the transaction of
`complete` only; the model does not tell years, so `RefuseCompletion` may refuse any code.

Correctness, together `ActivationsAreSound`: the contacts of an account were proven
(`ContactsWereProven`), the login at the provider is the recorded one
(`LoginIsTheAccounts`, although no rollback undoes it), a code registers once
(`CodesRegisterOnce`), and the lookup column finds the code that was handed out
(`LookupFindsTheCode`).

### BoardPosts, PublicationProofs — a post from its draft to its deletion

| Code | Actions |
|---|---|
| `createPost`, `createDraft`, `updatePost`, `publishPost`, `deletePost`, `hidePost` | `CreateDraft`, `CheckUpdate`/`WriteUpdate` as steps of `SaveDraft`, `CheckFinal`, `WriteFinal`, `CheckEdit`, `WriteEdit`; `CheckPublication`, `Publish`; `DeletePost`, `ShowPost` |
| `uploadImage` | `UploadImage` |
| `votePostPoll` | `CheckVote`, `CastVote` |
| `NewBoardPostPage.tsx` | `Type`, `ResumeDraft`, `SaveDraft` (by itself or by the button), `FinishSave`, `Submit`, `SubmissionFails` |
| `EditBoardPostPage.tsx` | `AttachPicture`, then `CheckEdit` |

Two tabs share one draft.  The server checks a document against the status it reads and
writes it in another statement; the page saves by itself, and by hand at any time.  Correctness, together
`PostsAreSound`: a published post is whole (`WholePost`), nothing of a draft is public
(`PrivateDraft`), files hang on a post once (`AttachedOnce`), votes are for options that
exist (`VotesCount`).

### Dormitory, SchoolLifeProofs — the beds of a term

| Code (`dorm.service.ts`) | Actions |
|---|---|
| `createAssignment` | `RequestBed`, `LockRooms`, `Write` |
| `moveAssignment` | `ReadMoved`, `LockRooms`, `Write` |
| `swapAssignments` | `ReadSwapped`, `LockRooms`, `Write` |
| `previewDraw`, `applyDraw` | `PreviewDraw`, `LockRooms`, `Write` |
| `cancelAssignment` | `CancelAssignment` |
| roommate blocks | `CreateRoommateBlock`, `DeleteRoommateBlock` |

`LockRooms` is where a call has locked its rooms and fixed its snapshot: it reads
assignments `FOR UPDATE` but blocks as they were then.  Correctness, together
`BedPlanIsSound`: `RoomsAreRight` (capacity, beds, houses, classes) and
`BlockedStudentsAreApart`, but for blocks entered too late for either.

### DeviceCases, SchoolLifeProofs — cases that schedules open and close

| Code | Actions |
|---|---|
| schedules, commands | `CreateSchedule`, `DeleteSchedule`, `Command` |
| `runDueSchedules` | `ReadDue`, `CarryOut`, `DeleteCarriedOut` |
| exception, restart; time | `Interrupt`, `Tick` |

Correctness, together `SchedulesAreOneShot`: a schedule acts once (`ActsOnce`), is then
gone (`ActedIsGone`), and the later one wins (`LaterScheduleWins`), but for interrupted
runs, two workers with one row in hand, and schedules entered in the other order.

### ActivityRequests, SchoolLifeProofs — reviews and their notices

| Code | Actions |
|---|---|
| `create`, `adminCreate`, `update`, `cancel`, `delete` | `CreateRequest`, `AdminCreateRequest`, `UpdateRequest`, `CancelRequest`, `DeleteRequest` |
| `approve`, `reject`, `updateAdminStatus` | `Approve`, `Reject`, `UpdateAdminStatus`, each with the notice of `notifyReview` |
| `notifications.create`, `deleteExpired` | part of the reviews; `NextDay`, `DeleteExpired` |

Correctness, together `RequestIsTruthful`: number and reason fit the status
(`DecisionFitsStatus`), what was approved is what stands (`IssuedDocumentStands`), the
representative takes part (`RepresentativeTakesPart`), and his newest notice tells the
outcome (`NewestNoticeIsTrue`) unless this outcome came before while its key was taken.
A notice is a row with the number of the review it tells of, which is the order the
student's list is sorted by; its title and text are left out.

### Petitions, SchoolLifeProofs — signatures under a text

| Code | Actions |
|---|---|
| `create`, `update`, `delete`, `hide` | `CreatePetition`, `UpdatePetition`, `DeletePetition` |
| `participate`, `answer`, the end of the term | `Participate`, `AnswerPetition`, `EndPetition` |
| a reader's screen | `ReadPetition` |

Correctness, together `PetitionIsHonest`: the status is that of the signatures
(`StatusFollowsSignatures`) and the text signed is the text that stands
(`SignedTextStands`), although a signature carries no version of the text.

### PasswordReset, AccountsProofs — a code by mail

| Code (`auth.service.ts`) | Actions |
|---|---|
| `requestPasswordReset` | `StoreCode`, `SendCode`, `SendingFails` |
| `verifyPasswordResetCode` | `ReadFlow`, `CountMismatch`, `TradeCode`, `DropCode`; `ReadStray`, `DropStray` (a code of another surface) |
| `confirmPasswordReset` | `TakeToken`, `SetPassword` |
| expiry | `FlowExpires`, `TokenExpires` |

Correctness, together `ResetIsOrderly`: the newest code counts (`NewestCodeCounts`), a
code is used once (`CodesAreUsedOnce`), mismatches are counted (`MismatchesAreCounted`),
each unless two calls overlapped.  That a new password ends the sessions of its user
(auth.service.ts:621) is left out here: how sessions are ended is the subject of `Sessions`.

### Submissions, PublicationProofs — notices and lost items as their pages make them

| Code | Actions |
|---|---|
| `NewNoticePage`, `NewLostItemPage`, `create` | `ReadNumber`, `CreateNotice`, `NumberIsTaken`, `CreationFails` |
| `EditNoticePage` | `OpenCorrection` |
| uploads, the final text | `UploadItem`, `UploadFails`, `WriteText`, `TextFails` |
| the page's clean-up | `DiscardOwn`, `DiscardFails` |
| somebody deletes the notice, a page is closed | `DeleteNotice`, `ClosePage` |

The row is public from the first call on.  Correctness, together `SubmissionsAreSound`:
what is public without its images is being completed (`IncompleteIsExplained`), a page
leaves one row (`OneRowPerPage`), success means complete (`SuccessIsComplete`), texts
show files of their row (`ShownIsAttached`), doubles come only from failed calls
(`TwiceOnlyAfterAFailure`).

### Deployment, DeploymentProofs — the releases of the server

| Code | Actions |
|---|---|
| `deploy.sh` | `BeginDeployment`, `TakeBackup`, `BackupFails`, `Migrate`, `MigrationFails`, `StartRelease`, `ReturnToCurrent`, `WriteFile` (the renames of `persist_success_state`, one by one), `Finish` |
| `deploy.sh --rollback` | `RollBack` and the steps after it |
| `restore-database.sh`, `restore-database.cjs` | `BeginRestore`, `RefuseDump`, `DropObjects`, `DropFails`, `Replay`, `ReplayFails`, `RestartServices` |
| the machine | `Kill` |

A command on the containers may fail at each of them, which then keeps the release it had,
is stopped, or has the new one (`Between`).  `start_application` is run twice with errexit
off, as the condition of an `if` (deploy.sh:299) and before `|| true` (:302): there a failure
is passed over, and only the last command decides, which asks whatever API runs through
whatever web (`StartRelease`, `ReturnToCurrent`).  A rollback and the end of a restore run
with errexit on and stop at the first failure (`InTurn`).

Correctness, together `ReleasesAreSound`: each record is of one release, and of one that
passed that last check (`RecordsAreWhole`), images of recorded releases stay
(`ImagesAreKept`), every container that runs is of the recorded release
(`ContainersAreRecorded`), the API never meets a database it is too new
for or one that is not whole (`DatabaseIsReady`), a rollback moves (`RollbackMovesOn`).
`marks` names the exceptions, among them `adrift`: the last start did not recreate every
container, whether the script was killed, a rollback failed, or a deployment passed over it
and recorded the release nevertheless.

### SchoolData, SchoolLifeProofs — menus and the calendar

| Code (`school-data.service.ts`) | Actions |
|---|---|
| `getMeals`, its memory and failures | `ReadMemory`, `FirstPage`, `LoadSucceeds`, `LoadFails` |
| Redis | `FindOnShelf`, `MissShelf`, `WriteShelf` |
| the calendar | `CreateManagedEvent`, `FindManagedEvent`, `UpdateManagedEvent`, `DeleteManagedEvent`, `ImportManagedEvents` |
| time, restarts | `PassTime`, `RestartProcess` |

The maps of a process (`memory`, `failures`) are sets of entries; each entry has a turn in
place of its position in the map, for what is read or set anew moves to the end and the
first entry goes when there is one too many.  Of loads only the set matters.  The clock
counts units within which Redis and the outside service each answer, so a call may see it
strike once while it awaits one of them (`PassTime`).

Correctness, together `SchoolDataIsSound`: menus are recent (`MealsAreRecent`: at most
*two* lifetimes old, for memory takes what Redis hands on for new), outages do not reach
who had an answer (`OutagesAreBridged`), events are well-formed (`EventsAreWellFormed`).

### Modules for TLC

`MCFileOutbox` (one scene) and `MCFileScenes` (a notice; images of one notice; profile
images; a quota), `MCWakeSongs`, `MCPointsLedger` (five scenarios and the page),
`MCSessions`, `MCRoster`, `MCActivation` and `MCServices` give constants their values and
say which calls happen together in one behaviour.  `MCAccounts` and `MCServices` put
several components side by side: a variable chosen at the start says which one a
behaviour is of and the others stand still, so that a run explores the sum of their
state spaces and not the product.  That is sound because these components share no state
in the code; where they do (recordings and files, reviews and notices, roles and
sessions, roster and codes) they are one module.

## Runs

| Run | Question | Bounds |
|---|---|---|
| `files` | consistency of S3, rows and outbox; profile images; the quota | four scenes of up to 2 uploads, a deletion or removal, 2 processes with a worker each, batches of 2, quota 2, 1 failure, lost acknowledgement or crash, 1 overrun lease |
| `drain` | every job is worked off, every condemned file goes | 2 uploads, one to a notice that is deleted, 1 worker, 2 failures or crashes, 1 overrun |
| `lost_intent` | is a second enqueue of a key harmless? (violated) | as the first scene of `files`, without overruns |
| `recording` | conversions against edits, reviews and a crash | 1 request, 2 segments, 2 edits in 2 processes, 2 conversions in one of them (symmetric), 1 fault |
| `orders` | everybody who orders is answered; requests sent at once | 3 requests of 2 students, cap 1 (scaled from 3), 2 conversions in 1 process, 1 fault |
| `stale_recording` | edit against conversion (violated) | 1 edit, 1 conversion, no fault |
| `ledger` | everything that moves a total; the page that awards | five scenarios of up to 3 halves, 2 grants, 2 departures, a batch, 2 syncs, a dismissal, a crash, 2 students; the page: 2 awards, 2 wordings, 3 rows, 2 submissions, 1 lost answer |
| `half_races_departure` | what the architecture says of departed students (violated) | 1 grant, 1 half, 1 departure |
| `accounts` | sessions, roster and registration | sessions: 7 scenarios, lifetimes 1 and 2, 2 ticks, 1 crash, a session handed over twice in a row; roster: 7 scenarios, 4 people and numbers, 3 years; registration: 3 scenarios, 2 mismatches (scaled from 5), 1 mishap |
| `sessions_lapse` | does a change end every session? (violated) | 2 logins, 1 change |
| `refused_rollover` | is an applicable roster applied? (violated) | as the roster part of `accounts` |
| `services` | each service by itself | see below |

`services`: beds – 3 students, 2 rooms (2 beds and 1), one call of each kind, 1 pair to
block; petitions – 3 signers, threshold 2, 2 texts, 2 taps each; requests – 2 pupils, 4
reviews, 3 days, a notice lives for 2; cases – 2 schedules, 2 workers, 1 disturbance;
posts – 2 tabs, 1 image, 3 documents, 1 failed call, and either 1 edit and 1 voter next to
pages that save what was typed before they submit, or pages that save whenever they like; reset – 2 codes, 2
checks, 2 confirmations, 2 attempts (scaled from 5); week – 500 hours, offset 9; notices
– 2 writers and a corrector, 4 uploads, 2 mishaps; releases – 3 releases, 2 containers
(the API and the web server; the third, admin, is one the last check does not ask, and the
theorem covers it), 3 backups of which 2 are kept, 1 kill; menus – 3 calls in 2 processes (of two
that are alike one begins first), 2 ranges, one entry of memory, lifetime 1,
second life 2, backoff 1, 1 outage; calendar – 3 events, 3 updates, 1 deletion, 1 import.

Why the bounds are enough.  Each was chosen as the smallest at which the hazard it is
for occurs with one call to spare: two calls of a kind meet, a third is there to notice
(a reader, a worker, a later change).  The exceptions named in a property (`unless ...`)
come from counterexamples TLC found at these bounds to the property without them; those of
`StudentRoster` also from steps its proof could not go without.
The `recording` run has one request, because requests interact only through the cap.  Two
conversions are enough for every pair of places in `generate`; a third would join or
start like one of them.  The points are chosen odd (3, -5, -1) so that halves round, and
the threshold is scaled from -20 to -2 so that one penalty reaches it.  In the menus one
outage is injected, so a failure of Redis and one of the outside service do not happen in
one behaviour.  Deadlock is not checked in any run: calls are bounded and the system may
be at rest.

Fairness is assumed in two runs only, `drain` and `orders`, as described with
`FileOutbox` and `WakeSongs`.  The other components promise nothing that must eventually
happen: their calls end with their requests, or are cut off.

## Proofs

`FileOutboxProofs` proves, for any number of keys, threads, processes, failures and
overruns: type correctness; `LiveFilesKeepTheirObject`; `OrphanedRowsAreDoomed`;
`IntentsSurvive`; `ObjectsAreAccountedFor`; `ProfileImageIsReplaced`;
`RowOutlivesObject`; `ClaimsAreExclusive`; `QuotaHeld`; and that `FileOutbox` implements
`FileStore`.

The argument rests on one inductive invariant, `IInv == TypeOK /\ Sound`.  What has
to be added to the safety properties is *why a job that exists may be executed*:

* `JobsAreJustified`, `ClaimsAreJustified`, `WorkIsJustified`: a job, a claimed job
  and a job in hand that would erase an object either belong to a recorded deletion
  or to an upload whose row does not exist and never will.  Without them nothing
  ties what the worker read at claim time to what is true when it erases.
* `UncommittedLeaveNoTrace`, `UnbornHaveNoJob`, `StoredIsStored`, `RowsWereFiles`: what the place of
  an upload in its method says about the three stores.

Each action is shown to preserve `Sound` (`UploadKeepsSound`, `DeletionKeepsSound`,
`CleanupKeepsSound`, `EnvironmentKeepsSound`), the refinement is then a case split on
how many keys a step changes (`OneChange`).  `ClaimsAreExclusive` has an invariant of
its own, which says that a job in a thread's hand is the leased row of the outbox.
`ObjectsAreAccountedFor` follows step by step: only a put stores bytes
(`ObjectsArrive`), an upload that gives up leaves a row or a job when it moves on
(`UploadLeavesATrace`), and row and job are removed after the object
(`RowAndJobLeaveLast`).  `ProfileImageIsReplaced` needs `Replacing`: an upload that
lists the images of its profile has committed its own, and what it listed is of this
profile and not itself; since what was a file stays one or is condemned
(`CondemnedOrThere`), the image that replaces stays a witness.

The assumptions are `ThreadAssumption` and `ValueAssumption` of `FileOutbox`: kinds
of threads are disjoint, there are finitely many uploads, the maps have their types.

`SchoolLifeProofs` holds the theorems of six small components, a section each.
For `CandidateWeek` it proves `WeekIsSound`, that is `IsTheNextWeek` and
`ListedUnderItsWeek`, for every instant, horizon and whole-hour offset of a day.  The only assumption is
`WeekAssumption`; the argument is linear arithmetic with `div` and `%`, split by the
weekday (`NextMonday`, `OneMondayAWeek`).

`PointsLedgerProofs` proves, for any number of students, records, calls, processes and
crashes: `LedgerAddsUp`, `HalvingIsExact`, `AppliedOncePerProcess`, `CompletionResets`,
`OneOpenCase` and `DepartedAreHalvedInARace`.  None of them follows from itself; the inductive invariant
`IInv` joins

* `Shape`: what the types say without sums, and that a departure that was prepared is
  about a case there is;
* `Once`: a running operation is the one its process's table knows of, records of an
  operation come with its audit row, and a call that has read its snapshot has no
  audit row of its key from its own process beside it;
* `Locked`: the total of the student of a completion under way is at the threshold,
  and no two completions hold one student.  Everybody who adds to a total waits for
  the lock (`LockedTotals`), which is what makes the early check still true at the end;
* `Remembered`: a reset in the ledger has a completed case next to it until somebody
  dismisses one, and no half has read a reset before that;
* `OneOpen`: no open case of a student that a sync has found was there when it read, and
  only syncs that are done have opened cases; with `OneOpenCase` itself, which is what a
  sync adds to when it inserts.

Each part has a lemma with one step per action (`ShapeKept`, `OnceKept`, ...).

`LedgerAddsUp` needs `SumsInv` beside it: every total is the sum of the records that count,
and the records are finitely many (`Sums`), as are those of a snapshot (`Snapshots`);
whoever wrote a record writes no more (`Written`), so what is inserted is new to the ledger;
and the total a completion has read is the total there is until it writes zero
(`SeenIsTotal`), because its row is locked.  Without the last, the record of a reset and the
absolute zero of the same transaction would not belong together.

The sums themselves are a recursive function over sets, defined with `CHOOSE` in the
community modules.  That this function exists is proved (`SumExists`), and so is that the
order of the addends does not matter (`WithoutOne`) and that sums of disjoint sets add up
(`PointsOfBoth`).  The induction theorems of the library cannot be used for this, since they
take an operator; instead the set of counterexamples is shown to be empty because it would
have a least member (`SubsetInduction`, from the well-founded orders of the library).
`HalvingIsExact` follows from the sums and `HalvesAreExact`: the two adjustments of a half
count as merit and as penalty, whatever the signs.

The assumptions are `CallAssumption` (kinds of calls are disjoint), `MapAssumption` (types
of the constant maps; a call has finitely many items; system items are no items) and `StudentAssumption` (finitely many
students, for the number of candidates of a sync).

The same module proves `AwardsAreExplained`, the types with it, of `AwardForm`, for any number of awards, rows,
calls and lost answers, with `AwardInv` as inductive invariant.  An award that was entered
is looked for in the list, in a call and in the records, and the invariant says where:

* `RowsAreApart`: an award has one row of the list at most, in the wording it was given
  last, and `FormIsApart`: what the form or a spreadsheet brings is new to the list, unless
  the form held it while a success emptied the list (`straddled`);
* `CallHasTheList`: what is in the list while a call is under way is in the call, or was
  added meanwhile, so that a success which empties the list drops the latter alone;
* `CarriedOnce`: one call carries an award, the one the page waits for or one that is done
  and whose rows have left the list; calls with a lost answer (`unsure`) are the exception
  the property names;
* `RecordsAreOfCalls`: the records are the rows of the calls that were carried out.

Its assumption is `AwardAssumption`: bounds are numbers, and the award that stands for
none is no award.

`WakeSongsProofs` proves, for any number of requests, students, edits, conversions,
processes and faults: type correctness, `PendingCapHeld`,
`RecordingsAreOfApprovedSongs`, `OneTaskPerSong` and `StaleRecordingsWereRaced`.  The
inductive invariant joins the types with

* `Creating`: a creation that has counted holds its student's row, and what it counted
  is still an upper bound.  The cap follows because only such a creation makes a
  request pending;
* `Approved`: requests in conversion were approved, as those with recordings.  This is
  where it matters that no transition leaves the approved statuses;
* `Tasks`: a conversion is busy exactly while the table names it, and entries are in
  the place of their process and request;
* `Fresh`: what has not been stored is absent, and as long as nothing failed a
  conversion that renders another segment than the request's is one an edit has noted.

The assumptions are `CallAssumption` (kinds of calls are disjoint, finitely many
requests) and `ValueAssumption`.

`SessionsProofs` proves, for any number of users, roles, calls and tokens: type
correctness, `HandoversAreUsedOnce`, `AnAdministratorRemains`, `StaleSessionsAreExplained`
and `LogoutEndsItsSession`.  `SessionsInv` joins the types (`Shapes`) with `Known`, what
each call has in its notes at each place of its method (for a change of roles: holders
that include somebody other than its user), and `TakenOnce`, which ties a hand-over's place
to what is still in Redis.  A step of one call that changes neither database nor Redis is
dealt with once (`QuietStep`).  The two statements about sessions need three more:

* `Issued`: a token somebody holds has been issued, and a session that is stored and not
  yet indexed is as its call had read it, so that staleness can be read off the call;
* `Listed`: a session that nobody excuses is in the index of its user, what a call has
  deleted stays deleted, and a logout under way has its session in the list it deletes;
* `Explained`: a session being issued says what the database says, or a change has still
  to list the tokens of its user, or it is one of the excused.  The statement speaks of
  sessions under way because a change may come at any place of their issuing.

Of the roster it proves `IdentitiesAreSound` for any number of students and school years,
files of any length and any calls.  `LoginsAreOnesOwn` stands alone: only a registration
links a login (`LoginsAreKept`).  The rest is `RosterInv`, which adds to the types and the
two statements about people

* `CallsHold`: a plan is of the rows of its file, and whom it, a correction or a selection
  names is a student who was there and remains one (`PlanHolds`);
* `AbsentAreNotEnrolled`, so that a newcomer has nobody's enrolment.

The statements about people are not inductive for an application as a whole, whose rows
are written one after the other, each into what the ones before have left.  `PutsAre`
shows that this loop is the recursive function it is written as, and three invariants go
through it by induction over the row number (`UpTo`, a least counterexample again): nobody
vanishes and the numbers of the rows to come are with whom they were (`Kept`); with a roster
that changes the numbers in use, whoever is not overtaken is as before or sits under the
number of the row that named him (`Renumbered`); with a roster of another year only
newcomers change (`Prepared`).  The heart is `UpToDateRow`: a row that is still planned as
it was finds its student, or nobody, under its number.  `AppliedIs` joins them with the
graduates; every other action has a step lemma of its own.  No more is
excepted than `crossed` lists: a student added after the plan, whom the rollover
overlooks, those a roster of a past year makes active, and those of a row that was planned
before another write of the same year.

`SchoolLifeProofs`, continued:

* The types of each component, from its invariant (`PetitionTypes`, `DormTypes`,
  `DeviceTypes`, `RequestTypes`, `Instants`).
* `PetitionIsHonest` for any signers, threshold and texts.  What has to be added is about
  the screens: one that shows a signature shows the text that stands
  (`ScreensWithSignatures`), because the text changes only while there is none
  (`NobodySigned`).
* `BedPlanIsSound` for any rooms, students and calls.  `DormInv` adds that moves and swaps
  place whom they replace (`ReplacedArePlaced`), and that a block a locked transaction does
  not know of concerns nobody it places, or came too late (`LateBlocksAreForgiven`).  The
  heart is `WhoShares`: two students share a room after a write only if they did before,
  or as validated.
* `SchedulesAreOneShot` for any cases, schedules, workers, batch limit and horizon.
  `DeviceInv` says what a worker's batch is once the world has moved on: a row in hand is
  there, was carried out, or was deleted meanwhile (`HandsAreExplained`); one that was
  carried out is the one its worker has just carried out (`ActedInHand`); two workers hold
  one row only if the second reading was noticed (`HandsAreApart`); and what precedes a row
  in hand, in number and in time, is in hand with it, done or gone (`NoneIsSkipped`,
  `NoneWasSkipped`), which is what makes the later schedule win.
* `RequestIsTruthful` for any students, edits, reviews and days.  `ActivityInv` adds that
  notices expire in the order they were told in (`NoticesAreInTurn`), and that a notice of
  another outcome than the one that stands is followed by one of this outcome or has
  expired, unless this one could not be told (`OthersAreOverruled`).
* `SchoolDataIsSound` for any processes, ranges, calls, capacities, lifetimes, edits and
  imports.  Ages first: an entry of the memory, of Redis and a load under way is of about
  the time it says (`EntriesAreRecent`, `ShelfIsRecent`, `LoadsAreRecent`), and a call has
  what it held from no earlier (`Recent`); two lifetimes are what an entry can gain through
  Redis.  That outages are bridged rests on `PromisesAreKept`: what was answered with the
  promise to remember it is in the memory, as long as the process was asked for no more
  ranges than it can hold.  Whatever is set drives out nothing then, for every entry is of
  a range that was asked for (`MemoryIsAsked`) and no two are of one; that is an injection
  of the memory into these ranges (`MemoryIsFilled`).  A restart breaks the promise and the
  answers that relied on it at once.  A call that has nothing to fall back on looked when
  nothing was promised (`MissesAreExcused`).  For the calendar it is enough that rows and
  what was read of them have all their fields (`CalendarInv`): whatever is written was
  checked and normalised as a whole.

`AccountsProofs` proves `ResetIsOrderly` and `ActivationsAreSound`, with the types, each for
any number of codes and calls and any limit of attempts.

* `ResetInv`: codes in force or in hand were stored (`CodesWereStored`); who waits for his
  mail to go out is alone with his code (`SenderIsAlone`), so the newest mail is of the
  code in force or one of the two is an overlapped one (`WillBeTold`); one check at a time
  has a code in hand (`OneHasIt`), what is traded stays dropped (`TradedIsDropped`) and was
  traded once; passwords, those about to be set and unused tokens are together no more than
  the trades (`PasswordsAreTraded`); and whoever has read a code knows all its mismatches
  (`MissesAreKnown`), each with the exception of shared codes.
* `ActivationInv`: what each kind of call may be at (`CallsAreOfAKind`); a flow, stored or in
  somebody's hand, has digits that were made for its contact and says verified only of
  digits entered (`FlowsAreGrounded`), which is what survives flows being replaced, written
  back and deleted; a completion past a check has been shown that contact
  (`PassedAreShown`); who is in a transaction holds the row or lost it, and a held row is
  unused (`RowIsHeld`); what the holder wrote at the provider is still his or a stray's
  (`LoginIsOwn`), since nobody else may write while he holds the row.

`PublicationProofs` proves `PostsAreSound` for any documents, tabs, edits and voters, and
`SubmissionsAreSound` for any writers, corrections and files, and the types of both
(`PostTypes`; `SubmissionTypes`, which needs that a file is of a row that was made).

* `BoardInv`: images of a post and of every document under way are uploads
  (`ImagesAreUploads`); what was checked for a published post has text and public images
  when it is written, for published is for good (`CheckedForReaders`); votes, and votes
  checked but not cast, fit the poll or were overtaken (`VotesFit`).  Checks and writes of
  documents are dealt with once for their three callers (`CheckingKeeps`, `WritingKeeps`).
* `SubmissionInv`: a page knows the row it made until it gives it up (`RowsAreKnown`,
  `TargetsAreOwn`); what it was answered about is attached to that row (`AnswersAreTrue`);
  a correction that may still be written keeps the images the writer put in
  (`CorrectionsKeepImages`); a file is in its page's answers, once for an item, unless a
  call of the page failed (`SentOnce`).

`DeploymentProofs` proves the types and `ReleasesAreSound` for any containers, any number of
releases, backups and runs, commands that fail at any container, and a kill between any two
steps.  `DeploymentInv` says what a script
half-way knows: what it loaded is what is recorded until it writes (`Loaded`); amid the
renames each field is still to be written or has its new value (`Renaming`), so a script
that is not killed ends with whole records (`Recorded`); every container is of the recorded
release or stopped, but where the script has just changed them and while it is adrift
(`Serving`); and what serves never
outruns the schema (`Migrated`).

Assumptions: `SessionsAssumption` (finitely many users, an administrator at the start,
types of the constant maps), `PetitionAssumption` (a positive threshold), `DormAssumption`
(types of the maps, kinds of calls are disjoint), `DeviceAssumption` (numbers),
`ActivityAssumption` (the applicant is a pupil; numbers; a notice lives for a day at least),
`SchoolDataAssumption` (numbers; the second life is no shorter than the first; finitely
many calls; events and changes have the fields of the form),
`ResetAssumption` and `ActivationAssumption` (kinds of calls are disjoint; the marks for
nothing and for digits nobody sent are none of the values), `RosterAssumption` (numbers,
years and students are positive numbers; finitely many students; no file names a number
twice, which `buildRosterPlan` refuses), `BoardAssumption` (a blank document; the mark for
none is no document), `SubmissionAssumption` and `DeploymentAssumption`.  TLC evaluates each in the run that checks the component.

Left to TLC: liveness (`OutboxDrains`, `ImplementsFairFileStore`, `OrdersAreAnswered`),
which the prover does not handle, and `ServicesTypeOK`, the conjunction of types of nine
components in the one run that explores them side by side: each conjunct is a theorem of
its component's specification.  Every other property of a run that passes is proved.

## Findings

Each is a run that TLC refutes; `PROJECT.json` quotes the line that says otherwise.

* `lost_intent` — `deleteForTarget` says of the outbox that repeated enqueueing is
  harmless because the key is unique (files.service.ts:559-560).  If the commit
  acknowledgement of an upload is lost, its compensation and the deletion of its
  parent meet in one row: the later insert overwrites `file_id`, the earlier one
  keeps its `reason`.  Depending on the order, the worker consumes the merged job
  because the row exists, or erases the object and leaves the row.  Either way the
  recorded deletion is forgotten and a file row without parent stays.
* `stale_recording` — architecture.md:83 has previous recordings cleaned up when the
  segment changes; a conversion under way during the edit stores its recording after
  the cleanup, and it is offered from then on.
* `half_races_departure` — architecture.md:90 leaves departed students out of later
  halves; a half that took its snapshot before the departure and waited for it at the
  system user's row halves the student all the same, and the total leaves zero.
* `sessions_lapse` — architecture.md:75 ends all sessions of a user when a role or
  permission changes.  A later login without "remember me" shortens the life of the
  index below that of the sessions it lists; after it lapsed, a change finds nothing.
* `refused_rollover` — erp-data-model-audit.md:44 and the operations document on
  activation let incoming students take over numbers as they are in the roster.  A row
  that needs a number somebody still holds is refused by the unique index, and the file
  with it, although the preview called it applicable.

Met on the way, and not pursued with runs of their own:

* **Points.** A completed case can be dismissed (points.service.ts:1387 does not look at
  the status), after which its student is halved by records from before the reset, the
  second way out in `DepartedAreHalvedInARace`.  The audit row of a semester and the open
  case of a student have no unique index (architecture.md:101 speaks of one for every
  rule against duplicates), which is why `AppliedOncePerProcess` is stated per process
  and `OneOpenCase` leaves a sync that read too early its second case.  `updateReason` edits the type of a
  used reason, which architecture.md:92 excludes and points.service.spec.ts:328 expects.
  A halved record that is canceled leaves its half behind, so that the sum of merits can
  become negative.  The award page makes a fresh idempotency key for every attempt; its
  success clears rows added meanwhile and lets a row under edit be added again.
* **Wake songs.** A reviewer may approve a segment he did not see (wake-songs.service.ts
  :685).  Two callers may convert one request twice (ui-ux-principles.md:84 merges them).
  `-ss` and `-t` follow `atempo` in the ffmpeg call and hence count output time
  (wake-song-audio.service.ts:157).  A failed discarding of recordings is not retried.
* **Sessions and roles.** An inactive user with `system_admin` counts as an administrator
  in `assignUserRoles`.
* **Password reset.** A mismatch writes back the flow it read and so loses attempts of
  overlapping calls, or a newer code; a failing delivery deletes a newer flow; a token is
  consumed although the new password is refused.
* **Activation.** The increment of `attemptCount` is rolled back by the exception that
  reports the mismatch.  The row lock of the school year is held during calls of the
  provider.  The lookup hash of an old code may be filled in over a reissued one's (:887).
  Codes of staff are refused after a change of year though the operations document speaks
  of students only.  A used code blocks the number's next holder, and so does the login
  that is named after the first number of a student.  Bulk issue skips numbers whose
  unused code of the previous year has not expired.
* **Roster.** A roster of a past year creates active accounts.  A student added or
  restored between the plan and the application of a rollover is left behind.  A row that
  names a number of the target year is matched without the name.  A newcomer whom a
  roster prepared for the next year creates, and the one that starts the year omits, stays
  an active student, under the number he was created with even if a second preparation
  enrolled him under another (`Overlooked`).  `updateStudent`
  re-enrols a graduate and writes number and year it read before.  `ON DUPLICATE KEY`
  updates another student's enrolment.  A crash between the commit of an import and
  `changeStatus` leaves graduates active until somebody retries.  The retention job does
  not look again before it erases.
* **Requests, beds, boards, notices.** The key `activity-request:<id>:<outcome>` swallows
  a repeated outcome.  A swap applies what it read before its transaction.  `startsAt` of
  a petition is never checked.  `publicNo` is the maximum plus one without a lock: one of
  two concurrent creations fails on the unique index and the number of a deleted last
  notice is used again.  `notices.update` reports success on a deleted notice.  A correction opened before a
  new notice's final text was saved drops its images.
* **Deployment.** `if ! start_application` ignores every command and health check but the
  last (README:140 claims they pass): containers that are not recreated go on, answer it,
  and a release is recorded that does not run.  A kill inside `persist_success_state` leaves records of
  two releases, and on a first deployment blocks the next.  The backup a restore takes may rotate
  away the one it was asked for.  A rollback after a restore starts an application newer
  than the schema.  Deploying one tag twice makes it its own predecessor.  A deployment
  after an interrupted restore bootstraps an empty database.  A dump newer than the
  rolled-back release's migrations is refused with services stopped.  README says 14
  backups, the code's default is 30.
* **School data.** `updateManagedEvent` merges what it read before the write and reports
  success for an event deleted meanwhile.  `{isHoliday: false}` alone cannot end a
  holiday.  Memory gives a value from Redis a whole new lifetime.

## What is not modelled

* **JBS posts** – each operation is one transaction on a locked post; comments and likes
  are those of Boards.
* **Comments, likes, pinning; status of lost items; reports and thanks; defects of rooms;
  creation of reasons; staff records; definitions of roles; read marks of notices** –
  operations of one row without a condition on anything else.
* **View counts** – one atomic script claims a viewer's day, one statement counts it; a
  claim without its count is a lost view and nothing else.
* **Redis access, gateways, read models** – wrappers and outside services; what they do
  when they fail is modelled with their callers.
* **Migrations, seeds and one-off imports** (`provision-cognito-students.cjs`,
  `migrate-content-assets-to-s3.cjs`, `import-legacy-site-data.cjs`) – run by hand on a
  quiet system; unique indexes are modelled where the services rely on them.
  `backup-server.sh` copies files elsewhere.
* **Pages** – the portals' other pages render what the API returns and keep no state the
  server relies on; so do the editor and the UI package.
* Formatting, parsing and validation of texts wherever no property depends on them; the
  lottery of a draw among placements that fit.

## Plan

Done: 1. files and outbox; 2. wake songs; 3. points with the page that awards them;
4. sessions, hand-overs, roles; 5. dormitory; 6. petitions, activity requests with their
notices, device cases; 7. password reset and activation; 8. roster and lifecycle;
9. boards and submissions with their pages; 10. menus, calendar, deployments.

Left, in this order: the provisioning of logins for a whole year's students
(`provision-cognito-students.cjs`), which resumes after a failure; the migration of
assets to S3; comments and likes with the deletion of their post; the printing of a day's
requests.  Theorems worth proving next: `AwardForm` and `PointsLedger` together, that is,
that what a page counts as awarded is what the ledger has recorded.
