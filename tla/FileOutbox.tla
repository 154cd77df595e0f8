----------------------------- MODULE FileOutbox -----------------------------
(***************************************************************************)
(* apps/api/src/modules/files: attachments whose bytes live in S3, whose   *)
(* metadata live in the MySQL table `files`, and whose deletion goes       *)
(* through the durable outbox `file_cleanup_jobs`.                         *)
(*                                                                         *)
(* Three kinds of threads run in the API processes: upload requests,       *)
(* deletion requests and the background cleanup worker.  A thread runs one *)
(* statement or one transaction at a time; between two of them every other *)
(* thread may run, the process may die and a lease may run out.            *)
(*                                                                         *)
(* An upload draws a random object key, so an upload and its key are the   *)
(* same value.  A file row is identified by its key too; a cleanup job is  *)
(* identified by its key and an id, because the job of a key can be        *)
(* consumed and inserted again.  Time is reduced to what it enables: a     *)
(* job waits for its backoff, is free, or is held by a fresh or stale      *)
(* lease.                                                                  *)
(***************************************************************************)
EXTENDS Naturals, FiniteSets

CONSTANTS
    Uploads,        \* upload requests, and the object keys they draw
    Deleters,       \* deletion requests
    Workers,        \* background cleanup workers, one per API process
    Processes,      \* API processes
    Targets,        \* the parent rows files are attached to
    Kept,           \* targets that outlive their files: profiles, wake songs
    Profiles,       \* those among them that are profiles
    Generated,      \* uploads made by storeGeneratedFile
    Owners,         \* accounts charged for the files
    TargetOf,       \* the target of an upload or a deletion request
    OwnerOf,        \* the account charged for an upload
    ProcessOf,      \* the API process a thread runs in
    Quota,          \* files an account may store
    BatchSize,      \* jobs one batch may claim
    LostAcks,       \* can a commit succeed without its acknowledgement?
    MaxFaults,      \* bound on failed calls, lost acknowledgements and crashes
    MaxOverruns,    \* bound on leases that run out under a thread at work
    NoJob,          \* no cleanup job for a key; no job in hand
    Nobody          \* no process holds the lease

VARIABLES
    objects,        \* keys stored in S3
    files,          \* keys with a row in `files`
    parent,         \* parent[t]: does the parent row still exist?
    jobs,           \* jobs[k]: the row of key k in `file_cleanup_jobs`
    lastId,         \* lastId[k]: how many jobs of key k were ever inserted
    doomed,         \* keys whose deletion was committed to the outbox (history)
    pc,             \* pc[h]: where thread h is
    rows,           \* rows[h]: file rows thread h read and has yet to enqueue
    batch,          \* batch[h]: claimed jobs, as read by the claim
    current,        \* current[h]: the claimed job being processed
    faults,         \* failures injected so far
    overruns        \* leases that ran out under a thread at work

vars == <<objects, files, parent, jobs, lastId, doomed, pc, rows, batch,
          current, faults, overruns>>
threadVars == <<rows, batch, current>>
storeVars == <<objects, files, parent, jobs, lastId, doomed>>

Threads == Uploads \cup Deleters \cup Workers
Reasons == {"upload_compensation", "target_delete"}

Leases == {"backoff", "free", "held", "stale"}

\* The columns of a job that behaviour depends on.  fileId: does the job name
\* the file row?  lease: next_attempt_at is to come; or locked_at is null,
\* recent, or older than the lease timeout.
JobRow == [id: Nat, fileId: {"set", "null"}, reason: Reasons,
           lease: Leases, lockedBy: Processes \cup {Nobody}]

\* What a claim keeps in memory of the rows it claimed.
ClaimedJob == [key: Uploads, id: Nat, fileId: {"set", "null"}, reason: Reasons]

UploadPc == {"checked", "stored", "rolledback", "unacked", "acked",
             "compensated", "reconciling", "stranded"}
CleanupPc == {"list", "enqueue", "claim", "next", "check", "consume",
              "erase", "settle", "fail"}

ASSUME ThreadAssumption ==
    /\ Uploads \cap Deleters = {} /\ Uploads \cap Workers = {}
    /\ Deleters \cap Workers = {}
    /\ IsFiniteSet(Uploads)
    /\ TargetOf \in [Uploads \cup Deleters -> Targets]
    /\ OwnerOf \in [Uploads -> Owners]
    /\ ProcessOf \in [Threads -> Processes]
    /\ Profiles \subseteq Kept /\ Kept \subseteq Targets
    /\ Generated \subseteq Uploads

ASSUME ValueAssumption ==
    /\ NoJob \notin JobRow /\ NoJob \notin ClaimedJob
    /\ Nobody \notin Processes
    /\ Quota \in Nat /\ BatchSize \in Nat \ {0} /\ MaxFaults \in Nat
    /\ MaxOverruns \in Nat
    /\ LostAcks \in BOOLEAN

TypeOK ==
    /\ objects \subseteq Uploads
    /\ files \subseteq Uploads
    /\ parent \in [Targets -> {"live", "gone"}]
    /\ jobs \in [Uploads -> JobRow \cup {NoJob}]
    /\ lastId \in [Uploads -> Nat]
    /\ doomed \subseteq Uploads
    /\ pc \in [Threads -> UploadPc \cup CleanupPc \cup {"idle", "done"}]
    /\ rows \in [Threads -> SUBSET Uploads]
    /\ batch \in [Threads -> SUBSET ClaimedJob]
    /\ current \in [Threads -> ClaimedJob \cup {NoJob}]
    /\ faults \in Nat /\ overruns \in Nat

Init ==
    /\ objects = {} /\ files = {} /\ doomed = {}
    /\ parent = [t \in Targets |-> "live"]
    /\ jobs = [k \in Uploads |-> NoJob]
    /\ lastId = [k \in Uploads |-> 0]
    /\ pc = [h \in Threads |-> "idle"]
    /\ rows = [h \in Threads |-> {}]
    /\ batch = [h \in Threads |-> {}]
    /\ current = [h \in Threads |-> NoJob]
    /\ faults = 0 /\ overruns = 0

-----------------------------------------------------------------------------
(* Shared pieces of the actions.                                            *)
(*                                                                          *)
(* An operator whose name starts with Mutant is a plausible slip in the     *)
(* definition that follows it; no action uses it.  The model checker puts   *)
(* it in that definition's place to see the properties fail.                *)

Goto(h, l) == pc' = [pc EXCEPT ![h] = l]

NoFault == UNCHANGED <<faults, overruns>>

Fault ==
    /\ faults < MaxFaults
    /\ faults' = faults + 1
    /\ UNCHANGED overruns

FilesOf(t) == {k \in files : TargetOf[k] = t}

\* Rows that count against an account; generated audio is charged but never
\* refused.
Usage(o) == Cardinality({k \in files : OwnerOf[k] = o})
WithinStorageQuota(u) == u \in Generated \/ Usage(OwnerOf[u]) + 1 <= Quota

\* Slip: the target is not looked at again under the lock.
MutantCanAttach(u) == WithinStorageQuota(u)

\* The final check of an upload, made under the locks of the target row and
\* of the owner row.
CanAttach(u) == parent[TargetOf[u]] = "live" /\ WithinStorageQuota(u)

\* A cleanup job is inserted; for a key that already has one, the unique index
\* turns the insert into an update of file_id, and of nothing else that matters.
InsertedJob(k, reason, fileId) ==
    [id |-> lastId[k] + 1, fileId |-> fileId, reason |-> reason,
     lease |-> "free", lockedBy |-> Nobody]

EnqueueCleanup(K, reason, fileId) ==
    /\ jobs' = [k \in Uploads |->
                  IF k \notin K THEN jobs[k]
                  ELSE IF jobs[k] = NoJob THEN InsertedJob(k, reason, fileId)
                  ELSE [jobs[k] EXCEPT !.fileId = fileId]]
    /\ lastId' = [k \in Uploads |->
                    IF k \in K /\ jobs[k] = NoJob THEN lastId[k] + 1
                    ELSE lastId[k]]

Leased(job, lease, p) == [job EXCEPT !.lease = lease, !.lockedBy = p]

\* Is the row of job c still the one thread h's process holds?
OwnsJob(h, c) ==
    /\ jobs[c.key] # NoJob
    /\ jobs[c.key].id = c.id
    /\ jobs[c.key].lockedBy = ProcessOf[h]

DeleteClaimedCleanupJob(h, c) ==
    jobs' = IF OwnsJob(h, c) THEN [jobs EXCEPT ![c.key] = NoJob] ELSE jobs

-----------------------------------------------------------------------------
(* Uploads: upload() and storeGeneratedFile(). *)

\* The checks made before the bytes are stored; storeGeneratedFile has none.
BeginUpload(u) ==
    /\ pc[u] = "idle"
    /\ u \in Generated \/ CanAttach(u)
    /\ Goto(u, "checked")
    /\ UNCHANGED <<storeVars, threadVars>>
    /\ NoFault

PutObject(u) ==
    /\ pc[u] = "checked"
    /\ objects' = objects \cup {u}
    /\ Goto(u, "stored")
    /\ UNCHANGED <<files, parent, jobs, lastId, doomed, threadVars>>
    /\ NoFault

\* The put reports an error, whether or not S3 kept the bytes.  Nothing is
\* compensated: the call is made before the try block.
PutObjectFails(u) ==
    /\ pc[u] = "checked"
    /\ Fault
    /\ \/ objects' = objects \cup {u} /\ Goto(u, "stranded")
       \/ UNCHANGED objects /\ Goto(u, "done")
    /\ UNCHANGED <<files, parent, jobs, lastId, doomed, threadVars>>

\* Slip: only the check before the put looks at the quota.
MutantCommitUpload(u) ==
    /\ pc[u] = "stored"
    /\ parent[TargetOf[u]] = "live"
    /\ files' = files \cup {u}
    /\ Goto(u, IF TargetOf[u] \in Profiles THEN "acked" ELSE "done")
    /\ UNCHANGED <<objects, parent, jobs, lastId, doomed, threadVars>>
    /\ NoFault

\* The transaction: final checks under locks, then the file row.
CommitUpload(u) ==
    /\ pc[u] = "stored"
    /\ CanAttach(u)
    /\ files' = files \cup {u}
    /\ Goto(u, IF TargetOf[u] \in Profiles THEN "acked" ELSE "done")
    /\ UNCHANGED <<objects, parent, jobs, lastId, doomed, threadVars>>
    /\ NoFault

\* MySQL commits, the client sees an error.
CommitUploadUnacked(u) ==
    /\ LostAcks
    /\ pc[u] = "stored"
    /\ CanAttach(u)
    /\ Fault
    /\ files' = files \cup {u}
    /\ Goto(u, "unacked")
    /\ UNCHANGED <<objects, parent, jobs, lastId, doomed, threadVars>>

\* Slip: the error is passed on without queueing a compensation.
MutantRejectUpload(u) ==
    /\ pc[u] = "stored"
    /\ ~CanAttach(u)
    /\ Goto(u, "done")
    /\ UNCHANGED <<storeVars, threadVars>>
    /\ NoFault

\* The transaction rolls back: a final check refuses, or the database fails.
RejectUpload(u) ==
    /\ pc[u] = "stored"
    /\ \/ ~CanAttach(u) /\ NoFault
       \/ Fault
    /\ Goto(u, "rolledback")
    /\ UNCHANGED <<storeVars, threadVars>>

QueueUploadCompensation(u) ==
    /\ pc[u] \in {"rolledback", "unacked"}
    /\ EnqueueCleanup({u}, "upload_compensation", "null")
    /\ Goto(u, IF pc[u] = "unacked" THEN "reconciling" ELSE "compensated")
    /\ UNCHANGED <<objects, files, parent, doomed, threadVars>>
    /\ NoFault

\* The outbox is down too: the error is logged and the object preserved.
QueueUploadCompensationFails(u) ==
    /\ pc[u] \in {"rolledback", "unacked"}
    /\ Fault
    /\ Goto(u, IF pc[u] = "unacked" THEN "done" ELSE "stranded")
    /\ UNCHANGED <<storeVars, threadVars>>

\* getById closes upload(): it throws when the row is gone already, and
\* uploadProfile goes no further.
ReadUploadedProfile(u) ==
    /\ pc[u] = "acked"
    /\ Goto(u, IF u \in files THEN "list" ELSE "done")
    /\ UNCHANGED <<storeVars, threadVars>>
    /\ NoFault

-----------------------------------------------------------------------------
(* Deletions: parents that take their files along, and deleteForTarget(). *)

\* Slip: the files are left to the deleteForTarget call that follows.
MutantDeleteParent(d) ==
    /\ pc[d] = "idle"
    /\ TargetOf[d] \notin Kept
    /\ parent[TargetOf[d]] = "live"
    /\ parent' = [parent EXCEPT ![TargetOf[d]] = "gone"]
    /\ Goto(d, "list")
    /\ UNCHANGED <<objects, files, jobs, lastId, doomed, threadVars>>
    /\ NoFault

\* One transaction locks the parent row, enqueues its files and deletes it.
DeleteParent(d) ==
    LET t == TargetOf[d] IN
    /\ pc[d] = "idle"
    /\ t \notin Kept
    /\ parent[t] = "live"
    /\ EnqueueCleanup(FilesOf(t), "target_delete", "set")
    /\ doomed' = doomed \cup FilesOf(t)
    /\ parent' = [parent EXCEPT ![t] = "gone"]
    /\ Goto(d, "list")
    /\ UNCHANGED <<objects, files, threadVars>>
    /\ NoFault

\* deleteProfile, the deactivation of an account, or the invalidation of a
\* generated recording: the files go, the parent stays.
BeginDeleteForTarget(d) ==
    /\ pc[d] = "idle"
    /\ TargetOf[d] \in Kept
    /\ Goto(d, "list")
    /\ UNCHANGED <<storeVars, threadVars>>
    /\ NoFault

\* Slip: the image just uploaded is not left out.
MutantListRows(h) ==
    /\ pc[h] = "list"
    /\ rows' = [rows EXCEPT ![h] = FilesOf(TargetOf[h])]
    /\ Goto(h, IF h \in Uploads /\ rows'[h] = {} THEN "done" ELSE "enqueue")
    /\ UNCHANGED <<storeVars, batch, current>>
    /\ NoFault

\* The rows to enqueue are read outside any transaction: all files of the
\* target, or, after a profile upload, all but the one just uploaded.
ListRows(h) ==
    /\ pc[h] = "list"
    /\ rows' = [rows EXCEPT ![h] = FilesOf(TargetOf[h]) \ {h}]
    /\ Goto(h, IF h \in Uploads /\ rows'[h] = {} THEN "done" ELSE "enqueue")
    /\ UNCHANGED <<storeVars, batch, current>>
    /\ NoFault

\* One insert per row, each its own transaction.
EnqueueRow(h) ==
    /\ pc[h] = "enqueue"
    /\ \E k \in rows[h] :
         /\ EnqueueCleanup({k}, "target_delete", "set")
         /\ doomed' = doomed \cup {k}
         /\ rows' = [rows EXCEPT ![h] = @ \ {k}]
    /\ UNCHANGED <<objects, files, parent, pc, batch, current>>
    /\ NoFault

EnqueueRowFails(h) ==
    /\ pc[h] = "enqueue"
    /\ rows[h] # {}
    /\ Fault
    /\ rows' = [rows EXCEPT ![h] = {}]
    /\ Goto(h, "done")
    /\ UNCHANGED <<storeVars, batch, current>>

EnqueuedAll(h) ==
    /\ pc[h] = "enqueue"
    /\ rows[h] = {}
    /\ Goto(h, "claim")
    /\ UNCHANGED <<storeVars, threadVars>>
    /\ NoFault

-----------------------------------------------------------------------------
(* processCleanupBatch(), run by the worker over the whole outbox and by a  *)
(* deletion request over the jobs of its target.                            *)

Ready(h) == IF h \in Workers THEN pc[h] = "idle" ELSE pc[h] = "claim"
Rest(h) == IF h \in Workers THEN "idle" ELSE "done"

\* Slip: leases are ignored.
MutantClaimableHeld(h) ==
    {k \in Uploads : /\ jobs[k] # NoJob
                     /\ jobs[k].lease # "backoff"
                     /\ h \in Workers \/ TargetOf[k] = TargetOf[h]}

\* Slip: leases never run out.
MutantClaimableFree(h) ==
    {k \in Uploads : /\ jobs[k] # NoJob
                     /\ jobs[k].lease = "free"
                     /\ h \in Workers \/ TargetOf[k] = TargetOf[h]}

Claimable(h) ==
    {k \in Uploads : /\ jobs[k] # NoJob
                     /\ jobs[k].lease \in {"free", "stale"}
                     /\ h \in Workers \/ TargetOf[k] = TargetOf[h]}

AsRead(k) == [key |-> k, id |-> jobs[k].id, fileId |-> jobs[k].fileId,
              reason |-> jobs[k].reason]

ClaimCleanupJobs(h) ==
    /\ Ready(h)
    /\ \E K \in SUBSET Claimable(h) \ {{}} :
         /\ Cardinality(K) <= BatchSize
         /\ jobs' = [k \in Uploads |->
                       IF k \in K THEN Leased(jobs[k], "held", ProcessOf[h])
                       ELSE jobs[k]]
         /\ batch' = [batch EXCEPT ![h] = {AsRead(k) : k \in K}]
    /\ Goto(h, "next")
    /\ UNCHANGED <<objects, files, parent, lastId, doomed, rows, current>>
    /\ NoFault

ClaimNothing(h) ==
    /\ h \notin Workers
    /\ pc[h] = "claim"
    /\ Claimable(h) = {}
    /\ Goto(h, "done")
    /\ UNCHANGED <<storeVars, threadVars>>
    /\ NoFault

\* Slip: the rows are settled before the object is erased.
MutantNextJob(h) ==
    /\ pc[h] = "next"
    /\ \E c \in batch[h] :
         /\ current' = [current EXCEPT ![h] = c]
         /\ batch' = [batch EXCEPT ![h] = @ \ {c}]
         /\ Goto(h, IF c.reason = "upload_compensation" THEN "check" ELSE "settle")
    /\ UNCHANGED <<storeVars, rows>>
    /\ NoFault

NextJob(h) ==
    /\ pc[h] = "next"
    /\ \E c \in batch[h] :
         /\ current' = [current EXCEPT ![h] = c]
         /\ batch' = [batch EXCEPT ![h] = @ \ {c}]
         /\ Goto(h, IF c.reason = "upload_compensation" THEN "check" ELSE "erase")
    /\ UNCHANGED <<storeVars, rows>>
    /\ NoFault

EndBatch(h) ==
    /\ pc[h] = "next"
    /\ batch[h] = {}
    /\ Goto(h, Rest(h))
    /\ UNCHANGED <<storeVars, threadVars>>
    /\ NoFault

\* Slip: the row is not looked up.
MutantFileObjectExists(h) ==
    /\ pc[h] = "check"
    /\ Goto(h, "erase")
    /\ UNCHANGED <<storeVars, threadVars>>
    /\ NoFault

\* A compensation job whose row exists is only consumed.
FileObjectExists(h) ==
    /\ pc[h] = "check"
    /\ Goto(h, IF current[h].key \in files THEN "consume" ELSE "erase")
    /\ UNCHANGED <<storeVars, threadVars>>
    /\ NoFault

ConsumeJob(h) ==
    /\ pc[h] = "consume"
    /\ DeleteClaimedCleanupJob(h, current[h])
    /\ current' = [current EXCEPT ![h] = NoJob]
    /\ Goto(h, "next")
    /\ UNCHANGED <<objects, files, parent, lastId, doomed, rows, batch>>
    /\ NoFault

DeleteStoredObject(h) ==
    /\ pc[h] = "erase"
    /\ objects' = objects \ {current[h].key}
    /\ Goto(h, "settle")
    /\ UNCHANGED <<files, parent, jobs, lastId, doomed, threadVars>>
    /\ NoFault

\* Slip: the file row is left behind.
MutantSettleJob(h) ==
    /\ pc[h] = "settle"
    /\ DeleteClaimedCleanupJob(h, current[h])
    /\ current' = [current EXCEPT ![h] = NoJob]
    /\ Goto(h, "next")
    /\ UNCHANGED <<objects, files, parent, lastId, doomed, rows, batch>>
    /\ NoFault

\* The transaction after the erasure: the file row, if the job names it, and
\* the job row, if it is still this process's.
SettleJob(h) ==
    /\ pc[h] = "settle"
    /\ files' = IF current[h].fileId = "set" THEN files \ {current[h].key} ELSE files
    /\ DeleteClaimedCleanupJob(h, current[h])
    /\ current' = [current EXCEPT ![h] = NoJob]
    /\ Goto(h, "next")
    /\ UNCHANGED <<objects, parent, lastId, doomed, rows, batch>>
    /\ NoFault

\* Any of these steps may fail; S3 may have erased the object all the same.
ProcessJobFails(h) ==
    /\ pc[h] \in {"check", "consume", "erase", "settle"}
    /\ Fault
    /\ \/ UNCHANGED objects
       \/ pc[h] = "erase" /\ objects' = objects \ {current[h].key}
    /\ Goto(h, "fail")
    /\ UNCHANGED <<files, parent, jobs, lastId, doomed, threadVars>>

\* Slip: a failed job is given up.
MutantRecordCleanupFailure(h) ==
    /\ pc[h] = "fail"
    /\ DeleteClaimedCleanupJob(h, current[h])
    /\ current' = [current EXCEPT ![h] = NoJob]
    /\ Goto(h, "next")
    /\ UNCHANGED <<objects, files, parent, lastId, doomed, rows, batch>>
    /\ NoFault

\* The retry is scheduled and the lease returned, if it is still held.
RecordCleanupFailure(h) ==
    /\ pc[h] = "fail"
    /\ jobs' = IF OwnsJob(h, current[h])
               THEN [jobs EXCEPT ![current[h].key] = Leased(@, "backoff", Nobody)]
               ELSE jobs
    /\ current' = [current EXCEPT ![h] = NoJob]
    /\ Goto(h, "next")
    /\ UNCHANGED <<objects, files, parent, lastId, doomed, rows, batch>>
    /\ NoFault

\* Recording the failure fails: the lease stays until it is stale.
RecordCleanupFailureFails(h) ==
    /\ pc[h] = "fail"
    /\ Fault
    /\ current' = [current EXCEPT ![h] = NoJob]
    /\ Goto(h, "next")
    /\ UNCHANGED <<storeVars, rows, batch>>

-----------------------------------------------------------------------------
(* The environment: time and crashes. *)

InHand(h) == batch[h] \cup (IF current[h] = NoJob THEN {} ELSE {current[h]})

\* Some thread still works on the job its process claimed.
Attended(k) ==
    \E h \in Threads :
        /\ jobs[k].lockedBy = ProcessOf[h]
        /\ \E c \in InHand(h) : c.key = k /\ c.id = jobs[k].id

\* FILE_CLEANUP_LOCK_TIMEOUT_MS passes.  That it passes while the claimer is
\* still at work is an overrun.
LeaseExpires(k) ==
    /\ jobs[k] # NoJob
    /\ jobs[k].lease = "held"
    /\ \/ ~Attended(k) /\ UNCHANGED overruns
       \/ overruns < MaxOverruns /\ overruns' = overruns + 1
    /\ UNCHANGED faults
    /\ jobs' = [jobs EXCEPT ![k] = Leased(@, "stale", @.lockedBy)]
    /\ UNCHANGED <<objects, files, parent, lastId, doomed, pc, threadVars>>

BackoffElapses(k) ==
    /\ jobs[k] # NoJob
    /\ jobs[k].lease = "backoff"
    /\ jobs' = [jobs EXCEPT ![k] = Leased(@, "free", Nobody)]
    /\ UNCHANGED <<objects, files, parent, lastId, doomed, pc, threadVars>>
    /\ NoFault

AfterCrash(h) ==
    CASE pc[h] \in {"idle", "compensated", "reconciling", "stranded"} -> pc[h]
      [] pc[h] \in {"stored", "rolledback"} -> "stranded"
      [] OTHER -> Rest(h)

\* A process dies and is started again: its requests are gone, its worker
\* starts over, its leases stay in the database.
Crash(p) ==
    LET Dead == {h \in Threads : ProcessOf[h] = p} IN
    /\ Fault
    /\ pc' = [h \in Threads |-> IF h \in Dead THEN AfterCrash(h) ELSE pc[h]]
    /\ rows' = [h \in Threads |-> IF h \in Dead THEN {} ELSE rows[h]]
    /\ batch' = [h \in Threads |-> IF h \in Dead THEN {} ELSE batch[h]]
    /\ current' = [h \in Threads |-> IF h \in Dead THEN NoJob ELSE current[h]]
    /\ UNCHANGED storeVars

-----------------------------------------------------------------------------

UploadStep(u) ==
    \/ PutObject(u)
    \/ CommitUpload(u)
    \/ RejectUpload(u)
    \/ QueueUploadCompensation(u)
    \/ ReadUploadedProfile(u)

UploadFault(u) ==
    \/ PutObjectFails(u)
    \/ CommitUploadUnacked(u)
    \/ QueueUploadCompensationFails(u)

EnqueueStep(h) ==
    \/ ListRows(h)
    \/ EnqueueRow(h)
    \/ EnqueuedAll(h)

CleanupStep(h) ==
    \/ ClaimCleanupJobs(h)
    \/ ClaimNothing(h)
    \/ NextJob(h)
    \/ EndBatch(h)
    \/ FileObjectExists(h)
    \/ ConsumeJob(h)
    \/ DeleteStoredObject(h)
    \/ SettleJob(h)
    \/ RecordCleanupFailure(h)

CleanupFault(h) ==
    \/ EnqueueRowFails(h)
    \/ ProcessJobFails(h)
    \/ RecordCleanupFailureFails(h)

Next ==
    \/ \E u \in Uploads : BeginUpload(u) \/ UploadStep(u) \/ UploadFault(u)
    \/ \E d \in Deleters : DeleteParent(d) \/ BeginDeleteForTarget(d)
    \/ \E h \in Threads : EnqueueStep(h) \/ CleanupStep(h) \/ CleanupFault(h)
    \/ \E k \in Uploads : LeaseExpires(k) \/ BackoffElapses(k)
    \/ \E p \in Processes : Crash(p)

Spec == Init /\ [][Next]_vars

\* A started request runs on, the worker's interval keeps firing, leases and
\* backoffs run out.  Nobody has to upload or delete, and nothing has to fail.
Fairness ==
    /\ \A u \in Uploads : WF_vars(UploadStep(u))
    /\ \A h \in Threads : WF_vars(EnqueueStep(h)) /\ WF_vars(CleanupStep(h))
    /\ \A k \in Uploads : WF_vars(LeaseExpires(k)) /\ WF_vars(BackoffElapses(k))

FairSpec == Spec /\ Fairness

-----------------------------------------------------------------------------
(* Properties. *)

\* A file nobody asked to delete keeps its bytes: no compensation, retry or
\* expired lease erases the object of a committed upload.
LiveFilesKeepTheirObject ==
    \A k \in files \ doomed : k \in objects

\* When a parent row is gone, each file row it left behind is in the outbox's
\* care: an upload either commits before the deletion lists the files, or is
\* refused after it (the locked re-check of assertCanAttach).
OrphanedRowsAreDoomed ==
    \A k \in files : parent[TargetOf[k]] = "gone" => k \in doomed

\* A recorded deletion is not forgotten while anything of the file is left: its
\* job stays in the outbox until S3 and then the database let the file go.  The
\* one exception is an upload that took its lost acknowledgement for a failure
\* and queued a compensation for a row that exists.
IntentsSurvive ==
    \A k \in doomed :
        (k \in files \/ k \in objects) /\ pc[k] # "reconciling" => jobs[k] # NoJob

\* The same without the exception, as the comments of deleteForTarget have it:
\* every object reference is persisted first, and enqueueing a key again is
\* harmless.
EveryIntentSurvives ==
    \A k \in doomed : k \in files \/ k \in objects => jobs[k] # NoJob

\* No bytes without an owner: a row, a job or a request still at work answers
\* for every object, unless the upload itself was cut off before it could
\* leave a job behind.
ObjectsAreAccountedFor ==
    \A k \in objects :
        \/ k \in files
        \/ jobs[k] # NoJob
        \/ pc[k] \in {"stored", "rolledback", "stranded"}

\* A profile upload condemns the images it replaces and never its own: as long
\* as nobody asked for the removal, a condemned image has another one, committed
\* by then, in its place.  (That one may be condemned as well: two overlapping
\* uploads each take the other for the image they replace.)
ProfileImageIsReplaced ==
    \A k \in doomed :
        /\ TargetOf[k] \in Profiles
        /\ \A d \in Deleters : TargetOf[d] = TargetOf[k] => pc[d] = "idle"
        => \E k2 \in (files \cup doomed) \ {k} : TargetOf[k2] = TargetOf[k]

\* The locked recount keeps concurrent uploads of one account within its quota.
QuotaHeld ==
    \A o \in Owners :
        Cardinality({k \in files \ Generated : OwnerOf[k] = o}) <= Quota

\* Two threads work on the same claim only after a lease ran out under one of
\* them (architecture.md, file cleanup outbox: SKIP LOCKED and leases prevent
\* duplicate claims).
ClaimsAreExclusive ==
    overruns = 0 =>
        \A h1, h2 \in Threads :
            h1 # h2 => InHand(h1) \cap InHand(h2) = {}

\* Row and job leave only after the object has left.
RowOutlivesObject ==
    [][\A k \in Uploads :
         /\ k \in files /\ k \notin files' => k \notin objects
         /\ jobs[k] # NoJob /\ jobs'[k] = NoJob => k \notin objects \/ k \in files']_vars

\* Every job is worked off, whatever failed on the way.
OutboxDrains ==
    \A k \in Uploads : jobs[k] # NoJob ~> jobs[k] = NoJob

-----------------------------------------------------------------------------
(* The promise of FileStore is kept. *)

\* What a caller sees of a key: condemned from the recorded deletion until the
\* row and the object are gone.
StatusOf(k) ==
    IF k \in files THEN IF k \in doomed THEN "doomed" ELSE "live"
    ELSE IF k \in doomed THEN IF k \in objects THEN "doomed" ELSE "gone"
    ELSE "absent"

Store == INSTANCE FileStore WITH status <- [k \in Uploads |-> StatusOf(k)]

ImplementsFileStore == Store!Spec
ImplementsFairFileStore == Store!FairSpec

=============================================================================
