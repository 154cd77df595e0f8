-------------------------- MODULE FileOutboxProofs --------------------------
(***************************************************************************)
(* What FileOutbox guarantees for any number of uploads, deletions,        *)
(* workers, processes, failures and lease overruns.                        *)
(*                                                                         *)
(* The safety invariants are not inductive as they stand.  IInv adds what  *)
(* the code relies on between two transactions: what an upload that never  *)
(* committed may not have left behind, why a job is in the outbox, and     *)
(* what the thread that works on a job has found out so far.               *)
(***************************************************************************)
EXTENDS FileOutbox, FiniteSetTheorems, TLAPS

\* The transaction of the upload has not committed, and may yet.
Unborn == {"idle", "checked", "stored"}

\* It has not committed; it may have been given up.
Uncommitted == Unborn \cup {"rolledback", "compensated", "stranded"}

AtWork == {"check", "consume", "erase", "settle", "fail"}

UncommittedLeaveNoTrace ==
    \A k \in Uploads : pc[k] \in Uncommitted =>
        k \notin files /\ k \notin doomed /\ \A h \in Threads : k \notin rows[h]

UnbornHaveNoJob ==
    \A k \in Uploads : pc[k] \in Unborn =>
        jobs[k] = NoJob /\ \A h \in Threads : \A c \in InHand(h) : c.key # k

StoredIsStored ==
    \A k \in Uploads : pc[k] = "stored" => k \in objects

RowsWereFiles ==
    \A h \in Threads : rows[h] \subseteq files \cup doomed

\* A job that names the row, or that a deletion inserted, is the job of a
\* recorded deletion; any other one is the job of an upload that reported an
\* error.
Justified(k, j) ==
    /\ j.reason = "target_delete" \/ j.fileId = "set" => k \in doomed
    /\ j.reason = "upload_compensation" \/ j.fileId = "null"
         => pc[k] \in {"compensated", "reconciling"}

JobsAreJustified ==
    \A k \in Uploads : jobs[k] # NoJob => Justified(k, jobs[k])

ClaimsAreJustified ==
    \A h \in Threads : \A c \in InHand(h) : Justified(c.key, c)

WorkIsJustified ==
    \A h \in Threads :
        LET k == current[h].key IN
        /\ pc[h] \in AtWork => current[h] # NoJob
        /\ pc[h] \in {"check", "consume"} => current[h].reason = "upload_compensation"
        /\ pc[h] = "consume" => k \in files \/ k \notin objects
        /\ pc[h] = "erase" => k \in doomed \/ k \notin files
        /\ pc[h] = "settle" => k \notin objects

Sound ==
    /\ UncommittedLeaveNoTrace
    /\ UnbornHaveNoJob
    /\ StoredIsStored
    /\ RowsWereFiles
    /\ JobsAreJustified
    /\ ClaimsAreJustified
    /\ WorkIsJustified
    /\ LiveFilesKeepTheirObject
    /\ OrphanedRowsAreDoomed
    /\ IntentsSurvive

IInv == TypeOK /\ Sound

-----------------------------------------------------------------------------
(* Types. *)

\* What a claim keeps of a row is typed.
LEMMA AsReadType ==
    ASSUME NEW k \in Uploads, jobs[k] \in JobRow
    PROVE  AsRead(k) \in ClaimedJob
BY DEF AsRead, ClaimedJob, JobRow

\* Enqueueing keeps the outbox typed.
LEMMA EnqueueType ==
    ASSUME NEW K, NEW reason \in Reasons, NEW fileId \in {"set", "null"},
           jobs \in [Uploads -> JobRow \cup {NoJob}],
           lastId \in [Uploads -> Nat],
           EnqueueCleanup(K, reason, fileId)
    PROVE  /\ jobs' \in [Uploads -> JobRow \cup {NoJob}]
           /\ lastId' \in [Uploads -> Nat]
BY DEF EnqueueCleanup, InsertedJob, JobRow, Leases

\* A row under another lease is the same job.
LEMMA Relet ==
    ASSUME NEW job \in JobRow, NEW lease \in Leases, NEW p \in Processes \cup {Nobody}
    PROVE  /\ Leased(job, lease, p) \in JobRow
           /\ Leased(job, lease, p) # NoJob
           /\ Leased(job, lease, p).id = job.id
           /\ Leased(job, lease, p).reason = job.reason
           /\ Leased(job, lease, p).fileId = job.fileId
           /\ Leased(job, lease, p).lease = lease
           /\ Leased(job, lease, p).lockedBy = p
BY ValueAssumption DEF ValueAssumption, Leased, JobRow

\* The variables are typed at first.
LEMMA InitType == Init => TypeOK
BY ThreadAssumption, ValueAssumption DEF Init, TypeOK

\* Every step keeps them typed.
LEMMA NextType == TypeOK /\ [Next]_vars => TypeOK'
<1> SUFFICES ASSUME TypeOK, [Next]_vars PROVE TypeOK'
  OBVIOUS
<1> USE ThreadAssumption, ValueAssumption
<1>1. ASSUME NEW u \in Uploads, BeginUpload(u) \/ UploadStep(u) \/ UploadFault(u)
      PROVE  TypeOK'
  <2>1. CASE BeginUpload(u)
    BY <2>1 DEF BeginUpload, TypeOK, Goto, NoFault, UploadPc, Threads, storeVars, threadVars
  <2>2. CASE PutObject(u)
    BY <2>2 DEF PutObject, TypeOK, Goto, NoFault, UploadPc, Threads, threadVars
  <2>3. CASE CommitUpload(u)
    BY <2>3 DEF CommitUpload, TypeOK, Goto, NoFault, UploadPc, Threads, threadVars
  <2>4. CASE RejectUpload(u)
    BY <2>4 DEF RejectUpload, TypeOK, Goto, NoFault, Fault, UploadPc, Threads,
                storeVars, threadVars
  <2>5. CASE QueueUploadCompensation(u)
    <3>1. jobs' \in [Uploads -> JobRow \cup {NoJob}] /\ lastId' \in [Uploads -> Nat]
      BY <2>5, EnqueueType DEF QueueUploadCompensation, TypeOK, Reasons
    <3> QED
      BY <2>5, <3>1 DEF QueueUploadCompensation, TypeOK, Goto, NoFault, UploadPc,
                        Threads, threadVars
  <2>6. CASE ReadUploadedProfile(u)
    BY <2>6 DEF ReadUploadedProfile, TypeOK, Goto, NoFault, CleanupPc, Threads,
                storeVars, threadVars
  <2>7. CASE PutObjectFails(u)
    BY <2>7 DEF PutObjectFails, TypeOK, Goto, Fault, UploadPc, Threads, threadVars
  <2>8. CASE CommitUploadUnacked(u)
    BY <2>8 DEF CommitUploadUnacked, TypeOK, Goto, Fault, UploadPc, Threads, threadVars
  <2>9. CASE QueueUploadCompensationFails(u)
    BY <2>9 DEF QueueUploadCompensationFails, TypeOK, Goto, Fault, UploadPc, Threads,
                storeVars, threadVars
  <2> QED
    BY <1>1, <2>1, <2>2, <2>3, <2>4, <2>5, <2>6, <2>7, <2>8, <2>9
       DEF UploadStep, UploadFault
<1>2. ASSUME NEW d \in Deleters, DeleteParent(d) \/ BeginDeleteForTarget(d)
      PROVE  TypeOK'
  <2>1. CASE DeleteParent(d)
    <3>1. jobs' \in [Uploads -> JobRow \cup {NoJob}] /\ lastId' \in [Uploads -> Nat]
      BY <2>1, EnqueueType DEF DeleteParent, TypeOK, Reasons
    <3> QED
      BY <2>1, <3>1 DEF DeleteParent, TypeOK, FilesOf, Goto, NoFault, CleanupPc,
                        Threads, threadVars
  <2>2. CASE BeginDeleteForTarget(d)
    BY <2>2 DEF BeginDeleteForTarget, TypeOK, Goto, NoFault, CleanupPc, Threads,
                storeVars, threadVars
  <2> QED
    BY <1>2, <2>1, <2>2
<1>3. ASSUME NEW h \in Threads, EnqueueStep(h) \/ CleanupStep(h) \/ CleanupFault(h)
      PROVE  TypeOK'
  <2>1. CASE ListRows(h)
    BY <2>1 DEF ListRows, TypeOK, FilesOf, Goto, NoFault, CleanupPc, storeVars
  <2>2. CASE EnqueueRow(h)
    <3>1. PICK k \in rows[h] : /\ EnqueueCleanup({k}, "target_delete", "set")
                               /\ doomed' = doomed \cup {k}
                               /\ rows' = [rows EXCEPT ![h] = @ \ {k}]
      BY <2>2 DEF EnqueueRow
    <3>2. jobs' \in [Uploads -> JobRow \cup {NoJob}] /\ lastId' \in [Uploads -> Nat]
      BY <3>1, EnqueueType DEF TypeOK, Reasons
    <3> QED
      BY <2>2, <3>1, <3>2 DEF EnqueueRow, TypeOK, NoFault
  <2>3. CASE EnqueuedAll(h)
    BY <2>3 DEF EnqueuedAll, TypeOK, Goto, NoFault, CleanupPc, storeVars, threadVars
  <2>4. CASE ClaimCleanupJobs(h)
    <3>1. PICK K \in SUBSET Claimable(h) \ {{}} :
            /\ jobs' = [k \in Uploads |->
                          IF k \in K THEN Leased(jobs[k], "held", ProcessOf[h])
                          ELSE jobs[k]]
            /\ batch' = [batch EXCEPT ![h] = {AsRead(k) : k \in K}]
      BY <2>4 DEF ClaimCleanupJobs
    <3>2. \A k \in K : k \in Uploads /\ jobs[k] \in JobRow
      BY DEF Claimable, TypeOK
    <3>3. {AsRead(k) : k \in K} \subseteq ClaimedJob
      BY <3>2, AsReadType
    <3>4. \A k \in K : Leased(jobs[k], "held", ProcessOf[h]) \in JobRow
      <4>1. ProcessOf[h] \in Processes
        BY DEF ThreadAssumption
      <4> QED
        BY <3>2, <4>1, Relet DEF Leases
    <3>5. jobs' \in [Uploads -> JobRow \cup {NoJob}]
      BY <3>1, <3>4 DEF TypeOK
    <3> QED
      BY <2>4, <3>1, <3>3, <3>5 DEF ClaimCleanupJobs, TypeOK, Goto, NoFault, CleanupPc
  <2>5. CASE ClaimNothing(h)
    BY <2>5 DEF ClaimNothing, TypeOK, Goto, NoFault, storeVars, threadVars
  <2>6. CASE NextJob(h)
    BY <2>6 DEF NextJob, TypeOK, Goto, NoFault, CleanupPc, storeVars
  <2>7. CASE EndBatch(h)
    BY <2>7 DEF EndBatch, TypeOK, Goto, NoFault, Rest, storeVars, threadVars
  <2>8. CASE FileObjectExists(h)
    BY <2>8 DEF FileObjectExists, TypeOK, Goto, NoFault, CleanupPc, storeVars, threadVars
  <2>9. CASE ConsumeJob(h)
    BY <2>9 DEF ConsumeJob, DeleteClaimedCleanupJob, TypeOK, Goto, NoFault, CleanupPc
  <2>10. CASE DeleteStoredObject(h)
    BY <2>10 DEF DeleteStoredObject, TypeOK, Goto, NoFault, CleanupPc, threadVars
  <2>11. CASE SettleJob(h)
    BY <2>11 DEF SettleJob, DeleteClaimedCleanupJob, TypeOK, Goto, NoFault, CleanupPc
  <2>12. CASE RecordCleanupFailure(h)
    <3>1. ASSUME OwnsJob(h, current[h]), current[h].key \in Uploads
          PROVE  jobs' \in [Uploads -> JobRow \cup {NoJob}]
      <4>1. jobs[current[h].key] \in JobRow
        BY <3>1 DEF OwnsJob, TypeOK
      <4>2. Leased(jobs[current[h].key], "backoff", Nobody) \in JobRow
        BY <4>1, Relet DEF Leases
      <4> QED
        BY <2>12, <3>1, <4>2 DEF RecordCleanupFailure, TypeOK
    <3>2. ASSUME ~OwnsJob(h, current[h]) \/ current[h].key \notin Uploads
          PROVE  jobs' \in [Uploads -> JobRow \cup {NoJob}]
      BY <2>12, <3>2 DEF RecordCleanupFailure, TypeOK
    <3>3. jobs' \in [Uploads -> JobRow \cup {NoJob}]
      BY <3>1, <3>2
    <3> QED
      BY <2>12, <3>3 DEF RecordCleanupFailure, TypeOK, Goto, NoFault, CleanupPc
  <2>13. CASE EnqueueRowFails(h)
    BY <2>13 DEF EnqueueRowFails, TypeOK, Goto, Fault, storeVars
  <2>14. CASE ProcessJobFails(h)
    BY <2>14 DEF ProcessJobFails, TypeOK, Goto, Fault, CleanupPc, threadVars
  <2>15. CASE RecordCleanupFailureFails(h)
    BY <2>15 DEF RecordCleanupFailureFails, TypeOK, Goto, Fault, CleanupPc, storeVars
  <2> QED
    BY <1>3, <2>1, <2>2, <2>3, <2>4, <2>5, <2>6, <2>7, <2>8, <2>9, <2>10, <2>11,
       <2>12, <2>13, <2>14, <2>15
       DEF EnqueueStep, CleanupStep, CleanupFault
<1>4. ASSUME NEW k \in Uploads, LeaseExpires(k) \/ BackoffElapses(k)
      PROVE  TypeOK'
  <2>1. jobs[k] \in JobRow
    BY <1>4 DEF LeaseExpires, BackoffElapses, TypeOK
  <2>2. PICK lease \in Leases, p \in Processes \cup {Nobody} :
          jobs' = [jobs EXCEPT ![k] = Leased(jobs[k], lease, p)]
    BY <1>4, <2>1 DEF LeaseExpires, BackoffElapses, JobRow, Leases
  <2>3. jobs' \in [Uploads -> JobRow \cup {NoJob}]
    BY <2>1, <2>2, Relet DEF TypeOK
  <2> QED
    BY <1>4, <2>3 DEF LeaseExpires, BackoffElapses, TypeOK, NoFault, threadVars
<1>5. ASSUME NEW p \in Processes, Crash(p)
      PROVE  TypeOK'
  <2>1. \A h \in Threads : AfterCrash(h) \in UploadPc \cup CleanupPc \cup {"idle", "done"}
    BY DEF AfterCrash, Rest, UploadPc, TypeOK
  <2> QED
    <3>1. pc' \in [Threads -> UploadPc \cup CleanupPc \cup {"idle", "done"}]
      BY <1>5, <2>1 DEF Crash, TypeOK
    <3>2. /\ rows' \in [Threads -> SUBSET Uploads]
          /\ batch' \in [Threads -> SUBSET ClaimedJob]
          /\ current' \in [Threads -> ClaimedJob \cup {NoJob}]
      BY <1>5 DEF Crash, TypeOK
    <3> QED
      BY <1>5, <3>1, <3>2 DEF Crash, Fault, TypeOK, storeVars
<1>6. CASE UNCHANGED vars
  BY <1>6 DEF vars, TypeOK, storeVars, threadVars
<1> QED
  BY <1>1, <1>2, <1>3, <1>4, <1>5, <1>6 DEF Next

\* TypeOK: every value a request or the worker ever writes has its column's type.
THEOREM TypeCorrect == Spec => []TypeOK
BY InitType, NextType, PTL DEF Spec

-----------------------------------------------------------------------------
(* What the statements on file_cleanup_jobs do to the intents in it. *)

\* A change of leases leaves the intent of every job alone.
SameIntents ==
    \A k \in Uploads :
        IF jobs[k] = NoJob THEN jobs'[k] = NoJob
        ELSE /\ jobs'[k] # NoJob
             /\ jobs'[k].reason = jobs[k].reason
             /\ jobs'[k].fileId = jobs[k].fileId

\* A claim changes leases only.
LEMMA ClaimKeepsIntents ==
    ASSUME TypeOK, NEW h \in Threads, ClaimCleanupJobs(h)
    PROVE  SameIntents
<1>1. ProcessOf[h] \in Processes \cup {Nobody} /\ "held" \in Leases
  BY ThreadAssumption DEF ThreadAssumption, Leases
<1>2. PICK K \in SUBSET Claimable(h) \ {{}} :
        /\ jobs' = [k \in Uploads |->
                      IF k \in K THEN Leased(jobs[k], "held", ProcessOf[h])
                      ELSE jobs[k]]
        /\ batch' = [batch EXCEPT ![h] = {AsRead(k) : k \in K}]
  BY DEF ClaimCleanupJobs
<1>3. \A k \in K : jobs[k] \in JobRow /\ jobs[k] # NoJob
  BY DEF Claimable, TypeOK
<1> QED
  BY <1>1, <1>2, <1>3, Relet DEF SameIntents

\* So does the record of a failure.
LEMMA RetryKeepsIntents ==
    ASSUME TypeOK, NEW h \in Threads, RecordCleanupFailure(h)
    PROVE  SameIntents
<1> DEFINE c == current[h]
<1>1. CASE OwnsJob(h, c) /\ c.key \in Uploads
  <2>1. jobs[c.key] \in JobRow /\ jobs[c.key] # NoJob
    BY <1>1 DEF OwnsJob, TypeOK
  <2>2. jobs' = [jobs EXCEPT ![c.key] = Leased(jobs[c.key], "backoff", Nobody)]
    BY <1>1 DEF RecordCleanupFailure
  <2> QED
    BY <1>1, <2>1, <2>2, Relet DEF SameIntents, TypeOK, Leases
<1>2. CASE ~(OwnsJob(h, c) /\ c.key \in Uploads)
  <2>1. jobs' = jobs
    BY <1>2 DEF RecordCleanupFailure, TypeOK
  <2> QED
    BY <2>1 DEF SameIntents
<1> QED
  BY <1>1, <1>2

\* So does the passing of time.
LEMMA TimeKeepsIntents ==
    ASSUME TypeOK, NEW k \in Uploads, LeaseExpires(k) \/ BackoffElapses(k)
    PROVE  SameIntents
<1>1. jobs[k] \in JobRow /\ jobs[k] # NoJob
  BY DEF LeaseExpires, BackoffElapses, TypeOK
<1>2. PICK lease \in Leases, p \in Processes \cup {Nobody} :
        jobs' = [jobs EXCEPT ![k] = Leased(jobs[k], lease, p)]
  BY <1>1 DEF LeaseExpires, BackoffElapses, JobRow, Leases
<1> QED
  BY <1>1, <1>2, Relet DEF SameIntents, TypeOK

\* An enqueue leaves a job for each of its keys, and every other job alone.
LEMMA EnqueueLeavesJobs ==
    ASSUME TypeOK, NEW K, NEW reason \in Reasons, NEW fileId \in {"set", "null"},
           EnqueueCleanup(K, reason, fileId)
    PROVE  /\ \A k \in Uploads \cap K :
                /\ jobs'[k] # NoJob
                /\ jobs'[k].fileId = fileId
                /\ jobs'[k].reason = IF jobs[k] = NoJob THEN reason ELSE jobs[k].reason
           /\ \A k \in Uploads \ K : jobs'[k] = jobs[k]
BY ValueAssumption
   DEF EnqueueCleanup, InsertedJob, TypeOK, JobRow, Leases, ValueAssumption

\* Deleting a claimed job touches no other job.
LEMMA DeleteTouchesOneJob ==
    ASSUME TypeOK, NEW h \in Threads, NEW c \in ClaimedJob, DeleteClaimedCleanupJob(h, c)
    PROVE  /\ jobs'[c.key] \in {jobs[c.key], NoJob}
           /\ \A k \in Uploads \ {c.key} : jobs'[k] = jobs[k]
BY DEF DeleteClaimedCleanupJob, TypeOK, ClaimedJob

-----------------------------------------------------------------------------
(* The inductive invariant. *)

\* An upload step keeps it.
LEMMA UploadKeepsSound ==
    ASSUME IInv, NEW u \in Uploads, BeginUpload(u) \/ UploadStep(u) \/ UploadFault(u)
    PROVE  Sound'
<1> USE DEF IInv, TypeOK, Sound, Uncommitted, Unborn, Threads,
            Goto, NoFault, Fault, threadVars, storeVars
<1> USE DEF UncommittedLeaveNoTrace, UnbornHaveNoJob, StoredIsStored, RowsWereFiles,
            JobsAreJustified, ClaimsAreJustified, Justified, InHand, WorkIsJustified,
            AtWork, LiveFilesKeepTheirObject, OrphanedRowsAreDoomed, IntentsSurvive
<1>1. CASE BeginUpload(u)
  BY <1>1 DEF BeginUpload
<1>2. CASE PutObject(u)
  BY <1>2 DEF PutObject
<1>3. CASE CommitUpload(u)
  BY <1>3 DEF CommitUpload, CanAttach
<1>4. CASE RejectUpload(u)
  BY <1>4 DEF RejectUpload
<1>5. CASE QueueUploadCompensation(u)
  <2>1. /\ jobs'[u] # NoJob
        /\ jobs'[u].fileId = "null"
        /\ jobs'[u].reason = IF jobs[u] = NoJob THEN "upload_compensation" ELSE jobs[u].reason
        /\ \A k \in Uploads \ {u} : jobs'[k] = jobs[k]
    BY <1>5, EnqueueLeavesJobs DEF QueueUploadCompensation, Reasons
  <2> QED
    BY <1>5, <2>1 DEF QueueUploadCompensation
<1>6. CASE ReadUploadedProfile(u)
  BY <1>6 DEF ReadUploadedProfile
<1>7. CASE PutObjectFails(u)
  <2>1. /\ objects \subseteq objects' /\ objects' \subseteq objects \cup {u}
        /\ pc[u] = "checked"
        /\ \E l \in {"stranded", "done"} : pc' = [pc EXCEPT ![u] = l]
        /\ UNCHANGED <<files, parent, jobs, lastId, doomed, rows, batch, current>>
    BY <1>7 DEF PutObjectFails
  <2> QED
    BY <2>1
<1>8. CASE CommitUploadUnacked(u)
  BY <1>8 DEF CommitUploadUnacked, CanAttach
<1>9. CASE QueueUploadCompensationFails(u)
  BY <1>9 DEF QueueUploadCompensationFails
<1> QED
  BY <1>1, <1>2, <1>3, <1>4, <1>5, <1>6, <1>7, <1>8, <1>9 DEF UploadStep, UploadFault

\* So does a deletion, up to the batch of cleanup jobs it runs at the end.
LEMMA DeletionKeepsSound ==
    ASSUME IInv,
           \/ \E d \in Deleters : DeleteParent(d) \/ BeginDeleteForTarget(d)
           \/ \E h \in Threads : EnqueueStep(h) \/ EnqueueRowFails(h)
    PROVE  Sound'
<1> USE DEF IInv, TypeOK, Sound, Uncommitted, Unborn, Threads,
            Goto, NoFault, Fault, threadVars, storeVars
<1> USE DEF UncommittedLeaveNoTrace, UnbornHaveNoJob, StoredIsStored, RowsWereFiles,
            JobsAreJustified, ClaimsAreJustified, Justified, InHand, WorkIsJustified,
            AtWork, LiveFilesKeepTheirObject, OrphanedRowsAreDoomed, IntentsSurvive
<1>1. ASSUME NEW d \in Deleters, DeleteParent(d) PROVE Sound'
  <2> DEFINE K == FilesOf(TargetOf[d])
  <2>1. /\ \A k \in Uploads \cap K :
             /\ jobs'[k] # NoJob
             /\ jobs'[k].fileId = "set"
             /\ jobs'[k].reason = IF jobs[k] = NoJob THEN "target_delete" ELSE jobs[k].reason
        /\ \A k \in Uploads \ K : jobs'[k] = jobs[k]
    BY <1>1, EnqueueLeavesJobs DEF DeleteParent, Reasons
  <2> QED
    BY <1>1, <2>1 DEF DeleteParent, FilesOf
<1>2. ASSUME NEW d \in Deleters, BeginDeleteForTarget(d) PROVE Sound'
  BY <1>2 DEF BeginDeleteForTarget
<1>3. ASSUME NEW h \in Threads, ListRows(h) PROVE Sound'
  BY <1>3 DEF ListRows, FilesOf
<1>4. ASSUME NEW h \in Threads, EnqueueRow(h) PROVE Sound'
  <2>1. PICK k0 \in rows[h] : /\ EnqueueCleanup({k0}, "target_delete", "set")
                              /\ doomed' = doomed \cup {k0}
                              /\ rows' = [rows EXCEPT ![h] = @ \ {k0}]
    BY <1>4 DEF EnqueueRow
  <2>2. /\ jobs'[k0] # NoJob
        /\ jobs'[k0].fileId = "set"
        /\ jobs'[k0].reason = IF jobs[k0] = NoJob THEN "target_delete" ELSE jobs[k0].reason
        /\ \A k \in Uploads \ {k0} : jobs'[k] = jobs[k]
    BY <2>1, EnqueueLeavesJobs DEF Reasons
  <2> QED
    BY <1>4, <2>1, <2>2 DEF EnqueueRow
<1>5. ASSUME NEW h \in Threads, EnqueuedAll(h) PROVE Sound'
  BY <1>5 DEF EnqueuedAll
<1>6. ASSUME NEW h \in Threads, EnqueueRowFails(h) PROVE Sound'
  BY <1>6 DEF EnqueueRowFails
<1> QED
  BY <1>1, <1>2, <1>3, <1>4, <1>5, <1>6 DEF EnqueueStep

\* So does the processing of cleanup jobs.
LEMMA CleanupKeepsSound ==
    ASSUME IInv, NEW h \in Threads,
           CleanupStep(h) \/ ProcessJobFails(h) \/ RecordCleanupFailureFails(h)
    PROVE  Sound'
<1> USE DEF IInv, TypeOK, Sound, Uncommitted, Unborn, Threads,
            Goto, NoFault, Fault, threadVars, storeVars
<1> USE DEF UncommittedLeaveNoTrace, UnbornHaveNoJob, StoredIsStored, RowsWereFiles,
            JobsAreJustified, ClaimsAreJustified, Justified, InHand, WorkIsJustified,
            AtWork, LiveFilesKeepTheirObject, OrphanedRowsAreDoomed, IntentsSurvive
<1>1. CASE ClaimCleanupJobs(h)
  <2>1. SameIntents
    BY <1>1, ClaimKeepsIntents
  <2>2. \A c \in batch'[h] : /\ c.key \in Uploads /\ jobs[c.key] # NoJob
                             /\ c.reason = jobs[c.key].reason
                             /\ c.fileId = jobs[c.key].fileId
    BY <1>1 DEF ClaimCleanupJobs, Claimable, AsRead
  <2>3. ClaimsAreJustified'
    <3> SUFFICES ASSUME NEW g \in Threads, NEW c \in InHand(g)'
                 PROVE  Justified(c.key, c)'
      OBVIOUS
    <3>1. c \in InHand(g) \/ c \in batch'[h]
      BY <1>1 DEF ClaimCleanupJobs
    <3>2. c.key \in Uploads
      BY <2>2, <3>1 DEF ClaimedJob
    <3>3. CASE c \in InHand(g)
      BY <1>1, <3>2, <3>3 DEF ClaimCleanupJobs, Ready
    <3>4. CASE c \in batch'[h]
      <4>1. Justified(c.key, jobs[c.key]) /\ c.reason = jobs[c.key].reason
            /\ c.fileId = jobs[c.key].fileId
        BY <2>2, <3>2, <3>4
      <4>2. doomed' = doomed /\ pc[h] \notin {"compensated", "reconciling"}
        BY <1>1 DEF ClaimCleanupJobs, Ready
      <4>3. pc[c.key] \in {"compensated", "reconciling"} => pc'[c.key] = pc[c.key]
        BY <1>1, <3>2, <4>2 DEF ClaimCleanupJobs
      <4> HIDE DEF IInv, Sound, TypeOK, InHand
      <4> QED BY <4>1, <4>2, <4>3
    <3> QED
      BY <3>1, <3>3, <3>4
  <2>4. UnbornHaveNoJob'
    BY <1>1, <2>1, <2>2 DEF ClaimCleanupJobs, Ready, SameIntents
  <2> QED
    BY <1>1, <2>1, <2>3, <2>4 DEF ClaimCleanupJobs, Ready, SameIntents
<1>2. CASE ClaimNothing(h)
  BY <1>2 DEF ClaimNothing
<1>3. CASE NextJob(h)
  <2>1. PICK c \in batch[h] :
          /\ current' = [current EXCEPT ![h] = c]
          /\ batch' = [batch EXCEPT ![h] = @ \ {c}]
          /\ pc' = [pc EXCEPT ![h] = IF c.reason = "upload_compensation"
                                     THEN "check" ELSE "erase"]
    BY <1>3 DEF NextJob
  <2>2. c # NoJob /\ c.reason \in Reasons /\ Justified(c.key, c)
    BY ValueAssumption DEF ValueAssumption, ClaimedJob
  <2>3. WorkIsJustified'
    BY <1>3, <2>1, <2>2 DEF NextJob, Reasons
  <2> QED
    BY <1>3, <2>3 DEF NextJob
<1>4. CASE EndBatch(h)
  BY <1>4, ThreadAssumption DEF EndBatch, Rest, ThreadAssumption
<1>5. CASE FileObjectExists(h)
  BY <1>5 DEF FileObjectExists
<1>6. CASE ConsumeJob(h) \/ SettleJob(h)
  <2>1. current[h] \in ClaimedJob /\ current[h] \in InHand(h)
    BY <1>6 DEF ConsumeJob, SettleJob
  <2>2. /\ jobs'[current[h].key] \in {jobs[current[h].key], NoJob}
        /\ \A k \in Uploads \ {current[h].key} : jobs'[k] = jobs[k]
    BY <1>6, <2>1, DeleteTouchesOneJob DEF ConsumeJob, SettleJob
  <2>3. CASE ConsumeJob(h)
    <3>1. IntentsSurvive'
      BY <2>1, <2>2, <2>3 DEF ConsumeJob, ClaimedJob
    <3> QED
      BY <2>1, <2>2, <2>3, <3>1 DEF ConsumeJob, ClaimedJob
  <2>4. CASE SettleJob(h)
    <3>1. IntentsSurvive' /\ RowsWereFiles' /\ WorkIsJustified'
      BY <2>1, <2>2, <2>4 DEF SettleJob, ClaimedJob
    <3> QED
      BY <2>1, <2>2, <2>4, <3>1 DEF SettleJob, ClaimedJob
  <2> QED
    BY <1>6, <2>3, <2>4
<1>7. CASE DeleteStoredObject(h)
  BY <1>7 DEF DeleteStoredObject
<1>8. CASE RecordCleanupFailure(h)
  <2>1. SameIntents
    BY <1>8, RetryKeepsIntents
  <2>2. JobsAreJustified' /\ ClaimsAreJustified'
    BY <1>8, <2>1 DEF RecordCleanupFailure, SameIntents
  <2>3. WorkIsJustified' /\ UnbornHaveNoJob' /\ IntentsSurvive'
    BY <1>8, <2>1 DEF RecordCleanupFailure, SameIntents
  <2> QED
    BY <1>8, <2>2, <2>3 DEF RecordCleanupFailure
<1>9. CASE ProcessJobFails(h)
  BY <1>9 DEF ProcessJobFails
<1>10. CASE RecordCleanupFailureFails(h)
  BY <1>10 DEF RecordCleanupFailureFails
<1> HIDE DEF IInv, TypeOK, Sound, ClaimCleanupJobs
<1> QED
  BY <1>1, <1>2, <1>3, <1>4, <1>5, <1>6, <1>7, <1>8, <1>9, <1>10 DEF CleanupStep

\* So do time and crashes.
LEMMA EnvironmentKeepsSound ==
    ASSUME IInv,
           \/ \E k \in Uploads : LeaseExpires(k) \/ BackoffElapses(k)
           \/ \E p \in Processes : Crash(p)
    PROVE  Sound'
<1> USE DEF IInv, TypeOK, Sound, Uncommitted, Unborn, Threads,
            Goto, NoFault, Fault, threadVars, storeVars
<1> USE DEF UncommittedLeaveNoTrace, UnbornHaveNoJob, StoredIsStored, RowsWereFiles,
            JobsAreJustified, ClaimsAreJustified, Justified, InHand, WorkIsJustified,
            AtWork, LiveFilesKeepTheirObject, OrphanedRowsAreDoomed, IntentsSurvive
<1>1. ASSUME NEW k \in Uploads, LeaseExpires(k) \/ BackoffElapses(k) PROVE Sound'
  <2>1. SameIntents
    BY <1>1, TimeKeepsIntents
  <2> QED
    BY <1>1, <2>1 DEF LeaseExpires, BackoffElapses, SameIntents
<1>2. ASSUME NEW p \in Processes, Crash(p) PROVE Sound'
  <2>1. \A k \in Uploads :
          /\ pc'[k] \in Uncommitted => pc[k] \in Uncommitted
          /\ pc'[k] \in Unborn => pc[k] \in Unborn
          /\ pc'[k] = "stored" => pc[k] = "stored"
          /\ pc[k] = "compensated" => pc'[k] = "compensated"
          /\ pc[k] = "reconciling" => pc'[k] = "reconciling"
    BY <1>2, ThreadAssumption DEF Crash, AfterCrash, Rest, ThreadAssumption
  <2>2. \A h \in Threads :
          /\ rows'[h] \in {rows[h], {}}
          /\ \/ pc'[h] \notin AtWork /\ batch'[h] = {} /\ current'[h] = NoJob
             \/ pc'[h] = pc[h] /\ batch'[h] = batch[h] /\ current'[h] = current[h]
    BY <1>2, ThreadAssumption DEF Crash, AfterCrash, Rest, ThreadAssumption
  <2>3. UncommittedLeaveNoTrace' /\ UnbornHaveNoJob' /\ StoredIsStored' /\ RowsWereFiles'
    BY <1>2, <2>1, <2>2 DEF Crash
  <2>4. \A h \in Threads : \A c \in InHand(h)' : c \in InHand(h) /\ c.key \in Uploads
    BY <2>2 DEF ClaimedJob
  <2>5. JobsAreJustified' /\ ClaimsAreJustified'
    <3>1. \A k \in Uploads, j \in {jobs[k] : k \in Uploads} \cup UNION {InHand(h) : h \in Threads} :
            Justified(k, j) => Justified(k, j)'
      BY <1>2, <2>1 DEF Crash
    <3>2. JobsAreJustified'
      BY <1>2, <2>1 DEF Crash
    <3>3. ClaimsAreJustified'
      <4> SUFFICES ASSUME NEW h \in Threads, NEW c \in InHand(h)'
                   PROVE  Justified(c.key, c)'
        BY DEF ClaimsAreJustified
      <4>1. c \in InHand(h) /\ c.key \in Uploads
        BY <2>4
      <4>2. Justified(c.key, c)
        BY <4>1 DEF ClaimsAreJustified
      <4> QED BY <3>1, <4>1, <4>2
    <3> QED BY <3>2, <3>3
  <2>6. WorkIsJustified'
    <3> SUFFICES ASSUME NEW h \in Threads, pc'[h] \in AtWork
                 PROVE  /\ pc'[h] = pc[h] /\ current'[h] = current[h]
                        /\ UNCHANGED <<objects, files, doomed>>
      BY <1>2
    <3> QED
      BY <1>2, <2>2 DEF Crash
  <2>7. LiveFilesKeepTheirObject' /\ OrphanedRowsAreDoomed' /\ IntentsSurvive'
    BY <1>2, <2>1 DEF Crash
  <2> QED
    BY <2>3, <2>5, <2>6, <2>7
<1> QED
  BY <1>1, <1>2

\* Every step keeps the inductive invariant.
LEMMA NextInductive == IInv /\ [Next]_vars => IInv'
<1> SUFFICES ASSUME IInv, [Next]_vars PROVE IInv'
  OBVIOUS
<1>1. TypeOK'
  BY NextType DEF IInv
<1>2. CASE Next
  BY <1>1, <1>2, UploadKeepsSound, DeletionKeepsSound, CleanupKeepsSound,
     EnvironmentKeepsSound
     DEF Next, IInv, CleanupFault
<1>3. CASE UNCHANGED vars
  BY <1>1, <1>3
     DEF vars, threadVars, storeVars, IInv, Sound, UncommittedLeaveNoTrace,
         UnbornHaveNoJob, StoredIsStored, RowsWereFiles, JobsAreJustified,
         ClaimsAreJustified, Justified, InHand, WorkIsJustified,
         LiveFilesKeepTheirObject, OrphanedRowsAreDoomed, IntentsSurvive
<1> QED
  BY <1>2, <1>3

\* The inductive invariant holds at first.
LEMMA InitInductive == Init => IInv
BY InitType, ThreadAssumption
   DEF Init, IInv, Sound, UncommittedLeaveNoTrace, UnbornHaveNoJob, StoredIsStored,
       RowsWereFiles, JobsAreJustified, ClaimsAreJustified, InHand, WorkIsJustified, AtWork,
       LiveFilesKeepTheirObject, OrphanedRowsAreDoomed, IntentsSurvive, Threads

\* It holds for good.
LEMMA Invariance == Spec => []IInv
BY InitInductive, NextInductive, PTL DEF Spec

\* The bytes of a file nobody asked to delete are never erased, whatever the
\* compensations, retries, lost leases and crashes.
THEOREM LiveFilesSafe == Spec => []LiveFilesKeepTheirObject
<1>1. IInv => LiveFilesKeepTheirObject
  BY DEF IInv, Sound
<1> QED
  BY <1>1, Invariance, PTL

\* An upload and the deletion of its parent cannot miss each other.
THEOREM NoOrphanedRow == Spec => []OrphanedRowsAreDoomed
<1>1. IInv => OrphanedRowsAreDoomed
  BY DEF IInv, Sound
<1> QED
  BY <1>1, Invariance, PTL

\* Recorded deletions stay in the outbox until they are carried out, except for
\* uploads that reported an error although they had committed.
THEOREM IntentsAreDurable == Spec => []IntentsSurvive
<1>1. IInv => IntentsSurvive
  BY DEF IInv, Sound
<1> QED
  BY <1>1, Invariance, PTL

\* A row leaves after its object, a job too unless the row is there.
LEMMA RowAndJobLeaveLast ==
    ASSUME IInv, Next, NEW k \in Uploads
    PROVE  /\ k \in files /\ k \notin files' => k \notin objects
           /\ jobs[k] # NoJob /\ jobs'[k] = NoJob => k \notin objects \/ k \in files'
<1>1. ASSUME NEW h \in Threads, ConsumeJob(h) \/ SettleJob(h)
      PROVE  /\ k \in files /\ k \notin files' => k \notin objects
             /\ jobs[k] # NoJob /\ jobs'[k] = NoJob
                  => k \notin objects \/ k \in files'
  <2>1. current[h] \in ClaimedJob
    BY <1>1 DEF ConsumeJob, SettleJob, IInv, TypeOK, Sound, WorkIsJustified, AtWork
  <2>2. k # current[h].key => jobs'[k] = jobs[k]
    BY <1>1, <2>1, DeleteTouchesOneJob DEF ConsumeJob, SettleJob, IInv
  <2> QED
    BY <1>1, <2>2 DEF ConsumeJob, SettleJob, IInv, Sound, WorkIsJustified
<1>2. ASSUME files \subseteq files', jobs[k] # NoJob => jobs'[k] # NoJob
      PROVE  /\ k \in files /\ k \notin files' => k \notin objects
             /\ jobs[k] # NoJob /\ jobs'[k] = NoJob
                  => k \notin objects \/ k \in files'
  BY <1>2
<1>3. ASSUME NEW u \in Uploads, BeginUpload(u) \/ UploadStep(u) \/ UploadFault(u)
      PROVE  files \subseteq files' /\ (jobs[k] # NoJob => jobs'[k] # NoJob)
  <2>1. CASE QueueUploadCompensation(u)
    BY <2>1, EnqueueLeavesJobs DEF QueueUploadCompensation, Reasons, IInv
  <2>2. CASE ~QueueUploadCompensation(u)
    BY <1>3, <2>2 DEF BeginUpload, UploadStep, UploadFault, PutObject, CommitUpload, RejectUpload,
       ReadUploadedProfile, PutObjectFails, CommitUploadUnacked, QueueUploadCompensationFails, storeVars
  <2> QED
    BY <2>1, <2>2
<1>4. ASSUME NEW d \in Deleters, DeleteParent(d) \/ BeginDeleteForTarget(d)
      PROVE  files \subseteq files' /\ (jobs[k] # NoJob => jobs'[k] # NoJob)
  <2>1. CASE DeleteParent(d)
    BY <2>1, EnqueueLeavesJobs DEF DeleteParent, Reasons, IInv
  <2>2. CASE BeginDeleteForTarget(d)
    BY <2>2 DEF BeginDeleteForTarget, storeVars
  <2> QED
    BY <1>4, <2>1, <2>2
<1>5. ASSUME NEW h \in Threads, EnqueueStep(h) \/ CleanupStep(h) \/ CleanupFault(h),
             ~ConsumeJob(h), ~SettleJob(h)
      PROVE  files \subseteq files' /\ (jobs[k] # NoJob => jobs'[k] # NoJob)
  <2>1. CASE EnqueueRow(h)
    BY <2>1, EnqueueLeavesJobs DEF EnqueueRow, Reasons, IInv
  <2>2. CASE ClaimCleanupJobs(h)
    BY <2>2, ClaimKeepsIntents DEF SameIntents, ClaimCleanupJobs, IInv
  <2>3. CASE RecordCleanupFailure(h)
    BY <2>3, RetryKeepsIntents DEF SameIntents, RecordCleanupFailure, IInv
  <2>4. CASE ~EnqueueRow(h) /\ ~ClaimCleanupJobs(h) /\ ~RecordCleanupFailure(h)
    BY <1>5, <2>4 DEF EnqueueStep, CleanupStep, CleanupFault, ListRows, EnqueuedAll, EnqueueRowFails,
       ClaimNothing, NextJob, EndBatch, FileObjectExists, DeleteStoredObject,
       ProcessJobFails, RecordCleanupFailureFails, storeVars
  <2> QED
    BY <2>1, <2>2, <2>3, <2>4
<1>6. ASSUME NEW k0 \in Uploads, LeaseExpires(k0) \/ BackoffElapses(k0)
      PROVE  files \subseteq files' /\ (jobs[k] # NoJob => jobs'[k] # NoJob)
  BY <1>6, TimeKeepsIntents DEF SameIntents, LeaseExpires, BackoffElapses, IInv
<1>7. ASSUME NEW p \in Processes, Crash(p)
      PROVE  files \subseteq files' /\ (jobs[k] # NoJob => jobs'[k] # NoJob)
  BY <1>7 DEF Crash, storeVars
<1> QED
  BY <1>1, <1>2, <1>3, <1>4, <1>5, <1>6, <1>7 DEF Next

\* Metadata and job never go before the object.
THEOREM RowLeavesLast == Spec => RowOutlivesObject
<1>1. IInv /\ [Next]_vars =>
        [\A k \in Uploads :
           /\ k \in files /\ k \notin files' => k \notin objects
           /\ jobs[k] # NoJob /\ jobs'[k] = NoJob => k \notin objects \/ k \in files']_vars
  BY RowAndJobLeaveLast
<1> QED
  BY <1>1, Invariance, PTL DEF Spec, RowOutlivesObject

-----------------------------------------------------------------------------
(* Bytes without an owner, images without a successor. *)

\* Only a put stores bytes.
LEMMA ObjectsArrive ==
    ASSUME IInv, Next, NEW k \in Uploads, k \in objects', k \notin objects
    PROVE  pc'[k] \in {"stored", "stranded"}
<1> USE ThreadAssumption DEF Threads
<1>1. ASSUME NEW u \in Uploads, PutObject(u) \/ PutObjectFails(u)
      PROVE  pc'[k] \in {"stored", "stranded"}
  BY <1>1 DEF PutObject, PutObjectFails, Goto, IInv, TypeOK
<1>2. \A u \in Uploads : BeginUpload(u) \/ UploadStep(u) \/ UploadFault(u) => PutObject(u) \/ PutObjectFails(u)
  BY DEF BeginUpload, UploadStep, UploadFault, CommitUpload, RejectUpload,
     QueueUploadCompensation, ReadUploadedProfile, CommitUploadUnacked,
     QueueUploadCompensationFails, storeVars
<1>3. \A d \in Deleters : ~(DeleteParent(d) \/ BeginDeleteForTarget(d))
  BY DEF DeleteParent, BeginDeleteForTarget, storeVars
<1>4. \A h \in Threads : ~(EnqueueStep(h) \/ CleanupStep(h) \/ CleanupFault(h))
  BY DEF EnqueueStep, CleanupStep, CleanupFault, ListRows, EnqueueRow, EnqueuedAll,
     EnqueueRowFails, ClaimCleanupJobs, ClaimNothing, NextJob, EndBatch, FileObjectExists,
     ConsumeJob, DeleteStoredObject, SettleJob, ProcessJobFails, RecordCleanupFailure,
     RecordCleanupFailureFails, storeVars
<1>5. \A k0 \in Uploads : ~(LeaseExpires(k0) \/ BackoffElapses(k0))
  BY DEF LeaseExpires, BackoffElapses
<1>6. \A p \in Processes : ~Crash(p)
  BY DEF Crash, storeVars
<1> QED BY <1>1, <1>2, <1>3, <1>4, <1>5, <1>6 DEF Next

Unanswered == {"stored", "rolledback", "stranded"}

\* An upload whose transaction has not committed leaves a row or a job when it moves on.
LEMMA UploadLeavesATrace ==
    ASSUME IInv, Next, NEW k \in Uploads, pc[k] \in Unanswered
    PROVE  pc'[k] \in Unanswered \/ k \in files' \/ jobs'[k] # NoJob
<1> USE ThreadAssumption DEF Threads, Unanswered
<1>0. pc \in [Threads -> UploadPc \cup CleanupPc \cup {"idle", "done"}] /\ jobs[k] \in JobRow \cup {NoJob}
  BY DEF IInv, TypeOK
<1>1. ASSUME NEW u \in Uploads, BeginUpload(u) \/ UploadStep(u) \/ UploadFault(u)
      PROVE  pc'[k] \in Unanswered \/ k \in files' \/ jobs'[k] # NoJob
  <2>1. CASE u # k
    BY <1>0, <1>1, <2>1 DEF BeginUpload, UploadStep, UploadFault, PutObject, PutObjectFails,
       CommitUpload, RejectUpload, QueueUploadCompensation, ReadUploadedProfile,
       CommitUploadUnacked, QueueUploadCompensationFails, Goto
  <2>2. CASE QueueUploadCompensation(k)
    <3>1. EnqueueCleanup({k}, "upload_compensation", "null")
      BY <2>2 DEF QueueUploadCompensation
    <3>2. CASE jobs[k] # NoJob
      BY <3>1, <3>2, EnqueueLeavesJobs DEF Reasons, IInv
    <3>3. CASE jobs[k] = NoJob
      <4>1. InsertedJob(k, "upload_compensation", "null") \in JobRow
        BY DEF InsertedJob, JobRow, Reasons, Leases, IInv, TypeOK
      <4>2. jobs'[k] = InsertedJob(k, "upload_compensation", "null")
        BY <3>1, <3>3 DEF EnqueueCleanup
      <4> QED BY <4>1, <4>2, ValueAssumption
    <3> QED BY <3>2, <3>3
  <2>3. CASE u = k /\ ~QueueUploadCompensation(k)
    BY <1>0, <1>1, <2>3 DEF BeginUpload, UploadStep, UploadFault, PutObject, PutObjectFails,
       CommitUpload, RejectUpload, ReadUploadedProfile,
       CommitUploadUnacked, QueueUploadCompensationFails, Goto
  <2> QED BY <2>1, <2>2, <2>3
<1>2. ASSUME NEW d \in Deleters, DeleteParent(d) \/ BeginDeleteForTarget(d)
      PROVE  pc'[k] = pc[k]
  BY <1>0, <1>2 DEF DeleteParent, BeginDeleteForTarget, Goto
<1>3. ASSUME NEW h \in Threads, EnqueueStep(h) \/ CleanupStep(h) \/ CleanupFault(h)
      PROVE  pc'[k] = pc[k]
  <2>1. CASE h # k
    BY <1>0, <1>3, <2>1
       DEF EnqueueStep, CleanupStep, CleanupFault, ListRows, EnqueueRow, EnqueuedAll,
           EnqueueRowFails, ClaimCleanupJobs, ClaimNothing, NextJob, EndBatch, FileObjectExists,
           ConsumeJob, DeleteStoredObject, SettleJob, ProcessJobFails, RecordCleanupFailure,
           RecordCleanupFailureFails, Goto
  <2>2. CASE h = k
    BY <1>0, <1>3, <2>2
       DEF EnqueueStep, CleanupStep, CleanupFault, ListRows, EnqueueRow, EnqueuedAll,
           EnqueueRowFails, ClaimCleanupJobs, ClaimNothing, NextJob, EndBatch, FileObjectExists,
           ConsumeJob, DeleteStoredObject, SettleJob, ProcessJobFails, RecordCleanupFailure,
           RecordCleanupFailureFails, Ready
  <2> QED BY <2>1, <2>2
<1>4. ASSUME NEW k0 \in Uploads, LeaseExpires(k0) \/ BackoffElapses(k0)
      PROVE  pc'[k] = pc[k]
  BY <1>4 DEF LeaseExpires, BackoffElapses
<1>5. ASSUME NEW p \in Processes, Crash(p)
      PROVE  pc'[k] \in Unanswered
  BY <1>0, <1>5 DEF Crash, AfterCrash
<1> QED BY <1>1, <1>2, <1>3, <1>4, <1>5 DEF Next

\* Every object in S3 has a row, a job or an upload to answer for it, however uploads,
\* deletions, workers and crashes interleave (upload and its compensation,
\* processCleanupBatch).
THEOREM NoForgottenObject == Spec => []ObjectsAreAccountedFor
<1>1. Init => ObjectsAreAccountedFor
  BY DEF Init, ObjectsAreAccountedFor
<1>2. IInv /\ ObjectsAreAccountedFor /\ [Next]_vars => ObjectsAreAccountedFor'
  <2> SUFFICES ASSUME IInv, ObjectsAreAccountedFor, [Next]_vars, NEW k \in objects'
               PROVE  k \in files' \/ jobs'[k] # NoJob \/ pc'[k] \in Unanswered
    BY DEF ObjectsAreAccountedFor, Unanswered
  <2>1. CASE UNCHANGED vars
    BY <2>1 DEF vars, ObjectsAreAccountedFor, Unanswered
  <2>2. CASE Next
    <3>1. k \in Uploads
      BY NextType DEF IInv, TypeOK
    <3>2. CASE k \notin objects
      BY <2>2, <3>1, <3>2, ObjectsArrive DEF Unanswered
    <3>3. CASE k \in objects
      BY <2>2, <3>1, <3>3, RowAndJobLeaveLast, UploadLeavesATrace
         DEF ObjectsAreAccountedFor, Unanswered
    <3> QED BY <3>2, <3>3
  <2> QED BY <2>1, <2>2
<1> QED BY <1>1, <1>2, Invariance, PTL DEF Spec

\* A thread that lists the files of its target is no worker; an upload that does has
\* committed, and what it listed is of its own target and not itself.
Replacing ==
    /\ \A h \in Workers : pc[h] \notin {"acked", "list", "enqueue"} /\ rows[h] = {}
    /\ \A u \in Uploads : pc[u] \in {"acked", "list", "enqueue"} => u \in files \cup doomed
    /\ \A h \in Uploads \cup Deleters : \A k \in rows[h] : TargetOf[k] = TargetOf[h] /\ k # h

\* What was a file stays one or is condemned, and a deletion begins once.
LEMMA CondemnedOrThere ==
    ASSUME IInv, Next
    PROVE  /\ files \cup doomed \subseteq files' \cup doomed'
           /\ \A d \in Deleters : pc'[d] = "idle" => pc[d] = "idle"
<1> USE ThreadAssumption DEF Threads
<1>0. pc \in [Threads -> UploadPc \cup CleanupPc \cup {"idle", "done"}]
  BY DEF IInv, TypeOK
<1>1. ASSUME NEW u \in Uploads, BeginUpload(u) \/ UploadStep(u) \/ UploadFault(u)
      PROVE  /\ files \cup doomed \subseteq files' \cup doomed'
             /\ \A d \in Deleters : pc'[d] = pc[d]
  BY <1>0, <1>1 DEF BeginUpload, UploadStep, UploadFault, PutObject, PutObjectFails,
       CommitUpload, RejectUpload, QueueUploadCompensation, ReadUploadedProfile,
       CommitUploadUnacked, QueueUploadCompensationFails, Goto, storeVars
<1>2. ASSUME NEW d \in Deleters, DeleteParent(d) \/ BeginDeleteForTarget(d)
      PROVE  /\ files \cup doomed \subseteq files' \cup doomed'
             /\ \A e \in Deleters : pc'[e] = "idle" => pc[e] = "idle"
  BY <1>0, <1>2 DEF DeleteParent, BeginDeleteForTarget, Goto, storeVars
<1>3. ASSUME NEW h \in Threads, SettleJob(h)
      PROVE  files \cup doomed \subseteq files' \cup doomed'
  <2>1. current[h].fileId = "set" => current[h].key \in doomed
    BY <1>3 DEF SettleJob, IInv, Sound, WorkIsJustified, ClaimsAreJustified, Justified, InHand, AtWork
  <2> QED BY <1>3, <2>1 DEF SettleJob
<1>4. ASSUME NEW h \in Threads, EnqueueStep(h) \/ CleanupStep(h) \/ CleanupFault(h), ~SettleJob(h)
      PROVE  files \cup doomed \subseteq files' \cup doomed'
  BY <1>4 DEF EnqueueStep, CleanupStep, CleanupFault, ListRows, EnqueueRow, EnqueuedAll,
           EnqueueRowFails, ClaimCleanupJobs, ClaimNothing, NextJob, EndBatch, FileObjectExists,
           ConsumeJob, DeleteStoredObject, ProcessJobFails, RecordCleanupFailure,
           RecordCleanupFailureFails, storeVars
<1>5. ASSUME NEW h \in Threads, EnqueueStep(h) \/ CleanupStep(h) \/ CleanupFault(h), NEW d \in Deleters,
             pc'[d] = "idle"
      PROVE  pc[d] = "idle"
  BY <1>0, <1>5 DEF EnqueueStep, CleanupStep, CleanupFault, ListRows, EnqueueRow, EnqueuedAll,
           EnqueueRowFails, ClaimCleanupJobs, ClaimNothing, NextJob, EndBatch, FileObjectExists,
           ConsumeJob, DeleteStoredObject, SettleJob, ProcessJobFails, RecordCleanupFailure,
           RecordCleanupFailureFails, Goto, Rest
<1>6. ASSUME NEW k0 \in Uploads, LeaseExpires(k0) \/ BackoffElapses(k0)
      PROVE  files' = files /\ doomed' = doomed /\ pc' = pc
  BY <1>6 DEF LeaseExpires, BackoffElapses
<1>7. ASSUME NEW p \in Processes, Crash(p)
      PROVE  /\ files' = files /\ doomed' = doomed
             /\ \A d \in Deleters : pc'[d] = "idle" => pc[d] = "idle"
  BY <1>0, <1>7 DEF Crash, AfterCrash, Rest, storeVars
<1> QED BY <1>1, <1>2, <1>3, <1>4, <1>5, <1>6, <1>7 DEF Next

LEMMA ReplacingStep == IInv /\ Replacing /\ [Next]_vars => Replacing'
<1> SUFFICES ASSUME IInv, Replacing, [Next]_vars
             PROVE  Replacing'
  OBVIOUS
<1> USE ThreadAssumption DEF Threads
<1>0. /\ pc \in [Threads -> UploadPc \cup CleanupPc \cup {"idle", "done"}]
      /\ rows \in [Threads -> SUBSET Uploads]
  BY DEF IInv, TypeOK
<1>m. Next => files \cup doomed \subseteq files' \cup doomed'
  BY CondemnedOrThere
<1>1. ASSUME NEW u \in Uploads, BeginUpload(u) \/ UploadStep(u) \/ UploadFault(u)
      PROVE  /\ rows' = rows /\ \A h \in Threads : h # u => pc'[h] = pc[h]
             /\ pc'[u] \in {"acked", "list", "enqueue"} => u \in files'
  BY <1>0, <1>1 DEF BeginUpload, UploadStep, UploadFault, PutObject, PutObjectFails,
       CommitUpload, RejectUpload, QueueUploadCompensation, ReadUploadedProfile,
       CommitUploadUnacked, QueueUploadCompensationFails, Goto, threadVars, storeVars
<1>2. ASSUME NEW d \in Deleters, DeleteParent(d) \/ BeginDeleteForTarget(d)
      PROVE  rows' = rows /\ \A h \in Threads : h # d => pc'[h] = pc[h]
  BY <1>0, <1>2 DEF DeleteParent, BeginDeleteForTarget, Goto, threadVars
<1>3. ASSUME NEW h \in Threads, EnqueueStep(h) \/ CleanupStep(h) \/ CleanupFault(h)
      PROVE  /\ \A g \in Threads : g # h => pc'[g] = pc[g] /\ rows'[g] = rows[g]
             /\ pc'[h] \in {"acked", "list", "enqueue"} => pc[h] \in {"list", "enqueue"}
             /\ rows'[h] \subseteq rows[h] \/ ListRows(h)
  <2>1. CASE ListRows(h)
    BY <1>0, <2>1 DEF ListRows, Goto
  <2>5. CASE EnqueueRow(h)
    <3>1. PICK k \in rows[h] : rows' = [rows EXCEPT ![h] = @ \ {k}]
      BY <2>5 DEF EnqueueRow
    <3>2. pc' = pc /\ pc[h] = "enqueue"
      BY <2>5 DEF EnqueueRow
    <3> QED BY <1>0, <3>1, <3>2
  <2>6. CASE EnqueuedAll(h) \/ EnqueueRowFails(h)
    BY <1>0, <2>6 DEF EnqueuedAll, EnqueueRowFails, Goto, threadVars
  <2>2. CASE ClaimCleanupJobs(h) \/ NextJob(h)
    BY <1>0, <2>2 DEF ClaimCleanupJobs, NextJob, Goto
  <2>3. CASE ClaimNothing(h) \/ EndBatch(h) \/ FileObjectExists(h) \/ ConsumeJob(h) \/ DeleteStoredObject(h)
    BY <1>0, <2>3 DEF ClaimNothing, EndBatch, FileObjectExists, ConsumeJob, DeleteStoredObject,
                      Goto, Rest, threadVars
  <2>4. CASE SettleJob(h) \/ ProcessJobFails(h) \/ RecordCleanupFailure(h) \/ RecordCleanupFailureFails(h)
    BY <1>0, <2>4 DEF SettleJob, ProcessJobFails, RecordCleanupFailure,
                      RecordCleanupFailureFails, Goto, threadVars
  <2> QED BY <1>3, <2>1, <2>2, <2>3, <2>4, <2>5, <2>6 DEF EnqueueStep, CleanupStep, CleanupFault
<1>4. ASSUME NEW h \in Threads, ListRows(h)
      PROVE  pc[h] = "list" /\ \A k \in rows'[h] : TargetOf[k] = TargetOf[h] /\ k # h
  BY <1>0, <1>4 DEF ListRows, FilesOf
<1>5. ASSUME NEW k0 \in Uploads, LeaseExpires(k0) \/ BackoffElapses(k0)
      PROVE  pc' = pc /\ rows' = rows
  BY <1>5 DEF LeaseExpires, BackoffElapses, threadVars
<1>6. ASSUME NEW p \in Processes, Crash(p), NEW h \in Threads
      PROVE  /\ rows'[h] \subseteq rows[h]
             /\ pc'[h] = pc[h] \/ pc'[h] \notin {"acked", "list", "enqueue"}
  BY <1>0, <1>6 DEF Crash, AfterCrash, Rest
<1>7. CASE UNCHANGED vars
  BY <1>7 DEF vars, Replacing
<1>8. CASE \E u \in Uploads : BeginUpload(u) \/ UploadStep(u) \/ UploadFault(u)
  BY <1>1, <1>8, <1>m DEF Next, Replacing
<1>9. CASE \E d \in Deleters : DeleteParent(d) \/ BeginDeleteForTarget(d)
  BY <1>2, <1>9, <1>m DEF Next, Replacing
<1>10. CASE \E h \in Threads : EnqueueStep(h) \/ CleanupStep(h) \/ CleanupFault(h)
  <2>1. PICK h \in Threads : EnqueueStep(h) \/ CleanupStep(h) \/ CleanupFault(h)
    BY <1>10
  <2>2. files \cup doomed \subseteq files' \cup doomed'
    BY <1>10, <1>m DEF Next
  <2>3. ASSUME NEW g \in Workers
        PROVE  pc'[g] \notin {"acked", "list", "enqueue"} /\ rows'[g] = {}
    BY <1>3, <1>4, <2>1 DEF Replacing
  <2>4. ASSUME NEW u \in Uploads, pc'[u] \in {"acked", "list", "enqueue"}
        PROVE  u \in files' \cup doomed'
    BY <1>3, <2>1, <2>2, <2>4 DEF Replacing
  <2>5. ASSUME NEW g \in Uploads \cup Deleters, NEW k \in rows'[g]
        PROVE  TargetOf[k] = TargetOf[g] /\ k # g
    BY <1>3, <1>4, <2>1 DEF Replacing
  <2> QED BY <2>3, <2>4, <2>5 DEF Replacing
<1>11. CASE \E k0 \in Uploads : LeaseExpires(k0) \/ BackoffElapses(k0)
  BY <1>5, <1>11, <1>m DEF Next, Replacing
<1>12. CASE \E p \in Processes : Crash(p)
  BY <1>6, <1>12, <1>m DEF Next, Replacing
<1> QED BY <1>7, <1>8, <1>9, <1>10, <1>11, <1>12 DEF Next

\* A profile image is condemned for another one only: an upload never takes the only
\* image there is, nor its own (uploadProfile, deleteForTarget).
THEOREM ProfilesKeepAnImage == Spec => []ProfileImageIsReplaced
<1>1. Init => Replacing /\ ProfileImageIsReplaced
  BY ThreadAssumption DEF Init, Replacing, ProfileImageIsReplaced, Threads
<1>2. IInv /\ Replacing /\ ProfileImageIsReplaced /\ [Next]_vars => ProfileImageIsReplaced'
  <2> SUFFICES ASSUME IInv, Replacing, ProfileImageIsReplaced, Next, NEW k \in doomed',
                      TargetOf[k] \in Profiles,
                      \A d \in Deleters : TargetOf[d] = TargetOf[k] => pc'[d] = "idle"
               PROVE  \E k2 \in (files' \cup doomed') \ {k} : TargetOf[k2] = TargetOf[k]
    BY DEF vars, ProfileImageIsReplaced
  <2>0. /\ files \cup doomed \subseteq files' \cup doomed'
        /\ \A d \in Deleters : TargetOf[d] = TargetOf[k] => pc[d] = "idle"
    BY CondemnedOrThere
  <2>1. CASE k \in doomed
    BY <2>0, <2>1 DEF ProfileImageIsReplaced
  <2>2. ASSUME NEW h \in Threads, EnqueueRow(h), k \notin doomed
        PROVE  \E k2 \in (files' \cup doomed') \ {k} : TargetOf[k2] = TargetOf[k]
    <3>1. k \in rows[h] /\ pc[h] = "enqueue"
      BY <2>2 DEF EnqueueRow
    <3>2. h \in Uploads \cup Deleters /\ TargetOf[k] = TargetOf[h] /\ k # h
      BY <3>1 DEF Replacing, Threads
    <3>3. h \notin Deleters
      BY <2>0, <3>1, <3>2
    <3>4. h \in files \cup doomed
      BY <3>1, <3>2, <3>3 DEF Replacing
    <3> QED BY <2>0, <3>2, <3>4
  <2>3. ASSUME NEW d \in Deleters, DeleteParent(d), k \notin doomed
        PROVE  FALSE
    BY <2>3, ThreadAssumption DEF DeleteParent, FilesOf
  <2>4. CASE doomed' = doomed
    BY <2>1, <2>4
  <2>5. doomed' = doomed \/ (\E h \in Threads : EnqueueRow(h)) \/ \E d \in Deleters : DeleteParent(d)
    BY DEF Next, BeginUpload, UploadStep, UploadFault, PutObject, PutObjectFails,
       CommitUpload, RejectUpload, QueueUploadCompensation, ReadUploadedProfile,
       CommitUploadUnacked, QueueUploadCompensationFails, BeginDeleteForTarget,
       EnqueueStep, CleanupStep, CleanupFault, ListRows, EnqueuedAll, EnqueueRowFails,
       ClaimCleanupJobs, ClaimNothing, NextJob, EndBatch, FileObjectExists, ConsumeJob,
       DeleteStoredObject, SettleJob, ProcessJobFails, RecordCleanupFailure,
       RecordCleanupFailureFails, LeaseExpires, BackoffElapses, Crash, storeVars
  <2> QED BY <2>1, <2>2, <2>3, <2>4, <2>5
<1> QED BY <1>1, <1>2, ReplacingStep, Invariance, PTL DEF Spec

-----------------------------------------------------------------------------
(* FileOutbox implements FileStore. *)

\* A step that leaves files, objects and deletions of a key alone leaves its
\* status alone; so does one that touches the bytes of a key that is neither a
\* file nor condemned.
SameView == parent' = parent /\ \A k \in Uploads : StatusOf(k)' = StatusOf(k)

\* A step that leaves the view alone is a stutter of the store.
LEMMA SameViewStutters == SameView => UNCHANGED Store!vars
BY DEF SameView, Store!vars

\* Only one key changes its status, and only as FileStore allows.
LEMMA OneChange ==
    ASSUME NEW u \in Uploads, parent' = parent,
           \A k \in Uploads \ {u} : StatusOf(k)' = StatusOf(k),
           \/ StatusOf(u)' = StatusOf(u)
           \/ /\ parent[TargetOf[u]] = "live"
              /\ StatusOf(u) = "absent" /\ StatusOf(u)' = "live"
           \/ StatusOf(u) = "live" /\ StatusOf(u)' = "doomed"
           \/ StatusOf(u) = "doomed" /\ StatusOf(u)' = "gone"
    PROVE  [Store!Next]_Store!vars
<1> DEFINE status == [k \in Uploads |-> StatusOf(k)]
<1>1. CASE StatusOf(u)' = StatusOf(u)
  <2>1. SameView
    BY <1>1 DEF SameView
  <2> QED
    BY <2>1, SameViewStutters
<1>2. status' = [status EXCEPT ![u] = StatusOf(u)']
  OBVIOUS
<1>3. status[u] = StatusOf(u)
  OBVIOUS
<1> HIDE DEF status
<1>4. CASE parent[TargetOf[u]] = "live" /\ StatusOf(u) = "absent" /\ StatusOf(u)' = "live"
  BY <1>2, <1>3, <1>4 DEF Store!Next, Store!Attach, status
<1>5. CASE StatusOf(u) = "live" /\ StatusOf(u)' = "doomed"
  BY <1>2, <1>3, <1>5 DEF Store!Next, Store!Condemn, status
<1>6. CASE StatusOf(u) = "doomed" /\ StatusOf(u)' = "gone"
  BY <1>2, <1>3, <1>6 DEF Store!Next, Store!Vanish, status
<1> QED
  BY <1>1, <1>4, <1>5, <1>6

\* Every step of the outbox is a step or a stutter of the store.
LEMMA StepSimulation ==
    ASSUME IInv, Next PROVE [Store!Next]_Store!vars
<1> USE DEF IInv, TypeOK, Sound
<1>1. ASSUME NEW u \in Uploads, CommitUpload(u) \/ CommitUploadUnacked(u)
      PROVE  [Store!Next]_Store!vars
  <2>1. u \notin files /\ u \notin doomed
    BY <1>1 DEF CommitUpload, CommitUploadUnacked, UncommittedLeaveNoTrace, Uncommitted, Unborn
  <2>2. /\ parent' = parent /\ parent[TargetOf[u]] = "live"
        /\ \A k \in Uploads \ {u} : StatusOf(k)' = StatusOf(k)
        /\ StatusOf(u) = "absent" /\ StatusOf(u)' = "live"
    BY <1>1, <2>1 DEF CommitUpload, CommitUploadUnacked, CanAttach, StatusOf
  <2> QED
    BY <2>2, OneChange
<1>2. ASSUME NEW d \in Deleters, DeleteParent(d)
      PROVE  [Store!Next]_Store!vars
  <2> DEFINE t == TargetOf[d]
  <2>1. /\ t \in Targets /\ parent[t] = "live" /\ parent' = [parent EXCEPT ![t] = "gone"]
        /\ UNCHANGED <<files, objects>>
        /\ doomed' = doomed \cup FilesOf(t)
    BY <1>2, ThreadAssumption DEF DeleteParent, ThreadAssumption
  <2>2. \A k \in Uploads :
          StatusOf(k)' = IF k \in Store!FilesOf(t) /\ StatusOf(k) = "live"
                         THEN "doomed" ELSE StatusOf(k)
    BY <2>1 DEF StatusOf, FilesOf, Store!FilesOf
  <2> QED
    BY <2>1, <2>2 DEF Store!Next, Store!DeleteParent
<1>3. ASSUME NEW h \in Threads, EnqueueRow(h)
      PROVE  [Store!Next]_Store!vars
  <2>1. PICK k0 \in rows[h] : doomed' = doomed \cup {k0}
    BY <1>3 DEF EnqueueRow
  <2>2. k0 \in Uploads /\ k0 \in files \cup doomed
    BY DEF RowsWereFiles
  <2>3. /\ parent' = parent
        /\ \A k \in Uploads \ {k0} : StatusOf(k)' = StatusOf(k)
        /\ \/ StatusOf(k0)' = StatusOf(k0)
           \/ StatusOf(k0) = "live" /\ StatusOf(k0)' = "doomed"
    BY <1>3, <2>1, <2>2 DEF EnqueueRow, StatusOf
  <2> QED
    BY <2>2, <2>3, OneChange
<1>4. ASSUME NEW h \in Threads,
             SettleJob(h) \/ DeleteStoredObject(h) \/ ProcessJobFails(h)
      PROVE  [Store!Next]_Store!vars
  <2>1. PICK k0 \in Uploads : /\ current[h] \in ClaimedJob /\ k0 = current[h].key
                             /\ Justified(k0, current[h])
    BY <1>4 DEF SettleJob, DeleteStoredObject, ProcessJobFails, WorkIsJustified, AtWork,
                ClaimsAreJustified, InHand, ClaimedJob
  <2>2. /\ parent' = parent /\ doomed' = doomed
        /\ \A k \in Uploads \ {k0} : StatusOf(k)' = StatusOf(k)
    BY <1>4, <2>1 DEF SettleJob, DeleteStoredObject, ProcessJobFails, StatusOf
  <2>3. \/ StatusOf(k0)' = StatusOf(k0)
        \/ StatusOf(k0) = "doomed" /\ StatusOf(k0)' = "gone"
    <3>1. CASE SettleJob(h)
      <4>1. /\ k0 \notin objects /\ objects' = objects
            /\ files' = IF current[h].fileId = "set" THEN files \ {k0} ELSE files
            /\ current[h].fileId = "set" => k0 \in doomed
        BY <2>1, <3>1 DEF SettleJob, WorkIsJustified, Justified
      <4> QED
        BY <2>2, <4>1 DEF StatusOf
    <3>2. CASE DeleteStoredObject(h) \/ ProcessJobFails(h)
      <4>1. /\ files' = files /\ objects' \in {objects, objects \ {k0}}
            /\ objects' # objects => k0 \in doomed \/ k0 \notin files
        BY <2>1, <3>2 DEF DeleteStoredObject, ProcessJobFails, WorkIsJustified
      <4> QED
        BY <2>2, <4>1 DEF StatusOf
    <3> QED
      BY <1>4, <3>1, <3>2
  <2> QED
    BY <2>1, <2>2, <2>3, OneChange
<1>5. ASSUME NEW u \in Uploads, PutObject(u) \/ PutObjectFails(u)
      PROVE  SameView
  BY <1>5 DEF PutObject, PutObjectFails, SameView, StatusOf, UncommittedLeaveNoTrace,
              Uncommitted, Unborn
<1>6. ASSUME UNCHANGED <<objects, files, parent, doomed>>
      PROVE  SameView
  BY <1>6 DEF SameView, StatusOf
<1>7. CASE UNCHANGED <<objects, files, parent, doomed>>
  BY <1>6, <1>7, SameViewStutters
<1>8. ASSUME NEW u \in Uploads, BeginUpload(u) \/ UploadStep(u) \/ UploadFault(u),
             ~PutObject(u), ~PutObjectFails(u), ~CommitUpload(u), ~CommitUploadUnacked(u)
      PROVE  UNCHANGED <<objects, files, parent, doomed>>
  BY <1>8 DEF BeginUpload, UploadStep, UploadFault, RejectUpload, QueueUploadCompensation,
              ReadUploadedProfile, QueueUploadCompensationFails, storeVars
<1>9. ASSUME NEW d \in Deleters, BeginDeleteForTarget(d)
      PROVE  UNCHANGED <<objects, files, parent, doomed>>
  BY <1>9 DEF BeginDeleteForTarget, storeVars
<1>10. ASSUME NEW h \in Threads, EnqueueStep(h) \/ CleanupStep(h) \/ CleanupFault(h),
              ~EnqueueRow(h), ~SettleJob(h), ~DeleteStoredObject(h), ~ProcessJobFails(h)
       PROVE  UNCHANGED <<objects, files, parent, doomed>>
  BY <1>10 DEF EnqueueStep, CleanupStep, CleanupFault, ListRows, EnqueuedAll,
               EnqueueRowFails, ClaimCleanupJobs, ClaimNothing, NextJob, EndBatch,
               FileObjectExists, ConsumeJob, RecordCleanupFailure,
               RecordCleanupFailureFails, storeVars
<1>11. ASSUME NEW k \in Uploads, LeaseExpires(k) \/ BackoffElapses(k)
       PROVE  UNCHANGED <<objects, files, parent, doomed>>
  BY <1>11 DEF LeaseExpires, BackoffElapses
<1>12. ASSUME NEW p \in Processes, Crash(p)
       PROVE  UNCHANGED <<objects, files, parent, doomed>>
  BY <1>12 DEF Crash, storeVars
<1> QED
  BY <1>1, <1>2, <1>3, <1>4, <1>5, <1>7, <1>8, <1>9, <1>10, <1>11, <1>12, SameViewStutters
     DEF Next

\* Every behaviour of the outbox, with all its failures, is a behaviour of the
\* abstract store.
THEOREM OutboxImplementsStore == Spec => ImplementsFileStore
<1>1. Init => Store!Init
  BY DEF Init, Store!Init, StatusOf
<1>2. IInv /\ [Next]_vars => [Store!Next]_Store!vars
  <2>1. UNCHANGED vars => SameView
    BY DEF vars, SameView, StatusOf
  <2> QED
    BY <2>1, StepSimulation, SameViewStutters
<1> QED
  BY <1>1, <1>2, Invariance, PTL DEF Spec, Store!Spec, ImplementsFileStore

-----------------------------------------------------------------------------
(* The storage quota. *)

\* The check under the owner's row lock counts every row the account has, so
\* one more fits.
LEMMA CommitKeepsQuota ==
    ASSUME TypeOK, QuotaHeld, NEW u \in Uploads, WithinStorageQuota(u),
           files' = files \cup {u}
    PROVE  QuotaHeld'
<1> USE ThreadAssumption, ValueAssumption DEF ThreadAssumption, ValueAssumption
<1> SUFFICES ASSUME NEW o \in Owners
             PROVE  Cardinality({k \in files' \ Generated : OwnerOf[k] = o}) <= Quota
  BY DEF QuotaHeld
<1> DEFINE Old == {k \in files \ Generated : OwnerOf[k] = o}
           New == {k \in files' \ Generated : OwnerOf[k] = o}
           All == {k \in files : OwnerOf[k] = o}
<1>1. IsFiniteSet(All) /\ Cardinality(All) \in Nat /\ IsFiniteSet(Old)
  BY FS_Subset, FS_CardinalityType DEF TypeOK
<1>2. CASE u \in Generated \/ OwnerOf[u] # o
  <2>1. New = Old
    BY <1>2
  <2> QED
    BY <2>1 DEF QuotaHeld
<1>3. CASE u \notin Generated /\ OwnerOf[u] = o
  <2>1. New \subseteq All \cup {u}
    OBVIOUS
  <2>2. Cardinality(All) + 1 <= Quota
    BY <1>3 DEF WithinStorageQuota, Usage
  <2>3. IsFiniteSet(All \cup {u}) /\ Cardinality(All \cup {u}) <= Cardinality(All) + 1
    <3> HIDE DEF All
    <3>1. /\ IsFiniteSet(All \cup {u})
          /\ Cardinality(All \cup {u}) = IF u \in All THEN Cardinality(All)
                                        ELSE Cardinality(All) + 1
      BY <1>1, FS_AddElement
    <3> QED
      BY <1>1, <3>1
  <2>4. Cardinality(New) <= Cardinality(All \cup {u})
    BY <2>1, <2>3, FS_Subset
  <2>5. Cardinality(New) \in Nat /\ Cardinality(All \cup {u}) \in Nat
    BY <2>1, <2>3, FS_Subset, FS_CardinalityType
  <2> HIDE DEF New, All
  <2> QED
    BY <1>1, <2>2, <2>3, <2>4, <2>5 DEF New
<1> QED
  BY <1>2, <1>3

\* Nor does a step that commits no upload.
LEMMA ShrinkKeepsQuota ==
    ASSUME TypeOK, QuotaHeld, files' \subseteq files
    PROVE  QuotaHeld'
<1> USE ThreadAssumption, ValueAssumption DEF ThreadAssumption, ValueAssumption
<1> SUFFICES ASSUME NEW o \in Owners
             PROVE  Cardinality({k \in files' \ Generated : OwnerOf[k] = o}) <= Quota
  BY DEF QuotaHeld
<1> DEFINE Old == {k \in files \ Generated : OwnerOf[k] = o}
           New == {k \in files' \ Generated : OwnerOf[k] = o}
<1>1. IsFiniteSet(Old) /\ Cardinality(Old) \in Nat /\ New \subseteq Old
  BY FS_Subset, FS_CardinalityType DEF TypeOK
<1>2. Cardinality(Old) <= Quota
  BY DEF QuotaHeld
<1> HIDE DEF Old, New
<1>3. Cardinality(New) <= Cardinality(Old) /\ Cardinality(New) \in Nat
  BY <1>1, FS_Subset, FS_CardinalityType
<1>4. Cardinality(New) <= Quota
  BY <1>1, <1>2, <1>3
<1> QED
  BY <1>4 DEF New

\* Whatever the number of concurrent uploads, no account is over its quota.
THEOREM QuotaSafe == Spec => []QuotaHeld
<1>1. Init => QuotaHeld
  <2> SUFFICES ASSUME Init, NEW o \in Owners
               PROVE  Cardinality({k \in files \ Generated : OwnerOf[k] = o}) <= Quota
    BY DEF QuotaHeld
  <2>1. {k \in files \ Generated : OwnerOf[k] = o} = {}
    BY DEF Init
  <2> QED
    BY <2>1, FS_EmptySet, ValueAssumption DEF ValueAssumption
<1>2. TypeOK /\ QuotaHeld /\ [Next]_vars => QuotaHeld'
  <2> SUFFICES ASSUME TypeOK, QuotaHeld, [Next]_vars PROVE QuotaHeld'
    OBVIOUS
  <2>1. ASSUME NEW u \in Uploads, CommitUpload(u) \/ CommitUploadUnacked(u)
        PROVE  QuotaHeld'
    BY <2>1, CommitKeepsQuota DEF CommitUpload, CommitUploadUnacked, CanAttach
  <2>2. ASSUME NEW u \in Uploads, BeginUpload(u) \/ UploadStep(u) \/ UploadFault(u),
               ~CommitUpload(u), ~CommitUploadUnacked(u)
        PROVE  files' \subseteq files
    BY <2>2 DEF BeginUpload, UploadStep, UploadFault, PutObject, PutObjectFails, RejectUpload,
                QueueUploadCompensation, QueueUploadCompensationFails, ReadUploadedProfile,
                storeVars
  <2>3. ASSUME NEW d \in Deleters, DeleteParent(d) \/ BeginDeleteForTarget(d)
        PROVE  files' \subseteq files
    BY <2>3 DEF DeleteParent, BeginDeleteForTarget, storeVars
  <2>4. ASSUME NEW h \in Threads, EnqueueStep(h) \/ CleanupStep(h) \/ CleanupFault(h)
        PROVE  files' \subseteq files
    BY <2>4 DEF EnqueueStep, CleanupStep, CleanupFault, ListRows, EnqueueRow, EnqueuedAll,
                EnqueueRowFails, ClaimCleanupJobs, ClaimNothing, NextJob, EndBatch,
                FileObjectExists, ConsumeJob, DeleteStoredObject, SettleJob, ProcessJobFails,
                RecordCleanupFailure, RecordCleanupFailureFails, storeVars
  <2>5. ASSUME NEW k \in Uploads, LeaseExpires(k) \/ BackoffElapses(k)
        PROVE  files' \subseteq files
    BY <2>5 DEF LeaseExpires, BackoffElapses
  <2>6. ASSUME NEW p \in Processes, Crash(p)
        PROVE  files' \subseteq files
    BY <2>6 DEF Crash, storeVars
  <2>7. CASE UNCHANGED vars
    BY <2>7, ShrinkKeepsQuota DEF vars
  <2> QED
    BY <2>1, <2>2, <2>3, <2>4, <2>5, <2>6, <2>7, ShrinkKeepsQuota DEF Next
<1> QED
  BY <1>1, <1>2, TypeCorrect, PTL DEF Spec

-----------------------------------------------------------------------------
(* Exclusive claims. *)

\* As long as no lease ran out under a thread at work, what a thread has in hand
\* is exactly what its process holds in the table, once.
Holds(h, c) ==
    /\ jobs[c.key] # NoJob
    /\ jobs[c.key].id = c.id
    /\ jobs[c.key].lease = "held"
    /\ jobs[c.key].lockedBy = ProcessOf[h]

InHandIsHeld ==
    \A h \in Threads : \A c \in InHand(h) : Holds(h, c)

OneClaimPerKey ==
    \A h1, h2 \in Threads : \A c1 \in InHand(h1), c2 \in InHand(h2) :
        c1.key = c2.key => h1 = h2 /\ c1 = c2

NotTwiceInHand ==
    \A h \in Threads : current[h] \notin batch[h]

XInv == overruns = 0 => InHandIsHeld /\ OneClaimPerKey /\ NotTwiceInHand

\* Taking work out of hands, with the rest still held, keeps the claims exclusive.
LEMMA DropKeepsExclusive ==
    ASSUME TypeOK, InHandIsHeld, OneClaimPerKey, NotTwiceInHand,
           \A h \in Threads :
              /\ InHand(h)' \subseteq InHand(h)
              /\ current'[h] \notin batch'[h]
              /\ \A c \in InHand(h)' : Holds(h, c)'
    PROVE  InHandIsHeld' /\ OneClaimPerKey' /\ NotTwiceInHand'
BY DEF InHandIsHeld, OneClaimPerKey, NotTwiceInHand

\* Enqueueing leaves the lease of an existing job alone.
LEMMA EnqueueKeepsLeases ==
    ASSUME TypeOK, NEW K, NEW reason \in Reasons, NEW fileId \in {"set", "null"},
           EnqueueCleanup(K, reason, fileId), NEW k \in Uploads, jobs[k] # NoJob
    PROVE  /\ jobs'[k] # NoJob
           /\ jobs'[k].id = jobs[k].id
           /\ jobs'[k].lease = jobs[k].lease
           /\ jobs'[k].lockedBy = jobs[k].lockedBy
BY ValueAssumption
   DEF EnqueueCleanup, InsertedJob, TypeOK, JobRow, Leases, ValueAssumption

\* Every step keeps the claims exclusive.
LEMMA NextExclusive == IInv /\ XInv /\ [Next]_vars => XInv'
<1> SUFFICES ASSUME IInv, TypeOK, XInv, [Next]_vars, overruns' = 0
             PROVE  InHandIsHeld' /\ OneClaimPerKey' /\ NotTwiceInHand'
  BY DEF XInv, IInv
<1>0. overruns = 0 /\ InHandIsHeld /\ OneClaimPerKey /\ NotTwiceInHand
  <2>1. overruns' \in {overruns, overruns + 1} /\ overruns \in Nat
    <3>1. \A u \in Uploads : BeginUpload(u) \/ UploadStep(u) \/ UploadFault(u)
                              => overruns' = overruns
      BY DEF BeginUpload, UploadStep, UploadFault, PutObject, PutObjectFails,
             CommitUpload, CommitUploadUnacked, RejectUpload, QueueUploadCompensation,
             QueueUploadCompensationFails, ReadUploadedProfile, NoFault, Fault
    <3>2. \A d \in Deleters : DeleteParent(d) \/ BeginDeleteForTarget(d) => overruns' = overruns
      BY DEF DeleteParent, BeginDeleteForTarget, NoFault
    <3>3. \A h \in Threads : EnqueueStep(h) \/ CleanupStep(h) \/ CleanupFault(h)
                              => overruns' = overruns
      BY DEF EnqueueStep, CleanupStep, CleanupFault, ListRows, EnqueueRow, EnqueuedAll,
             EnqueueRowFails, ClaimCleanupJobs, ClaimNothing, NextJob, EndBatch,
             FileObjectExists, ConsumeJob, DeleteStoredObject, SettleJob, ProcessJobFails,
             RecordCleanupFailure, RecordCleanupFailureFails, NoFault, Fault
    <3>4. \A k \in Uploads : LeaseExpires(k) \/ BackoffElapses(k)
                              => overruns' \in {overruns, overruns + 1}
      BY DEF LeaseExpires, BackoffElapses, NoFault
    <3>5. \A p \in Processes : Crash(p) => overruns' = overruns
      BY DEF Crash, Fault
    <3>6. overruns \in Nat
      BY DEF TypeOK
    <3> QED
      BY <3>1, <3>2, <3>3, <3>4, <3>5, <3>6 DEF Next, vars
  <2> QED
    BY <2>1 DEF XInv
<1>1. \A h \in Threads : \A c \in InHand(h) : c \in ClaimedJob /\ c.key \in Uploads
  BY DEF TypeOK, InHand, ClaimedJob
<1>2. ASSUME UNCHANGED <<batch, current>>,
             \A k \in Uploads : jobs[k] # NoJob =>
                /\ jobs'[k] # NoJob
                /\ jobs'[k].id = jobs[k].id
                /\ jobs'[k].lease = jobs[k].lease
                /\ jobs'[k].lockedBy = jobs[k].lockedBy
      PROVE  InHandIsHeld' /\ OneClaimPerKey' /\ NotTwiceInHand'
  BY <1>0, <1>1, <1>2 DEF InHandIsHeld, OneClaimPerKey, NotTwiceInHand, InHand, Holds
<1>3. ASSUME NEW u \in Uploads, BeginUpload(u) \/ UploadStep(u) \/ UploadFault(u)
      PROVE  InHandIsHeld' /\ OneClaimPerKey' /\ NotTwiceInHand'
  <2>1. CASE QueueUploadCompensation(u)
    BY <1>2, <2>1, EnqueueKeepsLeases DEF QueueUploadCompensation, Reasons, threadVars
  <2>2. CASE ~QueueUploadCompensation(u)
    BY <1>2, <1>3, <2>2
       DEF BeginUpload, UploadStep, UploadFault, PutObject, PutObjectFails, CommitUpload,
           CommitUploadUnacked, RejectUpload, QueueUploadCompensationFails,
           ReadUploadedProfile, storeVars, threadVars
  <2> QED
    BY <2>1, <2>2
<1>4. ASSUME NEW d \in Deleters, DeleteParent(d) \/ BeginDeleteForTarget(d)
      PROVE  InHandIsHeld' /\ OneClaimPerKey' /\ NotTwiceInHand'
  <2>1. CASE DeleteParent(d)
    BY <1>2, <2>1, EnqueueKeepsLeases DEF DeleteParent, Reasons, threadVars
  <2>2. CASE BeginDeleteForTarget(d)
    BY <1>2, <2>2 DEF BeginDeleteForTarget, storeVars, threadVars
  <2> QED
    BY <1>4, <2>1, <2>2
<1>5. ASSUME NEW h \in Threads, EnqueueStep(h) \/ EnqueueRowFails(h)
      PROVE  InHandIsHeld' /\ OneClaimPerKey' /\ NotTwiceInHand'
  <2>1. CASE EnqueueRow(h)
    BY <1>2, <2>1, EnqueueKeepsLeases DEF EnqueueRow, Reasons
  <2>2. CASE ~EnqueueRow(h)
    BY <1>2, <1>5, <2>2 DEF EnqueueStep, EnqueueRowFails, ListRows, EnqueuedAll, storeVars, threadVars
  <2> QED
    BY <2>1, <2>2
<1>6. ASSUME NEW h \in Threads, ClaimCleanupJobs(h)
      PROVE  InHandIsHeld' /\ OneClaimPerKey' /\ NotTwiceInHand'
  <2>1. PICK K \in SUBSET Claimable(h) \ {{}} :
          /\ jobs' = [k \in Uploads |->
                        IF k \in K THEN Leased(jobs[k], "held", ProcessOf[h])
                        ELSE jobs[k]]
          /\ batch' = [batch EXCEPT ![h] = {AsRead(k) : k \in K}]
    BY <1>6 DEF ClaimCleanupJobs
  <2>2. current' = current
    BY <1>6 DEF ClaimCleanupJobs
  <2>3. \A k \in K : /\ k \in Uploads /\ jobs[k] \in JobRow /\ jobs[k] # NoJob
                     /\ jobs[k].lease # "held"
    BY DEF Claimable, TypeOK
  <2>4. \A k \in K : /\ jobs'[k] # NoJob /\ jobs'[k].id = jobs[k].id
                     /\ jobs'[k].lease = "held" /\ jobs'[k].lockedBy = ProcessOf[h]
    <3> SUFFICES ASSUME NEW k \in K
                 PROVE  /\ jobs'[k] # NoJob /\ jobs'[k].id = jobs[k].id
                        /\ jobs'[k].lease = "held" /\ jobs'[k].lockedBy = ProcessOf[h]
      OBVIOUS
    <3>1. ProcessOf[h] \in Processes \cup {Nobody} /\ "held" \in Leases
      BY ThreadAssumption DEF ThreadAssumption, Leases
    <3>2. jobs'[k] = Leased(jobs[k], "held", ProcessOf[h])
      BY <2>1, <2>3
    <3> QED
      BY <2>3, <3>1, <3>2, Relet
  <2>5. \A g \in Threads : \A c \in InHand(g) : c.key \notin K /\ jobs'[c.key] = jobs[c.key]
    BY <1>0, <1>1, <2>1, <2>3 DEF InHandIsHeld, Holds
  <2>6. \A c \in batch'[h] : c \in {AsRead(k) : k \in K}
    BY <2>1 DEF TypeOK
  <2>7. \A g \in Threads : \A c \in InHand(g)' :
          c \in InHand(g) \/ (g = h /\ \E k \in K : c = AsRead(k))
    <3>1. \A g \in Threads \ {h} : batch'[g] = batch[g]
      BY <2>1 DEF TypeOK
    <3> SUFFICES ASSUME NEW g \in Threads, NEW c \in InHand(g)'
                 PROVE  c \in InHand(g) \/ (g = h /\ \E k \in K : c = AsRead(k))
      OBVIOUS
    <3>2. CASE g # h
      BY <2>2, <3>1, <3>2 DEF InHand
    <3>3. CASE g = h
      <4>1. c \in batch'[h] \/ c \in InHand(h)
        BY <2>2, <3>3 DEF InHand
      <4> QED
        BY <2>6, <3>3, <4>1
    <3> QED
      BY <3>2, <3>3
  <2>8. \A k \in K : AsRead(k).key = k /\ AsRead(k).id = jobs[k].id
    BY DEF AsRead
  <2>9. InHandIsHeld'
    BY <1>0, <2>4, <2>5, <2>7, <2>8 DEF InHandIsHeld, Holds
  <2>10. OneClaimPerKey'
    BY <1>0, <2>5, <2>7, <2>8 DEF OneClaimPerKey
  <2>11. NotTwiceInHand'
    <3>1. \A g \in Threads \ {h} : batch'[g] = batch[g]
      BY <2>1 DEF TypeOK
    <3>2. current[h] \notin {AsRead(k) : k \in K}
      <4>1. ASSUME NEW k \in K, current[h] = AsRead(k) PROVE FALSE
        <5>1. current[h] # NoJob
          BY <2>3, <4>1, AsReadType, ValueAssumption DEF ValueAssumption
        <5>2. current[h] \in InHand(h)
          BY <5>1 DEF InHand
        <5> QED
          BY <2>5, <2>8, <4>1, <5>2
      <4> QED
        BY <4>1
    <3> QED
      BY <1>0, <2>2, <2>6, <3>1, <3>2 DEF NotTwiceInHand
  <2> QED
    BY <2>9, <2>10, <2>11
<1>7. ASSUME NEW h \in Threads, ConsumeJob(h) \/ SettleJob(h) \/ RecordCleanupFailure(h)
      PROVE  InHandIsHeld' /\ OneClaimPerKey' /\ NotTwiceInHand'
  <2>1. \A k \in Uploads \ {current[h].key} : jobs'[k] = jobs[k]
    BY <1>7 DEF ConsumeJob, SettleJob, RecordCleanupFailure, DeleteClaimedCleanupJob, TypeOK
  <2>2. current' = [current EXCEPT ![h] = NoJob] /\ batch' = batch
    BY <1>7 DEF ConsumeJob, SettleJob, RecordCleanupFailure
  <2>3. NoJob \notin batch[h]
    BY ValueAssumption DEF TypeOK, ValueAssumption
  <2>4. \A g \in Threads : /\ InHand(g)' \subseteq InHand(g) /\ current'[g] \notin batch'[g]
                           /\ \A c \in InHand(g)' : current[h] = NoJob \/ c.key # current[h].key
    BY <1>0, <2>2, <2>3 DEF InHand, TypeOK, NotTwiceInHand, OneClaimPerKey
  <2>5. current[h] # NoJob
    BY <1>7 DEF ConsumeJob, SettleJob, RecordCleanupFailure, IInv, Sound, WorkIsJustified, AtWork
  <2> QED
    BY <1>0, <1>1, <2>1, <2>4, <2>5, DropKeepsExclusive DEF InHandIsHeld, Holds
<1>8. ASSUME NEW h \in Threads, CleanupStep(h) \/ CleanupFault(h), ~EnqueueRowFails(h),
             ~ClaimCleanupJobs(h), ~ConsumeJob(h), ~SettleJob(h), ~RecordCleanupFailure(h)
      PROVE  InHandIsHeld' /\ OneClaimPerKey' /\ NotTwiceInHand'
  <2>1. jobs' = jobs
    BY <1>8 DEF CleanupStep, CleanupFault, ClaimNothing, NextJob, EndBatch, FileObjectExists,
                DeleteStoredObject, ProcessJobFails, RecordCleanupFailureFails, storeVars
  <2>2. \A g \in Threads : InHand(g)' \subseteq InHand(g) /\ current'[g] \notin batch'[g]
    <3>1. CASE NextJob(h)
      BY <1>0, <3>1 DEF NextJob, InHand, TypeOK, NotTwiceInHand
    <3>2. CASE RecordCleanupFailureFails(h)
      <4>1. NoJob \notin batch[h]
        BY ValueAssumption DEF TypeOK, ValueAssumption
      <4> QED
        BY <1>0, <3>2, <4>1 DEF RecordCleanupFailureFails, InHand, TypeOK, NotTwiceInHand
    <3>3. CASE UNCHANGED <<batch, current>>
      BY <1>0, <3>3 DEF InHand, NotTwiceInHand
    <3> QED
      BY <1>8, <3>1, <3>2, <3>3
         DEF CleanupStep, CleanupFault, ClaimNothing, EndBatch, FileObjectExists,
             DeleteStoredObject, ProcessJobFails, threadVars
  <2> QED
    BY <1>0, <2>1, <2>2, DropKeepsExclusive DEF InHandIsHeld, Holds
<1>9. ASSUME NEW k \in Uploads, LeaseExpires(k) \/ BackoffElapses(k)
      PROVE  InHandIsHeld' /\ OneClaimPerKey' /\ NotTwiceInHand'
  <2>1. UNCHANGED <<batch, current>> /\ \A k0 \in Uploads \ {k} : jobs'[k0] = jobs[k0]
    BY <1>9 DEF LeaseExpires, BackoffElapses, TypeOK, threadVars
  <2>2. ~Attended(k) \/ jobs[k].lease # "held"
    BY <1>0, <1>9 DEF LeaseExpires, BackoffElapses
  <2>3. \A h \in Threads : \A c \in InHand(h) : c.key # k
    BY <1>0, <2>2 DEF InHandIsHeld, Holds, Attended
  <2>4. \A h \in Threads : InHand(h)' = InHand(h)
    BY <2>1 DEF InHand
  <2> QED
    BY <1>0, <1>1, <2>1, <2>3, <2>4, DropKeepsExclusive
       DEF InHandIsHeld, Holds, NotTwiceInHand
<1>10. ASSUME NEW p \in Processes, Crash(p)
       PROVE  InHandIsHeld' /\ OneClaimPerKey' /\ NotTwiceInHand'
  <2>1. jobs' = jobs
    BY <1>10 DEF Crash, storeVars
  <2>2. ASSUME NEW h \in Threads
        PROVE  \/ batch'[h] = {} /\ current'[h] = NoJob
               \/ batch'[h] = batch[h] /\ current'[h] = current[h]
    <3>1. CASE ProcessOf[h] = p
      BY <1>10, <3>1 DEF Crash
    <3>2. CASE ProcessOf[h] # p
      BY <1>10, <3>2 DEF Crash
    <3> QED
      BY <3>1, <3>2
  <2>3. \A h \in Threads : InHand(h)' \subseteq InHand(h) /\ current'[h] \notin batch'[h]
    BY <1>0, <2>2 DEF InHand, NotTwiceInHand
  <2> QED
    BY <1>0, <2>1, <2>3, DropKeepsExclusive DEF InHandIsHeld, Holds
<1>11. CASE UNCHANGED vars
  BY <1>2, <1>11 DEF vars
<1> QED
  BY <1>3, <1>4, <1>5, <1>6, <1>7, <1>8, <1>9, <1>10, <1>11 DEF Next, CleanupFault, CleanupStep

\* No two threads work on one claim unless a lease ran out under one of them.
THEOREM ExclusiveClaims == Spec => []ClaimsAreExclusive
<1>1. Init => XInv
  BY DEF Init, XInv, InHandIsHeld, OneClaimPerKey, NotTwiceInHand, InHand
<1>2. XInv => ClaimsAreExclusive
  BY DEF XInv, OneClaimPerKey, ClaimsAreExclusive
<1> QED
  BY <1>1, <1>2, NextExclusive, Invariance, PTL DEF Spec
=============================================================================
