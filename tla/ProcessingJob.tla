--------------------------- MODULE ProcessingJob ---------------------------
(***************************************************************************)
(* The processing job of an accepted Upload: the rows of                   *)
(* artifact_upload_session, artifact_processing_job and                    *)
(* artifact_processing_attempt, the Workers that claim a job under a       *)
(* lease, the recovery of expired leases, automatic and manual retries.    *)
(*                                                                         *)
(* A PostgreSQL transaction that locks the job row is one action.  Time    *)
(* is kept as the ticks that remain on each lease and on each retry delay, *)
(* so that the clock needs no bound.  What a Worker does between its claim *)
(* and its commit (storage, validation, Content bundles) is abstracted to  *)
(* the way it ends; ContentBundle.tla models it.                           *)
(***************************************************************************)
EXTENDS Integers, FiniteSets

CONSTANTS
    Sessions,           \* Upload session identities
    Artifacts,          \* Artifact identities
    ArtifactOf,         \* the Artifact each Upload session belongs to
    Jobs,               \* processing job identities: bounds the manual retries
    SessionOf,          \* the Upload session each job belongs to
    Workers,            \* worker identities: a restarted Worker takes a new one
    MaxAttempts,        \* max_attempts of every job row
    WorkerMaxAttempts,  \* configured_max_attempts of every Worker
    LeaseDuration,      \* ticks of a granted lease
    RetryDelay,         \* ticks before attempt n + 1, by attempt number n
    MaxCrashes,         \* bound on Worker crashes
    NoWorker, NoAttempt \* SQL null

ASSUME MaxAttemptsAssumption == MaxAttempts \in Nat \ {0}
ASSUME LeaseAssumption == LeaseDuration \in Nat \ {0}
ASSUME RetryDelayAssumption == RetryDelay \in [{1, 2} -> Nat]
ASSUME SessionOfAssumption == SessionOf \in [Jobs -> Sessions]
ASSUME ArtifactOfAssumption == ArtifactOf \in [Sessions -> Artifacts]
ASSUME NoWorkerAssumption == NoWorker \notin Workers

\* An attempt row is identified by unique (job_id, attempt_number).
Attempts == [job : Jobs, number : 1 .. MaxAttempts]

Attempt(j, n) == [job |-> j, number |-> n]

ASSUME NoAttemptAssumption == NoAttempt \notin Attempts

VARIABLES
    sessionState,   \* artifact_upload_session.state
    retryable,      \* artifact_upload_session.retryable
    superseded,     \* artifact_upload_session.superseded_at is not null
    version,        \* the attempt whose result is the session's Version row
    jobState,       \* artifact_processing_job.state
    leaseOwner,     \* artifact_processing_job.lease_owner
    lease,          \* ticks until lease_expires_at, 0 once it has passed
    delay,          \* ticks until available_at, 0 once it has passed
    attemptCount,   \* artifact_processing_job.attempt_count
    attemptState,   \* artifact_processing_attempt.state
    pc,             \* where each Worker is in run_one
    claim,          \* the ClaimedJob each Worker holds in memory
    failure         \* the retry class a failing Worker is about to record

sessionVars == <<sessionState, retryable, superseded, version>>
jobVars     == <<jobState, leaseOwner, lease, delay, attemptCount, attemptState>>
rowVars     == <<sessionVars, jobVars>>
workerVars  == <<pc, claim, failure>>
vars        == <<rowVars, workerVars>>

FailureClasses == {"validation", "transient", "unclassified"}

TypeOK ==
    /\ sessionState \in
         [Sessions -> {"absent", "accepted", "processing", "committed", "failed",
                       "deleted"}]
    /\ retryable \in [Sessions -> BOOLEAN]
    /\ superseded \in [Sessions -> BOOLEAN]
    /\ version \in [Sessions -> Attempts \union {NoAttempt}]
    /\ jobState \in
         [Jobs -> {"absent", "queued", "running", "completed", "failed", "deleted"}]
    /\ leaseOwner \in [Jobs -> Workers \union {NoWorker}]
    /\ lease \in [Jobs -> Nat]
    /\ delay \in [Jobs -> Nat]
    /\ attemptCount \in [Jobs -> 0 .. MaxAttempts]
    /\ attemptState \in
         [Attempts -> {"absent", "running", "succeeded", "failed", "deleted"}]
    /\ pc \in
         [Workers -> {"idle", "recovered", "processing", "failing", "dead"}]
    /\ claim \in [Workers -> Attempts \union {NoAttempt}]
    /\ failure \in [Workers -> FailureClasses \union {"none"}]

-----------------------------------------------------------------------------
Init ==
    /\ sessionState = [s \in Sessions |-> "absent"]
    /\ retryable = [s \in Sessions |-> FALSE]
    /\ superseded = [s \in Sessions |-> FALSE]
    /\ version = [s \in Sessions |-> NoAttempt]
    /\ jobState = [j \in Jobs |-> "absent"]
    /\ leaseOwner = [j \in Jobs |-> NoWorker]
    /\ lease = [j \in Jobs |-> 0]
    /\ delay = [j \in Jobs |-> 0]
    /\ attemptCount = [j \in Jobs |-> 0]
    /\ attemptState = [a \in Attempts |-> "absent"]
    /\ pc = [w \in Workers |-> "idle"]
    /\ claim = [w \in Workers |-> NoAttempt]
    /\ failure = [w \in Workers |-> "none"]

CurrentAttempt(j) == Attempt(j, attemptCount[j])

SessionsOf(artifact) == {s \in Sessions : ArtifactOf[s] = artifact}

Open(s) == sessionState[s] \in {"accepted", "processing"}

\* The rows the partial unique index artifact_upload_session_current_idx covers.
Current(s) ==
    /\ sessionState[s] \in {"accepted", "processing", "failed"}
    /\ ~superseded[s]

-----------------------------------------------------------------------------
(* The API: transactions that create or reopen an Upload.                  *)

InsertQueuedJob(s, j) ==
    /\ jobState[j] = "absent"
    /\ SessionOf[j] = s
    /\ jobState' = [jobState EXCEPT ![j] = "queued"]
    /\ UNCHANGED <<leaseOwner, lease, delay, attemptCount, attemptState>>

InsertSession(s, j) ==
    /\ sessionState[s] = "absent"
    /\ sessionState' = [sessionState EXCEPT ![s] = "accepted"]
    /\ InsertQueuedJob(s, j)
    /\ UNCHANGED <<retryable, version, workerVars>>

\* commitAccepted: a new Artifact with its first Upload.
CommitAccepted(s, j) ==
    /\ \A t \in SessionsOf(ArtifactOf[s]) : sessionState[t] = "absent"
    /\ InsertSession(s, j)
    /\ UNCHANGED superseded

\* commitVersionUpload: the Artifact was seen with a ready Version before the
\* body arrived; the unique index alone rejects a second current Upload.
CommitVersionUpload(s, j) ==
    /\ \E t \in SessionsOf(ArtifactOf[s]) : version[t] # NoAttempt
    /\ \A t \in SessionsOf(ArtifactOf[s]) : ~Current(t)
    /\ InsertSession(s, j)
    /\ UNCHANGED superseded

ReplaceEvenRetryable(previous, s, j) ==
    /\ ArtifactOf[previous] = ArtifactOf[s]
    /\ sessionState[previous] = "failed"
    /\ ~superseded[previous]
    /\ \A t \in SessionsOf(ArtifactOf[s]) : Current(t) => t = previous
    /\ superseded' = [superseded EXCEPT ![previous] = TRUE]
    /\ InsertSession(s, j)

\* commitReplacement: the failed Upload is superseded by another file.
CommitReplacement(previous, s, j) ==
    /\ ArtifactOf[previous] = ArtifactOf[s]
    /\ sessionState[previous] = "failed"
    /\ ~retryable[previous]
    /\ ~superseded[previous]
    /\ \A t \in SessionsOf(ArtifactOf[s]) : Current(t) => t = previous
    /\ superseded' = [superseded EXCEPT ![previous] = TRUE]
    /\ InsertSession(s, j)

\* queueManualRetry: a failed retryable Upload gets another job.
QueueManualRetry(s, j) ==
    /\ sessionState[s] = "failed"
    /\ retryable[s]
    /\ ~superseded[s]
    /\ sessionState' = [sessionState EXCEPT ![s] = "accepted"]
    /\ retryable' = [retryable EXCEPT ![s] = FALSE]
    /\ InsertQueuedJob(s, j)
    /\ UNCHANGED <<superseded, version, workerVars>>

\* deleteOwned without a Gallery hold: the Artifact's rows go by cascade, unless
\* an Upload is still open.
DeleteArtifact(artifact) ==
    LET gone(s) == ArtifactOf[s] = artifact /\ sessionState[s] # "absent"
    IN  /\ \E s \in Sessions : gone(s) /\ sessionState[s] # "deleted"
        /\ \A s \in SessionsOf(artifact) : ~Open(s)
        /\ sessionState' = [s \in Sessions |-> IF gone(s) THEN "deleted" ELSE sessionState[s]]
        /\ retryable' = [s \in Sessions |-> ~gone(s) /\ retryable[s]]
        /\ superseded' = [s \in Sessions |-> ~gone(s) /\ superseded[s]]
        /\ version' = [s \in Sessions |-> IF gone(s) THEN NoAttempt ELSE version[s]]
        /\ jobState' = [j \in Jobs |->
             IF gone(SessionOf[j]) /\ jobState[j] # "absent" THEN "deleted" ELSE jobState[j]]
        /\ attemptState' = [a \in Attempts |->
             IF gone(SessionOf[a.job]) /\ attemptState[a] # "absent"
             THEN "deleted" ELSE attemptState[a]]
        /\ UNCHANGED <<leaseOwner, lease, delay, attemptCount, workerVars>>

-----------------------------------------------------------------------------
(* The job store.                                                          *)

HoldsLeaseEvenExpired(w, j) == jobState[j] = "running" /\ leaseOwner[j] = w

\* lock_active_job: the row is running, owned by this worker, lease not over.
HoldsLease(w, j) ==
    /\ jobState[j] = "running"
    /\ leaseOwner[j] = w
    /\ lease[j] > 0

ExpiredJobs == {j \in Jobs : jobState[j] = "running" /\ lease[j] = 0}

\* finish_attempt fails, and with it the transaction, when the job's current
\* attempt row is not running.
AttemptRuns(j) == attemptState[CurrentAttempt(j)] = "running"

RequeuedUpToLimit(expired) == {j \in expired : attemptCount[j] <= MaxAttempts}

Requeued(expired) == {j \in expired : attemptCount[j] < MaxAttempts}

\* recover_expired_leases on the rows the transaction could lock.
RecoverExpiredLeases(expired) ==
    LET requeued  == Requeued(expired)
        exhausted == expired \ requeued
        failed    == {SessionOf[j] : j \in exhausted}
    IN  /\ \A j \in expired : AttemptRuns(j)
        /\ attemptState' = [a \in Attempts |->
             IF a.job \in expired /\ a = CurrentAttempt(a.job)
             THEN "failed" ELSE attemptState[a]]
        /\ jobState' = [j \in Jobs |->
             IF j \in requeued THEN "queued"
             ELSE IF j \in exhausted THEN "failed" ELSE jobState[j]]
        /\ leaseOwner' = [j \in Jobs |-> IF j \in expired THEN NoWorker ELSE leaseOwner[j]]
        /\ delay' = [j \in Jobs |-> IF j \in requeued THEN 0 ELSE delay[j]]
        /\ sessionState' = [s \in Sessions |-> IF s \in failed THEN "failed" ELSE sessionState[s]]
        /\ retryable' = [s \in Sessions |-> s \in failed \/ retryable[s]]
        /\ UNCHANGED <<superseded, version, lease, attemptCount>>

NextAttemptIsFirst(j) == Attempt(j, 1)

NextAttempt(j) == Attempt(j, attemptCount[j] + 1)

\* claim_next: lease the job, start the next numbered attempt.
GrantLease(w, j) ==
    /\ jobState[j] = "queued"
    /\ delay[j] = 0
    /\ attemptCount[j] < MaxAttempts
    /\ LET attempt == NextAttempt(j)
       IN  /\ attemptState' = [attemptState EXCEPT ![attempt] = "running"]
           /\ claim' = [claim EXCEPT ![w] = attempt]
    /\ jobState' = [jobState EXCEPT ![j] = "running"]
    /\ leaseOwner' = [leaseOwner EXCEPT ![j] = w]
    /\ lease' = [lease EXCEPT ![j] = LeaseDuration]
    /\ attemptCount' = [attemptCount EXCEPT ![j] = @ + 1]
    /\ sessionState' = [sessionState EXCEPT
         ![SessionOf[j]] = IF @ = "accepted" THEN "processing" ELSE @]
    /\ UNCHANGED <<retryable, superseded, version, delay>>

FinishWithoutSession(j) ==
    /\ AttemptRuns(j)
    /\ version' = [version EXCEPT ![SessionOf[j]] = CurrentAttempt(j)]
    /\ attemptState' = [attemptState EXCEPT ![CurrentAttempt(j)] = "succeeded"]
    /\ jobState' = [jobState EXCEPT ![j] = "completed"]
    /\ leaseOwner' = [leaseOwner EXCEPT ![j] = NoWorker]
    /\ lease' = [lease EXCEPT ![j] = 0]
    /\ UNCHANGED <<sessionState, retryable, superseded, delay, attemptCount>>

\* finish_ready_states and insert_content_bundle_version.
FinishReadyStates(j) ==
    /\ AttemptRuns(j)
    /\ sessionState[SessionOf[j]] = "processing"
    /\ version' = [version EXCEPT ![SessionOf[j]] = CurrentAttempt(j)]
    /\ attemptState' = [attemptState EXCEPT ![CurrentAttempt(j)] = "succeeded"]
    /\ jobState' = [jobState EXCEPT ![j] = "completed"]
    /\ leaseOwner' = [leaseOwner EXCEPT ![j] = NoWorker]
    /\ lease' = [lease EXCEPT ![j] = 0]
    /\ sessionState' = [sessionState EXCEPT ![SessionOf[j]] = "committed"]
    /\ UNCHANGED <<retryable, superseded, delay, attemptCount>>

\* retry_policy.decide, bounded by record_failure with both attempt limits.
RetriesAfter(class, number) ==
    /\ \/ class \in {"transient", "unclassified"} /\ number = 1
       \/ class = "transient" /\ number = 2
    /\ number < MaxAttempts
    /\ number < WorkerMaxAttempts

\* JobStore.fail, called with the claim's decision but matched to the row by
\* job and worker only: the attempt that ends is the row's current one.
FailAttempt(j, class, number) ==
    LET retry == RetriesAfter(class, number) /\ attemptCount[j] < MaxAttempts
        s     == SessionOf[j]
    IN  /\ AttemptRuns(j)
        /\ attemptState' = [attemptState EXCEPT ![CurrentAttempt(j)] = "failed"]
        /\ jobState' = [jobState EXCEPT ![j] = IF retry THEN "queued" ELSE "failed"]
        /\ leaseOwner' = [leaseOwner EXCEPT ![j] = NoWorker]
        /\ lease' = [lease EXCEPT ![j] = 0]
        /\ delay' = [delay EXCEPT ![j] = IF retry THEN RetryDelay[number] ELSE @]
        /\ sessionState' = [sessionState EXCEPT ![s] = IF retry THEN @ ELSE "failed"]
        /\ retryable' = [retryable EXCEPT ![s] = IF retry THEN @ ELSE class # "validation"]
        /\ UNCHANGED <<superseded, version, attemptCount>>

-----------------------------------------------------------------------------
(* A Worker's run_one: recover, claim, process, record the failure.        *)

Goto(w, label) == pc' = [pc EXCEPT ![w] = label]

Fail(w, class) ==
    /\ Goto(w, "failing")
    /\ failure' = [failure EXCEPT ![w] = class]
    /\ UNCHANGED claim

ReturnToIdle(w) ==
    /\ Goto(w, "idle")
    /\ claim' = [claim EXCEPT ![w] = NoAttempt]
    /\ failure' = [failure EXCEPT ![w] = "none"]

\* The recovery limit may leave some of the expired rows for a later run.
WorkerRecover(w) ==
    /\ pc[w] = "idle"
    /\ \E expired \in SUBSET ExpiredJobs :
         /\ ExpiredJobs # {} => expired # {}
         /\ RecoverExpiredLeases(expired)
    /\ Goto(w, "recovered")
    /\ UNCHANGED <<claim, failure>>

ClaimNext(w) ==
    /\ pc[w] = "recovered"
    /\ \E j \in Jobs : GrantLease(w, j)
    /\ Goto(w, "processing")
    /\ UNCHANGED failure

Claimable == {j \in Jobs : jobState[j] = "queued" /\ delay[j] = 0
                              /\ attemptCount[j] < MaxAttempts}

ClaimNothing(w) ==
    /\ pc[w] = "recovered"
    /\ Claimable = {}
    /\ Goto(w, "idle")
    /\ UNCHANGED <<rowVars, claim, failure>>

\* A heartbeat that finds the lease gone changes nothing: processing goes on.
Heartbeat(w) ==
    /\ pc[w] = "processing"
    /\ HoldsLease(w, claim[w].job)
    /\ lease' = [lease EXCEPT ![claim[w].job] = LeaseDuration]
    /\ UNCHANGED <<sessionVars, jobState, leaseOwner, delay, attemptCount,
                   attemptState, workerVars>>

\* Processing ends in an error, whatever became of the lease meanwhile.
ProcessingFails(w) ==
    /\ pc[w] = "processing"
    /\ \E class \in FailureClasses : Fail(w, class)
    /\ UNCHANGED rowVars

\* commit_content_bundle_version finds the session's Version already there.
CommitAlreadyDone(w) ==
    /\ pc[w] = "processing"
    /\ version[SessionOf[claim[w].job]] # NoAttempt
    /\ \/ ReturnToIdle(w)
       \/ Fail(w, "transient")       \* staging cleanup failed
    /\ UNCHANGED rowVars

\* The claim must still be the running attempt of a job leased to this worker.
MayCommit(w) ==
    /\ version[SessionOf[claim[w].job]] = NoAttempt
    /\ HoldsLease(w, claim[w].job)
    /\ claim[w] = CurrentAttempt(claim[w].job)
    /\ AttemptRuns(claim[w].job)

CommitLeaseLost(w) ==
    /\ pc[w] = "processing"
    /\ version[SessionOf[claim[w].job]] = NoAttempt
    /\ ~MayCommit(w)
    /\ Fail(w, "transient")
    /\ UNCHANGED rowVars

\* The ready-Version transaction.  It may commit and the Worker still see an
\* error: staging cleanup fails, or the acknowledgement is lost.
CommitReadyVersion(w) ==
    /\ pc[w] = "processing"
    /\ MayCommit(w)
    /\ FinishReadyStates(claim[w].job)
    /\ \/ ReturnToIdle(w)
       \/ Fail(w, "transient")

\* record_failure.  The store skips the transition when the lease is gone and
\* may itself be unavailable; either way the Worker drops the claim.
RecordFailure(w) ==
    /\ pc[w] = "failing"
    /\ \/ /\ HoldsLease(w, claim[w].job)
          /\ FailAttempt(claim[w].job, failure[w], claim[w].number)
       \/ UNCHANGED rowVars
    /\ ReturnToIdle(w)

Crash(w) ==
    /\ pc[w] # "dead"
    /\ Cardinality({v \in Workers : pc[v] = "dead"}) < MaxCrashes
    /\ Goto(w, "dead")
    /\ UNCHANGED <<rowVars, claim, failure>>

-----------------------------------------------------------------------------
(* The environment: scheduled Reconciliation, and time.                    *)

\* recoverExpiredLeases of Reconciliation recovers a bounded batch.  The dispatcher of the Node
\* runtime does not run this work type: the step may happen and nothing relies on it.
Reconcile ==
    /\ \E expired \in SUBSET ExpiredJobs \ {{}} : RecoverExpiredLeases(expired)
    /\ UNCHANGED workerVars

Elapse(remaining) == [j \in Jobs |-> IF remaining[j] > 0 THEN remaining[j] - 1 ELSE 0]

TimeRuns == \E j \in Jobs : lease[j] > 0 \/ delay[j] > 0

Tick ==
    /\ TimeRuns
    /\ lease' = Elapse(lease)
    /\ delay' = Elapse(delay)
    /\ UNCHANGED <<sessionVars, jobState, leaseOwner, attemptCount,
                   attemptState, workerVars>>

-----------------------------------------------------------------------------
UploadNext ==
    \E s \in Sessions, j \in Jobs :
        \/ CommitAccepted(s, j)
        \/ CommitVersionUpload(s, j)
        \/ \E previous \in Sessions : CommitReplacement(previous, s, j)
        \/ QueueManualRetry(s, j)

ApiNext == UploadNext \/ \E artifact \in Artifacts : DeleteArtifact(artifact)

\* What a live Worker is bound to do next; heartbeats only keep its lease.
WorkerStep(w) ==
    \/ WorkerRecover(w)
    \/ ClaimNext(w)
    \/ ClaimNothing(w)
    \/ ProcessingFails(w)
    \/ CommitAlreadyDone(w)
    \/ CommitLeaseLost(w)
    \/ CommitReadyVersion(w)
    \/ RecordFailure(w)

WorkerNext(w) == WorkerStep(w) \/ Heartbeat(w) \/ Crash(w)

WorkersNext == \E w \in Workers : WorkerNext(w)

Next ==
    \/ ApiNext
    \/ WorkersNext
    \/ Reconcile
    \/ Tick

Spec == Init /\ [][Next]_vars

\* Workers poll for ever, a call they make ends, and time passes; nothing
\* obliges the Owner, Reconciliation, a heartbeat or a crash to happen.
Fairness == WF_vars(Tick) /\ \A w \in Workers : WF_vars(WorkerStep(w))

FairSpec == Spec /\ Fairness
-----------------------------------------------------------------------------
(* Properties.                                                             *)

ActiveJob(j) == jobState[j] \in {"queued", "running"}

\* The running attempt rows are exactly the current attempts of running jobs.
\* recover_expired_leases, fail and the commit each update the two tables in
\* one transaction and abort when finish_attempt finds no running row; a
\* stranded row would block every later recovery of that job.
RunningAttemptIsCurrent ==
    \A a \in Attempts :
        attemptState[a] = "running" <=> /\ jobState[a.job] = "running"
                                        /\ a = CurrentAttempt(a.job)

\* An Upload is accepted or processing exactly while one job works for it, and
\* that job can get on: a queued one can still be claimed, and a running one
\* finds the session in the state its commit demands.  queueManualRetry, fail
\* and the recovery by Workers and Reconciliation each write both rows.
OpenUploadHasOneJob ==
    /\ \A s \in Sessions :
         Open(s) <=> \E j \in Jobs : SessionOf[j] = s /\ ActiveJob(j)
    /\ \A j, k \in Jobs :
         ActiveJob(j) /\ ActiveJob(k) /\ SessionOf[j] = SessionOf[k] => j = k
    /\ \A j \in Jobs :
         /\ jobState[j] = "queued" => attemptCount[j] < MaxAttempts
         /\ jobState[j] = "running" => sessionState[SessionOf[j]] = "processing"

\* One attempt in all of an Upload's jobs succeeds, it is the one whose Version
\* is kept, and the Upload is committed exactly then: neither a retry that
\* overtakes a slow Worker nor a commit reported as an error makes a second.
OneAttemptCommits ==
    /\ \A s \in Sessions : sessionState[s] = "committed" <=> version[s] # NoAttempt
    /\ \A a \in Attempts :
         attemptState[a] = "succeeded" <=> version[SessionOf[a.job]] = a
    /\ \A s \in Sessions : version[s] # NoAttempt =>
         SessionOf[version[s].job] = s /\ jobState[version[s].job] = "completed"

\* No two Workers ever hold the same attempt, dead ones included: staging and
\* Content bundle prefixes are named by the attempt and rely on it.
ClaimsAreDistinct ==
    \A v, w \in Workers : claim[v] = claim[w] /\ claim[v] # NoAttempt => v = w

\* A running attempt ends only by recovery of its expired lease or by the
\* Worker that holds that very attempt under a live lease.  fail matches the
\* row by job and worker id alone, so nothing in it compares the attempt.
AttemptEndsFenced ==
    \A a \in Attempts :
        attemptState[a] = "running" /\ attemptState'[a] # "running" =>
           \/ lease[a.job] = 0 /\ attemptState'[a] = "failed"
           \/ /\ lease[a.job] > 0
              /\ \E w \in Workers : /\ claim[w] = a
                                    /\ leaseOwner[a.job] = w
                                    /\ pc'[w] # pc[w]

FencedAttempts == [][AttemptEndsFenced]_vars

-----------------------------------------------------------------------------
(* What makes the invariants above inductive.                              *)

\* A lease belongs to a running job, and attempts are numbered without gaps.
LeaseRows ==
    \A j \in Jobs :
        /\ jobState[j] = "running" => leaseOwner[j] # NoWorker /\ attemptCount[j] > 0
        /\ lease[j] > 0 => jobState[j] = "running"
        /\ jobState[j] = "absent" => attemptCount[j] = 0

StartedAttempts ==
    \A a \in Attempts : attemptState[a] # "absent" <=> a.number <= attemptCount[a.job]

SessionFlags ==
    \A s \in Sessions :
        /\ retryable[s] => sessionState[s] = "failed"
        /\ superseded[s] => sessionState[s] = "failed" /\ ~retryable[s]

\* A Worker's claim was granted, and is current as long as it owns the lease.
WorkerClaims ==
    \A w \in Workers :
        /\ pc[w] \in {"idle", "recovered"} => claim[w] = NoAttempt
        /\ pc[w] \in {"processing", "failing"} => claim[w] # NoAttempt
        /\ pc[w] = "failing" => failure[w] # "none"
        /\ claim[w] # NoAttempt =>
             /\ attemptState[claim[w]] # "absent"
             /\ leaseOwner[claim[w].job] = w => claim[w] = CurrentAttempt(claim[w].job)

IInv ==
    /\ TypeOK
    /\ RunningAttemptIsCurrent
    /\ OpenUploadHasOneJob
    /\ OneAttemptCommits
    /\ ClaimsAreDistinct
    /\ LeaseRows
    /\ StartedAttempts
    /\ SessionFlags
    /\ WorkerClaims
=============================================================================
