-------------------------- MODULE ProcessingProofs --------------------------
(***************************************************************************)
(* Proofs about ProcessingJob and about ContentBundle, which extends it,   *)
(* for any number of Uploads, jobs, Workers and contents and any attempt   *)
(* limits.                                                                 *)
(*                                                                         *)
(* The jobs: IInv is preserved by each transaction; the type invariant,    *)
(* the safety invariants, the fencing of attempts and the refinement of    *)
(* UploadLifecycle follow from it.  The bundles: every step on bundles is  *)
(* a step of ProcessingJob or leaves its rows alone, so the theorems about *)
(* jobs hold with bundles too; BundleIInv adds what the Workers' phases,   *)
(* the aliases and the stored objects need.                                *)
(***************************************************************************)
EXTENDS ContentBundle, ProcessingJobRefinement, TLAPS

-----------------------------------------------------------------------------
(* Attempts as records.                                                    *)

\* The fields of an attempt row's key.
LEMMA AttemptFields ==
    \A j, n : Attempt(j, n).job = j /\ Attempt(j, n).number = n
BY DEF Attempt

\* unique (job_id, attempt_number): an attempt row is determined by its key.
LEMMA AttemptIdentity ==
    /\ \A j \in Jobs, n \in 1 .. MaxAttempts : Attempt(j, n) \in Attempts
    /\ \A a \in Attempts : /\ a.job \in Jobs
                           /\ a.number \in 1 .. MaxAttempts
                           /\ a = Attempt(a.job, a.number)
BY DEF Attempt, Attempts

-----------------------------------------------------------------------------
(* The inductive invariant holds initially and is preserved by each action. *)

\* An empty database and idle Workers satisfy the invariant.
LEMMA InitIInv == Init => IInv
<1> SUFFICES ASSUME Init PROVE IInv
  OBVIOUS
<1>1. TypeOK
  BY MaxAttemptsAssumption DEF Init, TypeOK, FailureClasses
<1>2. RunningAttemptIsCurrent
  BY AttemptIdentity DEF Init, RunningAttemptIsCurrent
<1>3. OpenUploadHasOneJob
  BY DEF Init, OpenUploadHasOneJob, Open, ActiveJob
<1>4. OneAttemptCommits
  BY AttemptIdentity, SessionOfAssumption, NoAttemptAssumption
     DEF Init, OneAttemptCommits
<1>5. ClaimsAreDistinct /\ LeaseRows /\ SessionFlags /\ WorkerClaims
  BY DEF Init, ClaimsAreDistinct, LeaseRows, SessionFlags, WorkerClaims
<1>6. StartedAttempts
  BY AttemptIdentity DEF Init, StartedAttempts
<1>7. QED
  BY <1>1, <1>2, <1>3, <1>4, <1>5, <1>6 DEF IInv

\* What every API transaction that opens an Upload does to the rows: the
\* session is accepted and a fresh job is queued for it.
LEMMA OpenUpload ==
    ASSUME IInv,
           NEW s \in Sessions, NEW j \in Jobs,
           sessionState[s] \in {"absent", "failed"},
           InsertQueuedJob(s, j),
           sessionState' = [sessionState EXCEPT ![s] = "accepted"],
           retryable' = [retryable EXCEPT ![s] = FALSE],
           superseded' \in [Sessions -> BOOLEAN],
           \A t \in Sessions : superseded'[t] =>
              t # s /\ sessionState[t] = "failed" /\ ~retryable[t],
           UNCHANGED <<version, workerVars>>
    PROVE  IInv'
<1> USE DEF IInv, InsertQueuedJob, workerVars
<1>1. TypeOK'
  BY DEF TypeOK
<1>2. RunningAttemptIsCurrent'
  BY AttemptIdentity DEF TypeOK, RunningAttemptIsCurrent, CurrentAttempt
<1>3. OpenUploadHasOneJob'
  <2>1. \A k \in Jobs : SessionOf[k] = s => ~ActiveJob(k)
    BY DEF OpenUploadHasOneJob, Open
  <2>2. \A k \in Jobs : /\ k # j => (ActiveJob(k)' <=> ActiveJob(k))
                        /\ k = j => ActiveJob(k)'
    BY DEF TypeOK, ActiveJob
  <2>3. attemptCount[j] < MaxAttempts
    BY MaxAttemptsAssumption DEF LeaseRows
  <2>4. \A t \in Sessions : Open(t)' <=> t = s \/ Open(t)
    BY DEF TypeOK, Open
  <2>5. \A t \in Sessions :
          Open(t)' <=> \E k \in Jobs : SessionOf[k] = t /\ ActiveJob(k)'
    BY <2>2, <2>4 DEF OpenUploadHasOneJob
  <2>6. \A k, l \in Jobs :
          ActiveJob(k)' /\ ActiveJob(l)' /\ SessionOf[k] = SessionOf[l] => k = l
    BY <2>1, <2>2 DEF OpenUploadHasOneJob
  <2>7. \A k \in Jobs :
          /\ jobState'[k] = "queued" => attemptCount'[k] < MaxAttempts
          /\ jobState'[k] = "running" => sessionState'[SessionOf[k]] = "processing"
    BY <2>1, <2>3 DEF TypeOK, OpenUploadHasOneJob, ActiveJob
  <2>8. QED
    BY <2>5, <2>6, <2>7 DEF OpenUploadHasOneJob
<1>4. OneAttemptCommits'
  BY AttemptIdentity, NoAttemptAssumption DEF TypeOK, OneAttemptCommits
<1>5. /\ LeaseRows' /\ StartedAttempts' /\ SessionFlags'
      /\ ClaimsAreDistinct' /\ WorkerClaims'
  BY MaxAttemptsAssumption
     DEF TypeOK, LeaseRows, StartedAttempts, SessionFlags, ClaimsAreDistinct,
         WorkerClaims, CurrentAttempt
<1>6. QED
  BY <1>1, <1>2, <1>3, <1>4, <1>5

\* The API: a first Upload, a further Version, a replacement, a manual retry.
LEMMA ApiUploadInv ==
    ASSUME IInv, NEW s \in Sessions, NEW j \in Jobs,
           \/ CommitAccepted(s, j)
           \/ CommitVersionUpload(s, j)
           \/ \E previous \in Sessions : CommitReplacement(previous, s, j)
           \/ QueueManualRetry(s, j)
    PROVE  IInv'
<1> USE DEF IInv
<1>1. ASSUME InsertSession(s, j), UNCHANGED superseded
      PROVE  IInv'
  <2>1. retryable' = [retryable EXCEPT ![s] = FALSE]
    BY <1>1 DEF InsertSession, TypeOK, SessionFlags
  <2>2. superseded' \in [Sessions -> BOOLEAN]
    BY <1>1 DEF TypeOK
  <2>3. \A t \in Sessions : superseded'[t] =>
          t # s /\ sessionState[t] = "failed" /\ ~retryable[t]
    BY <1>1 DEF InsertSession, SessionFlags
  <2>4. QED
    BY <1>1, <2>1, <2>2, <2>3, OpenUpload DEF InsertSession
<1>2. ASSUME NEW previous \in Sessions, CommitReplacement(previous, s, j)
      PROVE  IInv'
  <2>1. retryable' = [retryable EXCEPT ![s] = FALSE]
    BY <1>2 DEF CommitReplacement, InsertSession, TypeOK, SessionFlags
  <2>2. superseded' \in [Sessions -> BOOLEAN]
    BY <1>2 DEF CommitReplacement, TypeOK
  <2>3. \A t \in Sessions : superseded'[t] =>
          t # s /\ sessionState[t] = "failed" /\ ~retryable[t]
    BY <1>2 DEF CommitReplacement, InsertSession, TypeOK, SessionFlags
  <2>4. QED
    BY <1>2, <2>1, <2>2, <2>3, OpenUpload DEF CommitReplacement, InsertSession
<1>3. ASSUME QueueManualRetry(s, j)
      PROVE  IInv'
  <2>1. superseded' \in [Sessions -> BOOLEAN]
    BY <1>3 DEF QueueManualRetry, TypeOK
  <2>2. \A t \in Sessions : superseded'[t] =>
          t # s /\ sessionState[t] = "failed" /\ ~retryable[t]
    BY <1>3 DEF QueueManualRetry, SessionFlags
  <2>3. QED
    BY <1>3, <2>1, <2>2, OpenUpload DEF QueueManualRetry
<1>4. QED
  BY <1>1, <1>2, <1>3 DEF CommitAccepted, CommitVersionUpload

\* deleteOwned: rows disappear only for an Artifact without an open Upload.
LEMMA DeleteArtifactInv ==
    ASSUME IInv, NEW artifact \in Artifacts, DeleteArtifact(artifact)
    PROVE  IInv'
<1> USE DEF IInv, DeleteArtifact, workerVars
<1> DEFINE gone(s) == ArtifactOf[s] = artifact /\ sessionState[s] # "absent"
<1>1. \A s \in Sessions : gone(s) => ~Open(s)
  BY DEF SessionsOf
<1>2. \A j \in Jobs : gone(SessionOf[j]) => ~ActiveJob(j)
  BY <1>1, SessionOfAssumption DEF OpenUploadHasOneJob
<1>3. TypeOK'
  BY DEF TypeOK
<1>4. RunningAttemptIsCurrent'
  BY <1>2, AttemptIdentity DEF TypeOK, RunningAttemptIsCurrent, CurrentAttempt, ActiveJob
<1>5. OpenUploadHasOneJob'
  <2>1. \A s \in Sessions : Open(s)' <=> Open(s)
    BY <1>1 DEF TypeOK, Open
  <2>2. \A j \in Jobs : ActiveJob(j)' <=> ActiveJob(j)
    <3>1. \A j \in Jobs :
             \/ gone(SessionOf[j]) /\ jobState'[j] \in {"absent", "deleted"}
             \/ jobState'[j] = jobState[j]
      OBVIOUS
    <3>2. QED
      BY <1>2, <3>1 DEF ActiveJob
  <2>3. \A j \in Jobs : ActiveJob(j)' =>
          jobState'[j] = jobState[j] /\ sessionState'[SessionOf[j]] = sessionState[SessionOf[j]]
    BY <1>2, SessionOfAssumption DEF ActiveJob
  <2>4. QED
    BY <2>1, <2>2, <2>3 DEF OpenUploadHasOneJob, ActiveJob
<1>6. OneAttemptCommits'
  <2>1. \A s \in Sessions :
          /\ gone(s) => version'[s] = NoAttempt /\ sessionState'[s] = "deleted"
          /\ ~gone(s) => version'[s] = version[s] /\ sessionState'[s] = sessionState[s]
    OBVIOUS
  <2>2. \A a \in Attempts :
          /\ gone(SessionOf[a.job]) => attemptState'[a] \in {"absent", "deleted"}
          /\ ~gone(SessionOf[a.job]) => attemptState'[a] = attemptState[a]
    OBVIOUS
  <2>3. \A s \in Sessions : version[s] # NoAttempt /\ ~gone(s) =>
          jobState'[version[s].job] = jobState[version[s].job]
    BY AttemptIdentity DEF TypeOK, OneAttemptCommits
  <2> HIDE DEF DeleteArtifact, gone
  <2>4. \A s \in Sessions : sessionState'[s] = "committed" <=> version'[s] # NoAttempt
    BY <2>1 DEF OneAttemptCommits
  <2>5. \A a \in Attempts :
          attemptState'[a] = "succeeded" <=> version'[SessionOf[a.job]] = a
    BY <2>1, <2>2, AttemptIdentity, SessionOfAssumption, NoAttemptAssumption
       DEF OneAttemptCommits
  <2>6. \A s \in Sessions : version'[s] # NoAttempt =>
          SessionOf[version'[s].job] = s /\ jobState'[version'[s].job] = "completed"
    BY <2>1, <2>3 DEF OneAttemptCommits
  <2>7. QED
    BY <2>4, <2>5, <2>6 DEF OneAttemptCommits
<1>7. /\ LeaseRows' /\ StartedAttempts' /\ SessionFlags'
      /\ ClaimsAreDistinct' /\ WorkerClaims'
  BY <1>2, AttemptIdentity
     DEF TypeOK, LeaseRows, StartedAttempts, SessionFlags, ClaimsAreDistinct,
         WorkerClaims, CurrentAttempt, ActiveJob
<1>8. QED
  BY <1>3, <1>4, <1>5, <1>6, <1>7

\* What a Worker that drops or keeps its claim leaves true of every Worker,
\* provided leases are only taken away and no attempt row disappears.
LEMMA WorkerMemory ==
    ASSUME IInv, NEW w \in Workers,
           \/ ReturnToIdle(w)
           \/ pc[w] = "processing" /\ \E class \in FailureClasses : Fail(w, class)
           \/ pc[w] = "recovered" /\ Goto(w, "idle") /\ UNCHANGED <<claim, failure>>
           \/ pc[w] = "idle" /\ Goto(w, "recovered") /\ UNCHANGED <<claim, failure>>
           \/ Goto(w, "dead") /\ UNCHANGED <<claim, failure>>,
           \A j \in Jobs : leaseOwner'[j] \in {leaseOwner[j], NoWorker},
           UNCHANGED attemptCount,
           \A a \in Attempts : attemptState'[a] = "absent" => attemptState[a] = "absent"
    PROVE  /\ pc' \in [Workers -> {"idle", "recovered", "processing", "failing", "dead"}]
           /\ claim' \in [Workers -> Attempts \union {NoAttempt}]
           /\ failure' \in [Workers -> FailureClasses \union {"none"}]
           /\ ClaimsAreDistinct'
           /\ WorkerClaims'
<1> USE DEF IInv, ReturnToIdle, Fail, Goto, workerVars
<1>1. /\ pc' \in [Workers -> {"idle", "recovered", "processing", "failing", "dead"}]
      /\ claim' \in [Workers -> Attempts \union {NoAttempt}]
      /\ failure' \in [Workers -> FailureClasses \union {"none"}]
  BY DEF TypeOK
<1>2. \A v \in Workers : claim'[v] \in {claim[v], NoAttempt}
  BY DEF TypeOK
<1>3. ClaimsAreDistinct'
  BY <1>2 DEF ClaimsAreDistinct
<1>4. WorkerClaims'
  <2>1. \A v \in Workers :
          /\ pc'[v] \in {"idle", "recovered"} => claim'[v] = NoAttempt
          /\ pc'[v] \in {"processing", "failing"} => claim'[v] # NoAttempt
          /\ pc'[v] = "failing" => failure'[v] # "none"
    <3>1. \A v \in Workers \ {w} :
            pc'[v] = pc[v] /\ claim'[v] = claim[v] /\ failure'[v] = failure[v]
      BY DEF TypeOK
    <3>2. /\ pc'[w] \in {"idle", "recovered"} => claim'[w] = NoAttempt
          /\ pc'[w] \in {"processing", "failing"} => claim'[w] # NoAttempt
          /\ pc'[w] = "failing" => failure'[w] # "none"
      BY DEF TypeOK, WorkerClaims, FailureClasses
    <3>3. QED
      BY <3>1, <3>2 DEF WorkerClaims
  <2>2. \A v \in Workers : claim'[v] # NoAttempt =>
          /\ attemptState'[claim'[v]] # "absent"
          /\ leaseOwner'[claim'[v].job] = v =>
                claim'[v] = Attempt(claim'[v].job, attemptCount'[claim'[v].job])
    <3>1. ASSUME NEW v \in Workers, claim'[v] # NoAttempt
          PROVE  /\ claim'[v] = claim[v] /\ claim[v] \in Attempts
                 /\ claim[v].job \in Jobs
      BY <1>2, <3>1, AttemptIdentity DEF TypeOK
    <3>2. QED
      BY <3>1, NoWorkerAssumption DEF WorkerClaims, CurrentAttempt
  <2>3. QED
    BY <2>1, <2>2 DEF WorkerClaims, CurrentAttempt
<1>5. QED
  BY <1>1, <1>3, <1>4

\* Steps that write no row: processing that fails, a commit that is refused or
\* already done, nothing to claim, a crash.
LEMMA MemoryStepInv ==
    ASSUME IInv, NEW w \in Workers,
           \/ ClaimNothing(w)
           \/ ProcessingFails(w)
           \/ CommitAlreadyDone(w)
           \/ CommitLeaseLost(w)
           \/ Crash(w)
    PROVE  IInv'
<1>1. UNCHANGED rowVars
  BY DEF ClaimNothing, ProcessingFails, CommitAlreadyDone, CommitLeaseLost, Crash
<1>2. /\ \A j \in Jobs : leaseOwner'[j] \in {leaseOwner[j], NoWorker}
      /\ UNCHANGED attemptCount
      /\ \A a \in Attempts : attemptState'[a] = "absent" => attemptState[a] = "absent"
  BY <1>1 DEF rowVars, jobVars
<1>3. \/ ReturnToIdle(w)
      \/ pc[w] = "processing" /\ \E class \in FailureClasses : Fail(w, class)
      \/ pc[w] = "recovered" /\ Goto(w, "idle") /\ UNCHANGED <<claim, failure>>
      \/ Goto(w, "dead") /\ UNCHANGED <<claim, failure>>
  BY DEF ClaimNothing, ProcessingFails, CommitAlreadyDone, CommitLeaseLost, Crash,
         FailureClasses
<1>4. TypeOK' /\ ClaimsAreDistinct' /\ WorkerClaims'
  BY <1>1, <1>2, <1>3, WorkerMemory
     DEF IInv, TypeOK, rowVars, sessionVars, jobVars
<1>5. /\ RunningAttemptIsCurrent' /\ OpenUploadHasOneJob' /\ OneAttemptCommits'
      /\ LeaseRows' /\ StartedAttempts' /\ SessionFlags'
  BY <1>1 DEF IInv, RunningAttemptIsCurrent, OpenUploadHasOneJob, OneAttemptCommits,
              LeaseRows, StartedAttempts, SessionFlags, Open, ActiveJob,
              CurrentAttempt, rowVars, sessionVars, jobVars
<1>6. QED
  BY <1>4, <1>5 DEF IInv

\* Heartbeats and time only change leases and delays.
LEMMA ClockInv ==
    ASSUME IInv, Tick \/ \E w \in Workers : Heartbeat(w)
    PROVE  IInv'
<1> USE DEF IInv, workerVars, sessionVars
<1>1. UNCHANGED <<sessionVars, jobState, leaseOwner, attemptCount, attemptState, workerVars>>
  BY DEF Tick, Heartbeat
<1>2. /\ lease' \in [Jobs -> Nat]
      /\ delay' \in [Jobs -> Nat]
      /\ \A j \in Jobs : lease'[j] > 0 => jobState[j] = "running"
  <2>1. CASE Tick
    BY <2>1 DEF Tick, Elapse, TypeOK, LeaseRows
  <2>2. ASSUME NEW w \in Workers, Heartbeat(w)
        PROVE  /\ lease' \in [Jobs -> Nat]
               /\ delay' = delay
               /\ \A j \in Jobs : lease'[j] > 0 => jobState[j] = "running"
    BY <2>2, LeaseAssumption DEF Heartbeat, HoldsLease, TypeOK, LeaseRows
  <2>3. QED
    BY <2>1, <2>2 DEF TypeOK
<1>3. TypeOK' /\ LeaseRows'
  BY <1>1, <1>2 DEF TypeOK, LeaseRows
<1>4. /\ RunningAttemptIsCurrent' /\ OpenUploadHasOneJob' /\ OneAttemptCommits'
      /\ ClaimsAreDistinct' /\ StartedAttempts' /\ SessionFlags' /\ WorkerClaims'
  BY <1>1 DEF RunningAttemptIsCurrent, OpenUploadHasOneJob, OneAttemptCommits,
              ClaimsAreDistinct, StartedAttempts, SessionFlags, WorkerClaims,
              Open, ActiveJob, CurrentAttempt
<1>5. QED
  BY <1>3, <1>4

\* recover_expired_leases, by a Worker before it claims or by Reconciliation.
LEMMA RecoverInv ==
    ASSUME IInv, NEW expired \in SUBSET ExpiredJobs, RecoverExpiredLeases(expired),
           \/ UNCHANGED workerVars
           \/ \E w \in Workers : /\ pc[w] = "idle"
                               /\ Goto(w, "recovered")
                               /\ UNCHANGED <<claim, failure>>
    PROVE  IInv'
<1> USE DEF IInv
<1> DEFINE requeued  == {j \in expired : attemptCount[j] < MaxAttempts}
           exhausted == expired \ requeued
           failed    == {SessionOf[j] : j \in exhausted}
<1>1. /\ attemptState' = [a \in Attempts |->
           IF a.job \in expired /\ a = CurrentAttempt(a.job) THEN "failed" ELSE attemptState[a]]
      /\ jobState' = [j \in Jobs |->
           IF j \in requeued THEN "queued"
           ELSE IF j \in exhausted THEN "failed" ELSE jobState[j]]
      /\ leaseOwner' = [j \in Jobs |-> IF j \in expired THEN NoWorker ELSE leaseOwner[j]]
      /\ delay' = [j \in Jobs |-> IF j \in requeued THEN 0 ELSE delay[j]]
      /\ sessionState' = [s \in Sessions |-> IF s \in failed THEN "failed" ELSE sessionState[s]]
      /\ retryable' = [s \in Sessions |-> s \in failed \/ retryable[s]]
      /\ UNCHANGED <<superseded, version, lease, attemptCount>>
  BY DEF RecoverExpiredLeases, Requeued
<1>2. \A j \in expired : j \in Jobs /\ jobState[j] = "running" /\ lease[j] = 0
  BY DEF ExpiredJobs
<1>3. \A j \in Jobs : /\ SessionOf[j] \in Sessions
                      /\ SessionOf[j] \in failed => sessionState[SessionOf[j]] = "processing"
  BY <1>2, SessionOfAssumption DEF OpenUploadHasOneJob
<1>4. \A j \in Jobs : ActiveJob(j) /\ SessionOf[j] \in failed => j \in exhausted
  BY <1>2 DEF OpenUploadHasOneJob, ActiveJob
<1>5. \A s \in failed : s \in Sessions /\ sessionState[s] = "processing"
  BY <1>2, SessionOfAssumption DEF OpenUploadHasOneJob
<1>6. \A j \in Jobs : \/ j \in requeued /\ jobState'[j] = "queued"
                      \/ j \in exhausted /\ jobState'[j] = "failed"
                      \/ j \notin expired /\ jobState'[j] = jobState[j]
  BY <1>1
<1>7. /\ \A j \in Jobs : leaseOwner'[j] \in {leaseOwner[j], NoWorker}
      /\ UNCHANGED attemptCount
      /\ \A a \in Attempts : attemptState'[a] = "absent" => attemptState[a] = "absent"
  BY <1>1
<1>8. TypeOK' /\ ClaimsAreDistinct' /\ WorkerClaims'
  <2>1. CASE UNCHANGED workerVars
    <3>1. TypeOK' /\ ClaimsAreDistinct'
      BY <1>1, <2>1 DEF TypeOK, ClaimsAreDistinct, workerVars
    <3>2. WorkerClaims'
      BY <1>7, <2>1, AttemptIdentity, NoWorkerAssumption
         DEF TypeOK, WorkerClaims, CurrentAttempt, workerVars
    <3>3. QED
      BY <3>1, <3>2
  <2>2. ASSUME NEW w \in Workers,
               pc[w] = "idle", Goto(w, "recovered"), UNCHANGED <<claim, failure>>
        PROVE  TypeOK' /\ ClaimsAreDistinct' /\ WorkerClaims'
    BY <1>1, <1>7, <2>2, WorkerMemory DEF TypeOK
  <2>3. QED
    BY <2>1, <2>2
<1>9. RunningAttemptIsCurrent'
  BY <1>1, <1>2, AttemptIdentity DEF TypeOK, RunningAttemptIsCurrent, CurrentAttempt
<1>10. OpenUploadHasOneJob'
  <2>1. \A s \in Sessions : Open(s)' <=> Open(s) /\ s \notin failed
    BY <1>1, <1>5 DEF Open
  <2>2. \A j \in Jobs : ActiveJob(j)' <=> ActiveJob(j) /\ j \notin exhausted
    BY <1>2, <1>6 DEF ActiveJob
  <2>3. \A j \in Jobs :
          /\ jobState'[j] = "queued" => attemptCount'[j] < MaxAttempts
          /\ jobState'[j] = "running" => sessionState'[SessionOf[j]] = "processing"
    BY <1>1, <1>2, <1>3, <1>4, <1>6 DEF OpenUploadHasOneJob, ActiveJob
  <2>4. QED
    BY <1>4, <2>1, <2>2, <2>3 DEF OpenUploadHasOneJob
<1>11. OneAttemptCommits'
  <2>1. \A s \in Sessions : sessionState'[s] = "committed" <=> sessionState[s] = "committed"
    BY <1>1, <1>5
  <2>2. \A a \in Attempts : attemptState'[a] = "succeeded" <=> attemptState[a] = "succeeded"
    BY <1>1, <1>2 DEF RunningAttemptIsCurrent
  <2>3. \A j \in Jobs : jobState[j] = "completed" => jobState'[j] = "completed"
    BY <1>2, <1>6
  <2>4. \A s \in Sessions : version[s] # NoAttempt => version[s].job \in Jobs
    BY AttemptIdentity DEF TypeOK
  <2>5. QED
    BY <1>1, <2>1, <2>2, <2>3, <2>4 DEF OneAttemptCommits
<1>12. LeaseRows' /\ StartedAttempts'
  BY <1>1, <1>2, <1>6, <1>7, AttemptIdentity
     DEF TypeOK, LeaseRows, StartedAttempts, RunningAttemptIsCurrent
<1>13. SessionFlags'
  BY <1>1, <1>5 DEF TypeOK, SessionFlags
<1>14. QED
  BY <1>8, <1>9, <1>10, <1>11, <1>12, <1>13

\* claim_next: the leased job starts a new attempt in the Worker's hands.
LEMMA ClaimNextInv ==
    ASSUME IInv, NEW w \in Workers, ClaimNext(w)
    PROVE  IInv'
<1> USE DEF IInv
<1>1. PICK j \in Jobs : GrantLease(w, j)
  BY DEF ClaimNext
<1> DEFINE attempt == Attempt(j, attemptCount[j] + 1)
<1>2. /\ jobState[j] = "queued"
      /\ attemptCount[j] < MaxAttempts
      /\ attemptState' = [attemptState EXCEPT ![attempt] = "running"]
      /\ claim' = [claim EXCEPT ![w] = attempt]
      /\ jobState' = [jobState EXCEPT ![j] = "running"]
      /\ leaseOwner' = [leaseOwner EXCEPT ![j] = w]
      /\ lease' = [lease EXCEPT ![j] = LeaseDuration]
      /\ attemptCount' = [attemptCount EXCEPT ![j] = attemptCount[j] + 1]
      /\ sessionState' = [sessionState EXCEPT ![SessionOf[j]] =
           IF sessionState[SessionOf[j]] = "accepted" THEN "processing"
           ELSE sessionState[SessionOf[j]]]
      /\ UNCHANGED <<retryable, superseded, version, delay>>
  BY <1>1 DEF GrantLease, NextAttempt
<1>3. pc[w] = "recovered" /\ pc' = [pc EXCEPT ![w] = "processing"] /\ UNCHANGED failure
  BY DEF ClaimNext, Goto
<1>4. attempt \in Attempts /\ attempt.job = j /\ attempt.number = attemptCount[j] + 1
  BY <1>2, MaxAttemptsAssumption, AttemptFields, AttemptIdentity DEF TypeOK
<1>5. attemptState[attempt] = "absent"
  BY <1>4 DEF StartedAttempts, TypeOK
<1>6. SessionOf[j] \in Sessions /\ Open(SessionOf[j]) /\ ActiveJob(j)
  BY <1>2, SessionOfAssumption DEF OpenUploadHasOneJob, ActiveJob
<1> HIDE DEF attempt
<1>7. TypeOK'
  <2>1. attemptCount' \in [Jobs -> 0 .. MaxAttempts]
    BY <1>2, MaxAttemptsAssumption DEF TypeOK
  <2>2. QED
    BY <1>2, <1>3, <1>4, <1>6, <2>1, LeaseAssumption DEF TypeOK, Open
<1>8. RunningAttemptIsCurrent'
  <2>1. ASSUME NEW a \in Attempts, a.job = j
        PROVE  attemptState'[a] = "running" <=> a = attempt
    BY <1>2, <1>4, <2>1 DEF TypeOK, RunningAttemptIsCurrent
  <2>2. attempt = Attempt(j, attemptCount'[j])
    BY <1>2 DEF TypeOK, attempt
  <2>3. ASSUME NEW a \in Attempts, a.job # j
        PROVE  attemptState'[a] = attemptState[a] /\ jobState'[a.job] = jobState[a.job]
               /\ attemptCount'[a.job] = attemptCount[a.job]
    BY <1>2, <1>4, <2>3, AttemptIdentity DEF TypeOK
  <2>4. jobState'[j] = "running"
    BY <1>2 DEF TypeOK
  <2>5. QED
    BY <2>1, <2>2, <2>3, <2>4 DEF RunningAttemptIsCurrent, CurrentAttempt
<1>9. OpenUploadHasOneJob'
  <2>1. \A s \in Sessions : Open(s)' <=> Open(s)
    BY <1>2, <1>6 DEF TypeOK, Open
  <2>2. \A k \in Jobs : ActiveJob(k)' <=> ActiveJob(k)
    BY <1>2 DEF TypeOK, ActiveJob
  <2>3. sessionState'[SessionOf[j]] = "processing"
    BY <1>2, <1>6 DEF TypeOK, Open
  <2>4. \A k \in Jobs : k # j => jobState'[k] = jobState[k] /\ attemptCount'[k] = attemptCount[k]
    BY <1>2 DEF TypeOK
  <2>5. \A s \in Sessions : sessionState[s] = "processing" => sessionState'[s] = "processing"
    BY <1>2, <2>3 DEF TypeOK
  <2>6. \A k \in Jobs :
          /\ jobState'[k] = "queued" => attemptCount'[k] < MaxAttempts
          /\ jobState'[k] = "running" => sessionState'[SessionOf[k]] = "processing"
    BY <1>2, <2>3, <2>4, <2>5, SessionOfAssumption DEF TypeOK, OpenUploadHasOneJob
  <2>7. QED
    BY <2>1, <2>2, <2>6 DEF OpenUploadHasOneJob
<1>10. OneAttemptCommits'
  <2>1. \A s \in Sessions : sessionState'[s] = "committed" <=> sessionState[s] = "committed"
    BY <1>2, <1>6 DEF TypeOK, Open
  <2>2. \A a \in Attempts : attemptState'[a] = "succeeded" <=> attemptState[a] = "succeeded"
    BY <1>2, <1>5 DEF TypeOK
  <2>3. \A k \in Jobs : jobState[k] = "completed" => jobState'[k] = "completed"
    BY <1>2 DEF TypeOK
  <2>4. \A s \in Sessions : version[s] # NoAttempt => version[s].job \in Jobs
    BY AttemptIdentity DEF TypeOK
  <2>5. QED
    BY <1>2, <2>1, <2>2, <2>3, <2>4 DEF OneAttemptCommits
<1>11. ClaimsAreDistinct'
  BY <1>2, <1>5 DEF TypeOK, ClaimsAreDistinct, WorkerClaims
<1>12. LeaseRows'
  BY <1>2, NoWorkerAssumption DEF TypeOK, LeaseRows
<1>13. StartedAttempts'
  <2>1. ASSUME NEW a \in Attempts
        PROVE  attemptState'[a] # "absent" <=> a.number <= attemptCount'[a.job]
    <3>1. CASE a = attempt
      BY <1>2, <1>4, <3>1 DEF TypeOK
    <3>2. CASE a # attempt /\ a.job = j
      <4>1. a.number # attemptCount[j] + 1
        BY <3>2, AttemptIdentity DEF attempt
      <4>2. attemptState'[a] = attemptState[a]
        BY <1>2, <3>2 DEF TypeOK
      <4>3. attemptCount'[j] = attemptCount[j] + 1 /\ attemptCount[j] \in Nat
        BY <1>2, MaxAttemptsAssumption DEF TypeOK
      <4>4. a.number <= attemptCount[j] + 1 <=> a.number <= attemptCount[j]
        <5>1. \A m, n \in Nat : m # n + 1 => (m <= n + 1 <=> m <= n)
          OBVIOUS
        <5>2. a.number \in Nat
          BY MaxAttemptsAssumption, AttemptIdentity
        <5>3. QED
          BY <4>1, <4>3, <5>1, <5>2
      <4>5. QED
        BY <3>2, <4>2, <4>3, <4>4 DEF StartedAttempts
    <3>3. CASE a.job # j
      BY <1>2, <1>4, <3>3, AttemptIdentity DEF TypeOK, StartedAttempts
    <3>4. QED
      BY <3>1, <3>2, <3>3
  <2>2. QED
    BY <2>1 DEF StartedAttempts
<1>14. SessionFlags'
  BY <1>2, <1>6 DEF TypeOK, SessionFlags, Open
<1>15. WorkerClaims'
  <2>1. /\ claim'[w] = attempt /\ pc'[w] = "processing"
        /\ attempt = Attempt(j, attemptCount'[j])
        /\ attemptState'[attempt] = "running"
        /\ attempt # NoAttempt
    BY <1>2, <1>3, <1>4, NoAttemptAssumption DEF TypeOK, attempt
  <2>2. ASSUME NEW v \in Workers, v # w
        PROVE  /\ pc'[v] = pc[v] /\ claim'[v] = claim[v] /\ failure'[v] = failure[v]
               /\ claim[v] # NoAttempt => attemptState'[claim[v]] = attemptState[claim[v]]
               /\ leaseOwner'[claim[v].job] = v /\ claim[v] # NoAttempt =>
                     /\ leaseOwner[claim[v].job] = v
                     /\ attemptCount'[claim[v].job] = attemptCount[claim[v].job]
    BY <1>2, <1>3, <1>4, <1>5, <2>2, AttemptIdentity DEF TypeOK, WorkerClaims
  <2>3. QED
    BY <1>4, <2>1, <2>2 DEF WorkerClaims, CurrentAttempt
<1>16. QED
  BY <1>7, <1>8, <1>9, <1>10, <1>11, <1>12, <1>13, <1>14, <1>15

\* The transaction that finishes the ready states: fenced by HoldsLease, it ends
\* the Upload's only active job and its running attempt.
LEMMA CommitReadyVersionInv ==
    ASSUME IInv, NEW w \in Workers, CommitReadyVersion(w)
    PROVE  IInv'
<1> USE DEF IInv
<1> DEFINE j == claim[w].job
           s == SessionOf[j]
           current == CurrentAttempt(j)
<1>1. /\ pc[w] = "processing"
      /\ MayCommit(w)
      /\ FinishReadyStates(j)
      /\ ReturnToIdle(w) \/ Fail(w, "transient")
  BY DEF CommitReadyVersion
<1>2. /\ claim[w] \in Attempts /\ current = claim[w] /\ j \in Jobs /\ s \in Sessions
      /\ jobState[j] = "running"
      /\ version[s] = NoAttempt
      /\ sessionState[s] = "processing"
      /\ attemptState[current] = "running"
  BY <1>1, AttemptIdentity, SessionOfAssumption
     DEF TypeOK, WorkerClaims, MayCommit, HoldsLease, AttemptRuns, FinishReadyStates
<1>3. /\ version' = [version EXCEPT ![s] = current]
      /\ attemptState' = [attemptState EXCEPT ![current] = "succeeded"]
      /\ jobState' = [jobState EXCEPT ![j] = "completed"]
      /\ leaseOwner' = [leaseOwner EXCEPT ![j] = NoWorker]
      /\ lease' = [lease EXCEPT ![j] = 0]
      /\ sessionState' = [sessionState EXCEPT ![s] = "committed"]
      /\ UNCHANGED <<retryable, superseded, delay, attemptCount>>
  BY <1>1 DEF FinishReadyStates
<1>4. current.job = j /\ current = Attempt(j, attemptCount[j])
  BY <1>2, AttemptFields DEF CurrentAttempt
<1> HIDE DEF j, s, current
<1>5. TypeOK' /\ ClaimsAreDistinct' /\ WorkerClaims'
  <2>1. /\ \A k \in Jobs : leaseOwner'[k] \in {leaseOwner[k], NoWorker}
        /\ UNCHANGED attemptCount
        /\ \A a \in Attempts : attemptState'[a] = "absent" => attemptState[a] = "absent"
    BY <1>3 DEF TypeOK
  <2>2. \/ ReturnToIdle(w)
        \/ pc[w] = "processing" /\ \E class \in FailureClasses : Fail(w, class)
    BY <1>1 DEF FailureClasses
  <2>3. QED
    BY <1>2, <1>3, <2>1, <2>2, WorkerMemory DEF TypeOK
<1>6. RunningAttemptIsCurrent'
  BY <1>2, <1>3, <1>4, AttemptIdentity DEF TypeOK, RunningAttemptIsCurrent, CurrentAttempt
<1>7. \A k \in Jobs : ActiveJob(k) /\ SessionOf[k] = s => k = j
  BY <1>2 DEF OpenUploadHasOneJob, ActiveJob, s
<1>8. OpenUploadHasOneJob'
  <2>1. \A t \in Sessions : Open(t)' <=> Open(t) /\ t # s
    BY <1>2, <1>3 DEF TypeOK, Open
  <2>2. \A k \in Jobs : ActiveJob(k)' <=> ActiveJob(k) /\ k # j
    BY <1>2, <1>3 DEF TypeOK, ActiveJob
  <2>3. \A k \in Jobs : ActiveJob(k)' =>
          jobState'[k] = jobState[k] /\ sessionState'[SessionOf[k]] = sessionState[SessionOf[k]]
    BY <1>3, <1>7, <2>2, SessionOfAssumption DEF TypeOK
  <2>4. \A k \in Jobs :
          /\ jobState'[k] = "queued" => attemptCount'[k] < MaxAttempts
          /\ jobState'[k] = "running" => sessionState'[SessionOf[k]] = "processing"
    BY <1>3, <2>3 DEF OpenUploadHasOneJob, ActiveJob
  <2>5. s = SessionOf[j] /\ ActiveJob(j)
    BY <1>2 DEF s, ActiveJob
  <2>6. QED
    BY <1>7, <2>1, <2>2, <2>4, <2>5 DEF OpenUploadHasOneJob
<1>9. OneAttemptCommits'
  <2>1. \A t \in Sessions : sessionState'[t] = "committed" <=> version'[t] # NoAttempt
    BY <1>2, <1>3, NoAttemptAssumption DEF TypeOK, OneAttemptCommits
  <2>2. \A a \in Attempts :
          attemptState'[a] = "succeeded" <=> version'[SessionOf[a.job]] = a
    BY <1>2, <1>3, <1>4, AttemptIdentity, SessionOfAssumption, NoAttemptAssumption
       DEF TypeOK, OneAttemptCommits, s
  <2>3. \A t \in Sessions : version'[t] # NoAttempt =>
          SessionOf[version'[t].job] = t /\ jobState'[version'[t].job] = "completed"
    BY <1>2, <1>3, <1>4, AttemptIdentity DEF TypeOK, OneAttemptCommits, s
  <2>4. QED
    BY <2>1, <2>2, <2>3 DEF OneAttemptCommits
<1>10. LeaseRows'
  BY <1>2, <1>3 DEF TypeOK, LeaseRows
<1>11. StartedAttempts'
  BY <1>2, <1>3 DEF TypeOK, StartedAttempts
<1>12. SessionFlags'
  BY <1>2, <1>3 DEF TypeOK, SessionFlags
<1>13. QED
  BY <1>5, <1>6, <1>8, <1>9, <1>10, <1>11, <1>12

\* What a Worker that records a failure under a live lease knows: its claim is
\* the current, running attempt of an Upload that is being processed.
LEMMA LeaseHolder ==
    ASSUME IInv, NEW w \in Workers, pc[w] = "failing", HoldsLease(w, claim[w].job)
    PROVE  LET j == claim[w].job
           IN  /\ j \in Jobs
               /\ SessionOf[j] \in Sessions
               /\ claim[w] \in Attempts
               /\ claim[w] = CurrentAttempt(j)
               /\ claim[w].number = attemptCount[j]
               /\ jobState[j] = "running"
               /\ sessionState[SessionOf[j]] = "processing"
               /\ failure[w] \in FailureClasses
<1>1. claim[w] \in Attempts /\ claim[w].job \in Jobs /\ failure[w] \in FailureClasses
  BY AttemptIdentity DEF IInv, TypeOK, WorkerClaims
<1>2. claim[w] = CurrentAttempt(claim[w].job)
  BY <1>1, NoAttemptAssumption DEF IInv, WorkerClaims, HoldsLease
<1>3. claim[w].number = attemptCount[claim[w].job]
  BY <1>2, AttemptFields DEF CurrentAttempt
<1>4. QED
  BY <1>1, <1>2, <1>3, SessionOfAssumption DEF IInv, OpenUploadHasOneJob, HoldsLease

\* fail: the attempt ends, and the Upload with it unless a retry is queued.
LEMMA FailAttemptInv ==
    ASSUME IInv, NEW w \in Workers, pc[w] = "failing",
           HoldsLease(w, claim[w].job),
           FailAttempt(claim[w].job, failure[w], claim[w].number),
           ReturnToIdle(w)
    PROVE  IInv'
<1> USE DEF IInv
<1> DEFINE j == claim[w].job
           s == SessionOf[j]
           current == CurrentAttempt(j)
           retry == RetriesAfter(failure[w], claim[w].number) /\ attemptCount[j] < MaxAttempts
<1>1. /\ j \in Jobs /\ s \in Sessions /\ current \in Attempts /\ current.job = j
      /\ current = Attempt(j, attemptCount[j])
      /\ jobState[j] = "running"
      /\ sessionState[s] = "processing"
      /\ retryable[s] = FALSE
  BY LeaseHolder, AttemptFields DEF CurrentAttempt, SessionFlags, TypeOK
<1>2. /\ attemptState[current] = "running"
      /\ attemptState' = [attemptState EXCEPT ![current] = "failed"]
      /\ jobState' = [jobState EXCEPT ![j] = IF retry THEN "queued" ELSE "failed"]
      /\ leaseOwner' = [leaseOwner EXCEPT ![j] = NoWorker]
      /\ lease' = [lease EXCEPT ![j] = 0]
      /\ delay' = [delay EXCEPT ![j] = IF retry THEN RetryDelay[claim[w].number] ELSE delay[j]]
      /\ sessionState' = [sessionState EXCEPT ![s] = IF retry THEN sessionState[s] ELSE "failed"]
      /\ retryable' = [retryable EXCEPT
            ![s] = IF retry THEN retryable[s] ELSE failure[w] # "validation"]
      /\ UNCHANGED <<superseded, version, attemptCount>>
  BY DEF FailAttempt, AttemptRuns
<1>3. retry => RetryDelay[claim[w].number] \in Nat /\ attemptCount[j] < MaxAttempts
  BY RetryDelayAssumption DEF RetriesAfter
<1> HIDE DEF j, s, current, retry
<1>4. TypeOK' /\ ClaimsAreDistinct' /\ WorkerClaims'
  <2>1. /\ \A k \in Jobs : leaseOwner'[k] \in {leaseOwner[k], NoWorker}
        /\ UNCHANGED attemptCount
        /\ \A a \in Attempts : attemptState'[a] = "absent" => attemptState[a] = "absent"
    BY <1>2 DEF TypeOK
  <2>2. delay' \in [Jobs -> Nat]
    BY <1>2, <1>3 DEF TypeOK
  <2>3. QED
    BY <1>1, <1>2, <2>1, <2>2, WorkerMemory DEF TypeOK
<1>5. RunningAttemptIsCurrent'
  BY <1>1, <1>2, AttemptIdentity DEF TypeOK, RunningAttemptIsCurrent, CurrentAttempt
<1>6. /\ \A k \in Jobs : ActiveJob(k) /\ SessionOf[k] = s => k = j
      /\ ActiveJob(j) /\ SessionOf[j] = s
  BY <1>1 DEF OpenUploadHasOneJob, ActiveJob, s
<1>7. OpenUploadHasOneJob'
  <2>1. \A t \in Sessions : Open(t)' <=> Open(t) /\ (t = s => retry)
    BY <1>1, <1>2 DEF TypeOK, Open
  <2>2. \A k \in Jobs : ActiveJob(k)' <=> ActiveJob(k) /\ (k = j => retry)
    BY <1>1, <1>2 DEF TypeOK, ActiveJob
  <2>3. \A k \in Jobs : k # j /\ ActiveJob(k)' =>
          jobState'[k] = jobState[k] /\ sessionState'[SessionOf[k]] = sessionState[SessionOf[k]]
    BY <1>2, <1>6, <2>2, SessionOfAssumption DEF TypeOK
  <2>4. \A k \in Jobs :
          /\ jobState'[k] = "queued" => attemptCount'[k] < MaxAttempts
          /\ jobState'[k] = "running" => sessionState'[SessionOf[k]] = "processing"
    <3>1. jobState'[j] = "queued" => attemptCount'[j] < MaxAttempts
      BY <1>1, <1>2, <1>3 DEF TypeOK
    <3>2. jobState'[j] # "running"
      BY <1>1, <1>2 DEF TypeOK
    <3>3. \A k \in Jobs : k # j =>
            /\ jobState'[k] = "queued" => attemptCount'[k] < MaxAttempts
            /\ jobState'[k] = "running" => sessionState'[SessionOf[k]] = "processing"
      BY <1>2, <2>3 DEF OpenUploadHasOneJob, ActiveJob
    <3>4. QED
      BY <3>1, <3>2, <3>3
  <2>5. QED
    BY <1>6, <2>1, <2>2, <2>4 DEF OpenUploadHasOneJob
<1>8. OneAttemptCommits'
  <2>1. \A t \in Sessions : sessionState'[t] = "committed" <=> sessionState[t] = "committed"
    BY <1>1, <1>2 DEF TypeOK
  <2>2. \A a \in Attempts : attemptState'[a] = "succeeded" <=> attemptState[a] = "succeeded"
    BY <1>2 DEF TypeOK
  <2>3. \A k \in Jobs : jobState[k] = "completed" => jobState'[k] = "completed"
    BY <1>1, <1>2 DEF TypeOK
  <2>4. \A t \in Sessions : version[t] # NoAttempt => version[t].job \in Jobs
    BY AttemptIdentity DEF TypeOK
  <2>5. QED
    BY <1>2, <2>1, <2>2, <2>3, <2>4 DEF OneAttemptCommits
<1>9. LeaseRows' /\ StartedAttempts'
  BY <1>1, <1>2 DEF TypeOK, LeaseRows, StartedAttempts
<1>10. SessionFlags'
  BY <1>1, <1>2 DEF TypeOK, SessionFlags
<1>11. QED
  BY <1>4, <1>5, <1>7, <1>8, <1>9, <1>10

\* record_failure, whether or not the store applied the transition.
LEMMA RecordFailureInv ==
    ASSUME IInv, NEW w \in Workers, RecordFailure(w)
    PROVE  IInv'
<1>1. CASE /\ HoldsLease(w, claim[w].job)
           /\ FailAttempt(claim[w].job, failure[w], claim[w].number)
  BY <1>1, FailAttemptInv DEF RecordFailure
<1>2. CASE UNCHANGED rowVars
  <2>1. /\ \A j \in Jobs : leaseOwner'[j] \in {leaseOwner[j], NoWorker}
        /\ UNCHANGED attemptCount
        /\ \A a \in Attempts : attemptState'[a] = "absent" => attemptState[a] = "absent"
    BY <1>2 DEF rowVars, jobVars
  <2>2. TypeOK' /\ ClaimsAreDistinct' /\ WorkerClaims'
    BY <1>2, <2>1, WorkerMemory
       DEF RecordFailure, IInv, TypeOK, rowVars, sessionVars, jobVars
  <2>3. /\ RunningAttemptIsCurrent' /\ OpenUploadHasOneJob' /\ OneAttemptCommits'
        /\ LeaseRows' /\ StartedAttempts' /\ SessionFlags'
    BY <1>2 DEF IInv, RunningAttemptIsCurrent, OpenUploadHasOneJob, OneAttemptCommits,
                LeaseRows, StartedAttempts, SessionFlags, Open, ActiveJob,
                CurrentAttempt, rowVars, sessionVars, jobVars
  <2>4. QED
    BY <2>2, <2>3 DEF IInv
<1>3. QED
  BY <1>1, <1>2 DEF RecordFailure

\* Every step of the system preserves the invariant.
LEMMA NextInv == IInv /\ [Next]_vars => IInv'
<1> SUFFICES ASSUME IInv, [Next]_vars PROVE IInv'
  OBVIOUS
<1>1. ASSUME ApiNext PROVE IInv'
  BY <1>1, ApiUploadInv, DeleteArtifactInv DEF ApiNext, UploadNext
<1>2. ASSUME NEW w \in Workers, WorkerNext(w) PROVE IInv'
  <2>1. CASE WorkerRecover(w)
    BY <2>1, RecoverInv DEF WorkerRecover
  <2>2. CASE ClaimNext(w)
    BY <2>2, ClaimNextInv
  <2>3. CASE \/ ClaimNothing(w) \/ ProcessingFails(w) \/ CommitAlreadyDone(w)
             \/ CommitLeaseLost(w) \/ Crash(w)
    BY <2>3, MemoryStepInv
  <2>4. CASE CommitReadyVersion(w)
    BY <2>4, CommitReadyVersionInv
  <2>5. CASE RecordFailure(w)
    BY <2>5, RecordFailureInv
  <2>6. CASE Heartbeat(w)
    BY <2>6, ClockInv
  <2>7. QED
    BY <1>2, <2>1, <2>2, <2>3, <2>4, <2>5, <2>6 DEF WorkerNext, WorkerStep
<1>3. CASE Reconcile
  BY <1>3, RecoverInv DEF Reconcile
<1>4. CASE Tick
  BY <1>4, ClockInv
<1>5. CASE UNCHANGED vars
  BY <1>5 DEF IInv, TypeOK, RunningAttemptIsCurrent, OpenUploadHasOneJob, OneAttemptCommits,
              ClaimsAreDistinct, LeaseRows, StartedAttempts, SessionFlags, WorkerClaims,
              Open, ActiveJob, CurrentAttempt, vars, rowVars, sessionVars, jobVars, workerVars
<1>6. QED
  BY <1>1, <1>2, <1>3, <1>4, <1>5 DEF Next, WorkersNext

-----------------------------------------------------------------------------
(* Theorems about jobs.                                                    *)

\* The inductive invariant holds in every reachable state.
THEOREM Invariance == Spec => []IInv
BY InitIInv, NextInv, PTL DEF Spec

\* Every column of the three tables and the Workers' memory keep their types.
THEOREM TypeCorrect == Spec => []TypeOK
<1>1. IInv => TypeOK
  BY DEF IInv
<1>2. QED
  BY <1>1, Invariance, PTL

\* Whatever the number of Workers and retries, the running attempt rows are the
\* current attempts of running jobs.
THEOREM RunningAttemptsAreCurrent == Spec => []RunningAttemptIsCurrent
<1>1. IInv => RunningAttemptIsCurrent
  BY DEF IInv
<1>2. QED
  BY <1>1, Invariance, PTL

\* An open Upload always has exactly one job that can make progress.
THEOREM OpenUploadsHaveOneJob == Spec => []OpenUploadHasOneJob
<1>1. IInv => OpenUploadHasOneJob
  BY DEF IInv
<1>2. QED
  BY <1>1, Invariance, PTL

\* An Upload is committed by one attempt of one of its jobs.
THEOREM CommitsOnce == Spec => []OneAttemptCommits
<1>1. IInv => OneAttemptCommits
  BY DEF IInv
<1>2. QED
  BY <1>1, Invariance, PTL

\* No two Workers process the same attempt.
THEOREM DistinctClaims == Spec => []ClaimsAreDistinct
<1>1. IInv => ClaimsAreDistinct
  BY DEF IInv
<1>2. QED
  BY <1>1, Invariance, PTL

\* recover_expired_leases ends the attempts of expired leases only.
LEMMA RecoveryIsFenced ==
    ASSUME IInv, NEW expired \in SUBSET ExpiredJobs, RecoverExpiredLeases(expired)
    PROVE  AttemptEndsFenced
BY AttemptIdentity DEF IInv, TypeOK, ExpiredJobs, RecoverExpiredLeases, Requeued, AttemptEndsFenced

\* A Worker ends no other attempt than its own, under its lease.
LEMMA OwnerIsFenced ==
    ASSUME IInv, NEW w \in Workers, CommitReadyVersion(w) \/ RecordFailure(w)
    PROVE  AttemptEndsFenced
<1> DEFINE j == claim[w].job
<1>1. CASE UNCHANGED rowVars
  BY <1>1 DEF AttemptEndsFenced, rowVars, jobVars
<1>2. CASE ~UNCHANGED rowVars
  <2>1. /\ HoldsLease(w, j)
        /\ claim[w] = CurrentAttempt(j)
        /\ \A a \in Attempts : a # CurrentAttempt(j) => attemptState'[a] = attemptState[a]
    <3>1. CASE CommitReadyVersion(w)
      BY <3>1 DEF CommitReadyVersion, MayCommit, FinishReadyStates, IInv, TypeOK
    <3>2. CASE RecordFailure(w)
      BY <1>2, <3>2, LeaseHolder DEF RecordFailure, FailAttempt, IInv, TypeOK
    <3>3. QED
      BY <3>1, <3>2
  <2>2. pc'[w] # pc[w]
    BY DEF CommitReadyVersion, RecordFailure, ReturnToIdle, Fail, Goto, IInv, TypeOK
  <2>3. leaseOwner[j] = w /\ lease[j] > 0
    BY <2>1 DEF HoldsLease
  <2>4. QED
    BY <2>1, <2>2, <2>3 DEF AttemptEndsFenced
<1>3. QED
  BY <1>1, <1>2

\* fail and heartbeat match the row by job and worker only, and still a running
\* attempt is ended only by its own Worker or after its lease.
THEOREM AttemptsAreFenced == Spec => FencedAttempts
<1>1. IInv /\ [Next]_vars => [AttemptEndsFenced]_vars
  <2> SUFFICES ASSUME IInv, Next PROVE AttemptEndsFenced
    OBVIOUS
  <2>1. CASE UNCHANGED attemptState
    BY <2>1 DEF AttemptEndsFenced
  <2>2. CASE \E w \in Workers : WorkerRecover(w)
    BY <2>2, RecoveryIsFenced DEF WorkerRecover
  <2>3. CASE Reconcile
    BY <2>3, RecoveryIsFenced DEF Reconcile
  <2>4. ASSUME NEW w \in Workers, ClaimNext(w)
        PROVE  AttemptEndsFenced
    BY <2>4 DEF ClaimNext, GrantLease, NextAttempt, IInv, TypeOK, AttemptEndsFenced
  <2>5. CASE \E w \in Workers : CommitReadyVersion(w) \/ RecordFailure(w)
    BY <2>5, OwnerIsFenced
  <2>6. ASSUME NEW artifact \in Artifacts, DeleteArtifact(artifact)
        PROVE  AttemptEndsFenced
    <3>1. \A a \in Attempts : attemptState[a] = "running" => Open(SessionOf[a.job])
      BY AttemptIdentity, SessionOfAssumption
         DEF IInv, RunningAttemptIsCurrent, OpenUploadHasOneJob, ActiveJob
    <3>2. \A a \in Attempts : attemptState[a] = "running" => ArtifactOf[SessionOf[a.job]] # artifact
      BY <2>6, <3>1, AttemptIdentity, SessionOfAssumption DEF DeleteArtifact, SessionsOf
    <3>3. QED
      BY <2>6, <3>2 DEF DeleteArtifact, AttemptEndsFenced
  <2>7. QED
    BY <2>1, <2>2, <2>3, <2>4, <2>5, <2>6
       DEF Next, ApiNext, UploadNext, WorkersNext, WorkerNext, WorkerStep, Tick, Heartbeat, Crash,
           CommitAccepted, CommitVersionUpload, CommitReplacement, InsertSession,
           InsertQueuedJob, QueueManualRetry, ClaimNothing, ProcessingFails,
           CommitAlreadyDone, CommitLeaseLost, rowVars, jobVars
<1>2. QED
  BY <1>1, Invariance, PTL DEF Spec, FencedAttempts

-----------------------------------------------------------------------------
(* The processing job implements the Upload lifecycle.                     *)

status == [s \in Sessions |-> StatusOf(s)]

\* An empty database maps to an empty Upload lifecycle.
LEMMA RefineInit == Init => Lifecycle!Init
BY DEF Init, Lifecycle!Init, StatusOf, Open

\* A step that leaves the flags and the kind of every session alone stutters.
LEMMA Stutters ==
    ASSUME retryable' = retryable, superseded' = superseded,
           \A s \in Sessions :
              \/ sessionState'[s] = sessionState[s]
              \/ sessionState[s] = "accepted" /\ sessionState'[s] = "processing"
    PROVE  status' = status
BY DEF status, StatusOf, Open

\* The API's transactions map to Submit, Replace, Retry and Delete of the Upload lifecycle.
LEMMA RefineApi ==
    ASSUME IInv, ApiNext
    PROVE  Lifecycle!Next
<1> USE DEF IInv, status
<1>1. ASSUME NEW s \in Sessions, NEW j \in Jobs, InsertSession(s, j), UNCHANGED superseded
      PROVE  Lifecycle!Submit(s)
  BY <1>1 DEF InsertSession, InsertQueuedJob, TypeOK, SessionFlags, StatusOf, Open,
              Lifecycle!Submit, Lifecycle!Become
<1>2. ASSUME NEW s \in Sessions, NEW j \in Jobs, NEW previous \in Sessions,
             CommitReplacement(previous, s, j)
      PROVE  Lifecycle!Replace(previous, s)
  <2>1. /\ ArtifactOf[previous] = ArtifactOf[s]
        /\ sessionState[previous] = "failed" /\ sessionState[s] = "absent"
        /\ ~retryable[previous] /\ ~superseded[previous] /\ ~superseded[s]
        /\ sessionState' = [sessionState EXCEPT ![s] = "accepted"]
        /\ superseded' = [superseded EXCEPT ![previous] = TRUE]
        /\ retryable' = retryable
    BY <1>2 DEF CommitReplacement, InsertSession, SessionFlags
  <2>2. /\ StatusOf(previous) = "final" /\ StatusOf(s) = "absent"
        /\ \A t \in Sessions : StatusOf(t)' =
              IF t = s THEN "open" ELSE IF t = previous THEN "superseded" ELSE StatusOf(t)
    BY <2>1 DEF TypeOK, StatusOf, Open
  <2>3. status' = [status EXCEPT ![previous] = "superseded", ![s] = "open"]
    BY <2>1, <2>2
  <2>4. QED
    BY <2>1, <2>2, <2>3 DEF Lifecycle!Replace
<1>3. ASSUME NEW s \in Sessions, NEW j \in Jobs, QueueManualRetry(s, j)
      PROVE  Lifecycle!Retry(s)
  BY <1>3 DEF QueueManualRetry, InsertQueuedJob, TypeOK, SessionFlags, StatusOf, Open,
              Lifecycle!Retry, Lifecycle!Become
<1>4. ASSUME NEW artifact \in Artifacts, DeleteArtifact(artifact)
      PROVE  \E sessions \in SUBSET Sessions : Lifecycle!Delete(sessions)
  <2> DEFINE deleted == {s \in Sessions : ArtifactOf[s] = artifact /\ sessionState[s] # "absent"}
  <2>1. Lifecycle!Delete(deleted)
    BY <1>4 DEF DeleteArtifact, SessionsOf, TypeOK, SessionFlags, StatusOf, Open, Lifecycle!Delete
  <2>2. QED
    BY <2>1
<1>5. QED
  BY <1>1, <1>2, <1>3, <1>4 DEF ApiNext, UploadNext, CommitAccepted, CommitVersionUpload, Lifecycle!Next

\* Recovery of expired leases maps to the interruption of the Uploads whose attempts are used up.
LEMMA RefineRecover ==
    ASSUME IInv, NEW expired \in SUBSET ExpiredJobs, RecoverExpiredLeases(expired)
    PROVE  Lifecycle!Next
<1> DEFINE exhausted == expired \ {j \in expired : attemptCount[j] < MaxAttempts}
           failed    == {SessionOf[j] : j \in exhausted}
<1>1. \A s \in failed : s \in Sessions /\ sessionState[s] = "processing"
  BY SessionOfAssumption DEF IInv, OpenUploadHasOneJob, ExpiredJobs
<1>2. /\ sessionState' = [s \in Sessions |-> IF s \in failed THEN "failed" ELSE sessionState[s]]
      /\ retryable' = [s \in Sessions |-> s \in failed \/ retryable[s]]
      /\ UNCHANGED superseded
  BY DEF RecoverExpiredLeases, Requeued
<1> HIDE DEF failed
<1>3. Lifecycle!Interrupt(failed)
  BY <1>1, <1>2 DEF IInv, TypeOK, SessionFlags, StatusOf, Open, Lifecycle!Interrupt
<1>4. failed \in SUBSET Sessions
  BY <1>1
<1>5. QED
  BY <1>3, <1>4 DEF Lifecycle!Next

\* A Worker's commit maps to Commit, the failure it records to Reject or Interrupt or a stutter.
LEMMA RefineWorker ==
    ASSUME IInv, NEW w \in Workers, WorkerNext(w)
    PROVE  [Lifecycle!Next]_status
<1>1. CASE WorkerRecover(w)
  BY <1>1, RefineRecover DEF WorkerRecover
<1>2. CASE ClaimNext(w)
  <2>1. PICK j \in Jobs : GrantLease(w, j)
    BY <1>2 DEF ClaimNext
  <2>2. /\ retryable' = retryable /\ superseded' = superseded
        /\ \A s \in Sessions :
              \/ sessionState'[s] = sessionState[s]
              \/ sessionState[s] = "accepted" /\ sessionState'[s] = "processing"
    BY <2>1 DEF GrantLease, NextAttempt, IInv, TypeOK
  <2>3. QED
    BY <2>2, Stutters
<1>3. CASE UNCHANGED sessionVars
  <2>1. retryable' = retryable /\ superseded' = superseded /\ sessionState' = sessionState
    BY <1>3 DEF sessionVars
  <2>2. QED
    BY <2>1, Stutters
<1>4. CASE CommitReadyVersion(w)
  <2> DEFINE s == SessionOf[claim[w].job]
  <2>1. /\ s \in Sessions /\ sessionState[s] = "processing"
        /\ sessionState' = [sessionState EXCEPT ![s] = "committed"]
        /\ UNCHANGED <<retryable, superseded>>
    BY <1>4, AttemptIdentity, SessionOfAssumption
       DEF CommitReadyVersion, FinishReadyStates, IInv, TypeOK, WorkerClaims
  <2> HIDE DEF s
  <2>2. Lifecycle!Commit(s)
    BY <2>1 DEF IInv, TypeOK, StatusOf, Open, Lifecycle!Commit, Lifecycle!Become
  <2>3. QED
    BY <2>1, <2>2 DEF Lifecycle!Next
<1>5. CASE /\ pc[w] = "failing"
           /\ HoldsLease(w, claim[w].job)
           /\ FailAttempt(claim[w].job, failure[w], claim[w].number)
  <2> DEFINE s == SessionOf[claim[w].job]
  <2>1. s \in Sessions /\ sessionState[s] = "processing" /\ ~superseded[s]
    BY <1>5, LeaseHolder DEF IInv, SessionFlags
  <2>2. \/ UNCHANGED <<sessionState, retryable, superseded>>
        \/ /\ sessionState' = [sessionState EXCEPT ![s] = "failed"]
           /\ retryable' = [retryable EXCEPT ![s] = failure[w] # "validation"]
           /\ UNCHANGED superseded
    BY <1>5, <2>1 DEF FailAttempt, IInv, TypeOK
  <2> HIDE DEF s
  <2>3. CASE UNCHANGED <<sessionState, retryable, superseded>>
    BY <2>3, Stutters
  <2>4. CASE /\ sessionState' = [sessionState EXCEPT ![s] = "failed"]
             /\ retryable' = [retryable EXCEPT ![s] = failure[w] # "validation"]
             /\ UNCHANGED superseded
    <3>1. CASE failure[w] = "validation"
      <4>1. Lifecycle!Reject(s)
        BY <2>1, <2>4, <3>1 DEF IInv, TypeOK, StatusOf, Open, Lifecycle!Reject, Lifecycle!Become
      <4>2. QED
        BY <2>1, <4>1 DEF Lifecycle!Next
    <3>2. CASE failure[w] # "validation"
      <4>1. Lifecycle!Interrupt({s})
        BY <2>1, <2>4, <3>2 DEF IInv, TypeOK, StatusOf, Open, Lifecycle!Interrupt
      <4>2. QED
        BY <2>1, <4>1 DEF Lifecycle!Next
    <3>3. QED
      BY <3>1, <3>2
  <2>5. QED
    BY <2>2, <2>3, <2>4
<1>6. QED
  BY <1>1, <1>2, <1>3, <1>4, <1>5
     DEF WorkerNext, WorkerStep, ClaimNothing, Heartbeat, ProcessingFails, CommitAlreadyDone,
         CommitLeaseLost, RecordFailure, Crash, rowVars

\* The Owner sees nothing but the Upload lifecycle.
THEOREM Implements == Spec => ImplementsLifecycle
<1>1. IInv /\ [Next]_vars => [Lifecycle!Next]_status
  <2> SUFFICES ASSUME IInv, [Next]_vars PROVE [Lifecycle!Next]_status
    OBVIOUS
  <2>1. CASE ApiNext
    BY <2>1, RefineApi
  <2>2. CASE WorkersNext
    BY <2>2, RefineWorker DEF WorkersNext
  <2>3. CASE Reconcile
    BY <2>3, RefineRecover DEF Reconcile
  <2>4. CASE Tick \/ UNCHANGED vars
    <3>1. retryable' = retryable /\ superseded' = superseded /\ sessionState' = sessionState
      BY <2>4 DEF Tick, vars, rowVars, sessionVars
    <3>2. QED
      BY <3>1, Stutters
  <2>5. QED
    BY <2>1, <2>2, <2>3, <2>4 DEF Next
<1>2. QED
  BY <1>1, RefineInit, Invariance, PTL DEF Spec, ImplementsLifecycle, Lifecycle!Spec, status

-----------------------------------------------------------------------------
(***************************************************************************)
(* Content bundles.                                                        *)
(***************************************************************************)

-----------------------------------------------------------------------------
(* Their inductive invariant.                                              *)

Deciding == {"lookup", "validate", "reserve"}   \* nothing reserved yet
Writing  == {"prepare", "promote", "finish", "commit"}

BundleTypeOK ==
    /\ lifecycle \in [Bundles -> {"absent", "creating", "ready", "deleting"}]
    /\ creator \in [Bundles -> Attempts \union {NoAttempt}]
    /\ creatorLease \in [Bundles -> Nat]
    /\ manifest \in [Bundles -> Attempts \union {NoAttempt}]
    /\ swept \in [Bundles -> BOOLEAN]
    /\ contentAlias \in [Contents -> Bundles \union {NoBundle}]
    /\ rawAlias \in [Raws -> Bundles \union {NoBundle}]
    /\ versionBundle \in [Sessions -> Bundles \union {NoBundle}]
    /\ prefixOf \in [Attempts -> Bundles \union {NoBundle}]
    /\ eligible \in [Attempts -> BOOLEAN]
    /\ objects \in [Attempts -> {"none", "partial", "complete"}]
    /\ phase \in [Workers -> Deciding \union Writing \union {"none", "abandon", "record"}]
    /\ target \in [Workers -> Bundles \union {NoBundle}]

\* Where a Worker is in process_attempt is where it is in run_one, and it works on
\* a bundle of its attempt's content from the reservation to the commit.
PhasesMatch ==
    \A w \in Workers :
        /\ pc[w] = "processing" <=> phase[w] \in Deciding \union Writing
        /\ pc[w] = "failing" <=> phase[w] \in {"abandon", "record"}
        /\ target[w] # NoBundle <=> phase[w] \in Writing
        /\ phase[w] \in Writing => ContentOfAttempt(target[w]) = ContentOfAttempt(claim[w])

\* The attempt has not started, or its Worker has not reserved a bundle for it.
Unborn(b) ==
    \/ attemptState[b] = "absent"
    \/ \E w \in Workers : claim[w] = b /\ phase[w] \in Deciding

\* Nothing mentions a bundle before the one reservation that can create it.
UnbornBundlesAreUnknown ==
    \A b \in Bundles : Unborn(b) =>
        /\ lifecycle[b] = "absent"
        /\ ~eligible[b]
        /\ \A x \in Bundles : manifest[x] # b
        /\ \A w \in Workers : target[w] # b

\* A bundle that can still be used is the one its content's alias names.
LiveBundles ==
    \A b \in Bundles :
        /\ lifecycle[b] \in {"creating", "ready"} => contentAlias[ContentOfAttempt(b)] = b
        /\ lifecycle[b] = "creating" => creator[b] # NoAttempt
        /\ swept[b] => lifecycle[b] = "deleting"

VersionsHaveBundles ==
    \A s \in Sessions : version[s] # NoAttempt <=> versionBundle[s] # NoBundle

\* A ready bundle's winner wrote under the bundle's prefix, and its objects stand
\* unless its Worker scheduled their removal.  No Worker still writes for it.
ManifestsStand ==
    \A b \in Bundles :
        /\ lifecycle[b] = "ready" =>
             /\ manifest[b] # NoAttempt
             /\ prefixOf[manifest[b]] = b
             /\ objects[manifest[b]] = "complete" \/ eligible[manifest[b]]
        /\ \A w \in Workers :
             manifest[b] # NoAttempt /\ claim[w] = manifest[b] => pc[w] # "processing"

\* As long as the target is being created, the Worker's objects are what its last
\* step left, whoever else writes or sweeps.
WritersAreUndisturbed ==
    \A w \in Workers :
        /\ phase[w] \in {"promote", "finish"} => prefixOf[claim[w]] = target[w]
        /\ phase[w] = "finish" /\ lifecycle[target[w]] = "creating" =>
             objects[claim[w]] = "partial"
        /\ phase[w] = "commit" /\ lifecycle[target[w]] = "creating" =>
             prefixOf[claim[w]] = target[w] /\ objects[claim[w]] = "complete"

\* A prefix is scheduled for removal when its Worker is done with it.
SweptPrefixesAreIdle ==
    \A a \in Attempts, w \in Workers :
        eligible[a] /\ claim[w] = a => pc[w] # "processing"

BundleIInv ==
    /\ IInv
    /\ BundleTypeOK
    /\ PhasesMatch
    /\ UnbornBundlesAreUnknown
    /\ LiveBundles
    /\ AliasesAgree
    /\ VersionsHaveBundles
    /\ ReadyWhileReferenced
    /\ ManifestsStand
    /\ WritersAreUndisturbed
    /\ SweptPrefixesAreIdle

\* With every commit acknowledged, no prefix that won is or will be scheduled.
WinnersAreKept ==
    /\ \A a \in Attempts : eligible[a] => \A b \in Bundles : manifest[b] # a
    /\ \A w \in Workers : phase[w] = "abandon" => \A b \in Bundles : manifest[b] # claim[w]
-----------------------------------------------------------------------------
(* Content bundles implement the processing job.                           *)

\* What a Worker does between its claim and its commit ends one of the ways
\* ProcessingJob knows, or it is not noticed there.
LEMMA WorkersAreJobWorkers ==
    ASSUME NEW w \in Workers, BundleWorkerStep(w) \/ BundleCrash(w)
    PROVE  WorkerNext(w) \/ UNCHANGED vars
<1> USE DEF WorkerNext, WorkerStep, Continue, Unnoticed
<1>1. \A classes \in SUBSET FailureClasses : GiveUp(w, classes) => ProcessingFails(w)
  BY DEF GiveUp, ProcessingFails
<1>2. \A b : CommitApplied(w, b) => CommitReadyVersion(w)
  BY DEF CommitApplied
<1>3. CASE \/ Unnoticed(WorkerRecover(w)) \/ Unnoticed(ClaimNothing(w)) \/ StartAttempt(w)
           \/ FinishAttempt(w) \/ BundleCrash(w)
  BY <1>3 DEF StartAttempt, FinishAttempt, BundleCrash
<1>4. CASE LookupRawReuse(w) \/ PrepareManifest(w) \/ PrepareBundleWrites(w)
  BY <1>1, <1>4 DEF LookupRawReuse, PrepareManifest, PrepareBundleWrites, FailureClasses
<1>5. CASE ReserveContentBundle(w)
  <2>1. {"transient"} \in SUBSET FailureClasses
    BY DEF FailureClasses
  <2>2. GiveUp(w, {"transient"}) \/ UNCHANGED vars
    BY <1>5 DEF ReserveContentBundle
  <2>3. QED
    BY <1>1, <2>1, <2>2
<1>6. CASE PromoteManifest(w)
  BY <1>6 DEF PromoteManifest, ProcessingFails, FailureClasses
<1>7. CASE CommitBundleVersion(w)
  BY <1>2, <1>7 DEF CommitBundleVersion, ProcessingFails, FailureClasses
<1>8. CASE MarkCleanupEligible(w)
  BY <1>8 DEF MarkCleanupEligible
<1>9. QED
  BY <1>3, <1>4, <1>5, <1>6, <1>7, <1>8 DEF BundleWorkerStep

\* The API and Reconciliation write the job's rows only by its own transactions.
LEMMA BundleStepIsJobStep == [BundleNext]_allVars => [Next]_vars
<1> SUFFICES ASSUME BundleNext PROVE [Next]_vars
  BY DEF allVars
<1> USE DEF Next
<1>1. CASE Unnoticed(UploadNext) \/ Unnoticed(Reconcile)
           \/ \E artifact \in Artifacts : BundleDeleteArtifact(artifact)
  BY <1>1 DEF Unnoticed, ApiNext, BundleDeleteArtifact
<1>2. ASSUME NEW w \in Workers,
             BundleWorkerStep(w) \/ Unnoticed(Heartbeat(w)) \/ BundleCrash(w)
      PROVE  [Next]_vars
  BY <1>2, WorkersAreJobWorkers DEF Unnoticed, WorkersNext, WorkerNext
<1>3. CASE \/ \E b \in Bundles : BundleReconcile(b)
           \/ \E a \in Attempts : SweepAttemptPrefix(a)
           \/ BundleTick
  BY <1>3 DEF BundleReconcile, RecoverExpiredCreatingBundle, RemoveBundleObjects,
              CompleteBundleCleanup, SweepAttemptPrefix, BundleTick
<1>4. QED
  BY <1>1, <1>2, <1>3 DEF BundleNext

\* Whatever reuse, takeover, waiting and cleanup add, a Worker's bundle steps are
\* steps of the job store: the bundle model implements ProcessingJob.
THEOREM ImplementsProcessingJob == BundleSpec => Spec
<1>1. BundleInit => Init
  BY DEF BundleInit
<1>2. QED
  BY <1>1, BundleStepIsJobStep, PTL DEF BundleSpec, Spec

\* ... and so the Upload's lifecycle as the Owner sees it.
THEOREM BundlesImplementLifecycle == BundleSpec => ImplementsLifecycle
BY ImplementsProcessingJob, Implements, PTL

-----------------------------------------------------------------------------
(* What the job's rows and the Workers' claims do meanwhile.               *)

\* The constants that tell contents apart.
LEMMA ContentsOfAttempts ==
    \A a \in Attempts : /\ SessionOf[a.job] \in Sessions
                        /\ RawOfAttempt(a) \in Raws
                        /\ ContentOfAttempt(a) \in Contents
                        /\ ContentOf[RawOfAttempt(a)] = ContentOfAttempt(a)
BY AttemptIdentity, SessionOfAssumption, RawOfAssumption, ContentOfAssumption
   DEF RawOfAttempt, ContentOfAttempt

\* An attempt row, once inserted, is never as if it had not been.
LEMMA AttemptsAreNotReborn ==
    ASSUME IInv, [Next]_vars
    PROVE  \A a \in Attempts : attemptState'[a] = "absent" => attemptState[a] = "absent"
<1>1. StartedAttempts /\ StartedAttempts' /\ TypeOK /\ TypeOK'
  BY NextInv DEF IInv
<1>2. \A j \in Jobs : attemptCount'[j] >= attemptCount[j]
  <2>1. CASE UNCHANGED attemptCount
    BY <1>1, <2>1 DEF TypeOK
  <2>2. ASSUME NEW w \in Workers, ClaimNext(w)
        PROVE  \A j \in Jobs : attemptCount'[j] >= attemptCount[j]
    BY <1>1, <2>2 DEF ClaimNext, GrantLease, TypeOK
  <2>3. QED
    BY <2>1, <2>2
       DEF Next, ApiNext, UploadNext, WorkersNext, WorkerNext, WorkerStep, Tick, Heartbeat, Crash,
           Reconcile, RecoverExpiredLeases, WorkerRecover, DeleteArtifact,
           CommitAccepted, CommitVersionUpload, CommitReplacement, InsertSession,
           InsertQueuedJob, QueueManualRetry, ClaimNothing, ProcessingFails,
           CommitAlreadyDone, CommitLeaseLost, CommitReadyVersion, FinishReadyStates,
           RecordFailure, FailAttempt, rowVars, jobVars, vars
<1>3. \A a \in Attempts :
        /\ attemptCount[a.job] \in Int
        /\ attemptCount'[a.job] \in Int
        /\ a.number \in Int
        /\ attemptCount'[a.job] >= attemptCount[a.job]
  BY <1>1, <1>2, AttemptIdentity DEF TypeOK
<1>4. \A a \in Attempts :
        /\ attemptState[a] # "absent" <=> a.number <= attemptCount[a.job]
        /\ attemptState'[a] # "absent" <=> a.number <= attemptCount'[a.job]
  BY <1>1 DEF StartedAttempts
<1>5. QED
  BY <1>3, <1>4

\* A bundle id is not forgotten by the attempt that draws it.
LEMMA UnbornEarlier ==
    ASSUME \A a \in Attempts : attemptState'[a] = "absent" => attemptState[a] = "absent",
           \A w \in Workers : claim'[w] # NoAttempt /\ phase'[w] \in Deciding =>
              claim[w] = claim'[w] /\ phase[w] \in Deciding
    PROVE  \A b \in Bundles : Unborn(b)' => Unborn(b)
BY NoAttemptAssumption DEF Unborn, Bundles

-----------------------------------------------------------------------------
(* Steps that leave bundles, aliases and objects alone.                    *)

\* An empty database has no bundle, and idle Workers have no target.
LEMMA BundleInitInv == BundleInit => BundleIInv
<1> SUFFICES ASSUME BundleInit PROVE BundleIInv
  OBVIOUS
<1> USE DEF BundleInit
<1>1. IInv /\ Init
  BY InitIInv
<1>2. /\ \A w \in Workers : pc[w] = "idle" /\ claim[w] = NoAttempt
      /\ \A s \in Sessions : version[s] = NoAttempt
  BY <1>1 DEF Init
<1>3. BundleTypeOK
  BY DEF BundleTypeOK, Bundles, NoBundle
<1>4. PhasesMatch /\ WritersAreUndisturbed /\ SweptPrefixesAreIdle
  BY <1>2 DEF PhasesMatch, WritersAreUndisturbed, SweptPrefixesAreIdle, Deciding, Writing
<1>5. UnbornBundlesAreUnknown /\ LiveBundles /\ AliasesAgree /\ VersionsHaveBundles
  BY <1>2, NoAttemptAssumption
     DEF UnbornBundlesAreUnknown, LiveBundles, AliasesAgree, VersionsHaveBundles,
         Bundles, NoBundle
<1>6. ReadyWhileReferenced /\ ManifestsStand
  BY NoAttemptAssumption DEF ReadyWhileReferenced, ManifestsStand, Bundles, NoBundle
<1>7. QED
  BY <1>1, <1>3, <1>4, <1>5, <1>6 DEF BundleIInv

\* What the job store, its clock and the API do unnoticed by bundles.
LEMMA UnnoticedInv ==
    ASSUME BundleIInv, IInv',
           UNCHANGED <<lifecycle, creator, manifest, swept, aliasVars, versionBundle,
                       prefixVars, phaseVars, claim, version>>,
           creatorLease' \in [Bundles -> Nat],
           \A w \in Workers : \/ pc'[w] = pc[w]
                              \/ {pc[w], pc'[w]} \subseteq {"idle", "recovered"},
           \A a \in Attempts : attemptState'[a] = "absent" => attemptState[a] = "absent"
    PROVE  BundleIInv'
<1> USE DEF BundleIInv, aliasVars, prefixVars, phaseVars
<1>1. BundleTypeOK'
  BY DEF BundleTypeOK
<1>2. \A w \in Workers : /\ pc'[w] = "processing" <=> pc[w] = "processing"
                         /\ pc'[w] = "failing" <=> pc[w] = "failing"
  OBVIOUS
<1>3. PhasesMatch'
  BY <1>2 DEF PhasesMatch
<1>4. UnbornBundlesAreUnknown'
  BY UnbornEarlier DEF UnbornBundlesAreUnknown
<1>5. /\ LiveBundles' /\ AliasesAgree' /\ VersionsHaveBundles' /\ ReadyWhileReferenced'
      /\ WritersAreUndisturbed'
  BY DEF LiveBundles, AliasesAgree, VersionsHaveBundles, ReadyWhileReferenced,
         WritersAreUndisturbed
<1>6. ManifestsStand' /\ SweptPrefixesAreIdle'
  BY <1>2 DEF ManifestsStand, SweptPrefixesAreIdle
<1>7. QED
  BY <1>1, <1>3, <1>4, <1>5, <1>6

\* A Worker goes on, gives up, records its failure or dies, writing nothing.
LEMMA WorkerMovesInv ==
    ASSUME BundleIInv, IInv',
           NEW w \in Workers, NEW b \in Bundles \union {NoBundle},
           NEW label \in Deciding \union {"commit", "none", "abandon", "record"},
           Enter(w, label, b),
           UNCHANGED <<storeVars, version>>,
           \A v \in Workers \ {w} : pc'[v] = pc[v] /\ claim'[v] = claim[v],
           claim'[w] \in {claim[w], NoAttempt},
           pc'[w] = "processing" <=> label \in Deciding \union Writing,
           pc'[w] = "failing" <=> label \in {"abandon", "record"},
           label \in Deciding \union Writing => pc[w] = "processing" /\ claim'[w] = claim[w],
           label \in Deciding => phase[w] \in Deciding,
           label # "commit" => b = NoBundle,
           label = "commit" => /\ b \in Bundles
                               /\ lifecycle[b] = "ready"
                               /\ ContentOfAttempt(b) = ContentOfAttempt(claim[w]),
           \A a \in Attempts : attemptState'[a] = "absent" => attemptState[a] = "absent"
    PROVE  BundleIInv'
<1> USE DEF BundleIInv, storeVars, bundleVars, aliasVars, prefixVars
<1>0. /\ \A v \in Workers : phase'[v] = IF v = w THEN label ELSE phase[v]
      /\ \A v \in Workers : target'[v] = IF v = w THEN b ELSE target[v]
      /\ phase' \in [Workers -> Deciding \union Writing \union {"none", "abandon", "record"}]
      /\ target' \in [Workers -> Bundles \union {NoBundle}]
  BY DEF BundleTypeOK, Enter, Writing
<1> HIDE DEF Enter
<1>1. BundleTypeOK'
  BY <1>0 DEF BundleTypeOK
<1>2. PhasesMatch'
  BY <1>0, NoAttemptAssumption DEF PhasesMatch, Writing, Deciding, Bundles, NoBundle
<1>3. \A v \in Workers : claim'[v] # NoAttempt /\ phase'[v] \in Deciding =>
         claim[v] = claim'[v] /\ phase[v] \in Deciding
  BY <1>0 DEF PhasesMatch
<1>4. UnbornBundlesAreUnknown'
  <2>1. \A x \in Bundles : Unborn(x)' => Unborn(x)
    BY <1>3, UnbornEarlier
  <2>2. \A x \in Bundles : lifecycle[x] = "ready" => ~Unborn(x)
    BY DEF UnbornBundlesAreUnknown
  <2>3. QED
    BY <1>0, <2>1, <2>2, NoAttemptAssumption DEF UnbornBundlesAreUnknown, Bundles, NoBundle
<1>5. LiveBundles' /\ AliasesAgree' /\ VersionsHaveBundles' /\ ReadyWhileReferenced'
  BY DEF LiveBundles, AliasesAgree, VersionsHaveBundles, ReadyWhileReferenced
<1>6. \A v \in Workers : pc'[v] = "processing" => pc[v] = "processing" /\ claim'[v] = claim[v]
  OBVIOUS
<1>7. ManifestsStand' /\ SweptPrefixesAreIdle'
  BY <1>6 DEF ManifestsStand, SweptPrefixesAreIdle
<1>8. WritersAreUndisturbed'
  <2>1. \A v \in Workers : v # w /\ phase'[v] \in Writing => claim'[v] = claim[v]
    OBVIOUS
  <2>2. QED
    BY <1>0, <2>1 DEF WritersAreUndisturbed, Deciding, Writing
<1>9. QED
  BY <1>1, <1>2, <1>4, <1>5, <1>7, <1>8

-----------------------------------------------------------------------------
(* The Worker's steps, in the order of process_attempt.                    *)

\* A Worker that gives an attempt up keeps its claim and forgets its bundle.
LEMMA GivingUpInv ==
    ASSUME BundleIInv, IInv', NEW w \in Workers, NEW label \in {"abandon", "record"},
           pc[w] = "processing", \E class \in FailureClasses : Fail(w, class),
           Enter(w, label, NoBundle), UNCHANGED <<rowVars, storeVars>>
    PROVE  BundleIInv'
<1>1. /\ \A v \in Workers \ {w} : pc'[v] = pc[v] /\ claim'[v] = claim[v]
      /\ claim'[w] \in {claim[w], NoAttempt}
      /\ pc'[w] = "failing"
      /\ UNCHANGED <<version, attemptState>>
  BY DEF BundleIInv, IInv, TypeOK, Fail, Goto, rowVars, sessionVars, jobVars
<1>2. label \in Deciding \union {"commit", "none", "abandon", "record"}
  OBVIOUS
<1>3. label \notin Deciding \union Writing
  BY DEF Deciding, Writing
<1>4. QED
  BY <1>1, <1>2, <1>3, WorkerMovesInv

\* process_attempt and run_one, one call after another, where nothing is written.
LEMMA DecidesInv ==
    ASSUME BundleIInv, IInv', NEW w \in Workers,
           NEW label \in {"validate", "reserve", "commit"}, NEW b \in Bundles \union {NoBundle},
           pc[w] = "processing", phase[w] \in Deciding, Continue(w, label, b),
           label # "commit" => b = NoBundle,
           label = "commit" => /\ b \in Bundles
                               /\ lifecycle[b] = "ready"
                               /\ ContentOfAttempt(b) = ContentOfAttempt(claim[w]),
           UNCHANGED storeVars
    PROVE  BundleIInv'
<1>1. UNCHANGED <<pc, claim, version, attemptState>> /\ Enter(w, label, b)
  BY DEF Continue, vars, rowVars, sessionVars, jobVars, workerVars
<1>2. /\ label \in Deciding \union {"commit", "none", "abandon", "record"}
      /\ label \in Deciding \union Writing
  BY DEF Deciding, Writing
<1>3. QED
  BY <1>1, <1>2, WorkerMovesInv

\* The attempt is over: it is recorded, committed or lost with its Worker.
LEMMA LeavesInv ==
    ASSUME BundleIInv, IInv', NEW w \in Workers, Enter(w, "none", NoBundle),
           \/ ReturnToIdle(w)
           \/ Goto(w, "dead") /\ UNCHANGED claim,
           UNCHANGED <<version, storeVars>>,
           \A a \in Attempts : attemptState'[a] = "absent" => attemptState[a] = "absent"
    PROVE  BundleIInv'
<1>1. /\ \A v \in Workers \ {w} : pc'[v] = pc[v] /\ claim'[v] = claim[v]
      /\ claim'[w] \in {claim[w], NoAttempt}
      /\ pc'[w] \in {"idle", "dead"}
  BY DEF BundleIInv, IInv, TypeOK, ReturnToIdle, Goto
<1>2. "none" \notin Deciding \union Writing
  BY DEF Deciding, Writing
<1>3. QED
  BY <1>1, <1>2, WorkerMovesInv

\* lookup_raw_reuse only leads to a ready bundle of the same content, and reading
\* the archive leads on to the reservation.
LEMMA LookupInv ==
    ASSUME BundleIInv, IInv', NEW w \in Workers, LookupRawReuse(w) \/ PrepareManifest(w)
    PROVE  BundleIInv'
<1>1. pc[w] = "processing" => claim[w] \in Attempts
  BY DEF BundleIInv, IInv, TypeOK, WorkerClaims
<1>2. \A classes \in SUBSET FailureClasses :
        GiveUp(w, classes) /\ UNCHANGED storeVars => BundleIInv'
  BY GivingUpInv DEF GiveUp
<1>3. CASE LookupRawReuse(w)
  <2> DEFINE b == rawAlias[RawOfAttempt(claim[w])]
  <2>1. CASE RawHit(w) /\ Continue(w, "commit", b)
    <3>1. /\ b \in Bundles
          /\ lifecycle[b] = "ready"
          /\ ContentOfAttempt(b) = ContentOfAttempt(claim[w])
      BY <1>1, <1>3, <2>1, ContentsOfAttempts
         DEF LookupRawReuse, RawHit, BundleIInv, BundleTypeOK, AliasesAgree
    <3>2. QED
      BY <1>3, <2>1, <3>1, DecidesInv DEF LookupRawReuse, Deciding
  <2>2. CASE Continue(w, "validate", NoBundle)
    BY <1>3, <2>2, DecidesInv DEF LookupRawReuse, Deciding
  <2>3. QED
    BY <1>2, <1>3, <2>1, <2>2 DEF LookupRawReuse, FailureClasses
<1>4. CASE PrepareManifest(w)
  <2>1. Continue(w, "reserve", NoBundle) => BundleIInv'
    BY <1>4, DecidesInv DEF PrepareManifest, Deciding
  <2>2. QED
    BY <1>2, <1>4, <2>1 DEF PrepareManifest
<1>5. QED
  BY <1>3, <1>4

\* insert_or_resolve_content_bundle: the attempt's own bundle, unheard of before.
LEMMA InsertBundleInv ==
    ASSUME BundleIInv, IInv', NEW w \in Workers, NEW a \in Attempts, claim[w] = a,
           pc[w] = "processing", phase[w] = "reserve",
           InsertBundle(a), Continue(w, "prepare", a)
    PROVE  BundleIInv'
<1> USE DEF BundleIInv
<1>0. /\ a # NoAttempt /\ a # NoBundle /\ a \in Bundles
      /\ ContentOfAttempt(a) \in Contents
      /\ attemptState[a] # "absent"
      /\ \A v \in Workers : claim[v] = a => v = w
  BY ContentsOfAttempts, NoAttemptAssumption
     DEF IInv, TypeOK, WorkerClaims, ClaimsAreDistinct, Bundles, NoBundle
<1>1. /\ UNCHANGED <<pc, claim, version, attemptState>>
      /\ phase' = [phase EXCEPT ![w] = "prepare"]
      /\ target' = [target EXCEPT ![w] = a]
  BY DEF Continue, Enter, vars, rowVars, sessionVars, jobVars, workerVars
<1>2. /\ lifecycle[a] = "absent"
      /\ \A x \in Bundles : manifest[x] # a
      /\ \A v \in Workers : target[v] # a
  <2>1. Unborn(a)
    BY DEF Unborn, Deciding
  <2>2. QED
    BY <1>0, <2>1 DEF UnbornBundlesAreUnknown
<1>3. /\ lifecycle' = [lifecycle EXCEPT ![a] = "creating"]
      /\ contentAlias[ContentOfAttempt(a)] = NoBundle
      /\ contentAlias' = [contentAlias EXCEPT ![ContentOfAttempt(a)] = a]
      /\ creator' = [creator EXCEPT ![a] = a]
      /\ creatorLease' = [creatorLease EXCEPT ![a] = LeaseDuration]
      /\ UNCHANGED <<manifest, swept, rawAlias, versionBundle, prefixOf, eligible, objects>>
  BY DEF InsertBundle, prefixVars
<1>4. BundleTypeOK'
  BY <1>0, <1>1, <1>3, LeaseAssumption DEF BundleTypeOK, Writing
<1>5. PhasesMatch'
  BY <1>0, <1>1 DEF PhasesMatch, Deciding, Writing, BundleTypeOK
<1>6. \A x \in Bundles : Unborn(x)' => Unborn(x) /\ x # a
  <2>1. \A x \in Bundles : Unborn(x)' => Unborn(x)
    BY <1>1, UnbornEarlier DEF BundleTypeOK, Deciding
  <2>2. ~Unborn(a)'
    BY <1>0, <1>1 DEF Unborn, Deciding, BundleTypeOK
  <2>3. QED
    BY <2>1, <2>2
<1>7. UnbornBundlesAreUnknown'
  BY <1>1, <1>3, <1>6 DEF UnbornBundlesAreUnknown, BundleTypeOK
<1>8. LiveBundles'
  <2>1. \A x \in Bundles : x # a => lifecycle'[x] = lifecycle[x] /\ creator'[x] = creator[x]
    BY <1>3 DEF BundleTypeOK
  <2>2. \A c \in Contents : contentAlias'[c] =
          IF c = ContentOfAttempt(a) THEN a ELSE contentAlias[c]
    BY <1>3 DEF BundleTypeOK
  <2>3. \A x \in Bundles : /\ x # NoBundle
                           /\ ContentOfAttempt(x) \in Contents
    BY ContentsOfAttempts, NoAttemptAssumption DEF Bundles, NoBundle
  <2>4. lifecycle'[a] = "creating" /\ creator'[a] = a
    BY <1>0, <1>3 DEF BundleTypeOK
  <2>5. QED
    BY <1>0, <1>2, <1>3, <2>1, <2>2, <2>3, <2>4 DEF LiveBundles
<1>9. AliasesAgree'
  <2>1. \A x \in Bundles : x # a => lifecycle'[x] = lifecycle[x]
    BY <1>3 DEF BundleTypeOK
  <2>2. \A c \in Contents :
          /\ c # ContentOfAttempt(a) => contentAlias'[c] = contentAlias[c]
          /\ c = ContentOfAttempt(a) => contentAlias'[c] = a
          /\ contentAlias[c] \in Bundles \union {NoBundle}
    BY <1>3 DEF BundleTypeOK
  <2>3. lifecycle'[a] = "creating"
    BY <1>0, <1>3 DEF BundleTypeOK
  <2>4. \A x \in Bundles : lifecycle'[x] = "ready" => contentAlias'[ContentOfAttempt(x)] = x
    BY <1>3, <2>1, <2>2, <2>3, ContentsOfAttempts, NoAttemptAssumption
       DEF AliasesAgree, Bundles, NoBundle
  <2>5. \A c \in Contents : contentAlias'[c] # NoBundle =>
          /\ lifecycle'[contentAlias'[c]] # "absent"
          /\ ContentOfAttempt(contentAlias'[c]) = c
    BY <2>1, <2>2, <2>3 DEF AliasesAgree
  <2>6. \A r \in Raws : rawAlias'[r] # NoBundle =>
          /\ lifecycle'[rawAlias'[r]] = "ready"
          /\ ContentOfAttempt(rawAlias'[r]) = ContentOf[r]
    BY <1>2, <1>3, <2>1 DEF AliasesAgree, BundleTypeOK
  <2>7. QED
    BY <2>4, <2>5, <2>6 DEF AliasesAgree
<1>10. VersionsHaveBundles' /\ ReadyWhileReferenced'
  BY <1>1, <1>2, <1>3 DEF VersionsHaveBundles, ReadyWhileReferenced, BundleTypeOK
<1>11. ManifestsStand' /\ SweptPrefixesAreIdle'
  BY <1>1, <1>2, <1>3 DEF ManifestsStand, SweptPrefixesAreIdle, BundleTypeOK
<1>12. WritersAreUndisturbed'
  <2>1. \A v \in Workers :
          /\ v # w => phase'[v] = phase[v] /\ target'[v] = target[v]
          /\ v = w => phase'[v] = "prepare"
    BY <1>1 DEF BundleTypeOK
  <2>2. \A x \in Bundles : x # a => lifecycle'[x] = lifecycle[x]
    BY <1>3 DEF BundleTypeOK
  <2>3. \A v \in Workers : phase[v] \in Writing => target[v] \in Bundles \ {a}
    BY <1>2 DEF PhasesMatch, BundleTypeOK
  <2>4. QED
    BY <1>1, <1>3, <2>1, <2>2, <2>3 DEF WritersAreUndisturbed, Writing
<1>13. QED
  BY <1>4, <1>5, <1>7, <1>8, <1>9, <1>10, <1>11, <1>12

\* reserve_existing_bundle: the expired creator loses the bundle to the attempt.
LEMMA TakeOverInv ==
    ASSUME BundleIInv, IInv', NEW w \in Workers, pc[w] = "processing", phase[w] = "reserve",
           NEW b \in Bundles, ContentOfAttempt(b) = ContentOfAttempt(claim[w]),
           TakeOver(claim[w], b), Continue(w, "prepare", b)
    PROVE  BundleIInv'
<1> USE DEF BundleIInv
<1>0. claim[w] \in Attempts /\ claim[w] # NoAttempt /\ b # NoBundle
  BY NoAttemptAssumption DEF IInv, TypeOK, WorkerClaims, Bundles, NoBundle
<1>1. /\ UNCHANGED <<pc, claim, version, attemptState>>
      /\ phase' = [phase EXCEPT ![w] = "prepare"]
      /\ target' = [target EXCEPT ![w] = b]
  BY DEF Continue, Enter, vars, rowVars, sessionVars, jobVars, workerVars
<1>2. /\ lifecycle[b] = "creating"
      /\ creator' = [creator EXCEPT ![b] = claim[w]]
      /\ creatorLease' = [creatorLease EXCEPT ![b] = LeaseDuration]
      /\ UNCHANGED <<lifecycle, manifest, swept, contentAlias, rawAlias, versionBundle,
                     prefixOf, eligible, objects>>
  BY DEF TakeOver, aliasVars, prefixVars
<1>3. BundleTypeOK'
  BY <1>0, <1>1, <1>2, LeaseAssumption DEF BundleTypeOK, Writing, Bundles
<1>4. PhasesMatch'
  BY <1>0, <1>1 DEF PhasesMatch, Deciding, Writing, BundleTypeOK
<1>5. UnbornBundlesAreUnknown'
  <2>1. \A x \in Bundles : Unborn(x)' => Unborn(x)
    BY <1>1, UnbornEarlier DEF BundleTypeOK, Deciding
  <2>2. ~Unborn(b)
    BY <1>2 DEF UnbornBundlesAreUnknown
  <2>3. QED
    BY <1>1, <1>2, <2>1, <2>2 DEF UnbornBundlesAreUnknown, BundleTypeOK
<1>6. LiveBundles' /\ AliasesAgree' /\ VersionsHaveBundles' /\ ReadyWhileReferenced'
  BY <1>0, <1>1, <1>2
     DEF LiveBundles, AliasesAgree, VersionsHaveBundles, ReadyWhileReferenced, BundleTypeOK
<1>7. ManifestsStand' /\ SweptPrefixesAreIdle' /\ WritersAreUndisturbed'
  BY <1>1, <1>2 DEF ManifestsStand, SweptPrefixesAreIdle, WritersAreUndisturbed, BundleTypeOK
<1>8. QED
  BY <1>3, <1>4, <1>5, <1>6, <1>7

\* The reservation: insert, take over, reuse, or give up waiting.
LEMMA ReserveInv ==
    ASSUME BundleIInv, IInv', NEW w \in Workers, ReserveContentBundle(w)
    PROVE  BundleIInv'
<1> DEFINE a == claim[w]
           b == contentAlias[ContentOfAttempt(a)]
<1>1. pc[w] = "processing" /\ phase[w] = "reserve" /\ phase[w] \in Deciding
  BY DEF ReserveContentBundle, Deciding
<1>2. b # NoBundle => /\ b \in Bundles
                      /\ ContentOfAttempt(b) = ContentOfAttempt(a)
  <2>1. a \in Attempts
    BY <1>1 DEF BundleIInv, IInv, TypeOK, WorkerClaims
  <2>2. QED
    BY <2>1, ContentsOfAttempts DEF BundleIInv, BundleTypeOK, AliasesAgree
<1>3. GiveUp(w, {"transient"}) /\ UNCHANGED storeVars => BundleIInv'
  BY GivingUpInv DEF GiveUp, FailureClasses
<1>4. b # NoBundle /\ lifecycle[b] = "ready" /\ Continue(w, "commit", b)
        /\ UNCHANGED storeVars => BundleIInv'
  BY <1>1, <1>2, DecidesInv
<1>5. \/ InsertBundle(a) /\ Continue(w, "prepare", a)
      \/ b # NoBundle /\ TakeOver(a, b) /\ Continue(w, "prepare", b)
      \/ b # NoBundle /\ lifecycle[b] = "ready" /\ Continue(w, "commit", b)
           /\ UNCHANGED storeVars
      \/ GiveUp(w, {"transient"}) /\ UNCHANGED storeVars
  BY DEF ReserveContentBundle
<1>6. claim[w] \in Attempts
  BY <1>1 DEF BundleIInv, IInv, TypeOK, WorkerClaims
<1>7. QED
  BY <1>1, <1>2, <1>3, <1>4, <1>5, <1>6, InsertBundleInv, TakeOverInv

\* claim_next: the new attempt's id is not known to any bundle.
LEMMA StartAttemptInv ==
    ASSUME BundleIInv, IInv', NEW w \in Workers, StartAttempt(w),
           \A a \in Attempts : attemptState'[a] = "absent" => attemptState[a] = "absent"
    PROVE  BundleIInv'
<1> USE DEF BundleIInv
<1>1. PICK j \in Jobs : GrantLease(w, j)
  BY DEF StartAttempt, ClaimNext
<1>2. PICK attempt \in Attempts :
        /\ claim' = [claim EXCEPT ![w] = attempt]
        /\ attemptState[attempt] = "absent"
  <2>1. /\ attemptCount[j] \in Nat /\ attemptCount[j] < MaxAttempts
    BY <1>1, MaxAttemptsAssumption DEF IInv, TypeOK, GrantLease
  <2>2. NextAttempt(j) \in Attempts
    BY <2>1, AttemptIdentity, MaxAttemptsAssumption DEF NextAttempt
  <2>3. attemptState[NextAttempt(j)] = "absent"
    BY <2>1, <2>2, AttemptFields DEF IInv, StartedAttempts, NextAttempt
  <2>4. QED
    BY <1>1, <2>2, <2>3 DEF GrantLease
<1>3. /\ UNCHANGED <<lifecycle, creator, creatorLease, manifest, swept, contentAlias, rawAlias,
                     versionBundle, prefixOf, eligible, objects, version>>
      /\ pc' = [pc EXCEPT ![w] = "processing"]
      /\ phase' = [phase EXCEPT ![w] = "lookup"]
      /\ target' = [target EXCEPT ![w] = NoBundle]
  BY <1>1 DEF StartAttempt, ClaimNext, GrantLease, Goto, Enter, storeVars, bundleVars,
              aliasVars, prefixVars
<1>4. pc \in [Workers -> {"idle", "recovered", "processing", "failing", "dead"}]
      /\ claim \in [Workers -> Attempts \union {NoAttempt}]
  BY DEF IInv, TypeOK
<1>5. BundleTypeOK'
  BY <1>3 DEF BundleTypeOK, Deciding
<1>6. PhasesMatch'
  BY <1>2, <1>3, <1>4 DEF PhasesMatch, BundleTypeOK, Deciding, Writing
<1>7. \A x \in Bundles : Unborn(x)' => Unborn(x)
  BY <1>2, <1>3, <1>4 DEF Unborn, BundleTypeOK, Bundles
<1>8. UnbornBundlesAreUnknown'
  BY <1>3, <1>7, NoAttemptAssumption
     DEF UnbornBundlesAreUnknown, BundleTypeOK, Bundles, NoBundle
<1>9. LiveBundles' /\ AliasesAgree' /\ VersionsHaveBundles' /\ ReadyWhileReferenced'
  BY <1>3 DEF LiveBundles, AliasesAgree, VersionsHaveBundles, ReadyWhileReferenced
<1>10. /\ \A x \in Bundles : manifest[x] # attempt
       /\ ~eligible[attempt]
  BY <1>2 DEF UnbornBundlesAreUnknown, Unborn, Bundles
<1>11. ManifestsStand' /\ SweptPrefixesAreIdle'
  BY <1>2, <1>3, <1>4, <1>10 DEF ManifestsStand, SweptPrefixesAreIdle
<1>12. WritersAreUndisturbed'
  BY <1>2, <1>3, <1>4 DEF WritersAreUndisturbed, BundleTypeOK, Writing
<1>13. QED
  BY <1>5, <1>6, <1>8, <1>9, <1>11, <1>12

\* prepare_bundle_writes: the prefix is the target's, and no winner's.
LEMMA PrepareWritesInv ==
    ASSUME BundleIInv, IInv', NEW w \in Workers, PrepareBundleWrites(w)
    PROVE  BundleIInv'
<1> USE DEF BundleIInv
<1>1. pc[w] = "processing" /\ phase[w] = "prepare"
  BY DEF PrepareBundleWrites
<1>2. CASE GiveUp(w, {"transient"}) /\ UNCHANGED storeVars
  BY <1>2, GivingUpInv DEF GiveUp, FailureClasses
<1>3. CASE /\ prefixOf' = [prefixOf EXCEPT ![claim[w]] = target[w]]
           /\ Continue(w, "promote", target[w])
           /\ UNCHANGED <<eligible, objects, bundleVars, aliasVars, versionBundle>>
  <2>1. PICK a \in Attempts : claim[w] = a /\ \A v \in Workers : claim[v] = a => v = w
    BY <1>1, NoAttemptAssumption DEF IInv, TypeOK, WorkerClaims, ClaimsAreDistinct
  <2>2. PICK b \in Bundles : target[w] = b
    BY <1>1 DEF PhasesMatch, Writing, BundleTypeOK
  <2>3. /\ UNCHANGED <<pc, claim, version, attemptState, target, eligible, objects,
                       lifecycle, creator, creatorLease, manifest, swept, contentAlias,
                       rawAlias, versionBundle>>
        /\ phase' = [phase EXCEPT ![w] = "promote"]
        /\ prefixOf' = [prefixOf EXCEPT ![a] = b]
    BY <1>3, <2>1, <2>2
       DEF Continue, Enter, vars, rowVars, sessionVars, jobVars, workerVars, bundleVars,
           aliasVars, BundleTypeOK
  <2>4. BundleTypeOK'
    BY <2>3 DEF BundleTypeOK, Writing
  <2>5. PhasesMatch'
    BY <1>1, <2>3 DEF PhasesMatch, Deciding, Writing, BundleTypeOK
  <2>6. \A x \in Bundles : Unborn(x)' => Unborn(x)
    BY <2>3, UnbornEarlier DEF BundleTypeOK, Deciding
  <2>7. UnbornBundlesAreUnknown'
    BY <2>3, <2>6 DEF UnbornBundlesAreUnknown
  <2>8. LiveBundles' /\ AliasesAgree' /\ VersionsHaveBundles' /\ ReadyWhileReferenced'
        /\ SweptPrefixesAreIdle'
    BY <2>3 DEF LiveBundles, AliasesAgree, VersionsHaveBundles, ReadyWhileReferenced,
                SweptPrefixesAreIdle
  <2>9. ManifestsStand'
    <3>1. \A x \in Bundles : manifest[x] # a
      BY <1>1, <2>1, NoAttemptAssumption DEF ManifestsStand
    <3>2. QED
      BY <2>3, <3>1 DEF ManifestsStand, BundleTypeOK
  <2>10. WritersAreUndisturbed'
    BY <2>1, <2>2, <2>3 DEF WritersAreUndisturbed, BundleTypeOK
  <2>11. QED
    BY <2>4, <2>5, <2>7, <2>8, <2>9, <2>10
<1>4. QED
  BY <1>2, <1>3 DEF PrepareBundleWrites, storeVars, prefixVars

\* promote_manifest writes under the attempt's own prefix, which has not won.
LEMMA PromoteInv ==
    ASSUME BundleIInv, IInv', NEW w \in Workers, PromoteManifest(w)
    PROVE  BundleIInv'
<1> USE DEF BundleIInv
<1>1. pc[w] = "processing" /\ phase[w] \in {"promote", "finish"}
  BY DEF PromoteManifest
<1>2. CASE Fail(w, "transient") /\ Abandon(w) /\ UNCHANGED <<rowVars, storeVars>>
  <2>1. \E label \in {"abandon", "record"} : Enter(w, label, NoBundle)
    BY <1>2 DEF Abandon
  <2>2. QED
    BY <1>1, <1>2, <2>1, GivingUpInv DEF FailureClasses
<1>3. CASE /\ \/ /\ phase[w] = "promote"
                 /\ objects' = [objects EXCEPT ![claim[w]] = "partial"]
                 /\ Continue(w, "finish", target[w])
              \/ /\ phase[w] = "finish"
                 /\ objects' = [objects EXCEPT
                      ![claim[w]] = IF @ = "partial" THEN "complete" ELSE "partial"]
                 /\ Continue(w, "commit", target[w])
           /\ UNCHANGED <<bundleVars, aliasVars, versionBundle, prefixOf, eligible>>
  <2>1. PICK a \in Attempts : claim[w] = a /\ \A v \in Workers : claim[v] = a => v = w
    BY <1>1, NoAttemptAssumption DEF IInv, TypeOK, WorkerClaims, ClaimsAreDistinct
  <2>2. PICK label \in {"finish", "commit"}, stored \in {"partial", "complete"} :
          /\ phase' = [phase EXCEPT ![w] = label]
          /\ objects' = [objects EXCEPT ![a] = stored]
          /\ label = "finish" => phase[w] = "promote" /\ stored = "partial"
          /\ label = "commit" =>
               phase[w] = "finish" /\ (objects[a] = "partial" => stored = "complete")
    BY <1>3, <2>1 DEF Continue, Enter
  <2>3. UNCHANGED <<pc, claim, version, attemptState, target, eligible, prefixOf,
                    lifecycle, creator, creatorLease, manifest, swept, contentAlias,
                    rawAlias, versionBundle>>
    BY <1>3
       DEF Continue, Enter, vars, rowVars, sessionVars, jobVars, workerVars, bundleVars,
           aliasVars, BundleTypeOK
  <2>4. BundleTypeOK'
    BY <2>2, <2>3 DEF BundleTypeOK, Writing
  <2>5. PhasesMatch'
    BY <1>1, <2>2, <2>3 DEF PhasesMatch, Deciding, Writing, BundleTypeOK
  <2>6. \A x \in Bundles : Unborn(x)' => Unborn(x)
    BY <2>2, <2>3, UnbornEarlier DEF BundleTypeOK, Deciding
  <2>7. UnbornBundlesAreUnknown'
    BY <2>3, <2>6 DEF UnbornBundlesAreUnknown
  <2>8. LiveBundles' /\ AliasesAgree' /\ VersionsHaveBundles' /\ ReadyWhileReferenced'
        /\ SweptPrefixesAreIdle'
    BY <2>3 DEF LiveBundles, AliasesAgree, VersionsHaveBundles, ReadyWhileReferenced,
                SweptPrefixesAreIdle
  <2>9. ManifestsStand'
    <3>1. \A x \in Bundles : manifest[x] # a
      BY <1>1, <2>1, NoAttemptAssumption DEF ManifestsStand
    <3>2. QED
      BY <2>2, <2>3, <3>1 DEF ManifestsStand, BundleTypeOK
  <2>10. WritersAreUndisturbed'
    <3>1. prefixOf[a] = target[w]
      BY <1>1, <2>1 DEF WritersAreUndisturbed
    <3>2. \A v \in Workers : v # w => phase'[v] = phase[v] /\ objects'[claim[v]] = objects[claim[v]]
      BY <2>1, <2>2 DEF BundleTypeOK
    <3>3. phase'[w] = label /\ objects'[a] = stored
      BY <2>2 DEF BundleTypeOK
    <3>4. QED
      BY <2>1, <2>2, <2>3, <3>1, <3>2, <3>3 DEF WritersAreUndisturbed
  <2>11. QED
    BY <2>4, <2>5, <2>7, <2>8, <2>9, <2>10
<1>4. QED
  BY <1>2, <1>3 DEF PromoteManifest, storeVars, prefixVars

\* mark_attempt_cleanup_eligible, for an attempt its Worker has given up.
LEMMA MarkInv ==
    ASSUME BundleIInv, IInv', NEW w \in Workers, MarkCleanupEligible(w)
    PROVE  BundleIInv'
<1> USE DEF BundleIInv
<1>1. pc[w] = "failing" /\ phase[w] = "abandon"
  BY DEF MarkCleanupEligible
<1>2. PICK a \in Attempts : /\ claim[w] = a
                            /\ attemptState[a] # "absent"
                            /\ \A v \in Workers : claim[v] = a => v = w
  BY <1>1, NoAttemptAssumption DEF IInv, TypeOK, WorkerClaims, ClaimsAreDistinct
<1>3. PICK marked \in BOOLEAN :
        /\ eligible' = [eligible EXCEPT ![a] = marked]
        /\ eligible[a] => marked
  <2>1. \/ eligible' = [eligible EXCEPT ![a] = eligible[a] \/ AttemptRow(a)]
        \/ eligible' = [eligible EXCEPT ![a] = eligible[a]]
    BY <1>2 DEF MarkCleanupEligible, BundleTypeOK
  <2>2. eligible[a] \in BOOLEAN /\ AttemptRow(a) \in BOOLEAN
    BY DEF BundleTypeOK, AttemptRow
  <2>3. CASE eligible' = [eligible EXCEPT ![a] = eligible[a] \/ AttemptRow(a)]
    <3> DEFINE marked == eligible[a] \/ AttemptRow(a)
    <3>1. /\ marked \in BOOLEAN
          /\ eligible' = [eligible EXCEPT ![a] = marked]
          /\ eligible[a] => marked
      BY <2>2, <2>3
    <3> HIDE DEF marked
    <3>2. QED
      BY <3>1
  <2>4. QED
    BY <2>1, <2>2, <2>3
<1>4. /\ UNCHANGED <<pc, claim, version, attemptState, prefixOf, objects,
                     lifecycle, creator, creatorLease, manifest, swept, contentAlias,
                     rawAlias, versionBundle>>
      /\ phase' = [phase EXCEPT ![w] = "record"]
      /\ target' = [target EXCEPT ![w] = NoBundle]
  BY DEF MarkCleanupEligible, Continue, Enter, vars, rowVars, sessionVars, jobVars,
         workerVars, bundleVars, aliasVars
<1>5. BundleTypeOK'
  BY <1>3, <1>4 DEF BundleTypeOK, Bundles
<1>6. PhasesMatch'
  BY <1>1, <1>4 DEF PhasesMatch, Deciding, Writing, BundleTypeOK
<1>7. \A x \in Bundles : Unborn(x)' => Unborn(x)
  BY <1>4, UnbornEarlier DEF BundleTypeOK, Deciding
<1>8. ~Unborn(a)
  BY <1>1, <1>2 DEF Unborn, Deciding
<1>9. UnbornBundlesAreUnknown'
  BY <1>3, <1>4, <1>7, <1>8, NoAttemptAssumption
     DEF UnbornBundlesAreUnknown, BundleTypeOK, Bundles, NoBundle
<1>10. LiveBundles' /\ AliasesAgree' /\ VersionsHaveBundles' /\ ReadyWhileReferenced'
  BY <1>4 DEF LiveBundles, AliasesAgree, VersionsHaveBundles, ReadyWhileReferenced
<1>11. ManifestsStand' /\ SweptPrefixesAreIdle'
  BY <1>1, <1>2, <1>3, <1>4 DEF ManifestsStand, SweptPrefixesAreIdle, BundleTypeOK
<1>12. WritersAreUndisturbed'
  BY <1>4 DEF WritersAreUndisturbed, BundleTypeOK
<1>13. QED
  BY <1>5, <1>6, <1>9, <1>10, <1>11, <1>12

\* The commit makes its bundle the session's, publishing it first if the Worker
\* is its creator: the winner's objects are then what that Worker wrote.
LEMMA CommitAppliedInv ==
    ASSUME BundleIInv, IInv', NEW w \in Workers, phase[w] = "commit",
           CommitApplied(w, target[w])
    PROVE  BundleIInv'
<1> USE DEF BundleIInv
<1>1. PICK a \in Attempts : claim[w] = a /\ \A v \in Workers : claim[v] = a => v = w
  BY NoAttemptAssumption
     DEF CommitApplied, CommitReadyVersion, IInv, TypeOK, WorkerClaims, ClaimsAreDistinct
<1>2. PICK s \in Sessions : s = SessionOf[a.job]
  BY ContentsOfAttempts
<1>3. PICK b \in Bundles : target[w] = b /\ ContentOfAttempt(b) = ContentOfAttempt(a)
  BY <1>1 DEF PhasesMatch, Writing, BundleTypeOK
<1>4. /\ version[s] = NoAttempt
      /\ version' = [version EXCEPT ![s] = a]
      /\ attemptState[a] = "running"
      /\ attemptState' = [attemptState EXCEPT ![a] = "succeeded"]
      /\ pc[w] = "processing"
  BY <1>1, <1>2 DEF CommitApplied, CommitReadyVersion, MayCommit, FinishReadyStates, AttemptRuns
<1>5. PICK label \in {"none", "record", "abandon"} :
        /\ phase' = [phase EXCEPT ![w] = label]
        /\ target' = [target EXCEPT ![w] = NoBundle]
        /\ label = "none" <=> pc'[w] = "idle"
        /\ label # "none" <=> pc'[w] = "failing"
  BY DEF CommitApplied, Enter, Abandon
<1>6. /\ \A v \in Workers \ {w} : pc'[v] = pc[v] /\ claim'[v] = claim[v]
      /\ claim'[w] \in {a, NoAttempt}
      /\ pc'[w] \in {"idle", "failing"}
  BY <1>1 DEF CommitApplied, CommitReadyVersion, ReturnToIdle, Fail, Goto, IInv, TypeOK
<1>7. /\ rawAlias[RawOfAttempt(a)] \in {NoBundle, b}
      /\ rawAlias' = [rawAlias EXCEPT ![RawOfAttempt(a)] = b]
      /\ versionBundle' = [versionBundle EXCEPT ![s] = b]
      /\ UNCHANGED <<contentAlias, prefixOf, eligible, objects>>
  BY <1>1, <1>2, <1>3 DEF CommitApplied, PromoteRawAlias, prefixVars
<1>8. /\ lifecycle[b] \in {"creating", "ready"}
      /\ lifecycle' = [lifecycle EXCEPT ![b] = "ready"]
      /\ manifest' = [manifest EXCEPT ![b] = IF lifecycle[b] = "ready" THEN manifest[b] ELSE a]
      /\ creatorLease' \in [Bundles -> Nat]
      /\ UNCHANGED <<creator, swept>>
  <2>1. CASE Publish(a, b)
    BY <2>1 DEF Publish, MayPublish, BundleTypeOK
  <2>2. CASE Reuse(b)
    BY <2>2 DEF Reuse, bundleVars, BundleTypeOK
  <2>3. QED
    BY <1>1, <1>3, <2>1, <2>2 DEF CommitApplied
<1>9. /\ ~Unborn(b)
      /\ ~Unborn(a)
      /\ \A x \in Bundles : manifest[x] # a
  BY <1>1, <1>4, <1>8, NoAttemptAssumption
     DEF UnbornBundlesAreUnknown, Unborn, Deciding, ManifestsStand
<1>10. BundleTypeOK'
  BY <1>5, <1>7, <1>8 DEF BundleTypeOK, Bundles
<1>11. PhasesMatch'
  BY <1>5, <1>6, <1>3 DEF PhasesMatch, Deciding, Writing, BundleTypeOK
<1>12. UnbornBundlesAreUnknown'
  <2>1. \A x \in Bundles : Unborn(x)' => Unborn(x)
    BY <1>4, <1>5, <1>6, UnbornEarlier DEF BundleTypeOK, Deciding, IInv, TypeOK
  <2>2. \A x \in Bundles : Unborn(x) => x # a /\ x # b /\ x # NoBundle
    BY <1>9, NoAttemptAssumption DEF Bundles, NoBundle
  <2>3. QED
    BY <1>5, <1>7, <1>8, <2>1, <2>2 DEF UnbornBundlesAreUnknown, BundleTypeOK
<1>13. LiveBundles'
  BY <1>7, <1>8 DEF LiveBundles, BundleTypeOK
<1>14. AliasesAgree'
  <2>1. \A x \in Bundles : lifecycle'[x] = "ready" => contentAlias[ContentOfAttempt(x)] = x
    BY <1>8 DEF LiveBundles, BundleTypeOK
  <2>2. \A c \in Contents : contentAlias[c] # NoBundle =>
          lifecycle'[contentAlias[c]] # "absent" /\ ContentOfAttempt(contentAlias[c]) = c
    BY <1>8 DEF AliasesAgree, BundleTypeOK
  <2>3. \A r \in Raws : rawAlias'[r] # NoBundle =>
          lifecycle'[rawAlias'[r]] = "ready" /\ ContentOfAttempt(rawAlias'[r]) = ContentOf[r]
    BY <1>3, <1>7, <1>8, ContentsOfAttempts DEF AliasesAgree, BundleTypeOK
  <2>4. QED
    BY <1>7, <2>1, <2>2, <2>3 DEF AliasesAgree
<1>15. VersionsHaveBundles' /\ ReadyWhileReferenced'
  <2>1. /\ versionBundle[s] = NoBundle /\ b # NoBundle /\ a # NoAttempt
        /\ \A x \in Bundles : x # NoBundle
    BY <1>4, NoAttemptAssumption DEF VersionsHaveBundles, Bundles, NoBundle
  <2>2. VersionsHaveBundles'
    BY <1>4, <1>7, <2>1 DEF VersionsHaveBundles, BundleTypeOK, IInv, TypeOK
  <2>3. ASSUME NEW x \in Bundles
        PROVE  (lifecycle'[x] = "ready") <=> \E t \in Sessions : versionBundle'[t] = x
    <3>1. CASE x = b
      BY <1>7, <1>8, <3>1 DEF BundleTypeOK
    <3>2. CASE x # b
      <4>1. lifecycle'[x] = lifecycle[x]
        BY <1>8, <3>2 DEF BundleTypeOK
      <4>2. \A t \in Sessions : versionBundle'[t] = x <=> versionBundle[t] = x
        BY <1>7, <2>1, <3>2 DEF BundleTypeOK
      <4>3. QED
        BY <4>1, <4>2 DEF ReadyWhileReferenced
    <3>3. QED
      BY <3>1, <3>2
  <2>4. QED
    BY <2>2, <2>3 DEF ReadyWhileReferenced
<1>16. ManifestsStand' /\ SweptPrefixesAreIdle'
  <2>1. \A v \in Workers : pc'[v] = "processing" => v # w /\ pc[v] = "processing" /\ claim'[v] = claim[v]
    BY <1>6
  <2>2. \A v \in Workers : v # w => claim[v] # a
    BY <1>1
  <2>3. lifecycle[b] # "ready" => prefixOf[a] = b /\ objects[a] = "complete" /\ a # NoAttempt
    BY <1>1, <1>3, <1>8, NoAttemptAssumption DEF WritersAreUndisturbed
  <2>4. \A x \in Bundles : /\ x # b => lifecycle'[x] = lifecycle[x] /\ manifest'[x] = manifest[x]
                           /\ lifecycle'[b] = "ready"
                           /\ manifest'[b] = IF lifecycle[b] = "ready" THEN manifest[b] ELSE a
    BY <1>8 DEF BundleTypeOK
  <2>5. ManifestsStand'
    BY <1>7, <2>1, <2>2, <2>3, <2>4 DEF ManifestsStand
  <2>6. SweptPrefixesAreIdle'
    BY <1>7, <2>1 DEF SweptPrefixesAreIdle
  <2>7. QED
    BY <2>5, <2>6
<1>17. WritersAreUndisturbed'
  BY <1>5, <1>6, <1>7, <1>8 DEF WritersAreUndisturbed, BundleTypeOK
<1>18. QED
  BY <1>10, <1>11, <1>12, <1>13, <1>14, <1>15, <1>16, <1>17

\* commit_content_bundle_version: applied, already done or refused.
LEMMA CommitInv ==
    ASSUME BundleIInv, IInv', NEW w \in Workers, CommitBundleVersion(w)
    PROVE  BundleIInv'
<1>1. pc[w] = "processing" /\ phase[w] = "commit"
  BY DEF CommitBundleVersion
<1>2. CASE CommitApplied(w, target[w])
  BY <1>1, <1>2, CommitAppliedInv
<1>3. CASE /\ CommitAlreadyDone(w)
           /\ Enter(w, IF pc'[w] = "idle" THEN "none" ELSE "record", NoBundle)
           /\ UNCHANGED storeVars
  <2>1. UNCHANGED rowVars /\ UNCHANGED <<version, attemptState>>
    BY <1>3 DEF CommitAlreadyDone, rowVars, sessionVars, jobVars
  <2>2. pc \in [Workers -> {"idle", "recovered", "processing", "failing", "dead"}]
    BY DEF BundleIInv, IInv, TypeOK
  <2>3. CASE ReturnToIdle(w)
    <3>1. pc'[w] = "idle"
      BY <2>2, <2>3 DEF ReturnToIdle, Goto
    <3>2. QED
      BY <1>3, <2>1, <2>3, <3>1, LeavesInv
  <2>4. CASE Fail(w, "transient")
    <3>1. pc'[w] # "idle"
      BY <2>2, <2>4 DEF Fail, Goto
    <3>2. "transient" \in FailureClasses
      BY DEF FailureClasses
    <3>3. QED
      BY <1>1, <1>3, <2>1, <2>4, <3>1, <3>2, GivingUpInv
  <2>5. QED
    BY <1>3, <2>3, <2>4 DEF CommitAlreadyDone
<1>4. CASE Fail(w, "transient") /\ Abandon(w) /\ UNCHANGED <<rowVars, storeVars>>
  <2>1. \E label \in {"abandon", "record"} : Enter(w, label, NoBundle)
    BY <1>4 DEF Abandon
  <2>2. QED
    BY <1>1, <1>4, <2>1, GivingUpInv DEF FailureClasses
<1>5. QED
  BY <1>2, <1>3, <1>4 DEF CommitBundleVersion

\* Every step of a Worker, its crash and its heartbeat.
LEMMA BundleWorkerInv ==
    ASSUME BundleIInv, IInv', NEW w \in Workers,
           BundleWorkerStep(w) \/ Unnoticed(Heartbeat(w)) \/ BundleCrash(w),
           \A a \in Attempts : attemptState'[a] = "absent" => attemptState[a] = "absent"
    PROVE  BundleIInv'
<1>1. CASE Unnoticed(WorkerRecover(w)) \/ Unnoticed(ClaimNothing(w)) \/ Unnoticed(Heartbeat(w))
  <2>1. UNCHANGED <<storeVars, phaseVars, claim, version>>
    BY <1>1 DEF Unnoticed, WorkerRecover, RecoverExpiredLeases, ClaimNothing, Heartbeat,
                rowVars, sessionVars, workerVars
  <2>2. \A v \in Workers : \/ pc'[v] = pc[v]
                           \/ {pc[v], pc'[v]} \subseteq {"idle", "recovered"}
    BY <1>1 DEF Unnoticed, WorkerRecover, ClaimNothing, Heartbeat, Goto, workerVars,
                BundleIInv, IInv, TypeOK
  <2>3. creatorLease' \in [Bundles -> Nat]
    BY <2>1 DEF BundleIInv, BundleTypeOK, storeVars, bundleVars
  <2>4. UNCHANGED <<lifecycle, creator, manifest, swept, aliasVars, versionBundle,
                    prefixVars, phaseVars, claim, version>>
    BY <2>1 DEF storeVars, bundleVars
  <2>5. QED
    BY <2>2, <2>3, <2>4, UnnoticedInv
<1>2. CASE FinishAttempt(w) \/ BundleCrash(w)
  <2>1. UNCHANGED version
    BY <1>2 DEF FinishAttempt, RecordFailure, FailAttempt, BundleCrash, Crash, rowVars, sessionVars
  <2>2. QED
    BY <1>2, <2>1, LeavesInv DEF FinishAttempt, RecordFailure, BundleCrash, Crash
<1>3. QED
  BY <1>1, <1>2, StartAttemptInv, LookupInv, ReserveInv, PrepareWritesInv, PromoteInv,
     CommitInv, MarkInv DEF BundleWorkerStep

-----------------------------------------------------------------------------
(* The API and Reconciliation.                                             *)

\* deleteOwned retires the bundles no other Artifact's Version references.
LEMMA BundleDeleteInv ==
    ASSUME BundleIInv, IInv', NEW artifact \in Artifacts, BundleDeleteArtifact(artifact),
           \A a \in Attempts : attemptState'[a] = "absent" => attemptState[a] = "absent"
    PROVE  BundleIInv'
<1> USE DEF BundleIInv
<1> DEFINE others(x) == \E s \in Sessions : ArtifactOf[s] # artifact /\ versionBundle[s] = x
           own(x)    == \E s \in Sessions : ArtifactOf[s] = artifact /\ versionBundle[s] = x
<1>1. /\ DeleteArtifact(artifact)
      /\ DeleteArtifactBundles(artifact)
      /\ UNCHANGED <<phase, target, pc, claim>>
  BY DEF BundleDeleteArtifact, DeleteArtifact, phaseVars, workerVars
<1>2. PICK orphaned \in SUBSET Bundles :
        /\ \A x \in Bundles : x \in orphaned <=> own(x) /\ ~others(x)
        /\ \A x \in Bundles : lifecycle'[x] = IF x \in orphaned THEN "deleting" ELSE lifecycle[x]
        /\ \A x \in Bundles : creator'[x] \in {creator[x], NoAttempt}
        /\ \A x \in Bundles : ~own(x) => creator'[x] = creator[x]
        /\ contentAlias' = [c \in Contents |->
             IF contentAlias[c] \in orphaned THEN NoBundle ELSE contentAlias[c]]
        /\ rawAlias' = [r \in Raws |-> IF rawAlias[r] \in orphaned THEN NoBundle ELSE rawAlias[r]]
        /\ lifecycle' \in [Bundles -> {"absent", "creating", "ready", "deleting"}]
        /\ creator' \in [Bundles -> Attempts \union {NoAttempt}]
  <2> DEFINE shared   == {x \in BundlesOf(artifact) : ReferencedByOthers(x, artifact)}
             orphaned == BundlesOf(artifact) \ shared
  <2>1. \A x \in Bundles : /\ x \in BundlesOf(artifact) <=> own(x)
                           /\ ReferencedByOthers(x, artifact) <=> others(x)
    BY NoAttemptAssumption DEF BundlesOf, SessionsOf, ReferencedByOthers, Bundles, NoBundle
  <2>2. orphaned \in SUBSET Bundles
    BY DEF BundlesOf, SessionsOf, BundleTypeOK
  <2>3. /\ lifecycle' = [b \in Bundles |-> IF b \in orphaned THEN "deleting" ELSE lifecycle[b]]
        /\ creator' = [b \in Bundles |->
             IF b \in orphaned \/ (b \in shared /\ creator[b] \in AttemptsOf(artifact))
             THEN NoAttempt ELSE creator[b]]
        /\ contentAlias' = [c \in Contents |-> RetiredBy(orphaned, contentAlias[c])]
        /\ rawAlias' = [r \in Raws |-> RetiredBy(orphaned, rawAlias[r])]
    BY <1>1 DEF DeleteArtifactBundles
  <2>4. /\ \A x \in Bundles : x \in orphaned <=> own(x) /\ ~others(x)
        /\ \A x \in shared : x \in BundlesOf(artifact)
    BY <2>1
  <2> HIDE DEF orphaned, shared, own, others
  <2>5. /\ \A x \in Bundles : lifecycle'[x] = IF x \in orphaned THEN "deleting" ELSE lifecycle[x]
        /\ \A x \in Bundles : creator'[x] \in {creator[x], NoAttempt}
        /\ \A x \in Bundles : ~own(x) => creator'[x] = creator[x]
        /\ lifecycle' \in [Bundles -> {"absent", "creating", "ready", "deleting"}]
        /\ creator' \in [Bundles -> Attempts \union {NoAttempt}]
    BY <2>1, <2>3, <2>4 DEF BundleTypeOK
  <2>6. /\ contentAlias' = [c \in Contents |->
             IF contentAlias[c] \in orphaned THEN NoBundle ELSE contentAlias[c]]
        /\ rawAlias' = [r \in Raws |-> IF rawAlias[r] \in orphaned THEN NoBundle ELSE rawAlias[r]]
    BY <2>3 DEF RetiredBy
  <2>7. QED
    BY <2>2, <2>4, <2>5, <2>6
<1>3. /\ versionBundle' = [s \in Sessions |->
           IF ArtifactOf[s] = artifact THEN NoBundle ELSE versionBundle[s]]
      /\ UNCHANGED <<creatorLease, manifest, swept, prefixOf, eligible, objects>>
  BY <1>1 DEF DeleteArtifactBundles, prefixVars
<1>4. \A s \in Sessions : version'[s] =
        IF ArtifactOf[s] = artifact THEN NoAttempt ELSE version[s]
  <2>1. \A s \in Sessions : version[s] # NoAttempt => sessionState[s] = "committed"
    BY DEF IInv, OneAttemptCommits
  <2>2. QED
    BY <1>1, <2>1 DEF DeleteArtifact
<1>5. \A x \in Bundles : /\ x # NoBundle
                         /\ ContentOfAttempt(x) \in Contents
                         /\ own(x) \/ others(x) <=> lifecycle[x] = "ready"
  BY ContentsOfAttempts, NoAttemptAssumption DEF ReadyWhileReferenced, Bundles, NoBundle
<1>6. \A x \in Bundles : /\ lifecycle'[x] = "ready" <=> lifecycle[x] = "ready" /\ x \notin orphaned
                         /\ lifecycle'[x] = "creating" <=> lifecycle[x] = "creating"
                         /\ lifecycle'[x] = "absent" <=> lifecycle[x] = "absent"
                         /\ lifecycle[x] = "deleting" => lifecycle'[x] = "deleting"
  BY <1>2, <1>5
<1>7. BundleTypeOK'
  BY <1>1, <1>2, <1>3 DEF BundleTypeOK
<1>8. PhasesMatch'
  BY <1>1 DEF PhasesMatch
<1>9. UnbornBundlesAreUnknown'
  BY <1>1, <1>3, <1>6, UnbornEarlier DEF UnbornBundlesAreUnknown
<1>10. LiveBundles'
  <2>1. \A x \in Bundles : lifecycle[x] = "creating" => ~own(x)
    BY <1>5
  <2> HIDE DEF own, others
  <2>2. QED
    BY <1>2, <1>3, <1>5, <1>6, <2>1 DEF LiveBundles
<1>11. AliasesAgree'
  <2> HIDE DEF own, others
  <2>1. \A x \in Bundles : lifecycle'[x] = "ready" => contentAlias'[ContentOfAttempt(x)] = x
    BY <1>2, <1>5, <1>6 DEF AliasesAgree
  <2>2. \A c \in Contents : contentAlias'[c] # NoBundle =>
          lifecycle'[contentAlias'[c]] # "absent" /\ ContentOfAttempt(contentAlias'[c]) = c
    BY <1>2, <1>6 DEF AliasesAgree, BundleTypeOK
  <2>3. \A r \in Raws : rawAlias'[r] # NoBundle =>
          lifecycle'[rawAlias'[r]] = "ready" /\ ContentOfAttempt(rawAlias'[r]) = ContentOf[r]
    BY <1>2, <1>6 DEF AliasesAgree, BundleTypeOK
  <2>4. QED
    BY <2>1, <2>2, <2>3 DEF AliasesAgree
<1>12. VersionsHaveBundles'
  BY <1>3, <1>4 DEF VersionsHaveBundles
<1>13. ReadyWhileReferenced'
  <2>1. \A x \in Bundles : (\E s \in Sessions : versionBundle'[s] = x) <=> others(x)
    BY <1>3, <1>5
  <2>2. \A x \in Bundles : lifecycle'[x] = "ready" <=> others(x)
    <3> HIDE DEF own, others
    <3>1. QED
      BY <1>2, <1>5, <1>6
  <2>3. QED
    BY <2>1, <2>2 DEF ReadyWhileReferenced
<1>14. ManifestsStand' /\ SweptPrefixesAreIdle'
  BY <1>1, <1>3, <1>6 DEF ManifestsStand, SweptPrefixesAreIdle
<1>15. WritersAreUndisturbed'
  <2>1. \A v \in Workers : phase[v] \in {"finish", "commit"} => target[v] \in Bundles
    BY DEF PhasesMatch, BundleTypeOK, Writing
  <2>2. QED
    BY <1>1, <1>3, <1>6, <2>1 DEF WritersAreUndisturbed
<1>16. QED
  BY <1>7, <1>8, <1>9, <1>10, <1>11, <1>12, <1>13, <1>14, <1>15

\* Recovery of a bundle whose creator's job is over: it is not referenced.
LEMMA RecoverBundleInv ==
    ASSUME BundleIInv, IInv', NEW b \in Bundles, RecoverExpiredCreatingBundle(b)
    PROVE  BundleIInv'
<1> USE DEF BundleIInv
<1>1. /\ lifecycle[b] = "creating"
      /\ lifecycle' = [lifecycle EXCEPT ![b] = "deleting"]
      /\ creator' = [creator EXCEPT ![b] = NoAttempt]
      /\ UNCHANGED <<creatorLease, manifest, swept, contentAlias, rawAlias, versionBundle,
                     prefixOf, eligible, objects, phase, target, pc, claim, version, attemptState>>
  BY DEF RecoverExpiredCreatingBundle, aliasVars, prefixVars, phaseVars, vars, rowVars,
         sessionVars, jobVars, workerVars
<1>2. \A x \in Bundles : /\ lifecycle'[x] = IF x = b THEN "deleting" ELSE lifecycle[x]
                         /\ x # b => creator'[x] = creator[x]
  BY <1>1 DEF BundleTypeOK
<1>3. BundleTypeOK' /\ PhasesMatch'
  BY <1>1 DEF BundleTypeOK, PhasesMatch
<1>4. UnbornBundlesAreUnknown'
  BY <1>1, <1>2, UnbornEarlier DEF UnbornBundlesAreUnknown
<1>5. LiveBundles' /\ VersionsHaveBundles' /\ ReadyWhileReferenced'
  BY <1>1, <1>2 DEF LiveBundles, VersionsHaveBundles, ReadyWhileReferenced
<1>6. AliasesAgree'
  BY <1>1, <1>2 DEF AliasesAgree, BundleTypeOK
<1>7. ManifestsStand' /\ SweptPrefixesAreIdle'
  BY <1>1, <1>2 DEF ManifestsStand, SweptPrefixesAreIdle
<1>8. WritersAreUndisturbed'
  BY <1>1, <1>2 DEF WritersAreUndisturbed, PhasesMatch, Writing, BundleTypeOK
<1>9. QED
  BY <1>3, <1>4, <1>5, <1>6, <1>7, <1>8

\* The removal of a bundle's objects, and of an attempt's: neither can be those
\* of a ready bundle's winner or of a Worker whose bundle is still being created.
LEMMA RemoveObjectsInv ==
    ASSUME BundleIInv, IInv',
           \/ \E b \in Bundles : RemoveBundleObjects(b)
           \/ \E a \in Attempts : SweepAttemptPrefix(a)
    PROVE  BundleIInv'
<1> USE DEF BundleIInv
<1>1. UNCHANGED <<lifecycle, creator, creatorLease, manifest, contentAlias, rawAlias, versionBundle,
                  prefixOf, eligible, phase, target, pc, claim, version, attemptState>>
  BY DEF RemoveBundleObjects, SweepAttemptPrefix, bundleVars, aliasVars, phaseVars, vars,
         rowVars, sessionVars, jobVars, workerVars
<1>2. /\ objects' \in [Attempts -> {"none", "partial", "complete"}]
      /\ swept' \in [Bundles -> BOOLEAN]
      /\ \A x \in Bundles : swept'[x] => swept[x] \/ lifecycle[x] = "deleting"
      /\ \A a \in Attempts : objects'[a] # objects[a] =>
           eligible[a] \/ (prefixOf[a] \in Bundles /\ lifecycle[prefixOf[a]] = "deleting")
  <2>1. CASE \E b \in Bundles : RemoveBundleObjects(b)
    <3>1. PICK b \in Bundles : RemoveBundleObjects(b)
      BY <2>1
    <3>2. /\ lifecycle[b] = "deleting"
          /\ objects' = [a \in Attempts |-> IF prefixOf[a] = b THEN "none" ELSE objects[a]]
          /\ swept' = [swept EXCEPT ![b] = TRUE]
      BY <3>1 DEF RemoveBundleObjects
    <3>3. QED
      BY <3>2 DEF BundleTypeOK
  <2>2. CASE \E a \in Attempts : SweepAttemptPrefix(a)
    BY <2>2 DEF SweepAttemptPrefix, bundleVars, BundleTypeOK
  <2>3. QED
    BY <2>1, <2>2
<1>3. BundleTypeOK' /\ PhasesMatch'
  BY <1>1, <1>2 DEF BundleTypeOK, PhasesMatch
<1>4. UnbornBundlesAreUnknown'
  BY <1>1, UnbornEarlier DEF UnbornBundlesAreUnknown
<1>5. /\ LiveBundles' /\ VersionsHaveBundles' /\ ReadyWhileReferenced'
      /\ AliasesAgree' /\ SweptPrefixesAreIdle'
  BY <1>1, <1>2 DEF LiveBundles, VersionsHaveBundles, ReadyWhileReferenced, AliasesAgree,
                    SweptPrefixesAreIdle
<1>6. ManifestsStand'
  BY <1>1, <1>2 DEF ManifestsStand, BundleTypeOK
<1>7. WritersAreUndisturbed'
  <2>1. \A v \in Workers : phase[v] \in {"finish", "commit"} =>
          claim[v] \in Attempts /\ ~eligible[claim[v]]
    BY DEF PhasesMatch, Writing, IInv, TypeOK, WorkerClaims, SweptPrefixesAreIdle
  <2>2. QED
    BY <1>1, <1>2, <2>1 DEF WritersAreUndisturbed
<1>8. QED
  BY <1>3, <1>4, <1>5, <1>6, <1>7

\* completeContentBundleCleanup: the row and whatever leads to it.
LEMMA CompleteCleanupInv ==
    ASSUME BundleIInv, IInv', NEW b \in Bundles, CompleteBundleCleanup(b)
    PROVE  BundleIInv'
<1> USE DEF BundleIInv
<1>1. /\ lifecycle' = [lifecycle EXCEPT ![b] = "absent"]
      /\ manifest' = [manifest EXCEPT ![b] = NoAttempt]
      /\ swept' = [swept EXCEPT ![b] = FALSE]
      /\ contentAlias' = [c \in Contents |-> IF contentAlias[c] = b THEN NoBundle ELSE contentAlias[c]]
      /\ rawAlias' = [r \in Raws |-> IF rawAlias[r] = b THEN NoBundle ELSE rawAlias[r]]
      /\ UNCHANGED <<creator, creatorLease, versionBundle, prefixOf, eligible, objects,
                     phase, target, pc, claim, version, attemptState>>
  BY DEF CompleteBundleCleanup, RetiredBy, prefixVars, phaseVars, vars, rowVars,
         sessionVars, jobVars, workerVars
<1>2. lifecycle[b] = "deleting"
  BY DEF CompleteBundleCleanup, LiveBundles
<1>3. \A x \in Bundles : /\ lifecycle'[x] = IF x = b THEN "absent" ELSE lifecycle[x]
                         /\ manifest'[x] = IF x = b THEN NoAttempt ELSE manifest[x]
                         /\ swept'[x] => x # b /\ swept[x]
                         /\ x # NoBundle
                         /\ ContentOfAttempt(x) \in Contents
  BY <1>1, ContentsOfAttempts, NoAttemptAssumption DEF BundleTypeOK, Bundles, NoBundle
<1>4. BundleTypeOK' /\ PhasesMatch'
  BY <1>1 DEF BundleTypeOK, PhasesMatch
<1>5. UnbornBundlesAreUnknown'
  BY <1>1, <1>3, UnbornEarlier, NoAttemptAssumption DEF UnbornBundlesAreUnknown, Bundles
<1>6. LiveBundles' /\ VersionsHaveBundles' /\ ReadyWhileReferenced'
  BY <1>1, <1>2, <1>3 DEF LiveBundles, VersionsHaveBundles, ReadyWhileReferenced
<1>7. AliasesAgree'
  BY <1>1, <1>2, <1>3 DEF AliasesAgree, BundleTypeOK
<1>8. ManifestsStand' /\ SweptPrefixesAreIdle'
  BY <1>1, <1>3 DEF ManifestsStand, SweptPrefixesAreIdle
<1>9. WritersAreUndisturbed'
  <2>1. \A v \in Workers : phase[v] \in {"finish", "commit"} => target[v] \in Bundles
    BY DEF PhasesMatch, BundleTypeOK, Writing
  <2>2. QED
    BY <1>1, <1>3, <2>1 DEF WritersAreUndisturbed
<1>10. QED
  BY <1>4, <1>5, <1>6, <1>7, <1>8, <1>9

\* Every step of the system preserves the invariant.
LEMMA BundleNextInv == BundleIInv /\ [BundleNext]_allVars => BundleIInv'
<1> SUFFICES ASSUME BundleIInv, [BundleNext]_allVars PROVE BundleIInv'
  OBVIOUS
<1>1. /\ IInv'
      /\ \A a \in Attempts : attemptState'[a] = "absent" => attemptState[a] = "absent"
  BY BundleStepIsJobStep, NextInv, AttemptsAreNotReborn DEF BundleIInv
<1>2. ASSUME UNCHANGED <<lifecycle, creator, manifest, swept, aliasVars, versionBundle,
                         prefixVars, phaseVars, workerVars, version>>,
             creatorLease' = creatorLease \/ creatorLease' \in [Bundles -> Nat]
      PROVE  BundleIInv'
  BY <1>1, <1>2, UnnoticedInv DEF workerVars, BundleIInv, BundleTypeOK
<1>3. CASE Unnoticed(UploadNext) \/ Unnoticed(Reconcile) \/ UNCHANGED allVars
  <2>1. UNCHANGED <<storeVars, phaseVars, workerVars, version>>
    BY <1>3 DEF Unnoticed, UploadNext, CommitAccepted, CommitVersionUpload, CommitReplacement,
                InsertSession, InsertQueuedJob, QueueManualRetry, Reconcile,
                RecoverExpiredLeases, allVars, vars, rowVars, sessionVars
  <2>2. QED
    BY <1>2, <2>1 DEF storeVars, bundleVars
<1>4. CASE BundleTick
  <2>1. creatorLease' \in [Bundles -> Nat]
    BY <1>4 DEF BundleTick, BundleIInv, BundleTypeOK
  <2>2. UNCHANGED <<lifecycle, creator, manifest, swept, aliasVars, versionBundle,
                    prefixVars, phaseVars, workerVars, version>>
    BY <1>4 DEF BundleTick, Tick, vars, rowVars, sessionVars
  <2>3. QED
    BY <1>2, <2>1, <2>2
<1>5. QED
  BY <1>1, <1>3, <1>4, BundleWorkerInv, BundleDeleteInv, RecoverBundleInv, RemoveObjectsInv,
     CompleteCleanupInv DEF BundleNext, BundleReconcile

-----------------------------------------------------------------------------
(* Theorems about bundles.                                                 *)

\* The inductive invariant holds in every reachable state.
THEOREM BundleInvariance == BundleSpec => []BundleIInv
BY BundleInitInv, BundleNextInv, PTL DEF BundleSpec

\* A bundle is ready exactly while a Version references it, whatever Uploads are
\* deleted and whatever bundles are recovered meanwhile.
THEOREM BundlesAreReferenced == BundleSpec => []ReadyWhileReferenced
<1>1. BundleIInv => ReadyWhileReferenced
  BY DEF BundleIInv
<1>2. QED
  BY <1>1, BundleInvariance, PTL

\* The aliases that decide on reuse lead to the ready bundle of their content,
\* and never past the row they name.
THEOREM AliasesLeadToBundles == BundleSpec => []AliasesAgree
<1>1. BundleIInv => AliasesAgree
  BY DEF BundleIInv
<1>2. QED
  BY <1>1, BundleInvariance, PTL

\* A Version's bundle is ready, and a ready bundle's winner stands.
LEMMA VersionsIntact == BundleIInv => VersionsAreIntact
<1> SUFFICES ASSUME BundleIInv, NEW s \in Sessions, version[s] # NoAttempt
             PROVE  LET b == versionBundle[s]
                    IN  /\ b # NoBundle
                        /\ lifecycle[b] = "ready"
                        /\ manifest[b] # NoAttempt
                        /\ prefixOf[manifest[b]] = b
                        /\ objects[manifest[b]] = "complete" \/ eligible[manifest[b]]
  BY DEF VersionsAreIntact
<1>1. PICK b \in Bundles : b = versionBundle[s] /\ b # NoBundle
  BY DEF BundleIInv, BundleTypeOK, VersionsHaveBundles
<1>2. lifecycle[b] = "ready"
  BY <1>1 DEF BundleIInv, ReadyWhileReferenced
<1>3. QED
  BY <1>1, <1>2 DEF BundleIInv, ManifestsStand

\* Whatever is acknowledged, a Version keeps its bundle and its Manifest, and its
\* objects unless its own Worker scheduled their removal.
THEOREM VersionsStayIntact == BundleSpec => []VersionsAreIntact
BY VersionsIntact, BundleInvariance, PTL

\* A commit publishes what its Worker wrote: the fence of the winner metadata.
LEMMA PublicationIsFenced ==
    ASSUME BundleIInv, NEW w \in Workers, CommitBundleVersion(w)
    PROVE  PublishFenced
<1>1. CASE UNCHANGED bundleVars
  BY <1>1 DEF PublishFenced, bundleVars
<1>2. CASE CommitReadyVersion(w) /\ Publish(claim[w], target[w])
  <2>1. PICK a \in Attempts : claim[w] = a /\ pc[w] = "processing"
    BY <1>2 DEF CommitReadyVersion, BundleIInv, IInv, TypeOK, WorkerClaims
  <2>2. phase[w] = "commit"
    BY DEF CommitBundleVersion
  <2>3. PICK b \in Bundles : target[w] = b
    BY <2>2 DEF BundleIInv, BundleTypeOK, PhasesMatch, Writing
  <2>4. /\ lifecycle[b] = "creating" /\ creator[b] = a /\ creatorLease[b] > 0
        /\ lifecycle' = [lifecycle EXCEPT ![b] = "ready"]
        /\ manifest' = [manifest EXCEPT ![b] = a]
    BY <1>2, <2>1, <2>3 DEF Publish, MayPublish
  <2>5. ActiveAttempt(a)
    BY <1>2, <2>1 DEF CommitReadyVersion, MayCommit, HoldsLease, AttemptRuns, ActiveAttempt
  <2>6. prefixOf[a] = b /\ objects[a] = "complete"
    BY <2>1, <2>2, <2>3, <2>4 DEF BundleIInv, WritersAreUndisturbed
  <2>7. \A x \in Bundles : x # b => lifecycle'[x] = lifecycle[x] /\ manifest'[x] = manifest[x]
    BY <2>4 DEF BundleIInv, BundleTypeOK
  <2>8. manifest'[b] = a
    BY <2>4 DEF BundleIInv, BundleTypeOK
  <2>9. QED
    BY <2>4, <2>5, <2>6, <2>7, <2>8 DEF PublishFenced
<1>3. QED
  BY <1>1, <1>2 DEF CommitBundleVersion, CommitApplied, Reuse, storeVars

\* Winner metadata is written once, by the live creator of the bundle with all of
\* its objects stored: a takeover or an expired lease shuts the others out.
THEOREM PublicationsAreFenced == BundleSpec => FencedPublication
<1>1. BundleIInv /\ [BundleNext]_allVars => [PublishFenced]_allVars
  <2> SUFFICES ASSUME BundleIInv, BundleNext PROVE PublishFenced
    OBVIOUS
  <2>1. CASE UNCHANGED <<lifecycle, manifest>>
    BY <2>1 DEF PublishFenced
  <2>2. ASSUME NEW w \in Workers, BundleWorkerStep(w)
        PROVE  PublishFenced
    <3>1. CASE CommitBundleVersion(w)
      BY <3>1, PublicationIsFenced
    <3>2. CASE ReserveContentBundle(w)
      <4>1. UNCHANGED manifest
        BY <3>2 DEF ReserveContentBundle, InsertBundle, TakeOver, storeVars, bundleVars
      <4>2. UNCHANGED lifecycle \/ lifecycle' = [lifecycle EXCEPT ![claim[w]] = "creating"]
        BY <3>2 DEF ReserveContentBundle, InsertBundle, TakeOver, storeVars, bundleVars
      <4>3. QED
        BY <4>1, <4>2 DEF PublishFenced, BundleIInv, BundleTypeOK
    <3>3. CASE UNCHANGED <<lifecycle, manifest>>
      BY <2>1, <3>3
    <3>4. QED
      BY <2>2, <3>1, <3>2, <3>3
         DEF BundleWorkerStep, Unnoticed, StartAttempt, LookupRawReuse, PrepareManifest,
             PrepareBundleWrites, PromoteManifest, MarkCleanupEligible, FinishAttempt,
             storeVars, bundleVars
  <2>3. ASSUME NEW artifact \in Artifacts, BundleDeleteArtifact(artifact)
        PROVE  PublishFenced
    <3>1. /\ UNCHANGED manifest
          /\ \A b \in Bundles : lifecycle'[b] \in {"deleting", lifecycle[b]}
      BY <2>3 DEF BundleDeleteArtifact, DeleteArtifactBundles
    <3>2. QED
      BY <3>1 DEF PublishFenced
  <2>4. ASSUME NEW b \in Bundles, BundleReconcile(b)
        PROVE  PublishFenced
    <3>1. /\ \A x \in Bundles : lifecycle'[x] \in {"deleting", "absent", lifecycle[x]}
          /\ \A x \in Bundles : lifecycle[x] = "ready" => manifest'[x] = manifest[x]
      BY <2>4 DEF BundleReconcile, RecoverExpiredCreatingBundle, RemoveBundleObjects,
                  CompleteBundleCleanup, BundleIInv, BundleTypeOK, LiveBundles
    <3>2. QED
      BY <3>1 DEF PublishFenced
  <2>5. QED
    BY <2>1, <2>2, <2>3, <2>4
       DEF BundleNext, Unnoticed, BundleCrash, SweepAttemptPrefix, BundleTick, storeVars, bundleVars
<1>2. QED
  BY <1>1, BundleInvariance, PTL DEF BundleSpec, FencedPublication

-----------------------------------------------------------------------------
(* Where every applied commit is acknowledged.                             *)

\* A winning attempt is one whose Worker was processing when it committed, and an
\* attempt is given up only by such a Worker: no attempt is both.
LEMMA WinnersAreKeptInv ==
    ASSUME ~LostAcknowledgements, BundleIInv, WinnersAreKept, [BundleNext]_allVars
    PROVE  WinnersAreKept'
<1> USE DEF BundleIInv
<1>1. ASSUME \A a \in Attempts : eligible'[a] => eligible[a],
             \A b \in Bundles : manifest'[b] \in {manifest[b], NoAttempt},
             \A w \in Workers : phase'[w] = "abandon" =>
                /\ claim'[w] = claim[w] /\ claim[w] \in Attempts
                /\ phase[w] = "abandon" \/ pc[w] = "processing"
      PROVE  WinnersAreKept'
  BY <1>1, NoAttemptAssumption DEF WinnersAreKept, ManifestsStand
<1>2. \A w \in Workers : phase[w] = "abandon" => claim[w] \in Attempts
  BY DEF PhasesMatch, IInv, WorkerClaims, TypeOK
<1>3. CASE UNCHANGED <<eligible, phase, claim>> /\ \A b \in Bundles : manifest'[b] \in {manifest[b], NoAttempt}
  BY <1>1, <1>2, <1>3
<1>4. ASSUME NEW w \in Workers, MarkCleanupEligible(w)
      PROVE  WinnersAreKept'
  BY <1>2, <1>4
     DEF MarkCleanupEligible, Continue, Enter, vars, workerVars, bundleVars, WinnersAreKept,
         BundleTypeOK
<1>5. ASSUME NEW w \in Workers, UNCHANGED <<eligible, manifest>>,
             \A v \in Workers \ {w} : claim'[v] = claim[v],
             NEW label, phase' = [phase EXCEPT ![w] = label],
             label = "abandon" => pc[w] = "processing" /\ claim' = claim
      PROVE  WinnersAreKept'
  <2>1. \A v \in Workers : v # w => phase'[v] = phase[v]
    BY <1>5 DEF BundleTypeOK
  <2>2. pc[w] = "processing" => claim[w] \in Attempts
    BY DEF IInv, WorkerClaims, TypeOK
  <2>3. phase'[w] = label
    BY <1>5 DEF BundleTypeOK
  <2>4. QED
    BY <1>1, <1>2, <1>5, <2>1, <2>2, <2>3
<1>6. ASSUME NEW w \in Workers,
             \/ LookupRawReuse(w) \/ PrepareManifest(w) \/ ReserveContentBundle(w)
             \/ PrepareBundleWrites(w) \/ PromoteManifest(w)
      PROVE  WinnersAreKept'
  <2>1. pc[w] = "processing" /\ claim' = claim
    BY <1>6 DEF LookupRawReuse, PrepareManifest, ReserveContentBundle, PrepareBundleWrites,
                PromoteManifest, GiveUp, Continue, Fail, vars, workerVars
  <2>2. UNCHANGED <<eligible, manifest>>
    BY <1>6 DEF LookupRawReuse, PrepareManifest, ReserveContentBundle, InsertBundle, TakeOver,
                PrepareBundleWrites, PromoteManifest, storeVars, bundleVars, prefixVars
  <2>3. \E label : phase' = [phase EXCEPT ![w] = label]
    BY <1>6 DEF LookupRawReuse, PrepareManifest, ReserveContentBundle, PrepareBundleWrites,
                PromoteManifest, GiveUp, Continue, Abandon, Enter
  <2>4. QED
    BY <1>5, <2>1, <2>2, <2>3
<1>7. ASSUME NEW w \in Workers, StartAttempt(w) \/ FinishAttempt(w) \/ BundleCrash(w)
      PROVE  WinnersAreKept'
  <2>1. UNCHANGED <<eligible, manifest>>
    BY <1>7 DEF StartAttempt, FinishAttempt, BundleCrash, storeVars, bundleVars, prefixVars
  <2>2. \E label \in {"lookup", "none"} : phase' = [phase EXCEPT ![w] = label]
    BY <1>7 DEF StartAttempt, FinishAttempt, BundleCrash, Enter
  <2>3. \A v \in Workers \ {w} : claim'[v] = claim[v]
    BY <1>7 DEF StartAttempt, ClaimNext, GrantLease, FinishAttempt, RecordFailure, ReturnToIdle,
                BundleCrash, Crash, IInv, TypeOK
  <2>4. QED
    BY <1>5, <2>1, <2>2, <2>3
<1>8. ASSUME NEW w \in Workers, CommitBundleVersion(w)
      PROVE  WinnersAreKept'
  <2>1. pc[w] = "processing" /\ UNCHANGED eligible
    BY <1>8 DEF CommitBundleVersion, CommitApplied, storeVars, prefixVars
  <2>2. PICK a \in Attempts : claim[w] = a /\ \A v \in Workers : claim[v] = a => v = w
    BY <2>1, NoAttemptAssumption DEF IInv, TypeOK, WorkerClaims, ClaimsAreDistinct
  <2>3. \A v \in Workers \ {w} : claim'[v] = claim[v]
    BY <1>8 DEF CommitBundleVersion, CommitApplied, CommitReadyVersion, CommitAlreadyDone,
                ReturnToIdle, Fail, IInv, TypeOK
  <2>4. CASE Fail(w, "transient") /\ Abandon(w) /\ UNCHANGED <<rowVars, storeVars>>
    <3>1. \E label : phase' = [phase EXCEPT ![w] = label]
      BY <2>4 DEF Abandon, Enter
    <3>2. QED
      BY <1>5, <2>1, <2>3, <2>4, <3>1 DEF Fail, storeVars, bundleVars
  <2>5. CASE CommitAlreadyDone(w) /\ UNCHANGED storeVars
             /\ Enter(w, IF pc'[w] = "idle" THEN "none" ELSE "record", NoBundle)
    <3>1. \E label \in {"none", "record"} : phase' = [phase EXCEPT ![w] = label]
      BY <2>5 DEF Enter
    <3>2. QED
      BY <1>5, <2>1, <2>3, <2>5, <3>1 DEF storeVars, bundleVars
  <2>6. CASE CommitApplied(w, target[w])
    <3>1. \E label \in {"none", "record"} : phase' = [phase EXCEPT ![w] = label]
      BY <2>6 DEF CommitApplied, Enter
    <3>2. \A v \in Workers : phase'[v] = "abandon" =>
            v # w /\ phase[v] = "abandon" /\ claim'[v] = claim[v]
      BY <2>3, <3>1 DEF BundleTypeOK
    <3>3. PICK b : manifest' = manifest \/ manifest' = [manifest EXCEPT ![b] = a]
      BY <2>2, <2>6 DEF CommitApplied, Publish, Reuse, bundleVars
    <3>4. \A x \in Bundles : manifest'[x] = manifest[x] \/ manifest'[x] = a
      BY <3>3 DEF BundleTypeOK
    <3>5. ~eligible[a]
      BY <2>1, <2>2 DEF SweptPrefixesAreIdle
    <3>6. QED
      BY <2>1, <2>2, <3>2, <3>4, <3>5 DEF WinnersAreKept
  <2>7. QED
    BY <1>8, <2>4, <2>5, <2>6 DEF CommitBundleVersion
<1>9. CASE \/ Unnoticed(UploadNext) \/ Unnoticed(Reconcile) \/ UNCHANGED allVars
           \/ \E w \in Workers : \/ Unnoticed(WorkerRecover(w)) \/ Unnoticed(ClaimNothing(w))
                                 \/ Unnoticed(Heartbeat(w))
  <2>1. UNCHANGED <<eligible, phase, manifest>>
    BY <1>9 DEF Unnoticed, storeVars, bundleVars, prefixVars, phaseVars, allVars
  <2>2. UNCHANGED claim
    BY <1>9 DEF Unnoticed, UploadNext, CommitAccepted, CommitVersionUpload, CommitReplacement,
                InsertSession, InsertQueuedJob, QueueManualRetry, Reconcile, WorkerRecover,
                ClaimNothing, Heartbeat, workerVars, vars, allVars
  <2>3. QED
    BY <1>3, <2>1, <2>2
<1>10. CASE \/ \E artifact \in Artifacts : BundleDeleteArtifact(artifact)
            \/ \E b \in Bundles : BundleReconcile(b)
            \/ \E a \in Attempts : SweepAttemptPrefix(a)
            \/ BundleTick
  <2>1. UNCHANGED <<eligible, phase, claim>>
    BY <1>10 DEF BundleDeleteArtifact, DeleteArtifact, DeleteArtifactBundles, BundleReconcile,
                 RecoverExpiredCreatingBundle, RemoveBundleObjects, CompleteBundleCleanup,
                 SweepAttemptPrefix, BundleTick, Tick, prefixVars, phaseVars, vars, workerVars
  <2>2. \A b \in Bundles : manifest'[b] \in {manifest[b], NoAttempt}
    BY <1>10 DEF BundleDeleteArtifact, DeleteArtifactBundles, BundleReconcile,
                 RecoverExpiredCreatingBundle, RemoveBundleObjects, CompleteBundleCleanup,
                 SweepAttemptPrefix, BundleTick, bundleVars, BundleTypeOK
  <2>3. QED
    BY <1>3, <2>1, <2>2
<1>11. QED
  BY <1>4, <1>6, <1>7, <1>8, <1>9, <1>10 DEF BundleNext, BundleWorkerStep

\* The two invariants together, in every reachable state.
LEMMA KeptInvariance ==
    ASSUME ~LostAcknowledgements
    PROVE  BundleSpec => [](BundleIInv /\ WinnersAreKept)
<1>1. BundleInit => WinnersAreKept
  BY DEF BundleInit, WinnersAreKept
<1>2. BundleIInv /\ WinnersAreKept /\ [BundleNext]_allVars => WinnersAreKept'
  BY WinnersAreKeptInv
<1>3. QED
  BY <1>1, <1>2, BundleInitInv, BundleNextInv, PTL DEF BundleSpec

\* As long as an applied commit is reported as one, no prefix scheduled for
\* removal is a winner's, or that of an attempt still processed.
THEOREM LosersAreSwept ==
    ASSUME ~LostAcknowledgements
    PROVE  BundleSpec => []OnlyLosersAreSwept
<1>1. BundleIInv /\ WinnersAreKept => OnlyLosersAreSwept
  BY DEF BundleIInv, WinnersAreKept, SweptPrefixesAreIdle, OnlyLosersAreSwept
<1>2. QED
  BY <1>1, KeptInvariance, PTL

\* ... and then every Version can be served, for any number of Artifacts with the
\* same content, Workers that overlap, takeovers, deletions and removals.
THEOREM VersionsCanBeServed ==
    ASSUME ~LostAcknowledgements
    PROVE  BundleSpec => []VersionsAreServable
<1>1. BundleIInv => VersionsAreIntact /\ BundleTypeOK
  BY VersionsIntact DEF BundleIInv
<1>2. BundleIInv /\ WinnersAreKept => VersionsAreServable
  <2> SUFFICES ASSUME BundleIInv, WinnersAreKept, NEW s \in Sessions, version[s] # NoAttempt
               PROVE  LET b == versionBundle[s]
                      IN  /\ b # NoBundle
                          /\ lifecycle[b] = "ready"
                          /\ manifest[b] # NoAttempt
                          /\ prefixOf[manifest[b]] = b
                          /\ objects[manifest[b]] = "complete"
    BY DEF VersionsAreServable
  <2>1. PICK b \in Bundles : b = versionBundle[s] /\ b # NoBundle
    BY <1>1 DEF BundleTypeOK, VersionsAreIntact
  <2>2. manifest[b] \in Attempts
    BY <1>1, <2>1 DEF BundleTypeOK, VersionsAreIntact
  <2>3. QED
    BY <1>1, <2>1, <2>2 DEF VersionsAreIntact, WinnersAreKept
<1>3. QED
  BY <1>2, KeptInvariance, PTL
=============================================================================
