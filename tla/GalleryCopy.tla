---------------------------- MODULE GalleryCopy ----------------------------
(***************************************************************************)
(* Save a copy: the acceptance that reserves quota and retains the source, *)
(* the Worker lane that copies the objects and commits the new Artifact,   *)
(* the API's dispatcher that publishes the Gallery's eligibility and then  *)
(* reconciles or rolls back, and what may happen to the source meanwhile.  *)
(*                                                                         *)
(* One source listing.  A copy job stands for its idempotency key, its     *)
(* destination Artifact and its reservation; the Content bundle of an      *)
(* attempt is named by job and fence.  Every reservation counts one        *)
(* Artifact; bytes move in the same statements and are left out, and so are*)
(* the rate limit, which only refuses an acceptance, and the objects.      *)
(***************************************************************************)
EXTENDS Integers, FiniteSets, FiniteSetsExt

CONSTANTS
    Jobs, Copiers,
    CopierOf,             \* the User who sends each acceptance key
    Workers,
    MaxAttempts,          \* max_attempts of each job
    ArtifactLimit,        \* artifact_storage_quota_policy.artifact_limit
    MaxEvents,            \* bound: crashes, redeployments and decisions on the source in a run
    NoWorker, NoJob

ASSUME JobsAssumption == IsFiniteSet(Jobs)
ASSUME CopierAssumption == CopierOf \in [Jobs -> Copiers]
ASSUME NoneAssumption == NoWorker \notin Workers /\ NoJob \notin Jobs
ASSUME LimitAssumption ==
    MaxAttempts \in [Jobs -> Nat \ {0}] /\ ArtifactLimit \in Nat /\ MaxEvents \in Nat

VARIABLES
    job,         \* gallery_copy_job
    attempt,     \* gallery_copy_attempt, by job and attempt_number
    reservation, \* artifact_storage_quota_reservation
    retention,   \* gallery_copy_source_retention
    account,     \* artifact_storage_quota_account; uploads is the usage that is no copy
    source,      \* the source listing: its lifecycle, and whether it is restricted or taken down
    artifact,    \* the fence whose bundle the destination Artifact names, 0 without one
    closed,      \* gallery_account_closure
    gate,        \* gallery_runtime_status as its readers see it
    enabled,     \* GALLERY_ENABLED of the deployed API
    pass,        \* where the dispatcher's pass is
    worker,      \* what each Worker is doing for which claim
    events

quota  == <<reservation, retention, account>>
policy == <<source, closed>>
api    == <<gate, enabled, pass>>
vars   == <<job, attempt, quota, artifact, policy, api, worker, events>>

MaxFence == Max({MaxAttempts[j] : j \in Jobs})
Fences   == 1 .. MaxFence
Final    == {"ready", "failed", "cancelled"}
Waiting  == {"accepted", "processing"}
Holding  == {"cleared", "blocked"}   \* inside the commit transaction

\* started: started_at is not null; expired: lease_expires_at <= now().
NewJob == [state |-> "none", started |-> FALSE, worker |-> NoWorker, expired |-> FALSE,
           fence |-> 0, attempts |-> 0]
Idle   == [step |-> "idle", job |-> NoJob, fence |-> 0, code |-> "transient"]

Init ==
    /\ job = [j \in Jobs |-> NewJob]
    /\ attempt = [j \in Jobs |-> [n \in Fences |-> "none"]]
    /\ reservation = [j \in Jobs |-> "none"]
    /\ retention = [j \in Jobs |-> "none"]
    /\ account \in [Copiers -> {[usage |-> n, reserved |-> 0, uploads |-> n] : n \in 0 .. ArtifactLimit}]
    /\ source = [lifecycle |-> "listed", blocked |-> FALSE]
    /\ artifact = [j \in Jobs |-> 0]
    /\ closed = {}
    /\ gate = "closed" /\ enabled = TRUE /\ pass = "idle"
    /\ worker = [w \in Workers |-> Idle]
    /\ events = 0
-----------------------------------------------------------------------------
(* Rows. *)

\* gallery_copy_job_state_projection_check: an update that breaks it raises
\* and its transaction changes nothing.
RowAllowed(row) ==
    /\ row.state = "accepted" => ~row.started
    /\ row.state = "processing" => row.started /\ row.worker # NoWorker
    /\ row.state \in Final => row.worker = NoWorker

\* The lease columns reset, in a given state.
Unleased(row, state) == [row EXCEPT !.state = state, !.worker = NoWorker, !.expired = FALSE]

RowLocked(j) == \E w \in Workers : worker[w].job = j /\ worker[w].step \in Holding

\* The fenced condition of heartbeat and commit.
HoldsLease(w) ==
    LET row == job[worker[w].job] IN
    row.state = "processing" /\ row.worker = w /\ row.fence = worker[w].fence

\* The reservation leaves "held", the account follows it, and the source is let go.
Settle(j, outcome) ==
    LET c    == CopierOf[j]
        held == reservation[j] = "held"
        paid == outcome = "committed" IN
    /\ reservation' = [reservation EXCEPT ![j] = IF held THEN outcome ELSE @]
    /\ account' = IF held \/ paid
                  THEN [account EXCEPT ![c].usage = @ + (IF paid THEN 1 ELSE 0),
                                       ![c].reserved = @ - 1]
                  ELSE account
    /\ retention' = [retention EXCEPT ![j] = "released"]

Happens == events < MaxEvents /\ events' = events + 1

Do(w, step) == worker' = [worker EXCEPT ![w].step = step]
-----------------------------------------------------------------------------
(* The API: admission and acceptance. *)

AdmitCopy(j) ==
    /\ job[j].state = "none" /\ gate = "open"
    /\ job' = [job EXCEPT ![j].state = "admitted"]
    /\ UNCHANGED <<attempt, quota, artifact, policy, api, worker, events>>

CopyAllowedOverReservations(j) ==
    LET a == account[CopierOf[j]] IN
    /\ source.lifecycle = "listed" /\ ~source.blocked
    /\ a.usage + 1 <= ArtifactLimit

CopyAllowed(j) ==
    LET a == account[CopierOf[j]] IN
    /\ source.lifecycle = "listed" /\ ~source.blocked
    /\ a.usage + a.reserved + 1 <= ArtifactLimit

AcceptCopy(j) ==
    LET c == CopierOf[j] IN
    /\ job[j].state = "admitted" /\ CopyAllowed(j)
    /\ job' = [job EXCEPT ![j].state = "accepted"]
    /\ reservation' = [reservation EXCEPT ![j] = "held"]
    /\ retention' = [retention EXCEPT ![j] = "held"]
    /\ account' = [account EXCEPT ![c].reserved = @ + 1]
    /\ UNCHANGED <<attempt, artifact, policy, api, worker, events>>

RefuseCopy(j) ==
    /\ job[j].state = "admitted" /\ ~CopyAllowed(j)
    /\ job' = [job EXCEPT ![j] = NewJob]
    /\ UNCHANGED <<attempt, quota, artifact, policy, api, worker, events>>
-----------------------------------------------------------------------------
(* The Worker lane. *)

Expired == {j \in Jobs : job[j].state = "processing" /\ job[j].expired}

RecoveredAsFailed(j) ==
    Unleased(job[j], IF job[j].attempts < MaxAttempts[j] THEN "accepted" ELSE "failed")

Recovered(j) ==
    Unleased(job[j], IF job[j].attempts < MaxAttempts[j] THEN "accepted" ELSE "indeterminate")

\* One statement updates every expired job: one refused row refuses them all,
\* and the lane's pass ends before it claims.
RecoverLeases(w) ==
    /\ worker[w].step = "idle"
    /\ \A j \in Expired : ~RowLocked(j) /\ RowAllowed(Recovered(j))
    /\ job' = [j \in Jobs |-> IF j \in Expired THEN Recovered(j) ELSE job[j]]
    /\ attempt' = [j \in Jobs |-> [n \in Fences |->
                     IF j \in Expired /\ attempt[j][n] = "running" THEN "lease_lost"
                     ELSE attempt[j][n]]]
    /\ Do(w, "recovered")
    /\ UNCHANGED <<quota, artifact, policy, api, events>>

ClaimCopy(w, j) ==
    LET row == [job[j] EXCEPT !.state = "processing", !.started = TRUE, !.worker = w,
                              !.expired = FALSE, !.fence = @ + 1, !.attempts = @ + 1] IN
    /\ worker[w].step = "recovered" /\ job[j].state = "accepted"
    /\ job' = [job EXCEPT ![j] = row]
    /\ attempt' = [attempt EXCEPT ![j][row.attempts] = "running"]
    /\ worker' = [worker EXCEPT ![w] = [Idle EXCEPT !.step = "copying", !.job = j,
                                                    !.fence = row.fence]]
    /\ UNCHANGED <<quota, artifact, policy, api, events>>

ClaimNothing(w) ==
    /\ worker[w].step = "recovered" /\ \A j \in Jobs : job[j].state # "accepted"
    /\ Do(w, "idle")
    /\ UNCHANGED <<job, attempt, quota, artifact, policy, api, events>>

\* A heartbeat renews even a lease that has run out, as long as nobody recovered it.
CopyFiles(w) ==
    /\ worker[w].step = "copying" /\ HoldsLease(w) /\ ~RowLocked(worker[w].job)
    /\ job' = [job EXCEPT ![worker[w].job].expired = FALSE]
    /\ Do(w, "copied")
    /\ UNCHANGED <<attempt, quota, artifact, policy, api, events>>

\* The heartbeat finds another holder, or storage or the manifest fails.
CopyFails(w, code) ==
    /\ worker[w].step = "copying"
    /\ code = "invalid_input" => HoldsLease(w)
    /\ worker' = [worker EXCEPT ![w].step = "failing", ![w].code = code]
    /\ UNCHANGED <<job, attempt, quota, artifact, policy, api, events>>

SourceBlocked(j) ==
    \/ source.blocked \/ source.lifecycle = "removed"
    \/ CopierOf[j] \in closed
    \/ gate = "closed"

\* The commit locks its job row, then looks at the source without locking it.
BeginCommit(w) ==
    /\ worker[w].step = "copied"
    /\ IF HoldsLease(w)
       THEN Do(w, IF SourceBlocked(worker[w].job) THEN "blocked" ELSE "cleared")
       ELSE Do(w, "failing")
    /\ UNCHANGED <<job, attempt, quota, artifact, policy, api, events>>

CommitCancelled(w) ==
    LET j == worker[w].job IN
    /\ worker[w].step = "blocked"
    /\ job' = [job EXCEPT ![j] = Unleased(@, "cancelled")]
    /\ attempt' = [attempt EXCEPT ![j][job[j].attempts] = "cancelled"]
    /\ Settle(j, "released")
    /\ worker' = [worker EXCEPT ![w] = Idle]
    /\ UNCHANGED <<artifact, policy, api, events>>

CommitReady(w) ==
    LET j == worker[w].job IN
    /\ worker[w].step = "cleared"
    /\ artifact' = [artifact EXCEPT ![j] = worker[w].fence]
    /\ job' = [job EXCEPT ![j] = Unleased(@, "ready")]
    /\ attempt' = [attempt EXCEPT ![j][job[j].attempts] = "succeeded"]
    /\ Settle(j, "committed")
    /\ \/ worker' = [worker EXCEPT ![w] = Idle]
       \/ Do(w, "failing") \* committed, and reported as failed
    /\ UNCHANGED <<policy, api, events>>

CommitRaises(w) ==
    /\ worker[w].step \in Holding
    /\ Do(w, "failing")
    /\ UNCHANGED <<job, attempt, quota, artifact, policy, api, events>>

FailsAnyClaim(w) == TRUE

FailsOwnClaim(w) ==
    job[worker[w].job].worker = w /\ job[worker[w].job].fence = worker[w].fence

FailedRow(j, code) ==
    Unleased(job[j], IF code # "invalid_input" /\ job[j].attempts < MaxAttempts[j]
                     THEN "accepted" ELSE "failed")

RecordFailure(w) ==
    LET j   == worker[w].job
        row == FailedRow(j, worker[w].code) IN
    /\ worker[w].step = "failing"
    /\ IF FailsOwnClaim(w) /\ RowAllowed(row)
       THEN /\ job' = [job EXCEPT ![j] = row]
            /\ attempt' = [attempt EXCEPT ![j][job[j].attempts] = "failed"]
            /\ IF row.state = "failed" THEN Settle(j, "released") ELSE UNCHANGED quota
       ELSE UNCHANGED <<job, attempt, quota>>
    /\ worker' = [worker EXCEPT ![w] = Idle]
    /\ UNCHANGED <<artifact, policy, api, events>>

\* A dead process comes back idle; an open transaction is rolled back.
Crash(w) ==
    /\ worker[w].job # NoJob /\ Happens
    /\ worker' = [worker EXCEPT ![w] = Idle]
    /\ UNCHANGED <<job, attempt, quota, artifact, policy, api>>

LeaseExpires(j) ==
    /\ job[j].state = "processing" /\ ~job[j].expired
    /\ job' = [job EXCEPT ![j].expired = TRUE]
    /\ UNCHANGED <<attempt, quota, artifact, policy, api, worker, events>>
-----------------------------------------------------------------------------
(* The API's reconciliation dispatcher. *)

\* The row is written with what the API's own configuration and the
\* observed capabilities say.
ObserveReadiness ==
    /\ pass = "idle" /\ pass' = "observed"
    /\ gate' \in (IF enabled THEN {"open", "closed"} ELSE {"closed"})
    /\ UNCHANGED <<job, attempt, quota, artifact, policy, enabled, worker, events>>

\* Admission believes the row for 60 seconds, the commit for 90.
StatusAges ==
    /\ gate # "closed"
    /\ gate' = IF gate = "open" THEN "aging" ELSE "closed"
    /\ UNCHANGED <<job, attempt, quota, artifact, policy, enabled, pass, worker, events>>

Redeploy ==
    /\ Happens
    /\ enabled' = ~enabled /\ pass' = "idle"
    /\ UNCHANGED <<job, attempt, quota, artifact, policy, gate, worker>>

Unsettled == {j \in Jobs : /\ job[j].state \in Final
                           /\ reservation[j] # IF job[j].state = "ready" THEN "committed"
                                               ELSE "released"}

ReconcileCopies ==
    /\ pass = "observed" /\ enabled /\ pass' = "idle"
    /\ \/ Unsettled = {} /\ UNCHANGED quota
       \/ \E j \in Unsettled : Settle(j, IF job[j].state = "ready" THEN "committed" ELSE "released")
    /\ UNCHANGED <<job, attempt, artifact, policy, gate, enabled, worker, events>>

CancellableUnclaimed == {j \in Jobs : job[j].state = "accepted"}

Cancellable == {j \in Jobs : job[j].state \in Waiting}

\* UPDATE account ... FROM reservation changes an account row once, however
\* many reservations of its User are joined to it.
RollbackCopies ==
    LET open      == Cancellable
        cancelled == open \union {j \in Jobs : job[j].state = "cancelled"}
        held(c)   == {j \in cancelled : CopierOf[j] = c /\ reservation[j] = "held"}
        fails(j, n) == j \in cancelled /\ attempt[j][n] = "running" IN
    /\ pass = "observed" /\ ~enabled /\ pass' = "idle"
    /\ \A j \in open : ~RowLocked(j)
    /\ job' = [j \in Jobs |-> IF j \in open
                              THEN [Unleased(job[j], "cancelled") EXCEPT !.fence = @ + 1]
                              ELSE job[j]]
    /\ attempt' = [j \in Jobs |-> [n \in Fences |->
                     IF fails(j, n) THEN "failed" ELSE attempt[j][n]]]
    /\ account' = [c \in Copiers |-> [account[c] EXCEPT
                     !.reserved = IF held(c) = {} THEN @ ELSE @ - 1]]
    /\ reservation' = [j \in Jobs |-> IF j \in cancelled /\ reservation[j] = "held"
                                      THEN "released" ELSE reservation[j]]
    /\ retention' = [j \in Jobs |-> IF j \in cancelled THEN "released" ELSE retention[j]]
    /\ UNCHANGED <<artifact, policy, gate, enabled, worker, events>>
-----------------------------------------------------------------------------
(* What happens to the source and to the Copier meanwhile. *)

WithdrawSource ==
    /\ Happens
    /\ source.lifecycle = "listed"
    /\ source' = [source EXCEPT !.lifecycle = "withdrawn"]
    /\ UNCHANGED <<job, attempt, quota, artifact, closed, api, worker>>

RemoveSource ==
    /\ Happens
    /\ source.lifecycle = "listed"
    /\ source' = [source EXCEPT !.lifecycle = "removed"]
    /\ UNCHANGED <<job, attempt, quota, artifact, closed, api, worker>>

\* A restriction or a takedown; those it derives for ready copies are not modelled.
BlockSource ==
    /\ Happens
    /\ ~source.blocked
    /\ source' = [source EXCEPT !.blocked = TRUE]
    /\ UNCHANGED <<job, attempt, quota, artifact, closed, api, worker>>

\* An Appeal is won.
ReverseBlock ==
    /\ Happens
    /\ source.blocked
    /\ source' = [source EXCEPT !.blocked = FALSE]
    /\ UNCHANGED <<job, attempt, quota, artifact, closed, api, worker>>

CloseAccount(c) ==
    /\ Happens
    /\ c \notin closed
    /\ closed' = closed \union {c}
    /\ UNCHANGED <<job, attempt, quota, artifact, source, api, worker>>
-----------------------------------------------------------------------------
WorkerStep(w) ==
    \/ RecoverLeases(w) \/ ClaimNothing(w) \/ CopyFiles(w) \/ BeginCommit(w)
    \/ CommitCancelled(w) \/ CommitReady(w) \/ CommitRaises(w)
    \/ RecordFailure(w)
    \/ \E j \in Jobs : ClaimCopy(w, j)
    \/ \E code \in {"transient", "invalid_input"} : CopyFails(w, code)

Dispatch == ObserveReadiness \/ ReconcileCopies \/ RollbackCopies

Governance ==
    \/ WithdrawSource \/ RemoveSource \/ BlockSource \/ ReverseBlock
    \/ \E c \in Copiers : CloseAccount(c)

Next ==
    \/ \E j \in Jobs : AdmitCopy(j) \/ AcceptCopy(j) \/ RefuseCopy(j) \/ LeaseExpires(j)
    \/ \E w \in Workers : WorkerStep(w) \/ Crash(w)
    \/ Dispatch \/ StatusAges \/ Redeploy
    \/ Governance

Spec == Init /\ [][Next]_vars

\* Workers and the dispatcher keep running, a request reaches its transaction
\* and time passes; crashes, redeployments and governance need not happen.
FairSpec ==
    /\ Spec
    /\ \A w \in Workers : WF_vars(WorkerStep(w))
    /\ \A j \in Jobs : WF_vars(AcceptCopy(j) \/ RefuseCopy(j)) /\ WF_vars(LeaseExpires(j))
    /\ WF_vars(Dispatch)
-----------------------------------------------------------------------------
(* Properties. *)

\* However acceptances, commits, failures, recoveries and rollbacks interleave,
\* a Copier's usage is exactly the copies that became ready, every held
\* reservation is covered by the account and the limit is kept (copy.ts accept,
\* gallery_copy_job.rs commit and fail, rollback-coordinator.ts).
QuotaIsCovered ==
    \A c \in Copiers :
        LET mine(S) == {j \in Jobs : CopierOf[j] = c /\ j \in S} IN
        /\ account[c].usage = account[c].uploads + Cardinality(mine({j \in Jobs : artifact[j] # 0}))
        /\ account[c].reserved >= Cardinality(mine({j \in Jobs : reservation[j] = "held"}))
        /\ account[c].usage + account[c].reserved <= ArtifactLimit

\* A copy's outcome, its reservation, its hold on the source, its Artifact and
\* its attempts agree in every state, whoever ended it: the Worker, recovery, a
\* block or the rollback; only the current attempt of a processing job runs.
OutcomeIsSettled ==
    \A j \in Jobs :
        LET s == job[j].state IN
        /\ (s = "ready") = (reservation[j] = "committed")
        /\ (s = "ready") = (artifact[j] # 0)
        /\ (s \in {"failed", "cancelled"}) = (reservation[j] = "released")
        /\ (s \in Final) = (retention[j] = "released")
        /\ \A n \in Fences : attempt[j][n] = "running" => s = "processing" /\ job[j].attempts = n

\* Ready, failed and cancelled are final, whatever a Worker that lost its lease
\* or a repeated rollback still does.
OutcomeIsFinal ==
    [][\A j \in Jobs : job[j].state \in Final => job'[j].state = job[j].state]_vars

\* Once the Gallery stays disabled every copy comes to an end: also those a
\* Worker died on, those whose retry is refused and those admitted just before.
RollbackSettlesCopies ==
    <>[]~enabled => <>[](\A j \in Jobs : job[j].state \notin Waiting)
=============================================================================
