# ShareSlices in TLA+

This directory holds TLA+ models of ShareSlices, the TLC configurations that check them on small instances, and proofs
that TLAPS checks for every instance. Paths are relative to the repository root. Every definition that stands for code
is listed with its lines in the `map` of `PROJECT.json`.

- [The system](#the-system) – components, state, operations, and how they interact
- [The modules](#the-modules) – which module models what, and the abstractions it makes
- [The runs](#the-runs) – what TLC checks, the bounds and the fairness
- [The proofs](#the-proofs) – what holds for every value of the constants, and why
- [Where code and documents disagree](#where-code-and-documents-disagree)
- [What is not modelled](#what-is-not-modelled) and [the plan](#the-plan)

## The system

An Owner uploads a ZIP to the API (`api/`, TypeScript on Node or Cloudflare Workers). The API stores it and queues a
processing job in PostgreSQL. Workers (`worker/`, Rust) poll for jobs, validate and normalize the ZIP, write a Content
bundle to object storage and add a Version to the Artifact. The Owner publishes a Version; a Share link leads the Viewer
to its files. Reconciliation removes what is no longer referenced. An outbox delivers authentication email. Artifacts may
be listed in a Gallery. The CLI and the web application call the API.

All components meet in the database and in object storage. There are no messages between processes except queue wake-ups
on Cloudflare, so the hard behaviour is nearly everywhere of one kind: **several processes, each remembering what it read,
write the same rows in separate transactions and the same objects outside any transaction, and any of them may stop, be
slow, or lose an answer.** The deployment tools are the same again one level up: their rows are in a control schema, and
their objects are a Kubernetes cluster.

| Component | State | Operations | Hard behaviour | What makes it correct | Module |
|---|---|---|---|---|---|
| Processing job store and Worker runtime (`worker/src/job_store.rs`, `runtime.rs`, `retry_policy.rs`) | session, job and attempt rows; the Worker's claim in memory | claim, heartbeat, recover, fail, commit; queue, retry, replace (API) | leases that lapse under a working Worker; recovery by several actors; retries | the tables agree; an attempt ends under its own lease; one commit; every Upload settles | ProcessingJob |
| Artifact processing and Content bundles (`processing.rs`, `job_store.rs`) | bundle, alias and manifest rows; objects under attempt prefixes | reuse lookup, reserve, take over, prepare, promote, publish, abandon | two equal Uploads race; a slow creator is taken over; deletion during reuse; lost acknowledgements | what a Version references is ready and stored; publication is fenced; nothing is left behind | ContentBundle |
| Upload intake and recovery (`api/src/application/artifacts/artifact-intake.ts`, `artifact-recovery.ts`, `db/artifact-repositories.ts`) | Artifact, session and idempotency rows; raw objects | create, replace, retry, add a Version | object and row are written separately; a repeated request; a commit whose answer is lost | one key makes one Artifact; no accepted input is removed; no claim outlives its call | ArtifactIntake |
| Publication, Share links, Artifact deletion (`publication-viewer.ts`, `db/publication-content-repository.ts`, `db/artifact-repositories.ts`) | Publication, Share link, cleanup rows | publish, unpublish, expire, resolve, delete, complete | transactions ordered by their start and by their lock; deletion by the call and by the reconciler; holds | a link shows the current Version or nothing; deletion takes what no other Artifact needs, and completes | ArtifactPublication |
| Reconciliation (`application/reconciliation/`, `db/reconciliation-repository.ts`, `runtime/reconciliation-dispatcher.ts`) | cleanup states, claims, quiescence times | recover, mark, remove, complete, sweep | decides on rows while Workers change them; many kinds of work in one `try` | removes nothing that is referenced, and everything else in the end | the four above |
| Authentication email outbox (`accounts/authentication-email-*.ts`, `db/authentication-email-repository.ts`, `email/`) | delivery and attempt rows, circuit breaker | accept, claim, submit, record, recover, erase, reconcile | provider answers late, never or twice; overlapping timer calls with one worker id; erasure meanwhile | no email twice; a recorded outcome is true and final; the outbox drains | AuthenticationEmail |
| Gallery copies and quota (`application/gallery/copy.ts`, `worker/src/gallery_copy_job.rs`, `application/gallery/rollback-coordinator.ts`) | copy job, attempt, reservation, retention and account rows | accept, claim, commit, fail, recover, reconcile, roll back | quota under concurrency; a source blocked during the copy; a rollback of the whole feature | usage and reservations cover what is held; a copy ends once; the rollback ends all of them | GalleryCopy |
| Gallery listings and governance (`application/gallery/governance.ts`, `owner-operations.ts`) | listing, proposal, case, decision, restriction rows | share, update, withdraw, promote, report, decide, appeal, delete | Owner, promoter and Administrator write several tables each, under locks in different orders | one open listing; every block goes back to a decision in force | GalleryGovernance |
| Cloudflare dispatch and the thumbnail lane (`api/src/cloudflare/`) | outbox, handoffs, Queue, slots; thumbnail jobs, attempts, grants | recover, claim, send, consume, prepare, start, bootstrap, upload, commit; cancel, remove | queue duplicates and losses; overlapping invocations; containers that vanish or run already; a commit that read its grant before it was revoked; deletion under a render | a wake is handed off once; grants and thumbnails are the last attempt's; no job that can be claimed is forgotten | CloudflareDispatch |
| Deployment automation (`deploy/automation/`, `deploy/kubernetes/`) | operation lease, phase journal, release records; the cluster | plan, apply, resume, verify, roll back, retire | a session that stops half-way or loses its lease; records written after the fact | a record says what ran; operations do not mix; what a rollback needs is kept | DeploymentControl |
| Bundle alias lane, key rotation (`bundle_alias.rs`, `content_fingerprint.rs`) | alias rows per key revision | reindex, retire | two revisions during rotation | equal content has one ready bundle across revisions | – |
| Runner lanes and drain (`runner.rs`, `main.rs`) | claim permits, draining flag | run, drain | lanes share a limit; drain during a claim | limits hold; drain ends | part: CloudflareDispatch |
| Gallery cover and safety jobs | job rows | claim, run, finish | as the lanes above | as the lanes above | – |
| Release verification (`cloudflare/jobs-release-verification.ts`) | staged verification records | stage, observe, settle | a deployment interrupted while it proves itself | a verdict is about the release it names | – |
| CLI (`cli/`) | credential store, continuation file | log in, upload, publish | device flow resumed; credentials replaced | one continuation wins | – |
| Accounts, HTTP interface, storage adapters, archive validation, web | (library sessions; none; none; none; server state) | | sequential code or I/O | | – |

`PROJECT.json` lists the components with their sources and status, and under `hazards` the places in this code that are
hard to test, with the properties that cover each.

## The modules

```
UploadLifecycle  <==implements==  ProcessingJobRefinement ──> ProcessingJob <── ContentBundle
                                         ^                                          ^
                              ProcessingProofs, MCProcessingJob    ProcessingProofs, MCContentBundle
AuthenticationEmail  <── AuthenticationEmailProofs, MCAuthenticationEmail
CloudflareDispatch   <── CloudflareDispatchProofs, MCCloudflareDispatch
ArtifactIntake       <── ArtifactIntakeProofs, MCArtifactIntake
ArtifactPublication  <── ArtifactPublicationProofs, MCArtifactPublication
GalleryCopy          <── GalleryCopyProofs, MCGalleryCopy
GalleryGovernance    <── GalleryGovernanceProofs, MCGalleryGovernance
DeploymentControl    <── DeploymentControlProofs, MCDeploymentControl
```

Where one module stops, another starts. ArtifactIntake ends where a job is queued and takes the outcome of processing as
a choice; ProcessingJob starts there. ContentBundle extends ProcessingJob with what an attempt does to bundles.
ArtifactPublication starts from ready Versions and has the deletion; a hold or a block of the Gallery is a choice there,
and GalleryGovernance and GalleryCopy are where holds and blocks come from. CloudflareDispatch takes what a processing
job's run does as a choice that ProcessingJob's transactions justify. In all modules a transaction is one step unless its
section says otherwise, a process that waits may wait for ever unless fairness is stated, and an action stands for
everything its handler changes. An operator named for a mistake (`MirrorUnfenced`, `ReleasedWhateverState`, …) that stands
before the definition it resembles is the form a mutant of `PROJECT.json` puts in its place; no specification uses it.

### ProcessingJob

One action per transaction. The API's four ways to queue a job (`CommitAccepted`, `CommitVersionUpload`,
`CommitReplacement`, `QueueManualRetry`) and `DeleteArtifact`; a Worker's `run_one`: `WorkerRecover`, `ClaimNext` or
`ClaimNothing`, `Heartbeat`, and then either `ProcessingFails` and `RecordFailure`, or one of the three answers of the
ready-Version transaction (`CommitReadyVersion`, `CommitAlreadyDone`, `CommitLeaseLost`); `Reconcile`; `Crash`; `Tick`.
The variables are the columns the code tests, plus the Worker's program counter and the `ClaimedJob` it holds in memory,
which is exactly what can be stale.

Time: `lease` and `delay` are the ticks left until `lease_expires_at` and `available_at`, so the clock needs no bound. A
Worker may be arbitrarily slow, and a heartbeat may or may not come.

Abstractions: what happens between claim and commit is reduced to how it ends (ContentBundle opens it up); a job id is
used once, which bounds the manual retries of an Upload by the jobs it is given; recovery of all expired leases is one
action, as in the code, where one transaction selects them with `for update skip locked` (a row locked by another
transaction is recovered in the next pass).

`UploadLifecycle` is what all this promises the Owner: an Upload is open until it is committed or fails, a commit is
final, a failure is retryable, replaceable or superseded, and an open Upload blocks the deletion of its Artifact.
`ProcessingJobRefinement` maps the three tables to that status with `StatusOf`.

### ContentBundle

Extends ProcessingJob: every action is a ProcessingJob action together with its effect on bundles, aliases and objects,
or leaves the job's rows alone. `process_attempt` is followed call by call (`StartAttempt`, `LookupRawReuse`,
`PrepareManifest`, `ReserveContentBundle` with `InsertBundle`, `TakeOver` and waiting, `PrepareBundleWrites`,
`PromoteManifest`, `CommitBundleVersion`, `MarkCleanupEligible`, `FinishAttempt`), with the Worker's `phase` and `target`
as its memory. `BundleDeleteArtifact` retires aliases and moves unreferenced bundles to `deleting`. Reconciliation is
`RecoverExpiredCreatingBundle`, `RemoveBundleObjects`, `CompleteBundleCleanup` and `SweepAttemptPrefix`.

Abstractions: an attempt draws one bundle id, so the attempt names it; one Owner and one fingerprint key revision; every
stored bundle passes its integrity check; `quiesce_after` and the Worker's wait deadline pass at any moment; the clocks of
Worker and database agree; staging objects are left out; `winning_attempt_id` is the creator of a ready bundle; the
cleanup's own claim is abstracted, because `RemoveBundleObjects` is repeatable; a row that is gone is `absent`. The
creator lease is set to 0 on publication: nothing reads it afterwards. `LostAcknowledgements` says whether the
ready-Version transaction may be applied and reported as an error. It is FALSE in `content_bundle`, where every Version is
servable (`VersionsAreServable`), and TRUE in `content_bundle_live`, where `VersionsAreIntact` says exactly what remains
true: the Version keeps its ready bundle and Manifest, and its objects go in one way only, by a sweep of the prefix that
the Worker of the winning attempt scheduled itself.

### AuthenticationEmail

`AcceptDelivery` and the breaker; the dispatcher's claim transaction, which recovers lapsed leases first and then takes
the oldest due row (`DispatchNothing`, `DispatchAfterCutoff`, `DispatchClaim`); `Submit`; the provider
(`ProviderAccepts`, `ProviderRefuses`, external); the outcome transaction by kind of answer (`RecordAccepted`,
`RecordNotSubmitted`, `RecordRejected`, `RecordResend`, `RecordIndeterminate`, `OutcomeTooLate`, `PersistenceFails`) and
the breaker opened by a separate statement after it (`TripBreaker`); erasure (`ConsumeVerification`) and the sweep
(`SweepExpired`); the operator's `Resolve`; heartbeat, lease, deadline, retry delay, replay cutoff, crash and
redeployment with another transport.

`request` and `emails` are what the code cannot see: what became of each request, and how many emails left. Every
interesting property relates them to what the rows say.

Abstractions: time is a set of flags that flip at any moment their order allows. The candidate is any due row (a younger
one when older rows are locked), but only a claim of the oldest is fair. A throw inside the claim (erased payload, changed
transport) rolls back the whole transaction, so it is no step. The safety margin between Resend's replay cutoff and its
24-hour retention is assumed to outlast every call claimed before the cutoff: the guard of `ProviderForgets` (the fetch to
Resend has no timeout of its own, so the code relies on the platform for this). The operator's evidence is taken to be
right. Which rate limit was hit, the password reset grants and the signed operator envelope are left out.

### ArtifactIntake

A call is a process: `Create`, `Replace` (which becomes a new Version or a replacement of a failed Upload) and `Retry`
claim an idempotency record, `WriteRawZip` stores the body, and `Commit` does one of the four transactions
(`CommitAccepted`, `CommitVersionUpload`, `CommitReplacement`, `QueueManualRetry`) together with the completion of the
record; or the call rejects, discards the raw object and releases its claim. Repeats, overlaps, a crash at any point, a
commit that was applied and reported as an error (`CommitUnheard`), deletion of the Artifact and the scan for raw objects
interleave with it. The scan reads the database (`ScanFinds`) and deletes later (`ScanDeletes`), as the code does.

Abstractions: processing and deletion are one step each; an input stands for the request's fingerprint; the evidence kept
in a record is the answer; records do not expire.

### ArtifactPublication

Publish is two steps, `Begin` and `Publish`: `created_at` defaults to `now()`, the start of the transaction, and its
effects come when it has the Artifact's row lock, so two overlapping calls can be ordered one way by time and the other
way by effect. `Unpublish`, `Expire`, `UpdateExpiration`; `Resolve` is what a Share link shows. `DeleteOwned` is the
deletion transaction in its three forms: an unlisted Artifact goes with everything, a listed one keeps its row, a held
one keeps its bundles as well. Erasing the uploaded objects is done by the API's call (`DeleterErases`,
`CompleteDeletion`) and, when it fails or never ends, by reconcilers under a lease (`ClaimCleanup`, `ReconcilerErases`,
`CompleteUnlisted`, `CompleteListed`, `FailCleanup`).

Abstractions: a Version is named by its Artifact and bundle; an upload is one step; a hold stands for evidence, a copy or
a download that needs the source; `revoke and replace` of a link outside Publish is left out.

### GalleryCopy

`AcceptCopy` admits a copy, reserves quota and retains the source in one transaction. The Worker lane is
`RecoverLeases`, `ClaimCopy`, `CopyFiles`, the commit in two steps (`BeginCommit` looks at the source, then
`CommitReady`, `CommitCancelled` or `CommitRaises`), `RecordFailure`. The API's dispatcher publishes whether the Gallery
is open (`ObserveReadiness`), and then reconciles (`ReconcileCopies`) or rolls everything back (`RollbackCopies`),
depending on `GALLERY_ENABLED` (`Redeploy`). Meanwhile the source is withdrawn, removed, blocked and released, and the
Copier's account is closed.

Abstractions: one source listing; every reservation is one Artifact, bytes move in the same statements; the rate limit
and the objects of an attempt are left out.

### GalleryGovernance

The Owner's `Share`, `Update`, `Withdraw`, `DeleteSource`; `Promote` and `Reject` of the open proposal; `ReportListing`;
the Administrator's `Dismiss`, `Remove`, `RestrictSharing`, `Takedown`; `Appeal`, `Uphold` and `Reverse`. A Share and
its governance check are separate steps (`BeginShare`, then `Share` or `ShareFails`): they are statements of one
transaction, but each reads what is committed when it starts, and the check does not lock what it reads. Copies carry
their provenance: a decision on an original reaches them (`Reached`).

Abstractions: a report stands for its case and for the decision that closes the case, an Appeal for its own case; only
active blocks are kept, each under the decision it derives from; claims on cases, conflict of interest, featured
positions, profiles and notifications are left out, and so are the transitions nothing calls.

### CloudflareDispatch

`Insert` is the trigger that gives a job its outbox row. A scheduled invocation recovers expired job leases
(`RecoverLeases`) and lost wakes (`RecoverWakes`), then claims, sends and settles outbox rows (`Claim`, `Send`,
`SendFails`, `Settle`). A consumer authorizes a message (`Authorize`), prepares a thumbnail attempt with its execution
grant (`Prepare`), starts the job's Container slot (`Start`), and records the handoff (`Record`); each can be refused.
A thumbnail Container exchanges its bootstrap, uploads and commits (`Bootstrap`, `Upload`, `Fence`, `Commit`, `Rejected`);
a processing Container drains its lane (`ClaimJob`, `FinishJob`, `ObserveIdle`, `Exit`).

The commit is two steps. Its first statement finds the attempt and reads the job, the lease and the grant in the snapshot
it starts with (`Fence`); it locks the attempt's row only, and when it gets that lock it looks again at that row alone
(`EndsAttempt`). Between the two a redelivered wake may be prepared, which revokes this grant and issues another; a
recovery may take the attempt; a deletion may cancel the job or remove it (`Commit`, `Rejected`). The query before it,
`authorizedAttempt`, asks for the same things and is part of `Fence`: what it asks for, once lost, stays lost.

Deletion reaches the lane in four ways. `CancelJob` is `deleteOwned` on the last Artifact of a bundle: the job is
cancelled, and its attempt and grant stay as they are. `DeleteVersion` is `deleteOwned` on an Artifact that shares the
bundle: the Version the attempt captures goes (`capture`), and perhaps the last Version of the renderer revision
(`version`), without which `prepare` refuses a claim; `AddVersion` brings one back. `RemoveJob` is the cleanup of the
bundle, which removes thumbnail, job, attempts and grants. The completion of a held deletion has a cancellation as well
(`reconciliation-repository.ts:290`); it is left out because the transaction it is part of always raises where there is a
bundle (disagreement 11).

The row of a job carries its last attempt: its number, whether the attempt's own row is running (`attempting`), and the
attempt that made the bundle's `thumbnail`. `grants` are the unrevoked ones.

The Queue is a set of messages that may be delivered again in any order until acknowledged, and may lose one. A wake is
named by the fence of the claim that generated it. What a clock would seldom do – a publishing lease that runs out on a
live invocation, a wake taken for lost while under way – and every crash is a fault, bounded by `MaxFaults`.

Abstractions: processing runs end or ask for another attempt; nothing asks for the Versions of a job that is over, nor
for the expiry, output or captured Version of an attempt whose lease has lapsed, so these are not kept; the closed
execution gate, the message budget per run, the authentication email lane, capture sessions and the removal of thumbnail
objects (not of their rows) are left out.

### DeploymentControl

A session is a run of the CLI. `MakePlan` observes and plans; `StartApply`, `Bootstrap`, `StartRollback`, `Begin` and
`Acquire` bring it to the lease; each phase is `BeginPhase`, waiting (`Awaited`, `MigrationEnds`), `FinishPhase`, and
`Succeed` moves to the next; `VerifyPhase`, `ReadRecords` and `MirrorRecords` write the release records; `Retire` removes
migration Jobs; `VerifyCommand` is the stand-alone command. `Stop` ends a session anywhere, and `LeaseExpires` takes its
lease whenever time allows.

`current` are the plans whose observed revision (the control revision and the resource versions, without the release
records) still stands: a step that changes either empties it. A layer is what one `kubectl apply` brings up to date, and
is `Mixed` when that stopped half-way. `touched` is history: the fence under which the cluster was last changed.

Abstractions: a lease check and the `kubectl` call after it are one step, the call taken to be over before the lease just
renewed is; what a session waits for takes any time, except that the stand-alone verify has its answer within the lease
it acquired; one deployment principal; direct reconciliation (no GitOps handoff); no probes or step checkpoints; the
Cloudflare adapter, drills and recovery are left out.

## The runs

| Run | Instance | What it shows |
|---|---|---|
| `processing_job` | 1 Artifact, 2 Uploads, 3 jobs (one a manual retry), 2 Workers, 3 attempts per job, 2-tick leases, 1 crash | the three tables agree, attempts are fenced, one commit; refines `UploadLifecycle!Spec` |
| `content_bundle` | 2 Artifacts with the same ZIP, 2 Workers, 1 attempt each, 1 crash | a referenced bundle is ready and stored through every race of reuse, takeover, deletion and cleanup |
| `content_bundle_live` | 1 Upload with 2 overlapping attempts, 2 Workers, 1 crash, lost acknowledgements | the slow attempt damages nothing, and a lost acknowledgement does exactly one damage; bundles are resolved; refines `UploadLifecycle!FairSpec`: Uploads settle |
| `email_smtp` | 2 deliveries of one verification, 2 overlapping calls of one process, 2 attempts, 1 crash | nothing is sent twice; outcomes are true and final; the rows agree |
| `email_resend` | 1 delivery, 2 overlapping calls, 2 transports, 2 attempts, 1 crash | the same with replays and a key the provider forgets; the delivery settles |
| `artifact_intake` | 3 calls, 1 key, 2 inputs, 1 crash, 1 lost answer | one key makes one Artifact; no input still needed is removed; a claim ends with its call |
| `artifact_publication` | 2 Artifacts, 1 bundle, 2 keys, 2 reconcilers, 2 Publish calls, 1 hold or block, 1 fault | Publications, Share link and records agree; what a deletion retires no other Artifact needs |
| `artifact_deletion` | 2 Artifacts, 1 bundle, 1 key, 1 reconciler, 1 fault | every deletion a hold did not keep from its bundles completes |
| `gallery_copy` | 1 Copier, 2 copies (1 and 2 attempts), 2 Workers, room for 2 Artifacts, 2 events | quota covers what is held; one outcome per copy, and it is final; the rollback ends them all |
| `gallery_governance` | 1 original, 1 copy of it, 2 Versions, 3 Shares and Updates, 2 reports | the rows of an Artifact agree; every block is a decision's in force; listings move forward |
| `cloudflare_dispatch` | a thumbnail or a processing job, 2 invocations, 1 consumer, 1 slot per lane, 2 attempts, 1 fault | grants and thumbnails are the last attempt's; a wake handed off is not published again; the job ends, unless its last Version goes |
| `deployment_control` | 3 releases, 2 sessions at a time, 2 plans, 2 leases | what a record names was running; operations do not mix; retirement spares a rollback |

The longest (`deployment_control`, `content_bundle`, `cloudflare_dispatch`) take a few minutes with two TLC workers, the
others one or less.

**Why the bounds are enough.** Two Workers (calls, sessions, invocations) are needed for one to act on what the other has
changed, and no action reads the memory of more than one; a crash is a process that never acts again, and two live ones
are already arbitrarily slow. Two or three attempts reach first, retried and exhausted. A 2-tick lease can be granted,
half spent, renewed and expired. Two Uploads reach every pair of lifecycle steps, including replacement; three jobs add
the manual retry. Two Artifacts with one ZIP give the sharing that deletion decides on, and one Upload with two attempts
the takeover by the same job. In `email_smtp` two deliveries give a head and a follower.

Intake calls meet only through the record of a key, the Artifact and the raw object: a first call, a repeat and a call
with another input are three. Two Publish calls are the least that can be ordered one way by time and the other by lock.
Two copies with room for two give the last place to both, and an account that already holds Artifacts gives none. One
original and one copy are what a decision and its derived blocks span; two reports give two decisions that overlap. Jobs
of a lane meet only in a slot and in the consumer, so one job at a time with two invocations and repeated messages is
where the fences work; `MaxJobs` says so. Its deletion, and the loss and return of its Version, may come at any point.
Three releases are an active one, the one before it and a new one; two plans and two leases are one operation and the
one that overtakes it.

`MaxCrashes`, `MaxTransports`, `MaxEvents`, `MaxCases`, `MaxFaults`, `MaxLostReplies` bound how often the environment
interferes in a run; `MaxRequests`, `MaxShares`, `MaxJobs`, `MaxPlans`, `MaxFences` how often anybody asks.

**Symmetry** is used for safety only: Workers in `processing_job` and `content_bundle`, calls in `email_smtp`, everything
interchangeable in `artifact_publication`, `gallery_governance` and `deployment_control`.

**Deadlock** is checked in the processing, bundle and copy runs, where something can always happen. It is off where the
system may really rest: every delivery settled and purged, every call over, every Artifact gone, every job ended, every
bound used up.

**Fairness.**
- `ProcessingJob!Fairness`: `run_one` is called in an endless loop by each Worker (`runner.rs`), its calls return, and
  time passes. Nothing is assumed of the Owner, of heartbeats, or of Reconciliation: no production caller runs
  `expired_leases`, so Workers' own recovery must be, and is, enough. A crash ends a Worker for good, and liveness then
  rests on the other one.
- `FairBundleSpec` adds recovery and cleanup of bundles: the reconciliation dispatcher runs `content_bundle_deletions`
  every 30 seconds and repeats what failed. It assumes that storage does not fail for ever and that the kinds of work
  that share the dispatcher's `try` block do not throw every time. The sweep of attempt prefixes has no fairness.
- `AuthenticationEmail!Fairness`: a timer starts a call every second; each call ends (SMTP timeouts, `finally`); retry
  delays and deadlines pass; a lease no call renews lapses. `OutboxDrains` has one more premise, `HeadIsPreparable`:
  without it the property fails, because an erased payload blocks the head (disagreement 4 below).
- `ArtifactIntake`: a call that has begun goes on, unless it crashes.
- `ArtifactPublication!Fairness`: leases run out, what a reconciler has claimed it proceeds with, and a deletion that is
  claimable again and again is claimed – strong fairness, because a claim by a call or another reconciler disables it;
  the dispatcher takes the oldest due rows each time. The API's delete call has none.
- `GalleryCopy!FairSpec`: the Worker lane polls, accepted requests are answered, leases run out, and the dispatcher runs
  every interval. Nothing is assumed of users, Administrators or deployments; `RollbackSettlesCopies` is about a Gallery
  that stays disabled.
- `CloudflareDispatch!Fairness`: cron starts invocations, consumers and Containers take their next step, what only time
  holds back comes, and a message that is delivered again and again is in the end taken (strong: the Queue redelivers).
  Nothing is assumed of Owners. `EveryJobEnds` excepts a thumbnail job that loses the last Version of its renderer
  revision, for which it does not hold (disagreement 21): from then on the job owes nothing until a Version is back.
- `DeploymentControl` has none: an operator need not finish a deployment. Its properties are about what steps may do.

The type invariants (`TypeOK`, `TypesOK`) are parts of the inductive invariants and are proved; no run repeats them.

Every property has a mutant in `PROJECT.json`: a plausible slip in one mapped definition (a missing fence, a lease
condition dropped, a row left out of an update) under which TLC finds the property violated.

## The proofs

TLAPS checks eight modules, one for each part of the system that is modelled, for every value of the constants that
satisfies the named assumptions: `MaxAttempts` and the lease positive; `ArtifactOf`, `SessionOf`, `VerificationOf`,
`ProcessOf`, `CopierOf` functions of the right type; null values outside the sets they extend; job lanes with slots of
their own; finitely many copies; names of deployment sessions that are not numbers of plans. Any number of Uploads,
jobs, Workers, deliveries, calls, copies, listings, releases, Containers, crashes and faults is covered. Every invariant
and every safety action property that a run checks is stated by a theorem; each inductive invariant was checked by TLC
on the constants of a run before it was proved (`BundleIInv` in 549,849 states, `InputInv` in 198,733, `PublicationInv`
in 1,775,424, `GovernanceInv` in 2,068,563, `DeploymentInv` in 4,483,050).

**ProcessingProofs, jobs.** `Invariance` proves `IInv`, the conjunction of the four safety invariants with what makes
them inductive: a lease belongs to a running job (`LeaseRows`), attempts are numbered without gaps (`StartedAttempts`),
only failed sessions are retryable or superseded (`SessionFlags`), and – the heart of it – a Worker that owns the lease
of its claim's job holds the *current* attempt (`WorkerClaims`). The last is why `fail`, which matches by job and worker
id only, is safe: after recovery a claim takes a new attempt number, and the only Worker whose id is in `lease_owner` is
the one that made it. From `IInv` follow `TypeCorrect`, `RunningAttemptsAreCurrent`, `OpenUploadsHaveOneJob`,
`CommitsOnce`, `DistinctClaims`, the action property `AttemptsAreFenced`, and the refinement `Implements`: each
transaction is a step or a stutter of the Upload lifecycle.

**ProcessingProofs, bundles.** `ImplementsProcessingJob` shows that every step of ContentBundle is a step of
ProcessingJob or leaves its rows alone, so `IInv` and the lifecycle hold of it without another proof. `BundleInvariance`
proves `BundleIInv`, which adds: where a Worker is in `process_attempt` fits where it is in `run_one` (`PhasesMatch`);
nothing mentions a bundle before the one reservation that can create it (`UnbornBundlesAreUnknown`); a bundle that can
still be used is the one its content's alias names (`LiveBundles`); a Version has a bundle (`VersionsHaveBundles`) and a
ready bundle the Manifest and objects of a winner that wrote under its prefix (`ManifestsStand`); as long as a target is
being created, the Worker's objects are what its last step left, whoever else writes or sweeps
(`WritersAreUndisturbed`); and a prefix is scheduled for removal only when its Worker is done with it
(`SweptPrefixesAreIdle`). `ReadyWhileReferenced`, `AliasesAgree`, `VersionsAreIntact` and the action property
`FencedPublication` follow whether acknowledgements are lost or not. `LosersAreSwept` and `VersionsCanBeServed` have the
hypothesis `~LostAcknowledgements`, without which they are false (disagreement 1); they need `WinnersAreKept` beside
`BundleIInv`: no prefix that won is scheduled for removal, or is about to be.

**AuthenticationEmailProofs.** `OutboxInvariance` proves `OutboxInv`. Besides the properties it contains: a pending or
sending row has as many attempts as fences (`Counted`); one call at a time works for a delivery, and it holds the fence
if the row is still sending (`CallsAreFenced`); over SMTP at most one request of a delivery can ever email, and while a
row is pending none can (`RequestsAreSpent`); once Resend may have forgotten a key, no call and no request of that
delivery is left (`KeysAreRemembered`); a request the provider accepted has emailed its delivery (`EmailsAreAccepted`).
`NoDuplicates` follows along two different lines: over SMTP because a retry needs a *refused* request and a lapsed lease
never requeues; over Resend because every acceptance after the first meets a key still remembered.
`SmtpNeverFailsEmailed` holds for SMTP only (disagreement 6 is its failure for Resend). `OutcomesAreFinal` is the action
property that outcomes are recorded once. One assumption about the world enters: the guard of `ProviderForgets`,
described above.

**CloudflareDispatchProofs.** `DispatchInvariance` proves `DispatchInv`: the types, that nothing exists for a job before
it is inserted, that grants and thumbnails follow the attempts (`RowsFollow`), that wakes are named by fences their row
has had, and that a wake handed off is no longer published. A grant is not revoked by everything that ends an attempt: a
deletion cancels the job and leaves attempt and grant, and a commit that had seen its grant leaves the one a redelivery
has put in its place. What holds, and what `GrantsFollowAttempts` says, is that a grant left behind is the only one, that
it is of the last attempt, and that no later attempt will come: a recovery, after which one may, revokes it, and a
completed or cancelled job is never claimed. `ThumbnailsFollowAttempts` is the other half. The commit looks a second time
at its attempt's row only, and that is enough: a recovery ends the row, a deletion does not, so an attempt that is still
running when its commit gets the lock is the last one and its job runs or was cancelled. For the induction an attempt
that runs must have a number, and a grant must be the only one rather than one of at most one (`Follows`).
`WakesAreHandedOffOnce` needs the numbering: a claim always takes a new fence, so a wake that is recorded as handed off
can be published again only under another name, however late an invocation settles.

**GalleryCopyProofs.** `CopyInvariance` proves `CopyInv`: what the rows of a copy hold follows from the state of its job
(`Settled`), and a Worker inside the commit transaction holds the lease whose row it has locked (`Held`), so recovery
and the rollback, which wait for that lock, cannot end the copy under it. `OutcomesAreSettled` and `OutcomesAreFinal`
follow. `QuotasAreCovered` needs a count beside it: acceptance and settlement move one reservation of one account at a
time, and the rollback takes one off an account only where it releases at least one, so it leaves at least what is still
held. That is why the property says "at least": the account can keep reservations nobody holds (disagreement 14), and
never has fewer.

**ArtifactIntakeProofs.** `IntakeInvariance` proves `IntakeInv`: there is one record for each operation, subject and key
(the unique index), a pending one belongs to the call that made it, and the completed record of a creation is never
taken away: a release asks for the pending state, and a deletion takes records about an Artifact, which a creation's is
not. So the record tells, for good, what the creation under its key made, and `CreationsCollapse` follows. An applied
commit that was reported as an error is covered: its record is completed in the same transaction. `InputInvariance` adds
`InputInv` for the objects: only a call that has committed has a session (`SessionsOK`), it has written its input by
then (`WritesOK`), and what the scan has found removable stays so until it is deleted (`ScanOK`). Hence
`InputsAreRetained`, with the exception the property states, a call that was told of a failure after its commit was
applied (disagreement 8).

**ArtifactPublicationProofs.** `PublicationInvariance` proves `PublicationInv`. `SharingInv` is about the histories
(`HistoryOK`): the current Publication of an Artifact is its last, those before it are superseded, and each has a key of
its own that is recorded. Only the lock on the Artifact orders two overlapping requests, so the proof follows the
transactions in the order they get it, not in the order they begin; that the code goes by the other order is
disagreement 9. `ContentInv` is about deletion: what is kept of a deleted Artifact is kept for its listing
(`KeptForListing`), and `SharedBundlesStay`. The reconciler's `CompleteListed` is refused while a bundle is left
(disagreement 11), so where it succeeds it has no bundle to retire.

**GalleryGovernanceProofs.** `GovernanceInvariance` proves `GovernanceInv`: reports, blocks, listings, proposals and the
listed Artifacts each fit (`ReportsOK`, `BlocksOK`, `ListingsOK`, `ProposalsOK`, `ListedOK`). What `ListingsAgree` lacks
to be inductive is the numbering (`NumbersOK`): the listings of an Artifact are numbered without a gap within the Shares
begun, and only the last can be open, whatever Shares of the same Artifact passed their checks together. Every action
either is a Share, an Update or leaves the rows in order (`Orderly`: a row stays, closes or is promoted), so `NextInv`
treats Owner, promoter and Administrator alike. `BlocksComeFromDecisions` and `RevisionsMoveForward` follow.

**DeploymentControlProofs.** `DeploymentInvariance` proves `DeploymentInv`: types, plans whose observation stands
(`PlansOK`), and four statements about each session: its plan was made for its release (`KnowsPlan`); if it holds the
lease the cluster is as its plan found it until it changes something itself (`ChangesAsPlanned`); what it has verified
runs (`VerifiedRuns`); and the records are what it read or what it is about to write (`RecordsStand`). All four are
about what a session remembers of a read it made earlier. They stand because a fence that is lost is never held again
and because sessions that share a lease resume one operation, hence one release: what the others do under that lease
they do towards the same end (`ClusterStep`, `RecordStep`). The action properties follow. For the verify command, which
looks at the cluster before it has the lease, `RecordedIsRunning` rests on one assumption about the world, the guard of
`LeaseExpires`: between its look and its lease passes less time than a lease lasts, so no other holder that changes the
cluster after the look, and renews its lease by that, is gone before the command asks for its own.

**Only model-checked.** Liveness (`ImplementsFairLifecycle`, `BundlesAreResolved`, `OutboxDrains`, `DeletionsComplete`,
`ClaimsEnd`, `RollbackSettlesCopies`, `EveryJobEnds`): fairness and ENABLED are beyond the prover, and so is induction
over data and anything that reaches a RECURSIVE operator.

## Where code and documents disagree

The models follow the code. These are the places where it does something else than a document, a comment or a
neighbouring piece of code says; they were met while modelling, and the properties are stated so that they say what does
hold. A line after a file is of that file. `artifact-upload` :201 is a line of a specification: `spec.md` in that directory
of `openspec/specs/`, or for deployment of
`openspec/changes/support-kubernetes-and-cloudflare-deployment-targets/specs/`.

**Processing, bundles, email**
1. An applied commit reported as an error makes the Worker schedule the winner's prefix, and the sweep, which does not
   look at the winner, deletes the objects of a ready bundle (`worker/src/processing.rs:346`; `artifact-content-reuse`
   :92). `VersionsAreIntact` shows it is the only way a ready bundle loses its objects.
2. A creator that lost its bundle to a takeover and commits on the winner never schedules its own prefix
   (`job_store.rs:894`; `artifact-content-reuse` :54).
3. Recovery of an expired creating bundle leaves the alias active, and later attempts with the same content are refused
   until the cleanup is over (`reconciliation-repository.ts:376`; `artifact-content-reuse` :59).
4. A pending delivery whose payload was erased stays the oldest due row; every claim of it throws, and the rollback takes
   the lease recovery with it (`authentication-email-dispatcher.ts:127`; `account-entry` :306).
5. Phases the dispatcher leaves behind are never the phase, with `quiescent_at`, that the operator's reconciliation
   demands (`authentication-email-reconciliation.ts:195`).
6. Over Resend the last call alone decides that a delivery failed, whatever an earlier ambiguous one did
   (`authentication-email-dispatcher.ts:353`).

**Intake, publication, deletion**

7. A repeated Replace after its Version became ready is accepted again as a new Version (`artifact-recovery.ts:165`;
   `artifact-upload` :201), and a repeated manual Retry is refused before its key is looked up (`:115`; :193).
8. A crash leaves the idempotency record pending for ever; a lost commit acknowledgement discards the raw ZIP of the
   accepted session (`artifact-intake.ts:212`; `artifact-upload` :211). `raw_objects` and `staging_objects` have no
   production caller, so orphans stay (:228).
9. The current Publication is found by `created_at`, the start of its transaction: one that began earlier and got the
   lock later is current, and yet the Share link answers "unpublished" (`publication-content-repository.ts:494`;
   `artifact-publication` :149, :375).
10. A deleted but kept Artifact can be published again, and a held one keeps Publication and Share link
    (`artifact-publication` :201, :346). Repeating a publish key after the deletion returns the stored active link.
11. The completion of a held deletion sets a bundle reference to null alone, which a check rejects, so it never completes
    (`reconciliation-repository.ts:312`; `gallery-copy-download` :55, :232); a second delete of a held Artifact raises.

**Gallery**

12. A retried or recovered copy keeps `started_at`, which a check forbids for an accepted row: the retry raises and, as
    recovery is one statement, so does every later recovery of the lane (`gallery_copy_job.rs:349`, `:361`,
    `db/migrations/0016_gallery_copy_quota_foundation.sql:110`;
    the test `worker/tests/gallery_copy.rs:35` expects a retry).
13. Imposing a block and committing a copy do not wait for each other (`gallery_copy_job.rs:292`;
    `gallery-copy-download` :215). The failure path after a lost commit acknowledgement deletes the objects of the ready
    copy before the fence is looked at (:332).
14. The rollback returns one reservation per account, however many the account has (`rollback-coordinator.ts:39`;
    `gallery-copy-download` :144). `indeterminate` copies are never reconciled.
15. A derived restriction is lost when two decisions overlap: the second insert does nothing, then the first is reversed
    (`governance.ts:550`; `gallery-governance` :247, :275). Copies of older Versions are not reached. A reversed removal
    does not restore the listing (:216), and a removed listing can be replaced on confirmation (:192).
16. A closure tombstone is immutable by trigger (migration 0014:197), and deleting the Artifact of a removed listing
    updates it, so that deletion always raises. Pending appeals on deleted sources cannot be decided.
17. The promoter, the listing transition store, `GallerySourceClosureService` and `quota-accounting.ts` have no
    production caller; restore, clear, approve, reject and `stale` are unreachable.

**Cloudflare dispatch**

18. Starting a Container that runs already does nothing and is answered 202: the handoff is recorded, the wake is
    acknowledged, and a thumbnail attempt has been taken (and the running Container's grant revoked) for which none runs.
    Only its 300-second lease ends it, at the price of one of three attempts.
19. A grant expires with its bootstrap, after 60 seconds, and heartbeats do not extend it, while the lease is 300
    seconds. Upload is put-if-absent, so a second Container of an attempt can never commit.
20. A message delivered before its row is marked published, and a duplicate for a completed job, are refused until the
    Queue's retries run out.
21. `prepare` refuses a job whose bundle has no ready Version of its renderer revision left, without using an attempt, so
    the job stays queued and is woken again and again (`thumbnail-execution-repository.ts:107`); the lane of a resident
    Worker cancels such a job (`worker/src/thumbnail.rs:268`). It comes about when Artifacts share a bundle under two
    renderer revisions and the last one of the older revision is deleted, or when a cover is asked for under a revision
    no Version has (`worker/src/gallery_cover_job.rs:79`). `EveryJobEnds` excepts it.
22. A deletion cancels a running thumbnail job and leaves its attempt running and its grant unrevoked
    (`artifact-repositories.ts:542`); both go with the bundle. Until then the grant authorizes nothing, because every
    request asks for a running job, except a commit that has asked before.
23. The commit reads its grant, the job and the lease without a lock (`thumbnail-execution-broker.ts:415`). So a Container
    whose grant a redelivered wake has revoked may still commit, and the new grant stays unrevoked on a completed job;
    and one whose job was cancelled may still record a thumbnail, for a bundle that is being deleted.
    `GrantsAreCurrent` and `ThumbnailsAgree` say what remains true.

**Deployment**

24. The name and digest of the migration Job are its release's, so after a migration that failed or outlasted its wait, a
    new plan finds the Job unchanged, has no migration phase and rolls out the runtime (`kubernetes-deployment` :82,
    :89, :94).
25. The 120-second lease cannot be renewed during a blocking wait of up to 600 seconds, so a long migration or rollout
    always loses it (`deployment-orchestration`: "renew it while active").
26. Whether a rollback is compatible is judged from the schema head in the release record, not from the database
    (`rollback.mjs:11`); after a bootstrap the drift check compares with an observation made after it
    (`phase-engine.mjs:36`), so a first plan is never stale; an operation that is over blocks others until its lease runs
    out; rollback behind an external CDN verifies the edge only.

## What is not modelled

- Pure I/O, presentation and library code: HTTP parsing, storage adapters, the web application, Better Auth's sessions.
- Sequential computation with no state that outlives the call: archive validation, format rules, manifest construction.
- Code no production path calls: `JobStore.complete`, the Gallery's promoter service objects and `quota-accounting.ts`.
- In the modelled components: quarantine of reused content, staging objects, several key revisions (ContentBundle);
  revealing and replacing a link (ArtifactPublication); encryption and expiry of idempotency evidence (ArtifactIntake);
  bytes, rate limit and attempt objects (GalleryCopy); case claims and conflict of interest (GalleryGovernance); the
  execution gate, the message budget and capture sessions (CloudflareDispatch); GitOps, probes, checkpoints, the
  Cloudflare adapter, drills (DeploymentControl).
- Composition across modules beyond ContentBundle/ProcessingJob: a product of the Gallery with publication, or of
  processing with dispatch, is out of TLC's reach at bounds where anything interesting happens, so each module takes its
  neighbour's possible effects as choices.
- The components marked – in the table.

## The plan

Ordered by what an error would cost the Owner.

| | Module | State |
|---|---|---|
| 1 | `ProcessingJob`, `UploadLifecycle`, `ProcessingJobRefinement`, proofs | done |
| 2 | `ContentBundle`, proofs | done |
| 3 | `AuthenticationEmail`, proofs | done |
| 4 | `ArtifactIntake`, `ArtifactPublication`, proofs | done |
| 5 | `GalleryCopy`, `GalleryGovernance`, proofs | done |
| 6 | `CloudflareDispatch`, proofs | done; an execution gate and the thumbnail objects could be added |
| 7 | `DeploymentControl`, proofs | done; GitOps handoffs and checkpoints could be added |
| 8 | Release verification records beside `DeploymentControl` | |
| 9 | Key rotation with two alias revisions, beside `ContentBundle` | |
| 10 | Runner lanes and drain; CLI login continuation | |
