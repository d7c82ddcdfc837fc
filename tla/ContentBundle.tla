--------------------------- MODULE ContentBundle ---------------------------
(***************************************************************************)
(* Content bundles: what a Worker does between its claim and its commit,   *)
(* the objects it writes, and the Reconciliation that removes what is no   *)
(* longer referenced.  Every action is an action of ProcessingJob together *)
(* with what it does to bundles, aliases and objects, or leaves its rows   *)
(* alone.                                                                  *)
(*                                                                         *)
(* One Owner, one fingerprint key revision, healthy bundles.  Staging      *)
(* objects are left out, quiesce_after and the Worker's wait deadline are  *)
(* taken to pass at any time, and the clocks of Worker and database agree. *)
(***************************************************************************)
EXTENDS ProcessingJob

CONSTANTS
    Raws,                \* raw ZIP fingerprints
    Contents,            \* canonical content identities
    RawOf,               \* the raw ZIP of each Upload session
    ContentOf,           \* the content each raw ZIP normalizes to
    LostAcknowledgements \* can a commit be applied and reported as an error?

ASSUME RawOfAssumption == RawOf \in [Sessions -> Raws]
ASSUME ContentOfAssumption == ContentOf \in [Raws -> Contents]
ASSUME LostAcknowledgementsAssumption == LostAcknowledgements \in BOOLEAN

\* An attempt draws one new bundle id, so the attempt names it.
Bundles  == Attempts
NoBundle == NoAttempt

VARIABLES
    lifecycle,     \* content_bundle.lifecycle_state
    creator,       \* creator_attempt_id, winning_attempt_id too once ready
    creatorLease,  \* ticks until creator_lease_expires_at while creating
    manifest,      \* the attempt whose object keys the manifest rows hold
    swept,         \* cleanup has removed the objects, the rows are still there
    contentAlias,  \* the bundle of each content's active fingerprint alias
    rawAlias,      \* the bundle of each raw ZIP's active fingerprint alias
    versionBundle, \* artifact_version.content_bundle_id of each session
    prefixOf,      \* the bundle under whose prefix each attempt may write
    eligible,      \* cleanup_state: scheduled for removal, again and again
    objects,       \* what is stored under each attempt's prefix
    phase,         \* where each Worker is in process_attempt
    target         \* the bundle each Worker is working on

bundleVars == <<lifecycle, creator, creatorLease, manifest, swept>>
aliasVars  == <<contentAlias, rawAlias>>
prefixVars == <<prefixOf, eligible, objects>>
phaseVars  == <<phase, target>>
storeVars  == <<bundleVars, aliasVars, versionBundle, prefixVars>>
allVars    == <<vars, storeVars, phaseVars>>

BundleInit ==
    /\ Init
    /\ lifecycle = [b \in Bundles |-> "absent"]
    /\ creator = [b \in Bundles |-> NoAttempt]
    /\ creatorLease = [b \in Bundles |-> 0]
    /\ manifest = [b \in Bundles |-> NoAttempt]
    /\ swept = [b \in Bundles |-> FALSE]
    /\ contentAlias = [c \in Contents |-> NoBundle]
    /\ rawAlias = [r \in Raws |-> NoBundle]
    /\ versionBundle = [s \in Sessions |-> NoBundle]
    /\ prefixOf = [a \in Attempts |-> NoBundle]
    /\ eligible = [a \in Attempts |-> FALSE]
    /\ objects = [a \in Attempts |-> "none"]
    /\ phase = [w \in Workers |-> "none"]
    /\ target = [w \in Workers |-> NoBundle]

RawOfAttempt(a)     == RawOf[SessionOf[a.job]]
ContentOfAttempt(a) == ContentOf[RawOfAttempt(a)]

\* The attempt's row, which goes with its Artifact.
AttemptRow(a) == attemptState[a] \in {"running", "succeeded", "failed"}

\* active_attempt_owner: running attempt, running job, unexpired lease.
ActiveAttempt(a) ==
    /\ attemptState[a] = "running"
    /\ jobState[a.job] = "running"
    /\ lease[a.job] > 0

-----------------------------------------------------------------------------
(* process_attempt, one action per call to the job store or to storage.    *)

Enter(w, label, bundle) ==
    /\ phase' = [phase EXCEPT ![w] = label]
    /\ target' = [target EXCEPT ![w] = bundle]

Continue(w, label, bundle) ==
    /\ Enter(w, label, bundle)
    /\ UNCHANGED vars

\* An error that ends the attempt with nothing written under its prefix.
GiveUp(w, classes) ==
    /\ pc[w] = "processing"
    /\ \E class \in classes : Fail(w, class)
    /\ Enter(w, "record", NoBundle)
    /\ UNCHANGED rowVars

\* An error after which the attempt's prefix is to be scheduled for removal.
Abandon(w) ==
    Enter(w, IF prefixOf[claim[w]] = NoBundle THEN "record" ELSE "abandon", NoBundle)

StartAttempt(w) ==
    /\ ClaimNext(w)
    /\ Enter(w, "lookup", NoBundle)
    /\ UNCHANGED storeVars

\* lookup_raw_reuse: an active alias of the raw ZIP to a ready bundle.
RawHit(w) ==
    LET b == rawAlias[RawOfAttempt(claim[w])]
    IN  /\ ActiveAttempt(claim[w])
        /\ b # NoBundle
        /\ lifecycle[b] = "ready"

LookupRawReuse(w) ==
    /\ pc[w] = "processing" /\ phase[w] = "lookup"
    /\ \/ /\ RawHit(w)
          /\ Continue(w, "commit", rawAlias[RawOfAttempt(claim[w])])
       \/ ~RawHit(w) /\ Continue(w, "validate", NoBundle)
       \/ GiveUp(w, {"transient", "unclassified"})
    /\ UNCHANGED storeVars

\* prepare_manifest: reading, validating and staging the archive.
PrepareManifest(w) ==
    /\ pc[w] = "processing" /\ phase[w] = "validate"
    /\ Continue(w, "reserve", NoBundle) \/ GiveUp(w, FailureClasses)
    /\ UNCHANGED storeVars

\* insert_or_resolve_content_bundle, when the content has no active alias.
InsertBundle(a) ==
    /\ contentAlias[ContentOfAttempt(a)] = NoBundle
    /\ lifecycle' = [lifecycle EXCEPT ![a] = "creating"]
    /\ contentAlias' = [contentAlias EXCEPT ![ContentOfAttempt(a)] = a]
    /\ creator' = [creator EXCEPT ![a] = a]
    /\ creatorLease' = [creatorLease EXCEPT ![a] = LeaseDuration]
    /\ UNCHANGED <<manifest, swept, rawAlias, versionBundle, prefixVars>>

\* reserve_existing_bundle, when the creator's lease has expired.
TakeOver(a, b) ==
    /\ lifecycle[b] = "creating"
    /\ creatorLease[b] = 0
    /\ creator' = [creator EXCEPT ![b] = a]
    /\ creatorLease' = [creatorLease EXCEPT ![b] = LeaseDuration]
    /\ UNCHANGED <<lifecycle, manifest, swept, aliasVars, versionBundle, prefixVars>>

\* A bundle another attempt is creating is polled until the wait deadline.
ReserveContentBundle(w) ==
    LET a == claim[w]
        b == contentAlias[ContentOfAttempt(a)]
    IN  /\ pc[w] = "processing" /\ phase[w] = "reserve"
        /\ \/ /\ ActiveAttempt(a)
              /\ \/ InsertBundle(a) /\ Continue(w, "prepare", a)
                 \/ b # NoBundle /\ TakeOver(a, b) /\ Continue(w, "prepare", b)
                 \/ /\ b # NoBundle /\ lifecycle[b] = "ready"
                    /\ Continue(w, "commit", b)
                    /\ UNCHANGED storeVars
           \/ GiveUp(w, {"transient"}) /\ UNCHANGED storeVars

\* prepare_bundle_writes: registers the prefix of the bundle's live creator.
MayWrite(a, b) ==
    /\ ActiveAttempt(a)
    /\ lifecycle[b] = "creating"
    /\ creator[b] = a
    /\ creatorLease[b] > 0

PrepareBundleWrites(w) ==
    /\ pc[w] = "processing" /\ phase[w] = "prepare"
    /\ \/ /\ MayWrite(claim[w], target[w])
          /\ prefixOf' = [prefixOf EXCEPT ![claim[w]] = target[w]]
          /\ Continue(w, "promote", target[w])
          /\ UNCHANGED <<eligible, objects>>
       \/ GiveUp(w, {"transient"}) /\ UNCHANGED prefixVars
    /\ UNCHANGED <<bundleVars, aliasVars, versionBundle>>

\* promote_manifest: the assets, then the Manifest.  What a cleanup removed in
\* between stays removed.  Nothing here looks at the database.
PromoteManifest(w) ==
    /\ pc[w] = "processing"
    /\ \/ /\ phase[w] = "promote"
          /\ objects' = [objects EXCEPT ![claim[w]] = "partial"]
          /\ Continue(w, "finish", target[w])
       \/ /\ phase[w] = "finish"
          /\ objects' = [objects EXCEPT
               ![claim[w]] = IF @ = "partial" THEN "complete" ELSE "partial"]
          /\ Continue(w, "commit", target[w])
       \/ /\ phase[w] \in {"promote", "finish"}
          /\ Fail(w, "transient") /\ Abandon(w)
          /\ UNCHANGED <<objects, rowVars>>
    /\ UNCHANGED <<bundleVars, aliasVars, versionBundle, prefixOf, eligible>>

MayPublishAfterTakeover(a, b) == lifecycle[b] = "creating" /\ creatorLease[b] > 0

\* commit_content_bundle_version lets the live creator publish its bundle.
MayPublish(a, b) ==
    /\ lifecycle[b] = "creating"
    /\ creator[b] = a
    /\ creatorLease[b] > 0

Publish(a, b) ==
    /\ MayPublish(a, b)
    /\ lifecycle' = [lifecycle EXCEPT ![b] = "ready"]
    /\ manifest' = [manifest EXCEPT ![b] = a]
    /\ creatorLease' = [creatorLease EXCEPT ![b] = 0]   \* never read again
    /\ UNCHANGED <<creator, swept>>

Reuse(b) == lifecycle[b] = "ready" /\ UNCHANGED bundleVars

\* promote_raw_aliases: inserted unless there is one, which must agree.
PromoteRawAlias(raw, b) ==
    /\ rawAlias[raw] \in {NoBundle, b}
    /\ rawAlias' = [rawAlias EXCEPT ![raw] = b]

CommitMarkedForCleanup(w, b) ==
    LET a == claim[w]
    IN  /\ CommitReadyVersion(w)
        /\ Publish(a, b) \/ Reuse(b)
        /\ PromoteRawAlias(RawOfAttempt(a), b)
        /\ versionBundle' = [versionBundle EXCEPT ![SessionOf[a.job]] = b]
        /\ \/ pc'[w] = "idle" /\ Enter(w, "none", NoBundle)
           \/ pc'[w] = "failing" /\ Abandon(w)
        /\ UNCHANGED <<contentAlias, prefixVars>>

\* The commit is applied; the Worker reports its result, a failed removal of
\* staging objects, or, without the acknowledgement, a failed commit.
CommitApplied(w, b) ==
    LET a == claim[w]
    IN  /\ CommitReadyVersion(w)
        /\ Publish(a, b) \/ Reuse(b)
        /\ PromoteRawAlias(RawOfAttempt(a), b)
        /\ versionBundle' = [versionBundle EXCEPT ![SessionOf[a.job]] = b]
        /\ \/ pc'[w] = "idle" /\ Enter(w, "none", NoBundle)
           \/ pc'[w] = "failing" /\ Enter(w, "record", NoBundle)
           \/ pc'[w] = "failing" /\ LostAcknowledgements /\ Abandon(w)
        /\ UNCHANGED <<contentAlias, prefixVars>>

\* A bundle that was deleted or taken over, a raw alias of another bundle and a
\* database error all end as a transient failure.
CommitBundleVersion(w) ==
    /\ pc[w] = "processing" /\ phase[w] = "commit"
    /\ \/ CommitApplied(w, target[w])
       \/ /\ CommitAlreadyDone(w)
          /\ Enter(w, IF pc'[w] = "idle" THEN "none" ELSE "record", NoBundle)
          /\ UNCHANGED storeVars
       \/ /\ Fail(w, "transient") /\ Abandon(w)
          /\ UNCHANGED <<rowVars, storeVars>>

\* mark_attempt_cleanup_eligible, a call of its own that may fail.
MarkCleanupEligible(w) ==
    /\ pc[w] = "failing" /\ phase[w] = "abandon"
    /\ \/ eligible' = [eligible EXCEPT ![claim[w]] = @ \/ AttemptRow(claim[w])]
       \/ UNCHANGED eligible
    /\ Continue(w, "record", NoBundle)
    /\ UNCHANGED <<bundleVars, aliasVars, versionBundle, prefixOf, objects>>

FinishAttempt(w) ==
    /\ phase[w] = "record"
    /\ RecordFailure(w)
    /\ Enter(w, "none", NoBundle)
    /\ UNCHANGED storeVars

BundleCrash(w) ==
    /\ Crash(w)
    /\ Enter(w, "none", NoBundle)
    /\ UNCHANGED storeVars

-----------------------------------------------------------------------------
(* The API and Reconciliation.                                             *)

AttemptsOf(artifact) == {a \in Attempts : ArtifactOf[SessionOf[a.job]] = artifact}

BundlesOf(artifact) ==
    {versionBundle[s] : s \in SessionsOf(artifact)} \ {NoBundle}

NeverRetired(bundles, alias) == alias

RetiredBy(bundles, alias) == IF alias \in bundles THEN NoBundle ELSE alias

IgnoreOthers(b, artifact)   == FALSE
AssumeOthers(b, artifact)   == TRUE

ReferencedByOthers(b, artifact) ==
    \E s \in Sessions \ SessionsOf(artifact) : versionBundle[s] = b

\* deleteOwned on bundles.  A bundle that another Artifact's Version references
\* only forgets this Artifact's attempts.  The foreign key on the creator keeps
\* the attempt rows of a bundle no Version references.
DeleteArtifactBundles(artifact) ==
    LET shared   == {b \in BundlesOf(artifact) : ReferencedByOthers(b, artifact)}
        orphaned == BundlesOf(artifact) \ shared
    IN  /\ \A b \in Bundles \ BundlesOf(artifact) : creator[b] \notin AttemptsOf(artifact)
        /\ lifecycle' = [b \in Bundles |->
             IF b \in orphaned THEN "deleting" ELSE lifecycle[b]]
        /\ creator' = [b \in Bundles |->
             IF b \in orphaned \/ (b \in shared /\ creator[b] \in AttemptsOf(artifact))
             THEN NoAttempt ELSE creator[b]]
        /\ contentAlias' = [c \in Contents |-> RetiredBy(orphaned, contentAlias[c])]
        /\ rawAlias' = [r \in Raws |-> RetiredBy(orphaned, rawAlias[r])]
        /\ versionBundle' = [s \in Sessions |->
             IF ArtifactOf[s] = artifact THEN NoBundle ELSE versionBundle[s]]
        /\ UNCHANGED <<creatorLease, manifest, swept, prefixVars>>

BundleDeleteArtifact(artifact) ==
    /\ DeleteArtifact(artifact)
    /\ DeleteArtifactBundles(artifact)
    /\ UNCHANGED phaseVars

RecoverOnlyCompleted(b) ==
    /\ lifecycle[b] = "creating"
    /\ creatorLease[b] = 0
    /\ jobState[creator[b].job] = "completed"
    /\ lifecycle' = [lifecycle EXCEPT ![b] = "deleting"]
    /\ creator' = [creator EXCEPT ![b] = NoAttempt]
    /\ UNCHANGED <<vars, creatorLease, manifest, swept, aliasVars, versionBundle,
                   prefixVars, phaseVars>>

\* recoverExpiredCreatingBundles: the creator's job is over and its lease too.
\* The aliases stay active until the bundle's row is deleted.
RecoverExpiredCreatingBundle(b) ==
    /\ lifecycle[b] = "creating"
    /\ creatorLease[b] = 0
    /\ jobState[creator[b].job] \in {"completed", "failed"}
    /\ \A s \in Sessions : versionBundle[s] # b
    /\ lifecycle' = [lifecycle EXCEPT ![b] = "deleting"]
    /\ creator' = [creator EXCEPT ![b] = NoAttempt]
    /\ UNCHANGED <<vars, creatorLease, manifest, swept, aliasVars, versionBundle,
                   prefixVars, phaseVars>>

\* A cleanup claims the bundle and removes every object under its prefix; one
\* that failed, or lost its lease, is repeated.
RemoveBundleObjects(b) ==
    /\ lifecycle[b] = "deleting"
    /\ objects' = [a \in Attempts |-> IF prefixOf[a] = b THEN "none" ELSE objects[a]]
    /\ swept' = [swept EXCEPT ![b] = TRUE]
    /\ UNCHANGED <<vars, lifecycle, creator, creatorLease, manifest, aliasVars,
                   versionBundle, prefixOf, eligible, phaseVars>>

\* completeContentBundleCleanup: rows and aliases go by cascade.
CompleteBundleCleanup(b) ==
    /\ swept[b]
    /\ lifecycle' = [lifecycle EXCEPT ![b] = "absent"]
    /\ manifest' = [manifest EXCEPT ![b] = NoAttempt]
    /\ swept' = [swept EXCEPT ![b] = FALSE]
    /\ contentAlias' = [c \in Contents |-> RetiredBy({b}, contentAlias[c])]
    /\ rawAlias' = [r \in Raws |-> RetiredBy({b}, rawAlias[r])]
    /\ UNCHANGED <<vars, creator, creatorLease, versionBundle, prefixVars, phaseVars>>

SweepEndedAttempt(a) ==
    /\ attemptState[a] \in {"succeeded", "failed"}
    /\ objects' = [objects EXCEPT ![a] = "none"]
    /\ UNCHANGED <<vars, bundleVars, aliasVars, versionBundle, prefixOf, eligible,
                   phaseVars>>

\* claimEligibleAttemptPrefixes: swept while the row exists, every minute.
SweepAttemptPrefix(a) ==
    /\ eligible[a]
    /\ AttemptRow(a)
    /\ objects' = [objects EXCEPT ![a] = "none"]
    /\ UNCHANGED <<vars, bundleVars, aliasVars, versionBundle, prefixOf, eligible,
                   phaseVars>>

BundleReconcile(b) ==
    \/ RecoverExpiredCreatingBundle(b)
    \/ RemoveBundleObjects(b)
    \/ CompleteBundleCleanup(b)

BundleTick ==
    /\ \/ Tick
       \/ /\ ~TimeRuns
          /\ \E b \in Bundles : creatorLease[b] > 0
          /\ UNCHANGED vars
    /\ creatorLease' = [b \in Bundles |->
         IF creatorLease[b] > 0 THEN creatorLease[b] - 1 ELSE 0]
    /\ UNCHANGED <<lifecycle, creator, manifest, swept, aliasVars, versionBundle,
                   prefixVars, phaseVars>>

-----------------------------------------------------------------------------
\* What ProcessingJob does and bundles do not notice.
Unnoticed(action) == action /\ UNCHANGED <<storeVars, phaseVars>>

BundleWorkerStep(w) ==
    \/ Unnoticed(WorkerRecover(w))
    \/ Unnoticed(ClaimNothing(w))
    \/ StartAttempt(w)
    \/ LookupRawReuse(w)
    \/ PrepareManifest(w)
    \/ ReserveContentBundle(w)
    \/ PrepareBundleWrites(w)
    \/ PromoteManifest(w)
    \/ CommitBundleVersion(w)
    \/ MarkCleanupEligible(w)
    \/ FinishAttempt(w)

BundleNext ==
    \/ Unnoticed(UploadNext)
    \/ \E artifact \in Artifacts : BundleDeleteArtifact(artifact)
    \/ \E w \in Workers :
         BundleWorkerStep(w) \/ Unnoticed(Heartbeat(w)) \/ BundleCrash(w)
    \/ Unnoticed(Reconcile)
    \/ \E b \in Bundles : BundleReconcile(b)
    \/ \E a \in Attempts : SweepAttemptPrefix(a)
    \/ BundleTick

BundleSpec == BundleInit /\ [][BundleNext]_allVars

\* Workers as in ProcessingJob; and Reconciliation is run periodically, with a
\* storage that does not fail for ever.
FairBundleSpec ==
    /\ BundleSpec
    /\ WF_allVars(BundleTick)
    /\ \A w \in Workers : WF_allVars(BundleWorkerStep(w))
    /\ \A b \in Bundles : /\ WF_allVars(RecoverExpiredCreatingBundle(b))
                          /\ WF_allVars(RemoveBundleObjects(b))
                          /\ WF_allVars(CompleteBundleCleanup(b))

-----------------------------------------------------------------------------
(* Properties.                                                             *)

\* Every Version can be served: its bundle is ready and every object its
\* Manifest names is stored.  Deletion of another Artifact with the same
\* content, the sweep of losing prefixes, the removal of abandoned bundles and
\* Workers that outlive their lease must all leave those objects alone.
VersionsAreServable ==
    \A s \in Sessions : version[s] # NoAttempt =>
        LET b == versionBundle[s]
        IN  /\ b # NoBundle
            /\ lifecycle[b] = "ready"
            /\ manifest[b] # NoAttempt
            /\ prefixOf[manifest[b]] = b
            /\ objects[manifest[b]] = "complete"

\* Even when an applied commit is reported as an error, a Version keeps its ready
\* bundle and the Manifest, and its objects are lost in one way only: the Worker
\* scheduled the removal of the prefix that had won.  An attempt that overlaps
\* the winner and writes late, or is cleaned up, leaves them alone.
VersionsAreIntact ==
    \A s \in Sessions : version[s] # NoAttempt =>
        LET b == versionBundle[s]
        IN  /\ b # NoBundle
            /\ lifecycle[b] = "ready"
            /\ manifest[b] # NoAttempt
            /\ prefixOf[manifest[b]] = b
            /\ objects[manifest[b]] = "complete" \/ eligible[manifest[b]]

\* A bundle is ready exactly while a Version references it: deleteOwned decides
\* by the references of other Artifacts, whatever Worker is about to add one.
ReadyWhileReferenced ==
    \A b \in Bundles :
        lifecycle[b] = "ready" <=> \E s \in Sessions : versionBundle[s] = b

\* The aliases that decide on reuse: a content has at most one ready bundle and
\* its active alias leads there, an active raw alias leads to the ready bundle
\* of the same content, and no alias outlives its bundle's row.
AliasesAgree ==
    /\ \A b \in Bundles : lifecycle[b] = "ready" => contentAlias[ContentOfAttempt(b)] = b
    /\ \A c \in Contents : contentAlias[c] # NoBundle =>
         /\ lifecycle[contentAlias[c]] # "absent"
         /\ ContentOfAttempt(contentAlias[c]) = c
    /\ \A r \in Raws : rawAlias[r] # NoBundle =>
         /\ lifecycle[rawAlias[r]] = "ready"
         /\ ContentOfAttempt(rawAlias[r]) = ContentOf[r]

\* An attempt whose prefix is scheduled for removal has not won its bundle and
\* no live Worker is still working for it: mark_attempt_cleanup_eligible looks
\* at neither.
OnlyLosersAreSwept ==
    \A a \in Attempts : eligible[a] =>
        /\ \A b \in Bundles : manifest[b] # a
        /\ \A w \in Workers : claim[w] = a => pc[w] # "processing"

\* Winner metadata is written once, by the bundle's creator under its live
\* creator lease and the job's live lease, when its objects are all stored.  A
\* takeover or an expired lease shuts out the slow creator for good.
PublishFenced ==
    \A b \in Bundles :
        /\ lifecycle[b] # "ready" /\ lifecycle'[b] = "ready" =>
             /\ manifest'[b] = creator[b]
             /\ creatorLease[b] > 0
             /\ ActiveAttempt(creator[b])
             /\ prefixOf[creator[b]] = b
             /\ objects[creator[b]] = "complete"
        /\ lifecycle[b] = "ready" => manifest'[b] = manifest[b]

FencedPublication == [][PublishFenced]_allVars

\* No bundle is left behind: one whose creator died is taken over, or recovered
\* and removed, and so is one that lost its last reference.
BundlesAreResolved ==
    \A b \in Bundles :
        lifecycle[b] \in {"creating", "deleting"} ~> lifecycle[b] \in {"ready", "absent"}
=============================================================================
