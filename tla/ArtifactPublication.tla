------------------------ MODULE ArtifactPublication ------------------------
(***************************************************************************)
(* Publications and Share links of one Owner's Artifacts, and the deletion *)
(* of an Artifact: the transaction that retires it, the erasing of its     *)
(* uploaded objects by the API call and by the reconciler, and what is     *)
(* kept of an Artifact that has been in the Gallery.                       *)
(*                                                                         *)
(* A transaction is one step.  The one that publishes is two, because its  *)
(* timestamp (created_at, the now() of PostgreSQL) is taken when it begins *)
(* and its effect comes when it has the Artifact's row lock.  A Version is *)
(* named by its Artifact and its Content bundle, and an upload is one step *)
(* from its checks to the Version; Processing jobs, bundle cleanup and the *)
(* Gallery are other modules.  Here a listing only exists or not, and a    *)
(* hold stands for evidence, a copy or a download that needs the source.   *)
(***************************************************************************)
EXTENDS Integers, Sequences, FiniteSets

CONSTANTS
    Artifacts, Bundles, Keys, \* Keys: idempotency keys of Publish
    Reconcilers,
    MaxRequests,              \* bound: Publish requests ever begun
    MaxCases,                 \* bound: holds and blocks ever imposed
    MaxFaults                 \* bound: failures, crashes and things that run out of time

ASSUME BoundsAssumption == MaxRequests \in Nat /\ MaxCases \in Nat /\ MaxFaults \in Nat

VARIABLES
    artifact,    \* Artifacts whose row exists
    version,     \* Versions: none, ready, or emptied of their bundle
    bundle,      \* content_bundle: none, ready, deleting
    retired,     \* bundles whose aliases are retired and thumbnail job cancelled
    publication, \* artifact_publication of each Artifact, in commit order
    link,        \* how many Share links the Artifact has had; the last is active
    recorded,    \* artifact_idempotency_record: what was published under each key
    request,     \* Publish transactions that have begun
    begun,       \* how many there have been
    listed,      \* Artifacts with a gallery_listing
    held,        \* Artifacts under a Gallery hold
    blocked,     \* Artifacts under a restriction or takedown
    cases,       \* how many holds and blocks there have been
    cleanup,     \* artifact_deletion_cleanup: state and lease_owner
    raw,         \* Artifacts with uploaded objects in storage
    deleter,     \* the API's delete call
    worker,      \* what each reconciler is doing with which Artifact
    faults

content  == <<version, bundle, retired, raw>>
sharing  == <<publication, link, recorded>>
asking   == <<request, begun>>
gallery  == <<listed, held, blocked, cases>>
deletion == <<cleanup, deleter, worker, faults>>
vars     == <<artifact, content, sharing, asking, gallery, deletion>>

None      == "none"
ASSUME NoneAssumption == None \notin Bundles \union Reconcilers

NoCleanup == [state |-> None, lease |-> None]
Due       == [state |-> "due", lease |-> None]
Parked    == [state |-> "parked", lease |-> None]  \* next_attempt_at = infinity
Idle      == [at |-> "idle", on |-> None]

Init ==
    /\ artifact = Artifacts
    /\ version = [v \in Artifacts \X Bundles |-> None]
    /\ bundle = [b \in Bundles |-> None] /\ retired = {} /\ raw = {}
    /\ publication = [a \in Artifacts |-> <<>>] /\ link = [a \in Artifacts |-> 0]
    /\ recorded = [a \in Artifacts |-> [k \in Keys |-> None]]
    /\ request = {} /\ begun = 0
    /\ listed = {} /\ held = {} /\ blocked = {} /\ cases = 0
    /\ cleanup = [a \in Artifacts |-> NoCleanup]
    /\ deleter = [a \in Artifacts |-> "idle"]
    /\ worker = [r \in Reconcilers |-> Idle] /\ faults = 0
-----------------------------------------------------------------------------
BundlesOf(a) == {b \in Bundles : version[<<a, b>>] = "ready"}
Managed(a)   == a \in artifact /\ cleanup[a] = NoCleanup \* what findOwned returns
IsCurrent(p) == p.ended = None
Current(a)   == {i \in DOMAIN publication[a] : IsCurrent(publication[a][i])}

\* A new Version of an Artifact, in a new bundle or in one whose content it repeats.
UploadVersion(a, b) ==
    /\ Managed(a) /\ version[<<a, b>>] = None
    /\ bundle[b] # "deleting" /\ b \notin retired
    /\ version' = [version EXCEPT ![<<a, b>>] = "ready"]
    /\ bundle' = [bundle EXCEPT ![b] = "ready"]
    /\ raw' = raw \union {a}
    /\ UNCHANGED <<artifact, retired, sharing, asking, gallery, deletion>>

ShareToGallery(a) ==
    /\ Managed(a) /\ BundlesOf(a) # {} /\ a \notin listed \union blocked
    /\ listed' = listed \union {a}
    /\ UNCHANGED <<artifact, content, sharing, asking, held, blocked, cases, deletion>>

\* A report, an accepted copy or a download of the public listing; its end.
Hold(a) ==
    /\ a \in listed \ (held \union blocked) /\ Managed(a)
    /\ cases < MaxCases /\ cases' = cases + 1
    /\ held' = held \union {a}
    /\ UNCHANGED <<artifact, content, sharing, asking, listed, blocked, deletion>>

Release(a) ==
    /\ a \in held /\ held' = held \ {a}
    /\ UNCHANGED <<artifact, content, sharing, asking, listed, blocked, cases, deletion>>

Block(a) ==
    /\ a \in listed \ blocked /\ cases < MaxCases
    /\ cases' = cases + 1
    /\ blocked' = blocked \union {a}
    /\ UNCHANGED <<artifact, content, sharing, asking, listed, held, deletion>>

Unblock(a) ==
    /\ a \in blocked /\ blocked' = blocked \ {a}
    /\ UNCHANGED <<artifact, content, sharing, asking, listed, held, cases, deletion>>
-----------------------------------------------------------------------------
(* Publish, and what else the Owner does to a Publication. *)

Begin(a, b, k, replace) ==
    /\ begun < MaxRequests /\ begun' = begun + 1
    /\ request' = request \union
         {[on |-> a, bundle |-> b, key |-> k, replace |-> replace, born |-> begun']}
    /\ UNCHANGED <<artifact, content, sharing, gallery, deletion>>

\* Refused, rolled back, or the stored answer returned: the rows stay as they are.
Unanswered(q) ==
    /\ q \in request /\ request' = request \ {q}
    /\ UNCHANGED <<artifact, content, sharing, begun, gallery, deletion>>

\* A publish that superseded accessible Publications only would leave an expired one open.
SupersededIfAccessible(history) ==
    [i \in DOMAIN history |->
        IF IsCurrent(history[i]) /\ ~history[i].expired
        THEN [history[i] EXCEPT !.ended = "superseded"] ELSE history[i]]

Superseded(history) ==
    [i \in DOMAIN history |->
        IF IsCurrent(history[i]) THEN [history[i] EXCEPT !.ended = "superseded"] ELSE history[i]]

Replayed(q) == recorded[q.on][q.key] # None

Publish(q) ==
    /\ q \in request /\ q.on \in artifact /\ ~Replayed(q)
    /\ q.on \notin blocked
    /\ version[<<q.on, q.bundle>>] \in {"ready", "emptied"} \* its state, not its bundle
    /\ request' = request \ {q}
    /\ publication' = [publication EXCEPT ![q.on] =
         Append(Superseded(@), [bundle |-> q.bundle, key |-> q.key, born |-> q.born,
                                ended |-> None, expired |-> FALSE])]
    /\ link' = [link EXCEPT ![q.on] = IF q.replace \/ @ = 0 THEN @ + 1 ELSE @]
    /\ recorded' = [recorded EXCEPT ![q.on][q.key] = q.bundle]
    /\ UNCHANGED <<artifact, content, begun, gallery, deletion>>

Unpublish(a) ==
    \E i \in Current(a) :
        /\ publication' = [publication EXCEPT ![a][i].ended = "unpublished"]
        /\ UNCHANGED <<artifact, content, link, recorded, asking, gallery, deletion>>

Expire(a) ==
    \E i \in Current(a) :
        /\ ~publication[a][i].expired /\ faults < MaxFaults
        /\ faults' = faults + 1
        /\ publication' = [publication EXCEPT ![a][i].expired = TRUE]
        /\ UNCHANGED <<artifact, content, link, recorded, asking, gallery,
                       cleanup, deleter, worker>>

UpdateExpiration(a) ==
    \E i \in Current(a) :
        /\ a \in artifact \ blocked /\ publication[a][i].expired
        /\ publication' = [publication EXCEPT ![a][i].expired = FALSE]
        /\ UNCHANGED <<artifact, content, link, recorded, asking, gallery, deletion>>

\* What a Viewer request on the Share link finds: the Publication created last.
Newest(history) == CHOOSE i \in DOMAIN history :
    \A j \in DOMAIN history : history[i].born >= history[j].born

Resolve(a) ==
    IF publication[a] = <<>> THEN "unpublished"
    ELSE LET p == publication[a][Newest(publication[a])]
         IN IF ~IsCurrent(p) THEN "unpublished"
            ELSE IF p.expired THEN "expired"
            ELSE IF a \in blocked THEN "restricted" ELSE "published"
-----------------------------------------------------------------------------
(* The Owner's delete call: one transaction, then the objects, then the    *)
(* cleanup row.                                                            *)

Referenced(b, a) == \E other \in Artifacts \ {a} : version[<<other, b>>] = "ready"
Unshared(a)      == {b \in BundlesOf(a) : ~Referenced(b, a)}
Emptied(a)       == [v \in DOMAIN version |->
                       IF v[1] = a /\ version[v] = "ready" THEN "emptied" ELSE version[v]]

\* Aliases retired and thumbnail jobs cancelled; deleting, with a bundle cleanup.
RetireAliases(S) == retired' = retired \union S
Discard(S)       == bundle' = [b \in Bundles |-> IF b \in S THEN "deleting" ELSE bundle[b]]

EndSharing(a) ==
    /\ publication' = [publication EXCEPT ![a] = <<>>]
    /\ link' = [link EXCEPT ![a] = 0]

DeleteHeld(a) ==
    /\ a \in held
    /\ UNCHANGED <<artifact, content, sharing>>

DeleteListed(a) ==
    /\ a \in listed \ held
    /\ RetireAliases(Unshared(a)) /\ Discard(Unshared(a)) /\ EndSharing(a)
    /\ version' = Emptied(a)
    /\ UNCHANGED <<artifact, raw, recorded>>

DeleteUnlisted(a) ==
    /\ a \notin listed
    /\ RetireAliases(Unshared(a)) /\ Discard(Unshared(a)) /\ EndSharing(a)
    /\ version' = [v \in DOMAIN version |-> IF v[1] = a THEN None ELSE version[v]]
    /\ recorded' = [recorded EXCEPT ![a] = [k \in Keys |-> None]]
    /\ artifact' = artifact \ {a}
    /\ UNCHANGED raw

\* The cleanup row is inserted once: a second delete of a kept Artifact fails on it.
DeleteOwned(a) ==
    /\ deleter[a] = "idle"
    /\ a \in artifact /\ cleanup[a] = NoCleanup
    /\ cleanup' = [cleanup EXCEPT ![a] = Due]
    /\ deleter' = [deleter EXCEPT ![a] = "objects"]
    /\ DeleteHeld(a) \/ DeleteListed(a) \/ DeleteUnlisted(a)
    /\ UNCHANGED <<asking, gallery, worker, faults>>

\* A repeated call for an Artifact already gone takes up its cleanup.
ResumeDeletion(a) ==
    /\ deleter[a] = "idle"
    /\ a \notin artifact /\ cleanup[a] # NoCleanup
    /\ deleter' = [deleter EXCEPT ![a] = "objects"]
    /\ UNCHANGED <<artifact, content, sharing, asking, gallery, cleanup, worker, faults>>

DeleterErases(a) ==
    /\ deleter[a] = "objects"
    /\ raw' = raw \ {a}
    /\ deleter' = [deleter EXCEPT ![a] = "complete"]
    /\ UNCHANGED <<artifact, version, bundle, retired, sharing, asking, gallery,
                   cleanup, worker, faults>>

\* An object could not be deleted, or the API process stopped.
DeleterFails(a) ==
    /\ deleter[a] # "idle" /\ faults < MaxFaults
    /\ faults' = faults + 1
    /\ deleter' = [deleter EXCEPT ![a] = "idle"]
    /\ UNCHANGED <<artifact, content, sharing, asking, gallery, cleanup, worker>>

Finished(a) == IF a \in listed THEN Parked ELSE NoCleanup

CompleteDeletion(a) ==
    /\ deleter[a] = "complete"
    /\ deleter' = [deleter EXCEPT ![a] = "idle"]
    /\ cleanup' = IF a \in held \/ cleanup[a] = NoCleanup THEN cleanup
                  ELSE [cleanup EXCEPT ![a] = Finished(a)]
    /\ UNCHANGED <<artifact, content, sharing, asking, gallery, worker, faults>>
-----------------------------------------------------------------------------
(* The reconciler. *)

Working(r, a) == worker[r].on = a
Holds(r, a)   == cleanup[a].lease = r
Become(r, at) == worker' = [worker EXCEPT ![r].at = at]
Done(r)       == worker' = [worker EXCEPT ![r] = Idle]

\* A claim that did not take over leases that have run out.
ClaimableUnleased(a) == cleanup[a] = Due /\ a \notin held
Claimable(a)         == cleanup[a].state = "due" /\ a \notin held

ClaimCleanup(r, a) ==
    /\ worker[r] = Idle /\ Claimable(a)
    /\ cleanup' = [cleanup EXCEPT ![a] = [state |-> "leased", lease |-> r]]
    /\ worker' = [worker EXCEPT ![r] = [at |-> "objects", on |-> a]]
    /\ UNCHANGED <<artifact, content, sharing, asking, gallery, deleter, faults>>

\* The minute is over before the reconciler has finished, or after it stopped.
LeaseExpires(a) ==
    /\ cleanup[a].state = "leased"
    /\ IF Working(cleanup[a].lease, a)
       THEN faults < MaxFaults /\ faults' = faults + 1
       ELSE UNCHANGED faults
    /\ cleanup' = [cleanup EXCEPT ![a].state = "due"]
    /\ UNCHANGED <<artifact, content, sharing, asking, gallery, deleter, worker>>

ReconcilerErases(r, a) ==
    /\ worker[r] = [at |-> "objects", on |-> a]
    /\ raw' = raw \ {a}
    /\ Become(r, "complete")
    /\ UNCHANGED <<artifact, version, bundle, retired, sharing, asking, gallery,
                   cleanup, deleter, faults>>

ReconcilerEraseFails(r) ==
    /\ worker[r].at = "objects" /\ faults < MaxFaults
    /\ faults' = faults + 1
    /\ Become(r, "failed")
    /\ UNCHANGED <<artifact, content, sharing, asking, gallery, cleanup, deleter>>

ReconcilerStops(r) ==
    /\ worker[r] # Idle /\ faults < MaxFaults
    /\ faults' = faults + 1
    /\ Done(r)
    /\ UNCHANGED <<artifact, content, sharing, asking, gallery, cleanup, deleter>>

\* Without the check of the table, or with all three columns set to null.
NullsBundlesAlways(a) == TRUE

\* artifact_version_content_bundle_reference_check: owner, bundle and renderer are null together.
NullsBundlesAlone(a) == BundlesOf(a) = {}

\* The row of an Artifact without a listing goes if the lease is still this one.
CompleteUnlisted(r, a) ==
    /\ worker[r] = [at |-> "complete", on |-> a]
    /\ a \notin listed
    /\ cleanup' = IF Holds(r, a) THEN [cleanup EXCEPT ![a] = NoCleanup] ELSE cleanup
    /\ Done(r)
    /\ UNCHANGED <<artifact, content, sharing, asking, gallery, deleter, faults>>

LostCleanup(r, a) ==
    /\ worker[r] = [at |-> "complete", on |-> a]
    /\ a \in listed /\ ~Holds(r, a)
    /\ Done(r)
    /\ UNCHANGED <<artifact, content, sharing, asking, gallery, cleanup, deleter, faults>>

CompleteListed(r, a) ==
    /\ worker[r] = [at |-> "complete", on |-> a]
    /\ a \in listed /\ Holds(r, a) /\ NullsBundlesAlone(a)
    /\ RetireAliases(BundlesOf(a)) /\ Discard(Unshared(a)) /\ EndSharing(a)
    /\ version' = Emptied(a)
    /\ cleanup' = [cleanup EXCEPT ![a] = Parked]
    /\ Done(r)
    /\ UNCHANGED <<artifact, raw, recorded, asking, gallery, deleter, faults>>

\* The check refuses the update and the transaction is rolled back.
CompleteListedRaises(r, a) ==
    /\ worker[r] = [at |-> "complete", on |-> a]
    /\ a \in listed /\ Holds(r, a) /\ ~NullsBundlesAlone(a)
    /\ Become(r, "failed")
    /\ UNCHANGED <<artifact, content, sharing, asking, gallery, cleanup, deleter, faults>>

\* Due again after a delay.
FailCleanup(r, a) ==
    /\ worker[r] = [at |-> "failed", on |-> a]
    /\ cleanup' = IF Holds(r, a) THEN [cleanup EXCEPT ![a] = Due] ELSE cleanup
    /\ Done(r)
    /\ UNCHANGED <<artifact, content, sharing, asking, gallery, deleter, faults>>
-----------------------------------------------------------------------------
OwnerNext ==
    \/ \E a \in Artifacts, b \in Bundles : UploadVersion(a, b)
    \/ \E a \in Artifacts, b \in Bundles, k \in Keys, replace \in BOOLEAN :
         Begin(a, b, k, replace)
    \/ \E q \in request : Unanswered(q) \/ Publish(q)
    \/ \E a \in Artifacts : Unpublish(a) \/ Expire(a) \/ UpdateExpiration(a)

GalleryNext ==
    \E a \in Artifacts :
        ShareToGallery(a) \/ Hold(a) \/ Release(a) \/ Block(a) \/ Unblock(a)

DeleterNext ==
    \E a \in Artifacts :
        \/ DeleteOwned(a) \/ ResumeDeletion(a)
        \/ DeleterErases(a) \/ DeleterFails(a) \/ CompleteDeletion(a)

\* What the reconciler does once it has claimed, each step of which it takes.
Proceed(r, a) ==
    \/ ReconcilerErases(r, a)
    \/ CompleteUnlisted(r, a) \/ LostCleanup(r, a)
    \/ CompleteListed(r, a) \/ CompleteListedRaises(r, a)
    \/ FailCleanup(r, a)

ReconcilerNext ==
    \/ \E r \in Reconcilers, a \in Artifacts : ClaimCleanup(r, a) \/ Proceed(r, a)
    \/ \E r \in Reconcilers : ReconcilerEraseFails(r) \/ ReconcilerStops(r)
    \/ \E a \in Artifacts : LeaseExpires(a)

Next == OwnerNext \/ GalleryNext \/ DeleterNext \/ ReconcilerNext

\* The dispatcher runs the reconciler again and again, oldest attempt first, and a
\* lease ends a minute after it was taken.  Nobody has to call the API.
Fairness ==
    /\ \A a \in Artifacts : WF_vars(LeaseExpires(a))
    /\ \A a \in Artifacts : SF_vars(\E r \in Reconcilers : ClaimCleanup(r, a))
    /\ \A r \in Reconcilers : WF_vars(\E a \in Artifacts : Proceed(r, a))

Spec == Init /\ [][Next]_vars /\ Fairness
-----------------------------------------------------------------------------
(* Properties. *)

(***************************************************************************)
(* The Publications of an Artifact, its Share link and the idempotency     *)
(* records agree: at most one Publication has not ended and it is the one  *)
(* committed last, only the last may have been unpublished rather than     *)
(* superseded, none repeats a key, each is recorded under its key, and     *)
(* there is a link as soon as there is a Publication; and the link serves  *)
(* the Publication committed last or none, in whatever order overlapping   *)
(* transactions took their timestamps.  The partial unique indexes only    *)
(* refuse what would break this; publish has to supersede, and unpublish   *)
(* runs without the lock that publish takes.                               *)
(***************************************************************************)
PublicationsAgree ==
    \A a \in Artifacts : LET history == publication[a] IN
        /\ \A i \in DOMAIN history :
             /\ IsCurrent(history[i]) => i = Len(history)
             /\ history[i].ended = "superseded" => i < Len(history)
             /\ recorded[a][history[i].key] = history[i].bundle
             /\ \A j \in DOMAIN history : history[i].key = history[j].key => i = j
        /\ (history = <<>>) = (link[a] = 0)
        /\ Resolve(a) = "published" => Newest(history) = Len(history)

(***************************************************************************)
(* A bundle that a managed Artifact's Version needs stays ready, with its  *)
(* aliases and its thumbnail job, whatever is deleted beside it.           *)
(* deleteOwned asks for every bundle whether another Artifact needs it;    *)
(* completeArtifactDeletionCleanup retires aliases without asking.         *)
(***************************************************************************)
SharedBundlesStay ==
    \A a \in Artifacts : Managed(a) =>
        \A b \in BundlesOf(a) : bundle[b] = "ready" /\ b \notin retired

(***************************************************************************)
(* A deletion that no hold kept from its bundles is finished: its uploaded *)
(* objects are erased and its cleanup row is gone or, beside a listing,    *)
(* parked, whether the API's call, a reconciler, or one after the other    *)
(* failing, leaves it to the next (deleteOwned, completeDeletion,          *)
(* claimArtifactDeletionCleanups and what follows it).                     *)
(***************************************************************************)
DeletionsComplete ==
    \A a \in Artifacts :
        (cleanup[a] # NoCleanup /\ BundlesOf(a) = {})
            ~> (cleanup[a] \in {NoCleanup, Parked} /\ a \notin raw)
=============================================================================
