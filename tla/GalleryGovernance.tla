------------------------- MODULE GalleryGovernance -------------------------
(***************************************************************************)
(* Gallery listings under governance: a Creator's proposals and withdrawal,*)
(* the promoter that makes a reviewed proposal public, reports, the        *)
(* Administrator's decisions on them, Appeals against those, and the end   *)
(* of the source.                                                          *)
(*                                                                         *)
(* A report stands for its case and for the decision that closes the case; *)
(* an Appeal for its own case.  A listing is named by its Artifact and its *)
(* number: a later one is the replacement of an earlier one.  Only active  *)
(* restrictions, takedowns and review bases are kept, each under the root  *)
(* decision it derives from.  Left out: the decision kinds no case of the  *)
(* code ever allows (restore, clear, approve, reject), notifications,      *)
(* featured positions, profiles and rate limits.                           *)
(***************************************************************************)
EXTENDS Integers, FiniteSets

CONSTANTS
    Originals, Copies, \* Artifacts, and Artifacts saved from a listing of one
    Versions,
    MaxShares,         \* bound: Shares and Updates ever tried
    Reports            \* bound: reports ever made

ASSUME ArtifactsAssumption == Originals \intersect Copies = {}
ASSUME BoundsAssumption == MaxShares \in Nat \ {0} /\ 0 \notin Versions

VARIABLES
    listing,     \* gallery_listing, by Artifact and number
    proposal,    \* the open gallery_listing_proposal of each listing
    sharing,     \* Artifacts with a Share or Update whose governance check has passed
    shares,      \* how many there have been
    origin,      \* artifact_gallery_provenance of the Copies saved so far
    report,      \* gallery_governance_case with its decision and the Appeal against that
    restriction, \* active gallery_public_sharing_restriction: Artifact and root decision
    takedown,    \* active gallery_artifact_takedown
    basis,       \* active gallery_review_basis: Artifact and case or root decision
    ended        \* Artifacts deleted by their Owner or with the account

blocks == <<restriction, takedown, basis>>
asking == <<sharing, shares>>
vars   == <<listing, proposal, asking, origin, report, blocks, ended>>

Artifacts == Originals \union Copies
Listings  == Artifacts \X (1 .. MaxShares)
Open      == {"pending", "listed"}
None      == <<>>

NoListing  == [lifecycle |-> "none", review |-> "clear", reason |-> "none",
               revision |-> 0, current |-> 0]
NoProposal == [base |-> 0, version |-> 0]
NoReport   == [state |-> "none", on |-> None, decision |-> "none", appeal |-> "none"]

Init ==
    /\ listing = [l \in Listings |-> NoListing]
    /\ proposal = [l \in Listings |-> NoProposal]
    /\ sharing = {} /\ shares = 0
    /\ origin = [c \in Copies |-> None]
    /\ report = [r \in Reports |-> NoReport]
    /\ restriction = {} /\ takedown = {} /\ basis = {}
    /\ ended = {}
-----------------------------------------------------------------------------
Created(a)    == {l \in Listings : l[1] = a /\ listing[l].lifecycle # "none"}
Count(a)      == Cardinality(Created(a))
Latest(a)     == <<a, Count(a)>>
Blocked(a, S) == \E b \in S : b[1] = a
Exists(a)     == a \notin ended /\ (a \in Copies => origin[a] # None)

\* What the public query demands of a listing.
Public(l) ==
    /\ listing[l].lifecycle = "listed" /\ listing[l].review # "restricted"
    /\ ~Blocked(l[1], restriction) /\ ~Blocked(l[1], takedown)

\* A row that closes, with the revision it commits.
Closed(row, lifecycle, reason) ==
    [row EXCEPT !.lifecycle = lifecycle, !.reason = reason, !.revision = @ + 1]

Proposed(l)       == proposal[l] # NoProposal
CloseProposals(S) == proposal' = [l \in Listings |-> IF l \in S THEN NoProposal ELSE proposal[l]]
-----------------------------------------------------------------------------
(* The Creator. *)

\* The transaction looks for blocks before it locks the listing and inserts.
BeginShare(a) ==
    /\ Exists(a) /\ a \notin sharing /\ shares < MaxShares
    /\ ~Blocked(a, restriction) /\ ~Blocked(a, takedown)
    /\ sharing' = sharing \union {a} /\ shares' = shares + 1
    /\ UNCHANGED <<listing, proposal, origin, report, blocks, ended>>

Asked(a) == a \in sharing /\ sharing' = sharing \ {a} /\ UNCHANGED shares

Opened(base, v) == [base |-> base, version |-> v]

\* Share to Gallery; also in place of a listing an Administrator removed, once that is confirmed.
Share(a, v) ==
    LET next == <<a, Count(a) + 1>> IN
    /\ Asked(a) /\ Exists(a)
    /\ Count(a) > 0 => listing[Latest(a)].lifecycle \notin Open
    /\ listing' = [listing EXCEPT ![next] =
                     [NoListing EXCEPT !.lifecycle = "pending", !.revision = 1]]
    /\ proposal' = [proposal EXCEPT ![next] = Opened(1, v)]
    /\ UNCHANGED <<origin, report, blocks, ended>>

\* Update Gallery; a second open proposal meets the unique index.
Update(a, v) ==
    LET l == Latest(a) IN
    /\ Asked(a) /\ Exists(a) /\ Count(a) > 0
    /\ listing[l].lifecycle = "listed" /\ ~Proposed(l)
    /\ proposal' = [proposal EXCEPT ![l] = Opened(listing[l].revision, v)]
    /\ UNCHANGED <<listing, origin, report, blocks, ended>>

\* listing_already_open, listing_not_found, listing_revision_conflict, a deadlock: nothing stays.
ShareFails(a) ==
    /\ Asked(a)
    /\ UNCHANGED <<listing, proposal, origin, report, blocks, ended>>

Withdraw(l) ==
    /\ listing[l].lifecycle \in Open
    /\ listing' = [listing EXCEPT ![l] = Closed(@, "withdrawn", "creator_withdrawal")]
    /\ CloseProposals({l})
    /\ UNCHANGED <<asking, origin, report, blocks, ended>>

\* A copy of what the listing shows becomes ready.
SaveCopy(c, l) ==
    /\ origin[c] = None /\ l[1] \in Originals /\ Public(l)
    /\ origin' = [origin EXCEPT ![c] = <<l, listing[l].current>>]
    /\ UNCHANGED <<listing, proposal, asking, report, blocks, ended>>
-----------------------------------------------------------------------------
(* The promoter resolves an open proposal of an open listing. *)

GovernanceBlocks(l) ==
    \/ Blocked(l[1], restriction) \/ Blocked(l[1], takedown)
    \/ \E r \in Reports : report[r].on = l /\ report[r].appeal = "pending"

Resolvable(l) == Proposed(l) /\ listing[l].lifecycle \in Open

PromoteOnReview(l) ==
    /\ Proposed(l) /\ ~GovernanceBlocks(l)
    /\ listing' = [listing EXCEPT ![l].lifecycle = "listed", ![l].current = proposal[l].version,
                                  ![l].revision = @ + 1]
    /\ CloseProposals({l})
    /\ UNCHANGED <<asking, origin, report, blocks, ended>>

Promote(l) ==
    /\ Resolvable(l) /\ proposal[l].base = listing[l].revision /\ ~GovernanceBlocks(l)
    /\ listing' = [listing EXCEPT ![l].lifecycle = "listed", ![l].current = proposal[l].version,
                                  ![l].revision = @ + 1]
    /\ CloseProposals({l})
    /\ UNCHANGED <<asking, origin, report, blocks, ended>>

\* A rejected or blocked proposal takes a listing that never was public with it.
Reject(l, state) ==
    /\ Resolvable(l) /\ proposal[l].base = listing[l].revision
    /\ state = "rejected" => ~GovernanceBlocks(l)
    /\ CloseProposals({l})
    /\ listing' = IF listing[l].current # 0 THEN listing
                  ELSE [listing EXCEPT ![l] = Closed(@, "removed",
                          IF state = "rejected" THEN "initial_policy_rejection"
                                                ELSE "initial_governance_block")]
    /\ UNCHANGED <<asking, origin, report, blocks, ended>>
-----------------------------------------------------------------------------
(* Reports and decisions. *)

ReportListing(r, l) ==
    /\ report[r].state = "none" /\ Public(l)
    /\ report' = [report EXCEPT ![r] = [@ EXCEPT !.state = "open", !.on = l]]
    /\ basis' = basis \union {<<l[1], r>>}
    /\ listing' = [listing EXCEPT ![l].review = IF @ = "clear" THEN "reviewing" ELSE @]
    /\ UNCHANGED <<proposal, asking, origin, restriction, takedown, ended>>

\* recomputeArtifact for each Artifact of S, under the blocks of the next state.
ReviewOfBasisFirst(a) ==
    IF Blocked(a, basis') \/ Blocked(a, takedown') THEN "reviewing"
    ELSE IF Blocked(a, restriction') THEN "restricted" ELSE "clear"

ReviewOf(a) ==
    IF Blocked(a, restriction') THEN "restricted"
    ELSE IF Blocked(a, basis') \/ Blocked(a, takedown') THEN "reviewing" ELSE "clear"

Recomputed(rows, S) ==
    [l \in Listings |-> IF l[1] \in S /\ rows[l].lifecycle \in Open
                        THEN [rows[l] EXCEPT !.review = ReviewOf(l[1])]
                        ELSE rows[l]]

Decided(r, kind) ==
    report' = [report EXCEPT ![r] = [@ EXCEPT !.state = "decided", !.decision = kind]]

Subject(r) == report[r].on[1]

Dismiss(r) ==
    /\ report[r].state = "open" /\ Decided(r, "dismiss")
    /\ basis' = basis \ {<<Subject(r), r>>}
    /\ UNCHANGED <<restriction, takedown>>
    /\ listing' = Recomputed(listing, {Subject(r)})
    /\ UNCHANGED <<proposal, asking, origin, ended>>

\* An open Update proposal of the listing stays open, and so does the report's basis.
Remove(r) ==
    LET l == report[r].on IN
    /\ report[r].state = "open" /\ Decided(r, "remove")
    /\ listing[l].lifecycle = "listed" /\ listing[l].current # 0
    /\ UNCHANGED <<restriction, takedown, basis>>
    /\ listing' = Recomputed([listing EXCEPT ![l] =
                     [Closed(@, "removed", "administrator_removal") EXCEPT !.review = "clear"]],
                     {l[1]})
    /\ UNCHANGED <<proposal, asking, origin, ended>>

\* Copies of what the listings of an Artifact show now; one that is restricted
\* already keeps the restriction it has (on conflict do nothing).
CopiesOfCurrent(a) ==
    {c \in Copies : \E l \in Created(a) : origin[c] = <<l, listing[l].current>>}
Reached(a) == {c \in CopiesOfCurrent(a) : ~Blocked(c, restriction)}

\* closeBlockedProposals: of the governed Artifact alone.
BlockedRow(row) ==
    IF row.lifecycle = "pending" THEN Closed(row, "removed", "initial_governance_block") ELSE row

Block(r, kind, S) ==
    LET a    == Subject(r)
        hit  == {<<c, r>> : c \in S} IN
    /\ Decided(r, kind)
    /\ restriction' = restriction \union (hit \ IF kind = "takedown" THEN {<<a, r>>} ELSE {})
    /\ takedown' = IF kind = "takedown" THEN takedown \union {<<a, r>>} ELSE takedown
    /\ basis' = basis \union hit
    /\ listing' = Recomputed([l \in Listings |->
                    IF l[1] = a THEN BlockedRow(listing[l])
                    ELSE IF l[1] \in S /\ listing[l].lifecycle \in Open
                    THEN [listing[l] EXCEPT !.review = "restricted"] ELSE listing[l]], {a})
    /\ CloseProposals(Created(a))
    /\ UNCHANGED <<asking, origin, ended>>

\* A second active restriction or takedown of one Artifact meets the unique index.
RestrictSharing(r) ==
    /\ report[r].state = "open" /\ ~Blocked(Subject(r), restriction)
    /\ Block(r, "restrict", {Subject(r)} \union Reached(Subject(r)))

Takedown(r) ==
    /\ report[r].state = "open" /\ ~Blocked(Subject(r), takedown)
    /\ Block(r, "takedown", {Subject(r)} \union Reached(Subject(r)))
-----------------------------------------------------------------------------
(* Appeals. *)

InForce(r) ==
    \/ \E b \in restriction \union takedown : b[2] = r
    \/ /\ report[r].decision = "remove"
       /\ listing[report[r].on].lifecycle = "removed"
       /\ listing[report[r].on].reason = "administrator_removal"

Appeal(r) ==
    /\ report[r].state = "decided" /\ report[r].appeal = "none" /\ InForce(r)
    /\ report' = [report EXCEPT ![r].appeal = "pending"]
    /\ UNCHANGED <<listing, proposal, asking, origin, blocks, ended>>

Uphold(r) ==
    /\ report[r].appeal = "pending"
    /\ report' = [report EXCEPT ![r].appeal = "upheld"]
    /\ UNCHANGED blocks
    /\ listing' = Recomputed(listing, {Subject(r)})
    /\ UNCHANGED <<proposal, asking, origin, ended>>

\* Every row under the challenged decision ends, whichever Artifact it blocks.
UnderOnSubject(S, r) == {b \in S : b = <<Subject(r), r>>}
Under(S, r) == {b \in S : b[2] = r}

\* A reversed removal leaves the listing removed: no Removal case is ever opened to restore it.
Reverse(r) ==
    /\ report[r].appeal = "pending"
    /\ report' = [report EXCEPT ![r].appeal = "reversed"]
    /\ restriction' = restriction \ Under(restriction, r)
    /\ takedown' = takedown \ Under(takedown, r)
    /\ basis' = basis \ (IF report[r].decision = "remove" THEN {} ELSE Under(basis, r))
    /\ listing' = Recomputed(listing, {b[1] : b \in Under(restriction, r)} \union {Subject(r)})
    /\ UNCHANGED <<proposal, asking, origin, ended>>
-----------------------------------------------------------------------------
(* The Artifact is deleted, or the account closed. *)

Ends(row) ==
    IF row.lifecycle \in Open \/ row.reason = "administrator_removal"
    THEN Closed(row, "withdrawn", "source_deleted") ELSE row

\* The tombstone of a removed listing cannot be updated: the deletion fails as a whole.
Deletable(a) == \A l \in Created(a) : listing[l].reason # "administrator_removal"

DeleteSource(a) ==
    /\ Exists(a) /\ Deletable(a)
    /\ ended' = ended \union {a}
    /\ listing' = [l \in Listings |-> IF l[1] = a THEN Ends(listing[l]) ELSE listing[l]]
    /\ CloseProposals(Created(a))
    /\ report' = [r \in Reports |->
                    IF report[r].appeal = "pending" /\ Subject(r) = a
                    THEN [report[r] EXCEPT !.appeal = "moot"] ELSE report[r]]
    /\ UNCHANGED <<asking, origin, blocks>>
-----------------------------------------------------------------------------
Creator ==
    \/ \E a \in Artifacts :
          \/ BeginShare(a) \/ ShareFails(a) \/ DeleteSource(a)
          \/ \E v \in Versions : Share(a, v) \/ Update(a, v)
    \/ \E l \in Listings : Withdraw(l) \/ \E c \in Copies : SaveCopy(c, l)

Promoter ==
    \E l \in Listings : Promote(l) \/ \E state \in {"rejected", "governance_blocked"} : Reject(l, state)

Administrator ==
    \E r \in Reports :
        \/ Dismiss(r) \/ Remove(r) \/ RestrictSharing(r) \/ Takedown(r)
        \/ Uphold(r) \/ Reverse(r)

Next ==
    \/ Creator \/ Promoter \/ Administrator
    \/ \E r \in Reports : Appeal(r) \/ \E l \in Listings : ReportListing(r, l)

Spec == Init /\ [][Next]_vars
-----------------------------------------------------------------------------
(* Properties. *)

\* The rows of one Artifact agree: at most one listing is open, what is listed has a reviewed
\* Version and shows an active restriction, a Creator's open proposal belongs to an open listing
\* on the revision it was made for, or to one an Administrator removed meanwhile.  Owner operations, promotion and decisions each
\* write several of these tables, under locks taken in different orders.
ListingsAgree ==
    /\ listing \in [Listings -> [lifecycle : Open \union {"none", "withdrawn", "removed"},
                                 review : {"clear", "reviewing", "restricted"},
                                 reason : {"none", "creator_withdrawal", "administrator_removal",
                                           "initial_policy_rejection",
                                           "initial_governance_block", "source_deleted"},
                                 revision : Nat, current : Versions \union {0}]]
    /\ \A l, m \in Listings :
          l[1] = m[1] /\ {listing[l].lifecycle, listing[m].lifecycle} \subseteq Open => l = m
    /\ \A l \in Listings :
          /\ listing[l].lifecycle = "listed" => listing[l].current # 0
          /\ listing[l].lifecycle = "listed" /\ Blocked(l[1], restriction)
                => listing[l].review = "restricted"
          /\ Proposed(l) =>
                \/ listing[l].lifecycle \in Open /\ proposal[l].base = listing[l].revision
                \/ listing[l].reason = "administrator_removal"

\* Whatever blocks an Artifact, be it the governed one or a copy a decision reached, goes back to
\* a decision that is still in force: a successful Appeal lifts all of it, and a dismissed or
\* removing decision leaves no block at all.
BlocksAreInForce ==
    \A b \in restriction \union takedown :
        /\ report[b[2]].state = "decided"
        /\ report[b[2]].decision \in {"restrict", "takedown"}
        /\ report[b[2]].appeal # "reversed"

\* A closed listing never opens again, an open one changes its Version only by a proposal made on
\* the revision it still has, and a revision is never reused: the idempotent answers and the
\* compare-and-set of proposals rest on it.
ListingsMoveForward ==
    [][\A l \in Listings :
         LET old == listing[l]  new == listing'[l] IN
         /\ new.revision >= old.revision
         /\ old.lifecycle \in {"withdrawn", "removed"} => new.lifecycle \notin Open
         /\ new.current # old.current =>
               /\ Proposed(l) /\ proposal[l].base = old.revision
               /\ new.revision > old.revision]_vars
=============================================================================
