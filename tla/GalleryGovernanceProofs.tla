---------------------- MODULE GalleryGovernanceProofs ----------------------
(***************************************************************************)
(* Proofs about GalleryGovernance, for any number of Artifacts, Versions,  *)
(* Shares and reports: the rows of a listing agree, what blocks an         *)
(* Artifact goes back to a decision in force, and listings move forward.   *)
(***************************************************************************)
EXTENDS GalleryGovernance, FiniteSetTheorems, TLAPS

ListingRow ==
    [lifecycle : Open \union {"none", "withdrawn", "removed"},
     review : {"clear", "reviewing", "restricted"},
     reason : {"none", "creator_withdrawal", "administrator_removal", "initial_policy_rejection",
               "initial_governance_block", "source_deleted"},
     revision : Nat, current : Versions \union {0}]

ProposalRow == [base : Nat, version : Versions \union {0}]

ReportRow ==
    [state : {"none", "open", "decided"}, on : Listings \union {None},
     decision : {"none", "dismiss", "remove", "restrict", "takedown"},
     appeal : {"none", "pending", "upheld", "reversed", "moot"}]

\* A report that was made has its listing, and only a decision is appealed.
ReportsOK ==
    /\ report \in [Reports -> ReportRow]
    /\ \A r \in Reports : /\ report[r].state # "none" => report[r].on \in Listings
                          /\ report[r].state # "decided" => report[r].appeal = "none"

BlocksOK ==
    /\ restriction \subseteq Artifacts \X Reports /\ takedown \subseteq Artifacts \X Reports
    /\ BlocksAreInForce

\* A row not yet inserted is blank, and an Administrator's removal is one.
ListingsOK ==
    /\ listing \in [Listings -> ListingRow]
    /\ \A l \in Listings :
          /\ listing[l].lifecycle = "none" => listing[l] = NoListing
          /\ listing[l].reason = "administrator_removal" => listing[l].lifecycle = "removed"

\* The listings of an Artifact are numbered without a gap, within the Shares begun, and only
\* the last is open.
NumbersOK ==
    /\ sharing \subseteq Artifacts /\ shares \in 0 .. MaxShares
    /\ \A a \in Artifacts :
          /\ IsFiniteSet(Created(a)) /\ Count(a) \in Nat
          /\ Count(a) + (IF a \in sharing THEN 1 ELSE 0) <= shares
    /\ \A l \in Listings :
          /\ listing[l].lifecycle # "none" <=> l[2] <= Count(l[1])
          /\ listing[l].lifecycle \in Open => l[2] = Count(l[1])

\* A proposal names a Version, and was made on the revision its open listing has.
ProposalsOK ==
    /\ proposal \in [Listings -> ProposalRow]
    /\ \A l \in Listings : Proposed(l) =>
          /\ proposal[l].version # 0
          /\ \/ listing[l].lifecycle \in Open /\ proposal[l].base = listing[l].revision
             \/ listing[l].reason = "administrator_removal"

\* What is listed has a Version, and shows that it is restricted.
ListedOK ==
    \A l \in Listings : listing[l].lifecycle = "listed" =>
        /\ listing[l].current # 0
        /\ Blocked(l[1], restriction) => listing[l].review = "restricted"

GovernanceInv ==
    /\ ReportsOK /\ BlocksOK /\ ListingsOK /\ NumbersOK /\ ProposalsOK /\ ListedOK
-----------------------------------------------------------------------------
(* Rows. *)

\* What becomes of a row: it stays but for its review state, it closes, or it is promoted.
Stays(l) ==
    LET old == listing[l]  new == listing'[l] IN
    /\ new.lifecycle = old.lifecycle /\ new.reason = old.reason
    /\ new.revision = old.revision /\ new.current = old.current
    /\ old.lifecycle = "none" => new = old

Closes(l) ==
    LET old == listing[l]  new == listing'[l] IN
    /\ old.lifecycle \in Open /\ new.lifecycle \in {"withdrawn", "removed"}
    /\ new.revision = old.revision + 1 /\ new.current = old.current
    /\ new.reason = "administrator_removal" => new.lifecycle = "removed"

Promotes(l) ==
    LET old == listing[l]  new == listing'[l] IN
    /\ Proposed(l) /\ old.lifecycle \in Open /\ proposal[l].base = old.revision
    /\ new.lifecycle = "listed" /\ new.current = proposal[l].version
    /\ new.reason = old.reason /\ new.revision = old.revision + 1

Moves(l) == Stays(l) \/ Closes(l) \/ Promotes(l)

\* Proposals are closed or kept, and kept with a row that closes only if it was removed.
KeepsProposal(l) ==
    proposal'[l] # NoProposal =>
        /\ proposal'[l] = proposal[l]
        /\ Stays(l) \/ listing'[l].reason = "administrator_removal"

ShowsBlock(l) ==
    listing'[l].lifecycle = "listed" /\ Blocked(l[1], restriction') =>
        listing'[l].review = "restricted"

\* A step that leaves the rows in such an order.
Orderly ==
    /\ listing' \in [Listings -> ListingRow] /\ proposal' \in [Listings -> ProposalRow]
    /\ \A l \in Listings : Moves(l) /\ KeepsProposal(l) /\ ShowsBlock(l)

ListingInv == ListingsOK /\ NumbersOK /\ ProposalsOK /\ ListedOK

\* Another review state changes nothing else.
LEMMA ReviewedRow ==
    ASSUME NEW row \in ListingRow, NEW review \in {"clear", "reviewing", "restricted"}
    PROVE  LET new == [row EXCEPT !.review = review]
           IN  /\ new \in ListingRow /\ new.review = review
               /\ new.lifecycle = row.lifecycle /\ new.reason = row.reason
               /\ new.revision = row.revision /\ new.current = row.current
BY DEF ListingRow

\* A row that closes commits a revision.
LEMMA ClosedRow ==
    ASSUME NEW row \in ListingRow, NEW lifecycle \in {"withdrawn", "removed"},
           NEW reason \in {"creator_withdrawal", "administrator_removal", "initial_policy_rejection",
                           "initial_governance_block", "source_deleted"}
    PROVE  LET new == Closed(row, lifecycle, reason)
           IN  /\ new \in ListingRow /\ new.lifecycle = lifecycle /\ new.reason = reason
               /\ new.revision = row.revision + 1 /\ new.current = row.current
<1> DEFINE one == [row EXCEPT !.lifecycle = lifecycle]
           two == [one EXCEPT !.reason = reason]
           new == [two EXCEPT !.revision = row.revision + 1]
<1>1. /\ one \in ListingRow /\ one.lifecycle = lifecycle
      /\ one.revision = row.revision /\ one.current = row.current
  BY DEF ListingRow
<1>2. Closed(row, lifecycle, reason) = [[one EXCEPT !.reason = reason] EXCEPT !.revision = row.revision + 1]
  BY DEF Closed
<1> HIDE DEF one
<1>3. /\ two \in ListingRow /\ two.lifecycle = lifecycle /\ two.reason = reason
      /\ two.revision = row.revision /\ two.current = row.current
  BY <1>1 DEF ListingRow
<1>4. Closed(row, lifecycle, reason) = new
  BY <1>2
<1> HIDE DEF two
<1>5. /\ new \in ListingRow /\ new.lifecycle = lifecycle /\ new.reason = reason
      /\ new.revision = row.revision + 1 /\ new.current = row.current
  BY <1>3 DEF ListingRow
<1>6. QED
  BY <1>4, <1>5

\* The review state is recomputed for the open listings of the Artifacts governed.
LEMMA RecomputedRows ==
    ASSUME NEW rows \in [Listings -> ListingRow], NEW S
    PROVE  LET new == Recomputed(rows, S)
           IN  /\ new \in [Listings -> ListingRow]
               /\ \A l \in Listings :
                    /\ new[l].lifecycle = rows[l].lifecycle /\ new[l].reason = rows[l].reason
                    /\ new[l].revision = rows[l].revision /\ new[l].current = rows[l].current
                    /\ l[1] \notin S \/ rows[l].lifecycle \notin Open => new[l] = rows[l]
                    /\ l[1] \in S /\ rows[l].lifecycle \in Open /\ Blocked(l[1], restriction')
                         => new[l].review = "restricted"
<1> DEFINE new == Recomputed(rows, S)
<1>1. \A a : ReviewOf(a) \in {"clear", "reviewing", "restricted"}
  BY DEF ReviewOf
<1>2. \A a : Blocked(a, restriction') => ReviewOf(a) = "restricted"
  BY DEF ReviewOf
<1>3. new = [l \in Listings |-> new[l]]
  BY DEF Recomputed
<1>4. ASSUME NEW l \in Listings
      PROVE  /\ new[l] \in ListingRow
             /\ new[l].lifecycle = rows[l].lifecycle /\ new[l].reason = rows[l].reason
             /\ new[l].revision = rows[l].revision /\ new[l].current = rows[l].current
             /\ l[1] \notin S \/ rows[l].lifecycle \notin Open => new[l] = rows[l]
             /\ l[1] \in S /\ rows[l].lifecycle \in Open => new[l].review = ReviewOf(l[1])
  <2>1. CASE l[1] \in S /\ rows[l].lifecycle \in Open
    <3>1. new[l] = [rows[l] EXCEPT !.review = ReviewOf(l[1])]
      BY <2>1 DEF Recomputed
    <3>2. PICK review \in {"clear", "reviewing", "restricted"} : review = ReviewOf(l[1])
      BY <1>1
    <3> DEFINE row == [rows[l] EXCEPT !.review = review]
    <3>3. /\ row \in ListingRow /\ row.review = review
          /\ row.lifecycle = rows[l].lifecycle /\ row.reason = rows[l].reason
          /\ row.revision = rows[l].revision /\ row.current = rows[l].current
      BY ReviewedRow
    <3>4. new[l] = row
      BY <3>1, <3>2
    <3> HIDE DEF new, row
    <3>5. QED
      BY <2>1, <3>2, <3>3, <3>4
  <2>2. CASE ~(l[1] \in S /\ rows[l].lifecycle \in Open)
    <3>1. new[l] = rows[l]
      BY <2>2 DEF Recomputed
    <3> HIDE DEF new
    <3>2. QED
      BY <2>2, <3>1
  <2>3. QED
    BY <2>1, <2>2
<1> HIDE DEF new
<1>5. new \in [Listings -> ListingRow]
  BY <1>3, <1>4
<1>6. QED
  BY <1>2, <1>4, <1>5 DEF new

LEMMA InitInv == Init => GovernanceInv
<1> SUFFICES ASSUME Init PROVE GovernanceInv
  OBVIOUS
<1>1. ReportsOK
  BY DEF Init, ReportsOK, ReportRow, NoReport
<1>2. BlocksOK
  BY DEF Init, BlocksOK, BlocksAreInForce
<1>3. ListingsOK /\ ListedOK
  BY DEF Init, ListingsOK, ListedOK, ListingRow, NoListing, Open
<1>4. NumbersOK
  <2>1. \A a : Created(a) = {}
    BY DEF Init, Created, NoListing
  <2>2. \A a : IsFiniteSet(Created(a)) /\ Count(a) = 0
    BY <2>1, FS_EmptySet DEF Count
  <2>3. \A l \in Listings : l[2] \in 1 .. MaxShares
    BY DEF Listings
  <2>4. QED
    BY <2>2, <2>3, BoundsAssumption DEF Init, NumbersOK, NoListing, Open
<1>5. ProposalsOK
  BY DEF Init, ProposalsOK, ProposalRow, Proposed, NoProposal
<1>6. QED
  BY <1>1, <1>2, <1>3, <1>4, <1>5 DEF GovernanceInv

\* Rows that only stay, close or are promoted keep their agreement.
LEMMA RowsMove ==
    ASSUME GovernanceInv, Orderly, UNCHANGED asking
    PROVE  ListingInv'
<1> USE DEF GovernanceInv, Orderly
<1>1. ListingsOK'
  BY DEF ListingsOK, Moves, Stays, Closes, Promotes, Open
<1>2. \A l \in Listings : /\ listing'[l].lifecycle # "none" <=> listing[l].lifecycle # "none"
                          /\ listing'[l].lifecycle \in Open => listing[l].lifecycle \in Open
  BY DEF Moves, Stays, Closes, Promotes, Open
<1>3. NumbersOK'
  <2>1. \A a : Created(a)' = Created(a) /\ Count(a)' = Count(a)
    BY <1>2 DEF Created, Count
  <2>2. QED
    BY <1>2, <2>1 DEF NumbersOK, asking
<1>4. ProposalsOK'
  BY DEF ProposalsOK, Proposed, KeepsProposal, Stays
<1>5. ListedOK'
  BY DEF ListedOK, ListingsOK, ProposalsOK, ShowsBlock, Moves, Stays, Closes, Promotes
<1>6. QED
  BY <1>1, <1>3, <1>4, <1>5 DEF ListingInv
-----------------------------------------------------------------------------
(* Reports and blocks. *)

\* A case of a report that is edited in one place.
LEMMA AppealedRow ==
    ASSUME NEW row \in ReportRow, NEW w \in {"none", "pending", "upheld", "reversed", "moot"}
    PROVE  LET e == [row EXCEPT !.appeal = w]
           IN  /\ e \in ReportRow /\ e.appeal = w
               /\ e.state = row.state /\ e.on = row.on /\ e.decision = row.decision
BY DEF ReportRow

LEMMA DecidedRow ==
    ASSUME NEW row \in ReportRow, NEW kind \in {"dismiss", "remove", "restrict", "takedown"}
    PROVE  LET e == [row EXCEPT !.state = "decided", !.decision = kind]
           IN  /\ e \in ReportRow /\ e.state = "decided" /\ e.decision = kind
               /\ e.on = row.on /\ e.appeal = row.appeal
<1> DEFINE d == [row EXCEPT !.state = "decided"]
           e == [d EXCEPT !.decision = kind]
<1>1. d \in ReportRow /\ d.state = "decided" /\ d.on = row.on /\ d.appeal = row.appeal
  BY DEF ReportRow
<1>2. [row EXCEPT !.state = "decided", !.decision = kind] = e
  OBVIOUS
<1> HIDE DEF d
<1>3. e \in ReportRow /\ e.state = "decided" /\ e.decision = kind /\ e.on = d.on /\ e.appeal = d.appeal
  BY <1>1 DEF ReportRow
<1>4. QED
  BY <1>1, <1>2, <1>3

LEMMA OneReport ==
    ASSUME ReportsOK, NEW r \in Reports, NEW e \in ReportRow, report' = [report EXCEPT ![r] = e],
           e.state # "none" => e.on \in Listings, e.state # "decided" => e.appeal = "none"
    PROVE  ReportsOK' /\ report'[r] = e /\ \A s \in Reports : s # r => report'[s] = report[s]
BY DEF ReportsOK

\* A decision closes an open report, which no block goes back to yet.
LEMMA DecidedReport ==
    ASSUME ReportsOK, BlocksOK, NEW r \in Reports, report[r].state = "open",
           NEW kind \in {"dismiss", "remove", "restrict", "takedown"}, Decided(r, kind)
    PROVE  /\ ReportsOK'
           /\ report'[r].state = "decided" /\ report'[r].decision = kind
           /\ report'[r].appeal = "none" /\ report'[r].on = report[r].on
           /\ \A s \in Reports : s # r => report'[s] = report[s]
           /\ \A b \in restriction \union takedown : b[2] # r /\ b[2] \in Reports
<1> DEFINE e == [report[r] EXCEPT !.state = "decided", !.decision = kind]
<1>1. report[r] \in ReportRow /\ report[r].on \in Listings /\ report[r].appeal = "none"
  BY DEF ReportsOK
<1>2. /\ e \in ReportRow /\ e.state = "decided" /\ e.decision = kind
      /\ e.on = report[r].on /\ e.appeal = "none"
  BY <1>1, DecidedRow
<1>3. report' = [report EXCEPT ![r] = e]
  BY DEF Decided
<1> HIDE DEF e
<1>4. ReportsOK' /\ report'[r] = e /\ \A s \in Reports : s # r => report'[s] = report[s]
  BY <1>1, <1>2, <1>3, OneReport
<1>5. \A b \in restriction \union takedown : b[2] # r /\ b[2] \in Reports
  BY DEF BlocksOK, BlocksAreInForce
<1>6. QED
  BY <1>2, <1>4, <1>5

\* The Appeal against a decision goes on.
LEMMA AppealedReport ==
    ASSUME ReportsOK, NEW r \in Reports, report[r].state = "decided",
           NEW w \in {"pending", "upheld", "reversed"}, report' = [report EXCEPT ![r].appeal = w]
    PROVE  /\ ReportsOK'
           /\ report'[r].state = "decided" /\ report'[r].decision = report[r].decision
           /\ report'[r].appeal = w
           /\ \A s \in Reports : s # r => report'[s] = report[s]
<1> DEFINE e == [report[r] EXCEPT !.appeal = w]
<1>1. /\ report[r] \in ReportRow /\ report[r].on \in Listings
      /\ w \in {"none", "pending", "upheld", "reversed", "moot"}
  BY DEF ReportsOK
<1>2. /\ e \in ReportRow /\ e.state = "decided" /\ e.decision = report[r].decision
      /\ e.on = report[r].on /\ e.appeal = w
  BY <1>1, AppealedRow
<1>3. report' = [report EXCEPT ![r] = e]
  OBVIOUS
<1> HIDE DEF e
<1>4. QED
  BY <1>1, <1>2, <1>3, OneReport

\* Restricting and taking down block the Artifact and the copies reached under one decision.
LEMMA BlockedReport ==
    ASSUME ReportsOK, BlocksOK, NEW r \in Reports, report[r].state = "open",
           NEW kind \in {"restrict", "takedown"}, NEW S, S \subseteq Artifacts,
           Subject(r) \in S, Block(r, kind, S)
    PROVE  ReportsOK' /\ BlocksOK'
<1>1. /\ ReportsOK'
      /\ report'[r].state = "decided" /\ report'[r].decision = kind /\ report'[r].appeal = "none"
      /\ \A s \in Reports : s # r => report'[s] = report[s]
      /\ \A b \in restriction \union takedown : b[2] # r /\ b[2] \in Reports
  BY DecidedReport DEF Block
<1>2. \A b \in restriction' \union takedown' :
         \/ b \in restriction \union takedown
         \/ \E c \in S : b = <<c, r>>
  BY DEF Block
<1>3. restriction' \subseteq Artifacts \X Reports /\ takedown' \subseteq Artifacts \X Reports
  BY DEF BlocksOK, Block
<1>4. BlocksAreInForce'
  BY <1>1, <1>2 DEF BlocksOK, BlocksAreInForce
<1>5. QED
  BY <1>1, <1>3, <1>4 DEF BlocksOK

\* What a restriction or a takedown reaches.
LEMMA ReachedArtifacts ==
    ASSUME ReportsOK, NEW r \in Reports, report[r].state # "none"
    PROVE  Subject(r) \in Artifacts /\ {Subject(r)} \union Reached(Subject(r)) \subseteq Artifacts
<1>1. Subject(r) \in Artifacts
  BY DEF ReportsOK, Subject, Listings
<1>2. QED
  BY <1>1 DEF Reached, CopiesOfCurrent, Artifacts

LEMMA ReportsStep ==
    ASSUME ReportsOK, BlocksOK, Next
    PROVE  ReportsOK' /\ BlocksOK'
<1>1. CASE UNCHANGED <<report, restriction, takedown>>
  BY <1>1 DEF ReportsOK, BlocksOK, BlocksAreInForce
<1>2. ASSUME NEW a \in Artifacts, DeleteSource(a) PROVE ReportsOK' /\ BlocksOK'
  <2>1. UNCHANGED <<restriction, takedown>>
    BY <1>2 DEF DeleteSource, blocks
  <2>2. report' = [r \in Reports |-> report'[r]]
    BY <1>2 DEF DeleteSource
  <2>3. ASSUME NEW r \in Reports
        PROVE  /\ report'[r] \in ReportRow /\ report'[r].state = report[r].state
               /\ report'[r].on = report[r].on /\ report'[r].decision = report[r].decision
               /\ report'[r].appeal \in {report[r].appeal, "moot"}
               /\ report[r].state # "decided" => report'[r].appeal = "none"
    <3>1. \/ report'[r] = report[r]
          \/ report[r].appeal = "pending" /\ report'[r] = [report[r] EXCEPT !.appeal = "moot"]
      BY <1>2 DEF DeleteSource
    <3>2. /\ report[r] \in ReportRow /\ (report[r].state # "decided" => report[r].appeal = "none")
          /\ "moot" \in {"none", "pending", "upheld", "reversed", "moot"}
      BY DEF ReportsOK
    <3> DEFINE e == [report[r] EXCEPT !.appeal = "moot"]
    <3>3. /\ e \in ReportRow /\ e.appeal = "moot"
          /\ e.state = report[r].state /\ e.on = report[r].on
          /\ e.decision = report[r].decision
      BY <3>2, AppealedRow
    <3>4. report'[r] = report[r] \/ (report[r].appeal = "pending" /\ report'[r] = e)
      BY <3>1
    <3> HIDE DEF e
    <3>5. QED
      BY <3>2, <3>3, <3>4
  <2>4. ReportsOK'
    BY <2>2, <2>3 DEF ReportsOK
  <2>5. \A b \in restriction \union takedown : b[2] \in Reports
    BY DEF BlocksOK
  <2>6. BlocksOK'
    BY <2>1, <2>3, <2>5 DEF BlocksOK, BlocksAreInForce
  <2>7. QED
    BY <2>4, <2>6
<1>3. ASSUME NEW r \in Reports, NEW l \in Listings, ReportListing(r, l)
      PROVE  ReportsOK' /\ BlocksOK'
  <2> DEFINE e == [report[r] EXCEPT !.state = "open", !.on = l]
  <2>1. report[r] \in ReportRow /\ report[r].state = "none" /\ report[r].appeal = "none"
    BY <1>3 DEF ReportsOK, ReportListing
  <2>2. e \in ReportRow /\ e.state = "open" /\ e.on = l /\ e.appeal = "none"
    BY <2>1 DEF ReportRow
  <2>3. report' = [report EXCEPT ![r] = e]
    BY <1>3 DEF ReportListing
  <2> HIDE DEF e
  <2>4. ReportsOK' /\ \A s \in Reports : s # r => report'[s] = report[s]
    BY <2>2, <2>3, OneReport
  <2>5. UNCHANGED <<restriction, takedown>>
    BY <1>3 DEF ReportListing
  <2>6. \A b \in restriction \union takedown : b[2] # r /\ b[2] \in Reports
    BY <2>1 DEF BlocksOK, BlocksAreInForce
  <2>7. QED
    BY <2>4, <2>5, <2>6 DEF BlocksOK, BlocksAreInForce
<1>4. ASSUME NEW r \in Reports, Dismiss(r) \/ Remove(r) PROVE ReportsOK' /\ BlocksOK'
  <2>1. PICK kind \in {"dismiss", "remove"} : report[r].state = "open" /\ Decided(r, kind)
    BY <1>4 DEF Dismiss, Remove
  <2>2. /\ ReportsOK' /\ \A s \in Reports : s # r => report'[s] = report[s]
        /\ \A b \in restriction \union takedown : b[2] # r /\ b[2] \in Reports
    BY <2>1, DecidedReport
  <2>3. UNCHANGED <<restriction, takedown>>
    BY <1>4 DEF Dismiss, Remove
  <2>4. QED
    BY <2>2, <2>3 DEF BlocksOK, BlocksAreInForce
<1>5. ASSUME NEW r \in Reports, RestrictSharing(r) \/ Takedown(r) PROVE ReportsOK' /\ BlocksOK'
  <2>1. PICK kind \in {"restrict", "takedown"} :
          /\ report[r].state = "open"
          /\ Block(r, kind, {Subject(r)} \union Reached(Subject(r)))
    BY <1>5 DEF RestrictSharing, Takedown
  <2>2. PICK S : S = {Subject(r)} \union Reached(Subject(r))
    OBVIOUS
  <2>3. S \subseteq Artifacts /\ Subject(r) \in S
    BY <2>1, <2>2, ReachedArtifacts
  <2>4. Block(r, kind, S)
    BY <2>1, <2>2
  <2>5. QED
    BY <2>1, <2>3, <2>4, BlockedReport
<1>6. ASSUME NEW r \in Reports, Appeal(r) \/ Uphold(r) \/ Reverse(r) PROVE ReportsOK' /\ BlocksOK'
  <2>1. PICK w \in {"pending", "upheld", "reversed"} : report' = [report EXCEPT ![r].appeal = w]
                                                       /\ (w = "reversed" => Reverse(r))
    BY <1>6 DEF Appeal, Uphold, Reverse
  <2>2. report[r].state = "decided"
    BY <1>6 DEF Appeal, Uphold, Reverse, ReportsOK
  <2>3. /\ ReportsOK'
        /\ report'[r].state = "decided" /\ report'[r].decision = report[r].decision
        /\ report'[r].appeal = w
        /\ \A s \in Reports : s # r => report'[s] = report[s]
    BY <2>1, <2>2, AppealedReport
  <2>4. /\ restriction' \subseteq restriction /\ takedown' \subseteq takedown
        /\ w = "reversed" => \A b \in restriction' \union takedown' : b[2] # r
    BY <1>6, <2>1 DEF Appeal, Uphold, Reverse, Under, blocks
  <2>5. \A b \in restriction \union takedown : b[2] \in Reports
    BY DEF BlocksOK
  <2>6. BlocksAreInForce'
    BY <2>3, <2>4, <2>5 DEF BlocksOK, BlocksAreInForce
  <2>7. QED
    BY <2>3, <2>4, <2>6 DEF BlocksOK
<1>7. QED
  <2>1. CASE Creator
    BY <1>1, <1>2, <2>1 DEF Creator, BeginShare, ShareFails, Share, Update, Withdraw, SaveCopy, blocks
  <2>2. CASE Promoter
    BY <1>1, <2>2 DEF Promoter, Promote, Reject, blocks
  <2>3. CASE Administrator
    BY <1>4, <1>5, <1>6, <2>3 DEF Administrator
  <2>4. QED
    BY <1>3, <1>6, <2>1, <2>2, <2>3 DEF Next
-----------------------------------------------------------------------------
(* Listings and proposals. *)

LEMMA OneRow ==
    ASSUME GovernanceInv, NEW l \in Listings, NEW row \in ListingRow,
           listing' = [listing EXCEPT ![l] = row]
    PROVE  /\ listing' \in [Listings -> ListingRow] /\ listing'[l] = row
           /\ \A m \in Listings : m # l => listing'[m] = listing[m]
BY DEF GovernanceInv, ListingsOK

LEMMA ClosedProposals ==
    ASSUME GovernanceInv, NEW S, CloseProposals(S)
    PROVE  /\ proposal' \in [Listings -> ProposalRow]
           /\ \A l \in Listings : /\ l \in S => proposal'[l] = NoProposal
                                  /\ l \notin S => proposal'[l] = proposal[l]
<1>1. proposal \in [Listings -> ProposalRow] /\ NoProposal \in ProposalRow
  BY DEF GovernanceInv, ProposalsOK, NoProposal, ProposalRow
<1>2. QED
  BY <1>1 DEF CloseProposals

\* A row that is not touched shows what blocks it as before.
LEMMA UntouchedRow ==
    ASSUME GovernanceInv, NEW l \in Listings, listing'[l] = listing[l],
           Blocked(l[1], restriction') => Blocked(l[1], restriction)
    PROVE  Stays(l) /\ ShowsBlock(l)
BY DEF GovernanceInv, ListedOK, Stays, ShowsBlock

\* The Creator withdraws, or a proposal is resolved: one row and its proposal.
LEMMA ResolvedRow ==
    ASSUME GovernanceInv, NEW l \in Listings, NEW row \in ListingRow,
           listing' = [listing EXCEPT ![l] = row], CloseProposals({l}),
           UNCHANGED restriction, Moves(l), ShowsBlock(l)
    PROVE  Orderly
<1>1. /\ listing' \in [Listings -> ListingRow]
      /\ \A m \in Listings : m # l => listing'[m] = listing[m]
  BY OneRow
<1>2. /\ proposal' \in [Listings -> ProposalRow]
      /\ \A m \in Listings : /\ m \in {l} => proposal'[m] = NoProposal
                             /\ m \notin {l} => proposal'[m] = proposal[m]
  BY ClosedProposals
<1>3. \A m \in Listings : m # l => Stays(m) /\ ShowsBlock(m)
  BY <1>1, UntouchedRow
<1>4. \A m \in Listings : KeepsProposal(m)
  BY <1>2, <1>3 DEF KeepsProposal
<1>5. QED
  BY <1>1, <1>2, <1>3, <1>4 DEF Orderly, Moves

\* What closes one row.
LEMMA CloseOrderly ==
    ASSUME GovernanceInv, NEW l \in Listings, listing[l].lifecycle \in Open,
           NEW lifecycle \in {"withdrawn", "removed"},
           NEW reason \in {"creator_withdrawal", "initial_policy_rejection",
                           "initial_governance_block"},
           listing' = [listing EXCEPT ![l] = Closed(@, lifecycle, reason)], CloseProposals({l}),
           UNCHANGED restriction
    PROVE  Orderly
<1>1. listing[l] \in ListingRow /\ reason # "administrator_removal"
      /\ reason \in {"creator_withdrawal", "administrator_removal", "initial_policy_rejection",
                     "initial_governance_block", "source_deleted"}
  BY DEF GovernanceInv, ListingsOK
<1>2. PICK row : row = Closed(listing[l], lifecycle, reason)
  OBVIOUS
<1>3. /\ row \in ListingRow /\ row.lifecycle = lifecycle /\ row.reason = reason
      /\ row.revision = listing[l].revision + 1 /\ row.current = listing[l].current
  BY <1>1, <1>2, ClosedRow
<1>4. listing' = [listing EXCEPT ![l] = row]
  BY <1>2
<1>5. listing'[l] = row
  BY <1>3, <1>4, OneRow
<1>6. Closes(l) /\ ShowsBlock(l)
  BY <1>1, <1>3, <1>5 DEF Closes, ShowsBlock
<1>7. QED
  BY <1>3, <1>4, <1>6, ResolvedRow DEF Moves

LEMMA PromoteOrderly ==
    ASSUME GovernanceInv, NEW l \in Listings, Promote(l)
    PROVE  Orderly
<1> DEFINE one == [listing[l] EXCEPT !.lifecycle = "listed"]
           two == [one EXCEPT !.current = proposal[l].version]
           row == [two EXCEPT !.revision = listing[l].revision + 1]
<1>1. /\ listing \in [Listings -> ListingRow] /\ listing[l] \in ListingRow
      /\ Proposed(l) /\ proposal[l].version \in Versions \union {0}
  BY DEF GovernanceInv, ListingsOK, ProposalsOK, ProposalRow, Promote, Resolvable
<1>2. /\ one \in ListingRow /\ one.lifecycle = "listed" /\ one.reason = listing[l].reason
      /\ one.revision = listing[l].revision
  BY <1>1 DEF ListingRow, Open
<1>3. listing' = [listing EXCEPT ![l] =
                    [[one EXCEPT !.current = proposal[l].version]
                         EXCEPT !.revision = listing[l].revision + 1]]
  <2>1. PICK f : f = [listing EXCEPT ![l].lifecycle = "listed"]
    OBVIOUS
  <2>2. f = [listing EXCEPT ![l] = one]
    BY <2>1
  <2>3. PICK g : g = [f EXCEPT ![l].current = proposal[l].version]
    OBVIOUS
  <2>4. listing' = [g EXCEPT ![l].revision = g[l].revision + 1]
    BY <2>1, <2>3 DEF Promote
  <2> HIDE DEF one
  <2>5. g = [listing EXCEPT ![l] = two]
    BY <1>1, <2>2, <2>3
  <2>6. g[l] = two /\ two.revision = one.revision
    BY <1>1, <1>2, <2>5 DEF ListingRow
  <2> HIDE DEF two
  <2>7. listing' = [listing EXCEPT ![l] = [two EXCEPT !.revision = listing[l].revision + 1]]
    BY <1>1, <1>2, <2>4, <2>5, <2>6
  <2>8. QED
    BY <2>7 DEF two
<1> HIDE DEF one
<1>4. /\ two \in ListingRow /\ two.lifecycle = "listed" /\ two.reason = listing[l].reason
      /\ two.current = proposal[l].version
  BY <1>1, <1>2 DEF ListingRow
<1>5. listing' = [listing EXCEPT ![l] = row]
  BY <1>3
<1> HIDE DEF two
<1>6. /\ row \in ListingRow /\ row.lifecycle = "listed" /\ row.reason = listing[l].reason
      /\ row.current = proposal[l].version /\ row.revision = listing[l].revision + 1
  BY <1>1, <1>4 DEF ListingRow
<1> HIDE DEF row
<1>7. listing'[l] = row
  BY <1>5, <1>6, OneRow
<1>8. Promotes(l)
  BY <1>1, <1>6, <1>7 DEF Promotes, Promote, Resolvable
<1>9. UNCHANGED restriction /\ ~Blocked(l[1], restriction)
  BY DEF Promote, GovernanceBlocks, blocks
<1>10. ShowsBlock(l)
  BY <1>9 DEF ShowsBlock
<1>11. CloseProposals({l})
  BY DEF Promote
<1>12. QED
  BY <1>5, <1>6, <1>8, <1>9, <1>10, <1>11, ResolvedRow DEF Moves

LEMMA RejectOrderly ==
    ASSUME GovernanceInv, NEW l \in Listings, NEW state, Reject(l, state)
    PROVE  Orderly
<1>1. listing[l].lifecycle \in Open /\ CloseProposals({l}) /\ UNCHANGED restriction
  BY DEF Reject, Resolvable, blocks
<1>2. CASE listing[l].current # 0
  <2>1. listing' = listing /\ listing[l] \in ListingRow /\ listing \in [Listings -> ListingRow]
    BY <1>2 DEF Reject, GovernanceInv, ListingsOK
  <2>2. listing' = [listing EXCEPT ![l] = listing[l]]
    BY <2>1
  <2>3. Stays(l) /\ ShowsBlock(l)
    BY <1>1, <2>1, UntouchedRow
  <2>4. PICK row \in ListingRow : listing' = [listing EXCEPT ![l] = row]
    BY <2>1, <2>2
  <2>5. QED
    BY <1>1, <2>3, <2>4, ResolvedRow DEF Moves
<1>3. CASE listing[l].current = 0
  <2>1. PICK reason \in {"creator_withdrawal", "initial_policy_rejection",
                         "initial_governance_block"} :
          listing' = [listing EXCEPT ![l] = Closed(@, "removed", reason)]
    BY <1>3 DEF Reject
  <2>2. QED
    BY <1>1, <2>1, CloseOrderly
<1>4. QED
  BY <1>2, <1>3

LEMMA ReportOrderly ==
    ASSUME GovernanceInv, NEW r \in Reports, NEW l \in Listings, ReportListing(r, l)
    PROVE  Orderly
<1>1. /\ listing \in [Listings -> ListingRow] /\ listing[l] \in ListingRow
      /\ proposal \in [Listings -> ProposalRow]
  BY DEF GovernanceInv, ListingsOK, ProposalsOK
<1>2. PICK review \in {"clear", "reviewing", "restricted"} :
        listing' = [listing EXCEPT ![l].review = review]
  BY <1>1 DEF ReportListing, ListingRow
<1> DEFINE row == [listing[l] EXCEPT !.review = review]
<1>3. /\ row \in ListingRow /\ row.lifecycle = listing[l].lifecycle /\ row.reason = listing[l].reason
      /\ row.revision = listing[l].revision /\ row.current = listing[l].current
  BY <1>1, ReviewedRow
<1>4. listing' = [listing EXCEPT ![l] = row]
  BY <1>2
<1> HIDE DEF row
<1>5. /\ listing' \in [Listings -> ListingRow] /\ listing'[l] = row
      /\ \A m \in Listings : m # l => listing'[m] = listing[m]
  BY <1>3, <1>4, OneRow
<1>6. /\ listing[l].lifecycle = "listed" /\ ~Blocked(l[1], restriction)
      /\ UNCHANGED <<restriction, proposal>>
  BY DEF ReportListing, Public
<1>7. Stays(l) /\ ShowsBlock(l)
  BY <1>3, <1>5, <1>6 DEF Stays, ShowsBlock
<1>8. \A m \in Listings : m # l => Stays(m) /\ ShowsBlock(m)
  BY <1>5, <1>6, UntouchedRow
<1>9. QED
  BY <1>1, <1>5, <1>6, <1>7, <1>8 DEF Orderly, Moves, KeepsProposal

\* Recomputing after blocks are lifted, or after nothing changed.
LEMMA RecomputeOrderly ==
    ASSUME GovernanceInv, NEW S, listing' = Recomputed(listing, S),
           restriction' \subseteq restriction, UNCHANGED proposal
    PROVE  Orderly
<1>1. listing \in [Listings -> ListingRow] /\ proposal \in [Listings -> ProposalRow]
  BY DEF GovernanceInv, ListingsOK, ProposalsOK
<1>2. PICK rows \in [Listings -> ListingRow] : rows = listing
  BY <1>1
<1>3. /\ listing' \in [Listings -> ListingRow]
      /\ \A l \in Listings :
           /\ listing'[l].lifecycle = rows[l].lifecycle /\ listing'[l].reason = rows[l].reason
           /\ listing'[l].revision = rows[l].revision /\ listing'[l].current = rows[l].current
           /\ l[1] \notin S \/ rows[l].lifecycle \notin Open => listing'[l] = rows[l]
           /\ l[1] \in S /\ rows[l].lifecycle \in Open /\ Blocked(l[1], restriction')
                => listing'[l].review = "restricted"
  BY <1>2, RecomputedRows
<1>4. \A a : Blocked(a, restriction') => Blocked(a, restriction)
  BY DEF Blocked
<1>5. ASSUME NEW l \in Listings PROVE Stays(l) /\ ShowsBlock(l)
  <2>1. CASE l[1] \in S /\ listing[l].lifecycle \in Open
    BY <1>2, <1>3, <2>1 DEF Stays, ShowsBlock, Open
  <2>2. CASE ~(l[1] \in S /\ listing[l].lifecycle \in Open)
    BY <1>2, <1>3, <1>4, <2>2, UntouchedRow
  <2>3. QED
    BY <2>1, <2>2
<1>6. QED
  BY <1>1, <1>3, <1>5 DEF Orderly, Moves, KeepsProposal

LEMMA RemoveOrderly ==
    ASSUME GovernanceInv, NEW r \in Reports, Remove(r)
    PROVE  Orderly
<1> DEFINE closed == Closed(listing[report[r].on], "removed", "administrator_removal")
<1>1. PICK l \in Listings : l = report[r].on
  BY DEF Remove, GovernanceInv, ReportsOK
<1>2. /\ listing \in [Listings -> ListingRow] /\ listing[l] \in ListingRow
      /\ proposal \in [Listings -> ProposalRow]
  BY DEF GovernanceInv, ListingsOK, ProposalsOK
<1>3. /\ closed \in ListingRow /\ closed.lifecycle = "removed"
      /\ closed.reason = "administrator_removal"
      /\ closed.revision = listing[l].revision + 1 /\ closed.current = listing[l].current
  BY <1>1, <1>2, ClosedRow
<1>4. /\ listing[l].lifecycle = "listed" /\ UNCHANGED <<restriction, proposal>>
      /\ listing' = Recomputed([listing EXCEPT ![l] = [closed EXCEPT !.review = "clear"]], {l[1]})
  BY <1>1 DEF Remove
<1> HIDE DEF closed
<1> DEFINE row == [closed EXCEPT !.review = "clear"]
           rows == [listing EXCEPT ![l] = row]
<1>5. /\ row \in ListingRow /\ row.lifecycle = "removed" /\ row.reason = "administrator_removal"
      /\ row.revision = listing[l].revision + 1 /\ row.current = listing[l].current
  <2>1. "clear" \in {"clear", "reviewing", "restricted"}
    OBVIOUS
  <2>2. PICK r0 \in ListingRow : r0 = closed
    BY <1>3
  <2>3. PICK r1 : r1 = [r0 EXCEPT !.review = "clear"]
    OBVIOUS
  <2>4. /\ r1 \in ListingRow /\ r1.lifecycle = r0.lifecycle /\ r1.reason = r0.reason
        /\ r1.revision = r0.revision /\ r1.current = r0.current
    BY <2>1, <2>3, ReviewedRow
  <2>5. row = r1
    BY <2>2, <2>3
  <2> HIDE DEF row
  <2>6. QED
    BY <1>3, <2>2, <2>4, <2>5
<1> HIDE DEF row
<1>6. /\ rows \in [Listings -> ListingRow] /\ rows[l] = row
      /\ \A m \in Listings : m # l => rows[m] = listing[m]
  BY <1>2, <1>5
<1>7. listing' = Recomputed(rows, {l[1]})
  BY <1>4 DEF row
<1> HIDE DEF rows
<1>8. /\ listing' \in [Listings -> ListingRow]
      /\ \A m \in Listings :
           /\ listing'[m].lifecycle = rows[m].lifecycle /\ listing'[m].reason = rows[m].reason
           /\ listing'[m].revision = rows[m].revision /\ listing'[m].current = rows[m].current
           /\ m[1] \notin {l[1]} \/ rows[m].lifecycle \notin Open => listing'[m] = rows[m]
           /\ m[1] \in {l[1]} /\ rows[m].lifecycle \in Open /\ Blocked(m[1], restriction')
                => listing'[m].review = "restricted"
  BY <1>6, <1>7, RecomputedRows
<1>9. Closes(l) /\ ShowsBlock(l) /\ KeepsProposal(l)
  BY <1>4, <1>5, <1>6, <1>8 DEF Closes, ShowsBlock, KeepsProposal, Open
<1>10. ASSUME NEW m \in Listings, m # l PROVE Stays(m) /\ ShowsBlock(m)
  <2>1. CASE m[1] = l[1] /\ listing[m].lifecycle \in Open
    BY <1>6, <1>8, <1>10, <2>1 DEF Stays, ShowsBlock, Open
  <2>2. CASE ~(m[1] = l[1] /\ listing[m].lifecycle \in Open)
    BY <1>4, <1>6, <1>8, <1>10, <2>2, UntouchedRow
  <2>3. QED
    BY <2>1, <2>2
<1>11. QED
  BY <1>2, <1>4, <1>8, <1>9, <1>10 DEF Orderly, Moves, KeepsProposal

\* A restriction or a takedown closes the pending listing of its Artifact, and its proposals.
LEMMA BlockOrderly ==
    ASSUME GovernanceInv, NEW r \in Reports, NEW a \in Artifacts, a = Subject(r), NEW kind, NEW S,
           a \in S, Block(r, kind, S)
    PROVE  Orderly
<1> DEFINE Row(l) == IF l[1] = a THEN BlockedRow(listing[l])
                     ELSE IF l[1] \in S /\ listing[l].lifecycle \in Open
                     THEN [listing[l] EXCEPT !.review = "restricted"] ELSE listing[l]
<1>1. /\ listing \in [Listings -> ListingRow] /\ listing' = Recomputed([l \in Listings |-> Row(l)], {a})
      /\ CloseProposals(Created(a))
  BY DEF GovernanceInv, ListingsOK, Block
<1>2. \A b \in restriction' : b \in restriction \/ b[1] \in S
  BY DEF Block
<1>3. ASSUME NEW l \in Listings
      PROVE  /\ Row(l) \in ListingRow
             /\ \/ Row(l) = listing[l]
                \/ /\ l[1] # a /\ listing[l].lifecycle \in Open
                   /\ Row(l).lifecycle = listing[l].lifecycle /\ Row(l).reason = listing[l].reason
                   /\ Row(l).revision = listing[l].revision /\ Row(l).current = listing[l].current
                   /\ Row(l).review = "restricted"
                \/ /\ l[1] = a /\ listing[l].lifecycle = "pending"
                   /\ Row(l).lifecycle = "removed" /\ Row(l).reason = "initial_governance_block"
                   /\ Row(l).revision = listing[l].revision + 1
                   /\ Row(l).current = listing[l].current
             /\ l[1] \in S /\ l[1] # a /\ listing[l].lifecycle \in Open => Row(l).review = "restricted"
  <2>1. PICK old \in ListingRow : old = listing[l]
    BY <1>1
  <2>2. PICK closed \in ListingRow :
          /\ closed = Closed(old, "removed", "initial_governance_block")
          /\ closed.lifecycle = "removed" /\ closed.reason = "initial_governance_block"
          /\ closed.revision = old.revision + 1 /\ closed.current = old.current
    BY ClosedRow
  <2>3. PICK shown \in ListingRow :
          /\ shown = [old EXCEPT !.review = "restricted"] /\ shown.review = "restricted"
          /\ shown.lifecycle = old.lifecycle /\ shown.reason = old.reason
          /\ shown.revision = old.revision /\ shown.current = old.current
    BY ReviewedRow
  <2>4. Row(l) = IF l[1] = a THEN IF old.lifecycle = "pending" THEN closed ELSE old
                 ELSE IF l[1] \in S /\ old.lifecycle \in Open THEN shown ELSE old
    BY <2>1, <2>2, <2>3 DEF BlockedRow
  <2> HIDE DEF Row
  <2>5. QED
    BY <2>1, <2>2, <2>3, <2>4
<1> HIDE DEF Row
<1>4. PICK rows : rows = [l \in Listings |-> Row(l)] /\ \A l \in Listings : rows[l] = Row(l)
  <2> DEFINE rows == [l \in Listings |-> Row(l)]
  <2>1. \A l \in Listings : rows[l] = Row(l)
    OBVIOUS
  <2>2. QED
    BY <2>1
<1>5. rows \in [Listings -> ListingRow]
  BY <1>3, <1>4
<1>6. /\ listing' \in [Listings -> ListingRow]
      /\ \A l \in Listings :
           /\ listing'[l].lifecycle = rows[l].lifecycle /\ listing'[l].reason = rows[l].reason
           /\ listing'[l].revision = rows[l].revision /\ listing'[l].current = rows[l].current
           /\ l[1] \notin {a} \/ rows[l].lifecycle \notin Open => listing'[l] = rows[l]
           /\ l[1] \in {a} /\ rows[l].lifecycle \in Open /\ Blocked(l[1], restriction')
                => listing'[l].review = "restricted"
  BY <1>1, <1>4, <1>5, RecomputedRows
<1>7. /\ proposal' \in [Listings -> ProposalRow]
      /\ \A l \in Listings : /\ l \in Created(a) => proposal'[l] = NoProposal
                             /\ l \notin Created(a) => proposal'[l] = proposal[l]
  BY <1>1, ClosedProposals
<1>8. ASSUME NEW l \in Listings
      PROVE  /\ Stays(l) \/ Closes(l)
             /\ l[1] # a \/ listing[l].lifecycle = "none" => Stays(l)
  <2>1. CASE l[1] # a \/ listing[l].lifecycle # "pending"
    BY <1>3, <1>4, <1>6, <2>1 DEF Stays, Open
  <2>2. CASE l[1] = a /\ listing[l].lifecycle = "pending"
    <3>1. \/ Row(l) = listing[l]
          \/ /\ Row(l).lifecycle = "removed" /\ Row(l).reason = "initial_governance_block"
             /\ Row(l).revision = listing[l].revision + 1 /\ Row(l).current = listing[l].current
      BY <1>3, <2>2
    <3>2. CASE Row(l) = listing[l]
      BY <1>4, <1>6, <2>2, <3>2 DEF Stays
    <3>3. CASE Row(l) # listing[l]
      BY <1>4, <1>6, <2>2, <3>1, <3>3 DEF Closes, Open
    <3>4. QED
      BY <2>2, <3>2, <3>3
  <2>3. QED
    BY <2>1, <2>2
<1>9. ASSUME NEW l \in Listings PROVE ShowsBlock(l)
  <2>1. CASE l[1] = a
    BY <1>4, <1>6, <2>1 DEF ShowsBlock, Open
  <2>2. CASE l[1] # a /\ (l[1] \notin S \/ listing[l].lifecycle \notin Open)
    <3>1. Row(l) = listing[l] \/ Row(l).review = "restricted"
      BY <1>3, <2>2
    <3>2. listing'[l] = Row(l)
      BY <1>4, <1>6, <2>2
    <3>3. listing'[l].lifecycle = "listed" => listing[l].lifecycle = "listed"
      BY <1>3, <2>2, <3>2 DEF Open
    <3>4. listing'[l].lifecycle = "listed" /\ Blocked(l[1], restriction') => Blocked(l[1], restriction)
      BY <1>2, <2>2, <3>3 DEF Blocked, Open
    <3>5. QED
      BY <3>1, <3>2, <3>3, <3>4 DEF ShowsBlock, GovernanceInv, ListedOK
  <2>3. CASE l[1] # a /\ l[1] \in S /\ listing[l].lifecycle \in Open
    BY <1>3, <1>4, <1>6, <2>3 DEF ShowsBlock
  <2>4. QED
    BY <2>1, <2>2, <2>3
<1>10. ASSUME NEW l \in Listings PROVE KeepsProposal(l)
  <2>1. l \notin Created(a) => l[1] # a \/ listing[l].lifecycle = "none"
    BY DEF Created
  <2>2. QED
    BY <1>7, <1>8, <2>1 DEF KeepsProposal
<1>11. QED
  BY <1>6, <1>7, <1>8, <1>9, <1>10 DEF Orderly, Moves

\* The end of the source closes what is open; nothing an Administrator removed is among it.
LEMMA DeleteOrderly ==
    ASSUME GovernanceInv, NEW a \in Artifacts, DeleteSource(a)
    PROVE  Orderly
<1>1. /\ listing \in [Listings -> ListingRow] /\ UNCHANGED restriction
      /\ listing' = [l \in Listings |-> IF l[1] = a THEN Ends(listing[l]) ELSE listing[l]]
      /\ CloseProposals(Created(a))
  BY DEF GovernanceInv, ListingsOK, DeleteSource, blocks
<1>2. /\ proposal' \in [Listings -> ProposalRow]
      /\ \A l \in Listings : /\ l \in Created(a) => proposal'[l] = NoProposal
                             /\ l \notin Created(a) => proposal'[l] = proposal[l]
  BY <1>1, ClosedProposals
<1>3. ASSUME NEW l \in Listings
      PROVE  /\ listing'[l] \in ListingRow
             /\ \/ listing'[l] = listing[l]
                \/ l \in Created(a) /\ Closes(l)
  <2>1. PICK old \in ListingRow : old = listing[l]
    BY <1>1
  <2>2. PICK closed \in ListingRow :
          /\ closed = Closed(old, "withdrawn", "source_deleted")
          /\ closed.lifecycle = "withdrawn" /\ closed.reason = "source_deleted"
          /\ closed.revision = old.revision + 1 /\ closed.current = old.current
    BY ClosedRow
  <2>3. listing'[l] = IF l[1] = a /\ (old.lifecycle \in Open \/ old.reason = "administrator_removal")
                      THEN closed ELSE old
    BY <1>1, <2>1, <2>2 DEF Ends
  <2>4. l[1] = a => old.reason # "administrator_removal"
    <3>1. CASE l \in Created(a)
      BY <2>1, <3>1 DEF DeleteSource, Deletable
    <3>2. CASE l \notin Created(a)
      BY <2>1, <3>2 DEF Created, GovernanceInv, ListingsOK
    <3>3. QED
      BY <3>1, <3>2
  <2>5. l[1] = a /\ old.lifecycle \in Open => l \in Created(a)
    BY <2>1 DEF Created, Open
  <2>6. QED
    BY <2>1, <2>2, <2>3, <2>4, <2>5 DEF Closes
<1>4. listing' \in [Listings -> ListingRow]
  BY <1>1, <1>3
<1>5. ASSUME NEW l \in Listings PROVE Moves(l) /\ KeepsProposal(l) /\ ShowsBlock(l)
  <2>1. CASE listing'[l] = listing[l]
    <3>1. Stays(l) /\ ShowsBlock(l)
      BY <1>1, <2>1, UntouchedRow
    <3>2. QED
      BY <1>2, <3>1 DEF Moves, KeepsProposal
  <2>2. CASE l \in Created(a) /\ Closes(l)
    BY <1>2, <2>2 DEF Moves, KeepsProposal, ShowsBlock, Closes
  <2>3. QED
    BY <1>3, <2>1, <2>2
<1>6. QED
  BY <1>2, <1>4, <1>5 DEF Orderly
-----------------------------------------------------------------------------
(* Sharing. *)

\* A Share inserts the next listing of its Artifact.
LEMMA ShareRows ==
    ASSUME GovernanceInv, NEW a \in Artifacts, NEW v \in Versions, Share(a, v)
    PROVE  LET next == <<a, Count(a) + 1>>
               row  == [NoListing EXCEPT !.lifecycle = "pending", !.revision = 1]
           IN  /\ next \in Listings /\ next[1] = a /\ next[2] = Count(a) + 1
               /\ listing[next] = NoListing
               /\ listing' \in [Listings -> ListingRow] /\ listing'[next] = row
               /\ \A l \in Listings : l # next => listing'[l] = listing[l]
               /\ proposal' \in [Listings -> ProposalRow] /\ proposal'[next] = Opened(1, v)
               /\ \A l \in Listings : l # next => proposal'[l] = proposal[l]
               /\ \A l \in Listings : l[1] = a => listing[l].lifecycle \notin Open
<1> DEFINE next == <<a, Count(a) + 1>>
           row  == [NoListing EXCEPT !.lifecycle = "pending", !.revision = 1]
<1>1. /\ a \in sharing /\ Count(a) \in Nat /\ Count(a) + 1 <= shares /\ shares \in 0 .. MaxShares
      /\ MaxShares \in Nat
  BY BoundsAssumption DEF Share, Asked, GovernanceInv, NumbersOK
<1>2. next \in Listings /\ next[1] = a /\ next[2] = Count(a) + 1
  BY <1>1 DEF Listings
<1>3. listing[next] = NoListing
  <2>1. ~(next[2] <= Count(next[1]))
    BY <1>1, <1>2
  <2> HIDE DEF next
  <2>2. QED
    BY <1>2, <2>1 DEF GovernanceInv, NumbersOK, ListingsOK
<1>4. row \in ListingRow /\ Opened(1, v) \in ProposalRow
  BY DEF NoListing, ListingRow, Open, Opened, ProposalRow
<1>5. /\ listing \in [Listings -> ListingRow] /\ proposal \in [Listings -> ProposalRow]
      /\ listing' = [listing EXCEPT ![next] = row]
      /\ proposal' = [proposal EXCEPT ![next] = Opened(1, v)]
  BY DEF GovernanceInv, ListingsOK, ProposalsOK, Share
<1>6. ASSUME NEW l \in Listings, l[1] = a PROVE listing[l].lifecycle \notin Open
  <2>1. SUFFICES ASSUME listing[l].lifecycle \in Open PROVE FALSE
    OBVIOUS
  <2>2. l[2] = Count(a) /\ l \in Artifacts \X (1 .. MaxShares)
    BY <1>6, <2>1 DEF GovernanceInv, NumbersOK, Listings
  <2>3. l = Latest(a) /\ Count(a) > 0
    BY <1>1, <1>6, <2>2 DEF Latest
  <2>4. QED
    BY <2>1, <2>3 DEF Share
<1> HIDE DEF next, row
<1>7. QED
  BY <1>2, <1>3, <1>4, <1>5, <1>6 DEF next, row

\* Of the Share's Artifact there is one listing more, and one Share less on its way.
LEMMA ShareNumbers ==
    ASSUME GovernanceInv, NEW a \in Artifacts, NEW v \in Versions, Share(a, v)
    PROVE  NumbersOK'
<1> DEFINE next == <<a, Count(a) + 1>>
<1>1. PICK new \in Listings :
        /\ new = next /\ new[1] = a /\ new[2] = Count(a) + 1
        /\ listing[new].lifecycle = "none" /\ listing'[new].lifecycle = "pending"
        /\ \A l \in Listings : l # new => listing'[l] = listing[l]
        /\ \A l \in Listings : l[1] = a => listing[l].lifecycle \notin Open
  <2>1. [NoListing EXCEPT !.lifecycle = "pending", !.revision = 1].lifecycle = "pending"
        /\ NoListing.lifecycle = "none"
    BY DEF NoListing
  <2>2. /\ next \in Listings /\ next[1] = a /\ next[2] = Count(a) + 1
        /\ listing[next] = NoListing
        /\ listing'[next] = [NoListing EXCEPT !.lifecycle = "pending", !.revision = 1]
        /\ \A l \in Listings : l # next => listing'[l] = listing[l]
        /\ \A l \in Listings : l[1] = a => listing[l].lifecycle \notin Open
    BY ShareRows
  <2> HIDE DEF next
  <2>3. QED
    BY <2>1, <2>2
<1> HIDE DEF next
<1>2. a \in sharing /\ sharing' = sharing \ {a} /\ shares' = shares
  BY DEF Share, Asked
<1>3. /\ \A x \in Artifacts : /\ IsFiniteSet(Created(x)) /\ Count(x) \in Nat
                              /\ Count(x) + (IF x \in sharing THEN 1 ELSE 0) <= shares
      /\ sharing \subseteq Artifacts /\ shares \in 0 .. MaxShares
  BY DEF GovernanceInv, NumbersOK
<1>4. Created(a)' = Created(a) \union {new} /\ new \notin Created(a)
  BY <1>1 DEF Created
<1>5. IsFiniteSet(Created(a)') /\ Count(a)' = Count(a) + 1
  BY <1>3, <1>4, FS_AddElement DEF Count
<1>6. \A x \in Artifacts : x # a => Created(x)' = Created(x) /\ Count(x)' = Count(x)
  BY <1>1 DEF Created, Count
<1>7. /\ sharing' \subseteq Artifacts /\ shares' \in 0 .. MaxShares
      /\ \A x \in Artifacts : /\ IsFiniteSet(Created(x)') /\ Count(x)' \in Nat
                              /\ Count(x)' + (IF x \in sharing' THEN 1 ELSE 0) <= shares'
  BY <1>2, <1>3, <1>5, <1>6
<1>8. ASSUME NEW l \in Listings
      PROVE  /\ listing'[l].lifecycle # "none" <=> l[2] <= Count(l[1])'
             /\ listing'[l].lifecycle \in Open => l[2] = Count(l[1])'
  <2>1. /\ l = <<l[1], l[2]>> /\ l[1] \in Artifacts /\ l[2] \in Nat
        /\ listing[l].lifecycle # "none" <=> l[2] <= Count(l[1])
        /\ listing[l].lifecycle \in Open => l[2] = Count(l[1])
    BY DEF GovernanceInv, NumbersOK, Listings
  <2>2. CASE l = new
    BY <1>1, <1>3, <1>5, <2>2
  <2>3. CASE l # new /\ l[1] = a
    <3>1. l[2] # Count(a) + 1
      BY <1>1, <2>1, <2>3 DEF next
    <3>2. QED
      BY <1>1, <1>3, <1>5, <2>1, <2>3, <3>1
  <2>4. CASE l[1] # a
    BY <1>1, <1>6, <2>1, <2>4
  <2>5. QED
    BY <2>2, <2>3, <2>4
<1>9. QED
  BY <1>7, <1>8 DEF NumbersOK

LEMMA ShareInv ==
    ASSUME GovernanceInv, NEW a \in Artifacts, NEW v \in Versions, Share(a, v)
    PROVE  ListingInv'
<1>1. PICK new \in Listings :
        /\ listing[new] = NoListing
        /\ listing' \in [Listings -> ListingRow]
        /\ listing'[new] = [NoListing EXCEPT !.lifecycle = "pending", !.revision = 1]
        /\ \A l \in Listings : l # new => listing'[l] = listing[l]
        /\ proposal' \in [Listings -> ProposalRow] /\ proposal'[new] = Opened(1, v)
        /\ \A l \in Listings : l # new => proposal'[l] = proposal[l]
  BY ShareRows
<1>2. /\ listing'[new].lifecycle = "pending" /\ listing'[new].reason = "none"
      /\ listing'[new].revision = 1
      /\ proposal'[new].base = 1 /\ proposal'[new].version = v /\ v # 0
  BY <1>1, BoundsAssumption DEF NoListing, Opened
<1>3. ListingsOK'
  BY <1>1, <1>2 DEF GovernanceInv, ListingsOK
<1>4. ProposalsOK'
  <2>1. ASSUME NEW l \in Listings, proposal'[l] # NoProposal
        PROVE  /\ proposal'[l].version # 0
               /\ \/ listing'[l].lifecycle \in Open /\ proposal'[l].base = listing'[l].revision
                  \/ listing'[l].reason = "administrator_removal"
    <3>1. CASE l = new
      BY <1>2, <3>1 DEF Open
    <3>2. CASE l # new
      BY <1>1, <2>1, <3>2 DEF GovernanceInv, ProposalsOK, Proposed
    <3>3. QED
      BY <3>1, <3>2
  <2>2. QED
    BY <1>1, <2>1 DEF ProposalsOK, Proposed
<1>5. ListedOK'
  <2>1. UNCHANGED restriction
    BY DEF Share, blocks
  <2>2. QED
    BY <1>1, <1>2, <2>1 DEF GovernanceInv, ListedOK, Blocked
<1>6. QED
  BY <1>3, <1>4, <1>5, ShareNumbers DEF ListingInv

LEMMA UpdateInv ==
    ASSUME GovernanceInv, NEW a \in Artifacts, NEW v \in Versions, Update(a, v)
    PROVE  ListingInv'
<1>1. /\ UNCHANGED <<listing, restriction, shares>> /\ sharing' \subseteq sharing
      /\ listing[Latest(a)].lifecycle = "listed"
      /\ proposal' = [proposal EXCEPT ![Latest(a)] = Opened(listing[Latest(a)].revision, v)]
  BY DEF Update, Asked, blocks
<1>2. PICK l : l = Latest(a)
  OBVIOUS
<1>3. l \in Listings
  <2>1. /\ Count(a) \in Nat /\ Count(a) > 0 /\ Count(a) <= shares
        /\ shares \in 0 .. MaxShares /\ MaxShares \in Nat
    BY BoundsAssumption DEF Update, GovernanceInv, NumbersOK
  <2>2. QED
    BY <1>2, <2>1 DEF Latest, Listings
<1>4. listing[l].revision \in Nat /\ listing \in [Listings -> ListingRow] /\ v # 0
  BY <1>3, BoundsAssumption DEF GovernanceInv, ListingsOK, ListingRow
<1>5. Opened(listing[l].revision, v) \in ProposalRow
      /\ Opened(listing[l].revision, v).base = listing[l].revision
      /\ Opened(listing[l].revision, v).version = v
  BY <1>4 DEF Opened, ProposalRow
<1>6. ProposalsOK'
  <2>1. proposal \in [Listings -> ProposalRow]
    BY DEF GovernanceInv, ProposalsOK
  <2>2. /\ proposal' \in [Listings -> ProposalRow]
        /\ proposal'[l] = Opened(listing[l].revision, v)
        /\ \A m \in Listings : m # l => proposal'[m] = proposal[m]
    BY <1>1, <1>2, <1>3, <1>5, <2>1
  <2>3. QED
    BY <1>1, <1>2, <1>4, <1>5, <2>2 DEF GovernanceInv, ProposalsOK, Proposed, Open
<1>7. NumbersOK'
  <2>1. \A x : Created(x)' = Created(x) /\ Count(x)' = Count(x)
    BY <1>1 DEF Created, Count
  <2>2. QED
    BY <1>1, <2>1 DEF GovernanceInv, NumbersOK
<1>8. ListingsOK' /\ ListedOK'
  BY <1>1 DEF GovernanceInv, ListingsOK, ListedOK, Blocked
<1>9. QED
  BY <1>6, <1>7, <1>8 DEF ListingInv

\* What touches neither listings nor proposals.
LEMMA AskingInv ==
    ASSUME GovernanceInv, UNCHANGED <<listing, proposal, restriction>>,
           \/ UNCHANGED asking
           \/ \E a \in Artifacts : \/ BeginShare(a)
                                   \/ sharing' = sharing \ {a} /\ UNCHANGED shares
    PROVE  ListingInv'
<1>1. NumbersOK'
  <2>1. \A a : Created(a)' = Created(a) /\ Count(a)' = Count(a)
    BY DEF Created, Count
  <2>2. CASE shares' = shares /\ sharing' \subseteq sharing
    BY <2>1, <2>2 DEF GovernanceInv, NumbersOK
  <2>3. ASSUME NEW a \in Artifacts, BeginShare(a) PROVE NumbersOK'
    <3>1. /\ sharing' = sharing \union {a} /\ shares' = shares + 1 /\ shares < MaxShares
          /\ a \notin sharing /\ MaxShares \in Nat
      BY <2>3, BoundsAssumption DEF BeginShare
    <3>2. \A x \in Artifacts : Count(x) \in Nat
                               /\ Count(x) + (IF x \in sharing THEN 1 ELSE 0) <= shares
      BY DEF GovernanceInv, NumbersOK
    <3>3. /\ shares' \in 0 .. MaxShares
          /\ \A x \in Artifacts : Count(x) + (IF x \in sharing' THEN 1 ELSE 0) <= shares'
      BY <3>1, <3>2 DEF GovernanceInv, NumbersOK
    <3>4. QED
      BY <2>1, <3>1, <3>3 DEF GovernanceInv, NumbersOK
  <2>4. QED
    BY <2>2, <2>3 DEF asking
<1>2. ListingsOK' /\ ProposalsOK' /\ ListedOK'
  BY DEF GovernanceInv, ListingsOK, ProposalsOK, Proposed, ListedOK, Blocked
<1>3. QED
  BY <1>1, <1>2 DEF ListingInv
-----------------------------------------------------------------------------
(* The theorems. *)

\* Every step leaves the rows in order, inserts one, or proposes another Version.
LEMMA StepKinds ==
    ASSUME GovernanceInv, Next
    PROVE  \/ Orderly /\ UNCHANGED asking
           \/ \E a \in Artifacts, v \in Versions : Share(a, v) \/ Update(a, v)
           \/ /\ UNCHANGED <<listing, proposal, restriction>>
              /\ \/ UNCHANGED asking
                 \/ \E a \in Artifacts : \/ BeginShare(a)
                                         \/ sharing' = sharing \ {a} /\ UNCHANGED shares
<1>1. CASE Creator
  <2>1. ASSUME NEW a \in Artifacts, BeginShare(a) \/ ShareFails(a)
        PROVE  /\ UNCHANGED <<listing, proposal, restriction>>
               /\ BeginShare(a) \/ (sharing' = sharing \ {a} /\ UNCHANGED shares)
    BY <2>1 DEF BeginShare, ShareFails, Asked, blocks
  <2>2. ASSUME NEW a \in Artifacts, DeleteSource(a) PROVE Orderly /\ UNCHANGED asking
    BY <2>2, DeleteOrderly DEF DeleteSource
  <2>3. ASSUME NEW l \in Listings, Withdraw(l) PROVE Orderly /\ UNCHANGED asking
    <3>1. /\ listing[l].lifecycle \in Open /\ CloseProposals({l}) /\ UNCHANGED <<restriction, asking>>
          /\ listing' = [listing EXCEPT ![l] = Closed(@, "withdrawn", "creator_withdrawal")]
      BY <2>3 DEF Withdraw, blocks
    <3>2. QED
      BY <3>1, CloseOrderly
  <2>4. ASSUME NEW l \in Listings, NEW c \in Copies, SaveCopy(c, l)
        PROVE  UNCHANGED <<listing, proposal, restriction, asking>>
    BY <2>4 DEF SaveCopy, blocks
  <2>5. QED
    BY <1>1, <2>1, <2>2, <2>3, <2>4 DEF Creator
<1>2. CASE Promoter
  <2>1. PICK l \in Listings :
          Promote(l) \/ \E state \in {"rejected", "governance_blocked"} : Reject(l, state)
    BY <1>2 DEF Promoter
  <2>2. UNCHANGED asking
    BY <2>1 DEF Promote, Reject
  <2>3. QED
    BY <2>1, <2>2, PromoteOrderly, RejectOrderly
<1>3. ASSUME NEW r \in Reports,
             Dismiss(r) \/ Remove(r) \/ RestrictSharing(r) \/ Takedown(r) \/ Uphold(r) \/ Reverse(r)
      PROVE  Orderly /\ UNCHANGED asking
  <2>1. UNCHANGED asking
    BY <1>3 DEF Dismiss, Remove, RestrictSharing, Takedown, Block, Uphold, Reverse
  <2>2. CASE Dismiss(r) \/ Uphold(r) \/ Reverse(r)
    <3>1. PICK S : listing' = Recomputed(listing, S)
      BY <2>2 DEF Dismiss, Uphold, Reverse
    <3>2. restriction' \subseteq restriction /\ UNCHANGED proposal
      BY <2>2 DEF Dismiss, Uphold, Reverse, blocks
    <3>3. QED
      BY <2>1, <3>1, <3>2, RecomputeOrderly
  <2>3. CASE Remove(r)
    BY <2>1, <2>3, RemoveOrderly
  <2>4. CASE RestrictSharing(r) \/ Takedown(r)
    <3>1. PICK S : S = {Subject(r)} \union Reached(Subject(r))
      OBVIOUS
    <3>2. PICK kind : report[r].state = "open" /\ Block(r, kind, S)
      BY <2>4, <3>1 DEF RestrictSharing, Takedown
    <3>3. PICK a \in Artifacts : a = Subject(r)
      BY <3>2, ReachedArtifacts DEF GovernanceInv
    <3>4. a \in S
      BY <3>1, <3>3
    <3>5. QED
      BY <2>1, <3>2, <3>3, <3>4, BlockOrderly
  <2>5. QED
    BY <1>3, <2>2, <2>3, <2>4
<1>4. ASSUME NEW r \in Reports, Appeal(r) PROVE UNCHANGED <<listing, proposal, restriction, asking>>
  BY <1>4 DEF Appeal, blocks
<1>5. ASSUME NEW r \in Reports, NEW l \in Listings, ReportListing(r, l)
      PROVE  Orderly /\ UNCHANGED asking
  BY <1>5, ReportOrderly DEF ReportListing
<1>6. QED
  BY <1>1, <1>2, <1>3, <1>4, <1>5 DEF Next, Administrator

LEMMA NextInv == GovernanceInv /\ [Next]_vars => GovernanceInv'
<1> SUFFICES ASSUME GovernanceInv, [Next]_vars PROVE GovernanceInv'
  OBVIOUS
<1>1. CASE UNCHANGED vars
  <2>1. ReportsOK' /\ BlocksOK'
    BY <1>1 DEF vars, blocks, GovernanceInv, ReportsOK, BlocksOK, BlocksAreInForce
  <2>2. ListingInv'
    BY <1>1, AskingInv DEF vars, blocks
  <2>3. QED
    BY <2>1, <2>2 DEF GovernanceInv, ListingInv
<1>2. CASE Next
  <2>1. ReportsOK' /\ BlocksOK'
    BY <1>2, ReportsStep DEF GovernanceInv
  <2>2. ListingInv'
    BY <1>2, StepKinds, RowsMove, ShareInv, UpdateInv, AskingInv
  <2>3. QED
    BY <2>1, <2>2 DEF GovernanceInv, ListingInv
<1>3. QED
  BY <1>1, <1>2

\* The inductive invariant: listings are numbered without a gap and only the last is open,
\* proposals are on the revision of an open listing, blocks and reports agree.
THEOREM GovernanceInvariance == Spec => []GovernanceInv
BY InitInv, NextInv, PTL DEF Spec

\* The rows of a listing agree, whatever the order in which the Creator, the promoter and
\* Administrators write them.
THEOREM RowsAgree == Spec => []ListingsAgree
<1>1. GovernanceInv => ListingsAgree
  <2> SUFFICES ASSUME GovernanceInv PROVE ListingsAgree
    OBVIOUS
  <2>1. \A l, m \in Listings :
          l[1] = m[1] /\ {listing[l].lifecycle, listing[m].lifecycle} \subseteq Open => l = m
    <3>1. \A l \in Listings : l = <<l[1], l[2]>> /\ (listing[l].lifecycle \in Open => l[2] = Count(l[1]))
      BY DEF GovernanceInv, NumbersOK, Listings
    <3>2. QED
      BY <3>1
  <2>2. QED
    BY <2>1 DEF GovernanceInv, ListingsOK, ListingRow, ProposalsOK, ListedOK, ListingsAgree
<1>2. QED
  BY <1>1, GovernanceInvariance, PTL

\* Whatever blocks an Artifact goes back to a decision that is still in force.
THEOREM BlocksComeFromDecisions == Spec => []BlocksAreInForce
<1>1. GovernanceInv => BlocksAreInForce
  BY DEF GovernanceInv, BlocksOK
<1>2. QED
  BY <1>1, GovernanceInvariance, PTL

\* A closed listing stays closed, an open one changes its Version by a proposal made on its
\* revision, and a revision is never reused.
THEOREM RevisionsMoveForward == Spec => ListingsMoveForward
<1> DEFINE Forward(l) ==
             LET old == listing[l]  new == listing'[l] IN
             /\ new.revision >= old.revision
             /\ old.lifecycle \in {"withdrawn", "removed"} => new.lifecycle \notin Open
             /\ new.current # old.current =>
                   /\ Proposed(l) /\ proposal[l].base = old.revision
                   /\ new.revision > old.revision
<1>1. GovernanceInv /\ [Next]_vars => [\A l \in Listings : Forward(l)]_vars
  <2> SUFFICES ASSUME GovernanceInv, Next, NEW l \in Listings PROVE Forward(l)
    BY DEF vars
  <2>1. listing[l].revision \in Nat
    BY DEF GovernanceInv, ListingsOK, ListingRow
  <2>2. CASE listing'[l] = listing[l]
    BY <2>1, <2>2 DEF Open
  <2>3. CASE Orderly
    <3>1. Stays(l) \/ Closes(l) \/ Promotes(l)
      BY <2>3 DEF Orderly, Moves
    <3>2. QED
      BY <2>1, <3>1 DEF Stays, Closes, Promotes, Open
  <2>4. ASSUME NEW a \in Artifacts, NEW v \in Versions, Share(a, v) PROVE Forward(l)
    <3>1. PICK new \in Listings :
            /\ listing[new] = NoListing
            /\ listing'[new] = [NoListing EXCEPT !.lifecycle = "pending", !.revision = 1]
            /\ \A m \in Listings : m # new => listing'[m] = listing[m]
      BY <2>4, ShareRows
    <3>2. CASE l = new
      <4>1. /\ listing[l].lifecycle = "none" /\ listing[l].revision = 0 /\ listing[l].current = 0
            /\ listing'[l].revision = 1 /\ listing'[l].current = 0
        <5>1. /\ NoListing.lifecycle = "none" /\ NoListing.revision = 0 /\ NoListing.current = 0
              /\ [NoListing EXCEPT !.lifecycle = "pending", !.revision = 1].revision = 1
              /\ [NoListing EXCEPT !.lifecycle = "pending", !.revision = 1].current = 0
          BY DEF NoListing
        <5>2. QED
          BY <3>1, <3>2, <5>1
      <4>2. QED
        BY <4>1
    <3>3. QED
      BY <2>2, <3>1, <3>2
  <2>5. ASSUME NEW a \in Artifacts, NEW v \in Versions, Update(a, v) PROVE Forward(l)
    BY <2>2, <2>5 DEF Update
  <2>6. QED
    BY <2>2, <2>3, <2>4, <2>5, StepKinds
<1>2. QED
  BY <1>1, GovernanceInvariance, PTL DEF Spec, ListingsMoveForward
=============================================================================
