----------------------- MODULE DeploymentControlProofs -----------------------
(***************************************************************************)
(* Proofs about DeploymentControl, for any number of releases, sessions,   *)
(* plans and leases.  Sessions that hold one lease work for one release,   *)
(* so what each of them has seen, verified or planned still holds when it  *)
(* goes by it.                                                             *)
(***************************************************************************)
EXTENDS DeploymentControl, TLAPS

Phases  == Layers \union {"preflight", "migration", "verification", "retirement"}
Records == [active : Releases \union {None}, previous : Releases \union {None}]
Sights  == Records \union [active : Releases \union {None}, previous : Releases \union {None},
                           jobs : SUBSET Releases]

Planning == {"bootstrapping", "acquiring"}
Working  == {"working", "waiting", "verified"}

Points   == Planning \union Working \union {"passed", "leased", "recording", "recorded"}

SessionRow ==
    [at : Points,
     kind : {"apply", "rollback", "verify"}, release : Releases, plan : Nat, fence : Nat,
     todo : SUBSET Phases, seen : Sights]

PlanRow ==
    [kind : {"apply", "rollback"}, release : Releases, first : BOOLEAN, todo : SUBSET Phases,
     retire : SUBSET Releases]

OperationRow ==
    /\ op = [id |-> op.id, fence |-> op.fence, lease |-> op.lease, state |-> op.state,
             done |-> op.done]
    /\ op.fence \in Nat /\ op.lease \in BOOLEAN

TypesOK ==
    /\ session \in [Sessions -> SessionRow \union {Idle}]
    /\ plans \in Seq(PlanRow)
    /\ record \in Records /\ job \in [Releases -> {None, "running", "complete", "failed"}]
    /\ OperationRow
    /\ touched \in Nat /\ touched <= op.fence

\* A plan whose observation stands is the plan of what would be observed now.
Lasting(kind, r) == Needed(kind, r) \ {"retirement"}
PlansOK ==
    /\ current \subseteq DOMAIN plans \union Sessions
    /\ \A n \in current \intersect DOMAIN plans :
         plans[n].todo \ {"retirement"} = Lasting(plans[n].kind, plans[n].release)

\* A session's fence has been granted, and its plan is one of those made, for its release.
KnowsPlan(x) ==
    /\ session[x].fence <= op.fence
    /\ session[x].at = "passed" => Kind(x) = "verify"
    /\ session[x].at \in Planning \union Working => Kind(x) # "verify"
    /\ Kind(x) # "verify" => /\ session[x].plan \in DOMAIN plans
                             /\ PlanOf(x).release = Release(x) /\ PlanOf(x).kind = Kind(x)

\* Until a holder of the lease changes the cluster it is as the plan found it.
Untouched(x) == touched = op.fence \/ PlanOf(x).first \/ AsPlanned(x)
ChangesAsPlanned(x) ==
    /\ Kind(x) # "verify" /\ session[x].at \in Working \union {"recording", "recorded"}
    /\ HoldsLease(x)
    => Untouched(x)

\* What the verify command saw runs unless somebody else takes the lease; what was verified
\* runs as long as the lease is held.
VerifiedRuns(x) ==
    /\ session[x].at = "passed" /\ (~op.lease \/ op.id = Id(x)) => Runs(Release(x))
    /\ HoldsLease(x) /\ \/ session[x].at \in {"verified", "recording"}
                        \/ session[x].at = "leased" /\ Kind(x) = "verify"
       => Runs(Release(x))

\* The records are as a session read them, or as it would write them.
SeenStands(x) ==
    \/ record = Successor(x)
    \/ session[x].seen.active = record.active /\ session[x].seen.previous = record.previous
RecordsStand(x) ==
    /\ HoldsLease(x)
    /\ \/ session[x].at = "recording"
       \/ session[x].at = "waiting" /\ Phase(x) = "retirement"
       \/ session[x].at \in Working /\ Kind(x) = "rollback"
    => SeenStands(x)

SessionOK(x) ==
    session[x] # Idle => KnowsPlan(x) /\ ChangesAsPlanned(x) /\ VerifiedRuns(x) /\ RecordsStand(x)

DeploymentInv == TypesOK /\ PlansOK /\ \A x \in Sessions : SessionOK(x)
-----------------------------------------------------------------------------
(* Steps. *)

\* A session goes on: for the same release under the same fence, and having seen the same.
GoesOn(x) ==
    /\ session[x] # Idle /\ session'[x] # Idle
    /\ session'[x].kind = session[x].kind /\ session'[x].release = session[x].release
    /\ session'[x].plan = session[x].plan /\ session'[x].fence = session[x].fence

\* The cluster stays, or changes under the lease away from anything but the release.
Quiet == UNCHANGED <<layer, touched>> /\ Jobs' = Jobs
Changes(y) ==
    /\ session[y] # Idle /\ HoldsLease(y) /\ Kind(y) # "verify"
    /\ touched' = op.fence
    /\ \A l \in Layers : layer[l] = Release(y) => layer'[l] = Release(y)
ClusterStep == Quiet \/ \E y \in Sessions : Changes(y)

Writes(y) ==
    /\ session[y] # Idle /\ HoldsLease(y)
    /\ session[y].at = "recording" /\ record' = Successor(y)
RecordStep == UNCHANGED record \/ \E y \in Sessions : Writes(y)

PlansStep == \A n \in DOMAIN plans : n \in DOMAIN plans' /\ plans'[n] = plans[n]

\* Nobody gets the lease by what others do.
Steady(x) ==
    /\ session[x].fence <= op'.fence
    /\ HoldsLease(x)' => HoldsLease(x)
    /\ session[x].at = "passed" /\ (~op'.lease \/ op'.id = Id(x)) => ~op.lease \/ op.id = Id(x)

\* One operation, one release.
LEMMA OneRelease ==
    ASSUME NEW x \in Sessions, NEW y \in Sessions, Id(x) = Id(y), DeploymentInv,
           session[x] # Idle, session[y] # Idle
    PROVE  Kind(x) = Kind(y) /\ Release(x) = Release(y)
<1>1. Kind(x) = Kind(y)
  BY DEF Id
<1>2. CASE Kind(x) = "apply"
  BY <1>1, <1>2 DEF Id, DeploymentInv, SessionOK, KnowsPlan, PlanOf
<1>3. CASE Kind(x) # "apply"
  BY <1>1, <1>3 DEF Id
<1>4. QED
  BY <1>1, <1>2, <1>3

\* Records do not matter to what a plan has to do besides retirement.
LEMMA LastingStays ==
    ASSUME NEW kind, NEW r, UNCHANGED layer, Jobs' = Jobs
    PROVE  Lasting(kind, r)' = Lasting(kind, r)
  BY DEF Lasting, Needed

LEMMA LeaseHeld ==
    ASSUME DeploymentInv, NEW x \in Sessions, GoesOn(x), HoldsLease(x), HoldsLease(x)',
           ClusterStep, RecordStep, PlansStep
    PROVE  /\ Runs(Release(x)) => Runs(Release(x))'
           /\ Kind(x) # "verify" /\ Untouched(x) => Untouched(x)'
           /\ session'[x].seen = session[x].seen /\ SeenStands(x) => SeenStands(x)'
<1>1. /\ Kind(x)' = Kind(x) /\ Release(x)' = Release(x) /\ op'.fence = op.fence
      /\ session[x] # Idle
  BY DEF GoesOn, Kind, Release, HoldsLease
<1>2. \A y \in Sessions : session[y] # Idle /\ HoldsLease(y) =>
        Kind(y) = Kind(x) /\ Release(y) = Release(x)
  BY <1>1, OneRelease DEF HoldsLease
<1>3. Runs(Release(x)) => Runs(Release(x))'
  BY <1>1, <1>2 DEF ClusterStep, Quiet, Changes, Runs
<1>4. ASSUME Kind(x) # "verify", Untouched(x) PROVE Untouched(x)'
  <2>1. PlanOf(x)' = PlanOf(x)
    BY <1>1, <1>4 DEF GoesOn, PlansStep, PlanOf, DeploymentInv, SessionOK, KnowsPlan
  <2>2. CASE Quiet
    <3>1. Lasting(Kind(x), Release(x))' = Lasting(Kind(x), Release(x))
      BY <1>1, <2>2, LastingStays DEF Quiet
    <3>2. QED
      BY <1>1, <1>4, <2>1, <2>2, <3>1 DEF Untouched, AsPlanned, Quiet, Lasting
  <2>3. CASE \E y \in Sessions : Changes(y)
    BY <1>1, <2>3 DEF Changes, Untouched
  <2>4. QED
    BY <2>2, <2>3 DEF ClusterStep
<1>5. ASSUME session'[x].seen = session[x].seen, SeenStands(x) PROVE SeenStands(x)'
  <2>1. Successor(x)' = Successor(x)
    BY <1>1, <1>5 DEF Successor
  <2>2. CASE UNCHANGED record
    BY <1>5, <2>1, <2>2 DEF SeenStands
  <2>3. ASSUME NEW y \in Sessions, Writes(y) PROVE SeenStands(x)'
    <3>1. Release(y) = Release(x) /\ SeenStands(y) /\ record' = Successor(y)
      BY <1>2, <2>3 DEF Writes, DeploymentInv, SessionOK, RecordsStand
    <3>2. record = [active |-> record.active, previous |-> record.previous]
      BY DEF DeploymentInv, TypesOK, Records
    <3>3. CASE record = Successor(y)
      BY <1>5, <2>1, <3>1, <3>3 DEF SeenStands
    <3>4. CASE session[y].seen.active = record.active /\ session[y].seen.previous = record.previous
      <4>1. record' = [active |-> Release(x),
                       previous |-> IF record.active = Release(x) THEN record.previous
                                    ELSE record.active]
        BY <3>1, <3>4 DEF Successor
      <4>2. CASE record = Successor(x)
        <5>1. record.active = Release(x)
          BY <4>2 DEF Successor
        <5>2. record' = record
          BY <3>2, <4>1, <5>1
        <5>3. QED
          BY <2>1, <4>2, <5>2 DEF SeenStands
      <4>3. CASE session[x].seen.active = record.active /\ session[x].seen.previous = record.previous
        <5>1. Successor(x) = record'
          BY <4>1, <4>3 DEF Successor
        <5>2. QED
          BY <2>1, <5>1 DEF SeenStands
      <4>4. QED
        BY <1>5, <4>2, <4>3 DEF SeenStands
    <3>5. QED
      BY <3>1, <3>3, <3>4 DEF SeenStands
  <2>4. QED
    BY <2>2, <2>3 DEF RecordStep
<1>6. QED
  BY <1>3, <1>4, <1>5

\* What the others know stays so.
LEMMA OthersStay ==
    ASSUME DeploymentInv, NEW x \in Sessions, session[x] # Idle, session'[x] = session[x],
           Steady(x), ClusterStep, RecordStep, PlansStep
    PROVE  SessionOK(x)'
<1>1. GoesOn(x) /\ Id(x)' = Id(x) /\ Phase(x)' = Phase(x) /\ Kind(x)' = Kind(x)
      /\ Release(x)' = Release(x)
  BY DEF GoesOn, Id, Phase, Kind, Release
<1>2. KnowsPlan(x) /\ ChangesAsPlanned(x) /\ VerifiedRuns(x) /\ RecordsStand(x)
  BY DEF DeploymentInv, SessionOK
<1>3. KnowsPlan(x)'
  BY <1>1, <1>2 DEF KnowsPlan, PlansStep, PlanOf, Steady
<1>4. HoldsLease(x)' => HoldsLease(x)
  BY DEF Steady
<1>5. ChangesAsPlanned(x)'
  BY <1>1, <1>2, <1>4, LeaseHeld DEF ChangesAsPlanned
<1>6. ASSUME session[x].at = "passed", ~op'.lease \/ op'.id = Id(x)
      PROVE  Runs(Release(x))'
  <2>1. /\ Runs(Release(x)) /\ Kind(x) = "verify"
        /\ ~op.lease \/ op.id = Id(x)
    BY <1>2, <1>6 DEF VerifiedRuns, KnowsPlan, Steady
  <2>2. ~ \E y \in Sessions : Changes(y)
    BY <2>1, OneRelease DEF Changes, HoldsLease
  <2>3. QED
    BY <1>1, <2>1, <2>2 DEF ClusterStep, Quiet, Runs
<1>7. VerifiedRuns(x)'
  <2>1. session'[x].at = "passed" /\ (~op'.lease \/ op'.id = Id(x)') => Runs(Release(x))'
    BY <1>1, <1>6
  <2>2. HoldsLease(x)' /\ \/ session'[x].at \in {"verified", "recording"}
                          \/ session'[x].at = "leased" /\ Kind(x)' = "verify"
        => Runs(Release(x))'
    BY <1>1, <1>2, <1>4, LeaseHeld DEF VerifiedRuns
  <2>3. QED
    BY <2>1, <2>2 DEF VerifiedRuns
<1>8. RecordsStand(x)'
  BY <1>1, <1>2, <1>4, LeaseHeld DEF RecordsStand
<1>9. QED
  BY <1>3, <1>5, <1>7, <1>8 DEF SessionOK
-----------------------------------------------------------------------------
(* Sessions. *)

\* One session acts, and what it does is right of it.
LEMMA OneActs ==
    ASSUME DeploymentInv, NEW y \in Sessions, TypesOK', PlansOK',
           ClusterStep, RecordStep, PlansStep, SessionOK(y)',
           \A x \in Sessions \ {y} :
             session'[x] = session[x] /\ (session[x] # Idle => Steady(x))
    PROVE  DeploymentInv'
<1>1. ASSUME NEW x \in Sessions, x # y PROVE SessionOK(x)'
  <2>1. session'[x] = session[x] /\ (session[x] # Idle => Steady(x))
    BY <1>1
  <2>2. CASE session[x] = Idle
    BY <2>1, <2>2 DEF SessionOK
  <2>3. CASE session[x] # Idle
    BY <2>1, <2>3, OthersStay
  <2>4. QED
    BY <2>2, <2>3
<1>2. QED
  BY <1>1 DEF DeploymentInv

\* A session moves to another point.
Moves(y, at) ==
    /\ session' \in [Sessions -> SessionRow \union {Idle}]
    /\ GoesOn(y) /\ session'[y].at = at
    /\ \A x \in Sessions \ {y} : session'[x] = session[x]

LEMMA Awake ==
    ASSUME DeploymentInv, NEW y \in Sessions, session[y] # Idle
    PROVE  session[y] \in SessionRow
  BY DEF DeploymentInv, TypesOK

LEMMA NotIdle ==
    ASSUME NEW y, session[y].at # "idle"
    PROVE  session[y] # Idle
  BY DEF Idle

\* A row with one field changed.
LEMMA RowWithAt ==
    ASSUME NEW row \in SessionRow, NEW at \in Points, NEW new, new = [row EXCEPT !.at = at]
    PROVE  /\ new \in SessionRow /\ new.at = at /\ new.kind = row.kind
           /\ new.release = row.release /\ new.plan = row.plan /\ new.fence = row.fence
           /\ new.todo = row.todo /\ new.seen = row.seen
  BY DEF SessionRow

LEMMA RowWithSeen ==
    ASSUME NEW row \in SessionRow, NEW seen \in Sights, NEW new,
           new = [row EXCEPT !.seen = seen]
    PROVE  /\ new \in SessionRow /\ new.at = row.at /\ new.kind = row.kind
           /\ new.release = row.release /\ new.plan = row.plan /\ new.fence = row.fence
           /\ new.todo = row.todo /\ new.seen = seen
  BY DEF SessionRow

LEMMA RowWithTodo ==
    ASSUME NEW row \in SessionRow, NEW todo \in SUBSET Phases, NEW new,
           new = [row EXCEPT !.todo = todo]
    PROVE  /\ new \in SessionRow /\ new.at = row.at /\ new.kind = row.kind
           /\ new.release = row.release /\ new.plan = row.plan /\ new.fence = row.fence
           /\ new.todo = todo /\ new.seen = row.seen
  BY DEF SessionRow

LEMMA RowWithFence ==
    ASSUME NEW row \in SessionRow, NEW fence \in Nat, NEW new,
           new = [row EXCEPT !.fence = fence]
    PROVE  /\ new \in SessionRow /\ new.at = row.at /\ new.kind = row.kind
           /\ new.release = row.release /\ new.plan = row.plan /\ new.fence = fence
           /\ new.todo = row.todo /\ new.seen = row.seen
  BY DEF SessionRow

LEMMA RowMoves ==
    ASSUME DeploymentInv, NEW y \in Sessions, session[y] # Idle, NEW new \in SessionRow,
           session' = [session EXCEPT ![y] = new],
           new.kind = session[y].kind, new.release = session[y].release,
           new.plan = session[y].plan, new.fence = session[y].fence
    PROVE  session'[y] = new /\ Moves(y, new.at)
<1>1. session \in [Sessions -> SessionRow \union {Idle}]
  BY DEF DeploymentInv, TypesOK
<1>2. /\ session'[y] = new /\ session' \in [Sessions -> SessionRow \union {Idle}]
      /\ \A x \in Sessions \ {y} : session'[x] = session[x]
  BY <1>1
<1>3. new # Idle
  BY DEF SessionRow, Points, Planning, Working, Idle
<1>4. QED
  BY <1>2, <1>3 DEF Moves, GoesOn

LEMMA GotoMoves ==
    ASSUME DeploymentInv, NEW y \in Sessions, session[y] # Idle, NEW at \in Points, Goto(y, at)
    PROVE  Moves(y, at) /\ session'[y].todo = session[y].todo
                        /\ session'[y].seen = session[y].seen
<1>1. PICK row \in SessionRow : row = session[y]
  BY Awake
<1>2. PICK new : new = [row EXCEPT !.at = at]
  OBVIOUS
<1>3. session' = [session EXCEPT ![y] = new]
  BY <1>1, <1>2 DEF Goto
<1>4. /\ new \in SessionRow /\ new.at = at /\ new.kind = row.kind /\ new.release = row.release
      /\ new.plan = row.plan /\ new.fence = row.fence /\ new.todo = row.todo /\ new.seen = row.seen
  BY <1>2, RowWithAt
<1>5. QED
  BY <1>1, <1>3, <1>4, RowMoves

LEMMA SeenMoves ==
    ASSUME DeploymentInv, NEW y \in Sessions, session[y] # Idle, NEW at \in Points,
           NEW seen \in Sights,
           session' = [session EXCEPT ![y].at = at, ![y].seen = seen]
    PROVE  Moves(y, at) /\ session'[y].todo = session[y].todo /\ session'[y].seen = seen
<1>1. PICK row \in SessionRow : row = session[y]
  BY Awake
<1>2. PICK moved : moved = [row EXCEPT !.at = at]
  OBVIOUS
<1>3. PICK new : new = [moved EXCEPT !.seen = seen]
  OBVIOUS
<1>4. session \in [Sessions -> SessionRow \union {Idle}]
  BY DEF DeploymentInv, TypesOK
<1>5. session' = [session EXCEPT ![y] = new]
  BY <1>1, <1>2, <1>3, <1>4
<1>6. moved \in SessionRow /\ new \in SessionRow
  BY <1>2, <1>3, RowWithAt, RowWithSeen
<1>7. /\ new.at = at /\ new.kind = row.kind /\ new.release = row.release
      /\ new.plan = row.plan /\ new.fence = row.fence /\ new.todo = row.todo /\ new.seen = seen
  BY <1>2, <1>3, <1>6, RowWithAt, RowWithSeen
<1>8. QED
  BY <1>1, <1>5, <1>6, <1>7, RowMoves

LEMMA TodoMoves ==
    ASSUME DeploymentInv, NEW y \in Sessions, session[y] # Idle, NEW at \in Points,
           NEW todo \in SUBSET Phases,
           session' = [session EXCEPT ![y].at = at, ![y].todo = todo]
    PROVE  Moves(y, at) /\ session'[y].todo = todo /\ session'[y].seen = session[y].seen
<1>1. PICK row \in SessionRow : row = session[y]
  BY Awake
<1>2. PICK moved : moved = [row EXCEPT !.at = at]
  OBVIOUS
<1>3. PICK new : new = [moved EXCEPT !.todo = todo]
  OBVIOUS
<1>4. session \in [Sessions -> SessionRow \union {Idle}]
  BY DEF DeploymentInv, TypesOK
<1>5. session' = [session EXCEPT ![y] = new]
  BY <1>1, <1>2, <1>3, <1>4
<1>6. moved \in SessionRow /\ new \in SessionRow
  BY <1>2, <1>3, RowWithAt, RowWithTodo
<1>7. /\ new.at = at /\ new.kind = row.kind /\ new.release = row.release
      /\ new.plan = row.plan /\ new.fence = row.fence /\ new.todo = todo /\ new.seen = row.seen
  BY <1>2, <1>3, <1>6, RowWithAt, RowWithTodo
<1>8. QED
  BY <1>1, <1>5, <1>6, <1>7, RowMoves

LEMMA BeginMoves ==
    ASSUME DeploymentInv, NEW y \in Sessions, session[y] # Idle, NEW at \in Points,
           NEW seen \in Sights, NEW todo \in SUBSET Phases,
           session' = [session EXCEPT ![y].at = at, ![y].seen = seen, ![y].todo = todo]
    PROVE  Moves(y, at) /\ session'[y].todo = todo /\ session'[y].seen = seen
<1>1. PICK row \in SessionRow : row = session[y]
  BY Awake
<1>2. PICK moved : moved = [row EXCEPT !.at = at]
  OBVIOUS
<1>3. PICK aware : aware = [moved EXCEPT !.seen = seen]
  OBVIOUS
<1>4. PICK new : new = [aware EXCEPT !.todo = todo]
  OBVIOUS
<1>5. session \in [Sessions -> SessionRow \union {Idle}]
  BY DEF DeploymentInv, TypesOK
<1>6. session' = [session EXCEPT ![y] = new]
  BY <1>1, <1>2, <1>3, <1>4, <1>5
<1>7. moved \in SessionRow /\ aware \in SessionRow /\ new \in SessionRow
  BY <1>2, <1>3, <1>4, RowWithAt, RowWithSeen, RowWithTodo
<1>8. /\ new.at = at /\ new.kind = row.kind /\ new.release = row.release
      /\ new.plan = row.plan /\ new.fence = row.fence /\ new.todo = todo /\ new.seen = seen
  BY <1>2, <1>3, <1>4, <1>7, RowWithAt, RowWithSeen, RowWithTodo
<1>9. QED
  BY <1>1, <1>6, <1>7, <1>8, RowMoves

\* A session that begins, or is over.
LEMMA NewRow ==
    ASSUME NEW kind \in {"apply", "rollback", "verify"}, NEW r \in Releases, NEW n \in Nat,
           NEW at \in Points
    PROVE  /\ NewSession(kind, r, n, at) \in SessionRow
           /\ NewSession(kind, r, n, at).at = at /\ NewSession(kind, r, n, at).kind = kind
           /\ NewSession(kind, r, n, at).release = r /\ NewSession(kind, r, n, at).plan = n
           /\ NewSession(kind, r, n, at).fence = 0
  BY DEF NewSession, SessionRow, Sights, Records, None

\* The operation row goes on for those who hold its lease.
KeepsLease ==
    /\ op'.id = op.id /\ op'.fence = op.fence /\ op'.lease = op.lease
    /\ op'.state = "active" => op.state = "active"

LEMMA KeepsSteady ==
    ASSUME DeploymentInv, KeepsLease, NEW x \in Sessions, session[x] # Idle,
           session'[x] = session[x]
    PROVE  Steady(x)
<1>1. Id(x)' = Id(x)
  BY DEF Id, Kind, Release
<1>2. session[x].fence <= op.fence
  BY DEF DeploymentInv, SessionOK, KnowsPlan
<1>3. QED
  BY <1>1, <1>2 DEF Steady, HoldsLease, KeepsLease

\* What the holder of the lease does to the row.
LEMMA HolderKeeps ==
    ASSUME DeploymentInv, NEW y \in Sessions, HoldsLease(y),
           \/ Renew \/ op' = [op EXCEPT !.state = "completed"]
           \/ \E done : op' = [op EXCEPT !.lease = TRUE, !.done = done]
    PROVE  KeepsLease /\ OperationRow'
<1>1. op.lease = TRUE /\ op.state = "active" /\ OperationRow
  BY DEF HoldsLease, DeploymentInv, TypesOK, OperationRow
<1>2. CASE Renew
  BY <1>1, <1>2 DEF Renew, KeepsLease, OperationRow
<1>3. CASE op' = [op EXCEPT !.state = "completed"]
  BY <1>1, <1>3 DEF KeepsLease, OperationRow
<1>4. ASSUME NEW done, op' = [op EXCEPT !.lease = TRUE, !.done = done]
      PROVE  KeepsLease /\ OperationRow'
  BY <1>1, <1>4 DEF KeepsLease, OperationRow
<1>5. QED
  BY <1>2, <1>3, <1>4
-----------------------------------------------------------------------------
(* What every action has to show.                                          *)

\* Observations stand while nothing changes, or are gone.
LEMMA PlansKept ==
    ASSUME DeploymentInv, UNCHANGED plans,
           current' = {} \/ (current' \subseteq current \union Sessions /\ Quiet)
    PROVE  PlansOK' /\ PlansStep
<1>1. DOMAIN plans \subseteq Nat
  BY DEF DeploymentInv, TypesOK
<1>2. CASE current' = {}
  BY <1>2 DEF PlansOK, PlansStep
<1>3. CASE current' \subseteq current \union Sessions /\ Quiet
  <2>1. \A kind, r : Lasting(kind, r)' = Lasting(kind, r)
    BY <1>3, LastingStays DEF Quiet
  <2>2. \A n \in current' \intersect DOMAIN plans : n \in current
    BY <1>1, <1>3, SessionsAssumption
  <2>3. QED
    BY <1>3, <2>1, <2>2 DEF PlansOK, PlansStep, DeploymentInv
<1>4. QED
  BY <1>2, <1>3

\* Nobody acts on a session, and those that hold the lease do not get it so.
LEMMA NobodyActs ==
    ASSUME DeploymentInv, TypesOK', PlansOK', UNCHANGED session,
           ClusterStep, RecordStep, PlansStep,
           \A x \in Sessions : session[x] # Idle => Steady(x)
    PROVE  DeploymentInv'
<1>1. ASSUME NEW x \in Sessions PROVE SessionOK(x)'
  <2>1. CASE session[x] = Idle
    BY <2>1 DEF SessionOK
  <2>2. CASE session[x] # Idle
    BY <2>2, OthersStay
  <2>3. QED
    BY <2>1, <2>2
<1>2. QED
  BY <1>1 DEF DeploymentInv

\* A session moves on: what it goes by from there is so under its lease.
LEMMA MoverInv ==
    ASSUME DeploymentInv, NEW y \in Sessions, NEW at \in Points \ {"passed"}, Moves(y, at),
           TypesOK', PlansOK', KeepsLease, ClusterStep, RecordStep, PlansStep,
           at \in Planning \union Working => Kind(y) # "verify",
           HoldsLease(y) /\ HoldsLease(y)' =>
             /\ Kind(y) # "verify" /\ at \in Working \union {"recording", "recorded"}
                  => Untouched(y)'
             /\ at \in {"verified", "recording"} \/ (at = "leased" /\ Kind(y) = "verify")
                  => Runs(Release(y))'
             /\ (\/ at = "recording"
                 \/ at = "waiting" /\ Phase(y)' = "retirement"
                 \/ at \in Working /\ Kind(y) = "rollback")
                  => SeenStands(y)'
    PROVE  DeploymentInv'
<1>1. /\ Kind(y)' = Kind(y) /\ Release(y)' = Release(y) /\ Id(y)' = Id(y) /\ session'[y].at = at
      /\ session'[y].fence = session[y].fence /\ session'[y].plan = session[y].plan
      /\ session[y] # Idle
  BY DEF Moves, GoesOn, Kind, Release, Id
<1>2. HoldsLease(y)' => HoldsLease(y)
  BY <1>1 DEF HoldsLease, KeepsLease
<1>3. KnowsPlan(y)
  BY <1>1 DEF DeploymentInv, SessionOK
<1>4. KnowsPlan(y)'
  BY <1>1, <1>3 DEF KnowsPlan, KeepsLease, PlansStep, PlanOf
<1>5. ChangesAsPlanned(y)' /\ VerifiedRuns(y)' /\ RecordsStand(y)'
  <2>1. CASE HoldsLease(y)'
    <3>1. ChangesAsPlanned(y)'
      BY <1>1, <1>2, <2>1 DEF ChangesAsPlanned
    <3>2. VerifiedRuns(y)'
      BY <1>1, <1>2, <2>1 DEF VerifiedRuns
    <3>3. RecordsStand(y)'
      BY <1>1, <1>2, <2>1 DEF RecordsStand
    <3>4. QED
      BY <3>1, <3>2, <3>3
  <2>2. CASE ~HoldsLease(y)'
    BY <1>1, <2>2 DEF ChangesAsPlanned, VerifiedRuns, RecordsStand
  <2>3. QED
    BY <2>1, <2>2
<1>6. \A x \in Sessions \ {y} : session'[x] = session[x] /\ (session[x] # Idle => Steady(x))
  BY KeepsSteady DEF Moves
<1>7. SessionOK(y)'
  BY <1>4, <1>5 DEF SessionOK
<1>8. QED
  BY <1>6, <1>7, OneActs

\* A session ends, and its operation with it or not.
LEMMA EndInv ==
    ASSUME DeploymentInv, NEW y \in Sessions, End(y), UNCHANGED <<record, cluster, plans>>,
           UNCHANGED op \/ (HoldsLease(y) /\ op' = [op EXCEPT !.state = "completed"]),
           UNCHANGED current \/ current' = {}
    PROVE  DeploymentInv'
<1>1. Quiet /\ ClusterStep /\ RecordStep
  BY DEF cluster, Quiet, Jobs, ClusterStep, RecordStep
<1>2. PlansOK' /\ PlansStep
  BY <1>1, PlansKept
<1>3. KeepsLease /\ OperationRow'
  <2>1. CASE UNCHANGED op
    BY <2>1 DEF KeepsLease, OperationRow, DeploymentInv, TypesOK
  <2>2. QED
    BY <2>1, HolderKeeps
<1>4. /\ session' \in [Sessions -> SessionRow \union {Idle}] /\ session'[y] = Idle
      /\ \A x \in Sessions \ {y} : session'[x] = session[x]
  BY DEF End, DeploymentInv, TypesOK
<1>5. TypesOK'
  BY <1>3, <1>4 DEF DeploymentInv, TypesOK, cluster, KeepsLease
<1>6. SessionOK(y)'
  BY <1>4 DEF SessionOK
<1>7. \A x \in Sessions \ {y} : session'[x] = session[x] /\ (session[x] # Idle => Steady(x))
  BY <1>3, <1>4, KeepsSteady
<1>8. QED
  BY <1>1, <1>2, <1>5, <1>6, <1>7, OneActs
-----------------------------------------------------------------------------
(* Plans, and sessions that begin.                                         *)

LEMMA NeededPhases ==
    ASSUME NEW kind, NEW r
    PROVE  Needed(kind, r) \in SUBSET Phases /\ Superseded(r) \in SUBSET Releases
  BY DEF Needed, Phases, Superseded, Jobs

LEMMA MakePlanInv ==
    ASSUME DeploymentInv, NEW r \in Releases, NEW kind \in {"apply", "rollback"},
           MakePlan(kind, r)
    PROVE  DeploymentInv'
<1> DEFINE todo == Needed(kind, r)
           retire == Superseded(r)
           first == ~installed
<1>1. PICK plan : plan = [kind |-> kind, release |-> r, first |-> first, todo |-> todo,
                          retire |-> retire]
  OBVIOUS
<1>2. /\ plans' = Append(plans, plan) /\ current' = current \union {Len(plans) + 1}
      /\ UNCHANGED <<store, cluster, session>>
  BY <1>1 DEF MakePlan
<1>3. todo \in SUBSET Phases /\ retire \in SUBSET Releases /\ first \in BOOLEAN
  BY NeededPhases
<1>4. plan \in PlanRow /\ plan.kind = kind /\ plan.release = r /\ plan.todo = todo
  <2> HIDE DEF todo, retire, first
  <2>1. QED
    BY <1>1, <1>3 DEF PlanRow
<1>5. plans \in Seq(PlanRow)
  BY DEF DeploymentInv, TypesOK
<1>6. /\ plans' \in Seq(PlanRow) /\ DOMAIN plans' = DOMAIN plans \union {Len(plans) + 1}
      /\ plans'[Len(plans) + 1] = plan /\ \A n \in DOMAIN plans : plans'[n] = plans[n]
  BY <1>2, <1>4, <1>5
<1>7. Quiet /\ ClusterStep /\ RecordStep /\ PlansStep
  BY <1>2, <1>6 DEF cluster, store, Quiet, Jobs, ClusterStep, RecordStep, PlansStep
<1>8. TypesOK'
  BY <1>2, <1>6 DEF DeploymentInv, TypesOK, OperationRow, store, cluster
<1>9. PlansOK'
  <2>1. \A k, s : Lasting(k, s)' = Lasting(k, s)
    BY <1>7, LastingStays DEF Quiet
  <2>2. ASSUME NEW n \in current' \intersect DOMAIN plans'
        PROVE  (plans[n].todo \ {"retirement"} = Lasting(plans[n].kind, plans[n].release))'
    <3>1. CASE n = Len(plans) + 1
      BY <1>4, <1>6, <2>1, <3>1 DEF Lasting
    <3>2. CASE n # Len(plans) + 1
      BY <1>2, <1>6, <2>1, <2>2, <3>2 DEF DeploymentInv, PlansOK
    <3>3. QED
      BY <3>1, <3>2
  <2>3. current' \subseteq DOMAIN plans' \union Sessions
    BY <1>2, <1>6 DEF DeploymentInv, PlansOK
  <2>4. QED
    BY <2>2, <2>3 DEF PlansOK
<1>10. KeepsLease /\ UNCHANGED session
  BY <1>2 DEF KeepsLease, store
<1>11. \A x \in Sessions : session[x] # Idle => Steady(x)
  BY <1>10, KeepsSteady
<1>12. QED
  BY <1>7, <1>8, <1>9, <1>10, <1>11, NobodyActs

\* A session that begins, for a release, from a plan or with a look at the cluster.
LEMMA StartInv ==
    ASSUME DeploymentInv, NEW y \in Sessions, NEW kind \in {"apply", "rollback", "verify"},
           NEW r \in Releases, NEW n \in Nat, NEW at \in Planning \union {"passed"},
           session[y] = Idle,
           session' = [session EXCEPT ![y] = NewSession(kind, r, n, at)],
           UNCHANGED <<store, cluster, plans, current>>,
           at = "passed" <=> kind = "verify",
           at = "passed" => Runs(r),
           kind # "verify" => n \in DOMAIN plans /\ plans[n].release = r /\ plans[n].kind = kind
    PROVE  DeploymentInv'
<1>1. at \in Points
  BY DEF Points
<1>2. PICK new \in SessionRow :
        /\ session' = [session EXCEPT ![y] = new] /\ new.at = at /\ new.kind = kind
        /\ new.release = r /\ new.plan = n /\ new.fence = 0
  <2>1. PICK new : new = NewSession(kind, r, n, at)
    OBVIOUS
  <2>2. /\ new \in SessionRow /\ new.at = at /\ new.kind = kind
        /\ new.release = r /\ new.plan = n /\ new.fence = 0
    BY <1>1, <2>1, NewRow
  <2>3. QED
    BY <2>1, <2>2
<1>3. /\ session' \in [Sessions -> SessionRow \union {Idle}] /\ session'[y] = new
      /\ \A x \in Sessions \ {y} : session'[x] = session[x]
  BY <1>2 DEF DeploymentInv, TypesOK
<1>4. Quiet /\ ClusterStep /\ RecordStep /\ KeepsLease /\ TypesOK'
  BY <1>3 DEF cluster, store, Quiet, Jobs, ClusterStep, RecordStep, KeepsLease, DeploymentInv,
              TypesOK, OperationRow
<1>5. PlansOK' /\ PlansStep
  BY <1>4, PlansKept
<1>6. Kind(y)' = kind /\ Release(y)' = r /\ session'[y].fence <= op'.fence
  BY <1>2, <1>3, <1>4 DEF Kind, Release, TypesOK, OperationRow
<1>7. KnowsPlan(y)'
  BY <1>2, <1>3, <1>6 DEF KnowsPlan, PlanOf, Planning, Working
<1>8. at \notin Working \union {"recording", "recorded", "leased", "verified", "waiting"}
  BY DEF Planning, Working
<1>9. ChangesAsPlanned(y)' /\ RecordsStand(y)'
  BY <1>2, <1>3, <1>8 DEF ChangesAsPlanned, RecordsStand
<1>10. Runs(r)' = Runs(r)
  BY DEF Runs, cluster
<1>11. VerifiedRuns(y)'
  BY <1>2, <1>3, <1>6, <1>8, <1>10 DEF VerifiedRuns
<1>12. SessionOK(y)'
  BY <1>7, <1>9, <1>11 DEF SessionOK
<1>13. \A x \in Sessions \ {y} : session'[x] = session[x] /\ (session[x] # Idle => Steady(x))
  BY <1>3, <1>4, KeepsSteady
<1>14. QED
  BY <1>4, <1>5, <1>12, <1>13, OneActs
-----------------------------------------------------------------------------
(* The operation.                                                          *)

LEMMA BootstrapInv ==
    ASSUME DeploymentInv, NEW y \in Sessions, Bootstrap(y)
    PROVE  DeploymentInv'
<1>1. /\ session[y] # Idle /\ Goto(y, "acquiring") /\ UNCHANGED <<op, record, cluster, plans>>
      /\ current' \subseteq current \union Sessions /\ session[y].at = "bootstrapping"
  BY NotIdle DEF Bootstrap
<1>2. "acquiring" \in Points \ {"passed"} /\ "acquiring" \notin Working
      /\ "bootstrapping" \in Planning
  BY DEF Points, Planning, Working
<1>3. Moves(y, "acquiring")
  BY <1>1, <1>2, GotoMoves
<1>4. Quiet /\ ClusterStep /\ RecordStep /\ KeepsLease
  BY <1>1 DEF cluster, Quiet, Jobs, ClusterStep, RecordStep, KeepsLease
<1>5. PlansOK' /\ PlansStep
  BY <1>1, <1>4, PlansKept
<1>6. TypesOK'
  BY <1>1, <1>3 DEF DeploymentInv, TypesOK, OperationRow, cluster, Moves
<1>7. Kind(y) # "verify"
  BY <1>1, <1>2 DEF DeploymentInv, SessionOK, KnowsPlan
<1>8. QED
  BY <1>2, <1>3, <1>4, <1>5, <1>6, <1>7, MoverInv

\* A lease that is taken when the last one is over, or shared while it lasts.
LEMMA AcquireInv ==
    ASSUME DeploymentInv, NEW y \in Sessions, Acquire(y)
    PROVE  DeploymentInv'
<1>1. /\ session[y] # Idle /\ session[y].at \in {"acquiring", "passed"}
      /\ UNCHANGED <<record, cluster, plans, current>>
  BY NotIdle DEF Acquire
<1>2. /\ OperationRow' /\ op'.fence >= op.fence /\ op'.lease /\ op'.id = Id(y)
      /\ \/ ~op.lease /\ op'.fence = op.fence + 1
         \/ op.lease /\ op.id = Id(y) /\ KeepsLease
  <2>1. OperationRow
    BY DEF DeploymentInv, TypesOK
  <2>2. CASE /\ ~op.lease
             /\ op' = [id |-> Id(y), fence |-> op.fence + 1, lease |-> TRUE,
                       state |-> "active", done |-> {}]
    BY <2>1, <2>2 DEF OperationRow
  <2>3. CASE op.lease /\ op.id = Id(y) /\ Renew
    <3>1. op' = [op EXCEPT !.lease = TRUE]
      BY <2>3 DEF Renew
    <3>2. /\ OperationRow' /\ op'.fence = op.fence /\ op'.lease = TRUE /\ op'.id = op.id
          /\ op'.state = op.state
      BY <2>1, <3>1 DEF OperationRow
    <3>3. op.lease = TRUE
      BY <2>1, <2>3 DEF OperationRow
    <3>4. KeepsLease
      BY <3>2, <3>3 DEF KeepsLease
    <3>5. op'.fence >= op.fence
      BY <2>1, <3>2 DEF OperationRow
    <3>6. QED
      BY <2>3, <3>2, <3>4, <3>5
  <2>4. QED
    BY <2>2, <2>3 DEF Acquire
<1>3. PICK row \in SessionRow : row = session[y]
  BY <1>1, Awake
<1>4. PICK fence \in Nat : fence = op'.fence
  BY <1>2 DEF OperationRow
<1>5. PICK moved : moved = [row EXCEPT !.at = "leased"]
  OBVIOUS
<1>6. PICK new : new = [moved EXCEPT !.fence = fence]
  OBVIOUS
<1>7. session' = [session EXCEPT ![y] = new]
  BY <1>3, <1>4, <1>5, <1>6 DEF Acquire, DeploymentInv, TypesOK
<1>8. "leased" \in Points /\ "leased" \notin Working \union Planning
  BY DEF Points, Working, Planning
<1>9. moved \in SessionRow /\ new \in SessionRow
  BY <1>5, <1>6, <1>8, RowWithAt, RowWithFence
<1>10. /\ new.at = "leased" /\ new.kind = row.kind /\ new.release = row.release
       /\ new.plan = row.plan /\ new.fence = fence
  BY <1>5, <1>6, <1>8, <1>9, RowWithAt, RowWithFence
<1>11. /\ session' \in [Sessions -> SessionRow \union {Idle}] /\ session'[y] = new
       /\ \A x \in Sessions \ {y} : session'[x] = session[x]
  BY <1>7, <1>9 DEF DeploymentInv, TypesOK
<1>12. /\ Kind(y)' = Kind(y) /\ Release(y)' = Release(y) /\ session'[y].plan = session[y].plan
       /\ session'[y].at = "leased" /\ session'[y].fence = op'.fence
  BY <1>3, <1>4, <1>10, <1>11 DEF Kind, Release
<1>13. TypesOK'
  BY <1>1, <1>2, <1>11 DEF DeploymentInv, TypesOK, OperationRow, cluster
<1>14. Quiet /\ ClusterStep /\ RecordStep
  BY <1>1 DEF cluster, Quiet, Jobs, ClusterStep, RecordStep
<1>15. PlansOK' /\ PlansStep
  BY <1>1, <1>14, PlansKept
<1>16. ASSUME NEW x \in Sessions, x # y, session[x] # Idle PROVE Steady(x)
  <2>1. session'[x] = session[x] /\ session[x].fence <= op.fence /\ session[x].fence \in Nat
    BY <1>11, <1>16, Awake DEF DeploymentInv, SessionOK, KnowsPlan, SessionRow
  <2>2. CASE ~op.lease /\ op'.fence = op.fence + 1
    BY <1>2, <2>1, <2>2 DEF Steady, HoldsLease, DeploymentInv, TypesOK, OperationRow
  <2>3. CASE KeepsLease
    BY <1>16, <2>1, <2>3, KeepsSteady
  <2>4. QED
    BY <1>2, <2>2, <2>3
<1>17. SessionOK(y)'
  <2>1. KnowsPlan(y) /\ VerifiedRuns(y)
    BY <1>1 DEF DeploymentInv, SessionOK
  <2>2. KnowsPlan(y)'
    BY <1>1, <1>2, <1>4, <1>8, <1>12, <2>1 DEF KnowsPlan, PlanOf, OperationRow
  <2>3. Kind(y) = "verify" => Runs(Release(y))
    <3>1. "acquiring" \in Planning
      BY DEF Planning
    <3>2. QED
      BY <1>1, <1>2, <2>1, <3>1 DEF KnowsPlan, VerifiedRuns
  <2>4. Runs(Release(y))' = Runs(Release(y))
    BY <1>1, <1>12 DEF Runs, cluster
  <2>5. VerifiedRuns(y)'
    BY <1>12, <2>3, <2>4 DEF VerifiedRuns
  <2>6. ChangesAsPlanned(y)' /\ RecordsStand(y)'
    BY <1>8, <1>12 DEF ChangesAsPlanned, RecordsStand
  <2>7. QED
    BY <2>2, <2>5, <2>6 DEF SessionOK
<1>18. QED
  BY <1>11, <1>13, <1>14, <1>15, <1>16, <1>17, OneActs

\* No verify command is between its look and its lease.
LEMMA LeaseExpiresInv ==
    ASSUME DeploymentInv, LeaseExpires
    PROVE  DeploymentInv'
<1>1. /\ UNCHANGED <<record, cluster, plans, current, session>>
      /\ op'.id = op.id /\ op'.fence = op.fence /\ op'.lease = FALSE /\ OperationRow'
      /\ \A x \in Sessions : session[x].at # "passed"
  BY DEF LeaseExpires, DeploymentInv, TypesOK, OperationRow
<1>2. Quiet /\ ClusterStep /\ RecordStep
  BY <1>1 DEF cluster, Quiet, Jobs, ClusterStep, RecordStep
<1>3. PlansOK' /\ PlansStep
  BY <1>1, <1>2, PlansKept
<1>4. TypesOK'
  BY <1>1 DEF DeploymentInv, TypesOK, cluster
<1>5. \A x \in Sessions : session[x] # Idle => Steady(x)
  BY <1>1 DEF Steady, HoldsLease, DeploymentInv, SessionOK, KnowsPlan
<1>6. QED
  BY <1>1, <1>2, <1>3, <1>4, <1>5, NobodyActs

\* A migration Job ends, and is there as before.
LEMMA MigrationEndsInv ==
    ASSUME DeploymentInv, NEW r \in Releases, MigrationEnds(r)
    PROVE  DeploymentInv'
<1>1. UNCHANGED <<store, layer, touched, plans, session>> /\ current' = {}
  BY DEF MigrationEnds
<1>2. /\ Jobs' = Jobs /\ job' \in [Releases -> {None, "running", "complete", "failed"}]
  <2>1. \A s \in Releases : (job[s] = None) = (job'[s] = None)
    BY DEF MigrationEnds, None, DeploymentInv, TypesOK
  <2>2. QED
    BY <2>1 DEF Jobs, MigrationEnds, DeploymentInv, TypesOK
<1>3. Quiet /\ ClusterStep /\ RecordStep /\ KeepsLease
  BY <1>1, <1>2 DEF store, Quiet, ClusterStep, RecordStep, KeepsLease
<1>4. PlansOK' /\ PlansStep
  BY <1>1, PlansKept
<1>5. TypesOK'
  BY <1>1, <1>2 DEF DeploymentInv, TypesOK, OperationRow, store
<1>6. \A x \in Sessions : session[x] # Idle => Steady(x)
  BY <1>1, <1>3, KeepsSteady
<1>7. QED
  BY <1>1, <1>3, <1>4, <1>5, <1>6, NobodyActs

\* What the plan needs is seen once more to be needed, or the records are read.
LEMMA BeginInv ==
    ASSUME DeploymentInv, NEW y \in Sessions, Begin(y)
    PROVE  DeploymentInv'
<1>1. /\ session[y] # Idle /\ session[y].at = "leased" /\ Kind(y) # "verify"
      /\ Observed(y) \in current /\ UNCHANGED <<store, cluster, plans, current>>
  BY NotIdle DEF Begin
<1>2. /\ session[y].plan \in DOMAIN plans /\ PlanOf(y).kind = Kind(y)
      /\ PlanOf(y).release = Release(y) /\ PlanOf(y).todo \in SUBSET Phases
      /\ session[y].seen \in Sights /\ record \in Sights
  <2>1. KnowsPlan(y)
    BY <1>1 DEF DeploymentInv, SessionOK
  <2>2. session[y].plan \in DOMAIN plans
    BY <1>1, <2>1 DEF KnowsPlan
  <2>3. PlanOf(y) \in PlanRow
    BY <2>2 DEF PlanOf, DeploymentInv, TypesOK
  <2>4. session[y].seen \in Sights
    BY <1>1, Awake DEF SessionRow
  <2>5. QED
    BY <1>1, <2>1, <2>2, <2>3, <2>4 DEF KnowsPlan, PlanRow, DeploymentInv, TypesOK, Sights
<1>3. PICK seen \in Sights :
        seen = (IF Kind(y) = "rollback" THEN record ELSE session[y].seen)
  BY <1>2
<1>4. PICK todo \in SUBSET Phases :
        todo = IF Kind(y) = "rollback" THEN Restoring
               ELSE PlanOf(y).todo \ (IF op.fence = session[y].fence THEN op.done ELSE {})
  <2>1. Restoring \in SUBSET Phases
    BY DEF Restoring, Phases, Layers
  <2>2. QED
    BY <1>2, <2>1
<1>5. session' = [session EXCEPT ![y].at = "working", ![y].seen = seen, ![y].todo = todo]
  BY <1>1, <1>3, <1>4 DEF Begin, Kind, DeploymentInv, TypesOK
<1>6. "working" \in Points \ {"passed"} /\ "working" \in Working
  BY DEF Points, Working
<1>7. Moves(y, "working") /\ session'[y].seen = seen
  BY <1>1, <1>5, <1>6, BeginMoves
<1>8. Quiet /\ ClusterStep /\ RecordStep /\ KeepsLease /\ TypesOK'
  BY <1>1, <1>7 DEF cluster, store, Quiet, Jobs, ClusterStep, RecordStep, KeepsLease,
                    DeploymentInv, TypesOK, OperationRow, Moves
<1>9. PlansOK' /\ PlansStep
  BY <1>1, <1>8, PlansKept
<1>10. Kind(y)' = Kind(y) /\ Release(y)' = Release(y) /\ PlanOf(y)' = PlanOf(y)
  BY <1>1, <1>7 DEF Moves, GoesOn, Kind, Release, PlanOf
<1>11. Untouched(y)
  <2>1. CASE PlanOf(y).first
    BY <2>1 DEF Untouched
  <2>2. CASE ~PlanOf(y).first
    <3>1. session[y].plan \in current
      BY <1>1, <2>2 DEF Observed
    <3>2. QED
      BY <1>2, <3>1 DEF DeploymentInv, PlansOK, Lasting, Untouched, AsPlanned, PlanOf
  <2>3. QED
    BY <2>1, <2>2
<1>12. Untouched(y)'
  <2>1. Lasting(Kind(y), Release(y))' = Lasting(Kind(y), Release(y))
    BY <1>8, <1>10, LastingStays DEF Quiet
  <2>2. QED
    BY <1>8, <1>10, <1>11, <2>1 DEF Untouched, AsPlanned, Lasting, Quiet, KeepsLease
<1>13. Kind(y) = "rollback" => SeenStands(y)'
  BY <1>1, <1>3, <1>7 DEF SeenStands, store
<1>14. QED
  BY <1>1, <1>6, <1>7, <1>8, <1>9, <1>12, <1>13, MoverInv
-----------------------------------------------------------------------------
(* Phases.                                                                 *)

\* What a phase applies is of its release, and what has been applied stays applied.
LEMMA PhaseChanges ==
    ASSUME DeploymentInv, NEW y \in Sessions, BeginPhase(y)
    PROVE  /\ ClusterStep /\ touched' \in {touched, op.fence}
           /\ current' = {} \/ (current' = current /\ Quiet)
<1>1. HoldsLease(y) /\ session[y].at = "working" /\ session[y].fence = op.fence
  BY DEF BeginPhase, HoldsLease
<1>2. session[y] # Idle /\ Kind(y) # "verify"
  BY <1>1, NotIdle DEF DeploymentInv, SessionOK, KnowsPlan, Working
<1>3. \A l \in Layers : layer[l] = Release(y) => layer'[l] = Release(y)
  BY DEF BeginPhase
<1>4. CASE UNCHANGED <<layer, job>>
  BY <1>4 DEF BeginPhase, Quiet, Jobs, ClusterStep
<1>5. CASE touched' = session[y].fence /\ current' = {}
  BY <1>1, <1>2, <1>3, <1>5 DEF Changes, ClusterStep
<1>6. QED
  BY <1>4, <1>5 DEF BeginPhase

LEMMA BeginPhaseInv ==
    ASSUME DeploymentInv, NEW y \in Sessions, BeginPhase(y)
    PROVE  DeploymentInv'
<1>1. /\ HoldsLease(y) /\ session[y].at = "working" /\ session[y] # Idle
      /\ UNCHANGED <<installed, record, plans>>
      /\ op' = [op EXCEPT !.lease = TRUE, !.done = op.done \ {Phase(y)}]
  BY NotIdle DEF BeginPhase
<1>2. KnowsPlan(y) /\ ChangesAsPlanned(y) /\ RecordsStand(y) /\ Kind(y) # "verify"
  BY <1>1 DEF DeploymentInv, SessionOK, KnowsPlan, Working
<1>3. KeepsLease /\ OperationRow' /\ RecordStep
  BY <1>1, HolderKeeps DEF RecordStep
<1>4. /\ ClusterStep /\ touched' \in {touched, op.fence}
      /\ current' = {} \/ (current' \subseteq current \union Sessions /\ Quiet)
  BY PhaseChanges
<1>5. PlansOK' /\ PlansStep
  BY <1>1, <1>4, PlansKept
<1>6. /\ touched' \in Nat /\ touched' <= op'.fence
      /\ job' \in [Releases -> {None, "running", "complete", "failed"}]
  <2>1. touched' \in Nat /\ touched' <= op'.fence
    BY <1>3, <1>4 DEF DeploymentInv, TypesOK, KeepsLease, OperationRow
  <2>2. job' = job \/ job' = [job EXCEPT ![Release(y)] = "running"]
    BY DEF BeginPhase
  <2>3. QED
    BY <2>1, <2>2 DEF DeploymentInv, TypesOK
<1>7. CASE End(y)
  <2>1. /\ session' \in [Sessions -> SessionRow \union {Idle}] /\ session'[y] = Idle
        /\ \A x \in Sessions \ {y} : session'[x] = session[x]
    BY <1>7 DEF End, DeploymentInv, TypesOK
  <2>2. TypesOK'
    BY <1>1, <1>3, <1>6, <2>1 DEF DeploymentInv, TypesOK
  <2>3. SessionOK(y)'
    BY <2>1 DEF SessionOK
  <2>4. \A x \in Sessions \ {y} : session'[x] = session[x] /\ (session[x] # Idle => Steady(x))
    BY <1>3, <2>1, KeepsSteady
  <2>5. QED
    BY <1>3, <1>4, <1>5, <2>2, <2>3, <2>4, OneActs
<1>8. CASE session' = [session EXCEPT ![y].at = "waiting", ![y].seen =
                         IF Phase(y) = "retirement" THEN Inventory ELSE @]
  <2>1. session[y].seen \in Sights /\ Inventory \in Sights
    <3>1. Jobs \in SUBSET Releases
      BY DEF Jobs
    <3>2. session[y].seen \in Sights
      BY <1>1, Awake DEF SessionRow
    <3>3. record.active \in Releases \union {None} /\ record.previous \in Releases \union {None}
      BY DEF DeploymentInv, TypesOK, Records
    <3> HIDE DEF Jobs
    <3>4. QED
      BY <3>1, <3>2, <3>3 DEF Inventory, Sights
  <2>2. PICK seen \in Sights :
          seen = (IF Phase(y) = "retirement" THEN Inventory ELSE session[y].seen)
    BY <2>1
  <2>3. session' = [session EXCEPT ![y].at = "waiting", ![y].seen = seen]
    BY <1>1, <1>8, <2>2 DEF DeploymentInv, TypesOK
  <2>4. "waiting" \in Points \ {"passed"} /\ "waiting" \in Working /\ "working" \in Working
    BY DEF Points, Working
  <2>5. /\ Moves(y, "waiting") /\ session'[y].todo = session[y].todo
        /\ session'[y].seen = seen
    BY <1>1, <2>3, <2>4, SeenMoves
  <2>6. TypesOK'
    BY <1>1, <1>3, <1>6, <2>5 DEF DeploymentInv, TypesOK, Moves
  <2>7. HoldsLease(y)' => Untouched(y)'
    <3>1. Untouched(y)
      BY <1>1, <1>2, <2>4 DEF ChangesAsPlanned
    <3>2. QED
      BY <1>1, <1>2, <1>3, <1>4, <1>5, <2>5, <3>1, LeaseHeld DEF Moves
  <2>8. Phase(y)' = Phase(y)
    BY <2>5 DEF Phase
  <2>9. Phase(y) = "retirement" => SeenStands(y)'
    BY <1>1, <2>2, <2>5 DEF Inventory, SeenStands
  <2>10. Kind(y) = "rollback" /\ Phase(y) # "retirement" => SeenStands(y)'
    <3>1. ASSUME Kind(y) = "rollback", Phase(y) # "retirement" PROVE SeenStands(y)'
      <4>1. SeenStands(y)
        BY <1>1, <1>2, <2>4, <3>1 DEF RecordsStand
      <4>2. Successor(y)' = Successor(y)
        BY <2>2, <2>5, <3>1 DEF Successor, Moves, GoesOn, Release
      <4>3. QED
        BY <1>1, <2>2, <2>5, <3>1, <4>1, <4>2 DEF SeenStands
    <3>2. QED
      BY <3>1
  <2>11. QED
    BY <1>2, <1>3, <1>4, <1>5, <2>4, <2>5, <2>6, <2>7, <2>8, <2>9, <2>10, MoverInv
<1>9. QED
  BY <1>7, <1>8 DEF BeginPhase

LEMMA RetireInv ==
    ASSUME DeploymentInv, NEW y \in Sessions, NEW r \in Releases, Retire(y, r)
    PROVE  DeploymentInv'
<1>1. /\ HoldsLease(y) /\ session[y].at = "waiting" /\ session[y] # Idle /\ Renew
      /\ session[y].fence = op.fence /\ touched' = op.fence /\ current' = {}
      /\ UNCHANGED <<installed, record, layer, plans, session>>
  BY NotIdle DEF Retire, HoldsLease
<1>2. Kind(y) # "verify"
  BY <1>1 DEF DeploymentInv, SessionOK, KnowsPlan, Working
<1>3. ClusterStep /\ RecordStep
  BY <1>1, <1>2 DEF Changes, ClusterStep, RecordStep
<1>4. KeepsLease /\ OperationRow'
  BY <1>1, HolderKeeps
<1>5. PlansOK' /\ PlansStep
  BY <1>1, PlansKept
<1>6. TypesOK'
  <2>1. job' = [job EXCEPT ![r] = None]
    BY DEF Retire
  <2>2. QED
    BY <1>1, <1>4, <2>1 DEF DeploymentInv, TypesOK, KeepsLease, OperationRow
<1>7. \A x \in Sessions : session[x] # Idle => Steady(x)
  BY <1>1, <1>4, KeepsSteady
<1>8. QED
  BY <1>1, <1>3, <1>5, <1>6, <1>7, NobodyActs

LEMMA FinishPhaseInv ==
    ASSUME DeploymentInv, NEW y \in Sessions, FinishPhase(y)
    PROVE  DeploymentInv'
<1>1. /\ HoldsLease(y) /\ session[y] # Idle
      /\ session[y].at = "waiting" \/ (session[y].at = "recorded" /\ Kind(y) = "apply")
      /\ UNCHANGED <<installed, record, cluster, plans, current>>
      /\ \E done : op' = [op EXCEPT !.lease = TRUE, !.done = done]
  BY NotIdle DEF FinishPhase
<1>2. PICK todo \in SUBSET Phases : todo = session[y].todo \ {Phase(y)}
  BY <1>1, Awake DEF SessionRow
<1>3. session' = [session EXCEPT ![y].at = "working", ![y].todo = todo]
  BY <1>1, <1>2 DEF FinishPhase, DeploymentInv, TypesOK
<1>4. /\ "working" \in Points \ {"passed"} /\ "working" \in Working
      /\ "waiting" \in Working
  BY DEF Points, Working
<1>5. Moves(y, "working") /\ session'[y].seen = session[y].seen
  BY <1>1, <1>3, <1>4, TodoMoves
<1>6. KeepsLease /\ OperationRow'
  BY <1>1, HolderKeeps
<1>7. Quiet /\ ClusterStep /\ RecordStep
  BY <1>1 DEF cluster, Quiet, Jobs, ClusterStep, RecordStep
<1>8. PlansOK' /\ PlansStep
  BY <1>1, <1>7, PlansKept
<1>9. TypesOK'
  BY <1>1, <1>5, <1>6 DEF DeploymentInv, TypesOK, cluster, Moves, KeepsLease
<1>10. Kind(y) # "verify" /\ Untouched(y) /\ (Kind(y) = "rollback" => SeenStands(y))
  BY <1>1, <1>4 DEF DeploymentInv, SessionOK, KnowsPlan, ChangesAsPlanned, RecordsStand
<1>11. HoldsLease(y)' => Untouched(y)' /\ (Kind(y) = "rollback" => SeenStands(y)')
  BY <1>1, <1>5, <1>7, <1>8, <1>10, LeaseHeld DEF Moves
<1>12. QED
  BY <1>4, <1>5, <1>6, <1>7, <1>8, <1>9, <1>10, <1>11, MoverInv
-----------------------------------------------------------------------------
(* Verification and the records.                                           *)

LEMMA VerifyPhaseInv ==
    ASSUME DeploymentInv, NEW y \in Sessions, VerifyPhase(y)
    PROVE  DeploymentInv'
<1>1. /\ session[y] # Idle /\ session[y].at = "waiting" /\ Runs(Release(y)) /\ Goto(y, "verified")
      /\ UNCHANGED <<store, cluster, plans, current>>
  BY NotIdle DEF VerifyPhase
<1>2. /\ "verified" \in Points \ {"passed"} /\ "verified" \in Working
      /\ "waiting" \in Working
  BY DEF Points, Working
<1>3. Moves(y, "verified") /\ session'[y].seen = session[y].seen
  BY <1>1, <1>2, GotoMoves
<1>4. Quiet /\ ClusterStep /\ RecordStep /\ KeepsLease /\ TypesOK'
  BY <1>1, <1>3 DEF cluster, store, Quiet, Jobs, ClusterStep, RecordStep, KeepsLease,
                    DeploymentInv, TypesOK, OperationRow, Moves
<1>5. PlansOK' /\ PlansStep
  BY <1>1, <1>4, PlansKept
<1>6. /\ Kind(y) # "verify"
      /\ HoldsLease(y) => Untouched(y) /\ (Kind(y) = "rollback" => SeenStands(y))
  BY <1>1, <1>2 DEF DeploymentInv, SessionOK, KnowsPlan, ChangesAsPlanned, RecordsStand
<1>7. HoldsLease(y) /\ HoldsLease(y)' =>
        /\ Runs(Release(y))' /\ Untouched(y)'
        /\ Kind(y) = "rollback" => SeenStands(y)'
  BY <1>1, <1>3, <1>4, <1>5, <1>6, LeaseHeld DEF Moves
<1>8. QED
  BY <1>2, <1>3, <1>4, <1>5, <1>6, <1>7, MoverInv

LEMMA ReadRecordsInv ==
    ASSUME DeploymentInv, NEW y \in Sessions, ReadRecords(y)
    PROVE  DeploymentInv'
<1>1. /\ session[y] # Idle /\ UNCHANGED <<installed, record, cluster, plans, current>>
      /\ \/ session[y].at = "verified" /\ HoldsLease(y) /\ Renew
         \/ session[y].at = "leased" /\ Kind(y) = "verify" /\ UNCHANGED op
  BY NotIdle DEF ReadRecords
<1>2. PICK seen \in Sights : seen = (IF Kind(y) = "rollback" THEN session[y].seen ELSE record)
  <2>1. session[y].seen \in Sights /\ record \in Sights
    BY <1>1, Awake DEF SessionRow, DeploymentInv, TypesOK, Sights
  <2>2. QED
    BY <2>1
<1>3. session' = [session EXCEPT ![y].at = "recording", ![y].seen = seen]
  BY <1>1, <1>2 DEF ReadRecords, Kind, DeploymentInv, TypesOK
<1>4. /\ "recording" \in Points \ {"passed"} /\ "recording" \notin Working \union Planning
      /\ "verified" \in Working
  BY DEF Points, Working, Planning
<1>5. Moves(y, "recording") /\ session'[y].seen = seen
  BY <1>1, <1>3, <1>4, SeenMoves
<1>6. KeepsLease /\ OperationRow'
  <2>1. CASE UNCHANGED op
    BY <2>1 DEF KeepsLease, OperationRow, DeploymentInv, TypesOK
  <2>2. QED
    BY <1>1, <2>1, HolderKeeps
<1>7. Quiet /\ ClusterStep /\ RecordStep
  BY <1>1 DEF cluster, Quiet, Jobs, ClusterStep, RecordStep
<1>8. PlansOK' /\ PlansStep
  BY <1>1, <1>7, PlansKept
<1>9. TypesOK'
  BY <1>1, <1>5, <1>6 DEF DeploymentInv, TypesOK, cluster, Moves, KeepsLease
<1>10. HoldsLease(y) =>
         /\ Runs(Release(y)) /\ (Kind(y) # "verify" => Untouched(y))
         /\ Kind(y) = "rollback" => SeenStands(y)
  BY <1>1, <1>4 DEF DeploymentInv, SessionOK, VerifiedRuns, ChangesAsPlanned, RecordsStand
<1>11. HoldsLease(y) /\ HoldsLease(y)' =>
         /\ Runs(Release(y))' /\ (Kind(y) # "verify" => Untouched(y)')
         /\ Kind(y) = "rollback" => SeenStands(y)'
  BY <1>1, <1>2, <1>5, <1>7, <1>8, <1>10, LeaseHeld DEF Moves
<1>12. Kind(y) # "rollback" => SeenStands(y)'
  BY <1>1, <1>2, <1>5 DEF SeenStands
<1>13. QED
  BY <1>4, <1>5, <1>6, <1>7, <1>8, <1>9, <1>11, <1>12, MoverInv

LEMMA MirrorInv ==
    ASSUME DeploymentInv, NEW y \in Sessions, MirrorRecords(y)
    PROVE  DeploymentInv'
<1>1. /\ session[y] # Idle /\ session[y].at = "recording" /\ HoldsLease(y)
      /\ record' = Successor(y) /\ Goto(y, "recorded")
      /\ UNCHANGED <<installed, op, cluster, plans, current>>
  BY NotIdle DEF MirrorRecords
<1>2. /\ "recorded" \in Points \ {"passed"} /\ "recorded" \notin Working \union Planning
  BY DEF Points, Working, Planning
<1>3. Moves(y, "recorded")
  BY <1>1, <1>2, GotoMoves
<1>4. Quiet /\ ClusterStep /\ RecordStep /\ KeepsLease
  BY <1>1 DEF cluster, Quiet, Jobs, ClusterStep, Writes, RecordStep, KeepsLease
<1>5. record' \in Records
  <2>1. Release(y) \in Releases /\ session[y].seen \in Sights
    BY <1>1, Awake DEF SessionRow, Release
  <2>2. /\ session[y].seen.active \in Releases \union {None}
        /\ session[y].seen.previous \in Releases \union {None}
    BY <2>1 DEF Sights, Records
  <2>3. QED
    BY <1>1, <2>1, <2>2 DEF Successor, Records
<1>6. PlansOK' /\ PlansStep
  BY <1>1, <1>4, PlansKept
<1>7. TypesOK'
  BY <1>1, <1>3, <1>5 DEF DeploymentInv, TypesOK, OperationRow, cluster, Moves
<1>8. Kind(y) # "verify" => Untouched(y)
  BY <1>1 DEF DeploymentInv, SessionOK, ChangesAsPlanned
<1>9. HoldsLease(y)' => (Kind(y) # "verify" => Untouched(y)')
  BY <1>1, <1>3, <1>4, <1>6, <1>8, LeaseHeld DEF Moves
<1>10. QED
  BY <1>2, <1>3, <1>4, <1>6, <1>7, <1>9, MoverInv
-----------------------------------------------------------------------------
(* Theorems.                                                               *)

LEMMA InitInv == Init => DeploymentInv
<1> SUFFICES ASSUME Init PROVE DeploymentInv
  OBVIOUS
<1>1. PICK active \in Releases \union {None}, previous \in Releases \union {None} :
        record = [active |-> active, previous |-> previous]
  BY DEF Init
<1>2. record \in Records
  BY <1>1 DEF Records
<1>3. /\ op = [id |-> <<>>, fence |-> 0, lease |-> FALSE, state |-> None, done |-> {}]
      /\ plans = <<>> /\ current = {} /\ touched = 0
      /\ session = [x \in Sessions |-> Idle]
  BY DEF Init
<1>4. OperationRow /\ op.fence = 0
  BY <1>3 DEF OperationRow
<1>5. TypesOK
  <2>1. job \in [Releases -> {None, "running", "complete", "failed"}]
    BY DEF Init
  <2>2. session \in [Sessions -> SessionRow \union {Idle}]
    BY <1>3
  <2>3. QED
    BY <1>2, <1>3, <1>4, <2>1, <2>2 DEF TypesOK
<1>6. PlansOK
  BY <1>3 DEF PlansOK
<1>7. \A x \in Sessions : SessionOK(x)
  BY <1>3 DEF SessionOK
<1>8. QED
  BY <1>5, <1>6, <1>7 DEF DeploymentInv

LEMMA StartsInv ==
    ASSUME DeploymentInv, NEW y \in Sessions,
           \/ \E n \in DOMAIN plans : StartApply(y, n) \/ StartRollback(y, n)
           \/ \E r \in Releases : VerifyCommand(y, r)
    PROVE  DeploymentInv'
<1>1. ASSUME NEW n \in DOMAIN plans
      PROVE  n \in Nat /\ plans[n].release \in Releases
  <2>1. plans[n] \in PlanRow /\ n \in Nat
    BY DEF DeploymentInv, TypesOK
  <2>2. QED
    BY <2>1 DEF PlanRow
<1>2. ASSUME NEW n \in DOMAIN plans, StartApply(y, n) \/ StartRollback(y, n)
      PROVE  DeploymentInv'
  <2>1. PICK r \in Releases : r = plans[n].release
    BY <1>1
  <2>2. PICK at \in Planning, kind \in {"apply", "rollback"} :
          /\ session[y] = Idle /\ plans[n].kind = kind
          /\ session' = [session EXCEPT ![y] = NewSession(kind, r, n, at)]
    BY <1>2, <2>1 DEF StartApply, StartRollback, Planning
  <2>3. at # "passed" /\ UNCHANGED <<store, cluster, plans, current>>
    BY <1>2 DEF Planning, StartApply, StartRollback
  <2>4. QED
    BY <1>1, <2>1, <2>2, <2>3, StartInv
<1>3. ASSUME NEW r \in Releases, VerifyCommand(y, r) PROVE DeploymentInv'
  BY <1>3, StartInv DEF VerifyCommand
<1>4. QED
  BY <1>2, <1>3

LEMMA EndsInv ==
    ASSUME DeploymentInv, NEW y \in Sessions,
           Stop(y) \/ Succeed(y) \/ RefuseRollback(y) \/ CompleteOperation(y)
    PROVE  DeploymentInv'
<1>1. CASE Stop(y) \/ Succeed(y)
  BY <1>1, EndInv DEF Stop, Succeed, store
<1>2. CASE RefuseRollback(y) \/ CompleteOperation(y)
  BY <1>2, EndInv DEF RefuseRollback, CompleteOperation, Complete
<1>3. QED
  BY <1>1, <1>2

(***************************************************************************)
(* DeploymentInv is inductive: a session that holds the lease goes by a    *)
(* plan, a verification and records that still say what is so, whoever     *)
(* shares the lease with it, and one that has lost it never holds it again.*)
(***************************************************************************)
THEOREM DeploymentInvariance == Spec => []DeploymentInv
<1>1. DeploymentInv /\ [Next]_vars => DeploymentInv'
  <2> SUFFICES ASSUME DeploymentInv, [Next]_vars PROVE DeploymentInv'
    OBVIOUS
  <2>1. CASE UNCHANGED vars
    <3>1. UNCHANGED <<op, record, layer, job, touched, plans, current, session>>
      BY <2>1 DEF vars, store, cluster
    <3>2. Quiet /\ ClusterStep /\ RecordStep /\ KeepsLease /\ TypesOK'
      BY <3>1 DEF Quiet, Jobs, ClusterStep, RecordStep, KeepsLease, DeploymentInv, TypesOK,
                  OperationRow
    <3>3. PlansOK' /\ PlansStep
      BY <3>1, <3>2, PlansKept
    <3>4. \A x \in Sessions : session[x] # Idle => Steady(x)
      BY <3>1, <3>2, KeepsSteady
    <3>5. QED
      BY <3>1, <3>2, <3>3, <3>4, NobodyActs
  <2>2. CASE \E r \in Releases : \/ \E kind \in {"apply", "rollback"} : MakePlan(kind, r)
                                 \/ MigrationEnds(r)
    BY <2>2, MakePlanInv, MigrationEndsInv
  <2>3. CASE LeaseExpires
    BY <2>3, LeaseExpiresInv
  <2>4. ASSUME NEW y \in Sessions,
               \/ \E n \in DOMAIN plans : StartApply(y, n) \/ StartRollback(y, n)
               \/ \E r \in Releases : VerifyCommand(y, r) \/ Retire(y, r)
               \/ Bootstrap(y) \/ Acquire(y) \/ Begin(y) \/ RefuseRollback(y)
               \/ BeginPhase(y) \/ FinishPhase(y) \/ Succeed(y) \/ VerifyPhase(y)
               \/ ReadRecords(y) \/ MirrorRecords(y) \/ CompleteOperation(y) \/ Stop(y)
        PROVE  DeploymentInv'
    BY <2>4, StartsInv, RetireInv, BootstrapInv, AcquireInv, BeginInv, EndsInv, BeginPhaseInv,
       FinishPhaseInv, VerifyPhaseInv, ReadRecordsInv, MirrorInv
  <2>5. QED
    BY <2>1, <2>2, <2>3, <2>4 DEF Next
<1>2. QED
  BY <1>1, InitInv, PTL DEF Spec

\* Who changes the records, and who the cluster.
LEMMA WhoChanges ==
    ASSUME DeploymentInv, [Next]_vars
    PROVE  /\ record' = record \/ \E y \in Sessions : MirrorRecords(y)
           /\ \/ UNCHANGED layer /\ Jobs' = Jobs
              \/ \E y \in Sessions : BeginPhase(y) \/ \E r \in Releases : Retire(y, r)
           /\ \/ \A r \in Releases : job[r] # None => job'[r] # None
              \/ \E y \in Sessions, r \in Releases : Retire(y, r)
<1>1. CASE UNCHANGED vars
  BY <1>1 DEF vars, store, cluster, Jobs
<1>2. ASSUME NEW r \in Releases, MigrationEnds(r)
      PROVE  /\ UNCHANGED <<record, layer>> /\ Jobs' = Jobs
             /\ \A s \in Releases : job[s] # None => job'[s] # None
  <2>1. UNCHANGED <<record, layer>>
    BY <1>2 DEF MigrationEnds, store
  <2>2. \A s \in Releases : (job[s] = None) = (job'[s] = None)
    BY <1>2 DEF MigrationEnds, None, DeploymentInv, TypesOK
  <2>3. QED
    BY <2>1, <2>2 DEF Jobs
<1>3. CASE LeaseExpires
  BY <1>3 DEF LeaseExpires, cluster, Jobs
<1>4. ASSUME NEW y \in Sessions,
             \/ \E n \in DOMAIN plans : StartApply(y, n) \/ StartRollback(y, n)
             \/ \E r \in Releases : VerifyCommand(y, r)
             \/ Bootstrap(y) \/ Acquire(y) \/ Begin(y) \/ RefuseRollback(y)
             \/ FinishPhase(y) \/ Succeed(y) \/ VerifyPhase(y)
             \/ ReadRecords(y) \/ CompleteOperation(y) \/ Stop(y)
      PROVE  UNCHANGED <<record, layer, job>>
  BY <1>4 DEF StartApply, StartRollback, VerifyCommand, Bootstrap, Acquire, Begin, RefuseRollback,
              FinishPhase, Succeed, VerifyPhase, ReadRecords, CompleteOperation, Stop, store, cluster
<1>5. ASSUME NEW y \in Sessions, MirrorRecords(y) PROVE UNCHANGED <<layer, job>>
  BY <1>5 DEF MirrorRecords, cluster
<1>6. ASSUME NEW y \in Sessions, BeginPhase(y)
      PROVE  UNCHANGED record /\ \A r \in Releases : job[r] # None => job'[r] # None
  BY <1>6 DEF BeginPhase, None, DeploymentInv, TypesOK
<1>7. ASSUME NEW y \in Sessions, NEW r \in Releases, Retire(y, r) PROVE UNCHANGED record
  BY <1>7 DEF Retire
<1>8. UNCHANGED job => Jobs' = Jobs
  BY DEF Jobs
<1>9. ASSUME NEW r \in Releases, NEW kind \in {"apply", "rollback"}, MakePlan(kind, r)
      PROVE  UNCHANGED <<record, layer, job>>
  BY <1>9 DEF MakePlan, store, cluster
<1>10. QED
  BY <1>1, <1>2, <1>3, <1>4, <1>5, <1>6, <1>7, <1>8, <1>9 DEF Next

(***************************************************************************)
(* Whenever a release record is written, by an apply, a rollback or a      *)
(* verify command and whatever other sessions do meanwhile, the cluster    *)
(* runs the release that becomes active, and the one it replaces is kept.  *)
(***************************************************************************)
THEOREM RecordsTellWhatRuns == Spec => RecordedIsRunning
<1>1. DeploymentInv /\ [Next]_vars =>
        (record' # record => Runs(record'.active) /\ record'.previous \in Retained)
  <2> SUFFICES ASSUME DeploymentInv, [Next]_vars, record' # record
               PROVE  Runs(record'.active) /\ record'.previous \in Retained
    OBVIOUS
  <2>1. PICK y \in Sessions : MirrorRecords(y)
    BY WhoChanges
  <2>2. /\ session[y] # Idle /\ session[y].at = "recording" /\ HoldsLease(y)
        /\ record' = Successor(y)
    BY <2>1, NotIdle DEF MirrorRecords
  <2>3. Runs(Release(y)) /\ SeenStands(y)
    BY <2>2 DEF DeploymentInv, SessionOK, VerifiedRuns, RecordsStand
  <2>4. record'.active = Release(y)
    BY <2>2 DEF Successor
  <2>5. record'.previous \in Retained
    BY <2>2, <2>3 DEF SeenStands, Successor, Retained
  <2>6. QED
    BY <2>3, <2>4, <2>5
<1>2. QED
  BY <1>1, DeploymentInvariance, PTL DEF Spec, RecordedIsRunning

(***************************************************************************)
(* No session changes the cluster after another operation has taken the    *)
(* lease, and the first change under a lease is made to the cluster as the *)
(* plan found it, for any number of sessions of any number of operations.  *)
(***************************************************************************)
THEOREM OperationsStayApart == Spec => OperationsDoNotMix
<1>1. DeploymentInv /\ [Next]_vars =>
        (Changed =>
           /\ touched' = op.fence
           /\ touched' # touched => \E x \in Sessions :
                /\ session[x] # Idle /\ session[x].fence = touched'
                /\ PlanOf(x).first \/ AsPlanned(x))
  <2> SUFFICES ASSUME DeploymentInv, [Next]_vars, Changed
               PROVE  /\ touched' = op.fence
                      /\ touched' # touched => \E x \in Sessions :
                           /\ session[x] # Idle /\ session[x].fence = touched'
                           /\ PlanOf(x).first \/ AsPlanned(x)
    OBVIOUS
  <2>1. PICK y \in Sessions : BeginPhase(y) \/ \E r \in Releases : Retire(y, r)
    BY WhoChanges DEF Changed, Jobs
  <2>2. /\ HoldsLease(y) /\ session[y].at \in {"working", "waiting"} /\ session[y] # Idle
        /\ session[y].fence = op.fence
    BY <2>1, NotIdle DEF BeginPhase, Retire, HoldsLease
  <2>3. touched' = op.fence
    <3>1. CASE BeginPhase(y)
      BY <2>2, <3>1 DEF BeginPhase, Changed, Jobs
    <3>2. CASE \E r \in Releases : Retire(y, r)
      BY <2>2, <3>2 DEF Retire
    <3>3. QED
      BY <2>1, <3>1, <3>2
  <2>4. Untouched(y)
    BY <2>2 DEF DeploymentInv, SessionOK, KnowsPlan, ChangesAsPlanned, Working
  <2>5. QED
    BY <2>2, <2>3, <2>4 DEF Untouched
<1>2. QED
  BY <1>1, DeploymentInvariance, PTL DEF Spec, OperationsDoNotMix

(***************************************************************************)
(* A retirement, although its plan is older than the records, deletes no   *)
(* Job of the active release or of the one kept for rollback, and none     *)
(* that runs.                                                              *)
(***************************************************************************)
THEOREM RollbackIsSpared == Spec => RetirementSparesRollback
<1>1. DeploymentInv /\ [Next]_vars =>
        \A r \in Releases : job[r] # None /\ job'[r] = None =>
          r \notin Retained /\ job[r] # "running"
  <2> SUFFICES ASSUME DeploymentInv, [Next]_vars, NEW r \in Releases, job[r] # None, job'[r] = None
               PROVE  r \notin Retained /\ job[r] # "running"
    OBVIOUS
  <2>1. PICK y \in Sessions, s \in Releases : Retire(y, s)
    BY WhoChanges
  <2>2. /\ HoldsLease(y) /\ session[y].at = "waiting" /\ session[y] # Idle
        /\ Phase(y) = "retirement" /\ MayRetire(y, s) /\ job' = [job EXCEPT ![s] = None]
    BY <2>1, NotIdle DEF Retire
  <2>3. r = s
    BY <2>2 DEF DeploymentInv, TypesOK
  <2>4. SeenStands(y)
    BY <2>2 DEF DeploymentInv, SessionOK, RecordsStand
  <2>5. session[y].seen.active = record.active /\ session[y].seen.previous = record.previous
    BY <2>2, <2>4 DEF SeenStands, MayRetire, Successor
  <2>6. QED
    BY <2>2, <2>3, <2>5 DEF MayRetire, Retained
<1>2. QED
  BY <1>1, DeploymentInvariance, PTL DEF Spec, RetirementSparesRollback
=============================================================================
