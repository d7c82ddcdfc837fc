------------------------- MODULE DeploymentControl -------------------------
(***************************************************************************)
(* How releases come to run on a Kubernetes installation: plans, the apply,*)
(* rollback and verify commands of the deployment CLI, and the control     *)
(* store in PostgreSQL through which their sessions keep out of each       *)
(* other's way: the operation row with its lease and fence, the phase      *)
(* journal and the two release records.                                    *)
(*                                                                         *)
(* A session checks its lease before each change of the cluster, and a     *)
(* check with the kubectl call that follows it is one step: the call is    *)
(* taken to be over before the lease just renewed is.  What a session waits*)
(* for takes any time.  A release names its rendered resources: a layer is *)
(* what one kubectl apply brings up to date, and of all resources only the *)
(* migration Job is named after its release.  All sessions run under one   *)
(* deployment principal, and the cluster is reconciled directly.           *)
(***************************************************************************)
EXTENDS Integers, Sequences, FiniteSets

CONSTANTS
    Releases, Sessions,
    MaxPlans,  \* bound: plans ever made
    MaxFences  \* bound: leases ever granted

ASSUME BoundsAssumption == MaxPlans \in Nat /\ MaxFences \in Nat
ASSUME SessionsAssumption == Sessions \intersect Nat = {}

VARIABLES
    installed, \* whether the control schema exists
    op,        \* shareslices_deployment_operation, with the phases its fence completed
    record,    \* shareslices_deployment_release_record
    layer,     \* the release whose resources each layer has
    job,       \* the migration Job of each release
    plans,     \* the plans made
    current,   \* the plans, and sessions that bootstrapped, whose observation still stands
    session,   \* what each session is doing
    touched    \* history: the fence under which the cluster was last changed

store   == <<installed, op, record>>
cluster == <<layer, job, touched>>
vars    == <<store, cluster, plans, current, session>>

None   == "none"
Mixed  == "mixed" \* an apply that stopped half-way
Layers == {"prerequisites", "private-runtime", "public-runtime"}
Order  == <<"preflight", "prerequisites", "migration", "private-runtime", "public-runtime",
            "verification", "retirement">>

Idle == [at |-> "idle"]

\* A first installation, or one that has been through a release or two.
Init ==
    /\ \E active, previous \in Releases \union {None} :
         /\ active = None => previous = None
         /\ active # None => active # previous
         /\ installed = (active # None)
         /\ record = [active |-> active, previous |-> previous]
         /\ layer = [l \in Layers |-> active]
         /\ job = [r \in Releases |-> IF r \in {active, previous} THEN "complete" ELSE None]
    /\ op = [id |-> <<>>, fence |-> 0, lease |-> FALSE, state |-> None, done |-> {}]
    /\ plans = <<>> /\ current = {} /\ touched = 0
    /\ session = [x \in Sessions |-> Idle]
-----------------------------------------------------------------------------
(* Plans. *)

Retained      == {record.active, record.previous}
Jobs          == {r \in Releases : job[r] # None}
Superseded(r) == Jobs \ ({r} \union Retained)
Runs(r)       == \A l \in Layers : layer[l] = r

\* The phases with an action to execute: a rollback leaves Jobs and the records alone.
Needed(kind, r) ==
    LET layers == {l \in Layers : layer[l] # r} IN
    IF kind = "rollback" THEN layers
    ELSE layers \union {"verification"} \union {p \in {"migration"} : r \notin Jobs}
           \union {p \in {"retirement"} : Superseded(r) # {}}

\* A plan of what was observed; one that observes the same again is the same plan.
MakePlan(kind, r) ==
    LET plan == [kind |-> kind, release |-> r, first |-> ~installed,
                 todo |-> Needed(kind, r), retire |-> Superseded(r)] IN
    /\ Len(plans) < MaxPlans
    /\ kind = "rollback" => r = record.previous
    /\ \A n \in current \intersect DOMAIN plans : plans[n] # plan
    /\ plans' = Append(plans, plan)
    /\ current' = current \union {Len(plans) + 1}
    /\ UNCHANGED <<store, cluster, session>>
-----------------------------------------------------------------------------
(* The operation lease. *)

Goto(x, at)  == session' = [session EXCEPT ![x].at = at]
End(x)       == session' = [session EXCEPT ![x] = Idle]
Kind(x)      == session[x].kind
Release(x)   == session[x].release
PlanOf(x)    == plans[session[x].plan]
Observed(x)  == IF PlanOf(x).first THEN x ELSE session[x].plan

\* An operation's id: the digest of a plan to apply, else the command and its release.
Id(x) == <<Kind(x), IF Kind(x) = "apply" THEN session[x].plan ELSE Release(x)>>

HoldsLease(x) ==
    /\ op.id = Id(x) /\ op.fence = session[x].fence
    /\ op.state = "active" /\ op.lease

\* lease_expires_at is moved, so that the lease has not run out.
Renew == op' = [op EXCEPT !.lease = TRUE]

\* acquireOperationLease: a new fence once the last lease is over, whatever became of it.
Acquire(x) ==
    /\ session[x].at \in {"acquiring", "passed"}
    /\ \/ /\ ~op.lease /\ op.fence < MaxFences
          /\ op' = [id |-> Id(x), fence |-> op.fence + 1, lease |-> TRUE,
                    state |-> "active", done |-> {}]
       \/ /\ op.lease /\ op.id = Id(x) /\ op.state = "active"
          /\ Renew
    /\ session' = [session EXCEPT ![x].at = "leased", ![x].fence = op'.fence]
    /\ UNCHANGED <<installed, record, cluster, plans, current>>

\* The operation is over and the control revision moves on; its lease runs out by itself.
Complete(x) ==
    /\ HoldsLease(x)
    /\ op' = [op EXCEPT !.state = "completed"]
    /\ current' = {}
    /\ End(x)

\* The verify command has its lease within less time than a lease lasts, so one that
\* runs out between its look and its lease may as well have run out before the look.
LeaseExpires ==
    /\ op.lease
    /\ \A x \in Sessions : session[x].at # "passed"
    /\ op' = [op EXCEPT !.lease = FALSE]
    /\ UNCHANGED <<installed, record, cluster, plans, current, session>>

\* The process stops, an error ends it, or it is refused: no row says so in time.
Stop(x) ==
    /\ session[x] # Idle /\ End(x)
    /\ UNCHANGED <<store, cluster, plans, current>>
-----------------------------------------------------------------------------
(* Apply and rollback. *)

NewSession(kind, r, n, at) ==
    [at |-> at, kind |-> kind, release |-> r, plan |-> n, fence |-> 0, todo |-> {},
     seen |-> [active |-> None, previous |-> None]]

\* A plan may be handed to any number of sessions.
StartApply(x, n) ==
    /\ session[x] = Idle /\ plans[n].kind = "apply"
    /\ session' = [session EXCEPT ![x] = NewSession("apply", plans[n].release, n,
                     IF plans[n].first THEN "bootstrapping" ELSE "acquiring")]
    /\ UNCHANGED <<store, cluster, plans, current>>

\* The control schema is created, or found; what is observed then replaces the plan's observation.
Bootstrap(x) ==
    /\ session[x].at = "bootstrapping" /\ Goto(x, "acquiring")
    /\ installed' = TRUE
    /\ current' = (IF installed THEN current ELSE {}) \union {x}
    /\ UNCHANGED <<op, record, cluster, plans>>

StartRollback(x, n) ==
    /\ session[x] = Idle /\ plans[n].kind = "rollback"
    /\ record.previous = plans[n].release /\ n \in current
    /\ session' = [session EXCEPT ![x] =
                     NewSession("rollback", plans[n].release, n, "acquiring")]
    /\ UNCHANGED <<store, cluster, plans, current>>

Restoring == {"preflight", "private-runtime", "public-runtime", "verification"}

\* Mutant: the target is not observed again under the lease.
BeginUnobserved(x) ==
    /\ session[x].at = "leased" /\ Kind(x) # "verify"
    /\ Kind(x) = "rollback" => record.previous = Release(x)
    /\ session' = [session EXCEPT ![x].at = "working",
                     ![x].seen = IF Kind(x) = "rollback" THEN record ELSE @,
                     ![x].todo = IF Kind(x) = "rollback" THEN Restoring
                       ELSE PlanOf(x).todo \ (IF op.fence = session[x].fence THEN op.done ELSE {})]
    /\ UNCHANGED <<store, cluster, plans, current>>

\* Under the lease the target is observed again: it must be what the plan was made from.
Begin(x) ==
    /\ session[x].at = "leased" /\ Kind(x) # "verify"
    /\ Observed(x) \in current
    /\ Kind(x) = "rollback" => record.previous = Release(x)
    /\ session' = [session EXCEPT ![x].at = "working",
                     ![x].seen = IF Kind(x) = "rollback" THEN record ELSE @,
                     ![x].todo = IF Kind(x) = "rollback" THEN Restoring
                       ELSE PlanOf(x).todo \ (IF op.fence = session[x].fence THEN op.done ELSE {})]
    /\ UNCHANGED <<store, cluster, plans, current>>

\* A rollback that finds its plan stale, or the release incompatible or out of reach.
RefuseRollback(x) ==
    /\ session[x] # Idle /\ Kind(x) = "rollback"
    /\ \/ /\ session[x].at = "leased"
          /\ (session[x].plan \notin current \/ record.previous # Release(x))
       \/ session[x].at = "working" /\ session[x].todo = Restoring \ {"preflight"}
    /\ Complete(x)
    /\ UNCHANGED <<installed, record, cluster, plans>>

Phase(x) == Order[CHOOSE i \in DOMAIN Order :
              /\ Order[i] \in session[x].todo
              /\ \A k \in 1 .. (i - 1) : Order[k] \notin session[x].todo]

\* What a phase applies: a rollback restores prerequisites and workloads together.
Applied(x) ==
    IF Kind(x) = "rollback" /\ Phase(x) = "private-runtime"
    THEN {"prerequisites", "private-runtime"} ELSE Layers \intersect {Phase(x)}

\* What a retirement goes by.
Inventory == [active |-> record.active, previous |-> record.previous, jobs |-> Jobs]

\* kubectl applies a phase, if it has resources, and the wait for them begins.
BeginPhase(x) ==
    /\ session[x].at = "working" /\ session[x].todo # {} /\ HoldsLease(x)
    /\ op' = [op EXCEPT !.lease = TRUE, !.done = @ \ {Phase(x)}]
    /\ \E done \in BOOLEAN :
         /\ layer' = [l \in Layers |->
              IF l \in Applied(x) /\ layer[l] # Release(x)
              THEN IF done THEN Release(x) ELSE Mixed ELSE layer[l]]
         /\ job' = IF Phase(x) = "migration" /\ Release(x) \notin Jobs
                   THEN [job EXCEPT ![Release(x)] = "running"] ELSE job
         /\ done = FALSE => layer' # layer
         /\ IF done
            THEN session' = [session EXCEPT ![x].at = "waiting", ![x].seen =
                  IF Phase(x) = "retirement" THEN Inventory ELSE @]
            ELSE End(x)
    /\ IF <<layer, job>>' = <<layer, job>> THEN UNCHANGED <<touched, current>>
       ELSE touched' = session[x].fence /\ current' = {}
    /\ UNCHANGED <<installed, record, plans>>

\* The migration Job ends, and its status is a change an observation tells.
MigrationEnds(r) ==
    /\ job[r] = "running"
    /\ \E outcome \in {"complete", "failed"} : job' = [job EXCEPT ![r] = outcome]
    /\ current' = {}
    /\ UNCHANGED <<store, layer, touched, plans, session>>

\* Mutant: retirement trusts the plan and does not look at the release records again.
MayRetireAsPlanned(x, r) == r \in PlanOf(x).retire /\ job[r] \notin {None, "running"}

MayRetire(x, r) ==
    /\ r \in PlanOf(x).retire /\ job[r] \notin {None, "running"}
    /\ session[x].seen.active = Release(x) /\ r \in session[x].seen.jobs
    /\ r \notin {session[x].seen.active, session[x].seen.previous}

Retire(x, r) ==
    /\ session[x].at = "waiting" /\ Phase(x) = "retirement"
    /\ MayRetire(x, r)
    /\ HoldsLease(x) /\ Renew
    /\ job' = [job EXCEPT ![r] = None]
    /\ touched' = session[x].fence /\ current' = {}
    /\ UNCHANGED <<installed, record, layer, plans, session>>

\* What the phase waits for has come about.
Awaited(x) ==
    CASE Phase(x) = "migration"    -> job[Release(x)] = "complete"
      [] Phase(x) = "verification" -> FALSE
      [] Phase(x) = "retirement"   -> /\ session[x].seen.active = Release(x)
                                      /\ PlanOf(x).retire \subseteq session[x].seen.jobs \ Jobs
      [] OTHER                     -> TRUE

FinishPhase(x) ==
    /\ \/ session[x].at = "waiting" /\ Awaited(x)
       \/ session[x].at = "recorded" /\ Kind(x) = "apply"
    /\ HoldsLease(x)
    /\ op' = [op EXCEPT !.lease = TRUE, !.done =
                IF Kind(x) = "apply" THEN @ \union {Phase(x)} ELSE @]
    /\ session' = [session EXCEPT ![x].at = "working", ![x].todo = @ \ {Phase(x)}]
    /\ UNCHANGED <<installed, record, cluster, plans, current>>

\* Nothing is left to do, and an applied operation stays active until its lease runs out.
Succeed(x) ==
    /\ session[x].at = "working" /\ session[x].todo = {} /\ Kind(x) = "apply"
    /\ End(x)
    /\ UNCHANGED <<store, cluster, plans, current>>
-----------------------------------------------------------------------------
(* Verification and the release records. *)

\* Every resource of the release is observed as rendered.
VerifyPhase(x) ==
    /\ session[x].at = "waiting" /\ Phase(x) = "verification"
    /\ Runs(Release(x))
    /\ Kind(x) = "apply" => Release(x) \in Jobs
    /\ Goto(x, "verified")
    /\ UNCHANGED <<store, cluster, plans, current>>

\* The verify command looks before it takes the lease.
VerifyCommand(x, r) ==
    /\ session[x] = Idle /\ installed /\ Runs(r) /\ r \in Jobs
    /\ session' = [session EXCEPT ![x] = NewSession("verify", r, 0, "passed")]
    /\ UNCHANGED <<store, cluster, plans, current>>

\* The records are read: by a rollback when it began, by the others now.
ReadRecords(x) ==
    /\ \/ session[x].at = "verified" /\ HoldsLease(x) /\ Renew
       \/ session[x].at = "leased" /\ Kind(x) = "verify" /\ UNCHANGED op
    /\ session' = [session EXCEPT ![x].at = "recording", ![x].seen =
                     IF Kind(x) = "rollback" THEN @ ELSE record]
    /\ UNCHANGED <<installed, record, cluster, plans, current>>

\* The release becomes active, and what was active before it the previous one.
Successor(x) ==
    LET seen == session[x].seen IN
    [active   |-> Release(x),
     previous |-> IF seen.active = Release(x) THEN seen.previous ELSE seen.active]

\* Mutant: any session that was verified may write the records.
MirrorUnfenced(x) ==
    /\ session[x].at = "recording"
    /\ record' = Successor(x)
    /\ Goto(x, "recorded")
    /\ UNCHANGED <<installed, op, cluster, plans, current>>

MirrorRecords(x) ==
    /\ session[x].at = "recording" /\ HoldsLease(x)
    /\ record' = Successor(x)
    /\ Goto(x, "recorded")
    /\ UNCHANGED <<installed, op, cluster, plans, current>>

CompleteOperation(x) ==
    /\ session[x].at = "recorded" /\ Kind(x) # "apply"
    /\ Complete(x)
    /\ UNCHANGED <<installed, record, cluster, plans>>
-----------------------------------------------------------------------------
Next ==
    \/ \E r \in Releases : \E kind \in {"apply", "rollback"} : MakePlan(kind, r)
    \/ \E x \in Sessions :
         \/ \E n \in DOMAIN plans : StartApply(x, n) \/ StartRollback(x, n)
         \/ \E r \in Releases : VerifyCommand(x, r) \/ Retire(x, r)
         \/ Bootstrap(x) \/ Acquire(x) \/ Begin(x) \/ RefuseRollback(x)
         \/ BeginPhase(x) \/ FinishPhase(x) \/ Succeed(x) \/ VerifyPhase(x)
         \/ ReadRecords(x) \/ MirrorRecords(x) \/ CompleteOperation(x) \/ Stop(x)
    \/ \E r \in Releases : MigrationEnds(r)
    \/ LeaseExpires

Spec == Init /\ [][Next]_vars
-----------------------------------------------------------------------------
(* What a release record says was so when it was written: the release that *)
(* becomes active is the one all layers run, and the one it replaces is    *)
(* kept as the rollback candidate, though verification looks at the cluster*)
(* before the record is written and the verify command looks before it even*)
(* has the lease.                                                          *)
RecordedIsRunning ==
    [][record' # record => Runs(record'.active) /\ record'.previous \in Retained]_vars

(* No operation changes the cluster after another one has taken the lease, *)
(* and one that begins to change it finds what its plan found to be needed,*)
(* though the drift check came before. But for a first installation, whose *)
(* plan is not compared with anything, and Jobs to retire, found by the    *)
(* records, which the observed revision leaves out.                        *)
Changed == layer' # layer \/ {r \in Releases : job'[r] # None} # Jobs
AsPlanned(x) ==
    PlanOf(x).todo \ {"retirement"} = Needed(Kind(x), Release(x)) \ {"retirement"}
OperationsDoNotMix ==
    [][Changed =>
         /\ touched' = op.fence
         /\ touched' # touched => \E x \in Sessions :
              /\ session[x] # Idle /\ session[x].fence = touched'
              /\ PlanOf(x).first \/ AsPlanned(x)]_vars

(* Retirement never deletes a Job of a release that is recorded active or  *)
(* kept for rollback, nor one that runs, though the plan that names the    *)
(* Jobs to delete is older than the records.                               *)
RetirementSparesRollback ==
    [][\A r \in Releases : job[r] # None /\ job'[r] = None =>
         r \notin Retained /\ job[r] # "running"]_vars
=============================================================================
