------------------------ MODULE CloudflareDispatch ------------------------
(***************************************************************************)
(* How a durable job comes to run on Cloudflare: the dispatch outbox, the  *)
(* scheduled invocations that recover leases and wakes and drain it, the   *)
(* Queue, its consumers, the Container slots, and the execution grants of  *)
(* the thumbnail lane, up to the commit of a thumbnail and the deletion    *)
(* of what it shows.                                                       *)
(*                                                                         *)
(* A row's wake is named by the fence of the claim that generated it.  The *)
(* Queue delivers at least once in any order: a message stays until it is  *)
(* acknowledged, two consumers may have it, and it may be lost (retries    *)
(* run out).  Time is nondeterminism; what a clock would seldom do (a      *)
(* publishing lease that runs out on a live invocation, a wake taken for   *)
(* lost while it is on its way) is a fault, and there are MaxFaults.  What *)
(* a processing job's run does is module ProcessingJob; here it ends, or   *)
(* asks for another attempt.                                               *)
(***************************************************************************)
EXTENDS Integers, FiniteSets

CONSTANTS
    Thumbnails, Processing, \* durable jobs of the two Container lanes
    Slots, SlotOf,          \* the stable slot each job is hashed to
    Invocations, Consumers, \* scheduled invocations, Queue consumers
    MaxAttempts,            \* max_attempts of a job
    MaxJobs,                \* bound: jobs ever inserted
    MaxFaults               \* bound: faults

ASSUME DispatchAssumption ==
    /\ MaxAttempts \in Nat \ {0} /\ MaxJobs \in Nat /\ MaxFaults \in Nat
    /\ Thumbnails \intersect Processing = {}
    /\ SlotOf \in [Thumbnails \union Processing -> Slots]
    /\ \A t \in Thumbnails, p \in Processing : SlotOf[t] # SlotOf[p]

VARIABLES
    job,        \* durable jobs: state, due, attempt_count, lease; of a thumbnail job also its
                \* last attempt, the Version it captures and the thumbnail of its bundle
    grants,     \* unrevoked execution grants of each thumbnail job
    outbox,     \* cloudflare_job_dispatch_outbox
    handoffs,   \* cloudflare_container_handoff
    queue,      \* messages not yet acknowledged
    invocation, \* what each scheduled invocation is doing
    consumer,   \* what each consumer is doing with which message
    slot,       \* the Container of each slot
    faults

jobs     == <<job, grants>>
dispatch == <<outbox, handoffs, queue>>
actors   == <<invocation, consumer, slot>>
vars     == <<jobs, dispatch, actors, faults>>

Jobs  == Thumbnails \union Processing
None  == 0
Off   == [at |-> "off"]
Quiet == UNCHANGED faults
Fault == faults < MaxFaults /\ faults' = faults + 1

Init ==
    /\ job = [j \in Jobs |-> [state |-> "none", due |-> TRUE, attempt |-> 0,
                              lease |-> None, live |-> FALSE, issued |-> 0, output |-> FALSE,
                              attempting |-> FALSE, capture |-> FALSE,
                              version |-> FALSE, thumbnail |-> None]]
    /\ grants = [j \in Thumbnails |-> {}]
    /\ outbox = [j \in Jobs |-> [state |-> "none", wake |-> None, fence |-> 0]]
    /\ handoffs = {} /\ queue = {}
    /\ invocation = [i \in Invocations |-> Off]
    /\ consumer = [c \in Consumers |-> Off]
    /\ slot = [s \in Slots |-> Off]
    /\ faults = 0

\* A job is inserted and the trigger enqueue_cloudflare_job_dispatch_outbox gives it its row.
\* A thumbnail job asked for by a Gallery cover may have no Version of its renderer revision.
Inserted == {j \in Jobs : job[j].state # "none"}

Insert(j) ==
    /\ j \notin Inserted /\ Cardinality(Inserted) < MaxJobs
    /\ \E version \in IF j \in Thumbnails THEN BOOLEAN ELSE {TRUE} :
          job' = [job EXCEPT ![j] = [@ EXCEPT !.state = "queued", !.version = version]]
    /\ outbox' = [outbox EXCEPT ![j].state = "pending"]
    /\ UNCHANGED <<grants, handoffs, queue, actors>> /\ Quiet

Ended(j) == job[j].state \in {"completed", "failed", "cancelled", "removed"}

Message(j, w)       == [job |-> j, wake |-> w]
PublishedAs(j, w)   == outbox[j].state = "published" /\ outbox[j].wake = w
Live(j)             == job[j].state = "running" /\ job[j].live
-----------------------------------------------------------------------------
(* Scheduled invocations. *)

Goto(i, state) == invocation' = [invocation EXCEPT ![i] = state]
At(phase)      == [at |-> phase]

Expired == {j \in Jobs : job[j].state = "running" /\ ~job[j].live}

\* The job leaves its state and its last attempt is over.  A job that is over itself asks
\* for no Version.
Over(j, state)    == [job[j] EXCEPT !.state = state, !.lease = None, !.live = FALSE, !.issued = 0,
                                    !.output = FALSE, !.attempting = FALSE, !.capture = FALSE,
                                    !.version = @ /\ state = "queued"]
OutOfAttempts(j)  == job[j].attempt >= MaxAttempts

\* Mutant: the wake is left in the row.
RequeuedKeepingWake(row) ==
    IF row.state = "published" THEN [row EXCEPT !.state = "pending"] ELSE row

\* The triggers of running -> queued: a published row is to be published anew.
Requeued(row) ==
    IF row.state = "published" THEN [row EXCEPT !.state = "pending", !.wake = None] ELSE row

\* Mutant: the recovery fails the attempt and leaves its grant.
SurvivingRecovery(j) == grants[j]

Surviving(j) == IF j \in Expired THEN {} ELSE grants[j]

\* An invocation the gate accepts; its first two transactions recover the leases of
\* the two lanes, which share no row, and are one step.
RecoverLeases(i) ==
    /\ invocation[i] = Off /\ \E j \in Inserted : ~Ended(j)
    /\ Goto(i, At("wakes"))
    /\ job' = [j \in Jobs |->
            IF j \in Expired THEN Over(j, IF OutOfAttempts(j) THEN "failed" ELSE "queued")
                             ELSE job[j]]
    /\ outbox' = [j \in Jobs |-> IF j \in Expired /\ ~OutOfAttempts(j)
                                 THEN Requeued(outbox[j]) ELSE outbox[j]]
    /\ grants' = [j \in Thumbnails |-> Surviving(j)]
    /\ UNCHANGED <<handoffs, queue, consumer, slot>> /\ Quiet

\* Mutant: a wake that was handed off is not lost.
UnobservedUnhanded(j) ==
    /\ outbox[j].state = "published" /\ job[j].state = "queued" /\ job[j].due
    /\ \A h \in handoffs : h.job # j \/ h.wake # outbox[j].wake

\* recoverLostCloudflareJobWakes: published and the job still waits for a claim.
Unobserved(j) == outbox[j].state = "published" /\ job[j].state = "queued" /\ job[j].due

\* No message of the row is on its way, and no Container is up that could take the job.
Lost(j) == Message(j, outbox[j].wake) \notin queue /\ slot[SlotOf[j]] = Off

RecoverWakes(i) ==
    /\ invocation[i] = At("wakes") /\ Goto(i, At("drain"))
    /\ \E early \in SUBSET {j \in Jobs : Unobserved(j) /\ ~Lost(j)} :
        /\ faults + Cardinality(early) <= MaxFaults
        /\ faults' = faults + Cardinality(early)
        /\ outbox' = [j \in Jobs |-> IF Unobserved(j) /\ (Lost(j) \/ j \in early)
                                     THEN Requeued(outbox[j]) ELSE outbox[j]]
    /\ UNCHANGED <<jobs, handoffs, queue, consumer, slot>>

Claimants(j) == {i \in Invocations : invocation[i].at \in {"send", "sent", "unsent"}
                                       /\ invocation[i].job = j
                                       /\ invocation[i].fence = outbox[j].fence}

\* drainCloudflareJobOutbox begins: publishing leases that have run out are returned.
ReturnExpired(i) ==
    /\ invocation[i] = At("drain") /\ Goto(i, At("claim"))
    /\ \E late \in SUBSET {j \in Jobs : outbox[j].state = "publishing" /\ Claimants(j) # {}} :
        /\ faults + Cardinality(late) <= MaxFaults
        /\ faults' = faults + Cardinality(late)
        /\ outbox' = [j \in Jobs |->
                IF outbox[j].state = "publishing" /\ (Claimants(j) = {} \/ j \in late)
                THEN [outbox[j] EXCEPT !.state = "pending"] ELSE outbox[j]]
    /\ UNCHANGED <<jobs, handoffs, queue, consumer, slot>>

\* A row that was published under an unknown outcome keeps its wake.
WakeOf(row) == IF row.wake = None THEN row.fence + 1 ELSE row.wake

Claim(i, j) ==
    /\ invocation[i] = At("claim") /\ outbox[j].state = "pending"
    /\ outbox' = [outbox EXCEPT ![j] = [state |-> "publishing", wake |-> WakeOf(@),
                                        fence |-> @.fence + 1]]
    /\ Goto(i, [at |-> "send", job |-> j, wake |-> WakeOf(outbox[j]),
                fence |-> outbox[j].fence + 1])
    /\ UNCHANGED <<jobs, handoffs, queue, consumer, slot>> /\ Quiet

Drained(i) ==
    /\ invocation[i] = At("claim") /\ \A j \in Jobs : outbox[j].state # "pending"
    /\ Goto(i, Off)
    /\ UNCHANGED <<jobs, dispatch, consumer, slot>> /\ Quiet

Sends(i) ==
    queue' = queue \union {Message(invocation[i].job, invocation[i].wake)}

Send(i) ==
    /\ invocation[i].at = "send" /\ Sends(i)
    /\ Goto(i, [invocation[i] EXCEPT !.at = "sent"])
    /\ UNCHANGED <<jobs, outbox, handoffs, consumer, slot>> /\ Quiet

\* queue.send raises; the message may have been accepted all the same.
SendFails(i) ==
    /\ invocation[i].at = "send" /\ (Sends(i) \/ UNCHANGED queue) /\ Fault
    /\ Goto(i, [invocation[i] EXCEPT !.at = "unsent"])
    /\ UNCHANGED <<jobs, outbox, handoffs, consumer, slot>>

\* Both outcomes are fenced by state, wake and fence; a lost fence ends the invocation.
HoldsClaim(i) ==
    LET row == outbox[invocation[i].job]
    IN  row = [state |-> "publishing", wake |-> invocation[i].wake,
               fence |-> invocation[i].fence]

Settle(i) ==
    /\ invocation[i].at \in {"sent", "unsent"}
    /\ IF HoldsClaim(i)
       THEN /\ outbox' = [outbox EXCEPT ![invocation[i].job].state =
                              IF invocation[i].at = "sent" THEN "published" ELSE "pending"]
            /\ Goto(i, At("claim"))
       ELSE UNCHANGED outbox /\ Goto(i, Off)
    /\ UNCHANGED <<jobs, handoffs, queue, consumer, slot>> /\ Quiet

InvocationCrashes(i) ==
    /\ invocation[i] # Off /\ Fault /\ Goto(i, Off)
    /\ UNCHANGED <<jobs, dispatch, consumer, slot>>
-----------------------------------------------------------------------------
(* The Queue and its consumers. *)

Become(c, state) == consumer' = [consumer EXCEPT ![c] = state]
Drops(c)         == Become(c, Off) \* message.retry: it stays in the Queue

Lose(m) ==
    /\ m \in queue /\ Fault /\ queue' = queue \ {m}
    /\ UNCHANGED <<jobs, outbox, handoffs, actors>>

\* authorizeWake.  A wake refused is retried: nothing has changed.
Authorize(c, m) ==
    /\ consumer[c] = Off /\ m \in queue /\ PublishedAs(m.job, m.wake)
    /\ Become(c, [at |-> "authorized", job |-> m.job, wake |-> m.wake,
                  fence |-> outbox[m.job].fence, attempt |-> None, serial |-> None])
    /\ UNCHANGED <<jobs, dispatch, invocation, slot>> /\ Quiet

Thumbnailing(c) == consumer[c].at = "authorized" /\ consumer[c].job \in Thumbnails

Reuses(j, w)     == job[j].state = "running" /\ job[j].lease = w
Claimable(j)     == job[j].state = "queued" /\ job[j].due /\ ~OutOfAttempts(j)

\* A claim needs a ready Version of the job's bundle, owner and renderer revision.
Preparable(j)    == Claimable(j) /\ job[j].version

\* A grant of the attempt for the Container; earlier ones are revoked.
Grants(c, row) ==
    LET j == consumer[c].job
        n == row.issued + 1
    IN  /\ job' = [job EXCEPT ![j] = [row EXCEPT !.issued = n]]
        /\ grants' = [grants EXCEPT ![j] = {g \in @ : g.attempt # row.attempt}
                \union {[attempt |-> row.attempt, serial |-> n, used |-> FALSE, valid |-> TRUE]}]
        /\ Become(c, [consumer[c] EXCEPT !.at = "prepared", !.attempt = row.attempt, !.serial = n])

\* createCloudflareThumbnailExecutionRepository.prepare
Prepare(c) ==
    LET j == consumer[c].job
        w == consumer[c].wake
    IN  /\ Thumbnailing(c) /\ PublishedAs(j, w)
        /\ \/ Reuses(j, w) /\ Grants(c, job[j])
           \/ /\ Preparable(j)
              /\ Grants(c, [job[j] EXCEPT !.state = "running", !.lease = w, !.live = TRUE,
                                          !.attempt = @ + 1, !.issued = 0, !.output = FALSE,
                                          !.attempting = TRUE, !.capture = TRUE])
        /\ UNCHANGED <<dispatch, invocation, slot>> /\ Quiet

PrepareRefused(c) ==
    LET j == consumer[c].job
        w == consumer[c].wake
    IN  /\ Thumbnailing(c) /\ ~(PublishedAs(j, w) /\ (Reuses(j, w) \/ Preparable(j)))
        /\ Drops(c)
        /\ UNCHANGED <<jobs, dispatch, invocation, slot>> /\ Quiet

\* Starting a Container that is running already leaves it as it is.
StartSlot(s, container) ==
    slot' = IF slot[s] = Off THEN [slot EXCEPT ![s] = container] ELSE slot

Start(c) ==
    LET j == consumer[c].job
    IN  /\ \/ /\ ~Thumbnailing(c) /\ consumer[c].at = "authorized"
              /\ StartSlot(SlotOf[j], At("draining"))
           \/ /\ consumer[c].at = "prepared"
              /\ StartSlot(SlotOf[j], [at |-> "booting", job |-> j, serial |-> consumer[c].serial,
                                       attempt |-> consumer[c].attempt])
        /\ Become(c, [consumer[c] EXCEPT !.at = "started"])
        /\ UNCHANGED <<jobs, dispatch, invocation>> /\ Quiet

\* recordHandoff: refused when the row has moved on, or a replay differs.
Handoff(c)  == [job |-> consumer[c].job, wake |-> consumer[c].wake, fence |-> consumer[c].fence]
Accepted(h) ==
    /\ PublishedAs(h.job, h.wake) /\ outbox[h.job].fence = h.fence
    /\ \A old \in handoffs : old.job = h.job /\ old.wake = h.wake => old = h

\* The message is acknowledged after the handoff, unless the consumer is lost between.
Record(c) ==
    /\ consumer[c].at = "started" /\ Accepted(Handoff(c)) /\ Drops(c)
    /\ handoffs' = handoffs \union {Handoff(c)}
    /\ \/ queue' = queue \ {Message(consumer[c].job, consumer[c].wake)} /\ Quiet
       \/ UNCHANGED queue /\ Fault
    /\ UNCHANGED <<jobs, outbox, invocation, slot>>

RecordRefused(c) ==
    /\ consumer[c].at = "started" /\ ~Accepted(Handoff(c)) /\ Drops(c)
    /\ UNCHANGED <<jobs, dispatch, invocation, slot>> /\ Quiet

\* The consumer is lost, or the Container controller answers with an error.
ConsumerFails(c) ==
    /\ consumer[c] # Off /\ Fault /\ Drops(c)
    /\ UNCHANGED <<jobs, dispatch, invocation, slot>>
-----------------------------------------------------------------------------
(* Containers. *)

Runs(s, state) == slot' = [slot EXCEPT ![s] = state]

\* The Container's grant, and what authorizedAttempt and the bootstrap ask of it.
OwnGrant(s)     == {g \in grants[slot[s].job] : g.attempt = slot[s].attempt
                                                  /\ g.serial = slot[s].serial}
GrantOf(s)      == {g \in OwnGrant(s) : g.valid}
Authorized(s)   == Live(slot[s].job) /\ GrantOf(s) # {} /\ \A g \in GrantOf(s) : g.used
Bootstraps(s)   == Live(slot[s].job) /\ GrantOf(s) # {} /\ (\A g \in GrantOf(s) : ~g.used)
                    /\ job[slot[s].job].capture

Bootstrap(s) ==
    /\ slot[s].at = "booting" /\ Bootstraps(s)
    /\ grants' = [grants EXCEPT ![slot[s].job] =
            {[g EXCEPT !.used = g \in GrantOf(s) \/ @] : g \in @}]
    /\ Runs(s, [slot[s] EXCEPT !.at = "rendering"])
    /\ UNCHANGED <<job, dispatch, invocation, consumer>> /\ Quiet

\* PUT of the output, if there is none under the attempt's key.
Uploads(s) == Authorized(s) /\ ~job[slot[s].job].output

Upload(s) ==
    /\ slot[s].at = "rendering" /\ Uploads(s)
    /\ job' = [job EXCEPT ![slot[s].job].output = TRUE]
    /\ Runs(s, [slot[s] EXCEPT !.at = "uploaded"])
    /\ UNCHANGED <<grants, dispatch, invocation, consumer>> /\ Quiet

\* commit has found its grant, and the snapshot of the UPDATE that ends the attempt has
\* seen grant, lease and job as they should be.  Each of these conditions, once lost, is
\* lost for ever, so the two readings are one step.
Fence(s) ==
    /\ slot[s].at = "uploaded" /\ Authorized(s)
    /\ Runs(s, [slot[s] EXCEPT !.at = "committing"])
    /\ UNCHANGED <<jobs, dispatch, invocation, consumer>> /\ Quiet

\* Mutant: the UPDATE finds the attempt by its job.
EndsRunningAttempt(s) == job[slot[s].job].attempting

\* What the UPDATE still sees of what happened since: the attempt's own row.
EndsAttempt(s) == job[slot[s].job].attempting /\ job[slot[s].job].attempt = slot[s].attempt

\* The attempt succeeds and its thumbnail wins.  The job is completed only if it runs:
\* one that has been cancelled meanwhile stays so.
Commit(s) ==
    LET j   == slot[s].job
        end == IF job[j].state = "running" THEN "completed" ELSE job[j].state
    IN  /\ slot[s].at = "committing" /\ EndsAttempt(s)
        /\ job' = [job EXCEPT ![j] = [Over(j, end) EXCEPT !.thumbnail = slot[s].attempt]]
        /\ grants' = [grants EXCEPT ![j] = @ \ OwnGrant(s)]
        /\ Runs(s, Off)
        /\ UNCHANGED <<dispatch, invocation, consumer>> /\ Quiet

\* The broker answers 404 and the Container exits; while it renders, also because the
\* Version it captures has gone.
Rejected(s) ==
    /\ \/ slot[s].at = "booting" /\ ~Bootstraps(s)
       \/ slot[s].at = "rendering" /\ ~(Uploads(s) /\ job[slot[s].job].capture)
       \/ slot[s].at = "uploaded" /\ ~Authorized(s)
       \/ slot[s].at = "committing" /\ ~EndsAttempt(s)
    /\ Runs(s, Off)
    /\ UNCHANGED <<jobs, dispatch, invocation, consumer>> /\ Quiet

\* A processing Container claims any job of its lane, not the one that woke it.
ClaimJob(s, j) ==
    /\ slot[s].at = "draining" /\ j \in Processing /\ Claimable(j)
    /\ job' = [job EXCEPT ![j].state = "running", ![j].live = TRUE, ![j].attempt = @ + 1]
    /\ Runs(s, [at |-> "working", job |-> j, attempt |-> job[j].attempt + 1])
    /\ UNCHANGED <<grants, dispatch, invocation, consumer>> /\ Quiet

\* The job ends or is queued for a later attempt; a stale attempt changes nothing.
FinishJob(s) ==
    LET j == slot[s].job
    IN  /\ slot[s].at = "working" /\ Runs(s, At("draining"))
        /\ \/ /\ Live(j) /\ job[j].attempt = slot[s].attempt
              /\ \/ /\ \E end \in {"completed", "failed"} :
                           job' = [job EXCEPT ![j] = Over(j, end)]
                    /\ UNCHANGED outbox
                 \/ /\ ~OutOfAttempts(j)
                    /\ job' = [job EXCEPT ![j] = [Over(j, "queued") EXCEPT !.due = FALSE]]
                    /\ outbox' = [outbox EXCEPT ![j] = Requeued(@)]
           \/ /\ ~(Live(j) /\ job[j].attempt = slot[s].attempt)
              /\ UNCHANGED <<job, outbox>>
        /\ UNCHANGED <<grants, handoffs, queue, invocation, consumer>> /\ Quiet

\* One idle observation ends the drain; the process then takes time to exit.
ObserveIdle(s) ==
    /\ slot[s].at = "draining" /\ \A j \in Processing : ~Claimable(j)
    /\ Runs(s, At("leaving"))
    /\ UNCHANGED <<jobs, dispatch, invocation, consumer>> /\ Quiet

Exit(s) ==
    /\ slot[s].at = "leaving" /\ Runs(s, Off)
    /\ UNCHANGED <<jobs, dispatch, invocation, consumer>> /\ Quiet

ContainerStops(s) ==
    /\ slot[s] # Off /\ Fault /\ Runs(s, Off)
    /\ UNCHANGED <<jobs, dispatch, invocation, consumer>>
-----------------------------------------------------------------------------
(* Deletion of the Artifacts whose Versions a thumbnail job shows. *)

\* deleteOwned on the last Artifact of the bundle cancels a job that is not over.  Its
\* attempt and its grant are left as they are.
CancelJob(j) ==
    /\ j \in Inserted /\ ~Ended(j)
    /\ job' = [job EXCEPT ![j] = [Over(j, "cancelled") EXCEPT !.attempting = job[j].attempting]]
    /\ UNCHANGED <<grants, dispatch, actors>> /\ Quiet

\* deleteOwned on an Artifact that shares the bundle: the Version goes that the running
\* attempt captures, and perhaps none of the renderer revision is left.
DeleteVersion(j) ==
    /\ ~Ended(j) /\ job[j].version
    /\ \E left \in BOOLEAN :
          job' = [job EXCEPT ![j] = [@ EXCEPT !.version = left, !.capture = FALSE]]
    /\ UNCHANGED <<grants, dispatch, actors>> /\ Quiet

\* An Upload reuses the bundle: another Version, and no other job.
AddVersion(j) ==
    /\ j \in Inserted /\ ~Ended(j) /\ ~job[j].version
    /\ job' = [job EXCEPT ![j].version = TRUE]
    /\ UNCHANGED <<grants, dispatch, actors>> /\ Quiet

\* completeContentBundleCleanup, of a bundle whose deletion has cancelled the job or found
\* it over: the thumbnail, the job, its attempts and their grants are removed.
RemoveJob(j) ==
    /\ Ended(j) /\ job[j].state # "removed"
    /\ job' = [job EXCEPT ![j] = [Over(j, "removed") EXCEPT !.attempt = 0, !.thumbnail = None]]
    /\ grants' = [grants EXCEPT ![j] = {}]
    /\ UNCHANGED <<dispatch, actors>> /\ Quiet

Deletes(j) == CancelJob(j) \/ DeleteVersion(j) \/ AddVersion(j) \/ RemoveJob(j)
-----------------------------------------------------------------------------
(* Time. *)

\* Nothing asks for the expiry of a grant, the output or the captured Version under a
\* lease that has run out: a grant of it is taken to have expired, and both to be gone.
Expire(j) == grants' = [grants EXCEPT ![j] = {[g EXCEPT !.valid = FALSE] : g \in @}]

LeaseExpires(j) ==
    /\ Live(j)
    /\ job' = [job EXCEPT ![j] = [@ EXCEPT !.live = FALSE, !.output = FALSE, !.capture = FALSE]]
    /\ IF j \in Thumbnails THEN Expire(j) ELSE UNCHANGED grants
    /\ UNCHANGED <<dispatch, actors>> /\ Quiet

GrantExpires(j) ==
    /\ Live(j) /\ (\E g \in grants[j] : g.valid) /\ Expire(j)
    /\ UNCHANGED <<job, dispatch, actors>> /\ Quiet

BecomesDue(j) ==
    /\ ~job[j].due /\ job' = [job EXCEPT ![j].due = TRUE]
    /\ UNCHANGED <<grants, dispatch, actors>> /\ Quiet

Scheduled(i) ==
    \/ RecoverLeases(i) \/ RecoverWakes(i)
    \/ ReturnExpired(i) \/ (\E j \in Jobs : Claim(i, j)) \/ Drained(i)
    \/ Send(i) \/ Settle(i)

Consumes(c) ==
    \/ Prepare(c) \/ PrepareRefused(c) \/ Start(c) \/ Record(c) \/ RecordRefused(c)

Delivers(j) == \E c \in Consumers, m \in queue : m.job = j /\ Authorize(c, m)

Contains(s) ==
    \/ Bootstrap(s) \/ Upload(s) \/ Fence(s) \/ Commit(s) \/ Rejected(s)
    \/ (\E j \in Jobs : ClaimJob(s, j)) \/ FinishJob(s) \/ ObserveIdle(s) \/ Exit(s)

Fails ==
    \/ \E i \in Invocations : SendFails(i) \/ InvocationCrashes(i)
    \/ \E m \in queue : Lose(m)
    \/ \E c \in Consumers : ConsumerFails(c)
    \/ \E s \in Slots : ContainerStops(s)

Passes(j) == LeaseExpires(j) \/ BecomesDue(j)

Next ==
    \/ \E i \in Invocations : Scheduled(i)
    \/ \E c \in Consumers : Consumes(c)
    \/ \E j \in Jobs : Insert(j) \/ Delivers(j) \/ Passes(j)
    \/ \E j \in Thumbnails : GrantExpires(j) \/ Deletes(j)
    \/ \E s \in Slots : Contains(s)
    \/ Fails

(***************************************************************************)
(* The cron trigger keeps coming and an invocation goes on until it ends   *)
(* or is lost; the Queue does not leave one message for others for ever (a *)
(* refused one gives way to them); a consumer and a Container go on; a     *)
(* lease and a backoff run out.  Nothing forces a fault.                   *)
(***************************************************************************)
Fairness ==
    /\ \A i \in Invocations : WF_vars(Scheduled(i))
    /\ \A c \in Consumers : WF_vars(Consumes(c))
    /\ \A j \in Jobs : SF_vars(Delivers(j)) /\ WF_vars(Passes(j))
    /\ \A s \in Slots : WF_vars(Contains(s))

Spec == Init /\ [][Next]_vars /\ Fairness
-----------------------------------------------------------------------------
(***************************************************************************)
(* A thumbnail job has one execution grant that is not revoked at most,    *)
(* and it is of its last attempt; a running job has it.  One is left only  *)
(* by a deletion, or by a commit whose wake was prepared again once the    *)
(* commit had seen its own: never by a recovery, so nothing an attempt     *)
(* that was recovered still holds counts when the job is claimed again     *)
(* (prepare, recoverExpiredCloudflareThumbnailLeases, commit, deleteOwned).*)
(***************************************************************************)
GrantsAreCurrent ==
    \A j \in Thumbnails :
        /\ Cardinality(grants[j]) <= 1
        /\ \A g \in grants[j] : /\ g.attempt = job[j].attempt
                                /\ job[j].state \in {"running", "completed", "cancelled"}
        /\ job[j].state = "running" => grants[j] # {}

(***************************************************************************)
(* A thumbnail is of its job's last attempt, and stands when the job is    *)
(* completed, or was cancelled under the commit; no recovered attempt wins *)
(* and none runs on under a job that waits, has failed or is completed     *)
(* (commit, prepare, recoverExpiredCloudflareThumbnailLeases, deleteOwned).*)
(***************************************************************************)
ThumbnailsAgree ==
    \A j \in Thumbnails :
        /\ job[j].thumbnail # None =>
              /\ job[j].thumbnail = job[j].attempt /\ ~job[j].attempting
              /\ job[j].state \in {"completed", "cancelled"}
        /\ job[j].state = "completed" => job[j].thumbnail # None
        /\ job[j].state = "running" => job[j].attempting
        /\ job[j].attempting => job[j].state \in {"running", "cancelled"}

(***************************************************************************)
(* A wake is handed off once: when a Container has been started for it the *)
(* row never publishes that wake again, so no replay meets a handoff of    *)
(* another fence, and a late invocation cannot bring it back.              *)
(***************************************************************************)
HandedOffOnce ==
    \A h \in handoffs :
        outbox[h.job].wake = h.wake =>
            outbox[h.job].state = "published" /\ outbox[h.job].fence = h.fence

(***************************************************************************)
(* Every job comes to an end, whatever is lost on the way: each wake lost, *)
(* refused, sent too early or wasted on a Container that was already       *)
(* running is made up for by the scheduled recoveries.  Only a thumbnail   *)
(* job that loses the last Version of its renderer revision is not held to *)
(* it: prepare refuses it with thumbnail_execution_no_live_version, and it *)
(* waits until there is one again, or for ever.                            *)
(***************************************************************************)
Orphaned(j) == ~job[j].version

EveryJobEnds ==
    \A j \in Jobs :
        job[j].state \in {"queued", "running"} /\ ~Orphaned(j) ~> Ended(j) \/ Orphaned(j)
=============================================================================
