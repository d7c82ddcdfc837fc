------------------------ MODULE AuthenticationEmail ------------------------
(***************************************************************************)
(* The authentication-email outbox: the delivery rows an account request   *)
(* accepts, the dispatcher that claims one, freezes its transport, calls   *)
(* the provider and records the outcome, the payload erasure that follows  *)
(* the verification, and the operator's reconciliation.                    *)
(*                                                                         *)
(* Time is a set of flags: a lease lapses, a retry falls due, a deadline   *)
(* or a replay cutoff passes, each at any moment its order allows.         *)
(* Rate limits refuse an acceptance or open the breaker; which limit was   *)
(* hit is left out.                                                        *)
(***************************************************************************)
EXTENDS Integers, FiniteSets

CONSTANTS
    Deliveries,     \* 1 .. n, in created_at order
    Verifications,  \* email_verification_attempt rows
    VerificationOf, \* the verification each delivery belongs to
    Processes,      \* dispatcher processes, one workerId each
    Calls,          \* concurrent dispatchOneAuthenticationEmail calls
    ProcessOf,      \* the process each call runs in
    Adapter,        \* "smtp" or "resend"
    MaxAttempts,    \* AUTH_EMAIL_MAX_ATTEMPTS
    MaxTransports,  \* bound: transport configurations deployed in a run
    MaxCrashes,     \* bound: process crashes in a run
    NoProcess, NoDelivery

ASSUME DeliveriesAssumption == Deliveries \in SUBSET (Nat \ {0}) /\ NoDelivery \notin Deliveries
ASSUME VerificationAssumption == VerificationOf \in [Deliveries -> Verifications]
ASSUME ProcessAssumption == ProcessOf \in [Calls -> Processes] /\ NoProcess \notin Processes
ASSUME AdapterAssumption == Adapter \in {"smtp", "resend"}
ASSUME BoundAssumption ==
    MaxAttempts \in Nat \ {0} /\ MaxTransports \in Nat \ {0} /\ MaxCrashes \in Nat

VARIABLES
    delivery,     \* authentication_email_delivery
    attempt,      \* authentication_email_provider_attempt, by delivery and fence
    verification, \* "live", "expired" or "gone"
    breaker,      \* authentication_email_circuit_breaker
    transport,    \* the transport configuration the processes run with
    call,         \* where each dispatch call is: its step, delivery and fence
    request,      \* what became of the provider request of each fence
    emails,       \* emails the provider accepted for each delivery
    crashes

rows == <<delivery, attempt, verification, breaker>>
vars == <<rows, transport, call, request, emails, crashes>>

Fences  == 1 .. MaxAttempts
Active  == {"prepared", "submitting", "awaiting_final_acceptance"}
Windows == {"none", "open", "elapsed", "forgotten"}

DeliveryRows ==
    [state    : {"absent", "pending", "sending", "sent", "failed", "manual_reconciliation",
                 "purged"},
     payload  : BOOLEAN,              \* encrypted_payload <> ''
     due      : BOOLEAN,              \* available_at <= now()
     owner    : Processes \union {NoProcess},
     lease    : {"none", "live", "lapsed"},
     attempts : 0 .. MaxAttempts,
     revision : 0 .. MaxAttempts + 1,
     transport: 0 .. MaxTransports,   \* the frozen snapshot, 0 before the first claim
     window   : Windows,              \* provider_safe_replay_until and the provider's retention
     deadline : BOOLEAN,              \* the last maximum_call_deadline has passed
     result   : {"none", "provider_accepted", "provider_rejected", "acceptance_unresolved"},
     resolved : BOOLEAN]              \* has a reconciliation_resolution row

AttemptRows ==
    [phase : Active \union {"absent", "accepted", "known_not_submitted", "provider_rejected",
                            "acceptance_indeterminate", "manual_reconciliation"},
     quiescent : BOOLEAN]

TypeOK ==
    /\ delivery \in [Deliveries -> DeliveryRows]
    /\ attempt \in [Deliveries -> [Fences -> AttemptRows]]
    /\ verification \in [Verifications -> {"live", "expired", "gone"}]
    /\ breaker \in {"closed", "open", "elapsed"}
    /\ transport \in 1 .. MaxTransports
    /\ call \in [Calls -> [step     : {"idle", "claimed", "submitted", "trip"},
                           delivery : Deliveries \union {NoDelivery},
                           fence    : 0 .. MaxAttempts]]
    /\ request \in [Deliveries -> [Fences -> {"none", "in_flight", "accepted", "refused"}]]
    /\ emails \in [Deliveries -> Nat]
    /\ crashes \in 0 .. MaxCrashes

NoRow == [state |-> "absent", payload |-> FALSE, due |-> FALSE, owner |-> NoProcess,
          lease |-> "none", attempts |-> 0, revision |-> 0, transport |-> 0, window |-> "none",
          deadline |-> TRUE, result |-> "none", resolved |-> FALSE]
NoAttempts == [f \in Fences |-> [phase |-> "absent", quiescent |-> FALSE]]
Idle  == [step |-> "idle", delivery |-> NoDelivery, fence |-> 0]

Init ==
    /\ delivery = [d \in Deliveries |-> NoRow]
    /\ attempt = [d \in Deliveries |-> NoAttempts]
    /\ verification = [v \in Verifications |-> "live"]
    /\ breaker = "closed"
    /\ transport = 1
    /\ call = [c \in Calls |-> Idle]
    /\ request = [d \in Deliveries |-> [f \in Fences |-> "none"]]
    /\ emails = [d \in Deliveries |-> 0]
    /\ crashes = 0

-----------------------------------------------------------------------------
(* Account requests and the verification they belong to.                   *)

\* An account request accepts one more delivery unless the breaker is open; an elapsed
\* breaker is closed on the way.  Deliveries are accepted in created_at order.
AcceptDelivery(d) ==
    /\ \A e \in Deliveries : e >= d => delivery[e].state = "absent"
    /\ verification[VerificationOf[d]] # "gone" /\ breaker # "open"
    /\ delivery' = [delivery EXCEPT ![d].state = "pending", ![d].payload = TRUE, ![d].due = TRUE]
    /\ breaker' = "closed"
    /\ UNCHANGED <<attempt, verification, transport, call, request, emails, crashes>>

\* The deployment-wide limit is exhausted: nothing is accepted and the breaker opens.
GlobalLimitExhausted ==
    /\ breaker # "open"
    /\ \E d \in Deliveries : delivery[d].state \in {"pending", "sending", "sent"}
    /\ breaker' = "open"
    /\ UNCHANGED <<delivery, attempt, verification, transport, call, request, emails, crashes>>

BreakerElapses ==
    /\ breaker = "open" /\ breaker' = "elapsed"
    /\ UNCHANGED <<delivery, attempt, verification, transport, call, request, emails, crashes>>

Belonging(v) == {d \in Deliveries : VerificationOf[d] = v}
Erased(D) == [d \in Deliveries |-> IF d \in D THEN [delivery[d] EXCEPT !.payload = FALSE]
                                               ELSE delivery[d]]

\* markVerificationAttemptVerified and terminateVerificationAttempt erase the payload of
\* every delivery of the verification, whatever its state.
ConsumeVerification(v) ==
    /\ verification[v] # "gone"
    /\ \E d \in Belonging(v) : delivery[d].payload
    /\ delivery' = Erased(Belonging(v))
    /\ UNCHANGED <<attempt, verification, breaker, transport, call, request, emails, crashes>>

ExpireVerification(v) ==
    /\ verification[v] = "live"
    /\ verification' = [verification EXCEPT ![v] = "expired"]
    /\ UNCHANGED <<delivery, attempt, breaker, transport, call, request, emails, crashes>>

\* reconcileExpiredAuthenticationEmailState: erase what has expired and delete what
\* expired a day ago; the delivery and attempt rows go with their verification.
SweepExpired(V) ==
    LET expired == {v \in Verifications : verification[v] = "expired"}
        gone    == UNION {Belonging(v) : v \in V}
        erased  == Erased(UNION {Belonging(v) : v \in expired})
    IN  /\ expired # {} /\ V \subseteq expired
        /\ verification' = [v \in Verifications |-> IF v \in V THEN "gone" ELSE verification[v]]
        /\ delivery' = [d \in Deliveries |-> IF d \in gone THEN [NoRow EXCEPT !.state = "purged"]
                                                           ELSE erased[d]]
        /\ attempt' = [d \in Deliveries |-> IF d \in gone THEN NoAttempts ELSE attempt[d]]
        /\ UNCHANGED <<breaker, transport, call, request, emails, crashes>>

-----------------------------------------------------------------------------
(* The dispatcher's claim, one transaction.                                *)

Lapsed == {d \in Deliveries : delivery[d].state = "sending" /\ delivery[d].lease = "lapsed"}
Due    == {d \in Deliveries : delivery[d].state = "pending" /\ delivery[d].due}

\* The candidate is the oldest due row, or a younger one while other transactions hold the
\* older rows locked (for update skip locked).
Oldest(d) == d \in Due /\ \A e \in Due : d <= e

\* decryptAuthenticationEmail rejects an erased payload and prepare rejects a snapshot frozen
\* under another configuration: either throws, and the whole transaction is rolled back.
Preparable(d) == delivery[d].payload /\ delivery[d].transport \in {0, transport}

\* Mutants: recovery hands a lapsed delivery back to the queue, or forgets it.
RequeuedRow(d) ==
    IF d \in Lapsed
    THEN [delivery[d] EXCEPT !.state = "pending", !.owner = NoProcess, !.lease = "none",
                             !.due = delivery[d].attempts < MaxAttempts]
    ELSE delivery[d]
ForgottenRow(d) == delivery[d]

\* Every sending row whose lease lapsed goes to manual reconciliation with its active attempt.
RecoveredRow(d) ==
    IF d \in Lapsed
    THEN [delivery[d] EXCEPT !.state = "manual_reconciliation", !.owner = NoProcess,
                             !.lease = "none"]
    ELSE delivery[d]
\* Mutant: recovery leaves the attempt row alone.
UntouchedAttempts(d) == attempt[d]

RecoveredAttempts(d) ==
    [f \in Fences |-> IF d \in Lapsed /\ attempt[d][f].phase \in Active
                      THEN [attempt[d][f] EXCEPT !.phase = "manual_reconciliation"]
                      ELSE attempt[d][f]]

\* Nothing is due: the recovery alone is committed.
DispatchNothing(c) ==
    /\ call[c].step = "idle" /\ Due = {} /\ Lapsed # {}
    /\ delivery' = [d \in Deliveries |-> RecoveredRow(d)]
    /\ attempt' = [d \in Deliveries |-> RecoveredAttempts(d)]
    /\ UNCHANGED <<verification, breaker, transport, call, request, emails, crashes>>

\* Mutant: the frozen cutoff is not looked at.
CutoffIgnored(d) == FALSE

CutoffPassed(d) == delivery[d].window \in {"elapsed", "forgotten"}

\* The frozen replay cutoff has passed: the delivery is handed over without an attempt.
DispatchAfterCutoff(c, d) ==
    /\ call[c].step = "idle" /\ d \in Due /\ Preparable(d) /\ CutoffPassed(d)
    /\ delivery' = [e \in Deliveries |->
          IF e = d THEN [delivery[d] EXCEPT !.state = "manual_reconciliation"] ELSE RecoveredRow(e)]
    /\ attempt' = [e \in Deliveries |-> RecoveredAttempts(e)]
    /\ UNCHANGED <<verification, breaker, transport, call, request, emails, crashes>>

\* The claim: a new fence, the transport frozen by the first one, a submitting attempt.
ClaimedRow(c, d) ==
    [delivery[d] EXCEPT
        !.state = "sending", !.owner = ProcessOf[c], !.lease = "live", !.deadline = FALSE,
        !.attempts = @ + 1, !.revision = @ + 1, !.transport = transport,
        !.window = IF @ = "none" /\ Adapter = "resend" THEN "open" ELSE @]

DispatchClaim(c, d) ==
    LET fence == delivery[d].revision + 1 IN
    /\ call[c].step = "idle" /\ d \in Due /\ Preparable(d) /\ ~CutoffPassed(d)
    /\ delivery' = [e \in Deliveries |-> IF e = d THEN ClaimedRow(c, d) ELSE RecoveredRow(e)]
    /\ attempt' = [e \in Deliveries |->
          IF e = d THEN [attempt[d] EXCEPT ![fence] = [phase |-> "submitting", quiescent |-> FALSE]]
                   ELSE RecoveredAttempts(e)]
    /\ call' = [call EXCEPT ![c] = [step |-> "claimed", delivery |-> d, fence |-> fence]]
    /\ UNCHANGED <<verification, breaker, transport, request, emails, crashes>>

\* The heartbeat renews by delivery, state and worker, not by fence.
Heartbeat(c) ==
    LET d == call[c].delivery IN
    /\ call[c].step \in {"claimed", "submitted"}
    /\ delivery[d].state = "sending" /\ delivery[d].owner = ProcessOf[c]
    /\ delivery[d].lease = "lapsed"
    /\ delivery' = [delivery EXCEPT ![d].lease = "live"]
    /\ UNCHANGED <<attempt, verification, breaker, transport, call, request, emails, crashes>>

-----------------------------------------------------------------------------
(* The provider.  It accepts or refuses each request once; Resend accepts a *)
(* request whose idempotency key it remembers without another email.        *)

Submit(c) ==
    /\ call[c].step = "claimed"
    /\ call' = [call EXCEPT ![c].step = "submitted"]
    /\ request' = [request EXCEPT ![call[c].delivery][call[c].fence] = "in_flight"]
    /\ UNCHANGED <<rows, transport, emails, crashes>>

Remembered(d) == Adapter = "resend" /\ emails[d] > 0 /\ delivery[d].window # "forgotten"

ProviderAccepts(d, f) ==
    /\ request[d][f] = "in_flight"
    /\ request' = [request EXCEPT ![d][f] = "accepted"]
    /\ emails' = [emails EXCEPT ![d] = IF Remembered(d) THEN @ ELSE @ + 1]
    /\ UNCHANGED <<rows, transport, call, crashes>>

ProviderRefuses(d, f) ==
    /\ request[d][f] = "in_flight"
    /\ request' = [request EXCEPT ![d][f] = "refused"]
    /\ UNCHANGED <<rows, transport, call, emails, crashes>>

-----------------------------------------------------------------------------
(* Recording the outcome.  The call ends; what it may write depends on its  *)
(* fence still being the delivery's, in the hands of its process.           *)

\* Mutant: the outcome is recorded whoever holds the delivery.
OwnsAnything(c) == delivery[call[c].delivery].state # "purged"

Owns(c) ==
    LET row == delivery[call[c].delivery] IN
    row.state = "sending" /\ row.owner = ProcessOf[c] /\ row.revision = call[c].fence

Answer(c) == request[call[c].delivery][call[c].fence]
Finish(c, step) ==
    call' = [call EXCEPT ![c] = IF step = "idle" THEN Idle ELSE [@ EXCEPT !.step = step]]

\* The delivery leaves sending for state s; failed and sent rows lose their payload.
Settle(c, s, result) ==
    LET row == delivery[call[c].delivery] IN
    delivery' = [delivery EXCEPT ![call[c].delivery] =
        [row EXCEPT !.state = s, !.result = result, !.owner = NoProcess, !.lease = "none",
                    !.due = row.due /\ s # "pending",
                    !.payload = row.payload /\ s \notin {"sent", "failed"}]]
Conclude(c, p, quiescent) ==
    attempt' = [attempt EXCEPT ![call[c].delivery][call[c].fence] =
                    [phase |-> p, quiescent |-> quiescent]]

\* An outcome that arrives after the lease was lost writes nothing.
OutcomeTooLate(c) ==
    /\ call[c].step = "submitted" /\ ~Owns(c)
    /\ Finish(c, "idle")
    /\ UNCHANGED <<rows, transport, request, emails, crashes>>

\* Mutant: acceptance is recorded on the delivery only.
RecordAcceptedRowOnly(c) ==
    /\ call[c].step = "submitted" /\ Owns(c) /\ Answer(c) = "accepted"
    /\ Settle(c, "sent", "provider_accepted")
    /\ Finish(c, "idle")
    /\ UNCHANGED <<attempt, verification, breaker, transport, request, emails, crashes>>

RecordAccepted(c) ==
    /\ call[c].step = "submitted" /\ Owns(c) /\ Answer(c) = "accepted"
    /\ Settle(c, "sent", "provider_accepted") /\ Conclude(c, "accepted", FALSE)
    /\ Finish(c, "idle")
    /\ UNCHANGED <<verification, breaker, transport, request, emails, crashes>>

BudgetLeft(d) == delivery[d].attempts < MaxAttempts

\* SMTP: the message was provably not submitted; retried while the budget lasts.
RecordNotSubmitted(c) ==
    LET d == call[c].delivery IN
    /\ Adapter = "smtp" /\ call[c].step = "submitted" /\ Owns(c) /\ Answer(c) = "refused"
    /\ Settle(c, IF BudgetLeft(d) THEN "pending" ELSE "failed", "none")
    /\ Conclude(c, "known_not_submitted", TRUE)
    /\ Finish(c, "trip")
    /\ UNCHANGED <<verification, breaker, transport, request, emails, crashes>>

\* SMTP: the relay rejected the message.
RecordRejected(c) ==
    /\ Adapter = "smtp" /\ call[c].step = "submitted" /\ Owns(c) /\ Answer(c) = "refused"
    /\ Settle(c, "failed", "provider_rejected") /\ Conclude(c, "provider_rejected", TRUE)
    /\ Finish(c, "idle")
    /\ UNCHANGED <<verification, breaker, transport, request, emails, crashes>>

\* Resend: a rate limit or quota ("not_submitted"), a permanent failure, or an error that
\* leaves acceptance open.  The last can come with the request refused, accepted or still
\* on its way; the others mean that this request was refused.
RecordResend(c, kind) ==
    LET d == call[c].delivery
        retry == kind # "permanent" /\ delivery[d].window = "open" /\ BudgetLeft(d)
        phase == IF kind = "not_submitted" THEN "known_not_submitted"
                                           ELSE "acceptance_indeterminate"
    IN
    /\ Adapter = "resend" /\ call[c].step = "submitted" /\ Owns(c)
    /\ kind # "ambiguous" => Answer(c) = "refused"
    /\ \/ /\ retry
          /\ Settle(c, "pending", "none") /\ Conclude(c, phase, TRUE)
       \/ /\ ~retry /\ kind = "ambiguous"
          /\ Settle(c, "manual_reconciliation", "none")
          /\ Conclude(c, "manual_reconciliation", TRUE)
       \/ /\ ~retry /\ kind = "not_submitted" /\ ~BudgetLeft(d)
          /\ Settle(c, "failed", "none") /\ Conclude(c, phase, TRUE)
       \/ /\ ~retry /\ \/ kind = "permanent"
                       \/ kind = "not_submitted" /\ BudgetLeft(d)
          /\ Settle(c, "failed", "provider_rejected") /\ Conclude(c, "provider_rejected", TRUE)
    /\ Finish(c, IF retry THEN "trip" ELSE "idle")
    /\ UNCHANGED <<verification, breaker, transport, request, emails, crashes>>

\* Mutant: a lost final response is retried.
RetryIndeterminate(c) ==
    /\ call[c].step = "submitted" /\ Owns(c)
    /\ Settle(c, IF BudgetLeft(call[c].delivery) THEN "pending" ELSE "failed", "none")
    /\ Conclude(c, "acceptance_indeterminate", FALSE)
    /\ Finish(c, "trip")
    /\ UNCHANGED <<verification, breaker, transport, request, emails, crashes>>

\* Any other error of the call: acceptance is indeterminate.
RecordIndeterminate(c) ==
    /\ call[c].step = "submitted" /\ Owns(c)
    /\ Settle(c, "manual_reconciliation", "none") /\ Conclude(c, "acceptance_indeterminate", FALSE)
    /\ Finish(c, "trip")
    /\ UNCHANGED <<verification, breaker, transport, request, emails, crashes>>

\* The breaker is opened by a statement of its own, after the outcome is committed.
TripBreaker(c) ==
    /\ call[c].step = "trip"
    /\ breaker' = "open" /\ Finish(c, "idle")
    /\ UNCHANGED <<delivery, attempt, verification, transport, request, emails, crashes>>

\* The outcome transaction fails and is rolled back; the call throws and its heartbeat stops.
PersistenceFails(c) ==
    /\ call[c].step \in {"submitted", "trip"}
    /\ Finish(c, "idle")
    /\ UNCHANGED <<rows, transport, request, emails, crashes>>

-----------------------------------------------------------------------------
(* The operator, the passage of time, crashes and deployments.             *)

\* reconcileAuthenticationEmailDelivery with a new authorization; an exact repeat writes
\* only its audit row.  The operator's evidence is taken to be right.
Resolve(d, decision) ==
    /\ delivery[d].state = "manual_reconciliation"
    /\ \E f \in Fences : attempt[d][f] = [phase |-> "manual_reconciliation", quiescent |-> TRUE]
    /\ delivery[d].deadline /\ delivery[d].window # "open"
    /\ decision = "provider_accepted" => emails[d] > 0
    /\ decision = "provider_rejected" => emails[d] = 0
    /\ delivery' = [delivery EXCEPT ![d] =
          [delivery[d] EXCEPT !.state = IF decision = "provider_accepted" THEN "sent" ELSE "failed",
                              !.result = decision, !.payload = FALSE, !.resolved = TRUE,
                              !.revision = delivery[d].revision + 1]]
    /\ UNCHANGED <<attempt, verification, breaker, transport, call, request, emails, crashes>>

\* A lease that is not renewed in time; heartbeat failures are only logged.
LeaseLapses(d) ==
    /\ delivery[d].lease = "live"
    /\ delivery' = [delivery EXCEPT ![d].lease = "lapsed"]
    /\ UNCHANGED <<attempt, verification, breaker, transport, call, request, emails, crashes>>

DeadlinePasses(d) ==
    /\ ~delivery[d].deadline
    /\ delivery' = [delivery EXCEPT ![d].deadline = TRUE]
    /\ UNCHANGED <<attempt, verification, breaker, transport, call, request, emails, crashes>>

\* A retry is scheduled at least a lease after its outcome, past the maximum call deadline.
BecomesDue(d) ==
    /\ delivery[d].state = "pending" /\ ~delivery[d].due /\ delivery[d].deadline
    /\ delivery' = [delivery EXCEPT ![d].due = TRUE]
    /\ UNCHANGED <<attempt, verification, breaker, transport, call, request, emails, crashes>>

CutoffElapses(d) ==
    /\ delivery[d].window = "open"
    /\ delivery' = [delivery EXCEPT ![d].window = "elapsed"]
    /\ UNCHANGED <<attempt, verification, breaker, transport, call, request, emails, crashes>>

\* Resend forgets the idempotency key.  The safety margin between the cutoff and the
\* provider's retention is taken to outlast every call claimed before the cutoff.
ProviderForgets(d) ==
    /\ delivery[d].window = "elapsed"
    /\ \A c \in Calls : call[c].delivery # d
    /\ \A f \in Fences : request[d][f] # "in_flight"
    /\ delivery' = [delivery EXCEPT ![d].window = "forgotten"]
    /\ UNCHANGED <<attempt, verification, breaker, transport, call, request, emails, crashes>>

ChangeTransport ==
    /\ transport < MaxTransports /\ transport' = transport + 1
    /\ UNCHANGED <<rows, call, request, emails, crashes>>

Crash(p) ==
    /\ crashes < MaxCrashes /\ crashes' = crashes + 1
    /\ \E c \in Calls : ProcessOf[c] = p /\ call[c] # Idle
    /\ call' = [c \in Calls |-> IF ProcessOf[c] = p THEN Idle ELSE call[c]]
    /\ UNCHANGED <<rows, transport, request, emails>>

-----------------------------------------------------------------------------
Account ==
    \/ \E d \in Deliveries : AcceptDelivery(d)
    \/ GlobalLimitExhausted \/ BreakerElapses
    \/ \E v \in Verifications : ConsumeVerification(v) \/ ExpireVerification(v)
    \/ \E V \in SUBSET Verifications : SweepExpired(V)

Dispatch(c, d) == DispatchAfterCutoff(c, d) \/ DispatchClaim(c, d)

Record(c) ==
    \/ OutcomeTooLate(c) \/ RecordAccepted(c) \/ RecordIndeterminate(c)
    \/ RecordNotSubmitted(c) \/ RecordRejected(c)
    \/ \E kind \in {"not_submitted", "permanent", "ambiguous"} : RecordResend(c, kind)

Dispatcher ==
    \E c \in Calls :
        \/ DispatchNothing(c) \/ \E d \in Deliveries : Dispatch(c, d)
        \/ Heartbeat(c) \/ Submit(c) \/ Record(c) \/ TripBreaker(c) \/ PersistenceFails(c)

Provider ==
    \E d \in Deliveries, f \in Fences : ProviderAccepts(d, f) \/ ProviderRefuses(d, f)

Operator ==
    \E d \in Deliveries :
        \E decision \in {"provider_accepted", "provider_rejected", "acceptance_unresolved"} :
            Resolve(d, decision)

Environment ==
    \/ \E d \in Deliveries :
          \/ LeaseLapses(d) \/ DeadlinePasses(d) \/ BecomesDue(d)
          \/ CutoffElapses(d) \/ ProviderForgets(d)
    \/ ChangeTransport
    \/ \E p \in Processes : Crash(p)

Next == Account \/ Dispatcher \/ Provider \/ Operator \/ Environment

Spec == Init /\ [][Next]_vars

\* A dispatcher process runs a call every second and, uncontended, takes the oldest due
\* row; its calls come to an end; a lease nobody renews lapses and retries fall due.
Orphaned(d) == delivery[d].lease = "live" /\ \A c \in Calls : call[c].delivery # d
Fairness ==
    /\ WF_vars(\E c \in Calls : \/ DispatchNothing(c)
                                \/ \E d \in Deliveries : Oldest(d) /\ Dispatch(c, d))
    /\ \A c \in Calls : WF_vars(Submit(c)) /\ WF_vars(Record(c)) /\ WF_vars(TripBreaker(c))
    /\ \A d \in Deliveries :
          /\ WF_vars(Orphaned(d) /\ LeaseLapses(d))
          /\ WF_vars(DeadlinePasses(d)) /\ WF_vars(BecomesDue(d))

FairSpec == Spec /\ Fairness

-----------------------------------------------------------------------------
(* Properties.                                                             *)

\* No account receives the same delivery twice, whatever is retried, replayed, recovered or
\* answered late (an SMTP call is repeated only after a proven non-submission, a Resend call
\* only under a key the provider still remembers).
NoDuplicateEmail == \A d \in Deliveries : emails[d] <= 1

\* The two tables agree: a delivery is sending exactly while the attempt of its current fence
\* is active, and no other attempt ever is (lease recovery and every outcome update both rows).
ActiveAttemptIffSending ==
    \A d \in Deliveries, f \in Fences :
        attempt[d][f].phase \in Active <=> delivery[d].state = "sending" /\ delivery[d].revision = f

\* A delivery recorded as sent was accepted by the provider, as an accepted attempt or the
\* operator's resolution says.
SentWasAccepted ==
    \A d \in Deliveries : delivery[d].state = "sent" =>
        /\ emails[d] > 0
        /\ delivery[d].resolved \/ \E f \in Fences : attempt[d][f].phase = "accepted"

\* A delivery the dispatcher gave up, or will send again, has not been emailed and has no
\* request on its way.
NotEmailedUnlessRecorded ==
    \A d \in Deliveries :
        delivery[d].state = "pending" \/ (delivery[d].state = "failed" /\ ~delivery[d].resolved) =>
            emails[d] = 0 /\ \A f \in Fences : request[d][f] # "in_flight"

\* An outcome is recorded once: sent and failed rows change no more until they are purged,
\* and a row in manual reconciliation leaves it by an operator's resolution only.
OutcomeRecordedOnce ==
    [][\A d \in Deliveries :
          LET row == delivery[d] new == delivery'[d] IN
          /\ row.state \in {"sent", "failed"} /\ new.state # "purged" =>
                new.state = row.state /\ new.result = row.result /\ new.revision = row.revision
          /\ row.state = "manual_reconciliation" /\ new.state \notin {row.state, "purged"} =>
                new.resolved]_vars

-----------------------------------------------------------------------------
(* What makes the safety properties above inductive.                       *)

\* A call that has claimed a delivery and not yet recorded its outcome.
Calling(c, d) == call[c].step \in {"claimed", "submitted"} /\ call[c].delivery = d

\* A provider request that has led to an email or still may.
MayEmail(d, f) == request[d][f] \in {"in_flight", "accepted"}

\* A row's counters agree with its state.
Counted ==
    \A d \in Deliveries : LET row == delivery[d] IN
        /\ row.state = "absent" => row.attempts = 0 /\ row.revision = 0 /\ ~row.resolved
        /\ row.state \in {"pending", "sending"} => row.attempts = row.revision /\ ~row.resolved
        /\ row.state = "pending" => row.attempts < MaxAttempts
        /\ row.state = "sending" => row.revision \in Fences
        /\ row.state = "manual_reconciliation" => row.revision <= MaxAttempts

\* One call at a time works for a delivery, and it holds the fence if the delivery is sending.
CallsAreFenced ==
    /\ \A c \in Calls : call[c].step \in {"claimed", "submitted"} =>
          call[c].delivery \in Deliveries /\ call[c].fence \in Fences
    /\ \A c \in Calls, d \in Deliveries : Calling(c, d) =>
          /\ delivery[d].state \notin {"absent", "pending"}
          /\ delivery[d].state = "sending" => delivery[d].revision = call[c].fence
          /\ delivery[d].state = "failed" => delivery[d].resolved
    /\ \A b, c \in Calls, d \in Deliveries : Calling(b, d) /\ Calling(c, d) => b = c

\* Over SMTP one request at most may email a delivery, and none before another is submitted.
RequestsAreSpent ==
    Adapter = "smtp" =>
        /\ \A d \in Deliveries, f, g \in Fences : MayEmail(d, f) /\ MayEmail(d, g) => f = g
        /\ \A d \in Deliveries :
              (\/ delivery[d].state \in {"absent", "pending"}
               \/ delivery[d].state = "failed" /\ ~delivery[d].resolved)
              => \A f \in Fences : ~MayEmail(d, f)
        /\ \A c \in Calls, f \in Fences :
              /\ call[c].step = "claimed" => ~MayEmail(call[c].delivery, f)
              /\ call[c].step = "submitted" /\ MayEmail(call[c].delivery, f) => f = call[c].fence

\* Once Resend may have forgotten a key nothing is submitted under it any more.
KeysAreRemembered ==
    \A d \in Deliveries : delivery[d].window = "forgotten" =>
        /\ \A f \in Fences : request[d][f] # "in_flight"
        /\ \A c \in Calls : ~Calling(c, d)

\* An accepted request emailed its delivery, and over SMTP nothing else did.
EmailsAreAccepted ==
    \A d \in Deliveries : LET accepted == \E f \in Fences : request[d][f] = "accepted" IN
        /\ accepted => emails[d] > 0
        /\ Adapter = "smtp" /\ emails[d] > 0 => accepted

\* The inductive invariant.
OutboxInv ==
    /\ TypeOK /\ Counted /\ CallsAreFenced /\ RequestsAreSpent /\ KeysAreRemembered
    /\ EmailsAreAccepted /\ NoDuplicateEmail /\ ActiveAttemptIffSending /\ SentWasAccepted

-----------------------------------------------------------------------------
(* Progress.                                                               *)

HeadIsPreparable == \A d \in Deliveries : Oldest(d) => Preparable(d)

Unsettled(d) == delivery[d].state \in {"pending", "sending"}

\* Unless the head of the outbox stays unclaimable, every accepted delivery is eventually
\* sent, failed, or handed to an operator: lost calls, lapsed leases and retries included.
OutboxDrains ==
    <>[]HeadIsPreparable =>
        \A d \in Deliveries : Unsettled(d) ~> ~Unsettled(d)
=============================================================================
