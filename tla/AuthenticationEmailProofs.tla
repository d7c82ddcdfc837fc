--------------------- MODULE AuthenticationEmailProofs ---------------------
(***************************************************************************)
(* Proofs about AuthenticationEmail, for any number of deliveries, calls,  *)
(* processes and attempts and for both adapters.  OutboxInv is preserved   *)
(* by each action; the safety properties follow from it.                   *)
(***************************************************************************)
EXTENDS AuthenticationEmail, TLAPS

\* The facts the whole invariant consists of.
LEMMA InvParts ==
    ASSUME OutboxInv
    PROVE  /\ TypeOK /\ Counted /\ CallsAreFenced /\ RequestsAreSpent /\ KeysAreRemembered
           /\ EmailsAreAccepted /\ NoDuplicateEmail /\ ActiveAttemptIffSending /\ SentWasAccepted
BY DEF OutboxInv

\* An empty outbox and idle calls satisfy the invariant.
LEMMA InitInv == Init => OutboxInv
<1> SUFFICES ASSUME Init PROVE OutboxInv
  OBVIOUS
<1> USE DEF Init
<1>1. TypeOK
  <2>1. NoRow \in DeliveryRows
    BY BoundAssumption DEF NoRow, DeliveryRows, Windows
  <2>2. NoAttempts \in [Fences -> AttemptRows]
    BY DEF NoAttempts, AttemptRows
  <2>3. Idle \in [step     : {"idle", "claimed", "submitted", "trip"},
                  delivery : Deliveries \union {NoDelivery},
                  fence    : 0 .. MaxAttempts]
    BY BoundAssumption DEF Idle
  <2>4. QED
    BY <2>1, <2>2, <2>3, BoundAssumption DEF TypeOK
<1>2. Counted
  BY DEF Counted, NoRow
<1>3. CallsAreFenced
  BY DEF CallsAreFenced, Calling, Idle
<1>4. RequestsAreSpent
  BY DEF RequestsAreSpent, MayEmail, Idle
<1>5. KeysAreRemembered
  BY DEF KeysAreRemembered, NoRow
<1>6. EmailsAreAccepted /\ NoDuplicateEmail
  BY DEF EmailsAreAccepted, NoDuplicateEmail
<1>7. ActiveAttemptIffSending
  BY DEF ActiveAttemptIffSending, NoAttempts, NoRow, Active
<1>8. SentWasAccepted
  BY DEF SentWasAccepted, NoRow
<1>9. QED
  BY <1>1, <1>2, <1>3, <1>4, <1>5, <1>6, <1>7, <1>8 DEF OutboxInv

-----------------------------------------------------------------------------
(* Steps that leave the states of the deliveries alone.                    *)

\* A row keeps what the invariant depends on, and forgets its key only when nothing is submitted.
SameRow(d) ==
    /\ delivery'[d].state = delivery[d].state
    /\ delivery'[d].revision = delivery[d].revision
    /\ delivery'[d].attempts = delivery[d].attempts
    /\ delivery'[d].resolved = delivery[d].resolved
    /\ delivery'[d].window = "forgotten" =>
          \/ delivery[d].window = "forgotten"
          \/ /\ \A f \in Fences : request[d][f] # "in_flight"
             /\ \A c \in Calls : ~Calling(c, d)

\* Calls that end write no row: late outcomes, failed transactions, crashes; and what only
\* touches payloads, leases and the flags that stand for time.
LEMMA SameRowsInv ==
    ASSUME OutboxInv, TypeOK',
           \A d \in Deliveries : SameRow(d),
           \A c \in Calls : call'[c] = call[c] \/ call'[c].step \notin {"claimed", "submitted"},
           UNCHANGED <<attempt, request, emails>>
    PROVE  OutboxInv'
<1> USE InvParts
<1>1. Counted'
  BY DEF Counted, SameRow
<1>2. \A c \in Calls, d \in Deliveries : Calling(c, d)' => Calling(c, d) /\ call'[c] = call[c]
  BY DEF Calling
<1>3. CallsAreFenced'
  BY <1>2 DEF CallsAreFenced, Calling, SameRow
<1>4. RequestsAreSpent'
  BY DEF RequestsAreSpent, MayEmail, SameRow
<1>5. KeysAreRemembered'
  BY <1>2 DEF KeysAreRemembered, SameRow
<1>6. EmailsAreAccepted' /\ NoDuplicateEmail'
  BY DEF EmailsAreAccepted, NoDuplicateEmail
<1>7. ActiveAttemptIffSending'
  BY DEF ActiveAttemptIffSending, SameRow
<1>8. SentWasAccepted'
  BY DEF SentWasAccepted, SameRow
<1>9. QED
  BY <1>1, <1>3, <1>4, <1>5, <1>6, <1>7, <1>8 DEF OutboxInv

-----------------------------------------------------------------------------
(* Account requests and the end of a verification.                         *)

\* An accepted delivery starts pending with a fresh row.
LEMMA AcceptInv ==
    ASSUME OutboxInv, TypeOK', NEW d \in Deliveries, AcceptDelivery(d)
    PROVE  OutboxInv'
<1> USE InvParts DEF AcceptDelivery
<1>1. delivery[d].state = "absent"
  BY DeliveriesAssumption
<1>2. /\ delivery'[d].state = "pending" /\ delivery'[d].revision = delivery[d].revision
      /\ delivery'[d].attempts = delivery[d].attempts
      /\ delivery'[d].resolved = delivery[d].resolved /\ delivery'[d].window = delivery[d].window
      /\ \A e \in Deliveries \ {d} : delivery'[e] = delivery[e]
  BY DEF TypeOK, DeliveryRows
<1> HIDE DEF AcceptDelivery
<1>3. UNCHANGED <<attempt, call, request, emails>>
  BY DEF AcceptDelivery
<1>4. Counted'
  BY <1>1, <1>2, BoundAssumption DEF Counted
<1>5. CallsAreFenced'
  BY <1>1, <1>2, <1>3 DEF CallsAreFenced, Calling
<1>6. RequestsAreSpent'
  BY <1>1, <1>2, <1>3 DEF RequestsAreSpent, MayEmail
<1>7. KeysAreRemembered'
  BY <1>2, <1>3 DEF KeysAreRemembered, Calling
<1>8. EmailsAreAccepted' /\ NoDuplicateEmail'
  BY <1>3 DEF EmailsAreAccepted, NoDuplicateEmail
<1>9. ActiveAttemptIffSending'
  BY <1>1, <1>2, <1>3 DEF ActiveAttemptIffSending
<1>10. SentWasAccepted'
  BY <1>1, <1>2, <1>3 DEF SentWasAccepted
<1>11. QED
  BY <1>4, <1>5, <1>6, <1>7, <1>8, <1>9, <1>10 DEF OutboxInv

\* Erasing payloads changes nothing the invariant depends on.
LEMMA ErasedRows ==
    ASSUME TypeOK, NEW D, NEW d \in Deliveries
    PROVE  /\ Erased(D)[d].state = delivery[d].state
           /\ Erased(D)[d].revision = delivery[d].revision
           /\ Erased(D)[d].attempts = delivery[d].attempts
           /\ Erased(D)[d].resolved = delivery[d].resolved
           /\ Erased(D)[d].window = delivery[d].window
           /\ Erased(D)[d] \in DeliveryRows
<1>1. delivery[d] \in DeliveryRows
  BY DEF TypeOK
<1>2. Erased(D)[d] = IF d \in D THEN [delivery[d] EXCEPT !.payload = FALSE] ELSE delivery[d]
  BY DEF Erased
<1>3. CASE d \in D
  <2> DEFINE row == [delivery[d] EXCEPT !.payload = FALSE]
  <2>1. Erased(D)[d] = row
    BY <1>2, <1>3
  <2>2. row \in DeliveryRows
    BY <1>1 DEF DeliveryRows
  <2>3. /\ row.state = delivery[d].state /\ row.revision = delivery[d].revision
        /\ row.attempts = delivery[d].attempts /\ row.resolved = delivery[d].resolved
        /\ row.window = delivery[d].window
    BY <1>1 DEF DeliveryRows
  <2> QED
    BY <2>1, <2>2, <2>3
<1>4. CASE d \notin D
  BY <1>1, <1>2, <1>4
<1>5. QED
  BY <1>3, <1>4

\* A row that is deleted with its verification leaves a call and its request behind.
LEMMA SweepInv ==
    ASSUME OutboxInv, TypeOK', NEW V \in SUBSET Verifications, SweepExpired(V)
    PROVE  OutboxInv'
<1> USE InvParts
<1> DEFINE gone == UNION {Belonging(v) : v \in V}
<1>1. UNCHANGED <<call, request, emails>>
  BY DEF SweepExpired
<1>2. \A d \in Deliveries :
         /\ d \in gone => /\ delivery'[d] = [NoRow EXCEPT !.state = "purged"]
                          /\ attempt'[d] = NoAttempts
         /\ d \notin gone => /\ delivery'[d].state = delivery[d].state
                             /\ delivery'[d].revision = delivery[d].revision
                             /\ delivery'[d].attempts = delivery[d].attempts
                             /\ delivery'[d].resolved = delivery[d].resolved
                             /\ delivery'[d].window = delivery[d].window
                             /\ attempt'[d] = attempt[d]
  BY ErasedRows DEF SweepExpired
<1>3. \A d \in Deliveries : d \in gone =>
         /\ delivery'[d].state = "purged" /\ delivery'[d].window = "none"
         /\ \A f \in Fences : attempt'[d][f].phase = "absent"
  BY <1>2 DEF NoRow, NoAttempts
<1> HIDE DEF gone
<1>5. Counted'
  <2> SUFFICES ASSUME NEW d \in Deliveries PROVE Counted!(d)'
    BY DEF Counted
  <2> QED
    BY <1>2, <1>3 DEF Counted
<1>6. CallsAreFenced'
  <2>1. \A c \in Calls, d \in Deliveries : Calling(c, d)' => Calling(c, d)
    BY <1>1 DEF Calling
  <2>2. \A c \in Calls, d \in Deliveries : Calling(c, d) =>
           /\ delivery'[d].state \notin {"absent", "pending"}
           /\ delivery'[d].state = "sending" => delivery'[d].revision = call[c].fence
           /\ delivery'[d].state = "failed" => delivery'[d].resolved
    BY <1>2, <1>3 DEF CallsAreFenced
  <2>3. QED
    BY <1>1, <2>1, <2>2 DEF CallsAreFenced
<1>7. RequestsAreSpent'
  BY <1>1, <1>2, <1>3 DEF RequestsAreSpent, MayEmail
<1>8. KeysAreRemembered'
  BY <1>1, <1>2, <1>3 DEF KeysAreRemembered, Calling
<1>9. EmailsAreAccepted' /\ NoDuplicateEmail'
  BY <1>1 DEF EmailsAreAccepted, NoDuplicateEmail
<1>10. ActiveAttemptIffSending'
  <2> SUFFICES ASSUME NEW d \in Deliveries, NEW f \in Fences
               PROVE  attempt'[d][f].phase \in Active <=>
                         delivery'[d].state = "sending" /\ delivery'[d].revision = f
    BY DEF ActiveAttemptIffSending
  <2>1. CASE d \in gone
    BY <1>3, <2>1 DEF Active
  <2>2. CASE d \notin gone
    BY <1>2, <2>2 DEF ActiveAttemptIffSending
  <2>3. QED
    BY <2>1, <2>2
<1>11. SentWasAccepted'
  BY <1>1, <1>2, <1>3 DEF SentWasAccepted
<1>12. QED
  BY <1>5, <1>6, <1>7, <1>8, <1>9, <1>10, <1>11 DEF OutboxInv

-----------------------------------------------------------------------------
(* The dispatcher's claim.                                                 *)

\* What recovery does to a delivery that is not being claimed.
Recovered(d) ==
    /\ delivery'[d] = RecoveredRow(d)
    /\ attempt'[d] = RecoveredAttempts(d)

\* Recovery moves lapsed deliveries from sending to manual reconciliation and ends their attempts.
LEMMA RecoveredFacts ==
    ASSUME OutboxInv, NEW d \in Deliveries, Recovered(d)
    PROVE  /\ \/ delivery'[d].state = delivery[d].state /\ d \notin Lapsed
              \/ /\ delivery[d].state = "sending" /\ d \in Lapsed
                 /\ delivery'[d].state = "manual_reconciliation"
           /\ delivery'[d].revision = delivery[d].revision
           /\ delivery'[d].attempts = delivery[d].attempts
           /\ delivery'[d].resolved = delivery[d].resolved
           /\ delivery'[d].window = delivery[d].window
           /\ \A f \in Fences :
                 IF d \in Lapsed /\ attempt[d][f].phase \in Active
                 THEN attempt'[d][f].phase = "manual_reconciliation"
                 ELSE attempt'[d][f] = attempt[d][f]
<1>1. delivery[d] \in DeliveryRows /\ attempt[d] \in [Fences -> AttemptRows]
  BY InvParts DEF TypeOK
<1>2. QED
  BY <1>1 DEF Recovered, RecoveredRow, RecoveredAttempts, Lapsed, DeliveryRows, AttemptRows

\* Recovery alone, and a claim after the replay cutoff, start no call.
LEMMA HandOverInv ==
    ASSUME OutboxInv, TypeOK', UNCHANGED <<call, request, emails>>,
           \A d \in Deliveries :
              \/ Recovered(d)
              \/ /\ delivery[d].state = "pending" /\ attempt'[d] = RecoveredAttempts(d)
                 /\ delivery'[d] = [delivery[d] EXCEPT !.state = "manual_reconciliation"]
    PROVE  OutboxInv'
<1> USE InvParts
<1>1. \A d \in Deliveries :
         /\ \/ delivery'[d].state = delivery[d].state /\ d \notin Lapsed
            \/ delivery'[d].state = "manual_reconciliation" /\ delivery[d].state = "pending"
                /\ d \notin Lapsed
            \/ /\ delivery'[d].state = "manual_reconciliation" /\ delivery[d].state = "sending"
               /\ d \in Lapsed
         /\ delivery'[d].revision = delivery[d].revision
         /\ delivery'[d].attempts = delivery[d].attempts
         /\ delivery'[d].resolved = delivery[d].resolved
         /\ delivery'[d].window = delivery[d].window
         /\ \A f \in Fences :
               IF d \in Lapsed /\ attempt[d][f].phase \in Active
               THEN attempt'[d][f].phase = "manual_reconciliation"
               ELSE attempt'[d][f] = attempt[d][f]
  <2> TAKE d \in Deliveries
  <2>1. CASE Recovered(d)
    BY <2>1, RecoveredFacts
  <2>2. CASE /\ delivery[d].state = "pending" /\ attempt'[d] = RecoveredAttempts(d)
             /\ delivery'[d] = [delivery[d] EXCEPT !.state = "manual_reconciliation"]
    <3>1. d \notin Lapsed
      BY <2>2 DEF Lapsed
    <3>2. delivery[d] \in DeliveryRows
      BY DEF TypeOK
    <3>3. QED
      BY <2>2, <3>1, <3>2 DEF DeliveryRows, RecoveredAttempts
  <2>3. QED
    BY <2>1, <2>2
<1>2. Counted'
  <2>1. \A d \in Deliveries : delivery[d] \in DeliveryRows
    BY DEF TypeOK
  <2>2. QED
    BY <1>1, <2>1, BoundAssumption DEF Counted, DeliveryRows, Fences
<1>3. CallsAreFenced'
  BY <1>1 DEF CallsAreFenced, Calling
<1>4. RequestsAreSpent'
  BY <1>1 DEF RequestsAreSpent, MayEmail
<1>5. KeysAreRemembered'
  BY <1>1 DEF KeysAreRemembered, Calling
<1>6. EmailsAreAccepted' /\ NoDuplicateEmail'
  BY DEF EmailsAreAccepted, NoDuplicateEmail
<1>7. ActiveAttemptIffSending'
  BY <1>1 DEF ActiveAttemptIffSending, Active
<1>8. SentWasAccepted'
  BY <1>1 DEF SentWasAccepted, Active
<1>9. QED
  BY <1>2, <1>3, <1>4, <1>5, <1>6, <1>7, <1>8 DEF OutboxInv

\* A claim takes the next fence of a pending delivery no other call works for.
LEMMA ClaimInv ==
    ASSUME OutboxInv, TypeOK', NEW c \in Calls, NEW d \in Deliveries, DispatchClaim(c, d)
    PROVE  OutboxInv'
<1> USE InvParts
<1> DEFINE fence == delivery[d].revision + 1
<1>1. delivery[d].state = "pending" /\ fence \in Fences /\ fence = delivery[d].attempts + 1
  <2>1. delivery[d] \in DeliveryRows /\ delivery[d].state = "pending"
    BY DEF TypeOK, DispatchClaim, Due
  <2>2. QED
    BY <2>1, BoundAssumption DEF Counted, DeliveryRows, Fences
<1>2. /\ delivery'[d].state = "sending" /\ delivery'[d].revision = fence
      /\ delivery'[d].attempts = fence /\ delivery'[d].resolved = delivery[d].resolved
      /\ delivery'[d].window = "forgotten" => delivery[d].window = "forgotten"
  <2>1. delivery[d] \in DeliveryRows
    BY DEF TypeOK
  <2>2. delivery'[d] = ClaimedRow(c, d)
    BY DEF DispatchClaim
  <2>3. QED
    BY <1>1, <2>1, <2>2 DEF ClaimedRow, DeliveryRows
<1>3. attempt'[d] = [attempt[d] EXCEPT ![fence] = [phase |-> "submitting", quiescent |-> FALSE]]
  BY DEF DispatchClaim
<1>4. \A e \in Deliveries \ {d} : Recovered(e)
  BY DEF DispatchClaim, Recovered
<1>5. /\ call[c].step = "idle" /\ UNCHANGED <<request, emails>>
      /\ call' = [call EXCEPT ![c] = [step |-> "claimed", delivery |-> d, fence |-> fence]]
      /\ ~CutoffPassed(d)
  BY DEF DispatchClaim
<1>6. /\ call'[c].step = "claimed" /\ call'[c].delivery = d /\ call'[c].fence = fence
      /\ \A b \in Calls \ {c} : call'[b] = call[b]
  BY <1>5 DEF TypeOK
<1> HIDE DEF fence
<1>7. \A b \in Calls : ~Calling(b, d)
  BY <1>1 DEF CallsAreFenced
<1>8. \A b \in Calls, e \in Deliveries :
         Calling(b, e)' <=> (b = c /\ e = d) \/ (b # c /\ Calling(b, e))
  BY <1>5, <1>6 DEF Calling
<1>9. Counted'
  <2> SUFFICES ASSUME NEW e \in Deliveries PROVE Counted!(e)'
    BY DEF Counted
  <2>1. CASE e = d
    BY <1>1, <1>2, <2>1 DEF Counted
  <2>2. CASE e # d
    <3>1. Recovered(e) /\ delivery[e] \in DeliveryRows
      BY <1>4, <2>2 DEF TypeOK
    <3>2. QED
      BY <3>1, RecoveredFacts, BoundAssumption DEF Counted, DeliveryRows, Fences
  <2>3. QED
    BY <2>1, <2>2
<1>10. CallsAreFenced'
  <2>1. \A b \in Calls : call'[b].step \in {"claimed", "submitted"} =>
           call'[b].delivery \in Deliveries /\ call'[b].fence \in Fences
    BY <1>1, <1>6 DEF CallsAreFenced
  <2>2. \A b \in Calls, e \in Deliveries : Calling(b, e)' =>
          /\ delivery'[e].state \notin {"absent", "pending"}
          /\ delivery'[e].state = "sending" => delivery'[e].revision = call'[b].fence
          /\ delivery'[e].state = "failed" => delivery'[e].resolved
    <3> SUFFICES ASSUME NEW b \in Calls, NEW e \in Deliveries, Calling(b, e)'
                 PROVE  /\ delivery'[e].state \notin {"absent", "pending"}
                        /\ delivery'[e].state = "sending" => delivery'[e].revision = call'[b].fence
                        /\ delivery'[e].state = "failed" => delivery'[e].resolved
      OBVIOUS
    <3>1. CASE b = c
      BY <1>2, <1>6, <1>8, <3>1
    <3>2. CASE b # c
      <4>1. Calling(b, e) /\ e # d /\ call'[b] = call[b]
        BY <1>6, <1>7, <1>8, <3>2
      <4>2. Recovered(e)
        BY <1>4, <4>1
      <4>3. QED
        BY <4>1, <4>2, RecoveredFacts DEF CallsAreFenced
    <3>3. QED
      BY <3>1, <3>2
  <2>3. \A a, b \in Calls, e \in Deliveries : Calling(a, e)' /\ Calling(b, e)' => a = b
    BY <1>7, <1>8 DEF CallsAreFenced
  <2>4. QED
    BY <2>1, <2>2, <2>3 DEF CallsAreFenced
<1>11. RequestsAreSpent'
  <2> SUFFICES ASSUME Adapter = "smtp" PROVE RequestsAreSpent'
    BY DEF RequestsAreSpent
  <2>1. \A e \in Deliveries, f \in Fences : MayEmail(e, f)' <=> MayEmail(e, f)
    BY <1>5 DEF MayEmail
  <2>2. \A e \in Deliveries :
           (\/ delivery'[e].state \in {"absent", "pending"}
            \/ delivery'[e].state = "failed" /\ ~delivery'[e].resolved)
           => \/ delivery[e].state \in {"absent", "pending"}
              \/ delivery[e].state = "failed" /\ ~delivery[e].resolved
    <3> TAKE e \in Deliveries
    <3>1. CASE e = d
      BY <1>2, <3>1
    <3>2. CASE e # d
      BY <1>4, <3>2, RecoveredFacts
    <3>3. QED
      BY <3>1, <3>2
  <2>3. \A f \in Fences : ~MayEmail(d, f)
    BY <1>1 DEF RequestsAreSpent
  <2>4. \A b \in Calls, f \in Fences :
           /\ call'[b].step = "claimed" => ~MayEmail(call'[b].delivery, f)
           /\ call'[b].step = "submitted" /\ MayEmail(call'[b].delivery, f) => f = call'[b].fence
    BY <1>6, <2>3 DEF RequestsAreSpent
  <2>5. \A b \in Calls : call'[b].step \in {"claimed", "submitted"} => call'[b].delivery \in Deliveries
    BY <1>10 DEF CallsAreFenced
  <2>6. QED
    BY <2>1, <2>2, <2>4, <2>5 DEF RequestsAreSpent
<1>12. KeysAreRemembered'
  <2> SUFFICES ASSUME NEW e \in Deliveries, delivery'[e].window = "forgotten"
               PROVE  /\ \A f \in Fences : request'[e][f] # "in_flight"
                      /\ \A b \in Calls : ~Calling(b, e)'
    BY DEF KeysAreRemembered
  <2>1. e # d
    BY <1>2, <1>5 DEF CutoffPassed
  <2>2. delivery[e].window = "forgotten"
    BY <1>4, <2>1, RecoveredFacts
  <2>3. QED
    BY <1>5, <1>8, <2>1, <2>2 DEF KeysAreRemembered
<1>13. EmailsAreAccepted' /\ NoDuplicateEmail'
  BY <1>5 DEF EmailsAreAccepted, NoDuplicateEmail
<1>14. ActiveAttemptIffSending'
  <2> SUFFICES ASSUME NEW e \in Deliveries, NEW f \in Fences
               PROVE  attempt'[e][f].phase \in Active <=>
                         delivery'[e].state = "sending" /\ delivery'[e].revision = f
    BY DEF ActiveAttemptIffSending
  <2>1. CASE e = d
    <3>1. attempt[d] \in [Fences -> AttemptRows]
      BY DEF TypeOK
    <3>2. attempt[d][f].phase \notin Active
      BY <1>1 DEF ActiveAttemptIffSending
    <3>3. attempt'[d][f] = IF f = fence THEN [phase |-> "submitting", quiescent |-> FALSE]
                                        ELSE attempt[d][f]
      BY <1>3, <3>1
    <3>4. QED
      BY <1>2, <2>1, <3>2, <3>3 DEF Active
  <2>2. CASE e # d
    <3>1. Recovered(e)
      BY <1>4, <2>2
    <3>2. attempt[e][f].phase \in Active <=>
             delivery[e].state = "sending" /\ delivery[e].revision = f
      BY DEF ActiveAttemptIffSending
    <3>3. QED
      BY <3>1, <3>2, RecoveredFacts DEF Active, Lapsed
  <2>3. QED
    BY <2>1, <2>2
<1>15. SentWasAccepted'
  <2> SUFFICES ASSUME NEW e \in Deliveries, delivery'[e].state = "sent"
               PROVE  /\ emails'[e] > 0
                      /\ delivery'[e].resolved \/ \E f \in Fences : attempt'[e][f].phase = "accepted"
    BY DEF SentWasAccepted
  <2>1. Recovered(e)
    BY <1>2, <1>4
  <2>2. delivery[e].state = "sent"
    BY <2>1, RecoveredFacts
  <2>3. \A f \in Fences : attempt[e][f].phase = "accepted" => attempt'[e][f].phase = "accepted"
    BY <2>1, RecoveredFacts DEF Active
  <2>4. QED
    BY <1>5, <2>1, <2>2, <2>3, RecoveredFacts DEF SentWasAccepted
<1>16. QED
  BY <1>9, <1>10, <1>11, <1>12, <1>13, <1>14, <1>15 DEF OutboxInv

-----------------------------------------------------------------------------
(* The provider's side of a call.                                          *)

\* A request is submitted for a delivery no earlier request can still email over SMTP.
LEMMA SubmitInv ==
    ASSUME OutboxInv, TypeOK', NEW c \in Calls, Submit(c)
    PROVE  OutboxInv'
<1> USE InvParts
<1> DEFINE d == call[c].delivery
           f == call[c].fence
<1>1. /\ call[c].step = "claimed" /\ UNCHANGED <<delivery, attempt, emails>>
      /\ call' = [call EXCEPT ![c].step = "submitted"]
      /\ request' = [request EXCEPT ![d][f] = "in_flight"]
  BY DEF Submit, rows
<1>2. d \in Deliveries /\ f \in Fences /\ Calling(c, d)
  BY <1>1 DEF CallsAreFenced, Calling
<1>3. /\ call'[c].step = "submitted" /\ call'[c].delivery = d /\ call'[c].fence = f
      /\ \A b \in Calls \ {c} : call'[b] = call[b]
  BY <1>1 DEF TypeOK
<1>4. \A e \in Deliveries, g \in Fences :
         request'[e][g] = IF e = d /\ g = f THEN "in_flight" ELSE request[e][g]
  BY <1>1, <1>2 DEF TypeOK
<1> HIDE DEF d, f
<1>5. \A b \in Calls, e \in Deliveries : Calling(b, e)' <=> Calling(b, e)
  BY <1>2, <1>3 DEF Calling
<1>6. \A b \in Calls : call'[b].fence = call[b].fence /\ call'[b].delivery = call[b].delivery
  BY <1>3 DEF d, f
<1>7. Counted'
  BY <1>1 DEF Counted
<1>8. CallsAreFenced'
  <2>1. \A b \in Calls : call'[b].step \in {"claimed", "submitted"} =>
           call'[b].delivery \in Deliveries /\ call'[b].fence \in Fences
    BY <1>2, <1>3 DEF CallsAreFenced
  <2>2. QED
    BY <1>1, <1>5, <1>6, <2>1 DEF CallsAreFenced
<1>9. RequestsAreSpent'
  <2> SUFFICES ASSUME Adapter = "smtp" PROVE RequestsAreSpent'
    BY DEF RequestsAreSpent
  <2>1. \A g \in Fences : ~MayEmail(d, g)
    BY <1>1 DEF RequestsAreSpent, d
  <2>2. \A e \in Deliveries, g \in Fences :
           MayEmail(e, g)' <=> (e = d /\ g = f) \/ MayEmail(e, g)
    BY <1>2, <1>4 DEF MayEmail
  <2>3. \A e \in Deliveries, g, h \in Fences : MayEmail(e, g)' /\ MayEmail(e, h)' => g = h
    BY <2>1, <2>2 DEF RequestsAreSpent
  <2>4. \A e \in Deliveries :
           (\/ delivery'[e].state \in {"absent", "pending"}
            \/ delivery'[e].state = "failed" /\ ~delivery'[e].resolved)
           => \A g \in Fences : ~MayEmail(e, g)'
    BY <1>1, <1>2, <2>2 DEF RequestsAreSpent, CallsAreFenced
  <2>5. \A b \in Calls, g \in Fences :
           /\ call'[b].step = "claimed" => ~MayEmail(call[b].delivery, g)'
           /\ call'[b].step = "submitted" /\ MayEmail(call[b].delivery, g)' => g = call'[b].fence
    <3> TAKE b \in Calls, g \in Fences
    <3>1. CASE b = c
      <4>1. MayEmail(call[c].delivery, g)' <=> request'[d][g] \in {"in_flight", "accepted"}
        BY <1>3 DEF MayEmail
      <4>2. request'[d][g] \in {"in_flight", "accepted"} => g = f
        BY <1>2, <1>4, <2>1 DEF MayEmail
      <4>3. QED
        BY <1>3, <3>1, <4>1, <4>2
    <3>2. CASE b # c
      <4>1. call'[b] = call[b]
        BY <1>3, <3>2
      <4>2. CASE call[b].step \in {"claimed", "submitted"}
        <5>1. call[b].delivery \in Deliveries /\ Calling(b, call[b].delivery)
          BY <4>2 DEF CallsAreFenced, Calling
        <5>2. call[b].delivery # d
          BY <1>2, <3>2, <5>1 DEF CallsAreFenced
        <5>3. MayEmail(call[b].delivery, g)' <=> MayEmail(call[b].delivery, g)
          BY <1>4, <4>1, <5>1, <5>2 DEF MayEmail
        <5>4. QED
          BY <4>1, <5>3 DEF RequestsAreSpent
      <4>3. CASE call[b].step \notin {"claimed", "submitted"}
        BY <4>1, <4>3
      <4>4. QED
        BY <4>2, <4>3
    <3>3. QED
      BY <3>1, <3>2
  <2>6. QED
    BY <2>3, <2>4, <2>5 DEF RequestsAreSpent
<1>10. KeysAreRemembered'
  <2>1. delivery[d].window # "forgotten"
    BY <1>2 DEF KeysAreRemembered
  <2>2. QED
    BY <1>1, <1>4, <1>5, <2>1 DEF KeysAreRemembered
<1>11. EmailsAreAccepted' /\ NoDuplicateEmail'
  <2>1. Adapter = "smtp" => request[d][f] # "accepted"
    BY <1>1, <1>2 DEF RequestsAreSpent, MayEmail, d
  <2>2. EmailsAreAccepted'
    BY <1>1, <1>4, <2>1 DEF EmailsAreAccepted
  <2>3. QED
    BY <1>1, <2>2 DEF NoDuplicateEmail
<1>12. ActiveAttemptIffSending' /\ SentWasAccepted'
  BY <1>1 DEF ActiveAttemptIffSending, SentWasAccepted
<1>13. QED
  BY <1>7, <1>8, <1>9, <1>10, <1>11, <1>12 DEF OutboxInv

\* The provider's answer to one request.
LEMMA AnsweredInv ==
    ASSUME OutboxInv, TypeOK', NEW d \in Deliveries, NEW f \in Fences,
           request[d][f] = "in_flight",
           NEW answer \in {"accepted", "refused"},
           request' = [request EXCEPT ![d][f] = answer],
           UNCHANGED <<delivery, attempt, call>>,
           EmailsAreAccepted', NoDuplicateEmail',
           \A e \in Deliveries : emails'[e] >= emails[e]
    PROVE  OutboxInv'
<1> USE InvParts
<1>1. \A e \in Deliveries, g \in Fences :
         request'[e][g] = IF e = d /\ g = f THEN answer ELSE request[e][g]
  BY DEF TypeOK
<1>2. \A e \in Deliveries, g \in Fences : MayEmail(e, g)' => MayEmail(e, g)
  BY <1>1 DEF MayEmail
<1>3. Counted' /\ CallsAreFenced' /\ ActiveAttemptIffSending'
  BY DEF Counted, CallsAreFenced, Calling, ActiveAttemptIffSending
<1>4. RequestsAreSpent'
  <2>1. \A b \in Calls : call[b].step \in {"claimed", "submitted"} => call[b].delivery \in Deliveries
    BY DEF CallsAreFenced
  <2>2. QED
    BY <1>2, <2>1 DEF RequestsAreSpent
<1>5. KeysAreRemembered'
  BY <1>1 DEF KeysAreRemembered, Calling
<1>6. SentWasAccepted'
  <2>1. \A e \in Deliveries : emails[e] \in Nat /\ emails'[e] \in Nat
    BY DEF TypeOK
  <2>2. QED
    BY <2>1 DEF SentWasAccepted
<1>7. QED
  BY <1>3, <1>4, <1>5, <1>6 DEF OutboxInv

\* Over SMTP the accepted request is the only one that may email; Resend remembers the key.
LEMMA ProviderAcceptsInv ==
    ASSUME OutboxInv, TypeOK', NEW d \in Deliveries, NEW f \in Fences, ProviderAccepts(d, f)
    PROVE  OutboxInv'
<1> USE InvParts
<1>1. /\ request[d][f] = "in_flight" /\ request' = [request EXCEPT ![d][f] = "accepted"]
      /\ UNCHANGED <<delivery, attempt, call>>
      /\ emails' = [emails EXCEPT ![d] = IF Remembered(d) THEN @ ELSE @ + 1]
  BY DEF ProviderAccepts, rows
<1>2. emails[d] \in Nat /\ \A e \in Deliveries \ {d} : emails'[e] = emails[e]
  BY <1>1 DEF TypeOK
<1>3. emails'[d] = IF Remembered(d) THEN emails[d] ELSE emails[d] + 1
  BY <1>1 DEF TypeOK
<1>4. ~Remembered(d) => emails[d] = 0
  <2>1. CASE Adapter = "smtp"
    <3>1. \A g \in Fences : request[d][g] # "accepted"
      BY <1>1, <2>1 DEF RequestsAreSpent, MayEmail
    <3>2. QED
      BY <1>2, <2>1, <3>1 DEF EmailsAreAccepted
  <2>2. CASE Adapter = "resend"
    <3>1. delivery[d].window # "forgotten"
      BY <1>1 DEF KeysAreRemembered
    <3>2. QED
      BY <1>2, <2>2, <3>1 DEF Remembered
  <2>3. QED
    BY <2>1, <2>2, AdapterAssumption
<1>5. emails'[d] = 1
  <2>1. Remembered(d) => emails[d] > 0
    BY DEF Remembered
  <2>2. QED
    BY <1>2, <1>3, <1>4, <2>1 DEF NoDuplicateEmail
<1>6. NoDuplicateEmail'
  BY <1>2, <1>5 DEF NoDuplicateEmail
<1>7. \A e \in Deliveries : emails'[e] >= emails[e]
  <2>1. \A e \in Deliveries : emails[e] \in Nat
    BY DEF TypeOK
  <2>2. QED
    BY <1>2, <1>3, <2>1
<1>8. EmailsAreAccepted'
  <2>1. \A e \in Deliveries, g \in Fences :
           request'[e][g] = IF e = d /\ g = f THEN "accepted" ELSE request[e][g]
    BY <1>1 DEF TypeOK
  <2>2. QED
    BY <1>2, <1>5, <2>1 DEF EmailsAreAccepted
<1>9. QED
  BY <1>1, <1>6, <1>7, <1>8, AnsweredInv

\* A refused request can email nobody any more.
LEMMA ProviderRefusesInv ==
    ASSUME OutboxInv, TypeOK', NEW d \in Deliveries, NEW f \in Fences, ProviderRefuses(d, f)
    PROVE  OutboxInv'
<1> USE InvParts
<1>1. /\ request[d][f] = "in_flight" /\ request' = [request EXCEPT ![d][f] = "refused"]
      /\ UNCHANGED <<delivery, attempt, call, emails>>
  BY DEF ProviderRefuses, rows
<1>2. \A e \in Deliveries, g \in Fences :
         request'[e][g] = IF e = d /\ g = f THEN "refused" ELSE request[e][g]
  BY <1>1 DEF TypeOK
<1>3. EmailsAreAccepted' /\ NoDuplicateEmail'
  BY <1>1, <1>2 DEF EmailsAreAccepted, NoDuplicateEmail
<1>4. \A e \in Deliveries : emails'[e] >= emails[e]
  BY <1>1 DEF TypeOK
<1>5. QED
  BY <1>1, <1>3, <1>4, AnsweredInv

-----------------------------------------------------------------------------
(* The outcome of a call and the operator's resolution.                    *)

\* A call that still owns its delivery settles the row and its attempt together.
LEMMA OutcomeInv ==
    ASSUME OutboxInv, TypeOK', NEW c \in Calls, call[c].step = "submitted", Owns(c),
           NEW s \in {"pending", "sent", "failed", "manual_reconciliation"}, NEW result,
           NEW p, p \notin Active, NEW quiescent, NEW step \in {"idle", "trip"},
           Settle(c, s, result), Conclude(c, p, quiescent), Finish(c, step),
           UNCHANGED <<request, emails>>,
           s = "pending" => BudgetLeft(call[c].delivery),
           s \in {"pending", "failed"} /\ Adapter = "smtp" => Answer(c) = "refused",
           s = "sent" => Answer(c) = "accepted" /\ p = "accepted"
    PROVE  OutboxInv'
<1> USE InvParts
<1> DEFINE d == call[c].delivery
           f == call[c].fence
<1>1. /\ d \in Deliveries /\ f \in Fences /\ Calling(c, d)
      /\ delivery[d].state = "sending" /\ delivery[d].revision = f
  BY DEF CallsAreFenced, Calling, Owns
<1>2. /\ delivery'[d].state = s /\ delivery'[d].revision = f
      /\ delivery'[d].attempts = delivery[d].attempts
      /\ delivery'[d].resolved = delivery[d].resolved
      /\ delivery'[d].window = delivery[d].window
      /\ \A e \in Deliveries \ {d} : delivery'[e] = delivery[e]
  <2>1. delivery[d] \in DeliveryRows
    BY <1>1 DEF TypeOK
  <2>2. QED
    BY <1>1, <2>1 DEF Settle, TypeOK, DeliveryRows
<1>3. \A e \in Deliveries, g \in Fences :
         attempt'[e][g] = IF e = d /\ g = f THEN [phase |-> p, quiescent |-> quiescent]
                                            ELSE attempt[e][g]
  BY <1>1 DEF Conclude, TypeOK
<1>4. call'[c].step = step /\ \A b \in Calls \ {c} : call'[b] = call[b]
  BY DEF Finish, TypeOK, Idle
<1>5. Answer(c) = request[d][f]
  BY DEF Answer
<1>6. call[c].delivery = d /\ call[c].fence = f
  OBVIOUS
<1> HIDE DEF d, f
<1>7. \A b \in Calls, e \in Deliveries : Calling(b, e)' <=> b # c /\ Calling(b, e)
  BY <1>4 DEF Calling
<1>8. \A b \in Calls, e \in Deliveries : b # c /\ Calling(b, e) => e # d
  BY <1>1 DEF CallsAreFenced
<1>9. Counted'
  <2> SUFFICES ASSUME NEW e \in Deliveries PROVE Counted!(e)'
    BY DEF Counted
  <2>1. CASE e = d
    <3>1. /\ delivery[d].attempts = delivery[d].revision /\ ~delivery[d].resolved
          /\ delivery[d].revision <= MaxAttempts
      BY <1>1, BoundAssumption DEF Counted, Fences
    <3>2. s = "pending" => delivery[d].attempts < MaxAttempts
      BY <1>6 DEF BudgetLeft
    <3>3. QED
      BY <1>1, <1>2, <2>1, <3>1, <3>2
  <2>2. CASE e # d
    BY <1>2, <2>2 DEF Counted
  <2>3. QED
    BY <2>1, <2>2
<1>10. CallsAreFenced'
  BY <1>2, <1>4, <1>7, <1>8 DEF CallsAreFenced
<1>11. RequestsAreSpent'
  <2> SUFFICES ASSUME Adapter = "smtp" PROVE RequestsAreSpent'
    BY DEF RequestsAreSpent
  <2>1. \A e \in Deliveries, g \in Fences : MayEmail(e, g)' <=> MayEmail(e, g)
    BY DEF MayEmail
  <2>2. s \in {"pending", "failed"} => \A g \in Fences : ~MayEmail(d, g)
    BY <1>1, <1>5, <1>6 DEF RequestsAreSpent, MayEmail
  <2>3. \A e \in Deliveries :
           (\/ delivery'[e].state \in {"absent", "pending"}
            \/ delivery'[e].state = "failed" /\ ~delivery'[e].resolved)
           => \A g \in Fences : ~MayEmail(e, g)
    <3> TAKE e \in Deliveries
    <3>1. CASE e = d
      BY <1>2, <2>2, <3>1
    <3>2. CASE e # d
      BY <1>2, <3>2 DEF RequestsAreSpent
    <3>3. QED
      BY <3>1, <3>2
  <2>4. \A b \in Calls, g \in Fences :
           /\ call'[b].step = "claimed" => ~MayEmail(call'[b].delivery, g)
           /\ call'[b].step = "submitted" /\ MayEmail(call'[b].delivery, g) => g = call'[b].fence
    BY <1>4 DEF RequestsAreSpent
  <2>5. \A b \in Calls : call'[b].step \in {"claimed", "submitted"} => call'[b].delivery \in Deliveries
    BY <1>10 DEF CallsAreFenced
  <2>6. QED
    BY <2>1, <2>3, <2>4, <2>5 DEF RequestsAreSpent
<1>12. KeysAreRemembered'
  <2>1. \A e \in Deliveries : delivery'[e].window = delivery[e].window
    BY <1>2
  <2>2. QED
    BY <1>7, <2>1 DEF KeysAreRemembered
<1>13. EmailsAreAccepted' /\ NoDuplicateEmail'
  BY DEF EmailsAreAccepted, NoDuplicateEmail
<1>14. ActiveAttemptIffSending'
  <2> SUFFICES ASSUME NEW e \in Deliveries, NEW g \in Fences
               PROVE  attempt'[e][g].phase \in Active <=>
                         delivery'[e].state = "sending" /\ delivery'[e].revision = g
    BY DEF ActiveAttemptIffSending
  <2>1. CASE e = d
    <3>1. attempt'[e][g].phase \notin Active
      BY <1>1, <1>3, <2>1 DEF ActiveAttemptIffSending
    <3>2. QED
      BY <1>2, <2>1, <3>1
  <2>2. CASE e # d
    BY <1>2, <1>3, <2>2 DEF ActiveAttemptIffSending
  <2>3. QED
    BY <2>1, <2>2
<1>15. SentWasAccepted'
  <2> SUFFICES ASSUME NEW e \in Deliveries, delivery'[e].state = "sent"
               PROVE  /\ emails'[e] > 0
                      /\ delivery'[e].resolved \/ \E g \in Fences : attempt'[e][g].phase = "accepted"
    BY DEF SentWasAccepted
  <2>1. CASE e = d
    <3>1. emails[d] > 0 /\ p = "accepted"
      BY <1>1, <1>2, <1>5, <2>1 DEF EmailsAreAccepted
    <3>2. attempt'[d][f].phase = "accepted"
      BY <1>1, <1>3, <3>1
    <3>3. QED
      BY <1>1, <2>1, <3>1, <3>2
  <2>2. CASE e # d
    BY <1>2, <1>3, <2>2 DEF SentWasAccepted
  <2>3. QED
    BY <2>1, <2>2
<1>16. QED
  BY <1>9, <1>10, <1>11, <1>12, <1>13, <1>14, <1>15 DEF OutboxInv

\* Whatever the adapter reports, the delivery is retried or given up only as OutcomeInv requires.
LEMMA RecordInv ==
    ASSUME OutboxInv, TypeOK', NEW c \in Calls,
           \/ RecordAccepted(c) \/ RecordIndeterminate(c) \/ RecordNotSubmitted(c)
           \/ RecordRejected(c)
           \/ \E kind \in {"not_submitted", "permanent", "ambiguous"} : RecordResend(c, kind)
    PROVE  OutboxInv'
<1>1. CASE RecordAccepted(c)
  BY <1>1, OutcomeInv DEF RecordAccepted, Active
<1>2. CASE RecordIndeterminate(c)
  BY <1>2, OutcomeInv DEF RecordIndeterminate, Active
<1>3. CASE RecordNotSubmitted(c)
  <2>1. CASE BudgetLeft(call[c].delivery)
    BY <1>3, <2>1, OutcomeInv DEF RecordNotSubmitted, Active
  <2>2. CASE ~BudgetLeft(call[c].delivery)
    BY <1>3, <2>2, OutcomeInv DEF RecordNotSubmitted, Active
  <2>3. QED
    BY <2>1, <2>2
<1>4. CASE RecordRejected(c)
  BY <1>4, OutcomeInv DEF RecordRejected, Active
<1>5. ASSUME NEW kind \in {"not_submitted", "permanent", "ambiguous"}, RecordResend(c, kind)
      PROVE  OutboxInv'
  <2> DEFINE phase == IF kind = "not_submitted" THEN "known_not_submitted"
                                                ELSE "acceptance_indeterminate"
             retry == /\ kind # "permanent" /\ delivery[call[c].delivery].window = "open"
                      /\ BudgetLeft(call[c].delivery)
             step  == IF retry THEN "trip" ELSE "idle"
  <2>1. /\ Adapter = "resend" /\ call[c].step = "submitted" /\ Owns(c)
        /\ Finish(c, step) /\ UNCHANGED <<request, emails>>
        /\ \/ BudgetLeft(call[c].delivery) /\ Settle(c, "pending", "none") /\ Conclude(c, phase, TRUE)
           \/ /\ Settle(c, "manual_reconciliation", "none")
              /\ Conclude(c, "manual_reconciliation", TRUE)
           \/ Settle(c, "failed", "none") /\ Conclude(c, phase, TRUE)
           \/ Settle(c, "failed", "provider_rejected") /\ Conclude(c, "provider_rejected", TRUE)
    BY <1>5 DEF RecordResend
  <2>2. phase \notin Active /\ step \in {"idle", "trip"} /\ Adapter # "smtp"
    BY <2>1 DEF Active
  <2> HIDE DEF phase, retry, step
  <2>3. CASE BudgetLeft(call[c].delivery) /\ Settle(c, "pending", "none") /\ Conclude(c, phase, TRUE)
    BY <2>1, <2>2, <2>3, OutcomeInv
  <2>4. CASE /\ Settle(c, "manual_reconciliation", "none")
             /\ Conclude(c, "manual_reconciliation", TRUE)
    BY <2>1, <2>2, <2>4, OutcomeInv DEF Active
  <2>5. CASE Settle(c, "failed", "none") /\ Conclude(c, phase, TRUE)
    BY <2>1, <2>2, <2>5, OutcomeInv
  <2>6. CASE Settle(c, "failed", "provider_rejected") /\ Conclude(c, "provider_rejected", TRUE)
    BY <2>1, <2>2, <2>6, OutcomeInv DEF Active
  <2>7. QED
    BY <2>1, <2>3, <2>4, <2>5, <2>6
<1>6. QED
  BY <1>1, <1>2, <1>3, <1>4, <1>5

\* An operator's decision closes a delivery that no call owns any more.
LEMMA ResolveInv ==
    ASSUME OutboxInv, TypeOK', NEW d \in Deliveries, NEW decision, Resolve(d, decision)
    PROVE  OutboxInv'
<1> USE InvParts
<1>1. /\ delivery[d].state = "manual_reconciliation" /\ UNCHANGED <<attempt, call, request, emails>>
      /\ decision = "provider_accepted" => emails[d] > 0
      /\ \A e \in Deliveries \ {d} : delivery'[e] = delivery[e]
  BY DEF Resolve
<1>2. /\ delivery'[d].state = IF decision = "provider_accepted" THEN "sent" ELSE "failed"
      /\ delivery'[d].resolved /\ delivery'[d].window = delivery[d].window
  BY DEF Resolve, TypeOK, DeliveryRows
<1>3. delivery'[d].state \in {"sent", "failed"}
  BY <1>2
<1>4. Counted'
  BY <1>1, <1>3 DEF Counted
<1>5. CallsAreFenced'
  BY <1>1, <1>2, <1>3 DEF CallsAreFenced, Calling
<1>6. RequestsAreSpent'
  BY <1>1, <1>2, <1>3 DEF RequestsAreSpent, MayEmail
<1>7. KeysAreRemembered'
  BY <1>1, <1>2 DEF KeysAreRemembered, Calling
<1>8. EmailsAreAccepted' /\ NoDuplicateEmail'
  BY <1>1 DEF EmailsAreAccepted, NoDuplicateEmail
<1>9. ActiveAttemptIffSending'
  BY <1>1, <1>3 DEF ActiveAttemptIffSending
<1>10. SentWasAccepted'
  BY <1>1, <1>2 DEF SentWasAccepted
<1>11. QED
  BY <1>4, <1>5, <1>6, <1>7, <1>8, <1>9, <1>10 DEF OutboxInv

-----------------------------------------------------------------------------
(* Type correctness.                                                       *)

\* A row whose fields change within their types is a row.
LEMMA RecoveredTypes ==
    ASSUME TypeOK, NEW d \in Deliveries
    PROVE  RecoveredRow(d) \in DeliveryRows /\ RecoveredAttempts(d) \in [Fences -> AttemptRows]
<1>1. delivery[d] \in DeliveryRows /\ attempt[d] \in [Fences -> AttemptRows]
  BY DEF TypeOK
<1>2. RecoveredRow(d) \in DeliveryRows
  BY <1>1 DEF RecoveredRow, DeliveryRows
<1>3. RecoveredAttempts(d) \in [Fences -> AttemptRows]
  BY <1>1 DEF RecoveredAttempts, AttemptRows
<1>4. QED
  BY <1>2, <1>3

\* Account requests and the end of a verification keep the types.
LEMMA AccountTypes ==
    ASSUME TypeOK, Account
    PROVE  TypeOK'
<1>1. ASSUME NEW d \in Deliveries, AcceptDelivery(d) PROVE TypeOK'
  <2>1. delivery[d] \in DeliveryRows
    BY DEF TypeOK
  <2>2. [delivery[d] EXCEPT !.state = "pending", !.payload = TRUE, !.due = TRUE] \in DeliveryRows
    BY <2>1 DEF DeliveryRows
  <2>3. QED
    BY <1>1, <2>2 DEF AcceptDelivery, TypeOK
<1>2. CASE GlobalLimitExhausted \/ BreakerElapses
  BY <1>2 DEF GlobalLimitExhausted, BreakerElapses, TypeOK
<1>3. ASSUME NEW v \in Verifications, ConsumeVerification(v) PROVE TypeOK'
  <2>1. delivery' \in [Deliveries -> DeliveryRows]
    <3>1. \A d \in Deliveries : Erased(Belonging(v))[d] \in DeliveryRows
      BY ErasedRows
    <3>2. Erased(Belonging(v)) = [d \in Deliveries |-> Erased(Belonging(v))[d]]
      BY DEF Erased
    <3>3. QED
      BY <1>3, <3>1, <3>2 DEF ConsumeVerification
  <2>2. QED
    BY <1>3, <2>1 DEF ConsumeVerification, TypeOK
<1>4. ASSUME NEW v \in Verifications, ExpireVerification(v) PROVE TypeOK'
  BY <1>4 DEF ExpireVerification, TypeOK
<1>5. ASSUME NEW V \in SUBSET Verifications, SweepExpired(V) PROVE TypeOK'
  <2>1. [NoRow EXCEPT !.state = "purged"] \in DeliveryRows
    <3>1. NoRow \in DeliveryRows
      BY BoundAssumption DEF NoRow, DeliveryRows, Windows
    <3>2. QED
      BY <3>1 DEF DeliveryRows
  <2>2. NoAttempts \in [Fences -> AttemptRows]
    BY DEF NoAttempts, AttemptRows
  <2>3. delivery' \in [Deliveries -> DeliveryRows]
    <3> DEFINE D == UNION {Belonging(v) : v \in {w \in Verifications : verification[w] = "expired"}}
               gone == UNION {Belonging(v) : v \in V}
               erased == Erased(D)
    <3>1. \A d \in Deliveries : erased[d] \in DeliveryRows
      BY ErasedRows
    <3>2. delivery' = [d \in Deliveries |-> IF d \in gone THEN [NoRow EXCEPT !.state = "purged"]
                                                          ELSE erased[d]]
      BY <1>5 DEF SweepExpired
    <3> HIDE DEF D, gone, erased
    <3>3. QED
      BY <2>1, <3>1, <3>2
  <2>4. attempt' \in [Deliveries -> [Fences -> AttemptRows]]
    BY <1>5, <2>2 DEF SweepExpired, TypeOK
  <2>5. verification' \in [Verifications -> {"live", "expired", "gone"}]
    BY <1>5 DEF SweepExpired, TypeOK
  <2>6. QED
    BY <1>5, <2>3, <2>4, <2>5 DEF SweepExpired, TypeOK
<1>6. QED
  BY <1>1, <1>2, <1>3, <1>4, <1>5 DEF Account

\* A claim of a pending delivery keeps the types.
LEMMA ClaimTypes ==
    ASSUME OutboxInv, NEW c \in Calls, NEW d \in Deliveries, DispatchClaim(c, d)
    PROVE  TypeOK'
<1> USE InvParts
<1>1. delivery[d] \in DeliveryRows /\ delivery[d].state = "pending"
  BY DEF TypeOK, DispatchClaim, Due
<1>2. delivery[d].revision + 1 \in Fences /\ delivery[d].attempts + 1 \in Fences
  BY <1>1, BoundAssumption DEF Counted, DeliveryRows, Fences
<1>3. ClaimedRow(c, d) \in DeliveryRows
  <2>1. ProcessOf[c] \in Processes /\ transport \in 0 .. MaxTransports
    BY ProcessAssumption, BoundAssumption DEF TypeOK
  <2>2. delivery[d].attempts + 1 \in 0 .. MaxAttempts
        /\ delivery[d].revision + 1 \in 0 .. MaxAttempts + 1
    BY <1>2, BoundAssumption DEF Fences
  <2>3. QED
    BY <1>1, <2>1, <2>2 DEF ClaimedRow, DeliveryRows, Windows
<1>4. delivery' \in [Deliveries -> DeliveryRows]
  BY <1>3, RecoveredTypes DEF DispatchClaim
<1>5. attempt' \in [Deliveries -> [Fences -> AttemptRows]]
  <2>1. [phase |-> "submitting", quiescent |-> FALSE] \in AttemptRows
    BY DEF AttemptRows, Active
  <2>2. [attempt[d] EXCEPT ![delivery[d].revision + 1] = [phase |-> "submitting", quiescent |-> FALSE]]
           \in [Fences -> AttemptRows]
    BY <1>2, <2>1 DEF TypeOK
  <2>3. QED
    BY <2>2, RecoveredTypes DEF DispatchClaim
<1>6. call' \in [Calls -> [step     : {"idle", "claimed", "submitted", "trip"},
                           delivery : Deliveries \union {NoDelivery},
                           fence    : 0 .. MaxAttempts]]
  BY <1>2, BoundAssumption DEF DispatchClaim, TypeOK, Fences
<1>7. QED
  BY <1>4, <1>5, <1>6 DEF DispatchClaim, TypeOK

\* A call that claims, submits, ends or writes an outcome keeps the types.
LEMMA DispatcherTypes ==
    ASSUME OutboxInv, Dispatcher
    PROVE  TypeOK'
<1> USE InvParts
<1>1. ASSUME NEW c \in Calls, DispatchNothing(c) PROVE TypeOK'
  BY <1>1, RecoveredTypes DEF DispatchNothing, TypeOK
<1>2. ASSUME NEW c \in Calls, NEW d \in Deliveries, DispatchAfterCutoff(c, d) PROVE TypeOK'
  <2>1. [delivery[d] EXCEPT !.state = "manual_reconciliation"] \in DeliveryRows
    <3>1. delivery[d] \in DeliveryRows
      BY DEF TypeOK
    <3>2. QED
      BY <3>1 DEF DeliveryRows
  <2>2. QED
    BY <1>2, <2>1, RecoveredTypes DEF DispatchAfterCutoff, TypeOK
<1>3. ASSUME NEW c \in Calls, Heartbeat(c) PROVE TypeOK'
  <2>1. call[c].delivery \in Deliveries
    BY <1>3 DEF Heartbeat, CallsAreFenced
  <2>2. delivery[call[c].delivery] \in DeliveryRows
    BY <2>1 DEF TypeOK
  <2>3. [delivery[call[c].delivery] EXCEPT !.lease = "live"] \in DeliveryRows
    BY <2>2 DEF DeliveryRows
  <2>4. QED
    BY <1>3, <2>1, <2>3 DEF Heartbeat, TypeOK
<1>4. ASSUME NEW c \in Calls, Submit(c) PROVE TypeOK'
  BY <1>4 DEF Submit, TypeOK, rows, CallsAreFenced
<1>5. Idle \in [step : {"idle", "claimed", "submitted", "trip"},
                delivery : Deliveries \union {NoDelivery}, fence : 0 .. MaxAttempts]
  BY BoundAssumption DEF Idle
<1>6. ASSUME NEW c \in Calls, NEW step \in {"idle", "trip"}, Finish(c, step)
      PROVE  call' \in [Calls -> [step     : {"idle", "claimed", "submitted", "trip"},
                                  delivery : Deliveries \union {NoDelivery},
                                  fence    : 0 .. MaxAttempts]]
  BY <1>5, <1>6 DEF Finish, TypeOK
<1>7. ASSUME NEW c \in Calls, TripBreaker(c) \/ PersistenceFails(c) \/ OutcomeTooLate(c)
      PROVE  TypeOK'
  BY <1>6, <1>7 DEF TripBreaker, PersistenceFails, OutcomeTooLate, TypeOK, rows
<1>8. ASSUME NEW c \in Calls, call[c].step = "submitted",
             NEW s \in {"pending", "sent", "failed", "manual_reconciliation"},
             NEW result \in {"none", "provider_accepted", "provider_rejected"},
             NEW p \in {"accepted", "known_not_submitted", "provider_rejected",
                        "acceptance_indeterminate", "manual_reconciliation"},
             NEW quiescent \in BOOLEAN, NEW step \in {"idle", "trip"},
             Settle(c, s, result), Conclude(c, p, quiescent), Finish(c, step),
             UNCHANGED <<verification, breaker, transport, request, emails, crashes>>
      PROVE  TypeOK'
  <2>1. call[c].delivery \in Deliveries /\ call[c].fence \in Fences
    BY <1>8 DEF CallsAreFenced
  <2>2. delivery[call[c].delivery] \in DeliveryRows
    BY <2>1 DEF TypeOK
  <2>3. /\ delivery' = [delivery EXCEPT ![call[c].delivery] = delivery'[call[c].delivery]]
        /\ delivery'[call[c].delivery] \in DeliveryRows
    <3> DEFINE row == delivery[call[c].delivery]
               due == row.due /\ s # "pending"
               payload == row.payload /\ s \notin {"sent", "failed"}
    <3>1. delivery' = [delivery EXCEPT ![call[c].delivery] =
             [row EXCEPT !.state = s, !.result = result, !.owner = NoProcess, !.lease = "none",
                         !.due = due, !.payload = payload]]
      BY <1>8 DEF Settle
    <3>2. due \in BOOLEAN /\ payload \in BOOLEAN
      OBVIOUS
    <3>3. row \in DeliveryRows
      BY <2>2
    <3> HIDE DEF row, due, payload
    <3>4. [row EXCEPT !.state = s, !.result = result, !.owner = NoProcess, !.lease = "none",
                      !.due = due, !.payload = payload] \in DeliveryRows
      BY <3>2, <3>3 DEF DeliveryRows
    <3>5. QED
      BY <2>1, <3>1, <3>4 DEF TypeOK
  <2>4. delivery' \in [Deliveries -> DeliveryRows]
    BY <2>1, <2>3 DEF TypeOK
  <2>5. [phase |-> p, quiescent |-> quiescent] \in AttemptRows
    BY DEF AttemptRows
  <2>6. attempt' \in [Deliveries -> [Fences -> AttemptRows]]
    BY <1>8, <2>1, <2>5 DEF Conclude, TypeOK
  <2>7. call' \in [Calls -> [step     : {"idle", "claimed", "submitted", "trip"},
                             delivery : Deliveries \union {NoDelivery}, fence : 0 .. MaxAttempts]]
    BY <1>6, <1>8
  <2>8. QED
    BY <1>8, <2>4, <2>6, <2>7 DEF TypeOK
<1>9. ASSUME NEW c \in Calls, RecordAccepted(c) PROVE TypeOK'
  BY <1>8, <1>9 DEF RecordAccepted
<1>10. ASSUME NEW c \in Calls, RecordIndeterminate(c) PROVE TypeOK'
  BY <1>8, <1>10 DEF RecordIndeterminate
<1>11. ASSUME NEW c \in Calls, RecordNotSubmitted(c) PROVE TypeOK'
  <2>1. CASE BudgetLeft(call[c].delivery)
    BY <1>8, <1>11, <2>1 DEF RecordNotSubmitted
  <2>2. CASE ~BudgetLeft(call[c].delivery)
    BY <1>8, <1>11, <2>2 DEF RecordNotSubmitted
  <2>3. QED
    BY <2>1, <2>2
<1>12. ASSUME NEW c \in Calls, RecordRejected(c) PROVE TypeOK'
  BY <1>8, <1>12 DEF RecordRejected
<1>13. ASSUME NEW c \in Calls, NEW kind \in {"not_submitted", "permanent", "ambiguous"},
              RecordResend(c, kind)
       PROVE  TypeOK'
  <2> DEFINE phase == IF kind = "not_submitted" THEN "known_not_submitted"
                                                ELSE "acceptance_indeterminate"
             retry == /\ kind # "permanent" /\ delivery[call[c].delivery].window = "open"
                      /\ BudgetLeft(call[c].delivery)
             step  == IF retry THEN "trip" ELSE "idle"
  <2>1. /\ call[c].step = "submitted" /\ Finish(c, step)
        /\ UNCHANGED <<verification, breaker, transport, request, emails, crashes>>
        /\ \/ Settle(c, "pending", "none") /\ Conclude(c, phase, TRUE)
           \/ /\ Settle(c, "manual_reconciliation", "none")
              /\ Conclude(c, "manual_reconciliation", TRUE)
           \/ Settle(c, "failed", "none") /\ Conclude(c, phase, TRUE)
           \/ Settle(c, "failed", "provider_rejected") /\ Conclude(c, "provider_rejected", TRUE)
    BY <1>13 DEF RecordResend
  <2>2. phase \in {"known_not_submitted", "acceptance_indeterminate"} /\ step \in {"idle", "trip"}
    OBVIOUS
  <2> HIDE DEF phase, retry, step
  <2>3. CASE Settle(c, "pending", "none") /\ Conclude(c, phase, TRUE)
    BY <1>8, <2>1, <2>2, <2>3
  <2>4. CASE Settle(c, "manual_reconciliation", "none")
             /\ Conclude(c, "manual_reconciliation", TRUE)
    BY <1>8, <2>1, <2>2, <2>4
  <2>5. CASE Settle(c, "failed", "none") /\ Conclude(c, phase, TRUE)
    BY <1>8, <2>1, <2>2, <2>5
  <2>6. CASE Settle(c, "failed", "provider_rejected") /\ Conclude(c, "provider_rejected", TRUE)
    BY <1>8, <2>1, <2>2, <2>6
  <2>7. QED
    BY <2>1, <2>3, <2>4, <2>5, <2>6
<1>14. ASSUME NEW c \in Calls, Record(c) PROVE TypeOK'
  BY <1>7, <1>9, <1>10, <1>11, <1>12, <1>13, <1>14 DEF Record
<1>15. QED
  BY <1>1, <1>2, <1>3, <1>4, <1>7, <1>14, ClaimTypes DEF Dispatcher, Dispatch

\* The provider and the operator keep the types.
LEMMA ProviderOperatorTypes ==
    ASSUME OutboxInv, Provider \/ Operator
    PROVE  TypeOK'
<1> USE InvParts
<1>1. ASSUME NEW d \in Deliveries, NEW f \in Fences, ProviderAccepts(d, f) \/ ProviderRefuses(d, f)
      PROVE  TypeOK'
  <2>1. \A answer \in {"accepted", "refused"} :
           [request EXCEPT ![d][f] = answer]
              \in [Deliveries -> [Fences -> {"none", "in_flight", "accepted", "refused"}]]
    BY DEF TypeOK
  <2>2. \A n \in Nat : [emails EXCEPT ![d] = n] \in [Deliveries -> Nat]
    BY DEF TypeOK
  <2>3. emails[d] \in Nat
    BY DEF TypeOK
  <2>4. CASE ProviderAccepts(d, f)
    <3>1. emails' = [emails EXCEPT ![d] = IF Remembered(d) THEN emails[d] ELSE emails[d] + 1]
      BY <2>4 DEF ProviderAccepts, TypeOK
    <3>2. emails' \in [Deliveries -> Nat]
      BY <2>2, <2>3, <3>1
    <3>3. QED
      BY <2>1, <2>4, <3>2 DEF ProviderAccepts, TypeOK, rows
  <2>5. CASE ProviderRefuses(d, f)
    BY <2>1, <2>5 DEF ProviderRefuses, TypeOK, rows
  <2>6. QED
    BY <1>1, <2>4, <2>5
<1>2. ASSUME NEW d \in Deliveries,
             NEW decision \in {"provider_accepted", "provider_rejected", "acceptance_unresolved"},
             Resolve(d, decision)
      PROVE  TypeOK'
  <2>1. delivery[d] \in DeliveryRows /\ delivery[d].revision + 1 \in 0 .. MaxAttempts + 1
    <3>1. delivery[d] \in DeliveryRows /\ delivery[d].revision <= MaxAttempts
      BY <1>2 DEF Resolve, TypeOK, Counted
    <3>2. QED
      BY <3>1, BoundAssumption DEF DeliveryRows
  <2>2. \A state \in {"sent", "failed"} :
           [delivery[d] EXCEPT !.state = state, !.result = decision, !.payload = FALSE,
                               !.resolved = TRUE,
                               !.revision = delivery[d].revision + 1] \in DeliveryRows
    BY <2>1 DEF DeliveryRows
  <2>3. \E state \in {"sent", "failed"} :
           delivery' = [delivery EXCEPT ![d] =
              [delivery[d] EXCEPT !.state = state, !.result = decision, !.payload = FALSE,
                                  !.resolved = TRUE, !.revision = delivery[d].revision + 1]]
    <3> DEFINE state == IF decision = "provider_accepted" THEN "sent" ELSE "failed"
    <3>1. delivery' = [delivery EXCEPT ![d] =
             [delivery[d] EXCEPT !.state = state, !.result = decision, !.payload = FALSE,
                                 !.resolved = TRUE, !.revision = delivery[d].revision + 1]]
      BY <1>2 DEF Resolve
    <3>2. state \in {"sent", "failed"}
      OBVIOUS
    <3> HIDE DEF state
    <3>3. QED
      BY <3>1, <3>2
  <2>4. delivery' \in [Deliveries -> DeliveryRows]
    BY <2>2, <2>3 DEF TypeOK
  <2>5. QED
    BY <1>2, <2>4 DEF Resolve, TypeOK
<1>3. QED
  BY <1>1, <1>2 DEF Provider, Operator

\* Rows on which only a flag of time changes: what SameRowsInv and the types need.
LEMMA FlagRows ==
    ASSUME OutboxInv, NEW d \in Deliveries, NEW row \in DeliveryRows,
           row.state = delivery[d].state, row.revision = delivery[d].revision,
           row.attempts = delivery[d].attempts, row.resolved = delivery[d].resolved,
           row.window = "forgotten" =>
              \/ delivery[d].window = "forgotten"
              \/ /\ \A f \in Fences : request[d][f] # "in_flight"
                 /\ \A c \in Calls : ~Calling(c, d),
           delivery' = [delivery EXCEPT ![d] = row],
           UNCHANGED <<attempt, verification, breaker, transport, call, request, emails, crashes>>
    PROVE  OutboxInv'
<1> USE InvParts
<1>1. TypeOK'
  BY DEF TypeOK
<1>2. \A e \in Deliveries : SameRow(e)
  BY DEF SameRow, TypeOK
<1>3. QED
  BY <1>1, <1>2, SameRowsInv

\* Time passes, configurations change and processes crash: none of it breaks the invariant.
LEMMA EnvironmentInv ==
    ASSUME OutboxInv, Environment
    PROVE  OutboxInv'
<1> USE InvParts
<1>1. ASSUME NEW d \in Deliveries, LeaseLapses(d) PROVE OutboxInv'
  <2> DEFINE row == [delivery[d] EXCEPT !.lease = "lapsed"]
  <2>1. delivery[d] \in DeliveryRows
    BY DEF TypeOK
  <2>2. /\ row \in DeliveryRows /\ row.state = delivery[d].state
        /\ row.revision = delivery[d].revision /\ row.attempts = delivery[d].attempts
        /\ row.resolved = delivery[d].resolved /\ row.window = delivery[d].window
    BY <2>1 DEF DeliveryRows, Windows
  <2>3. delivery' = [delivery EXCEPT ![d] = row]
    BY <1>1 DEF LeaseLapses
  <2> HIDE DEF row
  <2>4. UNCHANGED <<attempt, verification, breaker, transport, call, request, emails, crashes>>
    BY <1>1 DEF LeaseLapses
  <2>5. QED
    BY <2>2, <2>3, <2>4, FlagRows
<1>2. ASSUME NEW d \in Deliveries, DeadlinePasses(d) PROVE OutboxInv'
  <2> DEFINE row == [delivery[d] EXCEPT !.deadline = TRUE]
  <2>1. delivery[d] \in DeliveryRows
    BY DEF TypeOK
  <2>2. /\ row \in DeliveryRows /\ row.state = delivery[d].state
        /\ row.revision = delivery[d].revision /\ row.attempts = delivery[d].attempts
        /\ row.resolved = delivery[d].resolved /\ row.window = delivery[d].window
    BY <2>1 DEF DeliveryRows, Windows
  <2>3. delivery' = [delivery EXCEPT ![d] = row]
    BY <1>2 DEF DeadlinePasses
  <2> HIDE DEF row
  <2>4. UNCHANGED <<attempt, verification, breaker, transport, call, request, emails, crashes>>
    BY <1>2 DEF DeadlinePasses
  <2>5. QED
    BY <2>2, <2>3, <2>4, FlagRows
<1>3. ASSUME NEW d \in Deliveries, BecomesDue(d) PROVE OutboxInv'
  <2> DEFINE row == [delivery[d] EXCEPT !.due = TRUE]
  <2>1. delivery[d] \in DeliveryRows
    BY DEF TypeOK
  <2>2. /\ row \in DeliveryRows /\ row.state = delivery[d].state
        /\ row.revision = delivery[d].revision /\ row.attempts = delivery[d].attempts
        /\ row.resolved = delivery[d].resolved /\ row.window = delivery[d].window
    BY <2>1 DEF DeliveryRows, Windows
  <2>3. delivery' = [delivery EXCEPT ![d] = row]
    BY <1>3 DEF BecomesDue
  <2> HIDE DEF row
  <2>4. UNCHANGED <<attempt, verification, breaker, transport, call, request, emails, crashes>>
    BY <1>3 DEF BecomesDue
  <2>5. QED
    BY <2>2, <2>3, <2>4, FlagRows
<1>4. ASSUME NEW d \in Deliveries, CutoffElapses(d) PROVE OutboxInv'
  <2> DEFINE row == [delivery[d] EXCEPT !.window = "elapsed"]
  <2>1. delivery[d] \in DeliveryRows
    BY DEF TypeOK
  <2>2. /\ row \in DeliveryRows /\ row.state = delivery[d].state
        /\ row.revision = delivery[d].revision /\ row.attempts = delivery[d].attempts
        /\ row.resolved = delivery[d].resolved /\ row.window # "forgotten"
    BY <2>1 DEF DeliveryRows, Windows
  <2>3. delivery' = [delivery EXCEPT ![d] = row]
    BY <1>4 DEF CutoffElapses
  <2> HIDE DEF row
  <2>4. UNCHANGED <<attempt, verification, breaker, transport, call, request, emails, crashes>>
    BY <1>4 DEF CutoffElapses
  <2>5. QED
    BY <2>2, <2>3, <2>4, FlagRows
<1>5. ASSUME NEW d \in Deliveries, ProviderForgets(d) PROVE OutboxInv'
  <2> DEFINE row == [delivery[d] EXCEPT !.window = "forgotten"]
  <2>1. delivery[d] \in DeliveryRows
    BY DEF TypeOK
  <2>2. /\ row \in DeliveryRows /\ row.state = delivery[d].state
        /\ row.revision = delivery[d].revision /\ row.attempts = delivery[d].attempts
        /\ row.resolved = delivery[d].resolved
    BY <2>1 DEF DeliveryRows, Windows
  <2>3. delivery' = [delivery EXCEPT ![d] = row]
    BY <1>5 DEF ProviderForgets
  <2>4. \A c \in Calls : ~Calling(c, d)
    BY <1>5 DEF ProviderForgets, Calling
  <2> HIDE DEF row
  <2>5. \A f \in Fences : request[d][f] # "in_flight"
    BY <1>5 DEF ProviderForgets
  <2>6. UNCHANGED <<attempt, verification, breaker, transport, call, request, emails, crashes>>
    BY <1>5 DEF ProviderForgets
  <2>7. QED
    BY <2>2, <2>3, <2>4, <2>5, <2>6, FlagRows
<1>6. CASE ChangeTransport
  <2>1. TypeOK'
    BY <1>6, BoundAssumption DEF ChangeTransport, TypeOK, rows
  <2>2. QED
    BY <1>6, <2>1, SameRowsInv DEF ChangeTransport, SameRow, rows
<1>7. ASSUME NEW p \in Processes, Crash(p) PROVE OutboxInv'
  <2>1. Idle \in [step : {"idle", "claimed", "submitted", "trip"},
                  delivery : Deliveries \union {NoDelivery}, fence : 0 .. MaxAttempts]
        /\ Idle.step = "idle"
    BY BoundAssumption DEF Idle
  <2>2. TypeOK'
    BY <1>7, <2>1, BoundAssumption DEF Crash, TypeOK, rows
  <2>3. QED
    BY <1>7, <2>1, <2>2, SameRowsInv DEF Crash, SameRow, rows
<1>8. QED
  BY <1>1, <1>2, <1>3, <1>4, <1>5, <1>6, <1>7 DEF Environment

-----------------------------------------------------------------------------
(* The invariant.                                                          *)

\* Every account request, sweep and expiry preserves the invariant.
LEMMA AccountInv ==
    ASSUME OutboxInv, Account
    PROVE  OutboxInv'
<1> USE InvParts
<1>1. TypeOK'
  BY AccountTypes
<1>2. CASE \E d \in Deliveries : AcceptDelivery(d)
  BY <1>1, <1>2, AcceptInv
<1>3. CASE GlobalLimitExhausted \/ BreakerElapses
  BY <1>1, <1>3, SameRowsInv DEF GlobalLimitExhausted, BreakerElapses, SameRow
<1>4. ASSUME NEW v \in Verifications, ConsumeVerification(v) PROVE OutboxInv'
  <2>1. \A d \in Deliveries : SameRow(d)
    BY <1>4, ErasedRows DEF ConsumeVerification, SameRow
  <2>2. QED
    BY <1>1, <1>4, <2>1, SameRowsInv DEF ConsumeVerification
<1>5. ASSUME NEW v \in Verifications, ExpireVerification(v) PROVE OutboxInv'
  BY <1>1, <1>5, SameRowsInv DEF ExpireVerification, SameRow
<1>6. CASE \E V \in SUBSET Verifications : SweepExpired(V)
  BY <1>1, <1>6, SweepInv
<1>7. QED
  BY <1>2, <1>3, <1>4, <1>5, <1>6 DEF Account

\* So does every step of a dispatch call, by any process.
LEMMA DispatcherInv ==
    ASSUME OutboxInv, Dispatcher
    PROVE  OutboxInv'
<1> USE InvParts
<1>1. TypeOK'
  BY DispatcherTypes
<1>2. ASSUME NEW c \in Calls, DispatchNothing(c) PROVE OutboxInv'
  BY <1>1, <1>2, HandOverInv DEF DispatchNothing, Recovered
<1>3. ASSUME NEW c \in Calls, NEW d \in Deliveries, DispatchAfterCutoff(c, d) PROVE OutboxInv'
  <2>1. \A e \in Deliveries :
           \/ Recovered(e)
           \/ /\ delivery[e].state = "pending" /\ attempt'[e] = RecoveredAttempts(e)
              /\ delivery'[e] = [delivery[e] EXCEPT !.state = "manual_reconciliation"]
    BY <1>3 DEF DispatchAfterCutoff, Recovered, Due
  <2>2. UNCHANGED <<call, request, emails>>
    BY <1>3 DEF DispatchAfterCutoff
  <2>3. QED
    BY <1>1, <2>1, <2>2, HandOverInv
<1>4. ASSUME NEW c \in Calls, NEW d \in Deliveries, DispatchClaim(c, d) PROVE OutboxInv'
  BY <1>1, <1>4, ClaimInv
<1>5. ASSUME NEW c \in Calls, Heartbeat(c) PROVE OutboxInv'
  <2>1. call[c].delivery \in Deliveries
    BY <1>5 DEF Heartbeat, CallsAreFenced
  <2>2. delivery[call[c].delivery] \in DeliveryRows
    BY <2>1 DEF TypeOK
  <2>3. [delivery[call[c].delivery] EXCEPT !.lease = "live"] \in DeliveryRows
    BY <2>2 DEF DeliveryRows
  <2>4. QED
    BY <1>5, <2>1, <2>2, <2>3, FlagRows DEF Heartbeat, DeliveryRows
<1>6. ASSUME NEW c \in Calls, Submit(c) PROVE OutboxInv'
  BY <1>1, <1>6, SubmitInv
<1>7. ASSUME NEW c \in Calls, OutcomeTooLate(c) \/ TripBreaker(c) \/ PersistenceFails(c)
      PROVE  OutboxInv'
  <2>1. \A b \in Calls : call'[b] = call[b] \/ call'[b].step \notin {"claimed", "submitted"}
    BY <1>7 DEF OutcomeTooLate, TripBreaker, PersistenceFails, Finish, Idle, TypeOK
  <2>2. UNCHANGED <<delivery, attempt, request, emails>>
    BY <1>7 DEF OutcomeTooLate, TripBreaker, PersistenceFails, rows
  <2>3. QED
    BY <1>1, <2>1, <2>2, SameRowsInv DEF SameRow
<1>8. ASSUME NEW c \in Calls, Record(c) PROVE OutboxInv'
  BY <1>1, <1>7, <1>8, RecordInv DEF Record
<1>9. QED
  BY <1>2, <1>3, <1>4, <1>5, <1>6, <1>7, <1>8 DEF Dispatcher, Dispatch

\* Every step of the system preserves the invariant.
LEMMA NextInv == OutboxInv /\ [Next]_vars => OutboxInv'
<1> SUFFICES ASSUME OutboxInv, [Next]_vars PROVE OutboxInv'
  OBVIOUS
<1> USE InvParts
<1>1. CASE Account
  BY <1>1, AccountInv
<1>2. CASE Dispatcher
  BY <1>2, DispatcherInv
<1>3. CASE Provider
  BY <1>3, ProviderOperatorTypes, ProviderAcceptsInv, ProviderRefusesInv DEF Provider
<1>4. CASE Operator
  BY <1>4, ProviderOperatorTypes, ResolveInv DEF Operator
<1>5. CASE Environment
  BY <1>5, EnvironmentInv
<1>6. CASE UNCHANGED vars
  <2>1. TypeOK'
    BY <1>6 DEF vars, rows, TypeOK
  <2>2. QED
    BY <1>6, <2>1, SameRowsInv DEF vars, rows, SameRow
<1>7. QED
  BY <1>1, <1>2, <1>3, <1>4, <1>5, <1>6 DEF Next

\* Every step writes at most one outcome over a settled one: its purge or an operator's decision.
LEMMA OutcomeStep ==
    ASSUME OutboxInv, [Next]_vars, NEW d \in Deliveries
    PROVE  /\ delivery[d].state \in {"sent", "failed"} /\ delivery'[d].state # "purged" =>
                 /\ delivery'[d].state = delivery[d].state
                 /\ delivery'[d].result = delivery[d].result
                 /\ delivery'[d].revision = delivery[d].revision
           /\ /\ delivery[d].state = "manual_reconciliation"
              /\ delivery'[d].state \notin {delivery[d].state, "purged"}
              => delivery'[d].resolved
<1> USE InvParts
<1> DEFINE Kept == /\ delivery'[d].state = delivery[d].state
                   /\ delivery'[d].result = delivery[d].result
                   /\ delivery'[d].revision = delivery[d].revision
           Open == delivery[d].state \notin {"sent", "failed", "manual_reconciliation"}
           Allowed == \/ Kept \/ Open \/ delivery'[d].state = "purged"
                      \/ delivery[d].state = "manual_reconciliation" /\ delivery'[d].resolved
<1>1. delivery[d] \in DeliveryRows
  BY DEF TypeOK
<1>2. SUFFICES Allowed
  OBVIOUS
<1>3. Recovered(d) => Allowed
  BY <1>1 DEF Recovered, RecoveredRow, Lapsed, DeliveryRows
<1>4. CASE Account
  <2>1. CASE \E e \in Deliveries : AcceptDelivery(e)
    BY <1>1, <2>1, DeliveriesAssumption DEF AcceptDelivery, TypeOK
  <2>2. CASE GlobalLimitExhausted \/ BreakerElapses \/ \E v \in Verifications : ExpireVerification(v)
    BY <2>2 DEF GlobalLimitExhausted, BreakerElapses, ExpireVerification
  <2>3. \A D : /\ Erased(D)[d].state = delivery[d].state
               /\ Erased(D)[d].result = delivery[d].result
               /\ Erased(D)[d].revision = delivery[d].revision
    BY <1>1 DEF Erased, DeliveryRows
  <2>4. CASE \E v \in Verifications : ConsumeVerification(v)
    BY <2>3, <2>4 DEF ConsumeVerification
  <2>5. ASSUME NEW V \in SUBSET Verifications, SweepExpired(V) PROVE Allowed
    <3> DEFINE gone == UNION {Belonging(v) : v \in V}
    <3>1. CASE d \in gone
      BY <2>5, <3>1 DEF SweepExpired, NoRow
    <3>2. CASE d \notin gone
      BY <2>3, <2>5, <3>2 DEF SweepExpired
    <3>3. QED
      BY <3>1, <3>2
  <2>6. QED
    BY <1>4, <2>1, <2>2, <2>4, <2>5 DEF Account
<1>5. CASE Dispatcher
  <2>1. ASSUME NEW c \in Calls, DispatchNothing(c) PROVE Allowed
    BY <1>3, <2>1 DEF DispatchNothing, Recovered
  <2>2. ASSUME NEW c \in Calls, NEW e \in Deliveries, Dispatch(c, e) PROVE Allowed
    <3>1. CASE d = e
      BY <2>2, <3>1 DEF Dispatch, DispatchAfterCutoff, DispatchClaim, Due
    <3>2. CASE d # e
      <4>1. Recovered(d)
        BY <2>2, <3>2 DEF Dispatch, DispatchAfterCutoff, DispatchClaim, Recovered
      <4>2. QED
        BY <1>3, <4>1
    <3>3. QED
      BY <3>1, <3>2
  <2>3. ASSUME NEW c \in Calls, Heartbeat(c) PROVE Allowed
    BY <1>1, <2>3 DEF Heartbeat, TypeOK, DeliveryRows
  <2>4. ASSUME NEW c \in Calls, \/ Submit(c) \/ TripBreaker(c) \/ PersistenceFails(c)
                                \/ OutcomeTooLate(c)
        PROVE  Allowed
    BY <2>4 DEF Submit, TripBreaker, PersistenceFails, OutcomeTooLate, rows
  <2>5. ASSUME NEW c \in Calls, NEW s, NEW result, Owns(c), Settle(c, s, result) PROVE Allowed
    BY <2>5 DEF Owns, Settle, TypeOK
  <2>6. ASSUME NEW c \in Calls, Record(c) PROVE Allowed
    BY <2>4, <2>5, <2>6 DEF Record, RecordAccepted, RecordIndeterminate, RecordNotSubmitted,
       RecordRejected, RecordResend
  <2>7. QED
    BY <1>5, <2>1, <2>2, <2>3, <2>4, <2>6 DEF Dispatcher
<1>6. CASE Provider
  BY <1>6 DEF Provider, ProviderAccepts, ProviderRefuses, rows
<1>7. CASE Operator
  <2>1. ASSUME NEW e \in Deliveries, NEW decision, Resolve(e, decision) PROVE Allowed
    BY <1>1, <2>1 DEF Resolve, TypeOK, DeliveryRows
  <2>2. QED
    BY <1>7, <2>1 DEF Operator
<1>8. CASE Environment
  <2>1. CASE ChangeTransport \/ \E p \in Processes : Crash(p)
    BY <2>1 DEF ChangeTransport, Crash, rows
  <2>2. ASSUME NEW e \in Deliveries, LeaseLapses(e) PROVE Allowed
    BY <1>1, <2>2 DEF LeaseLapses, TypeOK, DeliveryRows
  <2>3. ASSUME NEW e \in Deliveries, DeadlinePasses(e) PROVE Allowed
    BY <1>1, <2>3 DEF DeadlinePasses, TypeOK, DeliveryRows
  <2>4. ASSUME NEW e \in Deliveries, BecomesDue(e) PROVE Allowed
    BY <1>1, <2>4 DEF BecomesDue, TypeOK, DeliveryRows
  <2>5. ASSUME NEW e \in Deliveries, CutoffElapses(e) PROVE Allowed
    BY <1>1, <2>5 DEF CutoffElapses, TypeOK, DeliveryRows
  <2>6. ASSUME NEW e \in Deliveries, ProviderForgets(e) PROVE Allowed
    BY <1>1, <2>6 DEF ProviderForgets, TypeOK, DeliveryRows
  <2>7. QED
    BY <1>8, <2>1, <2>2, <2>3, <2>4, <2>5, <2>6 DEF Environment
<1>9. CASE UNCHANGED vars
  BY <1>9 DEF vars, rows
<1>10. QED
  BY <1>4, <1>5, <1>6, <1>7, <1>8, <1>9 DEF Next

-----------------------------------------------------------------------------
(* What holds in every behaviour.                                          *)

\* The outbox, its calls and the provider stay within the inductive invariant.
THEOREM OutboxInvariance == Spec => []OutboxInv
<1>1. Init => OutboxInv
  BY InitInv
<1>2. OutboxInv /\ [Next]_vars => OutboxInv'
  BY NextInv
<1>3. QED
  BY <1>1, <1>2, PTL DEF Spec

\* Every row of the outbox, and every call of the dispatcher, keeps its type: no claim exceeds
\* the attempt budget.
THEOREM TypeCorrect == Spec => []TypeOK
<1>1. OutboxInv => TypeOK
  BY InvParts
<1>2. QED
  BY <1>1, OutboxInvariance, PTL

\* No account receives a delivery twice, whatever dispatchOneAuthenticationEmail retries,
\* replays or recovers, for any number of processes, calls and attempts.
THEOREM NoDuplicates == Spec => []NoDuplicateEmail
<1>1. OutboxInv => NoDuplicateEmail
  BY InvParts
<1>2. QED
  BY <1>1, OutboxInvariance, PTL

\* The delivery row and the attempt row of its fence are updated together by every claim,
\* recovery and outcome.
THEOREM RowsAgree == Spec => []ActiveAttemptIffSending
<1>1. OutboxInv => ActiveAttemptIffSending
  BY InvParts
<1>2. QED
  BY <1>1, OutboxInvariance, PTL

\* A delivery is recorded as sent only after the provider accepted it.
THEOREM SentIsTrue == Spec => []SentWasAccepted
<1>1. OutboxInv => SentWasAccepted
  BY InvParts
<1>2. QED
  BY <1>1, OutboxInvariance, PTL

\* Over SMTP, what the dispatcher gave up or will send again was not emailed and is not on its
\* way (over Resend a call that failed ambiguously may have been accepted).
THEOREM SmtpNeverFailsEmailed == ASSUME Adapter = "smtp" PROVE Spec => []NotEmailedUnlessRecorded
<1>1. ASSUME OutboxInv PROVE NotEmailedUnlessRecorded
  <2> SUFFICES ASSUME NEW d \in Deliveries,
                      \/ delivery[d].state = "pending"
                      \/ delivery[d].state = "failed" /\ ~delivery[d].resolved
               PROVE  emails[d] = 0 /\ \A f \in Fences : request[d][f] # "in_flight"
    BY DEF NotEmailedUnlessRecorded
  <2>1. \A f \in Fences : ~MayEmail(d, f)
    BY <1>1, InvParts DEF RequestsAreSpent
  <2>2. emails[d] \in Nat
    BY <1>1, InvParts DEF TypeOK
  <2>3. QED
    BY <1>1, <2>1, <2>2, InvParts DEF MayEmail, EmailsAreAccepted
<1>2. QED
  BY <1>1, OutboxInvariance, PTL

\* An outcome is recorded once: late answers, recovery and repeated decisions change no sent or
\* failed row, and only the operator closes what was handed over.
THEOREM OutcomesAreFinal == Spec => OutcomeRecordedOnce
<1>1. OutboxInv /\ [Next]_vars =>
         [\A d \in Deliveries :
             LET row == delivery[d] new == delivery'[d] IN
             /\ row.state \in {"sent", "failed"} /\ new.state # "purged" =>
                   new.state = row.state /\ new.result = row.result /\ new.revision = row.revision
             /\ row.state = "manual_reconciliation" /\ new.state \notin {row.state, "purged"} =>
                   new.resolved]_vars
  BY OutcomeStep
<1>2. QED
  BY <1>1, OutboxInvariance, PTL DEF Spec, OutcomeRecordedOnce
=============================================================================
