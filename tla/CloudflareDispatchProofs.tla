---------------------- MODULE CloudflareDispatchProofs ----------------------
(***************************************************************************)
(* Proofs about CloudflareDispatch, for any number of jobs, invocations,   *)
(* consumers, slots and faults: the grants of the thumbnail lane and its   *)
(* thumbnails follow the attempts, and a wake that was handed off is not   *)
(* published again.                                                        *)
(***************************************************************************)
EXTENDS CloudflareDispatch, FiniteSetTheorems, TLAPS

JobRow ==
    [state : {"none", "queued", "running", "completed", "failed", "cancelled", "removed"},
     due : BOOLEAN, attempt : Nat, lease : Nat, live : BOOLEAN, issued : Nat, output : BOOLEAN,
     attempting : BOOLEAN, capture : BOOLEAN, version : BOOLEAN, thumbnail : Nat]
GrantRow  == [attempt : Nat, serial : Nat, used : BOOLEAN, valid : BOOLEAN]
OutboxRow ==
    [state : {"none", "pending", "publishing", "published"}, wake : Nat, fence : Nat]
InvocationRow ==
    [at : {"off", "wakes", "drain", "claim"}]
        \union [at : {"send", "sent", "unsent"}, job : Jobs, wake : Nat, fence : Nat]
ConsumerRow ==
    [at : {"off"}]
        \union [at : {"authorized", "started"}, job : Jobs, wake : Nat, fence : Nat,
                attempt : Nat, serial : Nat]
        \union [at : {"prepared"}, job : Thumbnails, wake : Nat, fence : Nat,
                attempt : Nat, serial : Nat]
SlotRow ==
    [at : {"off", "draining", "leaving"}]
        \union [at : {"booting", "rendering", "uploaded", "committing"}, job : Thumbnails,
                attempt : Nat, serial : Nat]
        \union [at : {"working"}, job : Processing, attempt : Nat]

\* Every variable keeps its type; only a thumbnail job is prepared and rendered.
TypesOK ==
    /\ job \in [Jobs -> JobRow]
    /\ grants \in [Thumbnails -> SUBSET GrantRow]
    /\ outbox \in [Jobs -> OutboxRow]
    /\ handoffs \subseteq [job : Jobs, wake : Nat, fence : Nat]
    /\ queue \subseteq [job : Jobs, wake : Nat]
    /\ invocation \in [Invocations -> InvocationRow]
    /\ consumer \in [Consumers -> ConsumerRow]
    /\ slot \in [Slots -> SlotRow]

\* What GrantsAreCurrent, without its cardinality, and ThumbnailsAgree say of a thumbnail
\* job and its grants, and that an attempt that runs has a number.
Follows(row, held) ==
    /\ \A g, h \in held : g = h
    /\ \A g \in held : /\ g.attempt = row.attempt
                       /\ row.state \in {"running", "completed", "cancelled"}
    /\ row.state = "running" => held # {}
    /\ row.thumbnail # None =>
          /\ row.thumbnail = row.attempt /\ ~row.attempting
          /\ row.state \in {"completed", "cancelled"}
    /\ row.state = "completed" => row.thumbnail # None
    /\ row.state = "running" => row.attempting
    /\ row.attempting => row.state \in {"running", "cancelled"} /\ row.attempt # None

RowsFollow == \A j \in Thumbnails : Follows(job[j], grants[j])

\* A wake is numbered by a fence the row has had, and a row on its way out has one.
WakesAreNumbered ==
    /\ \A j \in Jobs :
          /\ outbox[j].wake <= outbox[j].fence
          /\ outbox[j].state \in {"publishing", "published"} => outbox[j].wake # None
    /\ \A h \in handoffs : h.wake # None /\ h.wake <= outbox[h.job].fence

\* A job has no row before it is inserted.
NoRowYet == \A j \in Jobs : job[j].state = "none" => outbox[j].state = "none"

DispatchInv == TypesOK /\ NoRowYet /\ RowsFollow /\ WakesAreNumbered /\ HandedOffOnce
-----------------------------------------------------------------------------
(* Types. *)

LEMMA InitTypes == Init => TypesOK
BY DEF Init, TypesOK, JobRow, GrantRow, OutboxRow, InvocationRow, ConsumerRow, SlotRow, Off, None, Jobs

\* A row of a job that is over or waits again.
LEMMA OverType ==
    ASSUME TypesOK, NEW j \in Jobs,
           NEW state \in {"queued", "completed", "failed", "cancelled", "removed"}
    PROVE  LET row == Over(j, state)
           IN  /\ row \in JobRow
               /\ row.state = state /\ ~row.attempting
               /\ row.attempt = job[j].attempt /\ row.thumbnail = job[j].thumbnail
<1>1. (job[j].version /\ state = "queued") \in BOOLEAN /\ job[j] \in JobRow
  BY DEF TypesOK, JobRow
<1>2. QED
  BY <1>1 DEF JobRow, Over, None

LEMMA RequeuedType ==
    ASSUME NEW row \in OutboxRow
    PROVE  /\ Requeued(row) \in OutboxRow
           /\ row.state # "published" => Requeued(row) = row
           /\ row.state = "published" =>
                Requeued(row) = [state |-> "pending", wake |-> None, fence |-> row.fence]
BY DEF Requeued, OutboxRow, None

\* What an invocation does keeps the types.
LEMMA ScheduledTypes ==
    ASSUME TypesOK, NEW i \in Invocations, Scheduled(i) \/ SendFails(i) \/ InvocationCrashes(i)
    PROVE  TypesOK'
<1>1. ASSUME RecoverLeases(i) PROVE TypesOK'
  <2> USE <1>1 DEF RecoverLeases
  <2>1. job' \in [Jobs -> JobRow]
    BY OverType DEF TypesOK
  <2>2. outbox' \in [Jobs -> OutboxRow]
    BY RequeuedType DEF TypesOK
  <2>3. grants' \in [Thumbnails -> SUBSET GrantRow]
    BY DEF TypesOK, Surviving
  <2>4. invocation' \in [Invocations -> InvocationRow]
    BY DEF TypesOK, Goto, At, InvocationRow
  <2>5. QED
    BY <2>1, <2>2, <2>3, <2>4 DEF TypesOK
<1>2. ASSUME RecoverWakes(i) PROVE TypesOK'
  <2> USE <1>2 DEF RecoverWakes
  <2>1. outbox' \in [Jobs -> OutboxRow]
    BY RequeuedType DEF TypesOK
  <2>2. invocation' \in [Invocations -> InvocationRow]
    BY DEF TypesOK, Goto, At, InvocationRow
  <2>3. QED
    BY <2>1, <2>2 DEF TypesOK, jobs
<1>3. ASSUME ReturnExpired(i) PROVE TypesOK'
  <2> USE <1>3 DEF ReturnExpired
  <2>1. \A j \in Jobs : [outbox[j] EXCEPT !.state = "pending"] \in OutboxRow
    BY DEF TypesOK, OutboxRow
  <2>2. outbox' \in [Jobs -> OutboxRow]
    BY <2>1 DEF TypesOK
  <2>3. invocation' \in [Invocations -> InvocationRow]
    BY DEF TypesOK, Goto, At, InvocationRow
  <2>4. QED
    BY <2>2, <2>3 DEF TypesOK, jobs
<1>4. ASSUME NEW j \in Jobs, Claim(i, j) PROVE TypesOK'
  <2>1. WakeOf(outbox[j]) \in Nat /\ outbox[j].fence + 1 \in Nat
    BY DEF TypesOK, OutboxRow, WakeOf, None
  <2>2. outbox' \in [Jobs -> OutboxRow]
    BY <1>4, <2>1 DEF Claim, TypesOK, OutboxRow
  <2>3. invocation' \in [Invocations -> InvocationRow]
    BY <1>4, <2>1 DEF Claim, TypesOK, Goto, InvocationRow
  <2>4. QED
    BY <1>4, <2>2, <2>3 DEF Claim, TypesOK, jobs
<1>5. ASSUME Drained(i) \/ InvocationCrashes(i) PROVE TypesOK'
  BY <1>5 DEF Drained, InvocationCrashes, TypesOK, Goto, Off, InvocationRow, jobs, dispatch
<1>6. ASSUME Send(i) \/ SendFails(i) PROVE TypesOK'
  <2>1. invocation[i] \in [at : {"send"}, job : Jobs, wake : Nat, fence : Nat]
    BY <1>6 DEF Send, SendFails, TypesOK, InvocationRow
  <2>2. Message(invocation[i].job, invocation[i].wake) \in [job : Jobs, wake : Nat]
    BY <2>1 DEF Message
  <2>3. queue' \subseteq [job : Jobs, wake : Nat]
    BY <1>6, <2>2 DEF Send, SendFails, Sends, TypesOK
  <2>4. \A at \in {"sent", "unsent"} : [invocation[i] EXCEPT !.at = at] \in InvocationRow
    BY <2>1 DEF InvocationRow
  <2>5. invocation' \in [Invocations -> InvocationRow]
    BY <1>6, <2>4 DEF Send, SendFails, Goto, TypesOK
  <2>6. QED
    BY <1>6, <2>3, <2>5 DEF Send, SendFails, TypesOK, jobs
<1>7. ASSUME Settle(i) PROVE TypesOK'
  <2>1. invocation[i].job \in Jobs
    BY <1>7 DEF Settle, TypesOK, InvocationRow
  <2>2. \A state \in {"published", "pending"} :
            [outbox[invocation[i].job] EXCEPT !.state = state] \in OutboxRow
    BY <2>1 DEF TypesOK, OutboxRow
  <2>3. outbox' \in [Jobs -> OutboxRow]
    BY <1>7, <2>1, <2>2 DEF Settle, TypesOK
  <2>4. invocation' \in [Invocations -> InvocationRow]
    BY <1>7 DEF Settle, TypesOK, Goto, At, Off, InvocationRow
  <2>5. QED
    BY <1>7, <2>3, <2>4 DEF Settle, TypesOK, jobs
<1>8. QED
  BY <1>1, <1>2, <1>3, <1>4, <1>5, <1>6, <1>7 DEF Scheduled

\* What a consumer does, and what becomes of its messages.
LEMMA ConsumerTypes ==
    ASSUME TypesOK, NEW c \in Consumers, Consumes(c) \/ ConsumerFails(c)
    PROVE  TypesOK'
<1> DEFINE j == consumer[c].job
<1>1. ASSUME NEW row \in JobRow, j \in Thumbnails, consumer[c].at = "authorized", Grants(c, row),
             UNCHANGED <<dispatch, invocation, slot>>
      PROVE  TypesOK'
  <2> USE <1>1 DEF Grants
  <2>1. row.issued + 1 \in Nat /\ row.attempt \in Nat
    BY DEF JobRow
  <2>2. [row EXCEPT !.issued = row.issued + 1] \in JobRow
    BY <2>1 DEF JobRow
  <2>3. job' \in [Jobs -> JobRow]
    BY <2>2 DEF TypesOK, Jobs
  <2>4. [attempt |-> row.attempt, serial |-> row.issued + 1, used |-> FALSE, valid |-> TRUE] \in GrantRow
    BY <2>1 DEF GrantRow
  <2>5. grants' \in [Thumbnails -> SUBSET GrantRow]
    BY <2>4 DEF TypesOK
  <2>6. consumer[c] \in [at : {"authorized"}, job : Thumbnails, wake : Nat, fence : Nat,
                         attempt : Nat, serial : Nat]
    BY DEF TypesOK, ConsumerRow
  <2>7. [consumer[c] EXCEPT !.at = "prepared", !.attempt = row.attempt,
                            !.serial = row.issued + 1] \in ConsumerRow
    BY <2>1, <2>6 DEF ConsumerRow
  <2>8. consumer' \in [Consumers -> ConsumerRow]
    BY <2>7 DEF TypesOK, Become
  <2>9. QED
    BY <2>3, <2>5, <2>8 DEF TypesOK, dispatch
<1>2. ASSUME Prepare(c) PROVE TypesOK'
  <2>1. j \in Thumbnails /\ consumer[c].at = "authorized" /\ consumer[c].wake \in Nat
    BY <1>2 DEF Prepare, Thumbnailing, TypesOK, ConsumerRow
  <2>2. job[j] \in JobRow
    BY <2>1 DEF TypesOK, Jobs
  <2>3. job[j].attempt + 1 \in Nat
    BY <2>2 DEF JobRow
  <2>4. [job[j] EXCEPT !.state = "running", !.lease = consumer[c].wake, !.live = TRUE,
                       !.attempt = job[j].attempt + 1, !.issued = 0, !.output = FALSE,
                       !.attempting = TRUE, !.capture = TRUE] \in JobRow
    BY <2>1, <2>2, <2>3 DEF JobRow
  <2>5. QED
    BY <1>1, <1>2, <2>1, <2>2, <2>4 DEF Prepare
<1>3. ASSUME PrepareRefused(c) \/ RecordRefused(c) \/ ConsumerFails(c) PROVE TypesOK'
  BY <1>3 DEF PrepareRefused, RecordRefused, ConsumerFails, Drops, Become, TypesOK, ConsumerRow, Off,
              jobs, dispatch
<1>4. ASSUME Start(c) PROVE TypesOK'
  <2>1. consumer[c].at \in {"authorized", "prepared"}
    BY <1>4 DEF Start
  <2>2. /\ j \in Jobs /\ SlotOf[j] \in Slots
        /\ consumer[c].wake \in Nat /\ consumer[c].fence \in Nat
        /\ consumer[c].attempt \in Nat /\ consumer[c].serial \in Nat
    BY <2>1, DispatchAssumption DEF TypesOK, ConsumerRow, Jobs
  <2>3. consumer[c] \in [at : {"authorized", "prepared"}, job : Jobs, wake : Nat, fence : Nat,
                         attempt : Nat, serial : Nat]
    BY <2>1 DEF TypesOK, ConsumerRow, Jobs
  <2>4. [consumer[c] EXCEPT !.at = "started"] \in ConsumerRow
    BY <2>3 DEF ConsumerRow
  <2>5. consumer' \in [Consumers -> ConsumerRow]
    BY <1>4, <2>4 DEF Start, Become, TypesOK
  <2>6. \A container \in SlotRow : StartSlot(SlotOf[j], container) => slot' \in [Slots -> SlotRow]
    BY <2>2 DEF StartSlot, TypesOK
  <2>7. At("draining") \in SlotRow
    BY DEF At, SlotRow
  <2>8. consumer[c].at = "prepared" => j \in Thumbnails
    BY DEF TypesOK, ConsumerRow
  <2>9. consumer[c].at = "prepared" =>
           [at |-> "booting", job |-> j, serial |-> consumer[c].serial,
            attempt |-> consumer[c].attempt] \in SlotRow
    BY <2>2, <2>8 DEF SlotRow
  <2>10. slot' \in [Slots -> SlotRow]
    BY <1>4, <2>6, <2>7, <2>9 DEF Start
  <2>11. QED
    BY <1>4, <2>5, <2>10 DEF Start, TypesOK, jobs, dispatch
<1>5. ASSUME Record(c) PROVE TypesOK'
  <2>1. Handoff(c) \in [job : Jobs, wake : Nat, fence : Nat]
    BY <1>5 DEF Record, Handoff, TypesOK, ConsumerRow
  <2>2. consumer' \in [Consumers -> ConsumerRow]
    BY <1>5 DEF Record, Drops, Become, Off, TypesOK, ConsumerRow
  <2>3. QED
    BY <1>5, <2>1, <2>2 DEF Record, TypesOK, jobs
<1>6. QED
  BY <1>2, <1>3, <1>4, <1>5 DEF Consumes

\* Expired grants in place of those there are.
LEMMA ExpireType ==
    ASSUME TypesOK, NEW j \in Thumbnails, Expire(j)
    PROVE  /\ grants' \in [Thumbnails -> SUBSET GrantRow]
           /\ \A t \in Thumbnails \ {j} : grants'[t] = grants[t]
           /\ \A h \in grants'[j] : \E g \in grants[j] : h.attempt = g.attempt
           /\ (\A g, h \in grants[j] : g = h) => \A g, h \in grants'[j] : g = h
           /\ grants[j] # {} => grants'[j] # {}
<1>1. \A g \in GrantRow : /\ [g EXCEPT !.valid = FALSE] \in GrantRow
                          /\ [g EXCEPT !.valid = FALSE].attempt = g.attempt
  BY DEF GrantRow
<1> DEFINE expired == {[g EXCEPT !.valid = FALSE] : g \in grants[j]}
<1>2. /\ expired \in SUBSET GrantRow
      /\ \A h \in expired : \E g \in grants[j] : h.attempt = g.attempt
      /\ (\A g, h \in grants[j] : g = h) => \A g, h \in expired : g = h
      /\ grants[j] # {} => expired # {}
  <2>1. grants[j] \subseteq GrantRow
    BY DEF TypesOK
  <2>2. expired \in SUBSET GrantRow
    BY <1>1, <2>1
  <2>3. \A h \in expired : \E g \in grants[j] : h.attempt = g.attempt
    BY <1>1, <2>1
  <2>4. (\A g, h \in grants[j] : g = h) => \A g, h \in expired : g = h
    OBVIOUS
  <2>5. grants[j] # {} => expired # {}
    OBVIOUS
  <2> HIDE DEF expired
  <2>6. QED
    BY <2>2, <2>3, <2>4, <2>5
<1>3. grants' = [grants EXCEPT ![j] = expired]
  BY DEF Expire
<1> HIDE DEF expired
<1>4. QED
  BY <1>2, <1>3 DEF TypesOK

\* A message, a job inserted, time, and what is deleted.
LEMMA EnvironmentTypes ==
    ASSUME TypesOK,
           \/ \E j \in Jobs : Insert(j) \/ Delivers(j) \/ Passes(j)
           \/ \E j \in Thumbnails : GrantExpires(j) \/ Deletes(j)
           \/ \E m \in queue : Lose(m)
    PROVE  TypesOK'
<1>1. ASSUME NEW j \in Jobs, Insert(j) PROVE TypesOK'
  <2>1. PICK version \in BOOLEAN :
           job' = [job EXCEPT ![j] = [@ EXCEPT !.state = "queued", !.version = version]]
    BY <1>1 DEF Insert
  <2>2. [job[j] EXCEPT !.state = "queued", !.version = version] \in JobRow
    <3>1. job[j] \in JobRow
      BY DEF TypesOK
    <3>2. QED
      BY <3>1 DEF JobRow
  <2>3. [outbox[j] EXCEPT !.state = "pending"] \in OutboxRow
    BY DEF TypesOK, OutboxRow
  <2>4. QED
    BY <1>1, <2>1, <2>2, <2>3 DEF Insert, TypesOK, actors
<1>2. ASSUME NEW c \in Consumers, NEW m \in queue, Authorize(c, m) PROVE TypesOK'
  <2>1. m.job \in Jobs /\ m.wake \in Nat
    BY DEF TypesOK
  <2>2. [at |-> "authorized", job |-> m.job, wake |-> m.wake, fence |-> outbox[m.job].fence,
         attempt |-> None, serial |-> None] \in ConsumerRow
    BY <2>1 DEF TypesOK, OutboxRow, ConsumerRow, None
  <2>3. QED
    BY <1>2, <2>2 DEF Authorize, Become, TypesOK, jobs, dispatch
<1>3. ASSUME NEW j \in Jobs, Passes(j) PROVE TypesOK'
  <2>1. /\ [job[j] EXCEPT !.live = FALSE, !.output = FALSE, !.capture = FALSE] \in JobRow
        /\ [job[j] EXCEPT !.due = TRUE] \in JobRow
    <3>1. job[j] \in JobRow
      BY DEF TypesOK
    <3>2. QED
      BY <3>1 DEF JobRow
  <2>2. job' \in [Jobs -> JobRow]
    BY <1>3, <2>1 DEF Passes, LeaseExpires, BecomesDue, TypesOK
  <2>3. grants' \in [Thumbnails -> SUBSET GrantRow]
    BY <1>3, ExpireType DEF Passes, LeaseExpires, BecomesDue, TypesOK
  <2>4. QED
    BY <1>3, <2>2, <2>3 DEF Passes, LeaseExpires, BecomesDue, TypesOK, dispatch, actors
<1>4. ASSUME NEW j \in Thumbnails, GrantExpires(j) PROVE TypesOK'
  BY <1>4, ExpireType DEF GrantExpires, TypesOK, dispatch, actors
<1>5. ASSUME NEW m \in queue, Lose(m) PROVE TypesOK'
  BY <1>5 DEF Lose, TypesOK, jobs, actors
<1>6. ASSUME NEW j \in Thumbnails, Deletes(j) PROVE TypesOK'
  <2>1. j \in Jobs /\ job[j] \in JobRow
    BY DEF TypesOK, Jobs
  <2>2. [Over(j, "cancelled") EXCEPT !.attempting = job[j].attempting] \in JobRow
    BY <2>1, OverType DEF JobRow
  <2>3. /\ \A left \in BOOLEAN : [job[j] EXCEPT !.version = left, !.capture = FALSE] \in JobRow
        /\ [job[j] EXCEPT !.version = TRUE] \in JobRow
    BY <2>1 DEF JobRow
  <2>4. [Over(j, "removed") EXCEPT !.attempt = 0, !.thumbnail = None] \in JobRow
    BY <2>1, OverType DEF JobRow, None
  <2>5. job' \in [Jobs -> JobRow]
    BY <1>6, <2>2, <2>3, <2>4 DEF Deletes, CancelJob, DeleteVersion, AddVersion, RemoveJob, TypesOK
  <2>6. grants' \in [Thumbnails -> SUBSET GrantRow]
    BY <1>6 DEF Deletes, CancelJob, DeleteVersion, AddVersion, RemoveJob, TypesOK
  <2>7. QED
    BY <1>6, <2>5, <2>6
       DEF Deletes, CancelJob, DeleteVersion, AddVersion, RemoveJob, TypesOK, dispatch, actors
<1>7. QED
  BY <1>1, <1>2, <1>3, <1>4, <1>5, <1>6 DEF Delivers

\* What a Container does.
LEMMA ContainerTypes ==
    ASSUME TypesOK, NEW s \in Slots, Contains(s) \/ ContainerStops(s)
    PROVE  TypesOK'
<1>1. ASSUME slot[s].at \in {"booting", "rendering", "uploaded", "committing"}
      PROVE  /\ slot[s] \in [at : {"booting", "rendering", "uploaded", "committing"},
                              job : Thumbnails, attempt : Nat, serial : Nat]
             /\ slot[s].job \in Thumbnails /\ slot[s].job \in Jobs
  BY <1>1 DEF TypesOK, SlotRow, Jobs
<1>2. ASSUME slot[s].at \in {"booting", "rendering", "uploaded"},
             NEW at \in {"rendering", "uploaded", "committing"}
      PROVE  [slot[s] EXCEPT !.at = at] \in SlotRow
  BY <1>1, <1>2 DEF SlotRow
<1>3. At("draining") \in SlotRow /\ At("leaving") \in SlotRow /\ Off \in SlotRow
  BY DEF At, Off, SlotRow
<1>4. ASSUME NEW row \in SlotRow, Runs(s, row) PROVE slot' \in [Slots -> SlotRow]
  BY <1>4 DEF Runs, TypesOK
<1>5. ASSUME Bootstrap(s) PROVE TypesOK'
  <2>1. \A g \in grants[slot[s].job], used \in BOOLEAN : [g EXCEPT !.used = used] \in GrantRow
    BY <1>1, <1>5 DEF Bootstrap, TypesOK, GrantRow
  <2>2. \A g \in grants[slot[s].job] : (g \in GrantOf(s) \/ g.used) \in BOOLEAN
    OBVIOUS
  <2>3. \A g \in grants[slot[s].job] : [g EXCEPT !.used = (g \in GrantOf(s) \/ g.used)] \in GrantRow
    BY <2>1, <2>2
  <2>4. {[g EXCEPT !.used = (g \in GrantOf(s) \/ g.used)] : g \in grants[slot[s].job]} \in SUBSET GrantRow
    BY <2>3
  <2>5. grants' \in [Thumbnails -> SUBSET GrantRow]
    BY <1>1, <1>5, <2>4 DEF Bootstrap, TypesOK
  <2>6. slot' \in [Slots -> SlotRow]
    BY <1>2, <1>4, <1>5 DEF Bootstrap
  <2>7. QED
    BY <1>5, <2>5, <2>6 DEF Bootstrap, TypesOK, dispatch
<1>6. ASSUME Upload(s) PROVE TypesOK'
  <2>1. \A j \in Jobs : [job[j] EXCEPT !.output = TRUE] \in JobRow
    BY DEF TypesOK, JobRow
  <2>2. slot' \in [Slots -> SlotRow]
    BY <1>2, <1>4, <1>6 DEF Upload
  <2>3. QED
    BY <1>1, <1>6, <2>1, <2>2 DEF Upload, TypesOK, dispatch
<1>7. ASSUME Commit(s) PROVE TypesOK'
  <2>1. slot' \in [Slots -> SlotRow]
    BY <1>3, <1>4, <1>7 DEF Commit
  <2>2. slot[s].attempt \in Nat /\ slot[s].job \in Jobs /\ job[slot[s].job] \in JobRow
    BY <1>1, <1>7 DEF Commit, TypesOK
  <2>3. \A end \in {"completed", job[slot[s].job].state} :
           [Over(slot[s].job, end) EXCEPT !.thumbnail = slot[s].attempt] \in JobRow
    <3>1. \A end : (job[slot[s].job].version /\ end = "queued") \in BOOLEAN
      BY <2>2 DEF JobRow
    <3>2. QED
      BY <2>2, <3>1 DEF Over, JobRow, None
  <2>4. job' \in [Jobs -> JobRow]
    BY <1>7, <2>2, <2>3 DEF Commit, TypesOK
  <2>5. grants' \in [Thumbnails -> SUBSET GrantRow]
    BY <1>1, <1>7 DEF Commit, TypesOK
  <2>6. QED
    BY <1>7, <2>1, <2>4, <2>5 DEF Commit, TypesOK, dispatch
<1>8. ASSUME Rejected(s) \/ ObserveIdle(s) \/ Exit(s) \/ ContainerStops(s) PROVE TypesOK'
  <2>1. slot' \in [Slots -> SlotRow]
    BY <1>3, <1>4, <1>8 DEF Rejected, ObserveIdle, Exit, ContainerStops
  <2>2. UNCHANGED <<jobs, dispatch, invocation, consumer>>
    BY <1>8 DEF Rejected, ObserveIdle, Exit, ContainerStops
  <2>3. QED
    BY <2>1, <2>2 DEF TypesOK, jobs, dispatch
<1>9. ASSUME NEW j \in Jobs, ClaimJob(s, j) PROVE TypesOK'
  <2>1. j \in Processing /\ job[j].attempt + 1 \in Nat
    BY <1>9 DEF ClaimJob, TypesOK, JobRow
  <2>2. [at |-> "working", job |-> j, attempt |-> job[j].attempt + 1] \in SlotRow
    BY <2>1 DEF SlotRow
  <2>3. slot' \in [Slots -> SlotRow]
    BY <1>4, <1>9, <2>2 DEF ClaimJob
  <2>4. [[[job[j] EXCEPT !.state = "running"] EXCEPT !.live = TRUE]
            EXCEPT !.attempt = job[j].attempt + 1] \in JobRow
    BY <2>1 DEF TypesOK, JobRow
  <2>5. job' = [job EXCEPT ![j] = [[[job[j] EXCEPT !.state = "running"] EXCEPT !.live = TRUE]
                                      EXCEPT !.attempt = job[j].attempt + 1]]
    BY <1>9 DEF ClaimJob, TypesOK, JobRow
  <2>6. QED
    BY <1>9, <2>3, <2>4, <2>5 DEF ClaimJob, TypesOK, dispatch
<1>10. ASSUME FinishJob(s) PROVE TypesOK'
  <2>1. slot[s].job \in Jobs
    BY <1>10 DEF FinishJob, TypesOK, SlotRow, Jobs
  <2>2. slot' \in [Slots -> SlotRow]
    BY <1>3, <1>4, <1>10 DEF FinishJob
  <2>3. [Over(slot[s].job, "queued") EXCEPT !.due = FALSE] \in JobRow
    BY <2>1, OverType DEF JobRow
  <2>4. job' \in [Jobs -> JobRow]
    <3>1. PICK row \in JobRow : job' = [job EXCEPT ![slot[s].job] = row] \/ UNCHANGED job
      <4>1. \A end \in {"completed", "failed"} : Over(slot[s].job, end) \in JobRow
        BY <2>1, OverType
      <4>2. \/ \E end \in {"completed", "failed"} :
                   job' = [job EXCEPT ![slot[s].job] = Over(slot[s].job, end)]
            \/ job' = [job EXCEPT ![slot[s].job] = [Over(slot[s].job, "queued") EXCEPT !.due = FALSE]]
            \/ UNCHANGED job
        BY <1>10 DEF FinishJob
      <4>3. QED
        BY <2>3, <4>1, <4>2
    <3>2. QED
      BY <3>1 DEF TypesOK
  <2>5. outbox' \in [Jobs -> OutboxRow]
    BY <1>10, <2>1, RequeuedType DEF FinishJob, TypesOK
  <2>6. QED
    BY <1>10, <2>2, <2>4, <2>5 DEF FinishJob, TypesOK
<1>11. ASSUME Fence(s) PROVE TypesOK'
  <2>1. slot' \in [Slots -> SlotRow]
    BY <1>2, <1>4, <1>11 DEF Fence
  <2>2. QED
    BY <1>11, <2>1 DEF Fence, TypesOK, jobs, dispatch
<1>12. QED
  BY <1>5, <1>6, <1>7, <1>8, <1>9, <1>10, <1>11 DEF Contains

LEMMA TypesStep == TypesOK /\ [Next]_vars => TypesOK'
<1> SUFFICES ASSUME TypesOK, [Next]_vars PROVE TypesOK'
  OBVIOUS
<1>1. CASE UNCHANGED vars
  BY <1>1 DEF TypesOK, vars, jobs, dispatch, actors
<1>2. CASE Next
  BY <1>2, ScheduledTypes, ConsumerTypes, EnvironmentTypes, ContainerTypes DEF Next, Fails
<1>3. QED
  BY <1>1, <1>2
-----------------------------------------------------------------------------
(* Thumbnail jobs and their grants.                                        *)

\* A step that changes one thumbnail job and its grants at most.
LEMMA OneRow ==
    ASSUME RowsFollow, NEW k \in Thumbnails, Follows(job'[k], grants'[k]),
           \A j \in Thumbnails \ {k} : job'[j] = job[j] /\ grants'[j] = grants[j]
    PROVE  RowsFollow'
BY DEF RowsFollow

\* A step that leaves the grants, the attempts and the thumbnails alone.
LEMMA SameRows ==
    ASSUME RowsFollow, UNCHANGED grants,
           \A j \in Thumbnails :
               /\ job'[j].state = job[j].state /\ job'[j].attempt = job[j].attempt
               /\ job'[j].attempting = job[j].attempting /\ job'[j].thumbnail = job[j].thumbnail
    PROVE  RowsFollow'
BY DEF RowsFollow, Follows

\* A step that changes the grants of one job, but not of which attempt they are.
LEMMA SameGrants ==
    ASSUME RowsFollow, NEW k \in Thumbnails,
           \A j \in Thumbnails :
               /\ job'[j].state = job[j].state /\ job'[j].attempt = job[j].attempt
               /\ job'[j].attempting = job[j].attempting /\ job'[j].thumbnail = job[j].thumbnail,
           \A j \in Thumbnails \ {k} : grants'[j] = grants[j],
           \A g, h \in grants'[k] : g = h,
           \A h \in grants'[k] : \E g \in grants[k] : h.attempt = g.attempt,
           grants[k] # {} => grants'[k] # {}
    PROVE  RowsFollow'
BY DEF RowsFollow, Follows

\* Recovery fails the attempts under an expired lease and revokes their grants.
LEMMA RecoveryRows ==
    ASSUME TypesOK, RowsFollow, NEW i \in Invocations, RecoverLeases(i)
    PROVE  RowsFollow'
<1> SUFFICES ASSUME NEW j \in Thumbnails PROVE Follows(job'[j], grants'[j])
  BY DEF RowsFollow
<1>1. /\ j \in Jobs /\ grants'[j] = Surviving(j) /\ Follows(job[j], grants[j])
      /\ job'[j] = IF j \in Expired THEN Over(j, IF OutOfAttempts(j) THEN "failed" ELSE "queued")
                                    ELSE job[j]
  BY DEF RecoverLeases, RowsFollow, Jobs
<1>2. CASE j \notin Expired
  BY <1>1, <1>2 DEF Surviving
<1>3. CASE j \in Expired
  <2>1. grants'[j] = {} /\ job[j].state = "running"
    BY <1>1, <1>3 DEF Surviving, Expired
  <2>2. job[j].thumbnail = None
    BY <1>1, <2>1 DEF Follows
  <2>3. PICK state \in {"failed", "queued"} : job'[j] = Over(j, state)
    BY <1>1, <1>3
  <2>4. job'[j].state = state /\ ~job'[j].attempting /\ job'[j].thumbnail = None
    BY <1>1, <2>2, <2>3, OverType
  <2>5. QED
    BY <2>1, <2>4 DEF Follows
<1>4. QED
  BY <1>2, <1>3

\* What prepare makes of a row it claims.
Prepared(c) ==
    [job[consumer[c].job] EXCEPT
        !.state = "running", !.lease = consumer[c].wake, !.live = TRUE,
        !.attempt = job[consumer[c].job].attempt + 1, !.issued = 0, !.output = FALSE,
        !.attempting = TRUE, !.capture = TRUE]

\* The row under which prepare gives its grant runs, with an attempt and no thumbnail, and
\* whatever grant there is, is of that attempt.
LEMMA PreparedRow ==
    ASSUME TypesOK, RowsFollow, NEW c \in Consumers, Prepare(c)
    PROVE  /\ consumer[c].job \in Thumbnails /\ consumer[c].job \in Jobs
           /\ \E row \in JobRow :
                 /\ Grants(c, row) /\ row.state = "running" /\ row.attempting
                 /\ row.attempt # None /\ row.thumbnail = None
                 /\ \A g \in grants[consumer[c].job] : g.attempt = row.attempt
<1> DEFINE k == consumer[c].job
<1>1. k \in Thumbnails /\ k \in Jobs /\ consumer[c].wake \in Nat
  BY DEF Prepare, Thumbnailing, TypesOK, ConsumerRow, Jobs
<1>2. job[k] \in JobRow /\ Follows(job[k], grants[k])
  BY <1>1 DEF TypesOK, RowsFollow
<1>3. CASE Reuses(k, consumer[c].wake) /\ Grants(c, job[k])
  BY <1>1, <1>2, <1>3 DEF Reuses, Follows
<1>4. CASE Preparable(k) /\ Grants(c, Prepared(c))
  <2>1. job[k].attempt \in Nat /\ job[k].attempt + 1 \in Nat /\ job[k].attempt + 1 # None
    BY <1>2 DEF JobRow, None
  <2>2. /\ Prepared(c) \in JobRow
        /\ Prepared(c).state = "running" /\ Prepared(c).attempting
        /\ Prepared(c).attempt = job[k].attempt + 1 /\ Prepared(c).thumbnail = job[k].thumbnail
    BY <1>1, <1>2, <2>1 DEF Prepared, JobRow
  <2>3. grants[k] = {} /\ job[k].thumbnail = None
    BY <1>2, <1>4 DEF Preparable, Claimable, Follows
  <2>4. QED
    BY <1>1, <1>4, <2>1, <2>2, <2>3
<1>5. QED
  BY <1>3, <1>4 DEF Prepare, Prepared

\* Preparing an attempt leaves the new grant alone.
LEMMA PrepareRows ==
    ASSUME TypesOK, RowsFollow, NEW c \in Consumers, Prepare(c)
    PROVE  RowsFollow'
<1> DEFINE k == consumer[c].job
<1>1. k \in Thumbnails /\ k \in Jobs
  BY PreparedRow
<1>2. PICK row \in JobRow :
         /\ Grants(c, row) /\ row.state = "running" /\ row.attempting
         /\ row.attempt # None /\ row.thumbnail = None
         /\ \A g \in grants[k] : g.attempt = row.attempt
  BY PreparedRow
<1> DEFINE new == [attempt |-> row.attempt, serial |-> row.issued + 1, used |-> FALSE, valid |-> TRUE]
           issued == [row EXCEPT !.issued = row.issued + 1]
<1>3. /\ job' = [job EXCEPT ![k] = issued]
      /\ grants' = [grants EXCEPT ![k] = {g \in grants[k] : g.attempt # row.attempt} \union {new}]
  BY <1>2 DEF Grants
<1>4. /\ new.attempt = row.attempt
      /\ issued.state = "running" /\ issued.attempting /\ issued.attempt = row.attempt
      /\ issued.thumbnail = None
  BY <1>2 DEF JobRow
<1> HIDE DEF new, issued
<1>5. job'[k] = issued /\ grants'[k] = {new}
  BY <1>1, <1>2, <1>3 DEF TypesOK
<1>6. Follows(job'[k], grants'[k])
  BY <1>2, <1>4, <1>5 DEF Follows
<1>7. \A j \in Thumbnails \ {k} : grants'[j] = grants[j] /\ job'[j] = job[j]
  BY <1>3 DEF TypesOK, Jobs
<1>8. QED
  BY <1>1, <1>6, <1>7, OneRow

\* A commit ends the attempt that runs: the thumbnail is its own, and the job is completed
\* or was cancelled meanwhile.
LEMMA CommitRows ==
    ASSUME TypesOK, RowsFollow, NEW s \in Slots, Commit(s)
    PROVE  RowsFollow'
<1> DEFINE k == slot[s].job
           end == IF job[k].state = "running" THEN "completed" ELSE job[k].state
           row == [Over(k, end) EXCEPT !.thumbnail = slot[s].attempt]
<1>1. k \in Thumbnails /\ k \in Jobs /\ slot[s].attempt \in Nat
  BY DEF Commit, TypesOK, SlotRow, Jobs
<1>2. job[k].attempting /\ job[k].attempt = slot[s].attempt /\ Follows(job[k], grants[k])
  BY <1>1 DEF Commit, EndsAttempt, RowsFollow
<1>3. job[k].attempt # None /\ end \in {"completed", "cancelled"}
  BY <1>2 DEF Follows
<1>4. Over(k, end) \in JobRow /\ Over(k, end).state = end /\ ~Over(k, end).attempting
      /\ Over(k, end).attempt = job[k].attempt
  BY <1>1, <1>3, OverType
<1>5. job' = [job EXCEPT ![k] = row] /\ grants' = [grants EXCEPT ![k] = grants[k] \ OwnGrant(s)]
  BY DEF Commit
<1>6. /\ row.state = end /\ ~row.attempting /\ row.attempt = slot[s].attempt
      /\ row.thumbnail = slot[s].attempt
  BY <1>1, <1>2, <1>4 DEF JobRow
<1> HIDE DEF end, row
<1>7. job'[k] = row /\ grants'[k] \subseteq grants[k]
  BY <1>1, <1>5 DEF TypesOK
<1>8. Follows(job'[k], grants'[k])
  BY <1>2, <1>3, <1>6, <1>7 DEF Follows
<1>9. \A j \in Thumbnails \ {k} : grants'[j] = grants[j] /\ job'[j] = job[j]
  BY <1>5 DEF TypesOK, Jobs
<1>10. QED
  BY <1>1, <1>8, <1>9, OneRow

\* A deletion cancels the job and leaves attempt and grant, or removes all there is.
LEMMA DeletionRows ==
    ASSUME TypesOK, RowsFollow, NEW k \in Thumbnails, Deletes(k)
    PROVE  RowsFollow'
<1>1. k \in Jobs /\ job[k] \in JobRow /\ Follows(job[k], grants[k])
  BY DEF TypesOK, RowsFollow, Jobs
<1>2. \A j \in Thumbnails \ {k} : grants'[j] = grants[j] /\ job'[j] = job[j]
  BY DEF Deletes, CancelJob, DeleteVersion, AddVersion, RemoveJob, TypesOK, Jobs
<1>3. CASE CancelJob(k)
  <2> DEFINE row == [Over(k, "cancelled") EXCEPT !.attempting = job[k].attempting]
  <2>1. /\ row.state = "cancelled" /\ row.attempting = job[k].attempting
        /\ row.attempt = job[k].attempt /\ row.thumbnail = job[k].thumbnail
    BY <1>1, OverType DEF JobRow
  <2>2. job[k].state \in {"queued", "running"}
    BY <1>1, <1>3 DEF CancelJob, Inserted, Ended, JobRow
  <2>3. job' = [job EXCEPT ![k] = row] /\ UNCHANGED grants
    BY <1>3 DEF CancelJob
  <2> HIDE DEF row
  <2>4. job'[k] = row
    BY <1>1, <2>3 DEF TypesOK
  <2>5. Follows(job'[k], grants'[k])
    BY <1>1, <2>1, <2>2, <2>3, <2>4 DEF Follows
  <2>6. QED
    BY <1>2, <2>5, OneRow
<1>4. CASE DeleteVersion(k) \/ AddVersion(k)
  <2>1. \A left \in BOOLEAN :
           LET row == [job[k] EXCEPT !.version = left, !.capture = FALSE]
           IN  /\ row.state = job[k].state /\ row.attempt = job[k].attempt
               /\ row.attempting = job[k].attempting /\ row.thumbnail = job[k].thumbnail
    BY <1>1 DEF JobRow
  <2>2. /\ job'[k].state = job[k].state /\ job'[k].attempt = job[k].attempt
        /\ job'[k].attempting = job[k].attempting /\ job'[k].thumbnail = job[k].thumbnail
    BY <1>1, <1>4, <2>1 DEF DeleteVersion, AddVersion, TypesOK, JobRow
  <2>3. UNCHANGED grants
    BY <1>4 DEF DeleteVersion, AddVersion
  <2>4. QED
    BY <1>2, <2>2, <2>3, SameRows
<1>5. CASE RemoveJob(k)
  <2> DEFINE row == [Over(k, "removed") EXCEPT !.attempt = 0, !.thumbnail = None]
  <2>1. row.state = "removed" /\ ~row.attempting /\ row.thumbnail = None
    BY <1>1, OverType DEF JobRow
  <2>2. job' = [job EXCEPT ![k] = row] /\ grants' = [grants EXCEPT ![k] = {}]
    BY <1>5 DEF RemoveJob
  <2> HIDE DEF row
  <2>3. job'[k] = row /\ grants'[k] = {}
    BY <1>1, <2>2 DEF TypesOK
  <2>4. Follows(job'[k], grants'[k])
    BY <2>1, <2>3 DEF Follows
  <2>5. QED
    BY <1>2, <2>4, OneRow
<1>6. QED
  BY <1>3, <1>4, <1>5 DEF Deletes

LEMMA FollowsStep == TypesOK /\ RowsFollow /\ [Next]_vars => RowsFollow'
<1> SUFFICES ASSUME TypesOK, RowsFollow, [Next]_vars PROVE RowsFollow'
  OBVIOUS
<1> DEFINE Keeps == \A j \in Thumbnails :
               /\ job'[j].state = job[j].state /\ job'[j].attempt = job[j].attempt
               /\ job'[j].attempting = job[j].attempting /\ job'[j].thumbnail = job[j].thumbnail
<1>1. CASE UNCHANGED vars
  BY <1>1 DEF RowsFollow, vars, jobs
<1>2. ASSUME UNCHANGED jobs PROVE RowsFollow'
  BY <1>2, SameRows DEF jobs
<1>3. ASSUME NEW i \in Invocations, Scheduled(i) \/ SendFails(i) \/ InvocationCrashes(i)
      PROVE  RowsFollow'
  BY <1>2, <1>3, RecoveryRows
     DEF Scheduled, RecoverWakes, ReturnExpired, Claim, Drained, Send, Settle, SendFails, InvocationCrashes
<1>4. ASSUME NEW c \in Consumers, Consumes(c) \/ ConsumerFails(c) PROVE RowsFollow'
  BY <1>2, <1>4, PrepareRows
     DEF Consumes, PrepareRefused, Start, Record, RecordRefused, ConsumerFails
<1>5. ASSUME NEW j \in Jobs, Insert(j) \/ Delivers(j) \/ Passes(j) PROVE RowsFollow'
  <2>1. CASE Insert(j)
    <3>1. PICK version \in BOOLEAN :
             job' = [job EXCEPT ![j] = [job[j] EXCEPT !.state = "queued", !.version = version]]
      BY <2>1 DEF Insert
    <3>2. UNCHANGED grants /\ job[j].state = "none"
      BY <2>1 DEF Insert, Inserted
    <3>3. CASE j \notin Thumbnails
      <4>1. Keeps
        BY <3>1, <3>3 DEF TypesOK, Jobs
      <4>2. QED
        BY <3>2, <4>1, SameRows
    <3>4. CASE j \in Thumbnails
      <4>1. /\ job'[j].state = "queued" /\ job'[j].attempt = job[j].attempt
            /\ job'[j].attempting = job[j].attempting /\ job'[j].thumbnail = job[j].thumbnail
        BY <3>1 DEF TypesOK, JobRow
      <4>2. Follows(job[j], grants[j])
        BY <3>4 DEF RowsFollow
      <4>3. Follows(job'[j], grants'[j])
        BY <3>2, <4>1, <4>2 DEF Follows
      <4>4. \A k \in Thumbnails \ {j} : job'[k] = job[k] /\ grants'[k] = grants[k]
        BY <3>1, <3>2 DEF TypesOK, Jobs
      <4>5. QED
        BY <3>4, <4>3, <4>4, OneRow
    <3>5. QED
      BY <3>3, <3>4
  <2>2. CASE Delivers(j)
    BY <1>2, <2>2 DEF Delivers, Authorize
  <2>3. CASE BecomesDue(j)
    <3>1. Keeps
      BY <2>3 DEF BecomesDue, TypesOK, JobRow, Jobs
    <3>2. QED
      BY <2>3, <3>1, SameRows DEF BecomesDue
  <2>4. CASE LeaseExpires(j)
    <3>1. job' = [job EXCEPT ![j] = [job[j] EXCEPT !.live = FALSE, !.output = FALSE, !.capture = FALSE]]
      BY <2>4 DEF LeaseExpires
    <3>2. Keeps
      BY <3>1 DEF TypesOK, JobRow, Jobs
    <3>3. CASE j \in Thumbnails
      <4>1. Expire(j)
        BY <2>4, <3>3 DEF LeaseExpires
      <4>2. \A g, h \in grants[j] : g = h
        BY <3>3 DEF RowsFollow, Follows
      <4> HIDE DEF Keeps
      <4>3. QED
        BY <3>2, <3>3, <4>1, <4>2, ExpireType, SameGrants DEF Keeps
    <3>4. CASE j \notin Thumbnails
      BY <2>4, <3>2, <3>4, SameRows DEF LeaseExpires
    <3>5. QED
      BY <3>3, <3>4
  <2>5. QED
    BY <1>5, <2>1, <2>2, <2>3, <2>4 DEF Passes
<1>6. ASSUME NEW j \in Thumbnails, GrantExpires(j) PROVE RowsFollow'
  <2>1. Expire(j) /\ UNCHANGED job
    BY <1>6 DEF GrantExpires
  <2>2. \A g, h \in grants[j] : g = h
    BY DEF RowsFollow, Follows
  <2>3. QED
    BY <2>1, <2>2, ExpireType, SameGrants
<1>7. ASSUME NEW s \in Slots, Contains(s) \/ ContainerStops(s) PROVE RowsFollow'
  <2>1. CASE Bootstrap(s)
    <3>1. slot[s].job \in Thumbnails
      BY <2>1 DEF Bootstrap, TypesOK, SlotRow
    <3> DEFINE S == {[g EXCEPT !.used = (g \in GrantOf(s) \/ g.used)] : g \in grants[slot[s].job]}
    <3>2. \A g, h \in S : g = h
      BY <3>1 DEF RowsFollow, Follows
    <3>3. \A h \in S : \E g \in grants[slot[s].job] : h.attempt = g.attempt
      <4> SUFFICES ASSUME NEW g \in grants[slot[s].job]
                   PROVE  [g EXCEPT !.used = (g \in GrantOf(s) \/ g.used)].attempt = g.attempt
        OBVIOUS
      <4>1. g \in GrantRow
        BY <3>1 DEF TypesOK
      <4>2. QED
        BY <4>1 DEF GrantRow
    <3>4. grants[slot[s].job] # {} => S # {}
      OBVIOUS
    <3>5. grants' = [grants EXCEPT ![slot[s].job] = S] /\ UNCHANGED job
      BY <2>1 DEF Bootstrap
    <3> HIDE DEF S
    <3>6. grants'[slot[s].job] = S /\ \A j \in Thumbnails \ {slot[s].job} : grants'[j] = grants[j]
      BY <3>1, <3>5 DEF TypesOK
    <3>7. QED
      BY <3>1, <3>2, <3>3, <3>4, <3>5, <3>6, SameGrants
  <2>2. CASE Upload(s)
    <3>1. slot[s].job \in Jobs
      BY <2>2 DEF Upload, TypesOK, SlotRow, Jobs
    <3>2. Keeps
      BY <2>2, <3>1 DEF Upload, TypesOK, JobRow, Jobs
    <3>3. QED
      BY <2>2, <3>2, SameRows DEF Upload
  <2>3. CASE Commit(s)
    BY <2>3, CommitRows
  <2>4. CASE Fence(s) \/ Rejected(s) \/ ObserveIdle(s) \/ Exit(s) \/ ContainerStops(s)
    BY <1>2, <2>4 DEF Fence, Rejected, ObserveIdle, Exit, ContainerStops
  <2>5. ASSUME NEW j \in Jobs, ClaimJob(s, j) PROVE RowsFollow'
    <3>1. \A t \in Thumbnails : t # j
      BY <2>5, DispatchAssumption DEF ClaimJob
    <3>2. \A t \in Thumbnails : job'[t] = job[t]
      BY <2>5, <3>1 DEF ClaimJob, TypesOK, Jobs
    <3>3. QED
      BY <2>5, <3>2, SameRows DEF ClaimJob
  <2>6. CASE FinishJob(s)
    <3>1. slot[s].job \in Processing
      BY <2>6 DEF FinishJob, TypesOK, SlotRow
    <3>2. \A t \in Thumbnails : job'[t] = job[t]
      BY <2>6, <3>1, DispatchAssumption DEF FinishJob, TypesOK, Jobs
    <3>3. QED
      BY <2>6, <3>2, SameRows DEF FinishJob
  <2>7. QED
    BY <1>7, <2>1, <2>2, <2>3, <2>4, <2>5, <2>6 DEF Contains
<1>8. ASSUME NEW m \in queue, Lose(m) PROVE RowsFollow'
  BY <1>2, <1>8 DEF Lose
<1>9. ASSUME NEW j \in Thumbnails, Deletes(j) PROVE RowsFollow'
  BY <1>9, DeletionRows
<1>10. QED
  BY <1>1, <1>3, <1>4, <1>5, <1>6, <1>7, <1>8, <1>9 DEF Next, Fails
-----------------------------------------------------------------------------
(* Wakes.                                                                  *)

\* What may become of a row: it is to be published anew, changes its state on the way
\* out with wake and fence as they are, or is claimed under the next fence.
RowStep(old, new) ==
    \/ new = old
    \/ old.state = "published" /\ new.state = "pending" /\ new.wake = None /\ new.fence = old.fence
    \/ /\ new.wake = old.wake /\ new.fence = old.fence
       /\ \/ old.state = "none" /\ new.state = "pending"
          \/ old.state = "publishing" /\ new.state \in {"pending", "published"}
    \/ /\ old.state = "pending" /\ new.state = "publishing"
       /\ new.wake = WakeOf(old) /\ new.fence = old.fence + 1

\* No such step publishes a wake that was handed off: a new wake is above every old one,
\* and a row whose wake was handed off is published and can only be requeued without it.
LEMMA RowsKeepWakes ==
    ASSUME DispatchInv, TypesOK', UNCHANGED handoffs,
           \A j \in Jobs : RowStep(outbox[j], outbox'[j])
    PROVE  WakesAreNumbered' /\ HandedOffOnce'
<1>1. \A j \in Jobs : outbox[j] \in OutboxRow /\ outbox'[j] \in OutboxRow
  BY DEF DispatchInv, TypesOK
<1>2. \A h \in handoffs : h.job \in Jobs /\ h.wake \in Nat /\ h.fence \in Nat
  BY DEF DispatchInv, TypesOK
<1>3. ASSUME NEW j \in Jobs
      PROVE  /\ outbox'[j].wake <= outbox'[j].fence /\ outbox[j].fence <= outbox'[j].fence
             /\ outbox'[j].state \in {"publishing", "published"} => outbox'[j].wake # None
  <2>1. RowStep(outbox[j], outbox'[j]) /\ outbox[j] \in OutboxRow /\ outbox'[j] \in OutboxRow
    BY <1>1
  <2>2. /\ outbox[j].wake <= outbox[j].fence
        /\ outbox[j].state \in {"publishing", "published"} => outbox[j].wake # None
    BY DEF DispatchInv, WakesAreNumbered
  <2>3. /\ outbox[j].wake \in Nat /\ outbox[j].fence \in Nat
        /\ outbox'[j].wake \in Nat /\ outbox'[j].fence \in Nat
    BY <2>1 DEF OutboxRow
  <2>4. QED
    BY <2>1, <2>2, <2>3 DEF RowStep, WakeOf, None
<1>4. WakesAreNumbered'
  <2>1. ASSUME NEW h \in handoffs PROVE h.wake # None /\ h.wake <= outbox'[h.job].fence
    <3>1. h.wake # None /\ h.wake <= outbox[h.job].fence
      BY DEF DispatchInv, WakesAreNumbered
    <3>2. outbox[h.job].fence <= outbox'[h.job].fence
      BY <1>2, <1>3
    <3>3. outbox[h.job].fence \in Nat /\ outbox'[h.job].fence \in Nat
      BY <1>1, <1>2 DEF OutboxRow
    <3>4. QED
      BY <1>2, <3>1, <3>2, <3>3
  <2>2. QED
    BY <1>3, <2>1 DEF WakesAreNumbered
<1>5. ASSUME NEW h \in handoffs, outbox'[h.job].wake = h.wake
      PROVE  outbox'[h.job].state = "published" /\ outbox'[h.job].fence = h.fence
  <2>1. /\ h.job \in Jobs /\ h.wake \in Nat /\ h.wake # None
        /\ h.wake <= outbox[h.job].fence
        /\ outbox[h.job].wake = h.wake =>
              outbox[h.job].state = "published" /\ outbox[h.job].fence = h.fence
    BY <1>2 DEF DispatchInv, WakesAreNumbered, HandedOffOnce
  <2>2. RowStep(outbox[h.job], outbox'[h.job]) /\ outbox[h.job].fence \in Nat
    BY <1>1, <2>1 DEF OutboxRow
  <2>3. QED
    BY <1>5, <2>1, <2>2 DEF RowStep, WakeOf, None
<1>6. QED
  BY <1>4, <1>5 DEF HandedOffOnce

LEMMA RequeuedStep ==
    ASSUME NEW row \in OutboxRow
    PROVE  RowStep(row, Requeued(row))
BY RequeuedType DEF RowStep

\* A job that is not inserted is let be, and no job goes back to that.
LEMMA NoRowStep == TypesOK /\ NoRowYet /\ RowsFollow /\ [Next]_vars => NoRowYet'
<1> SUFFICES ASSUME TypesOK, NoRowYet, RowsFollow, [Next]_vars PROVE NoRowYet'
  OBVIOUS
<1> DEFINE Goal == \A j \in Jobs : job'[j].state = "none" =>
                      job[j].state = "none" /\ (outbox[j].state = "none" => outbox'[j].state = "none")
<1>1. CASE UNCHANGED vars
  BY <1>1 DEF NoRowYet, vars, jobs, dispatch
<1>2. ASSUME Goal PROVE NoRowYet'
  BY <1>2 DEF NoRowYet
<1>3. ASSUME NEW i \in Invocations, RecoverLeases(i) PROVE Goal
  BY <1>3, OverType, RequeuedType DEF RecoverLeases, Expired, Over, TypesOK
<1>4. ASSUME NEW i \in Invocations, RecoverWakes(i) \/ ReturnExpired(i) PROVE Goal
  BY <1>4 DEF RecoverWakes, ReturnExpired, Requeued, TypesOK, OutboxRow, jobs
<1>5. ASSUME NEW i \in Invocations, NEW j \in Jobs, Claim(i, j) PROVE Goal
  BY <1>5 DEF Claim, TypesOK, OutboxRow, jobs
<1>6. ASSUME NEW i \in Invocations, Settle(i) PROVE Goal
  <2>1. invocation[i].job \in Jobs
    BY <1>6 DEF Settle, TypesOK, InvocationRow
  <2>2. HoldsClaim(i) => outbox[invocation[i].job].state = "publishing"
    BY DEF HoldsClaim
  <2>3. QED
    BY <1>6, <2>1, <2>2 DEF Settle, TypesOK, OutboxRow, jobs
<1>7. ASSUME UNCHANGED <<job, outbox>> PROVE Goal
  BY <1>7
<1>8. ASSUME NEW i \in Invocations, Drained(i) \/ Send(i) \/ SendFails(i) \/ InvocationCrashes(i) PROVE Goal
  BY <1>7, <1>8 DEF Drained, Send, SendFails, InvocationCrashes, dispatch, jobs
<1>9. ASSUME NEW c \in Consumers, Consumes(c) \/ ConsumerFails(c) PROVE Goal
  <2>1. CASE Prepare(c)
    <3>1. consumer[c].job \in Jobs
      BY <2>1 DEF Prepare, Thumbnailing, Jobs
    <3>2. \A j \in Jobs : job'[j].state = "none" => job[j].state = "none"
      <4> DEFINE k == consumer[c].job
      <4>1. PICK row \in JobRow : Grants(c, row) /\ row.state = "running"
        BY <2>1, PreparedRow
      <4>2. [row EXCEPT !.issued = row.issued + 1].state = "running"
        BY <4>1 DEF JobRow
      <4>3. job' = [job EXCEPT ![k] = [row EXCEPT !.issued = row.issued + 1]]
        BY <4>1 DEF Grants
      <4>4. QED
        BY <3>1, <4>2, <4>3 DEF TypesOK
    <3>3. QED
      BY <2>1, <3>2 DEF Prepare, dispatch
  <2>2. CASE ~Prepare(c)
    BY <1>7, <1>9, <2>2 DEF Consumes, PrepareRefused, Start, Record, RecordRefused, ConsumerFails,
                            dispatch, jobs
  <2>3. QED
    BY <2>1, <2>2
<1>10. ASSUME NEW j \in Jobs, Insert(j) PROVE Goal
  <2>1. PICK version : job' = [job EXCEPT ![j] = [job[j] EXCEPT !.state = "queued", !.version = version]]
    BY <1>10 DEF Insert
  <2>2. \A k \in Jobs : job'[k].state = "none" => k # j /\ job'[k] = job[k]
    BY <2>1 DEF TypesOK, JobRow
  <2>3. QED
    BY <1>10, <2>2 DEF Insert, TypesOK
<1>11. ASSUME NEW j \in Jobs, Delivers(j) \/ Passes(j) PROVE Goal
  <2>1. CASE Delivers(j)
    BY <1>7, <2>1 DEF Delivers, Authorize, dispatch, jobs
  <2>2. CASE Passes(j)
    <3>1. job[j] \in JobRow
      BY DEF TypesOK
    <3>2. /\ [job[j] EXCEPT !.live = FALSE, !.output = FALSE, !.capture = FALSE].state = job[j].state
          /\ [job[j] EXCEPT !.due = TRUE].state = job[j].state
      BY <3>1 DEF JobRow
    <3>3. PICK row : job' = [job EXCEPT ![j] = row] /\ row.state = job[j].state
      BY <2>2, <3>2 DEF Passes, LeaseExpires, BecomesDue, TypesOK
    <3>4. UNCHANGED outbox
      BY <2>2 DEF Passes, LeaseExpires, BecomesDue, dispatch
    <3>5. QED
      BY <3>3, <3>4 DEF TypesOK
  <2>3. QED
    BY <1>11, <2>1, <2>2
<1>12. ASSUME NEW j \in Thumbnails, GrantExpires(j) \/ Deletes(j) PROVE Goal
  <2>1. CASE GrantExpires(j)
    BY <1>7, <2>1 DEF GrantExpires, dispatch
  <2>2. CASE Deletes(j)
    <3>1. j \in Jobs /\ job[j] \in JobRow
      BY DEF TypesOK, Jobs
    <3>2. /\ [Over(j, "cancelled") EXCEPT !.attempting = job[j].attempting].state = "cancelled"
          /\ [Over(j, "removed") EXCEPT !.attempt = 0, !.thumbnail = None].state = "removed"
          /\ \A left \in BOOLEAN : [job[j] EXCEPT !.version = left, !.capture = FALSE].state = job[j].state
          /\ [job[j] EXCEPT !.version = TRUE].state = job[j].state
      BY <3>1, OverType DEF JobRow
    <3>3. PICK row : job' = [job EXCEPT ![j] = row] /\ row.state \in {"cancelled", "removed", job[j].state}
      BY <2>2, <3>2 DEF Deletes, CancelJob, DeleteVersion, AddVersion, RemoveJob, TypesOK, JobRow
    <3>4. UNCHANGED outbox
      BY <2>2 DEF Deletes, CancelJob, DeleteVersion, AddVersion, RemoveJob, dispatch
    <3>5. QED
      BY <3>1, <3>3, <3>4 DEF TypesOK
  <2>3. QED
    BY <1>12, <2>1, <2>2
<1>13. ASSUME NEW m \in queue, Lose(m) PROVE Goal
  BY <1>7, <1>13 DEF Lose, jobs
<1>14. ASSUME NEW s \in Slots, Contains(s) \/ ContainerStops(s) PROVE Goal
  <2>1. CASE FinishJob(s)
    <3>1. slot[s].job \in Jobs
      BY <2>1 DEF FinishJob, TypesOK, SlotRow, Jobs
    <3>2. \A j \in Jobs : job'[j].state = "none" => job[j].state = "none"
      <4>1. PICK row : \/ job' = [job EXCEPT ![slot[s].job] = row] /\ row.state # "none"
                       \/ UNCHANGED job
        <5>1. [Over(slot[s].job, "queued") EXCEPT !.due = FALSE].state = "queued"
          BY <3>1, OverType DEF JobRow
        <5>2. \A end \in {"completed", "failed"} : Over(slot[s].job, end).state = end
          BY <3>1, OverType
        <5>3. \/ \E end \in {"completed", "failed"} :
                     job' = [job EXCEPT ![slot[s].job] = Over(slot[s].job, end)]
              \/ job' = [job EXCEPT ![slot[s].job] = [Over(slot[s].job, "queued") EXCEPT !.due = FALSE]]
              \/ UNCHANGED job
          BY <2>1 DEF FinishJob
        <5>4. QED
          BY <5>1, <5>2, <5>3
      <4>2. QED
        BY <3>1, <4>1 DEF TypesOK
    <3>3. \A j \in Jobs : outbox[j].state = "none" => outbox'[j].state = "none"
      BY <2>1, <3>1, RequeuedType DEF FinishJob, TypesOK
    <3>4. QED
      BY <3>2, <3>3
  <2>2. CASE Upload(s)
    BY <2>2 DEF Upload, TypesOK, JobRow, dispatch
  <2>3. CASE Commit(s)
    <3>1. PICK end \in {"completed", job[slot[s].job].state} :
             job' = [job EXCEPT ![slot[s].job] =
                        [Over(slot[s].job, end) EXCEPT !.thumbnail = slot[s].attempt]]
      BY <2>3 DEF Commit
    <3>2. slot[s].job \in Jobs
      BY <2>3 DEF Commit, TypesOK, SlotRow, Jobs
    <3>3. [Over(slot[s].job, end) EXCEPT !.thumbnail = slot[s].attempt].state = end
      BY <3>2 DEF Over, TypesOK, JobRow
    <3>4. UNCHANGED outbox
      BY <2>3 DEF Commit, dispatch
    <3>5. QED
      BY <3>1, <3>2, <3>3, <3>4 DEF TypesOK
  <2>4. ASSUME NEW j \in Jobs, ClaimJob(s, j) PROVE Goal
    BY <2>4 DEF ClaimJob, TypesOK, JobRow, dispatch
  <2>5. CASE Bootstrap(s) \/ Fence(s) \/ Rejected(s) \/ ObserveIdle(s) \/ Exit(s) \/ ContainerStops(s)
    BY <1>7, <2>5 DEF Bootstrap, Fence, Rejected, ObserveIdle, Exit, ContainerStops, dispatch, jobs
  <2>6. QED
    BY <1>14, <2>1, <2>2, <2>3, <2>4, <2>5 DEF Contains
<1> HIDE DEF Goal
<1>15. QED
  BY <1>1, <1>2, <1>3, <1>4, <1>5, <1>6, <1>8, <1>9, <1>10, <1>11, <1>12, <1>13, <1>14
     DEF Next, Fails, Scheduled

\* Every step but a handoff moves the rows so.
LEMMA RowsStep ==
    ASSUME TypesOK, NoRowYet, Next, \A c \in Consumers : ~Record(c)
    PROVE  UNCHANGED handoffs /\ \A j \in Jobs : RowStep(outbox[j], outbox'[j])
<1>1. ASSUME UNCHANGED <<outbox, handoffs>>
      PROVE  UNCHANGED handoffs /\ \A j \in Jobs : RowStep(outbox[j], outbox'[j])
  BY <1>1 DEF RowStep
<1> DEFINE Goal == UNCHANGED handoffs /\ \A j \in Jobs : RowStep(outbox[j], outbox'[j])
<1>2. ASSUME NEW i \in Invocations, RecoverLeases(i) \/ RecoverWakes(i) PROVE Goal
  BY <1>2, RequeuedStep DEF RecoverLeases, RecoverWakes, RowStep, TypesOK
<1>3. ASSUME NEW i \in Invocations, ReturnExpired(i) PROVE Goal
  <2>1. \A row \in OutboxRow : row.state = "publishing" => RowStep(row, [row EXCEPT !.state = "pending"])
    BY DEF OutboxRow, RowStep
  <2>2. QED
    BY <1>3, <2>1 DEF ReturnExpired, RowStep, TypesOK
<1>4. ASSUME NEW i \in Invocations, NEW j \in Jobs, Claim(i, j) PROVE Goal
  BY <1>4 DEF Claim, RowStep, TypesOK, OutboxRow
<1>5. ASSUME NEW i \in Invocations, Settle(i) PROVE Goal
  <2>1. invocation[i].job \in Jobs
    BY <1>5 DEF Settle, TypesOK, InvocationRow
  <2>2. CASE HoldsClaim(i)
    <3>1. outbox[invocation[i].job].state = "publishing"
      BY <2>2 DEF HoldsClaim
    <3>2. \A row \in OutboxRow, state \in {"pending", "published"} :
             row.state = "publishing" => RowStep(row, [row EXCEPT !.state = state])
      BY DEF OutboxRow, RowStep
    <3>3. QED
      <4>1. PICK state \in {"pending", "published"} :
               outbox' = [outbox EXCEPT ![invocation[i].job].state = state]
        BY <1>5, <2>2 DEF Settle
      <4>2. UNCHANGED handoffs
        BY <1>5 DEF Settle
      <4>3. QED
        BY <2>1, <3>1, <3>2, <4>1, <4>2 DEF RowStep, TypesOK
  <2>3. CASE ~HoldsClaim(i)
    BY <1>1, <1>5, <2>3 DEF Settle
  <2>4. QED
    BY <2>2, <2>3
<1>6. ASSUME NEW i \in Invocations, Drained(i) \/ Send(i) \/ SendFails(i) \/ InvocationCrashes(i) PROVE Goal
  BY <1>1, <1>6 DEF Drained, Send, SendFails, InvocationCrashes, dispatch
<1>7. ASSUME NEW c \in Consumers, Consumes(c) \/ ConsumerFails(c) PROVE Goal
  BY <1>1, <1>7 DEF Consumes, Prepare, PrepareRefused, Start, RecordRefused, ConsumerFails, dispatch
<1>8. ASSUME NEW j \in Jobs, Insert(j) PROVE Goal
  <2>1. outbox[j].state = "none"
    BY <1>8 DEF Insert, Inserted, NoRowYet
  <2>2. RowStep(outbox[j], [outbox[j] EXCEPT !.state = "pending"])
    BY <2>1 DEF TypesOK, OutboxRow, RowStep
  <2>3. QED
    BY <1>8, <2>2 DEF Insert, RowStep, TypesOK
<1>9. ASSUME NEW j \in Jobs, Delivers(j) \/ Passes(j) PROVE Goal
  BY <1>1, <1>9 DEF Delivers, Authorize, Passes, LeaseExpires, BecomesDue, dispatch
<1>10. ASSUME NEW j \in Thumbnails, GrantExpires(j) \/ Deletes(j) PROVE Goal
  BY <1>1, <1>10 DEF GrantExpires, Deletes, CancelJob, DeleteVersion, AddVersion, RemoveJob, dispatch
<1>11. ASSUME NEW m \in queue, Lose(m) PROVE Goal
  BY <1>1, <1>11 DEF Lose
<1>12. ASSUME NEW s \in Slots, Contains(s) \/ ContainerStops(s) PROVE Goal
  <2>1. CASE FinishJob(s)
    <3>1. slot[s].job \in Jobs
      BY <2>1 DEF FinishJob, TypesOK, SlotRow, Jobs
    <3>2. QED
      BY <2>1, <3>1, RequeuedStep DEF FinishJob, RowStep, TypesOK
  <2>2. CASE ~FinishJob(s)
    BY <1>1, <1>12, <2>2
       DEF Contains, Bootstrap, Upload, Fence, Commit, Rejected, ClaimJob, ObserveIdle, Exit, ContainerStops, dispatch
  <2>3. QED
    BY <2>1, <2>2
<1>13. QED
  BY <1>2, <1>3, <1>4, <1>5, <1>6, <1>7, <1>8, <1>9, <1>10, <1>11, <1>12 DEF Next, Fails, Scheduled

\* A handoff is accepted while its wake is the published one under the same fence.
LEMMA RecordStep ==
    ASSUME DispatchInv, NEW c \in Consumers, Record(c)
    PROVE  WakesAreNumbered' /\ HandedOffOnce'
<1> DEFINE new == Handoff(c)
<1>1. new.job \in Jobs
  BY DEF Record, Handoff, DispatchInv, TypesOK, ConsumerRow
<1>2. /\ outbox[new.job].state = "published" /\ outbox[new.job].wake = new.wake
      /\ outbox[new.job].fence = new.fence
  BY DEF Record, Accepted, PublishedAs
<1>3. new.wake # None /\ new.wake <= outbox[new.job].fence
  BY <1>1, <1>2 DEF DispatchInv, WakesAreNumbered
<1>4. UNCHANGED outbox /\ handoffs' = handoffs \union {new}
  BY DEF Record
<1> HIDE DEF new
<1>5. WakesAreNumbered'
  BY <1>3, <1>4 DEF DispatchInv, WakesAreNumbered
<1>6. HandedOffOnce'
  BY <1>2, <1>4 DEF DispatchInv, HandedOffOnce
<1>7. QED
  BY <1>5, <1>6

LEMMA WakesStep == DispatchInv /\ [Next]_vars => WakesAreNumbered' /\ HandedOffOnce'
<1> SUFFICES ASSUME DispatchInv, [Next]_vars PROVE WakesAreNumbered' /\ HandedOffOnce'
  OBVIOUS
<1>1. CASE UNCHANGED vars
  BY <1>1 DEF DispatchInv, WakesAreNumbered, HandedOffOnce, vars, dispatch
<1>2. ASSUME NEW c \in Consumers, Record(c) PROVE WakesAreNumbered' /\ HandedOffOnce'
  BY <1>2, RecordStep
<1>3. CASE Next /\ \A c \in Consumers : ~Record(c)
  BY <1>3, TypesStep, RowsStep, RowsKeepWakes DEF DispatchInv
<1>4. QED
  BY <1>1, <1>2, <1>3
-----------------------------------------------------------------------------
(* The theorems. *)

\* The inductive invariant: types, grants and thumbnails that follow the attempts through
\* recoveries, repeated deliveries, commits and deletions, wakes named by fences, and each
\* wake handed off once.
THEOREM DispatchInvariance == Spec => []DispatchInv
<1>1. Init => DispatchInv
  <2>1. Init => RowsFollow
    BY DEF Init, RowsFollow, Follows, Jobs, None
  <2>2. Init => NoRowYet /\ WakesAreNumbered /\ HandedOffOnce
    BY DEF Init, NoRowYet, WakesAreNumbered, HandedOffOnce, None
  <2>3. QED
    BY <2>1, <2>2, InitTypes DEF DispatchInv
<1>2. DispatchInv /\ [Next]_vars => DispatchInv'
  BY TypesStep, NoRowStep, FollowsStep, WakesStep DEF DispatchInv
<1>3. QED
  BY <1>1, <1>2, PTL DEF Spec

\* A thumbnail job has one unrevoked grant at most, of its last attempt; a running job has
\* it, and none is left when the job waits, has failed or is removed.
THEOREM GrantsFollowAttempts == Spec => []GrantsAreCurrent
<1>1. DispatchInv => GrantsAreCurrent
  <2> SUFFICES ASSUME DispatchInv, NEW j \in Thumbnails
               PROVE  /\ Cardinality(grants[j]) <= 1
                      /\ \A g \in grants[j] : /\ g.attempt = job[j].attempt
                                              /\ job[j].state \in {"running", "completed", "cancelled"}
                      /\ job[j].state = "running" => grants[j] # {}
    BY DEF GrantsAreCurrent
  <2>1. Follows(job[j], grants[j])
    BY DEF DispatchInv, RowsFollow
  <2>2. CASE grants[j] = {}
    BY <2>1, <2>2, FS_EmptySet DEF Follows
  <2>3. ASSUME NEW g \in grants[j] PROVE Cardinality(grants[j]) = 1
    <3>1. grants[j] = {g}
      BY <2>1, <2>3 DEF Follows
    <3>2. QED
      BY <3>1, FS_Singleton
  <2>4. Cardinality(grants[j]) <= 1
    BY <2>2, <2>3, FS_EmptySet
  <2>5. QED
    BY <2>1, <2>4 DEF Follows
<1>2. QED
  BY <1>1, DispatchInvariance, PTL

\* The thumbnail of a bundle is of its job's last attempt, also when recovery, a repeated
\* delivery or a deletion comes between what the commit saw and what it does.
THEOREM ThumbnailsFollowAttempts == Spec => []ThumbnailsAgree
<1>1. DispatchInv => ThumbnailsAgree
  BY DEF DispatchInv, RowsFollow, Follows, ThumbnailsAgree
<1>2. QED
  BY <1>1, DispatchInvariance, PTL

\* A wake that was handed off to a Container is not published again, whatever a late
\* invocation, a duplicate message or a recovery does.
THEOREM WakesAreHandedOffOnce == Spec => []HandedOffOnce
<1>1. DispatchInv => HandedOffOnce
  BY DEF DispatchInv
<1>2. QED
  BY <1>1, DispatchInvariance, PTL
=============================================================================
