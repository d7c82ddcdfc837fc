--------------------------- MODULE ArtifactIntake ---------------------------
(***************************************************************************)
(* The API calls of one Owner that bring input in: create an Artifact,     *)
(* replace its file or upload a Version, and retry retained input.  Each   *)
(* claims an idempotency record, streams the body to a raw object, and     *)
(* commits the Upload session in one transaction; what fails on the way is *)
(* discarded and the claim released, unless the process stops first.       *)
(* Beside them: processing, deletion, and the scan for raw objects that    *)
(* are no longer needed.                                                   *)
(*                                                                         *)
(* A call names the Upload session it commits, with its raw object, and a  *)
(* creating call its Artifact too.  Processing is one step to its outcome  *)
(* (ProcessingJob has its attempts), deletion one step to the erasing of   *)
(* the objects it lists (ArtifactPublication has its steps), and an input  *)
(* is what the request hash is made of.                                    *)
(***************************************************************************)
EXTENDS Integers, Sequences, FiniteSets

CONSTANTS
    Calls, Keys, Inputs,
    MaxCrashes,       \* bound: calls whose process stops
    MaxLostReplies    \* bound: transactions applied but reported as failed

ASSUME BoundsAssumption == MaxCrashes \in Nat /\ MaxLostReplies \in Nat

VARIABLES
    call,      \* each call: how far, what it asks, and what it read
    record,    \* artifact_idempotency_record
    session,   \* artifact_upload_session: none, or its state
    made,      \* the sessions in the order they were created
    artifact,  \* Artifacts whose row exists
    hidden,    \* those of them with a deletion cleanup row, kept for a listing
    listed,    \* Artifacts that are in the Gallery
    raw,       \* raw objects in storage
    doomed,    \* raw objects the scan has found removable
    crashes, lost

owned == <<artifact, hidden, listed>>
store == <<raw, doomed>>
vars  == <<call, record, session, made, owned, store, crashes, lost>>

None == "none"
ASSUME NoneAssumption == None \notin Calls

NewCall == [at |-> "new", op |-> None, on |-> None, key |-> None, input |-> None,
            previous |-> None, answer |-> None]
NoSession == [on |-> None, state |-> None, superseded |-> FALSE]

Init ==
    /\ call = [c \in Calls |-> NewCall]
    /\ record = {} /\ made = <<>>
    /\ session = [c \in Calls |-> NoSession]
    /\ artifact = {} /\ hidden = {} /\ listed = {}
    /\ raw = {} /\ doomed = {}
    /\ crashes = 0 /\ lost = 0
-----------------------------------------------------------------------------
SessionsOf(a) == {s \in Calls : session[s].on = a /\ session[s].state # None}
Kept(a)       == {i \in DOMAIN made : made[i] \in SessionsOf(a) /\ ~session[made[i]].superseded}
Current(a)    == made[CHOOSE i \in Kept(a) : \A j \in Kept(a) : j <= i]
HasReady(a)   == \E s \in SessionsOf(a) : session[s].state = "committed"

\* The index of sessions that are neither superseded nor committed has one per Artifact.
Unfinished(a) ==
    {s \in SessionsOf(a) : ~session[s].superseded /\ session[s].state # "committed"}

ReplacesFailed(a) == Kept(a) # {} /\ session[Current(a)].state = "failed"
CreatesVersion(a) == HasReady(a) /\ ~ReplacesFailed(a)
Accepts(a) ==
    \/ ReplacesFailed(a)
    \/ CreatesVersion(a) /\ session[Current(a)].state = "committed"

Under(op, a, k) == {d \in record : d.op = op /\ d.on = a /\ d.key = k}
Mine(c)         == {d \in record : d.by = c /\ d.state = "pending"}

Replies(c, d) == d.state = "completed" /\ d.input = c.input

\* Calls are named in the order they begin.
Fresh(c) == call[c].at = "new" /\ c = CHOOSE x \in Calls : call[x].at = "new"

\* claimPending and what follows it: the call goes on, answers what is stored, or refuses.
Claim(c, asked, next) ==
    LET found == Under(asked.op, asked.on, asked.key) IN
    IF found = {}
    THEN /\ call' = [call EXCEPT ![c] = [asked EXCEPT !.at = next]]
         /\ record' = record \union {[op |-> asked.op, on |-> asked.on, key |-> asked.key,
                by |-> c, state |-> "pending", input |-> None, answer |-> None]}
    ELSE /\ record' = record
         /\ \E d \in found : call' = [call EXCEPT ![c] =
              IF Replies(asked, d) THEN [asked EXCEPT !.at = "answered", !.answer = d.answer]
              ELSE [asked EXCEPT !.at = "refused"]]

Asked(op, a, k, i, previous) ==
    [at |-> None, op |-> op, on |-> a, key |-> k, input |-> i,
     previous |-> previous, answer |-> None]

Create(c, k, i) ==
    /\ Fresh(c)
    /\ Claim(c, Asked("create_artifact", None, k, i, None), "writing")
    /\ UNCHANGED <<session, made, owned, store, crashes, lost>>

\* Replace file and upload Version are one call: what it is follows from the Artifact's state.
Replace(c, a, k, i) ==
    /\ Fresh(c) /\ a \in artifact \ hidden
    /\ LET previous == IF Kept(a) = {} THEN None ELSE Current(a)
           op == IF CreatesVersion(a) THEN "upload_version" ELSE "replace_upload"
       IN Claim(c, Asked(op, a, k, i, previous), IF Accepts(a) THEN "writing" ELSE "releasing")
    /\ UNCHANGED <<session, made, owned, store, crashes, lost>>

Retry(c, s, k) ==
    /\ Fresh(c)
    /\ session[s].state = "retryable" /\ ~session[s].superseded
    /\ Claim(c, Asked("retry_upload", s, k, None, s), "committing")
    /\ UNCHANGED <<session, made, owned, store, crashes, lost>>
-----------------------------------------------------------------------------
Goto(c, at) == call' = [call EXCEPT ![c].at = at]

WriteRawZip(c) ==
    /\ call[c].at = "writing" /\ Goto(c, "committing")
    /\ raw' = raw \union {c}
    /\ UNCHANGED <<record, session, made, owned, doomed, crashes, lost>>

\* The stream breaks off.
WriteFails(c) ==
    /\ call[c].at = "writing" /\ Goto(c, "releasing")
    /\ UNCHANGED <<record, session, made, owned, store, crashes, lost>>

\* A name, an entry or a size that is only known to be wrong at the end of the body.
RejectInput(c) ==
    /\ call[c].at = "committing" /\ call[c].op # "retry_upload" /\ Goto(c, "failing")
    /\ UNCHANGED <<record, session, made, owned, store, crashes, lost>>

Replaceable(s) == session[s].state = "failed" /\ ~session[s].superseded
Retryable(s)   == session[s].state = "retryable" /\ ~session[s].superseded

\* What the transaction of each operation asks of the rows it meets, its record first.
Committable(c) ==
    LET op == call[c].op  on == call[c].on IN
    /\ Mine(c) # {}
    /\ \/ op = "create_artifact"
       \/ op = "upload_version" /\ on \in artifact /\ Unfinished(on) = {}
       \/ op = "replace_upload" /\ on \in artifact /\ Replaceable(call[c].previous)
       \/ op = "retry_upload" /\ Retryable(on)

InsertsSession(c, a, rows) ==
    /\ session' = [rows EXCEPT ![c] = [on |-> a, state |-> "accepted", superseded |-> FALSE]]
    /\ made' = Append(made, c)

CommitAccepted(c) ==
    /\ call[c].op = "create_artifact"
    /\ InsertsSession(c, c, session)
    /\ artifact' = artifact \union {c}

CommitVersionUpload(c) ==
    /\ call[c].op = "upload_version"
    /\ InsertsSession(c, call[c].on, session)
    /\ UNCHANGED artifact

CommitReplacement(c) ==
    /\ call[c].op = "replace_upload"
    /\ InsertsSession(c, call[c].on, [session EXCEPT ![call[c].previous].superseded = TRUE])
    /\ UNCHANGED artifact

QueueManualRetry(c) ==
    /\ call[c].op = "retry_upload"
    /\ session' = [session EXCEPT ![call[c].on].state = "accepted"]
    /\ UNCHANGED <<made, artifact>>

Answer(c) == IF call[c].op = "retry_upload" THEN call[c].on ELSE c

\* The record is completed in the transaction that makes the session.
Completes(c) ==
    record' = (record \ Mine(c)) \union
        {[d EXCEPT !.state = "completed", !.input = call[c].input, !.answer = Answer(c)] :
            d \in Mine(c)}

\* Only what a call wrote is discarded.
Undo(c) == IF call[c].op = "retry_upload" THEN "releasing" ELSE "failing"

Commits(c) ==
    /\ call[c].at = "committing" /\ Committable(c)
    /\ CommitAccepted(c) \/ CommitVersionUpload(c) \/ CommitReplacement(c) \/ QueueManualRetry(c)
    /\ Completes(c)
    /\ UNCHANGED <<hidden, listed, store, crashes>>

Commit(c) ==
    /\ Commits(c)
    /\ call' = [call EXCEPT ![c].at = "answered", ![c].answer = Answer(c)]
    /\ UNCHANGED lost

\* The connection breaks between the commit and its acknowledgement.
CommitUnheard(c) ==
    /\ Commits(c) /\ Goto(c, Undo(c))
    /\ lost < MaxLostReplies /\ lost' = lost + 1

\* The transaction is rolled back: a row it needs is gone, in another state, or in its way.
CommitFails(c) ==
    /\ call[c].at = "committing" /\ ~Committable(c) /\ Goto(c, Undo(c))
    /\ UNCHANGED <<record, session, made, owned, store, crashes, lost>>

\* A catch block that forgets the claim.
DiscardWithoutRelease(c) ==
    /\ call[c].at = "failing" /\ Goto(c, "refused")
    /\ raw' \in {raw, raw \ {c}}
    /\ UNCHANGED <<record, session, made, owned, doomed, crashes, lost>>

\* discardUncommittedRawObject: a deletion that fails is not reported.
Discard(c) ==
    /\ call[c].at = "failing" /\ Goto(c, "releasing")
    /\ raw' \in {raw, raw \ {c}}
    /\ UNCHANGED <<record, session, made, owned, doomed, crashes, lost>>

\* A release that did not ask for the pending state.
ReleasedWhateverState(c) == {d \in record : d.by = c}
Released(c)              == Mine(c)

ReleasePending(c) ==
    /\ call[c].at = "releasing" /\ Goto(c, "refused")
    /\ record' = record \ Released(c)
    /\ UNCHANGED <<session, made, owned, store, crashes, lost>>

InFlight(c) == call[c].at \notin {"new", "answered", "refused", "crashed"}

Crash(c) ==
    /\ InFlight(c) /\ crashes < MaxCrashes /\ crashes' = crashes + 1
    /\ Goto(c, "crashed")
    /\ UNCHANGED <<record, session, made, owned, store, lost>>
-----------------------------------------------------------------------------
(* Processing, deletion and the scan of raw objects. *)

\* Without its input a session can only fail.
Process(s) ==
    /\ session[s].state = "accepted"
    /\ \E outcome \in {"failed", "retryable"} \union (IF s \in raw THEN {"committed"} ELSE {}) :
         session' = [session EXCEPT ![s].state = outcome]
    /\ UNCHANGED <<call, record, made, owned, store, crashes, lost>>

ShareToGallery(a) ==
    /\ a \in artifact \ (hidden \union listed) /\ HasReady(a)
    /\ listed' = listed \union {a}
    /\ UNCHANGED <<call, record, session, made, artifact, hidden, store, crashes, lost>>

\* The Artifact goes with its sessions and records, or stays behind its listing, hidden.
Delete(a) ==
    /\ a \in artifact \ hidden
    /\ \A s \in SessionsOf(a) : session[s].state # "accepted"
    /\ raw' = raw \ SessionsOf(a)
    /\ IF a \in listed
       THEN hidden' = hidden \union {a} /\ UNCHANGED <<artifact, session, record>>
       ELSE /\ artifact' = artifact \ {a} /\ UNCHANGED hidden
            /\ session' = [s \in Calls |-> IF s \in SessionsOf(a) THEN NoSession ELSE session[s]]
            /\ record' = {d \in record : d.on # a}
    /\ UNCHANGED <<call, made, listed, doomed, crashes, lost>>

\* A scan that took every session that is over for one that needs its input no more.
RemovableOnceOver(o) ==
    \/ session[o].state # "accepted"
    \/ session[o].superseded

\* No session names the object, or the one that does has been superseded or committed.
Removable(o) ==
    \/ session[o].state \in {None, "committed"}
    \/ session[o].superseded

\* A page of the listing: objects older than a cutoff that no call under way has written.
ScanFinds ==
    /\ doomed = {}
    /\ doomed' = {o \in raw : ~InFlight(o) /\ Removable(o)}
    /\ UNCHANGED <<call, record, session, made, owned, raw, crashes, lost>>

ScanDeletes(o) ==
    /\ o \in doomed
    /\ raw' = raw \ {o} /\ doomed' = doomed \ {o}
    /\ UNCHANGED <<call, record, session, made, owned, crashes, lost>>
-----------------------------------------------------------------------------
Step(c) ==
    \/ WriteRawZip(c) \/ WriteFails(c) \/ RejectInput(c)
    \/ Commit(c) \/ CommitUnheard(c) \/ CommitFails(c) \/ Discard(c) \/ ReleasePending(c)

Begin(c) ==
    \E k \in Keys :
        \/ \E i \in Inputs : Create(c, k, i) \/ \E a \in Calls : Replace(c, a, k, i)
        \/ \E s \in Calls : Retry(c, s, k)

Next ==
    \/ \E c \in Calls : Begin(c) \/ Step(c) \/ Crash(c)
    \/ \E s \in Calls : Process(s) \/ ShareToGallery(s) \/ Delete(s) \/ ScanDeletes(s)
    \/ ScanFinds

\* A call that has begun goes on until its process stops.
Spec == Init /\ [][Next]_vars /\ \A c \in Calls : WF_vars(Step(c))
-----------------------------------------------------------------------------
(* Properties. *)

(***************************************************************************)
(* Repeating a creation with the same key collapses into one result: the   *)
(* calls that were answered, and those applied without an answer, made one *)
(* Artifact between them, and every answer names it and is for the input   *)
(* it was made of (create, claimPending, commitAccepted, releasePending).  *)
(***************************************************************************)
CreatedOnce ==
    \A c, d \in Calls :
        LET made_by(x) == call[x].op = "create_artifact" /\ x \in {made[i] : i \in DOMAIN made}
        IN (/\ made_by(c) /\ call[d].op = "create_artifact" /\ call[d].key = call[c].key
            /\ made_by(d) \/ call[d].at = "answered")
           => /\ made_by(d) => c = d
              /\ call[d].at = "answered" => call[d].answer = c /\ call[d].input = call[c].input

(***************************************************************************)
(* The input of a session that is to be processed or retried is in         *)
(* storage, unless the call that committed it was told of a failure and    *)
(* discards it, which is the one way to lose it (the catch block of create *)
(* and replace); the raw scan and the end of other calls never take it.    *)
(***************************************************************************)
InputIsRetained ==
    \A s \in Calls :
        /\ session[s].state \in {"accepted", "retryable"} /\ ~session[s].superseded
        /\ s \notin raw
        => call[s].at \in {"releasing", "refused", "crashed"} \/ session[s].on \in hidden

(***************************************************************************)
(* A claim does not outlive its call: a pending record is completed or     *)
(* released, so that the key can be used again, unless the process stops.  *)
(***************************************************************************)
ClaimsEnd ==
    \A c \in Calls : Mine(c) # {} ~> (Mine(c) = {} \/ call[c].at = "crashed")
=============================================================================
