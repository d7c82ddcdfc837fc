-------------------------- MODULE UploadLifecycle --------------------------
(***************************************************************************)
(* What processing promises the Owner of an Upload: an accepted Upload is  *)
(* open until it is committed as a Version or fails; a commit is final; a  *)
(* failure is final, to be replaced by another file, or can be retried     *)
(* against the retained raw ZIP; no Upload stays open for ever; and only   *)
(* an Artifact without an open Upload is deleted.                          *)
(***************************************************************************)
CONSTANTS Sessions, ArtifactOf

VARIABLE status

Statuses == {"absent", "open", "committed", "retryable", "final", "superseded",
             "deleted"}

TypeOK == status \in [Sessions -> Statuses]

Init == status = [s \in Sessions |-> "absent"]

Become(s, new) == status' = [status EXCEPT ![s] = new]

Submit(s) == status[s] = "absent" /\ Become(s, "open")

Replace(old, new) ==
    /\ ArtifactOf[old] = ArtifactOf[new]
    /\ status[old] = "final"
    /\ status[new] = "absent"
    /\ status' = [status EXCEPT ![old] = "superseded", ![new] = "open"]

Retry(s) == status[s] = "retryable" /\ Become(s, "open")

Commit(s) == status[s] = "open" /\ Become(s, "committed")

Reject(s) == status[s] = "open" /\ Become(s, "final")

\* One recovery may give up on several Uploads.
Interrupt(sessions) ==
    /\ \A s \in sessions : status[s] = "open"
    /\ status' = [s \in Sessions |-> IF s \in sessions THEN "retryable" ELSE status[s]]

Delete(sessions) ==
    /\ \A s \in sessions : status[s] \notin {"absent", "open"}
    /\ \A s, t \in Sessions :
         s \in sessions /\ ArtifactOf[t] = ArtifactOf[s] => status[t] # "open"
    /\ status' = [s \in Sessions |-> IF s \in sessions THEN "deleted" ELSE status[s]]

Next ==
    \/ \E s \in Sessions : Submit(s) \/ Retry(s) \/ Commit(s) \/ Reject(s)
    \/ \E old, new \in Sessions : Replace(old, new)
    \/ \E sessions \in SUBSET Sessions : Interrupt(sessions) \/ Delete(sessions)

Spec == Init /\ [][Next]_status

Settle(s) == Next /\ status[s] = "open" /\ status'[s] # "open"

FairSpec == Spec /\ \A s \in Sessions : WF_status(Settle(s))
=============================================================================
