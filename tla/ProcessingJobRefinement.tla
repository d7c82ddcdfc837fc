----------------------- MODULE ProcessingJobRefinement -----------------------
(***************************************************************************)
(* The processing job implements the Upload lifecycle the Owner sees.      *)
(***************************************************************************)
EXTENDS ProcessingJob

\* retryable and superseded only qualify a failed session.
StatusOf(s) ==
    IF Open(s) THEN "open"
    ELSE IF sessionState[s] # "failed" THEN sessionState[s]
    ELSE IF superseded[s] THEN "superseded"
    ELSE IF retryable[s] THEN "retryable"
    ELSE "final"

Lifecycle == INSTANCE UploadLifecycle WITH status <- [s \in Sessions |-> StatusOf(s)]

\* Every transaction of the job store, the API and Reconciliation is a step of
\* the Upload lifecycle or leaves it unchanged.
ImplementsLifecycle == Lifecycle!Spec

\* ... and under the Workers' fairness no Upload stays open.
ImplementsFairLifecycle == Lifecycle!FairSpec
=============================================================================
